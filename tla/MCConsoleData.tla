--------------------------- MODULE MCConsoleData ---------------------------
(* Every query of every console, one at a time; the values are in data.cfg. *)
EXTENDS ConsoleData
=============================================================================
