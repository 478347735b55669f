------------------------ MODULE MCCredentialRegistry ------------------------
(* Two senders, either of whom can be registrar and issuer, and three hashes: *)
(* enough for a handover, a foreign issuer, a chain of two corrections and a  *)
(* batch with a repeated hash.                                                *)
EXTENDS CredentialRegistry, TLC

CONSTANTS deployer, uni, h1, h2, h3, zeroAddress, zeroHash

MCAccount == {deployer, uni}
MCHash == {h1, h2, h3}
MCReason == {"text"}
HashSymmetry == Permutations(MCHash)
=============================================================================
