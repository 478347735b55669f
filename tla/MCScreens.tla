----------------------------- MODULE MCScreens -----------------------------
(* Two of everything; the bounds are in screens.cfg and claim_filed_twice.cfg. *)
EXTENDS Screens

CONSTANTS a1, a2, c1, c2, p1, p2, i1, i2, t1, t2

Accounts == {a1, a2}
Chains   == {c1, c2}
Subjects == {p1, p2}
Items    == {i1, i2}
Tabs     == {t1, t2}
=============================================================================
