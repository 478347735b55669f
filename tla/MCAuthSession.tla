--------------------------- MODULE MCAuthSession ---------------------------
EXTENDS AuthSession, TLC

CONSTANTS asha, bina, q1, q2

TwoUsers == {asha, bina}
\* A citizen and an employer's member: the two consoles each may stray into.
Roles == (asha :> "SEEKER") @@ (bina :> "ORG_MEMBER")
Kinds == (asha :> NoOrg) @@ (bina :> "EMPLOYER")
OneQuery == {q1}
TwoQueries == {q1, q2}

AnyQuery == Permutations(TwoQueries)
=============================================================================
