------------------------ MODULE ConsentedPublication ------------------------
(***************************************************************************)
(* What the platform promises about one credential, with no request,       *)
(* process or transaction in sight: the holder is asked once and answers   *)
(* once; only a confirmed record is published, once and for good; it is    *)
(* withdrawn only on a recorded order; and the platform reports as issued  *)
(* nothing that is not public.                                             *)
(*   credentials/confirmations.py, credentials/models.py (the consent      *)
(*   gate), ledger/services.py                                             *)
(***************************************************************************)
CONSTANT Record

VARIABLES
    answer,     \* none, open (asked), confirmed, declined
    public,     \* absent, anchored, revoked
    ordered,    \* records whose withdrawal was ordered
    reported    \* records the platform reports as issued

vars == <<answer, public, ordered, reported>>

Init ==
    /\ answer = [r \in Record |-> "none"]
    /\ public = [r \in Record |-> "absent"]
    /\ ordered = {}
    /\ reported = {}

Ask(r) ==
    /\ answer[r] = "none"
    /\ answer' = [answer EXCEPT ![r] = "open"]
    /\ UNCHANGED <<public, ordered, reported>>

Answer(r, given) ==
    /\ answer[r] = "open"
    /\ answer' = [answer EXCEPT ![r] = given]
    /\ UNCHANGED <<public, ordered, reported>>

Publish(r) ==
    /\ answer[r] = "confirmed"
    /\ public[r] = "absent"
    /\ public' = [public EXCEPT ![r] = "anchored"]
    /\ UNCHANGED <<answer, ordered, reported>>

Order(r) ==
    /\ answer[r] = "confirmed"
    /\ ordered' = ordered \cup {r}
    /\ UNCHANGED <<answer, public, reported>>

Withdraw(r) ==
    /\ r \in ordered
    /\ public[r] = "anchored"
    /\ public' = [public EXCEPT ![r] = "revoked"]
    /\ UNCHANGED <<answer, ordered, reported>>

Report(r) ==
    /\ public[r] # "absent"
    /\ reported' = reported \cup {r}
    /\ UNCHANGED <<answer, public, ordered>>

StopReporting(some) ==
    /\ reported' = reported \ some
    /\ UNCHANGED <<answer, public, ordered>>

Next ==
    \/ \E r \in Record :
        \/ Ask(r)
        \/ Answer(r, "confirmed") \/ Answer(r, "declined")
        \/ Publish(r) \/ Order(r) \/ Withdraw(r) \/ Report(r)
    \/ \E some \in SUBSET Record : StopReporting(some)

Spec == Init /\ [][Next]_vars
=============================================================================
