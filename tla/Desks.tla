-------------------------------- MODULE Desks --------------------------------
(***************************************************************************)
(* Decisions taken on a card or a panel: an employer's claims (ClaimCard), *)
(* an issuer's revocations (RevokePanel), the registrar's organisations    *)
(* (OrganizationCard) and a holder's offers (OfferCard).                   *)
(*                                                                         *)
(* A behaviour is about one desk.  What a card shows is what the list last *)
(* fetched; the server looks at the status before it writes, without a     *)
(* lock except for offers, and colleagues decide too.  A reason is         *)
(* abstracted to the item it was typed for.                                *)
(***************************************************************************)
EXTENDS Integers, FiniteSets

CONSTANTS
    Item,           \* claims, records, organisations or offers
    NoReason,       \* nothing typed
    MaxDecisions,   \* bound of the model: decisions sent from this desk
    MaxOthers       \* bound of the model: decisions of colleagues

VARIABLES
    desk,               \* chosen at the start
    status, seen,       \* of each item, on the server and in the list
    panel, why,         \* the panel open on each item, and the reason typed
    decisions,          \* requests under way
    decided, others,    \* counters behind the bounds
    recorded,           \* history: what took effect, with its reason
    switched,           \* history: has the revocation panel changed its record?
    raced,              \* history: was a decision written over another one?
    misled              \* history: was an organisation decided on from a card that
                        \* did not show its status?

deskVars == <<desk, status, seen, panel, why, decisions, decided, others, recorded,
              switched, raced, misled>>

Desk == {"claims", "records", "organizations", "offers"}
Unlocked == desk # "offers"
OnePanel == desk = "records"

(***************************************************************************)
(* What each card offers in a status: at once, and behind a panel that     *)
(* asks for a reason.                                                      *)
(***************************************************************************)
\* Mutant: a rejected application is approved from its card.
RejectedReopens(s) ==
    [at_once |-> CASE s \in {"PENDING", "REJECTED"} -> {"approve"}
                   [] s = "SUSPENDED" -> {"reinstate"} [] OTHER -> {},
     asking  |-> CASE s = "PENDING" -> {"reject"} [] s = "APPROVED" -> {"suspend"}
                   [] OTHER -> {}]

OrganizationCard(s) ==
    [at_once |-> CASE s = "PENDING" -> {"approve"} [] s = "SUSPENDED" -> {"reinstate"}
                   [] OTHER -> {},
     asking  |-> CASE s = "PENDING" -> {"reject"} [] s = "APPROVED" -> {"suspend"}
                   [] OTHER -> {}]

\* The employer's list holds claims to review, the holder's the open offers.
ClaimCard(s) ==
    [at_once |-> IF s = "PENDING_REVIEW" THEN {"endorse"} ELSE {},
     asking  |-> IF s = "PENDING_REVIEW" THEN {"reject"} ELSE {}]
OfferCard(s) ==
    [at_once |-> IF s = "OFFERED" THEN {"accept"} ELSE {},
     asking  |-> IF s = "OFFERED" THEN {"decline"} ELSE {}]
RecordRow(s) == [at_once |-> {}, asking |-> IF s = "ISSUED" THEN {"revoke"} ELSE {}]

Card(s) == CASE desk = "claims" -> ClaimCard(s)
             [] desk = "records" -> RecordRow(s)
             [] desk = "organizations" -> OrganizationCard(s)
             [] desk = "offers" -> OfferCard(s)

NeedsReason(act) == act \in {"reject", "suspend", "revoke"}

(***************************************************************************)
(* The server: from which statuses each decision is taken, and to which.   *)
(***************************************************************************)
Refuses(act, s) ==
    CASE desk = "claims"  -> s # "PENDING_REVIEW"
      [] desk = "records" -> s \notin {"ISSUED", "PENDING_ANCHOR"}
      [] desk = "offers"  -> s # "OFFERED"
      [] desk = "organizations" /\ act \in {"approve", "reject"} -> s = "APPROVED"
      [] desk = "organizations" /\ act = "suspend"   -> s # "APPROVED"
      [] desk = "organizations" /\ act = "reinstate" -> s # "SUSPENDED"

To == [endorse |-> "PENDING_ANCHOR", reject |-> "REJECTED", revoke |-> "REVOKED",
       accept |-> "PENDING_ANCHOR", decline |-> "DECLINED",
       approve |-> "APPROVED", suspend |-> "SUSPENDED", reinstate |-> "APPROVED"]

\* The acts each desk has.
Acts == [claims |-> {"endorse", "reject"}, records |-> {"revoke"},
         organizations |-> {"approve", "reject", "suspend", "reinstate"},
         offers |-> {"accept", "decline"}]
First == [claims |-> "PENDING_REVIEW", records |-> "ISSUED",
          organizations |-> "PENDING", offers |-> "OFFERED"]

(***************************************************************************)
(* The lists and their panels.                                             *)
(***************************************************************************)
\* The list is fetched again.  What a filter no longer lets through is unmounted
\* with its panel; the revocation panel belongs to the page and stays.
Refetch(gone) ==
    /\ gone \subseteq {i \in Item : status[i] # seen[i]} /\ seen # status
    /\ seen' = status
    /\ IF OnePanel THEN UNCHANGED <<panel, why, decisions>>
       ELSE /\ panel' = [i \in Item |-> IF i \in gone THEN "closed" ELSE panel[i]]
            /\ why' = [i \in Item |-> IF i \in gone THEN NoReason ELSE why[i]]
            /\ decisions' = {[f EXCEPT !.here = @ /\ f.item \notin gone] : f \in decisions}
    /\ UNCHANGED <<desk, status, decided, others, recorded, switched, raced, misled>>

\* isPending: of the card's mutation, or the panel's.  The mutant forgets it.
NotDeciding(i) == FALSE
Deciding(i) == \E f \in decisions : f.here /\ (OnePanel \/ f.item = i)

OpenPanel(i, act) ==
    /\ desk = "offers" => ~Deciding(i)
    /\ panel[i] = "closed" /\ act \in Card(seen[i]).asking
    /\ panel' = [j \in Item |-> IF j = i THEN act
                                   ELSE IF OnePanel THEN "closed" ELSE panel[j]]
    /\ switched' = (switched \/ (OnePanel /\ \E j \in Item : panel[j] # "closed"))
    /\ UNCHANGED <<desk, status, seen, why, decisions, decided, others, recorded,
                   raced, misled>>

\* The one revocation panel has one reason, and no key: opened for another record
\* it keeps its reason.
Type(i) ==
    /\ panel[i] # "closed" /\ why[i] # i
    /\ why' = IF OnePanel THEN [j \in Item |-> i] ELSE [why EXCEPT ![i] = i]
    /\ UNCHANGED <<desk, status, seen, panel, decisions, decided, others, recorded,
                   switched, raced, misled>>

\* Mutant: the panel is hidden with its reason in it.
HidePanels(is) ==
    /\ panel' = [j \in Item |-> IF j \in is THEN "closed" ELSE panel[j]]
    /\ UNCHANGED why

\* A card keeps the reason of a panel that was cancelled; the revocation panel is
\* unmounted with it.
ClosePanels(is) ==
    /\ panel' = [j \in Item |-> IF j \in is THEN "closed" ELSE panel[j]]
    /\ why' = IF OnePanel THEN [j \in Item |-> NoReason] ELSE why

Cancel(i) ==
    /\ panel[i] # "closed" /\ (desk = "offers" => ~Deciding(i))
    /\ ClosePanels({i})
    /\ decisions' = {[f EXCEPT !.here = @ /\ ~OnePanel] : f \in decisions}
    /\ UNCHANGED <<desk, status, seen, decided, others, recorded, switched, raced, misled>>

Decide(i, act) ==
    /\ \/ panel[i] = "closed" /\ act \in Card(seen[i]).at_once
       \/ panel[i] = act /\ (NeedsReason(act) => why[i] # NoReason)
    /\ ~Deciding(i)
    /\ decided < MaxDecisions /\ decided' = decided + 1
    /\ decisions' = decisions \cup
          {[n |-> decided, item |-> i, act |-> act, pc |-> "sent", here |-> TRUE,
            why |-> IF act \in {"accept", "approve", "reinstate"} THEN NoReason ELSE why[i],
            saw |-> IF act \in Card(seen[i]).at_once \cup Card(seen[i]).asking
                    THEN seen[i] ELSE "something else",
            from |-> seen[i]]}
    /\ UNCHANGED <<desk, status, seen, panel, why, others, recorded, switched, raced, misled>>

(***************************************************************************)
(* The server.                                                             *)
(***************************************************************************)
Progress(f, g) == decisions' = (decisions \ {f}) \cup {g}

\* The look at the status; what is refused for another reason (the ledger, a
\* duplicate) is refused here too.
Check(f) ==
    /\ f.pc = "sent"
    /\ \/ ~Refuses(f.act, status[f.item])
          /\ Progress(f, [f EXCEPT !.pc = "checked", !.from = status[f.item]])
       \/ Progress(f, [f EXCEPT !.pc = "refused"])
    /\ UNCHANGED <<desk, status, seen, panel, why, decided, others, recorded, switched,
                   raced, misled>>

Record(f) ==
    /\ f.pc = "checked"
    /\ Unlocked \/ f.from = status[f.item]
    /\ status' = [status EXCEPT ![f.item] = To[f.act]]
    /\ recorded' = recorded \cup {[item |-> f.item, act |-> f.act, why |-> f.why]}
    /\ raced' = (raced \/ f.from # status[f.item])
    /\ misled' = (misled \/ (desk = "organizations" /\ f.saw # f.from))
    /\ Progress(f, [f EXCEPT !.pc = "done"])
    /\ UNCHANGED <<desk, seen, panel, why, decided, others, switched>>

\* A colleague, with the reason that is asked of them too.
OthersDecide(i, act) ==
    /\ act \in Card(status[i]).at_once \cup Card(status[i]).asking
    /\ ~Refuses(act, status[i])
    /\ Unlocked \/ \A f \in decisions : f.item = i => f.pc # "checked"
    /\ others < MaxOthers /\ others' = others + 1
    /\ status' = [status EXCEPT ![i] = To[act]]
    /\ UNCHANGED <<desk, seen, panel, why, decisions, decided, recorded, switched, raced,
                   misled>>

(***************************************************************************)
(* The answer.  A success closes the panel it finds: the organisation's    *)
(* own, or whichever revocation is being written by then.                  *)
(***************************************************************************)
Answered(f) ==
    /\ f.pc = "done"
    /\ decisions' = IF OnePanel THEN {[g EXCEPT !.here = FALSE] : g \in decisions \ {f}}
                    ELSE decisions \ {f}
    /\ CASE desk = "records" -> ClosePanels(Item)
         [] desk = "organizations" /\ f.here ->
               /\ panel' = [panel EXCEPT ![f.item] = "closed"]
               /\ why' = [why EXCEPT ![f.item] = NoReason]
         [] OTHER -> UNCHANGED <<panel, why>>
    /\ UNCHANGED <<desk, status, seen, decided, others, recorded, switched, raced, misled>>

\* Refused, or its answer lost: an error, and everything stays as it was.
Failed(f) ==
    /\ f.pc # "checked"
    /\ decisions' = decisions \ {f}
    /\ UNCHANGED <<desk, status, seen, panel, why, decided, others, recorded, switched,
                   raced, misled>>

DesksInit ==
    /\ desk \in Desk
    /\ status = [i \in Item |-> First[desk]] /\ seen = status
    /\ panel = [i \in Item |-> "closed"] /\ why = [i \in Item |-> NoReason]
    /\ decisions = {} /\ decided = 0 /\ others = 0 /\ recorded = {}
    /\ switched = FALSE /\ raced = FALSE /\ misled = FALSE

DesksNext ==
    \/ \E gone \in SUBSET Item : Refetch(gone)
    \/ \E i \in Item : Type(i) \/ Cancel(i)
    \/ \E i \in Item, act \in Acts[desk] :
          OpenPanel(i, act) \/ Decide(i, act) \/ OthersDecide(i, act)
    \/ \E f \in decisions : Check(f) \/ Record(f) \/ Answered(f) \/ Failed(f)

DesksSpec == DesksInit /\ [][DesksNext]_deskVars

-----------------------------------------------------------------------------
Statuses == {"PENDING_REVIEW", "PENDING_ANCHOR", "REJECTED", "ISSUED", "REVOKED",
             "OFFERED", "DECLINED", "PENDING", "APPROVED", "SUSPENDED"}

\* The shape of the state; a card or panel has one decision under way.
DesksTypeOK ==
    /\ desk \in Desk /\ {status[i] : i \in Item} \cup {seen[i] : i \in Item} \subseteq Statuses
    /\ panel \in [Item -> {"closed"} \cup Acts[desk]]
    /\ why \in [Item -> Item \cup {NoReason}]
    /\ \A f \in decisions : f.pc \in {"sent", "checked", "refused", "done"}
    /\ \A f, g \in decisions : f.here /\ g.here /\ f.item = g.item => f = g

\* A rejection, a suspension and a revocation come with a reason that was written
\* for that very item, whatever panels were opened, cancelled, filtered away and
\* opened again, and whichever answer came in between; only a revocation panel
\* that is moved to another record takes its reason along.
ReasonIsForIt ==
    \A r \in recorded :
        /\ NeedsReason(r.act) => r.why # NoReason
        /\ r.why \in {NoReason, r.item} \/ switched

Legal ==
    [claims  |-> {<<"PENDING_REVIEW", "PENDING_ANCHOR">>, <<"PENDING_REVIEW", "REJECTED">>},
     records |-> {<<"ISSUED", "REVOKED">>},
     offers  |-> {<<"OFFERED", "PENDING_ANCHOR">>, <<"OFFERED", "DECLINED">>},
     organizations |-> {<<"PENDING", "APPROVED">>, <<"PENDING", "REJECTED">>,
                        <<"APPROVED", "SUSPENDED">>, <<"SUSPENDED", "APPROVED">>}]

\* What is decided stays decided: however stale the lists, a claim, a record and an
\* offer leave their first status once, and an organisation that was rejected is not
\* approved, nor one that is on the ledger rejected.  Left out are decisions written
\* over one that was checked at the same time, and an organisation decided on from a
\* card that did not show its status any more: the server's guards let both pass.
MovesAreLegal ==
    [][ \A i \in Item :
           (status'[i] # status[i] /\ ~raced' /\ ~misled')
           => <<status[i], status'[i]>> \in Legal[desk] ]_deskVars
=============================================================================
