----------------------------- MODULE DesksProofs -----------------------------
(***************************************************************************)
(* Proofs about the desks, for any number of items, of decisions sent and  *)
(* of decisions of colleagues.                                             *)
(***************************************************************************)
EXTENDS Desks, TLAPS

(***************************************************************************)
(* Types                                                                   *)
(***************************************************************************)
\* The statuses an item of each desk goes through.
Reached ==
    [claims  |-> {"PENDING_REVIEW", "PENDING_ANCHOR", "REJECTED"},
     records |-> {"ISSUED", "REVOKED"},
     organizations |-> {"PENDING", "APPROVED", "REJECTED", "SUSPENDED"},
     offers  |-> {"OFFERED", "PENDING_ANCHOR", "DECLINED"}]

Reasons == Item \cup {NoReason}

Decision == [n : Nat, item : Item, act : Acts[desk],
             pc : {"sent", "checked", "refused", "done"}, here : BOOLEAN, why : Reasons,
             saw : Reached[desk] \cup {"something else"}, from : Reached[desk]]

DeskTypes ==
    /\ desk \in Desk /\ decided \in Nat
    /\ status \in [Item -> Reached[desk]] /\ seen \in [Item -> Reached[desk]]
    /\ panel \in [Item -> {"closed"} \cup Acts[desk]]
    /\ why \in [Item -> Reasons]
    /\ decisions \subseteq Decision

\* What is decided stays within the desk's statuses.
LEMMA DecidedReached ==
  ASSUME DeskTypes, NEW act \in Acts[desk]
  PROVE  To[act] \in Reached[desk]
<1>1. desk \in {"claims", "records", "organizations", "offers"}
  BY DEF DeskTypes, Desk
<1> QED
  BY <1>1 DEF Acts, To, Reached

\* A request forgotten by its card is the same request.
SameBut(f, g) ==
    /\ g \in Decision /\ f \in decisions
    /\ g.item = f.item /\ g.act = f.act /\ g.pc = f.pc
    /\ g.why = f.why /\ g.saw = f.saw /\ g.from = f.from

LEMMA Forgotten ==
  ASSUME DeskTypes, NEW f \in decisions, NEW b \in BOOLEAN
  PROVE  SameBut(f, [f EXCEPT !.here = b])
<1>1. f \in Decision
  BY DEF DeskTypes
<1> QED
  BY <1>1 DEF Decision, SameBut

\* Every step leaves the requests as they were, sends one, moves one on, or ends one.
LEMMA RefetchKeeps ==
  ASSUME DeskTypes, NEW gone, Refetch(gone)
  PROVE  \A g \in decisions' : \E f \in decisions : SameBut(f, g)
<1>1. CASE OnePanel
  <2>1. decisions' = decisions
    BY <1>1 DEF Refetch
  <2> QED
    BY <2>1 DEF DeskTypes, SameBut
<1>2. CASE ~OnePanel
  <2>1. decisions' = {[f EXCEPT !.here = f.here /\ f.item \notin gone] : f \in decisions}
    BY <1>2 DEF Refetch
  <2> SUFFICES ASSUME NEW g \in decisions' PROVE \E f \in decisions : SameBut(f, g)
    OBVIOUS
  <2>2. PICK f \in decisions : g = [f EXCEPT !.here = f.here /\ f.item \notin gone]
    BY <2>1
  <2>3. (f.here /\ f.item \notin gone) \in BOOLEAN
    OBVIOUS
  <2> QED
    BY <2>2, <2>3, Forgotten
<1> QED
  BY <1>1, <1>2

LEMMA CancelKeeps ==
  ASSUME DeskTypes, NEW i, Cancel(i)
  PROVE  \A g \in decisions' : \E f \in decisions : SameBut(f, g)
<1> SUFFICES ASSUME NEW g \in decisions' PROVE \E f \in decisions : SameBut(f, g)
  OBVIOUS
<1>1. PICK f \in decisions : g = [f EXCEPT !.here = f.here /\ ~OnePanel]
  BY DEF Cancel
<1>2. (f.here /\ ~OnePanel) \in BOOLEAN
  OBVIOUS
<1> QED
  BY <1>1, <1>2, Forgotten

LEMMA EndKeeps ==
  ASSUME DeskTypes, NEW h \in decisions, Answered(h) \/ Failed(h)
  PROVE  \A g \in decisions' : \E f \in decisions : SameBut(f, g)
<1> SUFFICES ASSUME NEW g \in decisions' PROVE \E f \in decisions : SameBut(f, g)
  OBVIOUS
<1>1. CASE g \in decisions
  BY <1>1 DEF DeskTypes, SameBut
<1>2. CASE g \notin decisions
  <2>1. PICK f \in decisions : g = [f EXCEPT !.here = FALSE]
    BY <1>2 DEF Answered, Failed
  <2> QED
    BY <2>1, Forgotten
<1> QED
  BY <1>1, <1>2

LEMMA InitDeskTypes == DesksInit => DeskTypes
<1> SUFFICES ASSUME DesksInit PROVE DeskTypes
  OBVIOUS
<1>1. desk \in {"claims", "records", "organizations", "offers"}
  BY DEF DesksInit, Desk
<1>2. First[desk] \in Reached[desk]
  BY <1>1 DEF First, Reached
<1> QED
  BY <1>2 DEF DesksInit, DeskTypes, Reasons

\* What the actions do to the lists and panels leaves them of their type.
LEMMA RefetchTypes ==
  ASSUME DeskTypes, NEW gone, Refetch(gone)
  PROVE  DeskTypes'
<1>1. decisions' \subseteq Decision
  BY RefetchKeeps DEF SameBut
<1>2. desk' = desk /\ decided' = decided /\ status' = status /\ seen' = status
  BY DEF Refetch
<1>3. panel' \in [Item -> {"closed"} \cup Acts[desk]] /\ why' \in [Item -> Reasons]
  <2>1. CASE OnePanel
    BY <2>1 DEF Refetch, DeskTypes
  <2>2. CASE ~OnePanel
    BY <2>2 DEF Refetch, DeskTypes, Reasons
  <2> QED
    BY <2>1, <2>2
<1> QED
  BY <1>1, <1>2, <1>3 DEF DeskTypes, Decision

LEMMA CardTypes ==
  ASSUME DeskTypes, NEW i \in Item, Type(i) \/ Cancel(i)
  PROVE  DeskTypes'
<1>1. desk' = desk /\ decided' = decided /\ status' = status /\ seen' = seen
  BY DEF Type, Cancel
<1>2. decisions' \subseteq Decision
  BY CancelKeeps DEF SameBut, Type, DeskTypes
<1>3. panel' \in [Item -> {"closed"} \cup Acts[desk]]
  BY DEF Type, Cancel, ClosePanels, DeskTypes
<1>4. why' \in [Item -> Reasons]
  <2>1. CASE OnePanel
    BY <2>1 DEF Type, Cancel, ClosePanels, DeskTypes, Reasons
  <2>2. CASE ~OnePanel
    BY <2>2 DEF Type, Cancel, ClosePanels, DeskTypes, Reasons
  <2> QED
    BY <2>1, <2>2
<1> QED
  BY <1>1, <1>2, <1>3, <1>4 DEF DeskTypes, Decision

LEMMA OpenPanelTypes ==
  ASSUME DeskTypes, NEW i \in Item, NEW act \in Acts[desk], OpenPanel(i, act)
  PROVE  DeskTypes'
<1>1. panel' \in [Item -> {"closed"} \cup Acts[desk]]
  BY DEF OpenPanel, DeskTypes
<1> QED
  BY <1>1 DEF OpenPanel, DeskTypes, Decision

\* The request a card sends.
SentDecision(i, act) ==
    [n |-> decided, item |-> i, act |-> act, pc |-> "sent", here |-> TRUE,
     why |-> IF act \in {"accept", "approve", "reinstate"} THEN NoReason ELSE why[i],
     saw |-> IF act \in Card(seen[i]).at_once \cup Card(seen[i]).asking
             THEN seen[i] ELSE "something else",
     from |-> seen[i]]

LEMMA DecideTypes ==
  ASSUME DeskTypes, NEW i \in Item, NEW act \in Acts[desk], Decide(i, act)
  PROVE  DeskTypes'
<1>1. decisions' = decisions \cup {SentDecision(i, act)}
  BY DEF Decide, SentDecision
<1>2. SentDecision(i, act) \in Decision
  <2>1. why[i] \in Reasons /\ seen[i] \in Reached[desk] /\ decided \in Nat
    BY DEF DeskTypes
  <2>2. (IF act \in {"accept", "approve", "reinstate"} THEN NoReason ELSE why[i]) \in Reasons
    BY <2>1 DEF Reasons
  <2>3. (IF act \in Card(seen[i]).at_once \cup Card(seen[i]).asking
         THEN seen[i] ELSE "something else") \in Reached[desk] \cup {"something else"}
    BY <2>1
  <2> QED
    BY <2>1, <2>2, <2>3 DEF SentDecision, Decision
<1>3. decided' \in Nat
  <2>1. decided' = decided + 1
    BY DEF Decide
  <2> QED
    BY <2>1 DEF DeskTypes
<1> QED
  BY <1>1, <1>2, <1>3 DEF Decide, DeskTypes, Decision

LEMMA OthersDecideTypes ==
  ASSUME DeskTypes, NEW i \in Item, NEW act \in Acts[desk], OthersDecide(i, act)
  PROVE  DeskTypes'
<1>1. status' \in [Item -> Reached[desk]]
  BY DecidedReached DEF OthersDecide, DeskTypes
<1> QED
  BY <1>1 DEF OthersDecide, DeskTypes, Decision

\* A request moved on is about the same item and act, for the same reason.
Moved(f, g) ==
    /\ g \in Decision /\ g.item = f.item /\ g.act = f.act /\ g.why = f.why /\ g.saw = f.saw
    /\ g.here = f.here

LEMMA CheckMoves ==
  ASSUME DeskTypes, NEW f \in decisions, Check(f)
  PROVE  \E g : /\ Moved(f, g) /\ decisions' = (decisions \ {f}) \cup {g}
                /\ g.pc = "checked" => /\ g.from = status[f.item]
                                       /\ ~Refuses(f.act, status[f.item])
<1>0. f \in Decision /\ status[f.item] \in Reached[desk]
  BY DEF DeskTypes, Decision
<1>1. CASE /\ ~Refuses(f.act, status[f.item])
           /\ Progress(f, [f EXCEPT !.pc = "checked", !.from = status[f.item]])
  <2> DEFINE g == [f EXCEPT !.pc = "checked", !.from = status[f.item]]
  <2>1. Moved(f, g) /\ g.from = status[f.item]
    BY <1>0 DEF Moved, Decision
  <2>2. decisions' = (decisions \ {f}) \cup {g}
    BY <1>1 DEF Progress
  <2> QED
    BY <1>1, <2>1, <2>2
<1>2. CASE Progress(f, [f EXCEPT !.pc = "refused"])
  <2> DEFINE g == [f EXCEPT !.pc = "refused"]
  <2>1. Moved(f, g) /\ g.pc = "refused"
    BY <1>0 DEF Moved, Decision
  <2>2. decisions' = (decisions \ {f}) \cup {g}
    BY <1>2 DEF Progress
  <2> QED
    BY <2>1, <2>2
<1> QED
  BY <1>1, <1>2 DEF Check

LEMMA RecordMoves ==
  ASSUME DeskTypes, NEW f \in decisions, Record(f)
  PROVE  \E g : /\ Moved(f, g) /\ decisions' = (decisions \ {f}) \cup {g}
                /\ g.pc = "done"
<1>0. f \in Decision
  BY DEF DeskTypes
<1> DEFINE g == [f EXCEPT !.pc = "done"]
<1>1. Moved(f, g) /\ g.pc = "done"
  BY <1>0 DEF Moved, Decision
<1>2. decisions' = (decisions \ {f}) \cup {g}
  BY DEF Record, Progress
<1> QED
  BY <1>1, <1>2

LEMMA ServerTypes ==
  ASSUME DeskTypes, NEW f \in decisions, Check(f) \/ Record(f)
  PROVE  DeskTypes'
<1>1. decisions' \subseteq Decision
  BY CheckMoves, RecordMoves DEF Moved, DeskTypes
<1>2. status' \in [Item -> Reached[desk]]
  <2>1. f.act \in Acts[desk]
    BY DEF DeskTypes, Decision
  <2>2. To[f.act] \in Reached[desk]
    BY <2>1, DecidedReached
  <2> QED
    BY <2>2 DEF Check, Record, DeskTypes
<1> QED
  BY <1>1, <1>2 DEF Check, Record, DeskTypes, Decision

LEMMA EndTypes ==
  ASSUME DeskTypes, NEW f \in decisions, Answered(f) \/ Failed(f)
  PROVE  DeskTypes'
<1>1. decisions' \subseteq Decision
  BY EndKeeps DEF SameBut
<1>2. /\ desk' = desk /\ decided' = decided /\ status' = status /\ seen' = seen
  BY DEF Answered, Failed
<1>3. panel' \in [Item -> {"closed"} \cup Acts[desk]] /\ why' \in [Item -> Reasons]
  <2>1. CASE Failed(f)
    BY <2>1 DEF Failed, DeskTypes
  <2>2. CASE Answered(f) /\ desk = "records"
    BY <2>2 DEF Answered, ClosePanels, OnePanel, DeskTypes, Reasons
  <2>3. CASE Answered(f) /\ desk # "records"
    BY <2>3 DEF Answered, DeskTypes, Reasons
  <2> QED
    BY <2>1, <2>2, <2>3
<1> QED
  BY <1>1, <1>2, <1>3 DEF DeskTypes, Decision

LEMMA NextDeskTypes == DeskTypes /\ [DesksNext]_deskVars => DeskTypes'
<1> SUFFICES ASSUME DeskTypes, [DesksNext]_deskVars PROVE DeskTypes'
  OBVIOUS
<1>1. CASE UNCHANGED deskVars
  BY <1>1 DEF deskVars, DeskTypes, Decision
<1>2. CASE DesksNext
  BY <1>2, RefetchTypes, CardTypes, OpenPanelTypes, DecideTypes, OthersDecideTypes,
     ServerTypes, EndTypes DEF DesksNext
<1> QED
  BY <1>1, <1>2

(***************************************************************************)
(* The reason of a decision                                                *)
(***************************************************************************)
\* A reason that may go with a decision about item i.
For(i, reason) == reason \in {NoReason, i} \/ switched

\* What waits in the panels: on a card, its own reason; in the one revocation panel,
\* the reason of the record it is open on.
PanelsHold ==
    /\ ~OnePanel => \A i \in Item : why[i] \in {NoReason, i}
    /\ (OnePanel /\ ~switched) =>
          /\ \A i \in Item : why[i] # NoReason => panel[why[i]] # "closed"
          /\ \A i, j \in Item : panel[i] # "closed" /\ panel[j] # "closed" => i = j

RequestsHold ==
    \A f \in decisions : (NeedsReason(f.act) => f.why # NoReason) /\ For(f.item, f.why)

ReasonInv == DeskTypes /\ PanelsHold /\ RequestsHold /\ ReasonIsForIt

LEMMA InitReason == DesksInit => ReasonInv
<1> SUFFICES ASSUME DesksInit PROVE ReasonInv
  OBVIOUS
<1>1. PanelsHold
  BY DEF DesksInit, PanelsHold
<1> QED
  BY <1>1, InitDeskTypes DEF DesksInit, ReasonInv, RequestsHold, ReasonIsForIt

\* Once switched, always switched: what was for an item stays for it.
LEMMA SwitchedStays == [DesksNext]_deskVars => (switched => switched')
<1> QED
  BY DEF DesksNext, deskVars, Refetch, Type, Cancel, OpenPanel, Decide, OthersDecide,
         Check, Record, Answered, Failed

\* Requests that are the same but for their card, or their place on the server.
LEMMA SameRequestsHold ==
  ASSUME RequestsHold, switched => switched',
         \A g \in decisions' : \E f \in decisions :
            g.item = f.item /\ g.act = f.act /\ g.why = f.why
  PROVE  RequestsHold'
<1> SUFFICES ASSUME NEW g \in decisions'
             PROVE  (NeedsReason(g.act) => g.why # NoReason)
                    /\ (g.why \in {NoReason, g.item} \/ switched')
  BY DEF RequestsHold, For
<1>1. PICK f \in decisions : g.item = f.item /\ g.act = f.act /\ g.why = f.why
  OBVIOUS
<1>2. (NeedsReason(f.act) => f.why # NoReason) /\ (f.why \in {NoReason, f.item} \/ switched)
  BY DEF RequestsHold, For
<1> QED
  BY <1>1, <1>2

LEMMA RefetchPanels ==
  ASSUME DeskTypes, PanelsHold, NEW gone, Refetch(gone)
  PROVE  PanelsHold'
<1>1. CASE OnePanel
  BY <1>1 DEF Refetch, PanelsHold, OnePanel
<1>2. CASE ~OnePanel
  BY <1>2 DEF Refetch, PanelsHold, OnePanel, DeskTypes
<1> QED
  BY <1>1, <1>2

LEMMA TypePanels ==
  ASSUME DeskTypes, PanelsHold, NEW i \in Item, Type(i)
  PROVE  PanelsHold'
<1>1. CASE OnePanel
  BY <1>1 DEF Type, PanelsHold, OnePanel, DeskTypes
<1>2. CASE ~OnePanel
  BY <1>2 DEF Type, PanelsHold, OnePanel, DeskTypes
<1> QED
  BY <1>1, <1>2

LEMMA CancelPanels ==
  ASSUME DeskTypes, PanelsHold, NEW i \in Item, Cancel(i)
  PROVE  PanelsHold'
<1>1. CASE OnePanel
  BY <1>1 DEF Cancel, ClosePanels, PanelsHold, OnePanel, DeskTypes
<1>2. CASE ~OnePanel
  BY <1>2 DEF Cancel, ClosePanels, PanelsHold, OnePanel, DeskTypes
<1> QED
  BY <1>1, <1>2

\* Opened with another one open, the panel has switched; with none open, there was no
\* reason in it.
LEMMA OpenPanels ==
  ASSUME DeskTypes, PanelsHold, NEW i \in Item, NEW act \in Acts[desk], OpenPanel(i, act)
  PROVE  PanelsHold'
<1>1. /\ panel' = [j \in Item |-> IF j = i THEN act
                                     ELSE IF OnePanel THEN "closed" ELSE panel[j]]
      /\ switched' = (switched \/ (OnePanel /\ \E j \in Item : panel[j] # "closed"))
      /\ why' = why /\ desk' = desk
  BY DEF OpenPanel
<1>2. CASE OnePanel /\ ~switched'
  <2>1. ~switched /\ \A j \in Item : panel[j] = "closed"
    BY <1>1, <1>2
  <2>2. \A j \in Item : why[j] = NoReason
    <3> SUFFICES ASSUME NEW j \in Item, why[j] # NoReason PROVE FALSE
      OBVIOUS
    <3>1. panel[why[j]] # "closed" /\ why[j] \in Item
      BY <1>2, <2>1 DEF PanelsHold, DeskTypes, Reasons
    <3> QED
      BY <3>1, <2>1
  <2>3. \A j, k \in Item : panel'[j] # "closed" /\ panel'[k] # "closed" => j = k
    BY <1>1, <1>2
  <2> QED
    BY <1>1, <1>2, <2>2, <2>3 DEF PanelsHold, OnePanel
<1>3. CASE OnePanel /\ switched'
  BY <1>1, <1>3 DEF PanelsHold, OnePanel
<1>4. CASE ~OnePanel
  BY <1>1, <1>4 DEF PanelsHold, OnePanel
<1> QED
  BY <1>2, <1>3, <1>4

\* A success that closes the panel takes its reason with it.
LEMMA EndPanels ==
  ASSUME DeskTypes, PanelsHold, NEW f \in decisions, Answered(f) \/ Failed(f)
  PROVE  PanelsHold'
<1>1. CASE Failed(f)
  BY <1>1 DEF Failed, PanelsHold, OnePanel
<1>2. CASE Answered(f) /\ desk = "records"
  BY <1>2 DEF Answered, ClosePanels, PanelsHold, OnePanel
<1>3. CASE Answered(f) /\ desk # "records"
  BY <1>3 DEF Answered, PanelsHold, OnePanel, DeskTypes
<1> QED
  BY <1>1, <1>2, <1>3

\* What is sent carries the reason of the panel it was sent from.
LEMMA SentHolds ==
  ASSUME DeskTypes, PanelsHold, NEW i \in Item, NEW act \in Acts[desk], Decide(i, act)
  PROVE  /\ NeedsReason(act) => SentDecision(i, act).why # NoReason
         /\ For(i, SentDecision(i, act).why)
<1>0. desk \in {"claims", "records", "organizations", "offers"}
  BY DEF DeskTypes, Desk
<1>1. \/ panel[i] = "closed" /\ act \in Card(seen[i]).at_once
      \/ panel[i] = act /\ (NeedsReason(act) => why[i] # NoReason)
  BY DEF Decide
<1>2. ~(NeedsReason(act) /\ act \in Card(seen[i]).at_once)
  BY <1>0 DEF NeedsReason, Card, ClaimCard, OfferCard, RecordRow, OrganizationCard
<1>3. act # "closed"
  BY <1>0 DEF Acts
<1>4. NeedsReason(act) => SentDecision(i, act).why = why[i]
  BY DEF NeedsReason, SentDecision
<1>5. SentDecision(i, act).why \in {NoReason, why[i]}
  BY DEF SentDecision
<1>6. why[i] \in {NoReason, i} \/ switched \/ SentDecision(i, act).why = NoReason
  <2>1. CASE ~OnePanel
    BY <2>1 DEF PanelsHold
  <2>2. CASE OnePanel /\ ~switched
    <3>1. act = "revoke" /\ Card(seen[i]).at_once = {}
      BY <2>2 DEF OnePanel, Acts, Card, RecordRow
    <3>2. panel[i] # "closed"
      BY <1>1, <1>3, <3>1
    <3>3. why[i] # NoReason => why[i] \in Item /\ panel[why[i]] # "closed"
      BY <2>2 DEF PanelsHold, DeskTypes, Reasons
    <3> QED
      BY <2>2, <3>2, <3>3 DEF PanelsHold
  <2> QED
    BY <2>1, <2>2
<1> QED
  BY <1>1, <1>2, <1>4, <1>5, <1>6 DEF For

LEMMA ReasonStep == ReasonInv /\ [DesksNext]_deskVars => ReasonInv'
<1> SUFFICES ASSUME ReasonInv, [DesksNext]_deskVars PROVE ReasonInv'
  OBVIOUS
<1>1. DeskTypes /\ PanelsHold /\ RequestsHold /\ ReasonIsForIt /\ DeskTypes'
  BY NextDeskTypes DEF ReasonInv
<1>2. switched => switched'
  BY SwitchedStays
<1>3. recorded' = recorded => ReasonIsForIt'
  BY <1>1, <1>2 DEF ReasonIsForIt
\* An action that leaves the panels alone, and one that leaves the requests alone.
<1>4. panel' = panel /\ why' = why /\ desk' = desk /\ switched' = switched => PanelsHold'
  BY <1>1 DEF PanelsHold, OnePanel
<1>5. (\A g \in decisions' : \E f \in decisions :
          g.item = f.item /\ g.act = f.act /\ g.why = f.why) => RequestsHold'
  BY <1>1, <1>2, SameRequestsHold
<1>6. CASE UNCHANGED deskVars
  BY <1>1, <1>3, <1>4, <1>5, <1>6 DEF deskVars, ReasonInv
<1>7. ASSUME NEW gone, Refetch(gone) PROVE ReasonInv'
  <2>1. recorded' = recorded
    BY <1>7 DEF Refetch
  <2>2. RequestsHold'
    BY <1>1, <1>5, <1>7, RefetchKeeps DEF SameBut
  <2> QED
    BY <1>1, <1>3, <1>7, <2>1, <2>2, RefetchPanels DEF ReasonInv
<1>8. ASSUME NEW i \in Item, Type(i) PROVE ReasonInv'
  <2>1. recorded' = recorded /\ decisions' = decisions
    BY <1>8 DEF Type
  <2>2. RequestsHold'
    BY <1>5, <2>1
  <2> QED
    BY <1>1, <1>3, <1>8, <2>1, <2>2, TypePanels DEF ReasonInv
<1>9. ASSUME NEW i \in Item, Cancel(i) PROVE ReasonInv'
  <2>1. recorded' = recorded
    BY <1>9 DEF Cancel
  <2>2. RequestsHold'
    BY <1>1, <1>5, <1>9, CancelKeeps DEF SameBut
  <2> QED
    BY <1>1, <1>3, <1>9, <2>1, <2>2, CancelPanels DEF ReasonInv
<1>10. ASSUME NEW i \in Item, NEW act \in Acts[desk], OpenPanel(i, act) PROVE ReasonInv'
  <2>1. recorded' = recorded /\ decisions' = decisions
    BY <1>10 DEF OpenPanel
  <2>2. RequestsHold'
    BY <1>5, <2>1
  <2> QED
    BY <1>1, <1>3, <1>10, <2>1, <2>2, OpenPanels DEF ReasonInv
<1>11. ASSUME NEW i \in Item, NEW act \in Acts[desk], Decide(i, act) PROVE ReasonInv'
  <2>1. /\ recorded' = recorded /\ decisions' = decisions \cup {SentDecision(i, act)}
        /\ panel' = panel /\ why' = why /\ desk' = desk /\ switched' = switched
    BY <1>11 DEF Decide, SentDecision
  <2>2. SentDecision(i, act).item = i /\ SentDecision(i, act).act = act
    BY DEF SentDecision
  <2>3. /\ NeedsReason(act) => SentDecision(i, act).why # NoReason
        /\ For(i, SentDecision(i, act).why)
    BY <1>1, <1>11, SentHolds
  <2>4. RequestsHold'
    <3> SUFFICES ASSUME NEW g \in decisions'
                 PROVE  (NeedsReason(g.act) => g.why # NoReason)
                        /\ (g.why \in {NoReason, g.item} \/ switched')
      BY DEF RequestsHold, For
    <3>1. CASE g \in decisions
      BY <1>1, <2>1, <3>1 DEF RequestsHold, For
    <3>2. CASE g = SentDecision(i, act)
      BY <2>1, <2>2, <2>3, <3>2 DEF For
    <3> QED
      BY <2>1, <3>1, <3>2
  <2> QED
    BY <1>1, <1>3, <1>4, <2>1, <2>4 DEF ReasonInv
<1>12. ASSUME NEW i \in Item, NEW act \in Acts[desk], OthersDecide(i, act) PROVE ReasonInv'
  <2>1. /\ recorded' = recorded /\ decisions' = decisions
        /\ panel' = panel /\ why' = why /\ desk' = desk /\ switched' = switched
    BY <1>12 DEF OthersDecide
  <2>2. RequestsHold'
    BY <1>5, <2>1
  <2> QED
    BY <1>1, <1>3, <1>4, <2>1, <2>2 DEF ReasonInv
<1>13. ASSUME NEW f \in decisions, Check(f) PROVE ReasonInv'
  <2>1. /\ recorded' = recorded
        /\ panel' = panel /\ why' = why /\ desk' = desk /\ switched' = switched
    BY <1>13 DEF Check
  <2>2. RequestsHold'
    BY <1>1, <1>5, <1>13, CheckMoves DEF Moved
  <2> QED
    BY <1>1, <1>3, <1>4, <2>1, <2>2 DEF ReasonInv
\* What takes effect has the reason of its request.
<1>14. ASSUME NEW f \in decisions, Record(f) PROVE ReasonInv'
  <2>1. /\ recorded' = recorded \cup {[item |-> f.item, act |-> f.act, why |-> f.why]}
        /\ panel' = panel /\ why' = why /\ desk' = desk /\ switched' = switched
    BY <1>14 DEF Record
  <2>2. RequestsHold'
    BY <1>1, <1>5, <1>14, RecordMoves DEF Moved
  <2>3. (NeedsReason(f.act) => f.why # NoReason) /\ (f.why \in {NoReason, f.item} \/ switched)
    BY <1>1 DEF RequestsHold, For
  <2>4. ReasonIsForIt'
    BY <1>1, <2>1, <2>3 DEF ReasonIsForIt
  <2> QED
    BY <1>1, <1>4, <2>1, <2>2, <2>4 DEF ReasonInv
<1>15. ASSUME NEW f \in decisions, Answered(f) \/ Failed(f) PROVE ReasonInv'
  <2>1. recorded' = recorded
    BY <1>15 DEF Answered, Failed
  <2>2. RequestsHold'
    BY <1>1, <1>5, <1>15, EndKeeps DEF SameBut
  <2> QED
    BY <1>1, <1>3, <1>15, <2>1, <2>2, EndPanels DEF ReasonInv
<1> QED
  BY <1>6, <1>7, <1>8, <1>9, <1>10, <1>11, <1>12, <1>13, <1>14, <1>15 DEF DesksNext

\* Whatever panels are opened, cancelled, filtered away and moved, what is rejected,
\* suspended or revoked is so with a reason that was written for it.
THEOREM DesksReasonIsForIt == DesksSpec => []ReasonIsForIt
<1>1. ReasonInv => ReasonIsForIt
  BY DEF ReasonInv
<1> QED
  BY <1>1, InitReason, ReasonStep, PTL DEF DesksSpec

(***************************************************************************)
(* The moves of what is decided                                            *)
(***************************************************************************)
\* A request was let through from the status the server looked at, and the card it was
\* sent from offered its act in the status it showed.
GrantedAct(f) ==
    /\ f.pc \in {"checked", "done"} => ~Refuses(f.act, f.from)
    /\ f.saw # "something else" => f.act \in Card(f.saw).at_once \cup Card(f.saw).asking

MovesInv == DeskTypes /\ \A f \in decisions : GrantedAct(f)

LEMMA InitMoves == DesksInit => MovesInv
<1> QED
  BY InitDeskTypes DEF DesksInit, MovesInv

\* The two operators that look at the desk do so alike before and after a step.
LEMMA SameRules ==
  ASSUME desk' = desk, NEW f, GrantedAct(f)
  PROVE  GrantedAct(f)'
<1> QED
  BY DEF GrantedAct, Refuses, Card, ClaimCard, RecordRow, OrganizationCard, OfferCard

LEMMA SameGranted ==
  ASSUME \A f \in decisions : GrantedAct(f), desk' = desk,
         \A g \in decisions' : \E f \in decisions :
            g.act = f.act /\ g.pc = f.pc /\ g.saw = f.saw /\ g.from = f.from
  PROVE  \A g \in decisions' : GrantedAct(g)'
<1> SUFFICES ASSUME NEW g \in decisions' PROVE GrantedAct(g)'
  OBVIOUS
<1>1. PICK f \in decisions : g.act = f.act /\ g.pc = f.pc /\ g.saw = f.saw /\ g.from = f.from
  OBVIOUS
<1>2. GrantedAct(g)
  BY <1>1 DEF GrantedAct
<1> QED
  BY <1>2, SameRules

\* The answer of the server is about the status it looked at.
LEMMA CheckGrants ==
  ASSUME DeskTypes, \A f \in decisions : GrantedAct(f), NEW h \in decisions, Check(h)
  PROVE  \A g \in decisions' : GrantedAct(g)'
<1>1. desk' = desk
  BY DEF Check
<1>2. GrantedAct(h) /\ h \in Decision
  BY DEF DeskTypes
<1>3. \A g \in decisions' : GrantedAct(g)
  <2>1. CASE /\ ~Refuses(h.act, status[h.item])
             /\ Progress(h, [h EXCEPT !.pc = "checked", !.from = status[h.item]])
    <3> DEFINE c == [h EXCEPT !.pc = "checked", !.from = status[h.item]]
    <3>1. c.act = h.act /\ c.saw = h.saw /\ c.pc = "checked" /\ c.from = status[h.item]
      BY <1>2 DEF Decision
    <3>2. GrantedAct(c)
      BY <1>2, <2>1, <3>1 DEF GrantedAct
    <3>3. decisions' = (decisions \ {h}) \cup {c}
      BY <2>1 DEF Progress
    <3> HIDE DEF c
    <3> QED
      BY <3>2, <3>3
  <2>2. CASE Progress(h, [h EXCEPT !.pc = "refused"])
    <3> DEFINE r == [h EXCEPT !.pc = "refused"]
    <3>1. r.act = h.act /\ r.saw = h.saw /\ r.pc = "refused"
      BY <1>2 DEF Decision
    <3>2. GrantedAct(r)
      BY <1>2, <3>1 DEF GrantedAct
    <3>3. decisions' = (decisions \ {h}) \cup {r}
      BY <2>2 DEF Progress
    <3> HIDE DEF r
    <3> QED
      BY <3>2, <3>3
  <2> QED
    BY <2>1, <2>2 DEF Check
<1> QED
  BY <1>1, <1>3, SameRules

LEMMA RecordGrants ==
  ASSUME DeskTypes, \A f \in decisions : GrantedAct(f), NEW h \in decisions, Record(h)
  PROVE  \A g \in decisions' : GrantedAct(g)'
<1>1. desk' = desk /\ h.pc = "checked"
  BY DEF Record
<1>2. GrantedAct(h) /\ h \in Decision
  BY DEF DeskTypes
<1> DEFINE d == [h EXCEPT !.pc = "done"]
<1>3. d.act = h.act /\ d.saw = h.saw /\ d.pc = "done" /\ d.from = h.from
  BY <1>2 DEF Decision
<1>4. GrantedAct(d)
  BY <1>1, <1>2, <1>3 DEF GrantedAct
<1>5. decisions' = (decisions \ {h}) \cup {d}
  BY DEF Record, Progress
<1> HIDE DEF d
<1>6. \A g \in decisions' : GrantedAct(g)
  BY <1>4, <1>5
<1> QED
  BY <1>1, <1>6, SameRules

\* A card shows a status, and offers what it does in it.
LEMMA SentGranted ==
  ASSUME DeskTypes, NEW i \in Item, NEW act \in Acts[desk]
  PROVE  GrantedAct(SentDecision(i, act))
<1>1. /\ SentDecision(i, act).pc = "sent" /\ SentDecision(i, act).act = act
      /\ SentDecision(i, act).saw = IF act \in Card(seen[i]).at_once \cup Card(seen[i]).asking
                            THEN seen[i] ELSE "something else"
  BY DEF SentDecision
<1> QED
  BY <1>1 DEF GrantedAct

LEMMA MovesStep == MovesInv /\ [DesksNext]_deskVars => MovesInv'
<1> SUFFICES ASSUME MovesInv, [DesksNext]_deskVars PROVE MovesInv'
  OBVIOUS
<1>1. DeskTypes /\ DeskTypes' /\ \A f \in decisions : GrantedAct(f)
  BY NextDeskTypes DEF MovesInv
<1>2. SUFFICES \A g \in decisions' : GrantedAct(g)'
  BY <1>1 DEF MovesInv
<1>3. desk' = desk
  BY DEF DesksNext, deskVars, Refetch, Type, Cancel, OpenPanel, Decide, OthersDecide,
         Check, Record, Answered, Failed
<1>4. (\A g \in decisions' : \E f \in decisions :
          g.act = f.act /\ g.pc = f.pc /\ g.saw = f.saw /\ g.from = f.from)
      => \A g \in decisions' : GrantedAct(g)'
  BY <1>1, <1>3, SameGranted
<1>5. decisions' = decisions => \A g \in decisions' : GrantedAct(g)'
  BY <1>4
<1>6. CASE UNCHANGED deskVars
  BY <1>5, <1>6 DEF deskVars
<1>7. ASSUME NEW gone, Refetch(gone) PROVE \A g \in decisions' : GrantedAct(g)'
  BY <1>1, <1>4, <1>7, RefetchKeeps DEF SameBut
<1>8. ASSUME NEW i \in Item, Cancel(i) PROVE \A g \in decisions' : GrantedAct(g)'
  BY <1>1, <1>4, <1>8, CancelKeeps DEF SameBut
<1>9. ASSUME NEW i \in Item, NEW act \in Acts[desk],
             Type(i) \/ OpenPanel(i, act) \/ OthersDecide(i, act)
      PROVE  \A g \in decisions' : GrantedAct(g)'
  <2>1. decisions' = decisions
    BY <1>9 DEF Type, OpenPanel, OthersDecide
  <2> QED
    BY <1>5, <2>1
<1>10. ASSUME NEW i \in Item, Type(i) PROVE \A g \in decisions' : GrantedAct(g)'
  <2>1. decisions' = decisions
    BY <1>10 DEF Type
  <2> QED
    BY <1>5, <2>1
<1>11. ASSUME NEW i \in Item, NEW act \in Acts[desk], Decide(i, act)
       PROVE  \A g \in decisions' : GrantedAct(g)'
  <2>1. decisions' = decisions \cup {SentDecision(i, act)}
    BY <1>11 DEF Decide, SentDecision
  <2>2. \A g \in decisions' : GrantedAct(g)
    BY <1>1, <2>1, SentGranted
  <2> QED
    BY <1>3, <2>2, SameRules
<1>12. ASSUME NEW f \in decisions, Check(f) \/ Record(f)
       PROVE  \A g \in decisions' : GrantedAct(g)'
  BY <1>1, <1>12, CheckGrants, RecordGrants
<1>13. ASSUME NEW f \in decisions, Answered(f) \/ Failed(f)
       PROVE  \A g \in decisions' : GrantedAct(g)'
  BY <1>1, <1>4, <1>13, EndKeeps DEF SameBut
<1> QED
  BY <1>6, <1>7, <1>8, <1>9, <1>10, <1>11, <1>12, <1>13 DEF DesksNext

\* A decision let through from a status that its card offers it in is a legal move.
LEMMA LegalMove ==
  ASSUME desk \in Desk, NEW s \in Reached[desk], NEW act \in Acts[desk],
         ~Refuses(act, s),
         desk = "organizations" => act \in Card(s).at_once \cup Card(s).asking
  PROVE  <<s, To[act]>> \in Legal[desk]
<1>1. CASE desk = "claims"
  <2>1. s = "PENDING_REVIEW"
    BY <1>1 DEF Refuses
  <2>2. act \in {"endorse", "reject"}
    BY <1>1 DEF Acts
  <2> QED
    BY <1>1, <2>1, <2>2 DEF To, Legal
<1>2. CASE desk = "records"
  <2>1. s \in {"ISSUED", "REVOKED"}
    BY <1>2 DEF Reached
  <2>2. s = "ISSUED"
    BY <1>2, <2>1 DEF Refuses
  <2>3. act = "revoke"
    BY <1>2 DEF Acts
  <2> QED
    BY <1>2, <2>2, <2>3 DEF To, Legal
<1>3. CASE desk = "offers"
  <2>1. s = "OFFERED"
    BY <1>3 DEF Refuses
  <2>2. act \in {"accept", "decline"}
    BY <1>3 DEF Acts
  <2> QED
    BY <1>3, <2>1, <2>2 DEF To, Legal
<1>4. CASE desk = "organizations"
  <2>1. act \in OrganizationCard(s).at_once \cup OrganizationCard(s).asking
    BY <1>4 DEF Card
  <2>2. \/ s = "PENDING" /\ act \in {"approve", "reject"}
        \/ s = "SUSPENDED" /\ act = "reinstate"
        \/ s = "APPROVED" /\ act = "suspend"
    BY <2>1 DEF OrganizationCard
  <2> QED
    BY <1>4, <2>2 DEF To, Legal
<1> QED
  BY <1>1, <1>2, <1>3, <1>4 DEF Desk

LegalMoves == \A i \in Item : (status'[i] # status[i] /\ ~raced' /\ ~misled')
                         => <<status[i], status'[i]>> \in Legal[desk]

LEMMA MovesLegal == MovesInv /\ [DesksNext]_deskVars => LegalMoves
<1> SUFFICES ASSUME MovesInv, [DesksNext]_deskVars,
                    NEW i \in Item, status'[i] # status[i], ~raced', ~misled'
             PROVE  <<status[i], status'[i]>> \in Legal[desk]
  BY DEF LegalMoves
<1>1. DeskTypes /\ \A f \in decisions : GrantedAct(f)
  BY DEF MovesInv
<1>2. desk \in Desk /\ status \in [Item -> Reached[desk]] /\ status[i] \in Reached[desk]
  BY <1>1 DEF DeskTypes
<1>3. \/ \E j \in Item, act \in Acts[desk] : OthersDecide(j, act)
      \/ \E f \in decisions : Record(f)
      \/ status' = status
  BY DEF DesksNext, deskVars, Refetch, Type, Cancel, OpenPanel, Decide, Check, Answered,
         Failed
<1>4. CASE \E j \in Item, act \in Acts[desk] : OthersDecide(j, act)
  <2>1. PICK j \in Item, act \in Acts[desk] : OthersDecide(j, act)
    BY <1>4
  <2>2. status' = [status EXCEPT ![j] = To[act]] /\ ~Refuses(act, status[j])
        /\ act \in Card(status[j]).at_once \cup Card(status[j]).asking
    BY <2>1 DEF OthersDecide
  <2>3. j = i /\ status'[i] = To[act]
    BY <1>2, <2>2
  <2> QED
    BY <1>2, <2>2, <2>3, LegalMove
<1>5. CASE \E f \in decisions : Record(f)
  <2>1. PICK f \in decisions : Record(f)
    BY <1>5
  <2>2. /\ f.pc = "checked" /\ status' = [status EXCEPT ![f.item] = To[f.act]]
        /\ raced' = (raced \/ f.from # status[f.item])
        /\ misled' = (misled \/ (desk = "organizations" /\ f.saw # f.from))
    BY <2>1 DEF Record
  <2>3. f.item = i /\ status'[i] = To[f.act] /\ f.from = status[i]
    BY <1>2, <2>2
  <2>4. f.act \in Acts[desk] /\ GrantedAct(f)
    BY <1>1 DEF DeskTypes, Decision
  <2>5. ~Refuses(f.act, status[i])
    BY <2>2, <2>3, <2>4 DEF GrantedAct
  <2>6. desk = "organizations" =>
          f.act \in Card(status[i]).at_once \cup Card(status[i]).asking
    <3> SUFFICES ASSUME desk = "organizations"
                 PROVE  f.act \in Card(status[i]).at_once \cup Card(status[i]).asking
      OBVIOUS
    <3>1. f.saw = status[i]
      BY <2>2, <2>3
    <3>2. status[i] # "something else"
      BY <1>2 DEF Reached
    <3> QED
      BY <2>4, <3>1, <3>2 DEF GrantedAct
  <2> QED
    BY <1>2, <2>3, <2>4, <2>5, <2>6, LegalMove
<1> QED
  BY <1>3, <1>4, <1>5

\* However stale the lists and however many decisions are under way, a status moves
\* only along the arrows of its desk, outside the two races the property names.
THEOREM DesksMovesAreLegal == DesksSpec => MovesAreLegal
<1>1. MovesInv /\ [DesksNext]_deskVars => [LegalMoves]_deskVars
  BY MovesLegal
<1>2. MovesInv /\ [DesksNext]_deskVars => MovesInv'
  BY MovesStep
<1> QED
  BY <1>1, <1>2, InitMoves, PTL DEF DesksSpec, MovesAreLegal, LegalMoves

(***************************************************************************)
(* One decision at a time from a card or panel                             *)
(***************************************************************************)
OneHere == \A f, g \in decisions : f.here /\ g.here /\ f.item = g.item => f = g

\* A request whose card or panel goes is not its own any more; the others are the
\* same requests as before.
LEMMA HereStays ==
  ASSUME DeskTypes,
         \/ \E gone \in SUBSET Item : Refetch(gone)
         \/ \E i \in Item : Cancel(i)
         \/ \E h \in decisions : Answered(h) \/ Failed(h)
  PROVE  \A g \in decisions' : g.here => g \in decisions
<1> SUFFICES ASSUME NEW g \in decisions', g.here PROVE g \in decisions
  OBVIOUS
<1>1. ASSUME NEW f \in decisions, NEW b \in BOOLEAN, b => f.here, g = [f EXCEPT !.here = b]
      PROVE  g \in decisions
  <2>1. f \in Decision
    BY DEF DeskTypes
  <2>2. g.here = b
    BY <1>1, <2>1 DEF Decision
  <2>3. b = TRUE /\ f.here = TRUE
    BY <1>1, <2>1, <2>2 DEF Decision
  <2>4. g = f
    BY <1>1, <2>1, <2>3 DEF Decision
  <2> QED
    BY <2>4
<1>2. \/ g \in decisions
      \/ \E f \in decisions, b \in BOOLEAN : (b => f.here) /\ g = [f EXCEPT !.here = b]
  <2>1. ASSUME NEW gone \in SUBSET Item, Refetch(gone), g \notin decisions
        PROVE  \E f \in decisions, b \in BOOLEAN : (b => f.here) /\ g = [f EXCEPT !.here = b]
    <3>1. PICK f \in decisions : g = [f EXCEPT !.here = f.here /\ f.item \notin gone]
      BY <2>1 DEF Refetch
    <3>2. (f.here /\ f.item \notin gone) \in BOOLEAN
      OBVIOUS
    <3> QED
      BY <3>1, <3>2
  <2>2. ASSUME NEW i \in Item, Cancel(i)
        PROVE  \E f \in decisions, b \in BOOLEAN : (b => f.here) /\ g = [f EXCEPT !.here = b]
    <3>1. PICK f \in decisions : g = [f EXCEPT !.here = f.here /\ ~OnePanel]
      BY <2>2 DEF Cancel
    <3>2. (f.here /\ ~OnePanel) \in BOOLEAN
      OBVIOUS
    <3> QED
      BY <3>1, <3>2
  <2>3. ASSUME NEW h \in decisions, Answered(h) \/ Failed(h), g \notin decisions
        PROVE  \E f \in decisions, b \in BOOLEAN : (b => f.here) /\ g = [f EXCEPT !.here = b]
    <3>1. PICK f \in decisions : g = [f EXCEPT !.here = FALSE]
      BY <2>3 DEF Answered, Failed
    <3> QED
      BY <3>1
  <2> QED
    BY <2>1, <2>2, <2>3
<1> QED
  BY <1>1, <1>2

LEMMA InitOneHere == DesksInit => OneHere
BY DEF DesksInit, OneHere

LEMMA NextOneHere == DeskTypes /\ OneHere /\ [DesksNext]_deskVars => OneHere'
<1> SUFFICES ASSUME DeskTypes, OneHere, [DesksNext]_deskVars PROVE OneHere'
  OBVIOUS
<1>1. ASSUME \A g \in decisions' : g.here => g \in decisions PROVE OneHere'
  BY <1>1 DEF OneHere
<1>2. ASSUME decisions' = decisions PROVE OneHere'
  BY <1>2 DEF OneHere
<1>3. ASSUME NEW i \in Item, NEW act \in Acts[desk], Decide(i, act) PROVE OneHere'
  <2>1. decisions' = decisions \cup {SentDecision(i, act)} /\ ~Deciding(i)
    BY <1>3 DEF Decide, SentDecision
  <2>2. SentDecision(i, act).item = i
    BY DEF SentDecision
  <2>3. \A f \in decisions : f.here => f.item # i
    BY <2>1 DEF Deciding
  <2> QED
    BY <2>1, <2>2, <2>3 DEF OneHere
<1>4. ASSUME NEW f \in decisions, Check(f) \/ Record(f) PROVE OneHere'
  <2>1. PICK g : Moved(f, g) /\ decisions' = (decisions \ {f}) \cup {g}
    BY <1>4, CheckMoves, RecordMoves
  <2>2. g.item = f.item /\ g.here = f.here
    BY <2>1 DEF Moved
  <2> QED
    BY <2>1, <2>2 DEF OneHere
<1>5. CASE \/ \E gone \in SUBSET Item : Refetch(gone)
           \/ \E i \in Item : Cancel(i)
           \/ \E h \in decisions : Answered(h) \/ Failed(h)
  BY <1>1, <1>5, HereStays
<1>6. ASSUME NEW i \in Item, NEW act \in Acts[desk],
             Type(i) \/ OpenPanel(i, act) \/ OthersDecide(i, act)
      PROVE  OneHere'
  BY <1>2, <1>6 DEF Type, OpenPanel, OthersDecide
<1>7. ASSUME NEW i \in Item, Type(i) PROVE OneHere'
  BY <1>2, <1>7 DEF Type
<1>8. CASE UNCHANGED deskVars
  BY <1>2, <1>8 DEF deskVars
<1> QED
  BY <1>3, <1>4, <1>5, <1>6, <1>7, <1>8 DEF DesksNext

\* The state keeps its shape: each list knows the statuses of its kind only, and a
\* card or a panel never has two decisions under way, also after it was closed,
\* filtered away and opened again (the isPending of every card and panel).
THEOREM DesksTypeCorrect == DesksSpec => []DesksTypeOK
<1>1. DeskTypes /\ OneHere => DesksTypeOK
  <2> SUFFICES ASSUME DeskTypes, OneHere PROVE DesksTypeOK
    OBVIOUS
  <2>1. Reached[desk] \subseteq Statuses
    <3>1. desk \in {"claims", "records", "organizations", "offers"}
      BY DEF DeskTypes, Desk
    <3> QED
      BY <3>1 DEF Reached, Statuses
  <2>2. {status[i] : i \in Item} \cup {seen[i] : i \in Item} \subseteq Statuses
    BY <2>1 DEF DeskTypes
  <2>3. \A f \in decisions : f.pc \in {"sent", "checked", "refused", "done"}
    BY DEF DeskTypes, Decision
  <2> QED
    BY <2>2, <2>3 DEF DeskTypes, OneHere, DesksTypeOK, Reasons
<1> QED
  BY InitDeskTypes, NextDeskTypes, InitOneHere, NextOneHere, <1>1, PTL DEF DesksSpec
=============================================================================
