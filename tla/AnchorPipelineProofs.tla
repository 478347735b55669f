------------------------ MODULE AnchorPipelineProofs ------------------------
(***************************************************************************)
(* Proofs about the publication pipeline, for any number of records,       *)
(* requests and command runs, and any number of faults of every kind.      *)
(*                                                                         *)
(* What a handler remembers stays true because the facts it relies on only *)
(* grow: a confirmation, an anchor, a revocation or a LedgerAnchor row is  *)
(* never taken back (Grows).  So a step has to be looked at only for the   *)
(* worker that takes it.                                                   *)
(***************************************************************************)
EXTENDS AnchorPipeline, SequenceTheorems, TLAPS

(***************************************************************************)
(* The inductive invariant                                                 *)
(***************************************************************************)
Job == [pc : PC, item : Item, row : Nat, receipt : {"none", "ok", "reverted"},
        todo : SUBSET Item, stale : SUBSET Record]

Entry == [issuer : Chain!AnyAddress, issuedAt : Nat, revokedAt : Nat,
          supersededBy : Chain!AnyHash]

Types ==
    /\ status \in [Record -> Status]
    /\ confirmation \in [Record -> {"none", "open", "confirmed", "declined"}]
    /\ lapsed \in [Record -> BOOLEAN]
    /\ rows \in Seq(Row)
    /\ revocation \in [Record -> {"none", "recorded", "confirmed"}]
    /\ orgApproved \in BOOLEAN
    /\ mempool \in Seq(Tx)
    /\ job \in [Worker -> Job]
    /\ anchors \in [Chain!AnyHash -> Entry]
    /\ now = 1

Confirmed(r) == confirmation[r] = "confirmed"
RowOf(k, r)  == k \in 1..Len(rows) /\ rows[k].rec = r

\* A record is offered before it is confirmed, and only a confirmed one waits
\* for its anchor, is issued, or is revoked.
GateOK ==
    \A r \in Record :
        /\ status[r] = "DRAFT" => confirmation[r] = "none"
        /\ status[r] \in {"PENDING_ANCHOR", "ISSUED", "REVOKED"} => Confirmed(r)
        /\ revocation[r] # "none" => Confirmed(r)

RowsOK == \A k \in 1..Len(rows) : Confirmed(rows[k].rec)

ChainOK ==
    \A r \in Record :
        /\ Chain!Anchored(r) => HasRow(r)
        /\ Chain!Revoked(r) => Chain!Anchored(r) /\ revocation[r] # "none"

TxsOK ==
    \A k \in 1..Len(mempool) :
        /\ HasRow(mempool[k].rec)
        /\ mempool[k].op = "revoke" => revocation[mempool[k].rec] # "none"

\* A transaction someone waits for is the one of the step they are at, its
\* receipt is not in, and they wait for no other.
LinksOK ==
    \A v \in Worker : \A k \in 1..Len(mempool) : mempool[k].from = v =>
        /\ job[v].pc = IF mempool[k].op = "anchor" THEN "wait" ELSE "revokeWait"
        /\ job[v].receipt = "none"
        /\ job[v].item.rec = mempool[k].rec
        /\ \A i \in 1..Len(mempool) : mempool[i].from = v => i = k

\* One transaction at a time answers an offer, and it finds it open.
AnsweringOK ==
    \A v \in Worker : job[v].pc = "answering" =>
        /\ job[v].item.rec \in Record
        /\ confirmation[job[v].item.rec] = "open"
        /\ \A u \in Worker :
              job[u].pc = "answering" /\ job[u].item.rec = job[v].item.rec => u = v

RevokePCs == {"revoke", "revokeWait", "revokeSave"}

\* What a worker at each of its steps relies on.
WorkerOK(v) ==
    /\ job[v].row \in 0..Len(rows)
    /\ job[v].item.row # 0 => RowOf(job[v].item.row, job[v].item.rec)
    /\ \A i \in job[v].todo : RowOf(i.row, i.rec)
    /\ job[v].pc \in AnchorPCs =>
          job[v].item.rec \in Record /\ Confirmed(job[v].item.rec)
    /\ job[v].pc \in RevokePCs =>
          job[v].item.rec \in Record /\ revocation[job[v].item.rec] # "none"
    /\ job[v].pc \in {"send", "wait"} => RowOf(job[v].row, job[v].item.rec)
    /\ job[v].pc = "verify" => RowOf(job[v].item.row, job[v].item.rec)
    /\ job[v].pc \in {"mark", "reconcile"} => Chain!Anchored(job[v].item.rec)
    /\ job[v].pc = "wait" /\ job[v].receipt = "ok" => Chain!Anchored(job[v].item.rec)
    /\ job[v].pc = "revokeWait" /\ job[v].receipt = "ok" => Chain!Revoked(job[v].item.rec)
    /\ job[v].pc \in {"idle", "answering", "anchor", "send", "verify", "revoke"} =>
          job[v].receipt = "none"

WorkersOK == \A v \in Worker : WorkerOK(v)

Inv ==
    /\ Types /\ GateOK /\ RowsOK /\ ChainOK /\ TxsOK
    /\ LinksOK /\ AnsweringOK /\ WorkersOK /\ NoFalseClaim

(***************************************************************************)
(* What only grows                                                         *)
(***************************************************************************)
RowsGrow ==
    /\ rows' \in Seq(Row)
    /\ Len(rows) <= Len(rows')
    /\ \A k \in 1..Len(rows) : rows'[k].rec = rows[k].rec

Grows ==
    /\ RowsGrow
    /\ \A r \in Record :
        /\ confirmation[r] = "confirmed" => confirmation'[r] = "confirmed"
        /\ revocation[r] # "none" => revocation'[r] # "none"
        /\ anchors[r].issuedAt # 0 => anchors'[r].issuedAt # 0
        /\ anchors[r].revokedAt # 0 => anchors'[r].revokedAt # 0

Moves(w) ==
    /\ job' \in [Worker -> Job]
    /\ \A v \in Worker \ {w} : job'[v] = job[v]

\* A row is never given to another record.
LEMMA RowOfGrows ==
  ASSUME Types, RowsGrow, NEW k, NEW r, RowOf(k, r)
  PROVE  RowOf(k, r)'
<1>1. Len(rows) \in Nat /\ Len(rows') \in Nat
  BY LenProperties DEF Types, RowsGrow
<1> QED
  BY <1>1 DEF RowOf, RowsGrow

LEMMA HasRowGrows ==
  ASSUME Types, RowsGrow, NEW r, HasRow(r)
  PROVE  HasRow(r)'
<1>1. Len(rows) \in Nat /\ Len(rows') \in Nat
  BY LenProperties DEF Types, RowsGrow
<1> QED
  BY <1>1 DEF HasRow, RowsGrow

\* What a worker relies on survives the steps of the others.
LEMMA OthersKeep ==
  ASSUME Types, WorkersOK, Grows, NEW v \in Worker,
         job'[v] = job[v]
  PROVE  WorkerOK(v)'
<1>1. Len(rows) \in Nat /\ Len(rows') \in Nat /\ Len(rows) <= Len(rows')
  BY LenProperties DEF Types, Grows, RowsGrow
<1>2. WorkerOK(v) /\ job[v] \in Job
  BY DEF WorkersOK, Types
<1>3. job'[v].row \in 0..Len(rows')
  BY <1>1, <1>2 DEF WorkerOK
<1>4. \A k, r : k \in 1..Len(rows) /\ rows[k].rec = r
                => k \in 1..Len(rows') /\ rows'[k].rec = r
  BY <1>1 DEF Grows, RowsGrow
<1>5. /\ job'[v].item.row # 0 => RowOf(job[v].item.row, job[v].item.rec)'
      /\ \A i \in job'[v].todo : RowOf(i.row, i.rec)'
      /\ job'[v].pc \in {"send", "wait"} => RowOf(job[v].row, job[v].item.rec)'
      /\ job'[v].pc = "verify" => RowOf(job[v].item.row, job[v].item.rec)'
  BY <1>2, <1>4 DEF WorkerOK, RowOf
<1> QED
  BY <1>2, <1>3, <1>5 DEF WorkerOK, Grows, Confirmed, Chain!Anchored, Chain!Revoked, AnchorPCs, RevokePCs, RowOf

(***************************************************************************)
(* The moves of a worker                                                   *)
(***************************************************************************)

\* The idle job, and the job that starts on an item, are well-typed.
LEMMA IdleType ==
  /\ NoItem \in Item /\ Idle \in Job
  /\ Idle.pc = "idle" /\ Idle.receipt = "none" /\ Idle.row = 0
  /\ Idle.todo = {} /\ Idle.stale = {} /\ Idle.item.row = 0
BY DEF NoItem, Item, Idle, Job, PC, Status

LEMMA GotoMoves ==
  ASSUME Types, NEW w \in Worker, NEW pc \in PC, Goto(w, pc)
  PROVE  /\ Moves(w) /\ job'[w].pc = pc /\ job'[w].item = job[w].item
         /\ job'[w].row = job[w].row /\ job'[w].receipt = job[w].receipt
         /\ job'[w].todo = job[w].todo /\ job'[w].stale = job[w].stale
<1>1. job[w] \in Job
  BY DEF Types
<1>2. job' = [job EXCEPT ![w] = [job[w] EXCEPT !.pc = pc]]
  BY DEF Goto
<1>3. [job[w] EXCEPT !.pc = pc] \in Job
  BY <1>1 DEF Job
<1> QED
  BY <1>1, <1>2, <1>3 DEF Types, Moves, Job

\* A worker that goes idle relies on nothing.
LEMMA IdleOK ==
  ASSUME Types, Grows, NEW w \in Worker, job' = [job EXCEPT ![w] = Idle]
  PROVE  Moves(w) /\ job'[w].pc = "idle" /\ WorkerOK(w)'
<1>1. Moves(w) /\ job'[w] = Idle
  BY IdleType DEF Types, Moves
<1>2. Len(rows') \in Nat
  BY LenProperties DEF Grows, RowsGrow
<1> QED
  BY <1>1, <1>2, IdleType DEF WorkerOK, AnchorPCs, RevokePCs

\* A retry run goes on to a row it selected and knows the record of; the
\* other workers do not notice.
LEMMA ContinueOK ==
  ASSUME Types, RowsOK, Grows, NEW w \in Worker, NEW todo \in SUBSET Item,
         \A i \in todo : RowOf(i.row, i.rec), Continue(w, todo)
  PROVE  Moves(w) /\ job'[w].pc \in {"idle", "verify"} /\ WorkerOK(w)'
<1>1. CASE todo = {} /\ job' = [job EXCEPT ![w] = Idle]
  BY <1>1, IdleOK
<1>2. ASSUME NEW item \in todo,
             job' = [job EXCEPT ![w] =
                 [Idle EXCEPT !.pc = "verify", !.item = item, !.todo = todo \ {item}]]
      PROVE  Moves(w) /\ job'[w].pc = "verify" /\ WorkerOK(w)'
  <2> DEFINE j == [Idle EXCEPT !.pc = "verify", !.item = item, !.todo = todo \ {item}]
  <2>1. j \in Job /\ j.pc = "verify" /\ j.item = item /\ j.todo = todo \ {item}
        /\ j.receipt = "none" /\ j.row = 0
    BY IdleType DEF Idle, Job, PC
  <2>2. Moves(w) /\ job'[w] = j
    BY <1>2, <2>1 DEF Types, Moves
  <2>3. Len(rows') \in Nat
    BY LenProperties DEF Grows, RowsGrow
  <2>4. \A i \in todo : RowOf(i.row, i.rec)'
    BY RowOfGrows DEF Grows
  <2>5. item.rec \in Record /\ confirmation[item.rec] = "confirmed"
    <3>1. item.row \in 1..Len(rows) /\ rows[item.row].rec = item.rec
      BY DEF RowOf
    <3>2. rows[item.row] \in Row
      BY <3>1, ElementOfSeq DEF Types
    <3> QED
      BY <3>1, <3>2 DEF Row, RowsOK, Confirmed
  <2>6. item.rec \in Record /\ confirmation'[item.rec] = "confirmed"
    BY <2>5 DEF Grows
  <2> HIDE DEF j
  <2>7. /\ job'[w].pc = "verify" /\ job'[w].item = item /\ job'[w].todo \subseteq todo
        /\ job'[w].receipt = "none" /\ job'[w].row = 0
    BY <2>1, <2>2
  <2>8. /\ job'[w].row \in 0..Len(rows')
        /\ item.row \in 1..Len(rows') /\ rows'[item.row].rec = item.rec
        /\ \A i \in job'[w].todo : i.row \in 1..Len(rows') /\ rows'[i.row].rec = i.rec
    BY <2>3, <2>4, <2>7 DEF RowOf
  <2> QED
    BY <2>2, <2>6, <2>7, <2>8 DEF WorkerOK, RowOf, AnchorPCs, RevokePCs, Confirmed
<1> QED
  BY <1>1, <1>2 DEF Continue

LEMMA DoneOK ==
  ASSUME Types, RowsOK, WorkersOK, Grows, NEW w \in Worker, Done(w)
  PROVE  Moves(w) /\ job'[w].pc \in {"idle", "verify"} /\ WorkerOK(w)'
<1>1. job[w].todo \in SUBSET Item
  BY DEF Types, Job
<1>2. \A i \in job[w].todo : RowOf(i.row, i.rec)
  BY DEF WorkersOK, WorkerOK
<1> QED
  BY <1>1, <1>2, ContinueOK DEF Done

(***************************************************************************)
(* LedgerAnchor rows                                                       *)
(***************************************************************************)

\* The same rows of the same records, none newly confirmed but, it may be, one.
SameRows(new, confirmed) ==
    /\ new \in Seq(Row)
    /\ Len(new) = Len(rows)
    /\ \A k \in 1..Len(rows) :
        /\ new[k].rec = rows[k].rec
        /\ new[k].state = "CONFIRMED" => k \in confirmed \/ rows[k].state = "CONFIRMED"

LEMMA UnchangedRows ==
  ASSUME Types
  PROVE  SameRows(rows, {})
BY DEF Types, SameRows

LEMMA RowWritten ==
  ASSUME Types, NEW old, SameRows(old, {}), NEW i \in 1..Len(rows),
         NEW state \in {"PENDING", "FAILED"}, NEW n \in Nat
  PROVE  SameRows([old EXCEPT ![i].state = state, ![i].attempts = n], {})
<1> DEFINE row == [old[i] EXCEPT !.state = state, !.attempts = n]
<1> DEFINE new == [old EXCEPT ![i] = row]
<1>1. old \in [1..Len(rows) -> Row] /\ Len(rows) \in Nat
  BY LenProperties DEF Types, SameRows
<1>2. [old EXCEPT ![i].state = state, ![i].attempts = n] = new
  BY <1>1
<1>3. row \in Row /\ row.rec = old[i].rec /\ row.state = state
  BY <1>1 DEF Row
<1> HIDE DEF row
<1>4. new \in [1..Len(rows) -> Row]
  BY <1>1, <1>3
<1>5. new \in Seq(Row) /\ Len(new) = Len(rows)
  BY <1>1, <1>4, SeqDef, LenProperties
<1>6. \A k \in 1..Len(rows) :
        new[k].rec = rows[k].rec /\ (new[k].state = "CONFIRMED" => rows[k].state = "CONFIRMED")
  BY <1>1, <1>3 DEF SameRows
<1> HIDE DEF new
<1>7. SameRows(new, {})
  BY <1>5, <1>6 DEF SameRows
<1> QED
  BY <1>2, <1>7

LEMMA SetRowType ==
  ASSUME Types, NEW i \in 1..Len(rows), NEW state \in {"PENDING", "FAILED"}, NEW n \in Nat
  PROVE  SameRows(SetRow(i, state, n), {})
BY UnchangedRows, RowWritten DEF SetRow

LEMMA ConfirmRowType ==
  ASSUME Types, NEW i \in 1..Len(rows)
  PROVE  SameRows(ConfirmRow(i), {i})
<1> DEFINE row == [rows[i] EXCEPT !.state = "CONFIRMED"]
<1> DEFINE new == [rows EXCEPT ![i] = row]
<1>1. rows \in [1..Len(rows) -> Row] /\ Len(rows) \in Nat
  BY LenProperties DEF Types
<1>2. ConfirmRow(i) = new
  BY <1>1 DEF ConfirmRow
<1>3. row \in Row /\ row.rec = rows[i].rec
  BY <1>1 DEF Row
<1> HIDE DEF row
<1>4. new \in [1..Len(rows) -> Row]
  BY <1>1, <1>3
<1>5. new \in Seq(Row) /\ Len(new) = Len(rows)
  BY <1>1, <1>4, SeqDef, LenProperties
<1>6. \A k \in 1..Len(rows) :
        new[k].rec = rows[k].rec
        /\ (new[k].state = "CONFIRMED" => k = i \/ rows[k].state = "CONFIRMED")
  BY <1>1, <1>3
<1> QED
  BY <1>2, <1>5, <1>6 DEF SameRows

\* An attempt written off by an exception: the rows stay the same rows.
LEMMA RaisedRows ==
  ASSUME Types, WorkersOK, NEW w \in Worker, NEW new, SameRows(new, {}), Raise(w, new)
  PROVE  SameRows(rows', {}) /\ Done(w)
<1> DEFINE i == job[w].item
<1>1. i \in Item /\ i.row \in Nat /\ i.attempts \in Nat
  BY DEF Types, Job, Item
<1>2. Done(w) /\ rows' = IF i.row = 0 THEN new
             ELSE [new EXCEPT ![i.row].state = "FAILED", ![i.row].attempts = i.attempts + 1]
  BY DEF Raise
<1>3. CASE i.row = 0
  BY <1>2, <1>3
<1>4. CASE i.row # 0
  <2>1. i.row \in 1..Len(rows)
    BY <1>4 DEF WorkersOK, WorkerOK, RowOf
  <2>2. SameRows([new EXCEPT ![i.row].state = "FAILED", ![i.row].attempts = i.attempts + 1], {})
    <3>1. i.attempts + 1 \in Nat
      BY <1>1
    <3> HIDE DEF i
    <3> QED
      BY <2>1, <3>1, RowWritten
  <2> QED
    BY <1>2, <1>4, <2>2
<1> QED
  BY <1>3, <1>4

\* Nothing of the rest of the invariant sees which attempts were written off.
LEMMA SameRowsGrow ==
  ASSUME Types, RowsOK, NoFalseClaim, NEW C, SameRows(rows', C),
         \A k \in C : Chain!Anchored(rows[k].rec)
  PROVE  /\ RowsGrow
         /\ \A k \in 1..Len(rows') :
              /\ confirmation[rows'[k].rec] = "confirmed"
              /\ rows'[k].state = "CONFIRMED" => anchors[rows'[k].rec].issuedAt # 0
<1>1. Len(rows) \in Nat
  BY LenProperties DEF Types
<1> QED
  BY <1>1 DEF SameRows, RowsGrow, RowsOK, Confirmed, NoFalseClaim, Chain!Anchored

(***************************************************************************)
(* Steps of one worker that touch neither the chain nor an answer          *)
(***************************************************************************)
\* Nobody's transaction is the worker's, unless it waits for a receipt.
LEMMA NotWaiting ==
  ASSUME LinksOK, NEW w \in Worker,
         job[w].pc \notin {"wait", "revokeWait"} \/ job[w].receipt # "none"
  PROVE  \A k \in 1..Len(mempool) : mempool[k].from # w
BY DEF LinksOK

LEMMA WorkersKeep ==
  ASSUME Types, WorkersOK, Grows, NEW w \in Worker, Moves(w), WorkerOK(w)'
  PROVE  WorkersOK'
<1> SUFFICES ASSUME NEW v \in Worker PROVE WorkerOK(v)'
  BY DEF WorkersOK
<1> QED
  BY OthersKeep DEF Moves

LEMMA AnsweringKept ==
  ASSUME AnsweringOK, NEW w \in Worker, Moves(w), job'[w].pc # "answering",
         \A v \in Worker \ {w} : job[v].pc = "answering" =>
             confirmation'[job[v].item.rec] = confirmation[job[v].item.rec]
  PROVE  AnsweringOK'
BY DEF AnsweringOK, Moves

LEMMA LinksKept ==
  ASSUME LinksOK, NEW w \in Worker, Moves(w), mempool' = mempool,
         \A k \in 1..Len(mempool) : mempool[k].from # w
  PROVE  LinksOK'
BY DEF LinksOK, Moves

LEMMA QuietStep ==
  ASSUME Inv, NEW w \in Worker,
         UNCHANGED <<confirmation, lapsed, revocation, orgApproved, anchors, now, mempool>>,
         RowsGrow, Moves(w), WorkerOK(w)', job'[w].pc # "answering",
         job[w].pc \notin {"wait", "revokeWait"} \/ job[w].receipt # "none",
         status' \in [Record -> Status],
         \A r \in Record : status'[r] # status[r] =>
             /\ status'[r] \in {"ISSUED", "REVOKED", "EXPIRED"}
             /\ status'[r] # "EXPIRED" => confirmation[r] = "confirmed"
             /\ status'[r] = "ISSUED" => anchors[r].issuedAt # 0,
         \A k \in 1..Len(rows') :
              /\ confirmation[rows'[k].rec] = "confirmed"
              /\ rows'[k].state = "CONFIRMED" => anchors[rows'[k].rec].issuedAt # 0
  PROVE  Inv'
<1>1. Types'
  BY DEF Inv, Types, RowsGrow, Moves
<1>2. Grows
  BY DEF Grows
<1>3. GateOK'
  BY DEF Inv, GateOK, Confirmed
<1>4. RowsOK'
  BY DEF RowsOK, Confirmed
<1>5. ASSUME NEW r, HasRow(r) PROVE HasRow(r)'
  BY <1>5, HasRowGrows DEF Inv
<1>6. ChainOK'
  BY <1>5 DEF Inv, ChainOK, Chain!Anchored, Chain!Revoked, HasRow
<1>7. TxsOK'
  BY <1>5 DEF Inv, TxsOK, HasRow
<1>8. LinksOK'
  BY NotWaiting, LinksKept DEF Inv
<1>9. AnsweringOK'
  BY AnsweringKept DEF Inv
<1>10. WorkersOK'
  BY <1>2, WorkersKeep DEF Inv
<1>11. NoFalseClaim'
  BY DEF Inv, NoFalseClaim, Chain!Anchored, Chain!Revoked
<1> QED
  BY <1>1, <1>3, <1>4, <1>6, <1>7, <1>8, <1>9, <1>10, <1>11 DEF Inv

\* ... which ends its work on the record,
LEMMA QuietDone ==
  ASSUME Inv, NEW w \in Worker,
         UNCHANGED <<status, confirmation, lapsed, revocation, orgApproved, anchors, now, mempool>>,
         NEW C, SameRows(rows', C), \A k \in C : Chain!Anchored(rows[k].rec), Done(w),
         job[w].pc \notin {"wait", "revokeWait"} \/ job[w].receipt # "none"
  PROVE  Inv'
<1>1. /\ RowsGrow
      /\ \A k \in 1..Len(rows') :
            /\ confirmation[rows'[k].rec] = "confirmed"
            /\ rows'[k].state = "CONFIRMED" => anchors[rows'[k].rec].issuedAt # 0
  BY SameRowsGrow DEF Inv
<1>2. Grows
  BY <1>1 DEF Grows
<1>3. Moves(w) /\ job'[w].pc \in {"idle", "verify"} /\ WorkerOK(w)'
  BY <1>2, DoneOK DEF Inv
<1>4. status' \in [Record -> Status]
  BY DEF Inv, Types
<1> QED
  BY <1>1, <1>3, <1>4, QuietStep

\* ... or goes on to the next step with it.
LEMMA QuietGoto ==
  ASSUME Inv, NEW w \in Worker, NEW pc \in PC \ {"idle", "answering"}, Goto(w, pc),
         UNCHANGED <<status, confirmation, lapsed, revocation, orgApproved, anchors, now, mempool>>,
         NEW C, SameRows(rows', C), \A k \in C : Chain!Anchored(rows[k].rec),
         job[w].pc \notin {"wait", "revokeWait"} \/ job[w].receipt # "none",
         job[w].pc \in {"idle", "verify", "wait", "send", "revoke", "revokeWait"},
         pc \in {"mark", "reconcile"} =>
             job[w].pc \in AnchorPCs /\ Chain!Anchored(job[w].item.rec),
         pc = "revokeSave" => job[w].pc \in RevokePCs,
         pc = "anchor" => job[w].pc = "verify",
         pc \in {"mark", "reconcile", "revokeSave", "anchor"}
  PROVE  Inv'
<1>1. /\ RowsGrow
      /\ \A k \in 1..Len(rows') :
            /\ confirmation[rows'[k].rec] = "confirmed"
            /\ rows'[k].state = "CONFIRMED" => anchors[rows'[k].rec].issuedAt # 0
  BY SameRowsGrow DEF Inv
<1>2. Grows
  BY <1>1 DEF Grows
<1>3. /\ Moves(w) /\ job'[w].pc = pc /\ job'[w].item = job[w].item
      /\ job'[w].row = job[w].row /\ job'[w].receipt = job[w].receipt
      /\ job'[w].todo = job[w].todo /\ job'[w].stale = job[w].stale
  BY GotoMoves DEF Inv
<1>4. WorkerOK(w)
  BY DEF Inv, WorkersOK
<1>5. \A k, r : k \in 1..Len(rows) /\ rows[k].rec = r
               => k \in 1..Len(rows') /\ rows'[k].rec = r
  BY <1>1, RowOfGrows DEF Inv, RowOf
<1>6. job'[w].row \in 0..Len(rows')
  <2>1. Len(rows) \in Nat /\ Len(rows') \in Nat /\ Len(rows) <= Len(rows')
    BY <1>1, LenProperties DEF Inv, Types, RowsGrow
  <2> QED
    BY <1>3, <1>4, <2>1 DEF WorkerOK
<1>7. WorkerOK(w)'
  BY <1>3, <1>4, <1>5, <1>6
  DEF WorkerOK, RowOf, AnchorPCs, RevokePCs, Confirmed, Chain!Anchored, Chain!Revoked
<1>8. status' \in [Record -> Status]
  BY DEF Inv, Types
<1> QED
  BY <1>1, <1>3, <1>7, <1>8, QuietStep

(***************************************************************************)
(* anchor_record                                                           *)
(***************************************************************************)
\* The record a worker anchors is one, and the row of its attempt is its own.
LEMMA AnchoringKnows ==
  ASSUME Inv, NEW w \in Worker
  PROVE  /\ job[w] \in Job /\ job[w].item \in Item
         /\ job[w].pc \in AnchorPCs => job[w].item.rec \in Record
                                       /\ confirmation[job[w].item.rec] = "confirmed"
         /\ job[w].pc \in {"send", "wait"} =>
                job[w].row \in 1..Len(rows) /\ rows[job[w].row].rec = job[w].item.rec
         /\ job[w].pc = "verify" =>
                job[w].item.row \in 1..Len(rows)
                /\ rows[job[w].item.row].rec = job[w].item.rec
BY DEF Inv, Types, Job, WorkersOK, WorkerOK, RowOf, Confirmed

LEMMA AnchorRefusedInv == ASSUME Inv, NEW w \in Worker, AnchorRefused(w) PROVE Inv'
<1>1. SameRows(rows, {})
  BY UnchangedRows DEF Inv
<1>2. SameRows(rows', {}) /\ Done(w)
  BY <1>1, RaisedRows DEF Inv, AnchorRefused
<1> QED
  BY <1>2, QuietDone DEF AnchorRefused, chain

LEMMA AnchorRejectedInv ==
  ASSUME Inv, NEW w \in Worker, AnchorRejected(w) \/ AnchorReverted(w)
  PROVE  Inv'
<1>1. job[w].pc \in {"send", "wait"} /\ Raise(w, SetRow(job[w].row, "FAILED", 2))
      /\ (job[w].pc = "wait" => job[w].receipt # "none")
  BY DEF AnchorRejected, AnchorReverted
<1>2. job[w].row \in 1..Len(rows)
  BY <1>1, AnchoringKnows
<1>3. SameRows(SetRow(job[w].row, "FAILED", 2), {})
  BY <1>2, SetRowType DEF Inv
<1>4. SameRows(rows', {}) /\ Done(w)
  BY <1>1, <1>3, RaisedRows DEF Inv
<1> QED
  BY <1>1, <1>4, QuietDone DEF AnchorRejected, AnchorReverted, chain

LEMMA AnchorConfirmedInv ==
  ASSUME Inv, NEW w \in Worker, AnchorAlreadyOnChain(w) \/ AnchorReceipt(w)
  PROVE  Inv'
<1>1. /\ job[w].pc \in {"send", "wait"} /\ rows' = ConfirmRow(job[w].row)
      /\ Goto(w, "mark") /\ (job[w].pc = "wait" => job[w].receipt # "none")
  BY DEF AnchorAlreadyOnChain, AnchorReceipt
<1>2. Chain!Anchored(job[w].item.rec)
  BY DEF AnchorAlreadyOnChain, AnchorReceipt, Rec, Inv, WorkersOK, WorkerOK
<1>3. job[w].row \in 1..Len(rows) /\ rows[job[w].row].rec = job[w].item.rec
  BY <1>1, AnchoringKnows
<1>4. SameRows(rows', {job[w].row})
  BY <1>1, <1>3, ConfirmRowType DEF Inv
<1>5. \A k \in {job[w].row} : Chain!Anchored(rows[k].rec)
  BY <1>2, <1>3
<1>6. "mark" \in PC
  BY DEF PC
<1>7. UNCHANGED <<status, confirmation, lapsed, revocation, orgApproved, anchors, now, mempool>>
  BY DEF AnchorAlreadyOnChain, AnchorReceipt, chain
<1> QED
  BY <1>1, <1>2, <1>4, <1>5, <1>6, <1>7, QuietGoto DEF AnchorPCs

\* The new attempt has a row of its own, and the row its record.
LEMMA RecordAttemptInv == ASSUME Inv, NEW w \in Worker, RecordAttempt(w) PROVE Inv'
<1> DEFINE r == job[w].item.rec
<1> DEFINE row == [rec |-> r, state |-> "PENDING", attempts |-> 1]
<1>1. /\ job[w].pc = "anchor" /\ rows' = Append(rows, row)
      /\ job' = [job EXCEPT ![w].pc = "send", ![w].row = Len(rows) + 1]
  BY DEF RecordAttempt
<1>2. /\ job[w] \in Job /\ WorkerOK(w) /\ r \in Record /\ confirmation[r] = "confirmed"
      /\ job[w].receipt = "none"
  BY <1>1, AnchoringKnows DEF AnchorPCs, Inv, WorkersOK, WorkerOK
<1>3. row \in Row /\ rows \in Seq(Row) /\ Len(rows) \in Nat
  BY <1>2, LenProperties DEF Row, Inv, Types
<1>4. row.rec = r /\ row.state = "PENDING"
  OBVIOUS
<1> HIDE DEF row
<1>5. /\ rows' \in Seq(Row) /\ Len(rows') = Len(rows) + 1
      /\ \A k \in 1..Len(rows) : rows'[k] = rows[k]
      /\ rows'[Len(rows) + 1] = row
  BY <1>1, <1>3, AppendProperties
<1>6. RowsGrow
  BY <1>3, <1>5 DEF RowsGrow
<1>7. \A k \in 1..Len(rows') :
            /\ confirmation[rows'[k].rec] = "confirmed"
            /\ rows'[k].state = "CONFIRMED" => anchors[rows'[k].rec].issuedAt # 0
  BY <1>2, <1>3, <1>4, <1>5 DEF Inv, RowsOK, Confirmed, NoFalseClaim, Chain!Anchored
<1> DEFINE j == [job[w] EXCEPT !.pc = "send", !.row = Len(rows) + 1]
<1>8. /\ j \in Job /\ j.pc = "send" /\ j.row = Len(rows) + 1 /\ j.item = job[w].item
      /\ j.todo = job[w].todo /\ j.receipt = "none"
  <2>1. Len(rows) + 1 \in Nat /\ "send" \in PC
    BY <1>3 DEF PC
  <2>2. j \in Job
    BY <1>2, <2>1 DEF Job
  <2> QED
    BY <1>2, <2>2 DEF Job
<1>9. job' = [job EXCEPT ![w] = j]
  BY <1>1
<1> HIDE DEF j
<1>10. Moves(w) /\ job'[w] = j
  BY <1>8, <1>9 DEF Inv, Types, Moves
<1>11. \A k, q : k \in 1..Len(rows) /\ rows[k].rec = q
               => k \in 1..Len(rows') /\ rows'[k].rec = q
  BY <1>6, RowOfGrows DEF Inv, RowOf
<1>12. WorkerOK(w)'
  <2>1. UNCHANGED confirmation
    BY DEF RecordAttempt
  <2>2. job'[w].row \in 1..Len(rows') /\ rows'[job'[w].row].rec = r
    BY <1>3, <1>4, <1>5, <1>8, <1>10
  <2>3. job'[w].row \in 0..Len(rows')
    BY <1>3, <1>5, <2>2
  <2> QED
    BY <1>2, <1>8, <1>10, <1>11, <2>1, <2>2, <2>3
    DEF WorkerOK, RowOf, AnchorPCs, RevokePCs, Confirmed
<1>13. status' \in [Record -> Status]
  BY DEF Inv, Types, RecordAttempt
<1>14. Moves(w) /\ job'[w].pc = "send"
  BY <1>8, <1>10
<1>15. UNCHANGED <<status, confirmation, lapsed, revocation, orgApproved, anchors, now, mempool>>
  BY DEF RecordAttempt, chain
<1> QED
  BY <1>1, <1>6, <1>7, <1>12, <1>13, <1>14, <1>15, QuietStep

\* A record is marked as issued by a worker that knows it to be anchored.
LEMMA MarkIssuedInv == ASSUME Inv, NEW w \in Worker, MarkIssued(w) PROVE Inv'
<1>1. job[w].pc \in {"mark", "reconcile"} /\ Done(w)
  BY DEF MarkIssued
<1>2. /\ job[w].item.rec \in Record /\ confirmation[job[w].item.rec] = "confirmed"
      /\ anchors[job[w].item.rec].issuedAt # 0
  BY <1>1 DEF Inv, WorkersOK, WorkerOK, AnchorPCs, Confirmed, Chain!Anchored
<1>3. UNCHANGED <<confirmation, lapsed, rows, revocation, orgApproved, anchors, now, mempool>>
  BY DEF MarkIssued, chain
<1>4. /\ status' \in [Record -> Status]
      /\ \A r \in Record : status'[r] # status[r] => r = job[w].item.rec /\ status'[r] = "ISSUED"
  BY <1>2 DEF MarkIssued, Rec, Inv, Types, Status
<1>5. /\ RowsGrow
      /\ \A k \in 1..Len(rows') :
            /\ confirmation[rows'[k].rec] = "confirmed"
            /\ rows'[k].state = "CONFIRMED" => anchors[rows'[k].rec].issuedAt # 0
  BY <1>3, UnchangedRows, SameRowsGrow DEF Inv
<1>6. Grows
  BY <1>3, <1>5 DEF Grows
<1>7. Moves(w) /\ job'[w].pc \in {"idle", "verify"} /\ WorkerOK(w)'
  BY <1>1, <1>6, DoneOK DEF Inv
<1> QED
  BY <1>1, <1>2, <1>3, <1>4, <1>5, <1>7, QuietStep

LEMMA MarkIssuedConflictsInv ==
  ASSUME Inv, NEW w \in Worker, MarkIssuedConflicts(w) PROVE Inv'
<1>1. SameRows(rows, {})
  BY UnchangedRows DEF Inv
<1>2. CASE Raise(w, rows)
  <2>1. SameRows(rows', {}) /\ Done(w)
    BY <1>1, <1>2, RaisedRows DEF Inv
  <2> QED
    BY <2>1, QuietDone DEF MarkIssuedConflicts, chain
<1>3. CASE job' = [job EXCEPT ![w] = Idle] /\ rows' = rows
  <2>1. /\ RowsGrow
        /\ \A k \in 1..Len(rows') :
              /\ confirmation[rows'[k].rec] = "confirmed"
              /\ rows'[k].state = "CONFIRMED" => anchors[rows'[k].rec].issuedAt # 0
    BY <1>1, <1>3, SameRowsGrow DEF Inv
  <2>2. Grows
    BY <2>1 DEF Grows, MarkIssuedConflicts, chain
  <2>3. Moves(w) /\ job'[w].pc = "idle" /\ WorkerOK(w)'
    BY <1>3, <2>2, IdleOK DEF Inv
  <2>4. status' \in [Record -> Status]
    BY DEF Inv, Types, MarkIssuedConflicts
  <2> QED
    BY <2>1, <2>3, <2>4, QuietStep DEF MarkIssuedConflicts, chain
<1> QED
  BY <1>2, <1>3 DEF MarkIssuedConflicts

(***************************************************************************)
(* Retry runs                                                              *)
(***************************************************************************)
\* A retry run selects rows, each with the record it is of.
LEMMA BacklogItems ==
  ASSUME Inv
  PROVE  Backlog \subseteq Item /\ \A i \in Backlog : RowOf(i.row, i.rec)
<1> SUFFICES ASSUME NEW i \in Backlog PROVE i \in Item /\ RowOf(i.row, i.rec)
  OBVIOUS
<1>1. PICK k \in 1..Len(rows) : i = Snapshot(k)
  BY DEF Backlog
<1>2. rows[k] \in Row /\ k \in Nat
  BY <1>1, ElementOfSeq, LenProperties DEF Inv, Types
<1>3. status[rows[k].rec] \in Status /\ orgApproved \in BOOLEAN
  BY <1>2 DEF Row, Inv, Types
<1> QED
  BY <1>1, <1>2, <1>3 DEF Snapshot, Item, Row, RowOf

LEMMA StartRetryInv == ASSUME Inv, NEW w \in Worker, StartRetry(w) PROVE Inv'
<1>1. SameRows(rows', {}) /\ RowsGrow
      /\ \A k \in 1..Len(rows') :
            /\ confirmation[rows'[k].rec] = "confirmed"
            /\ rows'[k].state = "CONFIRMED" => anchors[rows'[k].rec].issuedAt # 0
  BY UnchangedRows, SameRowsGrow DEF Inv, StartRetry, db
<1>2. Grows
  BY <1>1 DEF Grows, StartRetry, db, chain
<1>3. Moves(w) /\ job'[w].pc \in {"idle", "verify"} /\ WorkerOK(w)'
  BY <1>2, BacklogItems, ContinueOK DEF Inv, StartRetry
<1>4. status' \in [Record -> Status]
  BY DEF Inv, Types, StartRetry, db
<1>5. UNCHANGED <<status, confirmation, lapsed, revocation, orgApproved, anchors, now, mempool>>
      /\ job[w].pc = "idle"
  BY DEF StartRetry, db, chain
<1> QED
  BY <1>1, <1>3, <1>4, <1>5, QuietStep

LEMMA ReconcileInv == ASSUME Inv, NEW w \in Worker, Reconcile(w) PROVE Inv'
<1>1. /\ job[w].pc = "verify" /\ Chain!Anchored(job[w].item.rec)
      /\ rows' = ConfirmRow(job[w].item.row)
      /\ Goto(w, "reconcile") \/ Done(w)
  BY DEF Reconcile, Rec
<1>2. job[w].item.row \in 1..Len(rows) /\ rows[job[w].item.row].rec = job[w].item.rec
  BY <1>1, AnchoringKnows
<1>3. SameRows(rows', {job[w].item.row})
  BY <1>1, <1>2, ConfirmRowType DEF Inv
<1>4. \A k \in {job[w].item.row} : Chain!Anchored(rows[k].rec)
  BY <1>1, <1>2
<1>5. UNCHANGED <<status, confirmation, lapsed, revocation, orgApproved, anchors, now, mempool>>
  BY DEF Reconcile, chain
<1>6. "reconcile" \in PC
  BY DEF PC
<1>7. CASE Goto(w, "reconcile")
  BY <1>1, <1>3, <1>4, <1>5, <1>6, <1>7, QuietGoto DEF AnchorPCs
<1>8. CASE Done(w)
  BY <1>1, <1>3, <1>4, <1>5, <1>8, QuietDone
<1> QED
  BY <1>1, <1>7, <1>8

LEMMA ResubmitInv == ASSUME Inv, NEW w \in Worker, Resubmit(w) PROVE Inv'
<1>1. SameRows(rows', {})
  BY UnchangedRows DEF Inv, Resubmit, db
<1>2. UNCHANGED <<status, confirmation, lapsed, revocation, orgApproved, anchors, now, mempool>>
  BY DEF Resubmit, db, chain
<1>3. "anchor" \in PC /\ job[w].pc = "verify" /\ Goto(w, "anchor")
  BY DEF PC, Resubmit
<1> QED
  BY <1>1, <1>2, <1>3, QuietGoto

\* Steps that end a worker's business and change nothing else.
LEMMA GivenUpInv ==
  ASSUME Inv, NEW w \in Worker, VerifyOutage(w) \/ AcceptConflicts(w) \/ RevokeRejected(w)
  PROVE  Inv'
<1>1. SameRows(rows', {}) /\ Done(w)
  BY UnchangedRows DEF Inv, VerifyOutage, AcceptConflicts, RevokeRejected, db
<1>2. UNCHANGED <<status, confirmation, lapsed, revocation, orgApproved, anchors, now, mempool>>
  BY DEF VerifyOutage, AcceptConflicts, RevokeRejected, db, chain
<1>3. job[w].pc \notin {"wait", "revokeWait"} \/ job[w].receipt # "none"
  BY DEF VerifyOutage, AcceptConflicts, RevokeRejected
<1> QED
  BY <1>1, <1>2, <1>3, QuietDone

(***************************************************************************)
(* Steps that write a status                                               *)
(***************************************************************************)
LEMMA StatusWritten ==
  ASSUME Inv, NEW w \in Worker, Done(w),
         UNCHANGED <<confirmation, lapsed, rows, revocation, orgApproved, anchors, now, mempool>>,
         job[w].pc \notin {"wait", "revokeWait"},
         status' \in [Record -> Status],
         \A r \in Record : status'[r] # status[r] =>
             /\ status'[r] \in {"ISSUED", "REVOKED", "EXPIRED"}
             /\ status'[r] # "EXPIRED" => confirmation[r] = "confirmed"
             /\ status'[r] = "ISSUED" => anchors[r].issuedAt # 0
  PROVE  Inv'
<1>1. /\ RowsGrow
      /\ \A k \in 1..Len(rows') :
            /\ confirmation[rows'[k].rec] = "confirmed"
            /\ rows'[k].state = "CONFIRMED" => anchors[rows'[k].rec].issuedAt # 0
  BY UnchangedRows, SameRowsGrow DEF Inv
<1>2. Grows
  BY <1>1 DEF Grows
<1>3. Moves(w) /\ job'[w].pc \in {"idle", "verify"} /\ WorkerOK(w)'
  BY <1>2, DoneOK DEF Inv
<1> QED
  BY <1>1, <1>3, QuietStep

LEMMA RevokeSaveInv == ASSUME Inv, NEW w \in Worker, RevokeSave(w) PROVE Inv'
<1>1. job[w].item.rec \in Record /\ confirmation[job[w].item.rec] = "confirmed"
  BY DEF RevokeSave, Inv, WorkersOK, WorkerOK, RevokePCs, GateOK, Confirmed
<1>2. /\ status' \in [Record -> Status]
      /\ \A r \in Record : status'[r] # status[r] => r = job[w].item.rec /\ status'[r] = "REVOKED"
  BY <1>1 DEF RevokeSave, Rec, Inv, Types, Status
<1> QED
  BY <1>1, <1>2, StatusWritten DEF RevokeSave, chain

LEMMA ExpireSelectedInv == ASSUME Inv, NEW w \in Worker, ExpireSelected(w) PROVE Inv'
<1>1. /\ status' \in [Record -> Status]
      /\ \A r \in Record : status'[r] # status[r] => status'[r] = "EXPIRED"
  BY DEF ExpireSelected, Inv, Types, Status
<1> QED
  BY <1>1, StatusWritten DEF ExpireSelected, chain

LEMMA SelectStaleInv == ASSUME Inv, NEW w \in Worker, SelectStale(w) PROVE Inv'
<1> DEFINE j == [job[w] EXCEPT !.pc = "expire", !.stale = Stale]
<1>1. job[w] \in Job /\ job[w].pc = "idle" /\ Stale \subseteq Record /\ "expire" \in PC
  BY DEF Inv, Types, SelectStale, Stale, PC
<1>2. /\ j \in Job /\ j.pc = "expire" /\ j.item = job[w].item /\ j.row = job[w].row
      /\ j.todo = job[w].todo
  BY <1>1 DEF Job
<1>3. job' = [job EXCEPT ![w] = j]
  BY DEF SelectStale
<1> HIDE DEF j
<1>4. Moves(w) /\ job'[w] = j
  BY <1>2, <1>3 DEF Inv, Types, Moves
<1>5. UNCHANGED <<status, confirmation, lapsed, rows, revocation, orgApproved, anchors, now, mempool>>
  BY DEF SelectStale, db, chain
<1>6. WorkerOK(w)'
  BY <1>2, <1>4, <1>5 DEF Inv, WorkersOK, WorkerOK, RowOf, AnchorPCs, RevokePCs
<1>7. /\ RowsGrow
      /\ \A k \in 1..Len(rows') :
            /\ confirmation[rows'[k].rec] = "confirmed"
            /\ rows'[k].state = "CONFIRMED" => anchors[rows'[k].rec].issuedAt # 0
  BY <1>5, UnchangedRows, SameRowsGrow DEF Inv
<1>8. status' \in [Record -> Status] /\ job'[w].pc = "expire"
  BY <1>2, <1>4, <1>5 DEF Inv, Types
<1> QED
  BY <1>1, <1>4, <1>5, <1>6, <1>7, <1>8, QuietStep

(***************************************************************************)
(* The consent gate                                                        *)
(***************************************************************************)
LEMMA NoRowsChanged ==
  ASSUME Inv, rows' = rows
  PROVE  RowsGrow /\ \A r : HasRow(r) => HasRow(r)'
BY LenProperties DEF Inv, Types, RowsGrow, HasRow

\* A change that lets no fact go is seen by no row, anchor or transaction.
LEMMA QuietData ==
  ASSUME Inv, Grows, UNCHANGED <<rows, anchors, mempool>>
  PROVE  RowsOK' /\ ChainOK' /\ TxsOK'
<1>1. \A r : HasRow(r) => HasRow(r)'
  BY NoRowsChanged
<1>2. \A k \in 1..Len(rows) : rows[k].rec \in Record
  <2>1. rows \in [1..Len(rows) -> Row]
    BY LenProperties DEF Inv, Types
  <2> QED
    BY <2>1 DEF Row
<1>3. RowsOK'
  BY <1>2 DEF Inv, RowsOK, Confirmed, Grows
<1>4. ChainOK'
  BY <1>1 DEF Inv, ChainOK, Chain!Anchored, Chain!Revoked, Grows
<1>5. \A k \in 1..Len(mempool) : mempool[k].rec \in Record
  <2>1. mempool \in [1..Len(mempool) -> Tx]
    BY LenProperties DEF Inv, Types
  <2> QED
    BY <2>1 DEF Tx
<1>6. TxsOK'
  BY <1>1, <1>5 DEF Inv, TxsOK, Grows
<1> QED
  BY <1>3, <1>4, <1>6

\* Steps of nobody's request keep what every worker relies on.
LEMMA AllKeep ==
  ASSUME Inv, Grows, job' = job
  PROVE  WorkersOK'
<1> SUFFICES ASSUME NEW v \in Worker PROVE WorkerOK(v)'
  BY DEF WorkersOK
<1> QED
  BY OthersKeep DEF Inv

LEMMA CreateOfferInv == ASSUME Inv, NEW r \in Record, CreateOffer(r) PROVE Inv'
<1>1. /\ status[r] = "DRAFT" /\ confirmation[r] = "none" /\ revocation[r] = "none"
      /\ status' = [status EXCEPT ![r] = "OFFERED"]
      /\ confirmation' = [confirmation EXCEPT ![r] = "open"]
      /\ UNCHANGED <<lapsed, rows, revocation, orgApproved, anchors, now, mempool, job>>
  BY DEF CreateOffer, chain, Inv, GateOK, Types, Confirmed
<1>2. Types'
  BY <1>1 DEF Inv, Types, Status
<1>3. Grows
  BY <1>1, NoRowsChanged DEF Grows, Inv, Types
<1>4. RowsOK' /\ ChainOK' /\ TxsOK' /\ WorkersOK'
  BY <1>1, <1>3, QuietData, AllKeep
<1>5. GateOK'
  BY <1>1 DEF Inv, Types, GateOK, Confirmed
<1>6. LinksOK'
  BY <1>1 DEF Inv, LinksOK
<1>7. AnsweringOK'
  BY <1>1 DEF Inv, Types, AnsweringOK
<1>8. NoFalseClaim'
  BY <1>1 DEF Inv, Types, NoFalseClaim, Chain!Anchored, Chain!Revoked
<1> QED
  BY <1>2, <1>4, <1>5, <1>6, <1>7, <1>8 DEF Inv

LEMMA UnseenInv ==
  ASSUME Inv, lapsed' \in [Record -> BOOLEAN], orgApproved' \in BOOLEAN,
         UNCHANGED <<status, confirmation, rows, revocation, anchors, now, mempool, job>>
  PROVE  Inv'
<1>1. Types'
  BY DEF Inv, Types
<1>2. Grows
  BY NoRowsChanged DEF Grows
<1>3. RowsOK' /\ ChainOK' /\ TxsOK' /\ WorkersOK'
  BY <1>2, QuietData, AllKeep
<1>4. GateOK' /\ LinksOK' /\ AnsweringOK'
  BY DEF Inv, GateOK, Confirmed, LinksOK, AnsweringOK
<1>5. NoFalseClaim'
  BY DEF Inv, NoFalseClaim, Chain!Anchored, Chain!Revoked
<1> QED
  BY <1>1, <1>3, <1>4, <1>5 DEF Inv

LEMMA OfferLapsesInv == ASSUME Inv, NEW r \in Record, OfferLapses(r) PROVE Inv'
BY UnseenInv DEF OfferLapses, Inv, Types, chain

\* The lock: a request comes to answer an offer that nobody is answering.
LEMMA LockOpenConfirmationInv ==
  ASSUME Inv, NEW w \in Worker, NEW r \in Record, LockOpenConfirmation(w, r)
  PROVE  Inv'
<1> DEFINE i == [NoItem EXCEPT !.rec = r, !.seen = "PENDING_ANCHOR", !.mayIssue = orgApproved]
<1> DEFINE j == [job[w] EXCEPT !.pc = "answering", !.item = i]
<1>1. /\ job[w] \in Job /\ job[w].pc = "idle" /\ job[w].receipt = "none" /\ WorkerOK(w)
      /\ confirmation[r] = "open" /\ job' = [job EXCEPT ![w] = j]
      /\ \A v \in Worker : job[v].pc = "answering" => job[v].item.rec # r
  BY DEF LockOpenConfirmation, Locked, Rec, Inv, Types, WorkersOK, WorkerOK
<1>2. UNCHANGED <<status, confirmation, lapsed, rows, revocation, orgApproved, anchors, now, mempool>>
  BY DEF LockOpenConfirmation, db, chain
<1>3. i \in Item /\ i.rec = r /\ i.row = 0
  BY IdleType DEF NoItem, Item, Status, Inv, Types
<1> HIDE DEF i
<1>4. /\ j \in Job /\ j.pc = "answering" /\ j.item = i /\ j.row = job[w].row
      /\ j.todo = job[w].todo /\ j.receipt = "none"
  BY <1>1, <1>3 DEF Job, PC
<1> HIDE DEF j
<1>5. Moves(w) /\ job'[w] = j
  BY <1>1, <1>4 DEF Inv, Types, Moves
<1>6. Types'
  BY <1>2, <1>5 DEF Inv, Types, Moves
<1>7. Grows
  BY <1>2, NoRowsChanged DEF Grows
<1>8. WorkerOK(w)'
  BY <1>1, <1>2, <1>3, <1>4, <1>5 DEF WorkerOK, RowOf, AnchorPCs, RevokePCs
<1>9. RowsOK' /\ ChainOK' /\ TxsOK' /\ WorkersOK'
  BY <1>2, <1>5, <1>7, <1>8, QuietData, WorkersKeep DEF Inv
<1>10. LinksOK'
  BY <1>1, <1>2, <1>5, NotWaiting, LinksKept DEF Inv
<1>11. AnsweringOK'
  BY <1>1, <1>2, <1>3, <1>4, <1>5 DEF Inv, AnsweringOK, Moves
<1>12. GateOK' /\ NoFalseClaim'
  BY <1>2 DEF Inv, GateOK, Confirmed, NoFalseClaim, Chain!Anchored, Chain!Revoked
<1> QED
  BY <1>6, <1>9, <1>10, <1>11, <1>12 DEF Inv

\* The request that answers an offer is the only one to answer it, so it finds
\* it still open and nobody else's answer is touched.
LEMMA AcceptInv == ASSUME Inv, NEW w \in Worker, Accept(w) PROVE Inv'
<1> DEFINE r == job[w].item.rec
<1>1. /\ job[w].pc = "answering" /\ r \in Record /\ confirmation[r] = "open"
      /\ \A v \in Worker : job[v].pc = "answering" /\ job[v].item.rec = r => v = w
  BY DEF Accept, Inv, AnsweringOK
<1>2. /\ confirmation' = [confirmation EXCEPT ![r] = "confirmed"]
      /\ status' = [status EXCEPT ![r] = "PENDING_ANCHOR"]
      /\ Goto(w, "anchor")
      /\ UNCHANGED <<lapsed, rows, revocation, orgApproved, anchors, now, mempool>>
  BY DEF Accept, Rec, chain
<1>3. /\ Moves(w) /\ job'[w].pc = "anchor" /\ job'[w].item = job[w].item
      /\ job'[w].row = job[w].row /\ job'[w].receipt = job[w].receipt
      /\ job'[w].todo = job[w].todo
  BY <1>2, GotoMoves DEF PC, Inv
<1>4. confirmation'[r] = "confirmed" /\ \A q \in Record \ {r} : confirmation'[q] = confirmation[q]
  BY <1>1, <1>2 DEF Inv, Types
<1> HIDE DEF r
<1>5. Types'
  BY <1>1, <1>2, <1>3 DEF Inv, Types, Status, Moves
<1>6. Grows
  BY <1>2, <1>4, NoRowsChanged DEF Grows
<1>7. WorkerOK(w) /\ job[w].receipt = "none"
  BY <1>1 DEF Inv, WorkersOK, WorkerOK
<1>8. WorkerOK(w)'
  BY <1>1, <1>2, <1>3, <1>4, <1>7 DEF WorkerOK, RowOf, AnchorPCs, RevokePCs, Confirmed, r
<1>9. RowsOK' /\ ChainOK' /\ TxsOK' /\ WorkersOK'
  BY <1>2, <1>3, <1>6, <1>8, QuietData, WorkersKeep DEF Inv
<1>10. LinksOK'
  BY <1>1, <1>2, <1>3, NotWaiting, LinksKept DEF Inv
<1>11. AnsweringOK'
  BY <1>1, <1>3, <1>4, AnsweringKept DEF Inv, AnsweringOK
<1>12. GateOK'
  BY <1>1, <1>2, <1>4 DEF Inv, Types, GateOK, Confirmed
<1>13. NoFalseClaim'
  BY <1>1, <1>2 DEF Inv, Types, NoFalseClaim, Chain!Anchored, Chain!Revoked
<1> QED
  BY <1>5, <1>9, <1>10, <1>11, <1>12, <1>13 DEF Inv

LEMMA DeclineInv == ASSUME Inv, NEW w \in Worker, Decline(w) PROVE Inv'
<1> DEFINE r == job[w].item.rec
<1>1. /\ job[w].pc = "answering" /\ r \in Record /\ confirmation[r] = "open"
      /\ \A v \in Worker : job[v].pc = "answering" /\ job[v].item.rec = r => v = w
  BY DEF Decline, Inv, AnsweringOK
<1>2. /\ confirmation' = [confirmation EXCEPT ![r] = "declined"]
      /\ status' = [status EXCEPT ![r] = "DECLINED"]
      /\ Done(w)
      /\ UNCHANGED <<lapsed, rows, revocation, orgApproved, anchors, now, mempool>>
  BY DEF Decline, Rec, chain
<1>3. confirmation'[r] = "declined" /\ \A q \in Record \ {r} : confirmation'[q] = confirmation[q]
  BY <1>1, <1>2 DEF Inv, Types
<1>4. Grows
  BY <1>1, <1>2, <1>3, NoRowsChanged DEF Grows
<1>5. Moves(w) /\ job'[w].pc \in {"idle", "verify"} /\ WorkerOK(w)'
  BY <1>2, <1>4, DoneOK DEF Inv
<1> HIDE DEF r
<1>6. Types'
  BY <1>1, <1>2, <1>5 DEF Inv, Types, Status, Moves
<1>7. RowsOK' /\ ChainOK' /\ TxsOK' /\ WorkersOK'
  BY <1>2, <1>4, <1>5, QuietData, WorkersKeep DEF Inv
<1>8. LinksOK'
  BY <1>1, <1>2, <1>5, NotWaiting, LinksKept DEF Inv
<1>9. AnsweringOK'
  BY <1>1, <1>3, <1>5, AnsweringKept DEF Inv, AnsweringOK
<1>10. GateOK'
  BY <1>1, <1>2, <1>3 DEF Inv, Types, GateOK, Confirmed
<1>11. NoFalseClaim'
  BY <1>1, <1>2 DEF Inv, Types, NoFalseClaim, Chain!Anchored, Chain!Revoked
<1> QED
  BY <1>6, <1>7, <1>8, <1>9, <1>10, <1>11 DEF Inv

(***************************************************************************)
(* revoke_record                                                           *)
(***************************************************************************)
\* The event is there before anything is sent, and only for a confirmed record.
LEMMA BeginRevokeInv ==
  ASSUME Inv, NEW w \in Worker, NEW r \in Record, BeginRevoke(w, r)
  PROVE  Inv'
<1> DEFINE i == [NoItem EXCEPT !.rec = r]
<1> DEFINE j == [job[w] EXCEPT !.pc = "revoke", !.item = i]
<1>1. /\ job[w] \in Job /\ job[w].pc = "idle" /\ job[w].receipt = "none" /\ WorkerOK(w)
      /\ confirmation[r] = "confirmed" /\ job' = [job EXCEPT ![w] = j]
  BY DEF BeginRevoke, Inv, Types, WorkersOK, WorkerOK, GateOK, Confirmed
<1>2. UNCHANGED <<status, confirmation, lapsed, rows, orgApproved, anchors, now, mempool>>
  BY DEF BeginRevoke, chain
<1>3. /\ revocation' \in [Record -> {"none", "recorded", "confirmed"}]
      /\ revocation'[r] # "none"
      /\ revocation'[r] = "confirmed" => revocation[r] = "confirmed"
      /\ \A q \in Record \ {r} : revocation'[q] = revocation[q]
  BY DEF BeginRevoke, Inv, Types
<1>4. i \in Item /\ i.rec = r /\ i.row = 0
  BY IdleType DEF NoItem, Item
<1> HIDE DEF i
<1>5. /\ j \in Job /\ j.pc = "revoke" /\ j.item = i /\ j.row = job[w].row
      /\ j.todo = job[w].todo /\ j.receipt = "none"
  BY <1>1, <1>4 DEF Job, PC
<1> HIDE DEF j
<1>6. Moves(w) /\ job'[w] = j
  BY <1>1, <1>5 DEF Inv, Types, Moves
<1>7. Types'
  BY <1>2, <1>3, <1>6 DEF Inv, Types, Moves
<1>8. Grows
  BY <1>2, <1>3, NoRowsChanged DEF Grows
<1>9. WorkerOK(w)'
  BY <1>1, <1>2, <1>3, <1>4, <1>5, <1>6 DEF WorkerOK, RowOf, AnchorPCs, RevokePCs
<1>10. RowsOK' /\ ChainOK' /\ TxsOK' /\ WorkersOK'
  BY <1>2, <1>6, <1>8, <1>9, QuietData, WorkersKeep DEF Inv
<1>11. LinksOK'
  BY <1>1, <1>2, <1>6, NotWaiting, LinksKept DEF Inv
<1>12. AnsweringOK'
  BY <1>2, <1>5, <1>6, AnsweringKept DEF Inv
<1>13. GateOK'
  BY <1>1, <1>2, <1>3 DEF Inv, GateOK, Confirmed
<1>14. NoFalseClaim'
  BY <1>2, <1>3 DEF Inv, NoFalseClaim, Chain!Anchored, Chain!Revoked
<1> QED
  BY <1>7, <1>10, <1>11, <1>12, <1>13, <1>14 DEF Inv

LEMMA RevokeReceiptInv == ASSUME Inv, NEW w \in Worker, RevokeReceipt(w) PROVE Inv'
<1> DEFINE r == job[w].item.rec
<1>1. /\ job[w].pc = "revokeWait" /\ job[w].receipt = "ok" /\ WorkerOK(w) /\ r \in Record
      /\ anchors[r].revokedAt # 0 /\ revocation[r] # "none" /\ confirmation[r] = "confirmed"
  BY DEF RevokeReceipt, Inv, WorkersOK, WorkerOK, RevokePCs, GateOK, Confirmed, Chain!Revoked
<1>2. /\ revocation' = [revocation EXCEPT ![r] = "confirmed"] /\ Goto(w, "revokeSave")
      /\ UNCHANGED <<status, confirmation, lapsed, rows, orgApproved, anchors, now, mempool>>
  BY DEF RevokeReceipt, Rec, chain
<1>3. /\ Moves(w) /\ job'[w].pc = "revokeSave" /\ job'[w].item = job[w].item
      /\ job'[w].row = job[w].row /\ job'[w].receipt = job[w].receipt
      /\ job'[w].todo = job[w].todo
  BY <1>2, GotoMoves DEF PC, Inv
<1>4. revocation'[r] = "confirmed" /\ \A q \in Record \ {r} : revocation'[q] = revocation[q]
  BY <1>1, <1>2 DEF Inv, Types
<1> HIDE DEF r
<1>5. Types'
  BY <1>1, <1>2, <1>3 DEF Inv, Types, Moves
<1>6. Grows
  BY <1>2, <1>4, NoRowsChanged DEF Grows
<1>7. WorkerOK(w)'
  BY <1>1, <1>2, <1>3, <1>4 DEF WorkerOK, RowOf, AnchorPCs, RevokePCs, r
<1>8. RowsOK' /\ ChainOK' /\ TxsOK' /\ WorkersOK'
  BY <1>2, <1>3, <1>6, <1>7, QuietData, WorkersKeep DEF Inv
<1>9. LinksOK'
  BY <1>1, <1>2, <1>3, NotWaiting, LinksKept DEF Inv
<1>10. AnsweringOK'
  BY <1>2, <1>3, AnsweringKept DEF Inv
<1>11. GateOK' /\ NoFalseClaim'
  BY <1>1, <1>2, <1>4 DEF Inv, GateOK, Confirmed, NoFalseClaim, Chain!Anchored, Chain!Revoked
<1> QED
  BY <1>5, <1>8, <1>9, <1>10, <1>11 DEF Inv

(***************************************************************************)
(* Transactions on their way                                               *)
(***************************************************************************)
\* A submitted transaction has its row already, is the one its sender waits
\* for, and its sender waits for no other.
LEMMA Submitted ==
  ASSUME Inv, NEW w \in Worker, NEW op \in {"anchor", "revoke"},
         job[w].pc = IF op = "anchor" THEN "send" ELSE "revoke",
         mempool' = Append(mempool, [op |-> op, rec |-> job[w].item.rec, from |-> w]),
         Goto(w, IF op = "anchor" THEN "wait" ELSE "revokeWait"),
         op = "revoke" => Chain!Anchored(job[w].item.rec),
         UNCHANGED <<status, confirmation, lapsed, rows, revocation, orgApproved, anchors, now>>
  PROVE  Inv'
<1> DEFINE tx == [op |-> op, rec |-> job[w].item.rec, from |-> w]
<1>1. /\ WorkerOK(w) /\ job[w].item.rec \in Record /\ job[w].receipt = "none"
      /\ op = "revoke" => revocation[job[w].item.rec] # "none"
  BY DEF Inv, WorkersOK, WorkerOK, AnchorPCs, RevokePCs
<1>2. HasRow(job[w].item.rec)
  BY <1>1 DEF Inv, WorkerOK, RowOf, HasRow, ChainOK
<1>3. tx \in Tx /\ tx.op = op /\ tx.rec = job[w].item.rec /\ tx.from = w
  BY <1>1 DEF Tx
<1>4. mempool \in Seq(Tx) /\ Len(mempool) \in Nat /\ mempool' = Append(mempool, tx)
  BY LenProperties DEF Inv, Types
<1> HIDE DEF tx
<1>5. /\ mempool' \in Seq(Tx) /\ Len(mempool') = Len(mempool) + 1
      /\ \A k \in 1..Len(mempool) : mempool'[k] = mempool[k]
      /\ mempool'[Len(mempool) + 1] = tx
  BY <1>3, <1>4, AppendProperties
<1>6. \A k \in 1..Len(mempool') : k \in 1..Len(mempool) \/ k = Len(mempool) + 1
  BY <1>4, <1>5
<1>7. /\ Moves(w) /\ job'[w].pc = (IF op = "anchor" THEN "wait" ELSE "revokeWait")
      /\ job'[w].item = job[w].item /\ job'[w].row = job[w].row
      /\ job'[w].receipt = job[w].receipt /\ job'[w].todo = job[w].todo
  BY GotoMoves DEF PC, Inv
<1>8. Types'
  BY <1>5, <1>7 DEF Inv, Types, Moves
<1>9. Grows /\ \A r : HasRow(r) => HasRow(r)'
  BY NoRowsChanged DEF Grows
<1>10. WorkerOK(w)'
  BY <1>1, <1>7 DEF WorkerOK, RowOf, AnchorPCs, RevokePCs, Confirmed
<1>11. WorkersOK'
  BY <1>7, <1>9, <1>10, WorkersKeep DEF Inv
<1>12. GateOK' /\ RowsOK' /\ NoFalseClaim'
  BY DEF Inv, GateOK, RowsOK, Confirmed, NoFalseClaim, Chain!Anchored, Chain!Revoked
<1>13. ChainOK'
  BY <1>9 DEF Inv, ChainOK, Chain!Anchored, Chain!Revoked
<1>14. TxsOK'
  BY <1>1, <1>2, <1>3, <1>5, <1>6, <1>9 DEF Inv, TxsOK
<1>15. \A k \in 1..Len(mempool) : mempool[k].from # w
  BY NotWaiting DEF Inv
<1>16. LinksOK'
  <2> SUFFICES ASSUME NEW v \in Worker, NEW k \in 1..Len(mempool'), mempool'[k].from = v
               PROVE  /\ job'[v].pc = IF mempool'[k].op = "anchor" THEN "wait" ELSE "revokeWait"
                      /\ job'[v].receipt = "none"
                      /\ job'[v].item.rec = mempool'[k].rec
                      /\ \A i \in 1..Len(mempool') : mempool'[i].from = v => i = k
    BY DEF LinksOK
  <2>1. CASE v = w
    BY <2>1, <1>1, <1>3, <1>5, <1>6, <1>7, <1>15
  <2>2. CASE v # w
    BY <2>2, <1>3, <1>5, <1>6, <1>7 DEF Inv, LinksOK, Moves
  <2> QED
    BY <2>1, <2>2
<1>17. AnsweringOK'
  BY <1>7, AnsweringKept DEF Inv
<1> QED
  BY <1>8, <1>11, <1>12, <1>13, <1>14, <1>16, <1>17 DEF Inv

LEMMA SubmitAnchorInv == ASSUME Inv, NEW w \in Worker, SubmitAnchor(w) PROVE Inv'
<1>1. "anchor" \in {"anchor", "revoke"}
  OBVIOUS
<1> QED
  BY <1>1, Submitted DEF SubmitAnchor, Rec, db, chain

LEMMA SubmitRevokeInv == ASSUME Inv, NEW w \in Worker, SubmitRevoke(w) PROVE Inv'
<1>1. "revoke" \in {"anchor", "revoke"}
  OBVIOUS
<1> QED
  BY <1>1, Submitted DEF SubmitRevoke, CanRevoke, Rec, db, chain

\* Nobody waits any more for what a worker had submitted; it is still on its way.
LEMMA Abandoned ==
  ASSUME Inv, NEW w \in Worker
  PROVE  /\ Abandon(w) \in Seq(Tx) /\ Len(Abandon(w)) = Len(mempool)
         /\ \A k \in 1..Len(mempool) :
              /\ Abandon(w)[k].op = mempool[k].op /\ Abandon(w)[k].rec = mempool[k].rec
              /\ Abandon(w)[k].from = IF mempool[k].from = w THEN NoOne ELSE mempool[k].from
<1>1. mempool \in [1..Len(mempool) -> Tx] /\ Len(mempool) \in Nat
  BY LenProperties DEF Inv, Types
<1>2. \A k \in 1..Len(mempool) :
          /\ mempool[k] \in Tx /\ [mempool[k] EXCEPT !.from = NoOne] \in Tx
          /\ [mempool[k] EXCEPT !.from = NoOne].op = mempool[k].op
          /\ [mempool[k] EXCEPT !.from = NoOne].rec = mempool[k].rec
          /\ [mempool[k] EXCEPT !.from = NoOne].from = NoOne
  BY <1>1 DEF Tx
<1>3. Abandon(w) \in [1..Len(mempool) -> Tx]
  BY <1>2 DEF Abandon
<1>4. Abandon(w) \in Seq(Tx) /\ Len(Abandon(w)) = Len(mempool)
  BY <1>1, <1>3, SeqDef, LenProperties
<1> QED
  BY <1>2, <1>4 DEF Abandon

\* A worker that waits for nothing any more: whatever of its own is still on its
\* way may yet be mined, and everything that has to be true then is.
LEMMA Released ==
  ASSUME Inv, NEW w \in Worker,
         UNCHANGED <<status, confirmation, lapsed, revocation, orgApproved, anchors, now>>,
         SameRows(rows', {}), Moves(w), WorkerOK(w)', job'[w].pc # "answering",
         mempool' \in Seq(Tx),
         \A k \in 1..Len(mempool') :
             /\ HasRow(mempool'[k].rec)
             /\ mempool'[k].op = "revoke" => revocation[mempool'[k].rec] # "none"
             /\ mempool'[k].from \in Worker =>
                   /\ k \in 1..Len(mempool) /\ mempool'[k].from # w
                   /\ mempool'[k].op = mempool[k].op /\ mempool'[k].rec = mempool[k].rec
                   /\ mempool'[k].from = mempool[k].from
  PROVE  Inv'
<1>1. /\ RowsGrow
      /\ \A k \in 1..Len(rows') :
            /\ confirmation[rows'[k].rec] = "confirmed"
            /\ rows'[k].state = "CONFIRMED" => anchors[rows'[k].rec].issuedAt # 0
  BY SameRowsGrow DEF Inv
<1>2. Grows
  BY <1>1 DEF Grows
<1>3. \A r : HasRow(r) => HasRow(r)'
  BY <1>1, HasRowGrows DEF Inv
<1>4. Types'
  BY <1>1 DEF Inv, Types, RowsGrow, Moves
<1>5. WorkersOK'
  BY <1>2, WorkersKeep DEF Inv
<1>6. GateOK' /\ RowsOK'
  BY <1>1 DEF Inv, GateOK, RowsOK, Confirmed
<1>7. ChainOK'
  BY <1>3 DEF Inv, ChainOK, Chain!Anchored, Chain!Revoked
<1>8. TxsOK'
  BY <1>3 DEF TxsOK
<1>9. LinksOK'
  BY DEF Inv, LinksOK, Moves
<1>10. AnsweringOK'
  BY AnsweringKept DEF Inv
<1>11. NoFalseClaim'
  BY <1>1 DEF Inv, NoFalseClaim, Chain!Anchored, Chain!Revoked
<1> QED
  BY <1>4, <1>5, <1>6, <1>7, <1>8, <1>9, <1>10, <1>11 DEF Inv

\* It stops waiting,
LEMMA StoppedWaiting ==
  ASSUME Inv, NEW w \in Worker, mempool' = Abandon(w),
         UNCHANGED <<status, confirmation, lapsed, revocation, orgApproved, anchors, now>>,
         SameRows(rows', {}), Moves(w), WorkerOK(w)', job'[w].pc # "answering"
  PROVE  Inv'
<1>1. /\ mempool' \in Seq(Tx) /\ Len(mempool') = Len(mempool)
      /\ \A k \in 1..Len(mempool) :
           /\ mempool'[k].op = mempool[k].op /\ mempool'[k].rec = mempool[k].rec
           /\ mempool'[k].from = IF mempool[k].from = w THEN NoOne ELSE mempool[k].from
  BY Abandoned
<1>2. \A k \in 1..Len(mempool') :
        /\ HasRow(mempool'[k].rec)
        /\ mempool'[k].op = "revoke" => revocation[mempool'[k].rec] # "none"
        /\ mempool'[k].from \in Worker => mempool'[k].from # w /\ mempool'[k].from = mempool[k].from
  BY <1>1, PipelineAssumption DEF Inv, TxsOK
<1> QED
  BY <1>1, <1>2, Released

\* ... or never began to: the answer to its submission was lost.
LEMMA Unheard ==
  ASSUME Inv, NEW w \in Worker, NEW op \in {"anchor", "revoke"}, NEW accepts,
         SubmissionFails(w, op, accepts), job[w].item.rec \in Record,
         job[w].pc \notin {"wait", "revokeWait"},
         accepts => HasRow(job[w].item.rec),
         op = "revoke" => revocation[job[w].item.rec] # "none",
         UNCHANGED <<status, confirmation, lapsed, revocation, orgApproved, anchors, now>>,
         SameRows(rows', {}), Moves(w), WorkerOK(w)', job'[w].pc # "answering"
  PROVE  Inv'
<1>1. mempool \in Seq(Tx) /\ Len(mempool) \in Nat
  BY LenProperties DEF Inv, Types
<1>2. \A k \in 1..Len(mempool) : mempool[k].from # w
  BY NotWaiting DEF Inv
<1>3. \A k \in 1..Len(mempool) :
        /\ HasRow(mempool[k].rec)
        /\ mempool[k].op = "revoke" => revocation[mempool[k].rec] # "none"
  BY DEF Inv, TxsOK
<1>4. CASE UNCHANGED mempool
  BY <1>1, <1>2, <1>3, <1>4, Released
<1>5. CASE accepts /\ mempool' = Append(mempool, [op |-> op, rec |-> Rec(w), from |-> NoOne])
  <2> DEFINE tx == [op |-> op, rec |-> job[w].item.rec, from |-> NoOne]
  <2>1. tx \in Tx /\ tx.op = op /\ tx.rec = job[w].item.rec /\ tx.from = NoOne
    BY DEF Tx
  <2>2. mempool' = Append(mempool, tx)
    BY <1>5 DEF Rec
  <2> HIDE DEF tx
  <2>3. /\ mempool' \in Seq(Tx) /\ Len(mempool') = Len(mempool) + 1
        /\ \A k \in 1..Len(mempool) : mempool'[k] = mempool[k]
        /\ mempool'[Len(mempool) + 1] = tx
    BY <1>1, <2>1, <2>2, AppendProperties
  <2>4. ASSUME NEW k \in 1..Len(mempool')
        PROVE  /\ HasRow(mempool'[k].rec)
               /\ mempool'[k].op = "revoke" => revocation[mempool'[k].rec] # "none"
               /\ mempool'[k].from \in Worker =>
                     k \in 1..Len(mempool) /\ mempool'[k] = mempool[k] /\ mempool'[k].from # w
    <3>1. CASE k = Len(mempool) + 1
      BY <1>5, <2>1, <2>3, <3>1, PipelineAssumption
    <3>2. CASE k \in 1..Len(mempool)
      BY <1>2, <1>3, <2>3, <3>2
    <3> QED
      BY <1>1, <2>3, <3>1, <3>2
  <2> QED
    BY <2>3, <2>4, Released
<1> QED
  BY <1>4, <1>5 DEF SubmissionFails

LEMMA AnchorOutageInv == ASSUME Inv, NEW w \in Worker, AnchorOutage(w) PROVE Inv'
<1>1. job[w].row \in 1..Len(rows) /\ rows[job[w].row].rec = job[w].item.rec
      /\ job[w].item.rec \in Record
  BY AnchoringKnows DEF AnchorOutage, AnchorPCs
<1>2. SameRows(rows', {})
  BY <1>1, SetRowType DEF Inv, AnchorOutage
<1>3. RowsGrow
  BY <1>2, SameRowsGrow DEF Inv
<1>4. UNCHANGED <<status, confirmation, lapsed, revocation, orgApproved, anchors, now>>
  BY DEF AnchorOutage, chain
<1>5. Grows
  BY <1>3, <1>4 DEF Grows
<1>6. Moves(w) /\ job'[w].pc \in {"idle", "verify"} /\ WorkerOK(w)'
  BY <1>5, DoneOK DEF Inv, AnchorOutage
<1>7. HasRow(job[w].item.rec)
  BY <1>1 DEF HasRow
<1>8. "anchor" \in {"anchor", "revoke"}
  OBVIOUS
<1>9. PICK accepts : SubmissionFails(w, "anchor", accepts) /\ job[w].pc = "send"
  BY DEF AnchorOutage
<1> QED
  BY <1>1, <1>2, <1>4, <1>6, <1>7, <1>8, <1>9, Unheard

LEMMA AnchorPollFailsInv == ASSUME Inv, NEW w \in Worker, AnchorPollFails(w) PROVE Inv'
<1>1. SameRows(rows, {})
  BY UnchangedRows DEF Inv
<1>2. SameRows(rows', {}) /\ Done(w)
  BY <1>1, RaisedRows DEF Inv, AnchorPollFails
<1>3. RowsGrow
  BY <1>2, SameRowsGrow DEF Inv
<1>4. UNCHANGED <<status, confirmation, lapsed, revocation, orgApproved, anchors, now>>
  BY DEF AnchorPollFails, chain
<1>5. Grows
  BY <1>3, <1>4 DEF Grows
<1>6. Moves(w) /\ job'[w].pc \in {"idle", "verify"} /\ WorkerOK(w)'
  BY <1>2, <1>5, DoneOK DEF Inv
<1> QED
  BY <1>2, <1>4, <1>6, StoppedWaiting DEF AnchorPollFails

LEMMA AnchorTimeoutInv == ASSUME Inv, NEW w \in Worker, AnchorTimeout(w) PROVE Inv'
<1>1. job[w].row \in 1..Len(rows)
  BY AnchoringKnows DEF AnchorTimeout
<1>2. SameRows(rows', {})
  BY <1>1, SetRowType DEF Inv, AnchorTimeout
<1>3. RowsGrow
  BY <1>2, SameRowsGrow DEF Inv
<1>4. UNCHANGED <<status, confirmation, lapsed, revocation, orgApproved, anchors, now>>
  BY DEF AnchorTimeout, chain
<1>5. Grows
  BY <1>3, <1>4 DEF Grows
<1>6. Moves(w) /\ job'[w].pc \in {"idle", "verify"} /\ WorkerOK(w)'
  BY <1>5, DoneOK DEF Inv, AnchorTimeout
<1> QED
  BY <1>2, <1>4, <1>6, StoppedWaiting DEF AnchorTimeout

LEMMA RevokeTimeoutInv == ASSUME Inv, NEW w \in Worker, RevokeTimeout(w) PROVE Inv'
<1>1. SameRows(rows', {})
  BY UnchangedRows DEF Inv, RevokeTimeout, db
<1>2. UNCHANGED <<status, confirmation, lapsed, rows, revocation, orgApproved, anchors, now>>
  BY DEF RevokeTimeout, db, chain
<1>3. /\ Moves(w) /\ job'[w].pc = "revokeSave" /\ job'[w].item = job[w].item
      /\ job'[w].row = job[w].row /\ job'[w].receipt = job[w].receipt
      /\ job'[w].todo = job[w].todo
  BY GotoMoves DEF PC, Inv, RevokeTimeout
<1>4. WorkerOK(w) /\ job[w].pc = "revokeWait"
  BY DEF Inv, WorkersOK, RevokeTimeout
<1>5. WorkerOK(w)'
  BY <1>2, <1>3, <1>4 DEF WorkerOK, RowOf, AnchorPCs, RevokePCs
<1> QED
  BY <1>1, <1>2, <1>3, <1>5, StoppedWaiting DEF RevokeTimeout

LEMMA RevokeOutageInv == ASSUME Inv, NEW w \in Worker, RevokeOutage(w) PROVE Inv'
<1>1. SameRows(rows', {})
  BY UnchangedRows DEF Inv, RevokeOutage, db
<1>2. UNCHANGED <<status, confirmation, lapsed, rows, revocation, orgApproved, anchors, now>>
  BY DEF RevokeOutage, db, chain
<1>3. /\ Moves(w) /\ job'[w].pc = "revokeSave" /\ job'[w].item = job[w].item
      /\ job'[w].row = job[w].row /\ job'[w].receipt = job[w].receipt
      /\ job'[w].todo = job[w].todo
  BY GotoMoves DEF PC, Inv, RevokeOutage
<1>4. WorkerOK(w) /\ job[w].pc = "revoke"
  BY DEF Inv, WorkersOK, RevokeOutage
<1>5. WorkerOK(w)'
  BY <1>2, <1>3, <1>4 DEF WorkerOK, RowOf, AnchorPCs, RevokePCs
<1>6. job[w].item.rec \in Record /\ revocation[job[w].item.rec] # "none"
  BY <1>4 DEF WorkerOK, RevokePCs
<1>7. "revoke" \in {"anchor", "revoke"} /\ SubmissionFails(w, "revoke", CanRevoke(Rec(w)))
  BY DEF RevokeOutage
<1>8. CanRevoke(Rec(w)) => HasRow(job[w].item.rec)
  BY <1>6 DEF CanRevoke, Rec, Inv, ChainOK
<1> QED
  BY <1>1, <1>2, <1>3, <1>4, <1>5, <1>6, <1>7, <1>8, Unheard

LEMMA RevokePollFailsInv == ASSUME Inv, NEW w \in Worker, RevokePollFails(w) PROVE Inv'
<1>1. SameRows(rows', {})
  BY UnchangedRows DEF Inv, RevokePollFails, db
<1>2. UNCHANGED <<status, confirmation, lapsed, rows, revocation, orgApproved, anchors, now>>
  BY DEF RevokePollFails, db, chain
<1>3. Grows
  BY <1>2, NoRowsChanged DEF Grows
<1>4. Moves(w) /\ job'[w].pc \in {"idle", "verify"} /\ WorkerOK(w)'
  BY <1>3, DoneOK DEF Inv, RevokePollFails
<1> QED
  BY <1>1, <1>2, <1>4, StoppedWaiting DEF RevokePollFails

LEMMA CrashInv == ASSUME Inv, NEW w \in Worker, Crash(w) PROVE Inv'
<1>1. SameRows(rows', {})
  BY UnchangedRows DEF Inv, Crash, db
<1>2. UNCHANGED <<status, confirmation, lapsed, rows, revocation, orgApproved, anchors, now>>
  BY DEF Crash, db, chain
<1>3. Grows
  BY <1>2, NoRowsChanged DEF Grows
<1>4. Moves(w) /\ job'[w].pc = "idle" /\ WorkerOK(w)'
  BY <1>3, IdleOK DEF Inv, Crash
<1> QED
  BY <1>1, <1>2, <1>4, StoppedWaiting DEF Crash

(***************************************************************************)
(* The chain                                                               *)
(***************************************************************************)
\* The sender, if it still waits, hears how its transaction ended.
Heard(from, goes) ==
    [w \in Worker |->
        IF w = from
        THEN [job[w] EXCEPT !.receipt = IF goes THEN "ok" ELSE "reverted"]
        ELSE job[w]]

\* What a mined transaction does to storage: it anchors or revokes its record,
\* or reverts.
LEMMA Mined ==
  ASSUME Inv, MineNext, NEW tx, tx = Head(mempool)
  PROVE  /\ tx \in Tx /\ anchors' \in [Chain!AnyHash -> Entry] /\ now' = now
         /\ \A r \in Record : r # tx.rec => anchors'[r] = anchors[r]
         /\ \E goes \in BOOLEAN :
              /\ job' = Heard(tx.from, goes)
              /\ ~goes => anchors' = anchors
              /\ ~goes /\ tx.op = "anchor" =>
                    ~Chain!ActiveIssuer(IssuerKey) \/ Chain!Anchored(tx.rec)
              /\ goes /\ tx.op = "anchor" =>
                    /\ anchors[tx.rec].issuedAt = 0 /\ anchors'[tx.rec].issuedAt # 0
                    /\ anchors'[tx.rec].revokedAt = 0
              /\ goes /\ tx.op = "revoke" =>
                    /\ anchors[tx.rec].issuedAt # 0 /\ anchors[tx.rec].revokedAt = 0
                    /\ anchors'[tx.rec].issuedAt # 0 /\ anchors'[tx.rec].revokedAt # 0
<1> DEFINE goes == IF tx.op = "anchor"
                   THEN Chain!ActiveIssuer(IssuerKey) /\ Chain!Fresh(tx.rec)
                   ELSE CanRevoke(tx.rec)
<1>1. tx \in Tx /\ tx.rec \in Record /\ tx.op \in {"anchor", "revoke"}
  <2>1. tx \in Tx
    BY HeadTailProperties DEF MineNext, Inv, Types
  <2> QED
    BY <2>1 DEF Tx
<1>2. /\ \/ ~goes /\ UNCHANGED chain
         \/ goes /\ tx.op = "anchor" /\ Chain!Anchor(IssuerKey, tx.rec)
         \/ goes /\ tx.op = "revoke" /\ Chain!Revoke(IssuerKey, tx.rec, "reason")
      /\ job' = Heard(tx.from, goes)
  BY DEF MineNext, Heard
<1>3. tx.rec \in Chain!AnyHash /\ Record \subseteq Chain!AnyHash
  BY <1>1 DEF Chain!AnyHash
<1>4. anchors \in [Chain!AnyHash -> Entry] /\ now = 1
  BY DEF Inv, Types
<1>5. CASE ~goes /\ UNCHANGED chain
  <2>1. tx.op = "anchor" => ~Chain!ActiveIssuer(IssuerKey) \/ Chain!Anchored(tx.rec)
    BY <1>1, <1>5, PipelineAssumption DEF Chain!Fresh
  <2> HIDE DEF goes
  <2>2. job' = Heard(tx.from, FALSE)
    BY <1>2, <1>5 DEF Heard
  <2> QED
    BY <1>1, <1>4, <1>5, <2>1, <2>2 DEF chain
<1> HIDE DEF goes
<1>6. CASE goes /\ tx.op = "anchor" /\ Chain!Anchor(IssuerKey, tx.rec)
  <2>1. /\ anchors[tx.rec].issuedAt = 0 /\ now' = now
        /\ anchors' = [anchors EXCEPT ![tx.rec] = Chain!NewAnchor(IssuerKey)]
    BY <1>6 DEF Chain!Anchor, Chain!Fresh, Chain!Anchored
  <2>2. /\ Chain!NewAnchor(IssuerKey) \in Entry
        /\ Chain!NewAnchor(IssuerKey).issuedAt = 1 /\ Chain!NewAnchor(IssuerKey).revokedAt = 0
    BY <1>4 DEF Chain!NewAnchor, Chain!NoAnchor, Entry, Chain!AnyAddress, Chain!AnyHash
  <2>3. /\ anchors' \in [Chain!AnyHash -> Entry]
        /\ anchors'[tx.rec] = Chain!NewAnchor(IssuerKey)
        /\ \A r \in Record : r # tx.rec => anchors'[r] = anchors[r]
    BY <1>3, <1>4, <2>1, <2>2
  <2>4. job' = Heard(tx.from, TRUE)
    BY <1>2, <1>6 DEF Heard
  <2>5. /\ tx.op = "anchor" /\ tx.op # "revoke" /\ anchors[tx.rec].issuedAt = 0
        /\ anchors'[tx.rec].issuedAt # 0 /\ anchors'[tx.rec].revokedAt = 0
    BY <1>6, <2>1, <2>2, <2>3
  <2> QED
    BY <1>1, <2>1, <2>3, <2>4, <2>5
<1>7. CASE goes /\ tx.op = "revoke" /\ Chain!Revoke(IssuerKey, tx.rec, "reason")
  <2> DEFINE e == [anchors[tx.rec] EXCEPT !.revokedAt = now]
  <2>1. /\ anchors[tx.rec].issuedAt # 0 /\ anchors[tx.rec].revokedAt = 0 /\ now' = now
        /\ anchors' = [anchors EXCEPT ![tx.rec] = e]
    BY <1>7 DEF Chain!Revoke, Chain!Revoked, Chain!Anchored
  <2>2. e \in Entry /\ e.issuedAt = anchors[tx.rec].issuedAt /\ e.revokedAt = 1
    BY <1>3, <1>4 DEF Entry
  <2> HIDE DEF e
  <2>3. /\ anchors' \in [Chain!AnyHash -> Entry] /\ anchors'[tx.rec] = e
        /\ \A r \in Record : r # tx.rec => anchors'[r] = anchors[r]
    BY <1>3, <1>4, <2>1, <2>2
  <2>4. job' = Heard(tx.from, TRUE)
    BY <1>2, <1>7 DEF Heard
  <2>5. /\ tx.op # "anchor" /\ anchors[tx.rec].issuedAt # 0 /\ anchors[tx.rec].revokedAt = 0
        /\ anchors'[tx.rec].issuedAt # 0 /\ anchors'[tx.rec].revokedAt # 0
    BY <1>7, <2>1, <2>2, <2>3
  <2> QED
    BY <1>1, <2>1, <2>3, <2>4, <2>5
<1> QED
  BY <1>2, <1>5, <1>6, <1>7

\* Who hears of it learns the outcome, and nothing else changes for anybody.
LEMMA OutcomeHeard ==
  ASSUME Types, NEW from, NEW goes \in BOOLEAN, job' = Heard(from, goes)
  PROVE  /\ job' \in [Worker -> Job]
         /\ \A v \in Worker :
              /\ job'[v].pc = job[v].pc /\ job'[v].item = job[v].item
              /\ job'[v].row = job[v].row /\ job'[v].todo = job[v].todo
              /\ v # from => job'[v] = job[v]
              /\ v = from => job'[v].receipt = IF goes THEN "ok" ELSE "reverted"
<1>1. \A v \in Worker : job[v] \in Job
  BY DEF Types
<1>2. \A j \in Job, s \in {"ok", "reverted"} :
        /\ [j EXCEPT !.receipt = s] \in Job /\ [j EXCEPT !.receipt = s].receipt = s
        /\ [j EXCEPT !.receipt = s].pc = j.pc /\ [j EXCEPT !.receipt = s].item = j.item
        /\ [j EXCEPT !.receipt = s].row = j.row /\ [j EXCEPT !.receipt = s].todo = j.todo
  BY DEF Job
<1>3. \A v \in Worker : job'[v] = IF v = from
           THEN [job[v] EXCEPT !.receipt = IF goes THEN "ok" ELSE "reverted"]
           ELSE job[v]
  BY DEF Heard
<1>4. \A v \in Worker : job'[v] \in Job
  BY <1>1, <1>2, <1>3
<1>5. job' \in [Worker -> Job]
  BY <1>4 DEF Heard
<1>6. ASSUME NEW v \in Worker
      PROVE  /\ job'[v].pc = job[v].pc /\ job'[v].item = job[v].item
             /\ job'[v].row = job[v].row /\ job'[v].todo = job[v].todo
             /\ v # from => job'[v] = job[v]
             /\ v = from => job'[v].receipt = IF goes THEN "ok" ELSE "reverted"
  <2>1. CASE v # from
    BY <1>3, <2>1
  <2>2. CASE v = from
    <3>1. job[v] \in Job /\ (IF goes THEN "ok" ELSE "reverted") \in {"ok", "reverted"}
      BY <1>1
    <3>2. job'[v] = [job[v] EXCEPT !.receipt = IF goes THEN "ok" ELSE "reverted"]
      BY <1>3, <2>2
    <3> QED
      BY <2>2, <3>1, <3>2, <1>2
  <2> QED
    BY <2>1, <2>2
<1> QED
  BY <1>5, <1>6

\* The worker that hears of it finds its record as the receipt says.
LEMMA MineNextInv == ASSUME Inv, MineNext PROVE Inv'
<1>1. PICK tx : tx = Head(mempool)
  OBVIOUS
<1>2. /\ tx \in Tx /\ anchors' \in [Chain!AnyHash -> Entry] /\ now' = now
      /\ \A r \in Record : r # tx.rec => anchors'[r] = anchors[r]
  BY <1>1, Mined
<1>3. PICK goes \in BOOLEAN :
         /\ job' = Heard(tx.from, goes)
         /\ ~goes => anchors' = anchors
         /\ goes /\ tx.op = "anchor" =>
               /\ anchors[tx.rec].issuedAt = 0 /\ anchors'[tx.rec].issuedAt # 0
               /\ anchors'[tx.rec].revokedAt = 0
         /\ goes /\ tx.op = "revoke" =>
               /\ anchors[tx.rec].issuedAt # 0 /\ anchors[tx.rec].revokedAt = 0
               /\ anchors'[tx.rec].issuedAt # 0 /\ anchors'[tx.rec].revokedAt # 0
  BY <1>1, Mined
<1>4. UNCHANGED <<status, confirmation, lapsed, rows, revocation, orgApproved>>
      /\ mempool # << >> /\ mempool' = Tail(mempool)
  BY DEF MineNext, db
<1>5. /\ mempool \in Seq(Tx) /\ Len(mempool) \in Nat /\ Len(mempool) # 0 /\ mempool[1] = tx
      /\ mempool' \in Seq(Tx) /\ Len(mempool') = Len(mempool) - 1
      /\ \A k \in 1..Len(mempool') : mempool'[k] = mempool[k + 1]
  BY <1>1, <1>4, HeadTailProperties, LenProperties, EmptySeq DEF Inv, Types
<1>6. \A k \in 1..Len(mempool') : k + 1 \in 1..Len(mempool) /\ k + 1 # 1
  BY <1>5
<1>7. tx.rec \in Record /\ tx.op \in {"anchor", "revoke"} /\ 1 \in 1..Len(mempool)
  BY <1>2, <1>5 DEF Tx
<1>8. /\ job' \in [Worker -> Job]
      /\ \A v \in Worker :
           /\ job'[v].pc = job[v].pc /\ job'[v].item = job[v].item
           /\ job'[v].row = job[v].row /\ job'[v].todo = job[v].todo
           /\ v # tx.from => job'[v] = job[v]
           /\ v = tx.from => job'[v].receipt = IF goes THEN "ok" ELSE "reverted"
  BY <1>3, OutcomeHeard DEF Inv
<1>9. Types'
  BY <1>2, <1>4, <1>5, <1>8 DEF Inv, Types
<1>10. HasRow(tx.rec) /\ (tx.op = "revoke" => revocation[tx.rec] # "none")
  BY <1>5, <1>7 DEF Inv, TxsOK
<1>11. RowsGrow /\ \A r : HasRow(r) => HasRow(r)'
  BY <1>4, NoRowsChanged
<1>12. \A r \in Record : Chain!Revoked(r) => Chain!Anchored(r)
  BY DEF Inv, ChainOK
<1>13. /\ \A r \in Record : anchors[r].issuedAt # 0 => anchors'[r].issuedAt # 0
       /\ \A r \in Record : anchors[r].revokedAt # 0 => anchors'[r].revokedAt # 0
  BY <1>2, <1>3, <1>7, <1>12 DEF Chain!Revoked, Chain!Anchored
<1>14. Grows
  BY <1>4, <1>11, <1>13 DEF Grows
<1>15. WorkersOK'
  <2> SUFFICES ASSUME NEW v \in Worker PROVE WorkerOK(v)'
    BY DEF WorkersOK
  <2>1. CASE v # tx.from
    BY <2>1, <1>8, <1>14, OthersKeep DEF Inv
  <2>2. CASE v = tx.from
    <3>1. /\ WorkerOK(v) /\ job[v].item.rec = tx.rec
          /\ job[v].pc = IF tx.op = "anchor" THEN "wait" ELSE "revokeWait"
      BY <2>2, <1>5, <1>7 DEF Inv, LinksOK, WorkersOK
    <3>2. job'[v].receipt = "ok" => goes
      BY <2>2, <1>8
    <3> QED
      BY <3>1, <3>2, <1>3, <1>4, <1>7, <1>8
      DEF WorkerOK, RowOf, AnchorPCs, RevokePCs, Confirmed, Chain!Anchored, Chain!Revoked
  <2> QED
    BY <2>1, <2>2
<1>16. GateOK' /\ RowsOK'
  BY <1>4 DEF Inv, GateOK, RowsOK, Confirmed
<1>17. ChainOK'
  BY <1>2, <1>3, <1>4, <1>7, <1>10, <1>11 DEF Inv, ChainOK, Chain!Anchored, Chain!Revoked
<1>18. TxsOK'
  BY <1>4, <1>5, <1>6, <1>11 DEF Inv, TxsOK
<1>19. LinksOK'
  <2> SUFFICES ASSUME NEW v \in Worker, NEW k \in 1..Len(mempool'), mempool'[k].from = v
               PROVE  /\ job'[v].pc = IF mempool'[k].op = "anchor" THEN "wait" ELSE "revokeWait"
                      /\ job'[v].receipt = "none"
                      /\ job'[v].item.rec = mempool'[k].rec
                      /\ \A i \in 1..Len(mempool') : mempool'[i].from = v => i = k
    BY DEF LinksOK
  <2>1. k + 1 \in 1..Len(mempool) /\ mempool[k + 1].from = v /\ k \in Nat
    BY <1>5, <1>6
  <2>2. \A i \in 1..Len(mempool) : mempool[i].from = v => i = k + 1
    BY <2>1 DEF Inv, LinksOK
  <2>3. v # tx.from
    BY <2>1, <2>2, <1>5, <1>6, <1>7
  <2>4. \A i \in 1..Len(mempool') : mempool'[i].from = v => i = k
    BY <2>1, <2>2, <1>5, <1>6
  <2> QED
    BY <2>1, <2>3, <2>4, <1>5, <1>8 DEF Inv, LinksOK
<1>20. AnsweringOK'
  BY <1>4, <1>8 DEF Inv, AnsweringOK
<1>21. NoFalseClaim'
  <2>1. \A k \in 1..Len(rows) : rows[k].rec \in Record
    <3>1. rows \in [1..Len(rows) -> Row]
      BY LenProperties DEF Inv, Types
    <3> QED
      BY <3>1 DEF Row
  <2> QED
    BY <2>1, <1>4, <1>13 DEF Inv, NoFalseClaim, Chain!Anchored, Chain!Revoked
<1> QED
  BY <1>9, <1>15, <1>16, <1>17, <1>18, <1>19, <1>20, <1>21 DEF Inv

\* A suspension, like a reinstatement, leaves every anchor where it is.
LEMMA StandingInv == ASSUME Inv, SuspendOrg \/ ReinstateOrg PROVE Inv'
<1>1. CASE SuspendOrg
  <2>1. /\ UNCHANGED <<status, confirmation, lapsed, rows, revocation, mempool, job, anchors, now>>
        /\ orgApproved' \in BOOLEAN
    BY <1>1 DEF SuspendOrg, chain, Chain!SuspendIssuer, Chain!ledger
  <2> QED
    BY <2>1, UnseenInv DEF Inv, Types
<1>2. CASE ReinstateOrg
  <2>1. /\ UNCHANGED <<status, confirmation, lapsed, rows, revocation, mempool, job, anchors, now>>
        /\ orgApproved' \in BOOLEAN
    BY <1>2 DEF ReinstateOrg, Chain!ReinstateIssuer, Chain!ledger
  <2> QED
    BY <2>1, UnseenInv DEF Inv, Types
<1> QED
  BY <1>1, <1>2

(***************************************************************************)
(* The invariant holds                                                     *)
(***************************************************************************)
LEMMA InitInv == Init => Inv
<1> SUFFICES ASSUME Init PROVE Inv
  OBVIOUS
<1>1. rows = << >> /\ mempool = << >> /\ Len(rows) = 0 /\ Len(mempool) = 0
      /\ rows \in Seq(Row) /\ mempool \in Seq(Tx)
  BY EmptySeq DEF Init
<1>2. \A v \in Worker : job[v] = Idle
  BY DEF Init
<1>3. \A r \in Record : r \in Chain!AnyHash /\ anchors[r] = Chain!NoAnchor
  BY DEF Init, Chain!AnyHash
<1>4. /\ Chain!NoAnchor \in Entry
      /\ Chain!NoAnchor.issuedAt = 0 /\ Chain!NoAnchor.revokedAt = 0
  BY DEF Chain!NoAnchor, Entry, Chain!AnyAddress, Chain!AnyHash
<1>5. Types
  BY <1>1, <1>4, IdleType DEF Init, Types, Status
<1>6. 1..Len(rows) = {} /\ 1..Len(mempool) = {}
  BY <1>1
<1>7. /\ \A r \in Record : ~Chain!Anchored(r) /\ ~Chain!Revoked(r)
      /\ \A r \in Record : status[r] = "DRAFT" /\ confirmation[r] = "none" /\ revocation[r] = "none"
  BY <1>3, <1>4 DEF Init, Chain!Anchored, Chain!Revoked
<1>8. GateOK /\ RowsOK /\ TxsOK /\ LinksOK /\ ChainOK /\ NoFalseClaim
  BY <1>6, <1>7 DEF GateOK, RowsOK, TxsOK, LinksOK, ChainOK, NoFalseClaim
<1>9. AnsweringOK /\ WorkersOK
  BY <1>1, <1>2, IdleType DEF AnsweringOK, WorkersOK, WorkerOK, AnchorPCs, RevokePCs
<1> QED
  BY <1>5, <1>8, <1>9 DEF Inv

LEMMA StutterInv == ASSUME Inv, UNCHANGED vars PROVE Inv'
<1>1. lapsed' \in [Record -> BOOLEAN] /\ orgApproved' \in BOOLEAN
  BY DEF Inv, Types, vars
<1> QED
  BY <1>1, UnseenInv DEF vars

LEMMA NextInv == Inv /\ [Next]_vars => Inv'
<1> SUFFICES ASSUME Inv, [Next]_vars PROVE Inv'
  OBVIOUS
<1>1. Web \subseteq Worker /\ Retriers \subseteq Worker /\ Sweepers \subseteq Worker
  BY DEF Worker
<1>2. CASE \E r \in Record : CreateOffer(r) \/ OfferLapses(r)
  BY <1>2, CreateOfferInv, OfferLapsesInv
<1>3. ASSUME NEW w \in Web, Requests(w) \/ Answers(w) PROVE Inv'
  BY <1>1, <1>3, LockOpenConfirmationInv, BeginRevokeInv, AcceptInv, GivenUpInv, DeclineInv
  DEF Requests, Answers
<1>4. ASSUME NEW w \in Retriers, StartRetry(w) PROVE Inv'
  BY <1>1, <1>4, StartRetryInv
<1>5. ASSUME NEW w \in Sweepers, SelectStale(w) \/ ExpireSelected(w) PROVE Inv'
  BY <1>1, <1>5, SelectStaleInv, ExpireSelectedInv
<1>6. ASSUME NEW w \in Worker, AnchorSteps(w) PROVE Inv'
  BY <1>6, AnchorRefusedInv, RecordAttemptInv, SubmitAnchorInv, AnchorConfirmedInv,
     AnchorRejectedInv, MarkIssuedInv, MarkIssuedConflictsInv, ReconcileInv, ResubmitInv
  DEF AnchorSteps
<1>7. ASSUME NEW w \in Worker, RevokeSteps(w) PROVE Inv'
  BY <1>7, SubmitRevokeInv, GivenUpInv, RevokeReceiptInv, RevokeSaveInv DEF RevokeSteps
<1>8. ASSUME NEW w \in Worker, FaultSteps(w) PROVE Inv'
  BY <1>8, AnchorOutageInv, AnchorTimeoutInv, AnchorPollFailsInv, GivenUpInv, RevokeOutageInv,
     RevokeTimeoutInv, RevokePollFailsInv, CrashInv
  DEF FaultSteps
<1>9. CASE MineNext \/ SuspendOrg \/ ReinstateOrg
  BY <1>9, MineNextInv, StandingInv
<1>10. CASE UNCHANGED vars
  BY <1>10, StutterInv
<1> QED
  BY <1>2, <1>3, <1>4, <1>5, <1>6, <1>7, <1>8, <1>9, <1>10 DEF Next

\* The invariant that carries the theorems below.
THEOREM PipelineInv == Spec => []Inv
BY InitInv, NextInv, PTL DEF Spec

(***************************************************************************)
(* Safety                                                                  *)
(***************************************************************************)
\* Every variable keeps its type, and no job names a row that is not there.
THEOREM PipelineTypeOK == Spec => []TypeOK
<1>1. Inv => TypeOK
  BY DEF Inv, Types, Job, TypeOK, WorkersOK, WorkerOK
<1> QED
  BY <1>1, PipelineInv, PTL

\* The rows are the link: whatever is on the chain or on its way to it has a
\* row, and a row is of a confirmed record.
LEMMA OnChainHasRow ==
  ASSUME Inv, NEW r \in Record,
         Chain!Anchored(r) \/ \E i \in 1..Len(mempool) : mempool[i].rec = r
  PROVE  HasRow(r) /\ Confirmed(r)
<1>1. HasRow(r)
  BY DEF Inv, ChainOK, TxsOK
<1> QED
  BY <1>1 DEF HasRow, Inv, RowsOK

\* No hash is on the chain, or submitted, without its holder's confirmation,
\* however many workers, crashes, timeouts and retries there are.
THEOREM PipelineConsentBeforeChain == Spec => []ConsentBeforeChain
<1>1. Inv => ConsentBeforeChain
  BY OnChainHasRow DEF ConsentBeforeChain, Confirmed
<1> QED
  BY <1>1, PipelineInv, PTL

\* No anchor, mined or submitted, is without the LedgerAnchor row that tells of
\* it, and no revocation without the event that says why.
THEOREM PipelineDatabaseFirst == Spec => []DatabaseFirst
<1>1. Inv => DatabaseFirst
  BY OnChainHasRow DEF Inv, ChainOK, TxsOK, DatabaseFirst, HasRow
<1> QED
  BY <1>1, PipelineInv, PTL

\* An ISSUED record, a CONFIRMED row and a confirmed revocation are on the chain.
THEOREM PipelineNoFalseClaim == Spec => []NoFalseClaim
<1>1. Inv => NoFalseClaim
  BY DEF Inv
<1> QED
  BY <1>1, PipelineInv, PTL

(***************************************************************************)
(* What the steps do that anyone outside can see                           *)
(***************************************************************************)
Seen == <<status, confirmation, revocation, anchors>>

\* Of all the steps these few show: the rest are the machinery.
LEMMA StepKinds ==
  ASSUME [Next]_vars
  PROVE  \/ \E r \in Record : CreateOffer(r)
         \/ \E w \in Worker :
               \/ Accept(w) \/ Decline(w) \/ MarkIssued(w) \/ RevokeReceipt(w)
               \/ RevokeSave(w) \/ ExpireSelected(w)
               \/ \E r \in Record : BeginRevoke(w, r)
         \/ MineNext
         \/ UNCHANGED Seen
<1>1. Web \subseteq Worker /\ Retriers \subseteq Worker /\ Sweepers \subseteq Worker
  BY DEF Worker
<1>2. ASSUME NEW r \in Record, OfferLapses(r) PROVE UNCHANGED Seen
  BY <1>2 DEF OfferLapses, chain, Seen
<1>3. ASSUME NEW w, NEW r, LockOpenConfirmation(w, r) PROVE UNCHANGED Seen
  BY <1>3 DEF LockOpenConfirmation, db, chain, Seen
<1>4. ASSUME NEW w, AcceptConflicts(w) PROVE UNCHANGED Seen
  BY <1>4 DEF AcceptConflicts, db, chain, Seen
<1>5. ASSUME NEW w, StartRetry(w) \/ SelectStale(w) PROVE UNCHANGED Seen
  BY <1>5 DEF StartRetry, SelectStale, db, chain, Seen
<1>6. ASSUME NEW w, AnchorSteps(w), ~MarkIssued(w) PROVE UNCHANGED Seen
  BY <1>6 DEF AnchorSteps, AnchorRefused, RecordAttempt, SubmitAnchor, AnchorAlreadyOnChain,
     AnchorRejected, AnchorReceipt, AnchorReverted, MarkIssuedConflicts, Reconcile, Resubmit,
     db, chain, Seen
<1>7. ASSUME NEW w, RevokeSteps(w), ~RevokeReceipt(w), ~RevokeSave(w) PROVE UNCHANGED Seen
  BY <1>7 DEF RevokeSteps, SubmitRevoke, RevokeRejected, db, chain, Seen
<1>8. ASSUME NEW w, FaultSteps(w) PROVE UNCHANGED Seen
  BY <1>8 DEF FaultSteps, AnchorOutage, AnchorTimeout, AnchorPollFails, VerifyOutage, RevokeOutage,
     RevokeTimeout, RevokePollFails, Crash, db, chain, Seen
<1>9. ASSUME SuspendOrg \/ ReinstateOrg PROVE UNCHANGED Seen
  BY <1>9 DEF SuspendOrg, ReinstateOrg, Chain!SuspendIssuer, Chain!ReinstateIssuer, Chain!ledger,
     chain, Seen
<1>10. CASE UNCHANGED vars
  BY <1>10 DEF vars, Seen
<1> QED
  BY <1>1, <1>2, <1>3, <1>4, <1>5, <1>6, <1>7, <1>8, <1>9, <1>10 DEF Next, Requests, Answers

\* ... each of them one of these, of one record (or several, when offers expire).
Offered(r) ==
    /\ confirmation[r] = "none" /\ KeyFree(r)
    /\ status' = [status EXCEPT ![r] = "OFFERED"]
    /\ confirmation' = [confirmation EXCEPT ![r] = "open"]
    /\ UNCHANGED <<revocation, anchors>>

Accepted(r) ==
    /\ confirmation[r] = "open" /\ MaySetLive(r)
    /\ status' = [status EXCEPT ![r] = "PENDING_ANCHOR"]
    /\ confirmation' = [confirmation EXCEPT ![r] = "confirmed"]
    /\ UNCHANGED <<revocation, anchors>>

Declined(r) ==
    /\ confirmation[r] = "open"
    /\ status' = [status EXCEPT ![r] = "DECLINED"]
    /\ confirmation' = [confirmation EXCEPT ![r] = "declined"]
    /\ UNCHANGED <<revocation, anchors>>

Marked(r, as) ==
    /\ confirmation[r] = "confirmed" /\ MaySetLive(r)
    /\ as = "ISSUED" => Chain!Anchored(r)
    /\ status' = [status EXCEPT ![r] = as]
    /\ UNCHANGED <<confirmation, revocation, anchors>>

Expired ==
    /\ status' \in [Record -> Status]
    /\ \A r \in Record : status'[r] # status[r] => status'[r] = "EXPIRED"
    /\ UNCHANGED <<confirmation, revocation, anchors>>

Ordered(r) ==
    /\ confirmation[r] = "confirmed"
    /\ revocation' \in [Record -> {"none", "recorded", "confirmed"}]
    /\ revocation'[r] # "none"
    /\ \A q \in Record : q # r => revocation'[q] = revocation[q]
    /\ UNCHANGED <<status, confirmation, anchors>>

Published(r) ==
    /\ confirmation[r] = "confirmed" /\ ~Chain!Anchored(r)
    /\ anchors'[r].issuedAt # 0 /\ anchors'[r].revokedAt = 0
    /\ \A q \in Record : q # r => anchors'[q] = anchors[q]
    /\ UNCHANGED <<status, confirmation, revocation>>

Withdrawn(r) ==
    /\ revocation[r] # "none" /\ Chain!Anchored(r) /\ ~Chain!Revoked(r)
    /\ anchors'[r].issuedAt # 0 /\ anchors'[r].revokedAt # 0
    /\ \A q \in Record : q # r => anchors'[q] = anchors[q]
    /\ UNCHANGED <<status, confirmation, revocation>>

LEMMA StepsSeen ==
  ASSUME Inv, [Next]_vars
  PROVE  \/ \E r \in Record :
               \/ Offered(r) \/ Accepted(r) \/ Declined(r)
               \/ Marked(r, "ISSUED") \/ Marked(r, "REVOKED") \/ Ordered(r)
               \/ Published(r) \/ Withdrawn(r)
         \/ Expired
         \/ UNCHANGED Seen
<1>1. ASSUME NEW r \in Record, CreateOffer(r) PROVE Offered(r)
  BY <1>1 DEF CreateOffer, chain, Inv, GateOK, Offered
<1>2. ASSUME NEW w \in Worker, Accept(w) PROVE \E r \in Record : Accepted(r)
  <2>1. job[w].item.rec \in Record /\ confirmation[job[w].item.rec] = "open"
    BY <1>2 DEF Accept, Inv, AnsweringOK
  <2>2. Accepted(job[w].item.rec)
    BY <1>2, <2>1 DEF Accept, Rec, chain, Accepted
  <2> QED
    BY <2>1, <2>2
<1>3. ASSUME NEW w \in Worker, Decline(w) PROVE \E r \in Record : Declined(r)
  <2>1. job[w].item.rec \in Record /\ confirmation[job[w].item.rec] = "open"
    BY <1>3 DEF Decline, Inv, AnsweringOK
  <2>2. Declined(job[w].item.rec)
    BY <1>3, <2>1 DEF Decline, Rec, chain, Declined
  <2> QED
    BY <2>1, <2>2
<1>4. ASSUME NEW w \in Worker, MarkIssued(w) PROVE \E r \in Record : Marked(r, "ISSUED")
  <2>1. /\ job[w].item.rec \in Record /\ confirmation[job[w].item.rec] = "confirmed"
        /\ Chain!Anchored(job[w].item.rec)
    BY <1>4 DEF MarkIssued, Inv, WorkersOK, WorkerOK, AnchorPCs, Confirmed
  <2>2. Marked(job[w].item.rec, "ISSUED")
    BY <1>4, <2>1 DEF MarkIssued, Rec, chain, Marked
  <2> QED
    BY <2>1, <2>2
<1>5. ASSUME NEW w \in Worker, RevokeSave(w)
      PROVE  (\E r \in Record : Marked(r, "REVOKED")) \/ UNCHANGED Seen
  <2>1. job[w].item.rec \in Record /\ confirmation[job[w].item.rec] = "confirmed"
    BY <1>5 DEF RevokeSave, Inv, WorkersOK, WorkerOK, RevokePCs, GateOK, Confirmed
  <2>2. CASE MaySetLive(job[w].item.rec)
    <3>1. Marked(job[w].item.rec, "REVOKED")
      BY <1>5, <2>1, <2>2 DEF RevokeSave, Rec, chain, Marked
    <3> QED
      BY <2>1, <3>1
  <2>3. CASE ~MaySetLive(job[w].item.rec)
    BY <1>5, <2>3 DEF RevokeSave, Rec, chain, Seen
  <2> QED
    BY <2>2, <2>3
<1>6. ASSUME NEW w \in Worker, ExpireSelected(w) PROVE Expired
  BY <1>6 DEF ExpireSelected, Inv, Types, Status, chain, Expired
<1>7. ASSUME NEW w \in Worker, NEW r \in Record, BeginRevoke(w, r) PROVE Ordered(r)
  <2>1. confirmation[r] = "confirmed"
    BY <1>7 DEF BeginRevoke, Inv, GateOK, Confirmed
  <2> QED
    BY <1>7, <2>1 DEF BeginRevoke, chain, Inv, Types, Ordered
<1>8. ASSUME NEW w \in Worker, RevokeReceipt(w) PROVE \E r \in Record : Ordered(r)
  <2>1. job[w].item.rec \in Record /\ confirmation[job[w].item.rec] = "confirmed"
    BY <1>8 DEF RevokeReceipt, Inv, WorkersOK, WorkerOK, RevokePCs, GateOK, Confirmed
  <2>2. Ordered(job[w].item.rec)
    BY <1>8, <2>1 DEF RevokeReceipt, Rec, chain, Inv, Types, Ordered
  <2> QED
    BY <2>1, <2>2
<1>9. ASSUME MineNext
      PROVE  (\E r \in Record : Published(r) \/ Withdrawn(r)) \/ UNCHANGED Seen
  <2>1. PICK tx : tx = Head(mempool)
    OBVIOUS
  <2>2. tx \in Tx /\ \A r \in Record : r # tx.rec => anchors'[r] = anchors[r]
    BY <1>9, <2>1, Mined
  <2>3. PICK goes \in BOOLEAN :
           /\ ~goes => anchors' = anchors
           /\ goes /\ tx.op = "anchor" =>
                 /\ anchors[tx.rec].issuedAt = 0 /\ anchors'[tx.rec].issuedAt # 0
                 /\ anchors'[tx.rec].revokedAt = 0
           /\ goes /\ tx.op = "revoke" =>
                 /\ anchors[tx.rec].issuedAt # 0 /\ anchors[tx.rec].revokedAt = 0
                 /\ anchors'[tx.rec].issuedAt # 0 /\ anchors'[tx.rec].revokedAt # 0
    BY <1>9, <2>1, Mined
  <2>4. UNCHANGED <<status, confirmation, revocation>>
    BY <1>9 DEF MineNext, db
  <2>5. tx.rec \in Record /\ tx.op \in {"anchor", "revoke"}
    BY <2>2 DEF Tx
  <2>6. 1 \in 1..Len(mempool) /\ mempool[1] = tx
    BY <1>9, <2>1, LenProperties, EmptySeq DEF MineNext, Inv, Types
  <2>7. confirmation[tx.rec] = "confirmed" /\ (tx.op = "revoke" => revocation[tx.rec] # "none")
    BY <2>5, <2>6, OnChainHasRow DEF Confirmed, Inv, TxsOK
  <2>8. CASE goes /\ tx.op = "anchor"
    BY <2>2, <2>3, <2>4, <2>5, <2>7, <2>8 DEF Published, Chain!Anchored
  <2>9. CASE goes /\ tx.op = "revoke"
    BY <2>2, <2>3, <2>4, <2>5, <2>7, <2>9 DEF Withdrawn, Chain!Anchored, Chain!Revoked
  <2>10. CASE ~goes
    BY <2>3, <2>4, <2>10 DEF Seen
  <2> QED
    BY <2>5, <2>8, <2>9, <2>10
<1> QED
  BY StepKinds, <1>1, <1>2, <1>3, <1>4, <1>5, <1>6, <1>7, <1>8, <1>9

(***************************************************************************)
(* The holder's answer                                                     *)
(***************************************************************************)
\* An answer given is not given again, changed or taken back by any step.
THEOREM PipelineAnswerIsFinal == Spec => AnswerIsFinal
<1>1. ASSUME Inv, [Next]_vars, NEW r \in Record, confirmation[r] \in {"confirmed", "declined"}
      PROVE  confirmation'[r] = confirmation[r]
  BY <1>1, StepsSeen
  DEF Inv, Types, Offered, Accepted, Declined, Marked, Expired, Ordered, Published, Withdrawn, Seen
<1>2. Inv /\ [Next]_vars => [\A r \in Record : confirmation[r] \in {"confirmed", "declined"} =>
                                 confirmation'[r] = confirmation[r]]_vars
  BY <1>1
<1> QED
  BY <1>2, PipelineInv, PTL DEF Spec, AnswerIsFinal

(***************************************************************************)
(* One graduate, one degree                                                *)
(***************************************************************************)
\* The partial unique index keeps two records of one credential from being
\* live together, and a confirmed record leaves the live statuses only when
\* the expiry command takes it out.
KeysOK ==
    /\ \A q, r \in Record :
          q # r /\ CredentialOf[q] = CredentialOf[r] => status[q] \notin Live \/ status[r] \notin Live
    /\ \A r \in Record :
          confirmation[r] = "confirmed" => status[r] \in Live \cup {"EXPIRED"}

LEMMA InitKeys == Init => KeysOK
BY DEF Init, KeysOK, Live

\* A record enters the live statuses only when its key is free.
LEMMA SetLiveKeys ==
  ASSUME Inv, KeysOK, NEW r \in Record, NEW s \in Live, MaySetLive(r),
         status' = [status EXCEPT ![r] = s],
         \A q \in Record : q # r => (confirmation'[q] = "confirmed" => confirmation[q] = "confirmed")
  PROVE  KeysOK'
BY DEF Inv, Types, KeysOK, MaySetLive, KeyFree

LEMMA NextKeys == Inv /\ KeysOK /\ [Next]_vars => KeysOK'
<1> SUFFICES ASSUME Inv, KeysOK, [Next]_vars PROVE KeysOK'
  OBVIOUS
<1>1. {"OFFERED", "PENDING_ANCHOR", "ISSUED", "REVOKED"} \subseteq Live
      /\ "EXPIRED" \notin Live /\ "DECLINED" \notin Live
  BY DEF Live
<1>2. ASSUME NEW r \in Record, Offered(r) PROVE KeysOK'
  BY <1>1, <1>2, SetLiveKeys DEF Offered, MaySetLive, Inv, Types
<1>3. ASSUME NEW r \in Record, Accepted(r) PROVE KeysOK'
  BY <1>1, <1>3, SetLiveKeys DEF Accepted, Inv, Types
<1>4. ASSUME NEW r \in Record, Marked(r, "ISSUED") \/ Marked(r, "REVOKED") PROVE KeysOK'
  BY <1>1, <1>4, SetLiveKeys DEF Marked
<1>5. ASSUME NEW r \in Record, Declined(r) PROVE KeysOK'
  BY <1>1, <1>5 DEF Declined, Inv, Types, KeysOK
<1>6. CASE Expired
  BY <1>1, <1>6 DEF Expired, KeysOK
<1>7. ASSUME NEW r \in Record, Ordered(r) \/ Published(r) \/ Withdrawn(r) PROVE KeysOK'
  BY <1>7 DEF Ordered, Published, Withdrawn, KeysOK
<1>8. CASE UNCHANGED Seen
  BY <1>8 DEF Seen, KeysOK
<1> QED
  BY StepsSeen, <1>2, <1>3, <1>4, <1>5, <1>6, <1>7, <1>8

\* Two records of one credential are both anchored and unrevoked only when the
\* expiry command took one of them out of the live statuses.
THEOREM PipelineOneAnchorPerCredential == Spec => []OneAnchorPerCredential
<1>1. ASSUME Inv, KeysOK PROVE OneAnchorPerCredential
  <2>1. \A r \in Record : Chain!Anchored(r) => confirmation[r] = "confirmed"
    BY <1>1, OnChainHasRow DEF Confirmed
  <2> QED
    BY <1>1, <2>1 DEF KeysOK, OneAnchorPerCredential
<1> QED
  BY <1>1, InitKeys, NextKeys, PipelineInv, PTL DEF Spec

(***************************************************************************)
(* The pipeline keeps the promise                                          *)
(***************************************************************************)
\* What ConsentedPublication sees of the pipeline.
Public == [r \in Record |-> IF Chain!Revoked(r) THEN "revoked"
                            ELSE IF Chain!Anchored(r) THEN "anchored" ELSE "absent"]
WasOrdered == {r \in Record : revocation[r] # "none"}
Reported   == {r \in Record : status[r] = "ISSUED"}

LEMMA InitPromise == Init => Promise!Init
<1> SUFFICES ASSUME Init PROVE Promise!Init
  OBVIOUS
<1>1. \A r \in Record : ~Chain!Anchored(r) /\ ~Chain!Revoked(r)
  BY DEF Init, Chain!AnyHash, Chain!NoAnchor, Chain!Anchored, Chain!Revoked
<1> QED
  BY <1>1 DEF Init, Promise!Init

LEMMA PublicIs ==
  ASSUME NEW r \in Record
  PROVE  /\ Public[r] = IF anchors[r].revokedAt # 0 THEN "revoked"
                        ELSE IF anchors[r].issuedAt # 0 THEN "anchored" ELSE "absent"
         /\ Public'[r] = IF anchors'[r].revokedAt # 0 THEN "revoked"
                         ELSE IF anchors'[r].issuedAt # 0 THEN "anchored" ELSE "absent"
BY DEF Public, Chain!Revoked, Chain!Anchored

\* One record's publication changes, and no other's.
LEMMA PublicChanges ==
  ASSUME NEW r \in Record, NEW p, Public'[r] = p,
         \A q \in Record : q # r => anchors'[q] = anchors[q]
  PROVE  Public' = [Public EXCEPT ![r] = p]
<1>1. \A q \in Record : q # r => Public'[q] = Public[q]
  BY PublicIs
<1>2. /\ Public' = [q \in Record |-> Public'[q]] /\ Public = [q \in Record |-> Public[q]]
  BY DEF Public
<1> HIDE DEF Public
<1> QED
  BY <1>1, <1>2

LEMMA PublicSame == ASSUME UNCHANGED anchors PROVE Public' = Public
BY DEF Public, Chain!Revoked, Chain!Anchored

\* Every step of the pipeline that shows is a step of the promise.
LEMMA StepPromise ==
  ASSUME Inv, [Next]_vars
  PROVE  [Promise!Next]_(Promise!vars)
<1>1. ASSUME NEW r \in Record, Offered(r) PROVE Promise!Ask(r)
  <2>1. /\ confirmation[r] = "none" /\ confirmation' = [confirmation EXCEPT ![r] = "open"]
        /\ WasOrdered' = WasOrdered /\ Reported' = Reported /\ Public' = Public
    BY <1>1, PublicSame DEF Offered, WasOrdered, Reported, Inv, Types, GateOK, Confirmed
  <2> QED
    BY <2>1 DEF Promise!Ask, Public, WasOrdered, Reported
<1>2. ASSUME NEW r \in Record, Accepted(r) PROVE Promise!Answer(r, "confirmed")
  <2>1. /\ confirmation[r] = "open" /\ confirmation' = [confirmation EXCEPT ![r] = "confirmed"]
        /\ WasOrdered' = WasOrdered /\ Reported' = Reported /\ Public' = Public
    BY <1>2, PublicSame DEF Accepted, WasOrdered, Reported, Inv, Types, GateOK, Confirmed
  <2> QED
    BY <2>1 DEF Promise!Answer, Public, WasOrdered, Reported
<1>3. ASSUME NEW r \in Record, Declined(r) PROVE Promise!Answer(r, "declined")
  <2>1. /\ confirmation[r] = "open" /\ confirmation' = [confirmation EXCEPT ![r] = "declined"]
        /\ WasOrdered' = WasOrdered /\ Reported' = Reported /\ Public' = Public
    BY <1>3, PublicSame DEF Declined, WasOrdered, Reported, Inv, Types, GateOK, Confirmed
  <2> QED
    BY <2>1 DEF Promise!Answer, Public, WasOrdered, Reported
<1>4. ASSUME NEW r \in Record, Marked(r, "ISSUED") PROVE Promise!Report(r)
  <2>1. /\ Public[r] # "absent" /\ Reported' = Reported \cup {r} /\ Public' = Public
        /\ confirmation' = confirmation /\ WasOrdered' = WasOrdered
    BY <1>4, PublicSame, PublicIs DEF Marked, WasOrdered, Reported, Inv, Types, Chain!Anchored
  <2> QED
    BY <2>1 DEF Promise!Report, Public, WasOrdered, Reported
<1>5. ASSUME NEW r \in Record, Marked(r, "REVOKED") PROVE Promise!StopReporting({r})
  <2>1. /\ Reported' = Reported \ {r} /\ Public' = Public
        /\ confirmation' = confirmation /\ WasOrdered' = WasOrdered
    BY <1>5, PublicSame DEF Marked, WasOrdered, Reported, Inv, Types
  <2> QED
    BY <2>1 DEF Promise!StopReporting, Public, WasOrdered, Reported
<1>6. ASSUME Expired PROVE \E some \in SUBSET Record : Promise!StopReporting(some)
  <2>1. PICK some \in SUBSET Record : some = {r \in Record : status'[r] = "EXPIRED"}
    OBVIOUS
  <2>2. /\ Reported' = Reported \ some /\ Public' = Public
        /\ confirmation' = confirmation /\ WasOrdered' = WasOrdered
    BY <1>6, <2>1, PublicSame DEF Expired, WasOrdered, Reported
  <2>3. Promise!StopReporting(some)
    BY <2>2 DEF Promise!StopReporting, Public, WasOrdered, Reported
  <2> QED
    BY <2>1, <2>3
<1>7. ASSUME NEW r \in Record, Ordered(r) PROVE Promise!Order(r)
  <2>1. /\ confirmation[r] = "confirmed" /\ WasOrdered' = WasOrdered \cup {r}
        /\ Public' = Public /\ confirmation' = confirmation /\ Reported' = Reported
    BY <1>7, PublicSame DEF Ordered, WasOrdered, Reported
  <2> QED
    BY <2>1 DEF Promise!Order, Public, WasOrdered, Reported
<1>8. ASSUME NEW r \in Record, Published(r) PROVE Promise!Publish(r)
  <2>1. anchors[r].revokedAt = 0 /\ anchors[r].issuedAt = 0
    BY <1>8 DEF Published, Inv, ChainOK, Chain!Revoked, Chain!Anchored
  <2>2. Public[r] = "absent" /\ Public'[r] = "anchored"
    BY <1>8, <2>1, PublicIs DEF Published
  <2>3. Public' = [Public EXCEPT ![r] = "anchored"]
    BY <1>8, <2>2, PublicChanges DEF Published
  <2>4. confirmation[r] = "confirmed" /\ confirmation' = confirmation
        /\ WasOrdered' = WasOrdered /\ Reported' = Reported
    BY <1>8 DEF Published, WasOrdered, Reported
  <2> QED
    BY <2>2, <2>3, <2>4 DEF Promise!Publish, Public, WasOrdered, Reported
<1>9. ASSUME NEW r \in Record, Withdrawn(r) PROVE Promise!Withdraw(r)
  <2>1. anchors[r].revokedAt = 0 /\ anchors[r].issuedAt # 0 /\ r \in WasOrdered
    BY <1>9 DEF Withdrawn, WasOrdered, Chain!Revoked, Chain!Anchored
  <2>2. Public[r] = "anchored" /\ Public'[r] = "revoked"
    BY <1>9, <2>1, PublicIs DEF Withdrawn
  <2>3. Public' = [Public EXCEPT ![r] = "revoked"]
    BY <1>9, <2>2, PublicChanges DEF Withdrawn
  <2>4. confirmation' = confirmation /\ WasOrdered' = WasOrdered /\ Reported' = Reported
    BY <1>9 DEF Withdrawn, WasOrdered, Reported
  <2> QED
    BY <2>1, <2>2, <2>3, <2>4 DEF Promise!Withdraw, Public, WasOrdered, Reported
<1>10. ASSUME UNCHANGED Seen PROVE UNCHANGED Promise!vars
  <2>1. confirmation' = confirmation /\ Public' = Public /\ WasOrdered' = WasOrdered
        /\ Reported' = Reported
    BY <1>10, PublicSame DEF Seen, WasOrdered, Reported
  <2> QED
    BY <2>1 DEF Promise!vars, Public, WasOrdered, Reported
<1> QED
  BY StepsSeen, <1>1, <1>2, <1>3, <1>4, <1>5, <1>6, <1>7, <1>8, <1>9, <1>10 DEF Promise!Next

\* The whole pipeline, under every fault, does nothing that a platform without
\* requests, processes or transactions in sight would not be allowed to do.
THEOREM PipelinePublishesByConsent == Spec => PublishesByConsent
<1>1. Inv /\ [Next]_vars => [Promise!Next]_(Promise!vars)
  BY StepPromise
<1> QED
  BY <1>1, InitPromise, PipelineInv, PTL DEF Spec, PublishesByConsent, Promise!Spec

(***************************************************************************)
(* Nothing is forgotten                                                    *)
(***************************************************************************)
\* No suspension: the organisation and its key stay in good standing, and a row
\* is given more than the two attempts that a first failure counts.
StandingKept == "suspension" \notin Faults /\ MaxAttempts > 2

InGoodStanding == orgApproved /\ Chain!ActiveIssuer(IssuerKey)
FewAttempts == \A k \in 1..Len(rows) : rows[k].state = "PENDING" => rows[k].attempts <= 2

\* A status read earlier is right about the records that still wait.
SeenAsIs(i) == i.mayIssue /\ (Waits(i.rec) => i.seen = "PENDING_ANCHOR")
Informed(v) ==
    /\ job[v].pc \in AnchorPCs => SeenAsIs(job[v].item)
    /\ job[v].pc = "answering" =>
          job[v].item.mayIssue /\ job[v].item.seen = "PENDING_ANCHOR"
    /\ \A i \in job[v].todo : SeenAsIs(i)

\* An attempt has a row of its own, younger than the row a retry run came from.
NewerRow(v) == job[v].pc \in {"send", "wait"} => job[v].item.row < job[v].row

\* Only a second anchor is refused.
TurnedDown(v) == job[v].pc = "wait" /\ job[v].receipt = "reverted"
SecondsOnly == \A v \in Worker : TurnedDown(v) => Chain!Anchored(job[v].item.rec)

\* A record that waits is on the chain; or its youngest row is open, whatever
\* became of the older ones; or its first row is yet to be written.
Latest(r, k) == rows[k].rec = r /\ \A j \in 1..Len(rows) : rows[j].rec = r => j <= k
Open(r) == \E k \in 1..Len(rows) : Latest(r, k) /\ rows[k].state = "PENDING"
ToBegin(v, r) == job[v].pc = "anchor" /\ job[v].item.rec = r
Expected(r) == ~HasRow(r) /\ ("crash" \in Faults \/ \E v \in Worker : ToBegin(v, r))
Accounted(r) == Chain!Anchored(r) \/ Open(r) \/ Expected(r)

Served ==
    /\ InGoodStanding /\ FewAttempts /\ SecondsOnly
    /\ \A v \in Worker : Informed(v) /\ NewerRow(v)
    /\ \A r \in Record : Waits(r) => Accounted(r)

\* The rows a retry run still has to go through are of confirmed records.
LEMMA TodoRecords ==
  ASSUME Inv, NEW v \in Worker, NEW i \in job[v].todo
  PROVE  i \in Item /\ i.rec \in Record /\ confirmation[i.rec] = "confirmed"
<1>1. i.row \in 1..Len(rows) /\ rows[i.row].rec = i.rec
  BY DEF Inv, WorkersOK, WorkerOK, RowOf
<1>2. rows[i.row] \in Row /\ i \in Item
  BY <1>1, ElementOfSeq DEF Inv, Types, Job
<1> QED
  BY <1>1, <1>2 DEF Row, Inv, RowsOK, Confirmed

\* What a worker was told stays right, since no record comes to wait again.
LEMMA InformedKept ==
  ASSUME Inv, NEW v \in Worker, Informed(v), job'[v] = job[v],
         \A r \in Record : Waits(r)' /\ ~Waits(r) => confirmation[r] # "confirmed"
  PROVE  Informed(v)'
<1>1. job[v].pc \in AnchorPCs =>
        job[v].item.rec \in Record /\ confirmation[job[v].item.rec] = "confirmed"
  BY AnchoringKnows
<1>2. \A i \in job'[v].todo : SeenAsIs(i)'
  BY TodoRecords DEF Informed, SeenAsIs
<1>3. job'[v].pc \in AnchorPCs => SeenAsIs(job[v].item)'
  BY <1>1 DEF Informed, SeenAsIs
<1> QED
  BY <1>2, <1>3 DEF Informed

\* The steps of one worker: the others go on with what they are doing.
LEMMA ServedByStep ==
  ASSUME Inv, Served, NEW w \in Worker, Moves(w),
         UNCHANGED <<orgApproved, issuers, anchors>>,
         FewAttempts', Informed(w)', NewerRow(w)', ~TurnedDown(w)',
         \A r \in Record : Waits(r)' /\ ~Waits(r) => confirmation[r] # "confirmed",
         \A r \in Record : Waits(r)' => Accounted(r)'
  PROVE  Served'
<1>1. InGoodStanding'
  BY DEF Served, InGoodStanding, Chain!ActiveIssuer, Chain!Approved
<1>2. ASSUME NEW v \in Worker PROVE Informed(v)' /\ NewerRow(v)'
  <2>1. CASE v = w
    BY <2>1
  <2>2. CASE v # w
    BY <2>2, InformedKept DEF Moves, Served, NewerRow
  <2> QED
    BY <2>1, <2>2
<1>3. SecondsOnly'
  <2> SUFFICES ASSUME NEW v \in Worker, TurnedDown(v)'
               PROVE  Chain!Anchored(job[v].item.rec)'
    BY DEF SecondsOnly
  <2>1. v # w
    OBVIOUS
  <2> QED
    BY <2>1 DEF Moves, TurnedDown, Served, SecondsOnly, Chain!Anchored
<1> QED
  BY <1>1, <1>2, <1>3 DEF Served

\* Rows that stay as they are account for what they accounted for.
LEMMA AccountedAside ==
  ASSUME Inv, NEW w \in Worker, Moves(w), UNCHANGED <<anchors, rows>>,
         NEW r, Accounted(r), job[w].pc # "anchor" \/ "crash" \in Faults
  PROVE  Accounted(r)'
<1>1. Chain!Anchored(r)' = Chain!Anchored(r) /\ Open(r)' = Open(r) /\ HasRow(r)' = HasRow(r)
  BY DEF Chain!Anchored, Open, Latest, HasRow
<1>2. ASSUME NEW v \in Worker, ToBegin(v, r), "crash" \notin Faults PROVE ToBegin(v, r)'
  BY <1>2 DEF ToBegin, Moves
<1> QED
  BY <1>1, <1>2 DEF Accounted, Expected

\* A step that writes no row.
LEMMA ServedAside ==
  ASSUME Inv, Served, NEW w \in Worker, Moves(w),
         UNCHANGED <<orgApproved, issuers, anchors, rows>>,
         job[w].pc # "anchor" \/ "crash" \in Faults, Informed(w)', NewerRow(w)', ~TurnedDown(w)',
         \A r \in Record : Waits(r)' /\ ~Waits(r) => confirmation[r] # "confirmed" /\ Accounted(r)'
  PROVE  Served'
<1>1. FewAttempts'
  BY DEF Served, FewAttempts
<1>2. \A r \in Record : Waits(r)' => Accounted(r)'
  BY AccountedAside DEF Served
<1> QED
  BY <1>1, <1>2, ServedByStep

\* A step on the record a worker brings on: rows of others are not touched.
RowsOfOne(q) ==
    /\ Len(rows) \in Nat /\ Len(rows') \in Nat /\ Len(rows) <= Len(rows')
    /\ \A k \in 1..Len(rows) : rows'[k].rec = rows[k].rec
    /\ \A k \in 1..Len(rows) : rows[k].rec # q => rows'[k] = rows[k]
    /\ \A k \in 1..Len(rows') : k > Len(rows) => rows'[k].rec = q

LEMMA ServedOnOne ==
  ASSUME Inv, Served, NEW w \in Worker, Moves(w), NEW q \in Record, job[w].item.rec = q,
         UNCHANGED <<orgApproved, issuers, anchors>>, RowsOfOne(q),
         \A r \in Record : Waits(r)' => Waits(r),
         FewAttempts', Informed(w)', NewerRow(w)', ~TurnedDown(w)',
         Waits(q)' => Accounted(q)'
  PROVE  Served'
<1>1. ASSUME NEW r \in Record, Accounted(r), r # q PROVE Accounted(r)'
  <2>1. ASSUME Open(r) PROVE Open(r)'
    <3>1. PICK k \in 1..Len(rows) : Latest(r, k) /\ rows[k].state = "PENDING"
      BY <2>1 DEF Open
    <3>2. rows'[k] = rows[k] /\ k \in 1..Len(rows')
      BY <1>1, <3>1 DEF RowsOfOne, Latest
    <3>3. ASSUME NEW j \in 1..Len(rows'), rows'[j].rec = r PROVE j <= k
      BY <1>1, <3>1, <3>3 DEF RowsOfOne, Latest
    <3> QED
      BY <3>1, <3>2, <3>3 DEF Open, Latest
  <2>2. HasRow(r)' => HasRow(r)
    BY <1>1 DEF HasRow, RowsOfOne
  <2>3. ASSUME NEW v \in Worker, ToBegin(v, r) PROVE ToBegin(v, r)'
    <3>1. v # w
      BY <1>1, <2>3 DEF ToBegin
    <3> QED
      BY <2>3, <3>1 DEF ToBegin, Moves
  <2> QED
    BY <1>1, <2>1, <2>2, <2>3 DEF Accounted, Expected, Chain!Anchored
<1>2. \A r \in Record : Waits(r)' => Accounted(r)'
  BY <1>1 DEF Served
<1> QED
  BY <1>2, ServedByStep

\* The open row of a record stays open while only older ones are written off.
LEMMA OpenStays ==
  ASSUME NEW q, Open(q), RowsOfOne(q), Len(rows') = Len(rows),
         \A k \in 1..Len(rows) : Latest(q, k) /\ rows[k].state = "PENDING" =>
             rows'[k].state = "PENDING"
  PROVE  Open(q)'
<1>1. PICK k \in 1..Len(rows) : Latest(q, k) /\ rows[k].state = "PENDING"
  BY DEF Open
<1>2. rows'[k].state = "PENDING" /\ rows'[k].rec = q
  BY <1>1 DEF RowsOfOne, Latest
<1>3. \A j \in 1..Len(rows') : rows'[j].rec = q => j <= k
  BY <1>1 DEF RowsOfOne, Latest
<1> QED
  BY <1>1, <1>2, <1>3 DEF Open, Latest

\* Once it has a row, a record that waits is on the chain or its youngest is open.
LEMMA OpenOrAnchored ==
  ASSUME Served, NEW q \in Record, Waits(q), HasRow(q)
  PROVE  Chain!Anchored(q) \/ Open(q)
BY DEF Served, Accounted, Expected

(***************************************************************************)
(* What a worker knows when it goes on                                     *)
(***************************************************************************)
LEMMA ContinueInformed ==
  ASSUME Inv, NEW w \in Worker, NEW todo \in SUBSET Item, Continue(w, todo),
         \A i \in todo : SeenAsIs(i)'
  PROVE  Moves(w) /\ job'[w].pc \in {"idle", "verify"} /\ Informed(w)'
<1>1. CASE todo = {} /\ job' = [job EXCEPT ![w] = Idle]
  <2>1. Moves(w) /\ job'[w] = Idle
    BY <1>1, IdleType DEF Inv, Types, Moves
  <2> QED
    BY <2>1, IdleType DEF Informed, AnchorPCs
<1>2. ASSUME NEW item \in todo,
             job' = [job EXCEPT ![w] =
                 [Idle EXCEPT !.pc = "verify", !.item = item, !.todo = todo \ {item}]]
      PROVE  Moves(w) /\ job'[w].pc = "verify" /\ Informed(w)'
  <2> DEFINE j == [Idle EXCEPT !.pc = "verify", !.item = item, !.todo = todo \ {item}]
  <2>1. j \in Job /\ j.pc = "verify" /\ j.item = item /\ j.todo = todo \ {item}
    BY IdleType DEF Idle, Job, PC
  <2>2. Moves(w) /\ job'[w] = j
    BY <1>2, <2>1 DEF Inv, Types, Moves
  <2> HIDE DEF j
  <2>3. /\ job'[w].pc = "verify" /\ job'[w].item = item
        /\ \A i \in job'[w].todo : SeenAsIs(i)'
    BY <2>1, <2>2
  <2>4. SeenAsIs(job[w].item)'
    BY <2>3 DEF SeenAsIs
  <2> QED
    BY <2>2, <2>3, <2>4 DEF Informed
<1> QED
  BY <1>1, <1>2 DEF Continue

LEMMA DoneInformed ==
  ASSUME Inv, NEW w \in Worker, Informed(w), Done(w),
         \A r \in Record : Waits(r)' => Waits(r)
  PROVE  /\ Moves(w) /\ job'[w].pc \in {"idle", "verify"} /\ Informed(w)'
         /\ NewerRow(w)' /\ ~TurnedDown(w)'
<1>1. \A i \in job[w].todo : SeenAsIs(i)'
  BY TodoRecords DEF Informed, SeenAsIs
<1>2. job[w].todo \in SUBSET Item
  BY TodoRecords
<1>3. Moves(w) /\ job'[w].pc \in {"idle", "verify"} /\ Informed(w)'
  BY <1>1, <1>2, ContinueInformed DEF Done
<1> QED
  BY <1>3 DEF NewerRow, TurnedDown

LEMMA GotoInformed ==
  ASSUME Inv, NEW w \in Worker, Informed(w), NEW pc \in PC \ {"answering"}, Goto(w, pc),
         job[w].pc \in AnchorPCs \/ pc \notin AnchorPCs,
         \A r \in Record : Waits(r)' => Waits(r)
  PROVE  Moves(w) /\ job'[w].pc = pc /\ Informed(w)'
<1>1. Moves(w) /\ job'[w].pc = pc /\ job'[w].item = job[w].item /\ job'[w].todo = job[w].todo
  BY GotoMoves DEF Inv
<1>2. \A i \in job'[w].todo : SeenAsIs(i)'
  BY <1>1, TodoRecords DEF Informed, SeenAsIs
<1>3. pc \in AnchorPCs => SeenAsIs(job[w].item)'
  BY <1>1, AnchoringKnows DEF Informed, SeenAsIs
<1> QED
  BY <1>1, <1>2, <1>3 DEF Informed

(***************************************************************************)
(* Steps that write no row                                                 *)
(***************************************************************************)
LEMMA NobodyMoves ==
  ASSUME Inv, Served, UNCHANGED <<rows, orgApproved, issuers, anchors, job>>,
         \A r \in Record : Waits(r)' => Waits(r)
  PROVE  Served'
<1>1. InGoodStanding' /\ FewAttempts' /\ SecondsOnly'
  BY DEF Served, InGoodStanding, Chain!ActiveIssuer, Chain!Approved, FewAttempts, SecondsOnly,
     TurnedDown, Chain!Anchored
<1>2. \A v \in Worker : Informed(v)' /\ NewerRow(v)'
  BY InformedKept DEF Served, NewerRow
<1>3. \A r \in Record : Waits(r)' => Accounted(r)'
  BY DEF Served, Accounted, Expected, Open, Latest, HasRow, ToBegin, Chain!Anchored
<1> QED
  BY <1>1, <1>2, <1>3 DEF Served

LEMMA OffersServed ==
  ASSUME Inv, Served, NEW r \in Record, CreateOffer(r) \/ OfferLapses(r) PROVE Served'
<1>1. UNCHANGED <<rows, orgApproved, issuers, anchors, job>>
  BY DEF CreateOffer, OfferLapses, chain
<1>2. \A q \in Record : Waits(q)' => Waits(q)
  BY DEF CreateOffer, OfferLapses, Waits, Inv, Types
<1> QED
  BY <1>1, <1>2, NobodyMoves

\* What a step does to none of what the retry command relies on.
Aside == UNCHANGED <<orgApproved, issuers, anchors, rows>>

\* A job that ends, or gives way to the next row, without an attempt of its own.
LEMMA EndsServed ==
  ASSUME Inv, Served, NEW w \in Worker,
         \/ AcceptConflicts(w) \/ Decline(w) \/ RevokeRejected(w) \/ RevokeSave(w)
         \/ ExpireSelected(w) \/ VerifyOutage(w) \/ RevokePollFails(w)
  PROVE  Served'
<1>1. Done(w) /\ Aside /\ job[w].pc # "anchor"
  BY DEF AcceptConflicts, Decline, RevokeRejected, RevokeSave, ExpireSelected, VerifyOutage,
     RevokePollFails, Aside, db, chain
<1>2. \A r \in Record : Waits(r)' => Waits(r)
  BY DEF AcceptConflicts, Decline, RevokeRejected, RevokeSave, ExpireSelected, VerifyOutage,
     RevokePollFails, db, Waits, Inv, Types
<1>3. Moves(w) /\ Informed(w)' /\ NewerRow(w)' /\ ~TurnedDown(w)'
  BY <1>1, <1>2, DoneInformed DEF Served
<1> QED
  BY <1>1, <1>2, <1>3, ServedAside DEF Aside

\* What a retry run selects it has read just now.
LEMMA StartRetryServed == ASSUME Inv, Served, NEW w \in Worker, StartRetry(w) PROVE Served'
<1>1. Aside /\ status' = status /\ job[w].pc = "idle" /\ Continue(w, Backlog)
  BY DEF StartRetry, Aside, db, chain
<1>2. Backlog \subseteq Item /\ \A i \in Backlog : SeenAsIs(i)'
  BY <1>1, BacklogItems DEF Backlog, Snapshot, SeenAsIs, Waits, Served, InGoodStanding
<1>3. Moves(w) /\ job'[w].pc \in {"idle", "verify"} /\ Informed(w)'
  BY <1>1, <1>2, ContinueInformed
<1>4. NewerRow(w)' /\ ~TurnedDown(w)'
  BY <1>3 DEF NewerRow, TurnedDown
<1> QED
  BY <1>1, <1>3, <1>4, ServedAside DEF Aside, Waits

\* A job that begins: on an offer, which its record will wait after, on a
\* revocation or on stale offers.
LEMMA BeginsServed ==
  ASSUME Inv, Served, NEW w \in Worker, Aside, status' = status, job[w].pc = "idle",
         NEW pc \in {"answering", "revoke", "expire"}, Moves(w),
         job'[w].pc = pc, job'[w].todo = job[w].todo,
         pc = "answering" => job'[w].item.mayIssue /\ job'[w].item.seen = "PENDING_ANCHOR"
  PROVE  Served'
<1>1. \A i \in job'[w].todo : SeenAsIs(i)'
  BY TodoRecords DEF Served, Informed, SeenAsIs, Waits
<1>2. Informed(w)' /\ NewerRow(w)' /\ ~TurnedDown(w)'
  BY <1>1 DEF Informed, AnchorPCs, NewerRow, TurnedDown
<1> QED
  BY <1>2, ServedAside DEF Aside, Waits

LEMMA RequestsServed ==
  ASSUME Inv, Served, NEW w \in Worker,
         SelectStale(w) \/ \E r \in Record : LockOpenConfirmation(w, r) \/ BeginRevoke(w, r)
  PROVE  Served'
<1>1. job[w] \in Job /\ job \in [Worker -> Job]
  BY DEF Inv, Types
<1>2. CASE SelectStale(w)
  <2> DEFINE j == [job[w] EXCEPT !.pc = "expire", !.stale = Stale]
  <2>1. Stale \subseteq Record /\ "expire" \in PC
    BY DEF Stale, PC
  <2>2. j \in Job /\ j.pc = "expire" /\ j.todo = job[w].todo
    BY <1>1, <2>1 DEF Job
  <2>3. job' = [job EXCEPT ![w] = j]
    BY <1>2 DEF SelectStale
  <2> HIDE DEF j
  <2>4. Moves(w) /\ job'[w].pc = "expire" /\ job'[w].todo = job[w].todo
    BY <1>1, <2>2, <2>3 DEF Moves
  <2>5. Aside /\ status' = status /\ job[w].pc = "idle"
    BY <1>2 DEF SelectStale, Aside, db, chain
  <2> QED
    BY <2>4, <2>5, BeginsServed
<1>3. ASSUME NEW r \in Record, LockOpenConfirmation(w, r) PROVE Served'
  <2> DEFINE i == [NoItem EXCEPT !.rec = r, !.seen = "PENDING_ANCHOR", !.mayIssue = orgApproved]
  <2> DEFINE j == [job[w] EXCEPT !.pc = "answering", !.item = i]
  <2>1. i \in Item /\ i.seen = "PENDING_ANCHOR" /\ i.mayIssue = orgApproved
    BY DEF NoItem, Item, Status, Inv, Types
  <2> HIDE DEF i
  <2>2. j \in Job /\ j.pc = "answering" /\ j.item = i /\ j.todo = job[w].todo
    BY <1>1, <2>1 DEF Job, PC
  <2>3. job' = [job EXCEPT ![w] = j]
    BY <1>3 DEF LockOpenConfirmation, i
  <2> HIDE DEF j
  <2>4. Moves(w) /\ job'[w] = j
    BY <1>1, <2>2, <2>3 DEF Moves
  <2>5. i.mayIssue
    BY <2>1 DEF Served, InGoodStanding
  <2>6. Aside /\ status' = status /\ job[w].pc = "idle"
    BY <1>3 DEF LockOpenConfirmation, Aside, db, chain
  <2> QED
    BY <2>1, <2>2, <2>4, <2>5, <2>6, BeginsServed
<1>4. ASSUME NEW r \in Record, BeginRevoke(w, r) PROVE Served'
  <2> DEFINE i == [NoItem EXCEPT !.rec = r]
  <2> DEFINE j == [job[w] EXCEPT !.pc = "revoke", !.item = i]
  <2>1. i \in Item
    BY DEF NoItem, Item, Status
  <2> HIDE DEF i
  <2>2. j \in Job /\ j.pc = "revoke" /\ j.todo = job[w].todo
    BY <1>1, <2>1 DEF Job, PC
  <2>3. job' = [job EXCEPT ![w] = j]
    BY <1>4 DEF BeginRevoke, i
  <2> HIDE DEF j
  <2>4. Moves(w) /\ job'[w].pc = "revoke" /\ job'[w].todo = job[w].todo
    BY <1>1, <2>2, <2>3 DEF Moves
  <2>5. Aside /\ status' = status /\ job[w].pc = "idle"
    BY <1>4 DEF BeginRevoke, Aside, chain
  <2> QED
    BY <2>4, <2>5, BeginsServed
<1> QED
  BY <1>2, <1>3, <1>4

\* The steps of a revocation leave what waits to those who bring it.
LEMMA RevokingServed ==
  ASSUME Inv, Served, NEW w \in Worker,
         RevokeOutage(w) \/ RevokeTimeout(w) \/ RevokeReceipt(w) \/ SubmitRevoke(w)
  PROVE  Served'
<1>1. PICK pc \in {"revokeSave", "revokeWait"} : Goto(w, pc)
  BY DEF RevokeOutage, RevokeTimeout, RevokeReceipt, SubmitRevoke
<1>2. /\ UNCHANGED <<status, orgApproved, issuers, anchors, rows>>
      /\ job[w].pc # "anchor" /\ job[w].pc \notin AnchorPCs
  BY DEF RevokeOutage, RevokeTimeout, RevokeReceipt, SubmitRevoke, db, chain, AnchorPCs
<1>3. pc \in PC \ {"answering"} /\ pc \notin AnchorPCs
  BY DEF PC, AnchorPCs
<1>4. Moves(w) /\ job'[w].pc = pc /\ Informed(w)'
  BY <1>1, <1>2, <1>3, GotoInformed DEF Served, Waits
<1>5. NewerRow(w)' /\ ~TurnedDown(w)'
  BY <1>4 DEF NewerRow, TurnedDown
<1> QED
  BY <1>2, <1>4, <1>5, ServedAside DEF Waits

\* Nobody knows of the record yet: it was not confirmed, and it has no row.
LEMMA AcceptServed == ASSUME Inv, Served, NEW w \in Worker, Accept(w) PROVE Served'
<1>1. PICK q : q = job[w].item.rec
  OBVIOUS
<1>2. /\ job[w].pc = "answering" /\ q \in Record /\ confirmation[q] = "open"
      /\ status' = [status EXCEPT ![q] = "PENDING_ANCHOR"] /\ Goto(w, "anchor") /\ Aside
  BY <1>1 DEF Accept, Rec, Inv, AnsweringOK, Aside, chain
<1>3. /\ Moves(w) /\ job'[w].pc = "anchor" /\ job'[w].item = job[w].item
      /\ job'[w].todo = job[w].todo
  BY <1>2, GotoMoves DEF PC, Inv
<1>4. \A r \in Record : Waits(r)' /\ ~Waits(r) => r = q
  BY <1>2 DEF Waits, Inv, Types
<1>5. SeenAsIs(job[w].item)'
  BY <1>2, <1>3 DEF Served, Informed, SeenAsIs
<1>6. \A i \in job'[w].todo : SeenAsIs(i)'
  <2> SUFFICES ASSUME NEW i \in job[w].todo PROVE SeenAsIs(i)'
    BY <1>3
  <2>1. i.rec \in Record /\ confirmation[i.rec] = "confirmed" /\ SeenAsIs(i)
    BY TodoRecords DEF Served, Informed
  <2> QED
    BY <2>1, <1>2, <1>4 DEF SeenAsIs
<1>7. Informed(w)' /\ NewerRow(w)' /\ ~TurnedDown(w)'
  BY <1>3, <1>5, <1>6 DEF Informed, NewerRow, TurnedDown
<1>8. Accounted(q)'
  <2>1. ~HasRow(q)
    BY <1>2 DEF HasRow, Inv, RowsOK, Confirmed
  <2>2. ~HasRow(q)' /\ ToBegin(w, q)'
    BY <1>1, <1>2, <1>3, <2>1 DEF HasRow, ToBegin, Aside
  <2> QED
    BY <2>2 DEF Accounted, Expected
<1> QED
  BY <1>2, <1>3, <1>4, <1>7, <1>8, ServedAside DEF Aside

\* A process that dies leaves the rows as they are.
LEMMA CrashServed == ASSUME Inv, Served, NEW w \in Worker, Crash(w) PROVE Served'
<1>1. /\ "crash" \in Faults /\ status' = status /\ Aside /\ job' = [job EXCEPT ![w] = Idle]
  BY DEF Crash, Spend, Aside, db, chain
<1>2. Moves(w) /\ job'[w] = Idle
  BY <1>1, IdleType DEF Inv, Types, Moves
<1>3. Informed(w)' /\ NewerRow(w)' /\ ~TurnedDown(w)'
  BY <1>2, IdleType DEF Informed, AnchorPCs, NewerRow, TurnedDown
<1> QED
  BY <1>1, <1>2, <1>3, ServedAside DEF Aside, Waits

LEMMA ResubmitServed == ASSUME Inv, Served, NEW w \in Worker, Resubmit(w) PROVE Served'
<1>1. job[w].pc = "verify" /\ Goto(w, "anchor") /\ Aside /\ status' = status
  BY DEF Resubmit, Aside, db, chain
<1>2. \A r \in Record : Waits(r)' => Waits(r)
  BY <1>1 DEF Waits
<1>3. Moves(w) /\ job'[w].pc = "anchor" /\ Informed(w)'
  BY <1>1, <1>2, GotoInformed DEF PC, AnchorPCs, Served
<1>4. NewerRow(w)' /\ ~TurnedDown(w)'
  BY <1>3 DEF NewerRow, TurnedDown
<1> QED
  BY <1>1, <1>2, <1>3, <1>4, ServedAside DEF Aside

\* The transaction is sent, and its worker waits for it.
LEMMA SubmitAnchorServed ==
  ASSUME Inv, Served, NEW w \in Worker, SubmitAnchor(w) PROVE Served'
<1>1. job[w].pc = "send" /\ Goto(w, "wait") /\ Aside /\ status' = status
  BY DEF SubmitAnchor, Aside, db, chain
<1>2. job[w].receipt = "none" /\ NewerRow(w)
  BY <1>1 DEF Inv, WorkersOK, WorkerOK, Served
<1>3. \A r \in Record : Waits(r)' => Waits(r)
  BY <1>1 DEF Waits
<1>4. Moves(w) /\ job'[w].pc = "wait" /\ Informed(w)'
  BY <1>1, <1>3, GotoInformed DEF PC, AnchorPCs, Served
<1>5. job'[w].item = job[w].item /\ job'[w].receipt = "none" /\ job'[w].row = job[w].row
  BY <1>1, <1>2, GotoMoves DEF PC, Inv
<1>6. NewerRow(w)' /\ ~TurnedDown(w)'
  BY <1>1, <1>2, <1>5 DEF NewerRow, TurnedDown
<1> QED
  BY <1>1, <1>3, <1>4, <1>6, ServedAside DEF Aside

(***************************************************************************)
(* Steps that write the rows of one record                                 *)
(***************************************************************************)
\* A step that ends an attempt, or one pass of a retry run over a row.
LEMMA AttemptEnds ==
  ASSUME Inv, Served, NEW w \in Worker, job[w].pc \in AnchorPCs,
         NEW q, q = job[w].item.rec, Done(w), UNCHANGED <<orgApproved, issuers, anchors>>,
         RowsOfOne(q), FewAttempts', \A r \in Record : Waits(r)' => Waits(r),
         Waits(q)' => Accounted(q)'
  PROVE  Served'
<1>1. Moves(w) /\ Informed(w)' /\ NewerRow(w)' /\ ~TurnedDown(w)'
  BY DoneInformed DEF Served
<1>2. q \in Record
  BY AnchoringKnows
<1> QED
  BY <1>1, <1>2, ServedOnOne

\* The rows as an exception leaves them: nothing is written but the row a retry
\* run came from, which is written off.
LEMMA RaisedKeeps ==
  ASSUME Inv, NEW w \in Worker, NEW new, SameRows(new, {}), Raise(w, new),
         NEW q, q = job[w].item.rec,
         \A k \in 1..Len(rows) : rows[k].rec # q => new[k] = rows[k],
         \A k \in 1..Len(rows) : new[k].state = "PENDING" => new[k].attempts <= 2
  PROVE  /\ Done(w) /\ RowsOfOne(q) /\ Len(rows') = Len(rows) /\ FewAttempts'
         /\ \A k \in 1..Len(rows) : k # job[w].item.row => rows'[k] = new[k]
<1>1. SameRows(rows', {}) /\ Done(w)
  BY RaisedRows DEF Inv
<1>2. Len(rows') = Len(rows) /\ Len(rows) \in Nat
      /\ \A k \in 1..Len(rows) : rows'[k].rec = rows[k].rec
  BY <1>1, LenProperties DEF SameRows, Inv, Types
<1> DEFINE i == job[w].item
<1>3. CASE i.row = 0
  <2>1. rows' = new
    BY <1>3 DEF Raise
  <2> QED
    BY <1>1, <1>2, <2>1 DEF FewAttempts, RowsOfOne
<1>4. CASE i.row # 0
  <2>1. i.row \in 1..Len(rows) /\ rows[i.row].rec = q
    BY <1>4 DEF Inv, WorkersOK, WorkerOK, RowOf
  <2>2. new \in [1..Len(rows) -> Row]
    BY LenProperties DEF SameRows
  <2>3. rows' = [new EXCEPT ![i.row] = [new[i.row] EXCEPT !.state = "FAILED",
                                                         !.attempts = i.attempts + 1]]
    BY <1>4, <2>1, <2>2 DEF Raise
  <2>4. [new[i.row] EXCEPT !.state = "FAILED", !.attempts = i.attempts + 1].state = "FAILED"
    BY <2>1, <2>2 DEF Row
  <2>5. \A k \in 1..Len(rows) : k # i.row => rows'[k] = new[k]
    BY <2>1, <2>2, <2>3
  <2>6. rows'[i.row].state = "FAILED"
    BY <2>1, <2>2, <2>3, <2>4
  <2>7. FewAttempts'
    BY <1>2, <2>5, <2>6 DEF FewAttempts
  <2>8. RowsOfOne(q)
    BY <1>2, <2>1, <2>5 DEF RowsOfOne
  <2> QED
    BY <1>1, <1>2, <2>5, <2>7, <2>8
<1> QED
  BY <1>3, <1>4

LEMMA RowsAsTheyAre ==
  ASSUME Inv, Served
  PROVE  SameRows(rows, {}) /\ (\A q : rows' = rows => RowsOfOne(q))
         /\ \A k \in 1..Len(rows) : rows[k].state = "PENDING" => rows[k].attempts <= 2
<1>1. Len(rows) \in Nat
  BY LenProperties DEF Inv, Types
<1> QED
  BY <1>1, UnchangedRows DEF Inv, Served, FewAttempts, RowsOfOne

\* An attempt written off: of a record that does not wait, or that is anchored.
LEMMA RaiseServed ==
  ASSUME Inv, Served, NEW w \in Worker, job[w].pc \in AnchorPCs,
         NEW new, SameRows(new, {}), Raise(w, new), NEW q, q = job[w].item.rec,
         \A k \in 1..Len(rows) : rows[k].rec # q => new[k] = rows[k],
         \A k \in 1..Len(rows) : new[k].state = "PENDING" => new[k].attempts <= 2,
         UNCHANGED <<status, orgApproved, issuers, anchors>>,
         Waits(q) => Chain!Anchored(q)
  PROVE  Served'
<1>1. Done(w) /\ RowsOfOne(q) /\ FewAttempts'
  BY RaisedKeeps
<1>2. Waits(q)' => Accounted(q)'
  BY DEF Waits, Accounted, Chain!Anchored
<1> QED
  BY <1>1, <1>2, AttemptEnds DEF Waits

LEMMA AnchorRefusedServed ==
  ASSUME Inv, Served, NEW w \in Worker, AnchorRefused(w) PROVE Served'
<1>1. PICK q : q = job[w].item.rec
  OBVIOUS
<1>2. /\ job[w].pc \in AnchorPCs /\ Raise(w, rows)
      /\ UNCHANGED <<status, orgApproved, issuers, anchors>>
  BY DEF AnchorRefused, AnchorPCs, chain
<1>3. ~Waits(q)
  BY <1>1, <1>2 DEF AnchorRefused, Served, Informed, SeenAsIs
<1> QED
  BY <1>1, <1>2, <1>3, RowsAsTheyAre, RaiseServed

\* One attempt's row is written, with at most two attempts.
LEMMA RowSet ==
  ASSUME Inv, Served, NEW i \in 1..Len(rows), NEW state \in {"PENDING", "FAILED"}
  PROVE  LET new == SetRow(i, state, 2) IN
         /\ SameRows(new, {}) /\ new[i].state = state
         /\ \A k \in 1..Len(rows) : k # i => new[k] = rows[k]
         /\ \A k \in 1..Len(rows) : new[k].state = "PENDING" => new[k].attempts <= 2
<1> DEFINE row == [rows[i] EXCEPT !.state = state, !.attempts = 2]
<1> DEFINE new == [rows EXCEPT ![i] = row]
<1>1. rows \in [1..Len(rows) -> Row]
  BY LenProperties DEF Inv, Types
<1>2. SetRow(i, state, 2) = new
  BY <1>1 DEF SetRow
<1>3. row.state = state /\ row.attempts = 2
  BY <1>1 DEF Row
<1>4. SameRows(SetRow(i, state, 2), {})
  BY SetRowType DEF Inv
<1> HIDE DEF row
<1>5. /\ new[i] = row
      /\ \A k \in 1..Len(rows) : k # i => new[k] = rows[k]
  BY <1>1
<1> HIDE DEF new
<1> QED
  BY <1>2, <1>3, <1>4, <1>5, RowsAsTheyAre

\* With the issuer in good standing, the chain refuses a second anchor only.
LEMMA AnchorRejectedServed ==
  ASSUME Inv, Served, NEW w \in Worker, AnchorRejected(w) \/ AnchorReverted(w)
  PROVE  Served'
<1>1. PICK q : q = job[w].item.rec
  OBVIOUS
<1>2. /\ job[w].pc \in {"send", "wait"} /\ Raise(w, SetRow(job[w].row, "FAILED", 2))
      /\ UNCHANGED <<status, orgApproved, issuers, anchors>>
  BY DEF AnchorRejected, AnchorReverted, chain
<1>3. job[w].row \in 1..Len(rows) /\ rows[job[w].row].rec = q
  BY <1>1, <1>2, AnchoringKnows
<1>4. Chain!Anchored(q)
  BY <1>1 DEF AnchorRejected, AnchorReverted, Rec, Served, InGoodStanding, SecondsOnly, TurnedDown
<1> DEFINE new == SetRow(job[w].row, "FAILED", 2)
<1>5. /\ SameRows(new, {})
      /\ \A k \in 1..Len(rows) : rows[k].rec # q => new[k] = rows[k]
      /\ \A k \in 1..Len(rows) : new[k].state = "PENDING" => new[k].attempts <= 2
  BY <1>3, RowSet
<1>6. job[w].pc \in AnchorPCs
  BY <1>2 DEF AnchorPCs
<1> HIDE DEF new
<1>7. Raise(w, new)
  BY <1>2 DEF new
<1> QED
  BY <1>1, <1>2, <1>4, <1>5, <1>6, <1>7, RaiseServed

\* An outage or a timeout leaves a row that a retry run selects, whether or not
\* the node has the transaction.
LEMMA LeftToRetryServed ==
  ASSUME Inv, Served, NEW w \in Worker, AnchorOutage(w) \/ AnchorTimeout(w) PROVE Served'
<1>1. PICK q : q = job[w].item.rec
  OBVIOUS
<1>2. /\ job[w].pc \in {"send", "wait"} /\ rows' = SetRow(job[w].row, "PENDING", 2) /\ Done(w)
      /\ UNCHANGED <<status, orgApproved, issuers, anchors>>
  BY DEF AnchorOutage, AnchorTimeout, chain
<1>3. /\ job[w].row \in 1..Len(rows) /\ rows[job[w].row].rec = q /\ q \in Record
      /\ job[w].pc \in AnchorPCs
  BY <1>1, <1>2, AnchoringKnows DEF AnchorPCs
<1>4. /\ SameRows(rows', {}) /\ rows'[job[w].row].state = "PENDING"
      /\ \A k \in 1..Len(rows) : k # job[w].row => rows'[k] = rows[k]
      /\ \A k \in 1..Len(rows) : rows'[k].state = "PENDING" => rows'[k].attempts <= 2
  BY <1>2, <1>3, RowSet
<1>5. Len(rows') = Len(rows) /\ RowsOfOne(q) /\ FewAttempts'
  <2>1. Len(rows') = Len(rows) /\ Len(rows) \in Nat
        /\ \A k \in 1..Len(rows) : rows'[k].rec = rows[k].rec
    BY <1>4, LenProperties DEF SameRows, Inv, Types
  <2>2. \A k \in 1..Len(rows) : rows[k].rec # q => rows'[k] = rows[k]
    BY <1>3, <1>4
  <2> QED
    BY <1>4, <2>1, <2>2 DEF RowsOfOne, FewAttempts
<1>6. Waits(q)' => Accounted(q)'
  <2> SUFFICES ASSUME Waits(q) PROVE Accounted(q)'
    BY <1>2 DEF Waits
  <2>1. HasRow(q)
    BY <1>3 DEF HasRow
  <2>2. CASE Chain!Anchored(q)
    BY <1>2, <2>2 DEF Accounted, Chain!Anchored
  <2>3. CASE Open(q)
    <3>1. Open(q)'
      BY <1>4, <1>5, <2>3, OpenStays
    <3> QED
      BY <3>1 DEF Accounted
  <2> QED
    BY <1>3, <2>1, <2>2, <2>3, OpenOrAnchored
<1> QED
  BY <1>1, <1>2, <1>3, <1>5, <1>6, AttemptEnds DEF Waits

\* A poll that fails writes off, at most, the row the retry run came from: the
\* attempt's own row is younger, so the youngest row stays open.
LEMMA AnchorPollFailsServed ==
  ASSUME Inv, Served, NEW w \in Worker, AnchorPollFails(w) PROVE Served'
<1>1. PICK q : q = job[w].item.rec
  OBVIOUS
<1>2. /\ job[w].pc = "wait" /\ Raise(w, rows)
      /\ UNCHANGED <<status, orgApproved, issuers, anchors>>
  BY DEF AnchorPollFails, chain
<1>3. /\ job[w].row \in 1..Len(rows) /\ rows[job[w].row].rec = q /\ q \in Record
      /\ job[w].pc \in AnchorPCs /\ job[w].item.row < job[w].row
  BY <1>1, <1>2, AnchoringKnows DEF AnchorPCs, Served, NewerRow
<1>4. /\ Done(w) /\ RowsOfOne(q) /\ Len(rows') = Len(rows) /\ FewAttempts'
      /\ \A k \in 1..Len(rows) : k # job[w].item.row => rows'[k] = rows[k]
  BY <1>1, <1>2, RowsAsTheyAre, RaisedKeeps
<1>5. Waits(q)' => Accounted(q)'
  <2> SUFFICES ASSUME Waits(q) PROVE Accounted(q)'
    BY <1>2 DEF Waits
  <2>1. HasRow(q)
    BY <1>3 DEF HasRow
  <2>2. CASE Chain!Anchored(q)
    BY <1>2, <2>2 DEF Accounted, Chain!Anchored
  <2>3. CASE Open(q)
    <3>1. ASSUME NEW k \in 1..Len(rows), Latest(q, k) PROVE rows'[k] = rows[k]
      <4>1. job[w].row <= k
        BY <1>3, <3>1 DEF Latest
      <4>2. Len(rows) \in Nat /\ job[w].item.row \in Nat
        BY LenProperties, AnchoringKnows DEF Inv, Types, Item
      <4>3. k # job[w].item.row
        BY <1>3, <4>1, <4>2
      <4> QED
        BY <1>4, <4>3
    <3>2. Open(q)'
      BY <1>4, <2>3, <3>1, OpenStays
    <3> QED
      BY <3>2 DEF Accounted
  <2> QED
    BY <1>3, <2>1, <2>2, <2>3, OpenOrAnchored
<1> QED
  BY <1>1, <1>2, <1>3, <1>4, <1>5, AttemptEnds DEF Waits

\* The row of an attempt comes to be: the youngest of its record, and open.
LEMMA RecordAttemptServed ==
  ASSUME Inv, Served, NEW w \in Worker, RecordAttempt(w) PROVE Served'
<1>1. PICK q : q = job[w].item.rec
  OBVIOUS
<1> DEFINE row == [rec |-> q, state |-> "PENDING", attempts |-> 1]
<1> DEFINE j == [job[w] EXCEPT !.pc = "send", !.row = Len(rows) + 1]
<1>2. /\ job[w].pc = "anchor" /\ rows' = Append(rows, row) /\ job' = [job EXCEPT ![w] = j]
      /\ UNCHANGED <<status, orgApproved, issuers, anchors>>
  BY <1>1 DEF RecordAttempt, chain
<1>3. job[w] \in Job /\ q \in Record /\ job[w].pc \in AnchorPCs
  BY <1>1, <1>2, AnchoringKnows DEF AnchorPCs
<1>4. row \in Row /\ rows \in Seq(Row) /\ Len(rows) \in Nat
      /\ row.attempts = 1 /\ row.state = "PENDING" /\ row.rec = q
  BY <1>3, LenProperties DEF Row, Inv, Types
<1>5. /\ j \in Job /\ j.pc = "send" /\ j.item = job[w].item /\ j.todo = job[w].todo
      /\ j.row = Len(rows) + 1
  <2>1. Len(rows) + 1 \in Nat /\ "send" \in PC
    BY <1>4 DEF PC
  <2>2. j \in Job
    BY <1>3, <2>1 DEF Job
  <2> QED
    BY <1>3, <2>2 DEF Job
<1> HIDE DEF row, j
<1>6. /\ Len(rows') = Len(rows) + 1 /\ rows'[Len(rows) + 1] = row
      /\ \A k \in 1..Len(rows) : rows'[k] = rows[k]
  BY <1>2, <1>4, AppendProperties
<1>7. Moves(w) /\ job'[w] = j
  BY <1>2, <1>5 DEF Inv, Types, Moves
<1>8. FewAttempts'
  BY <1>4, <1>6 DEF Served, FewAttempts
<1>9. Informed(w)'
  <2>1. SeenAsIs(job[w].item) /\ \A i \in job[w].todo : SeenAsIs(i)
    BY <1>3 DEF Served, Informed
  <2> QED
    BY <1>2, <1>5, <1>7, <2>1 DEF Informed, SeenAsIs, Waits
<1>10. NewerRow(w)'
  <2>1. job[w].item.row \in 0..Len(rows)
    BY <1>4, AnchoringKnows DEF Item, Inv, WorkersOK, WorkerOK, RowOf
  <2> QED
    BY <1>4, <1>5, <1>7, <2>1 DEF NewerRow
<1>11. ~TurnedDown(w)'
  BY <1>5, <1>7 DEF TurnedDown
<1>12. RowsOfOne(q)
  BY <1>4, <1>6 DEF RowsOfOne
<1>13. Accounted(q)'
  <2>1. Len(rows) + 1 \in 1..Len(rows') /\ \A i \in 1..Len(rows') : i <= Len(rows) + 1
    BY <1>4, <1>6
  <2>2. Open(q)'
    BY <1>4, <1>6, <2>1 DEF Open, Latest
  <2> QED
    BY <2>2 DEF Accounted
<1>14. \A r \in Record : Waits(r)' => Waits(r)
  BY <1>2 DEF Waits
<1> QED
  BY <1>1, <1>2, <1>3, <1>7, <1>8, <1>9, <1>10, <1>11, <1>12, <1>13, <1>14, ServedOnOne

\* A confirmed row is one attempt less to retry.
LEMMA RowConfirmed ==
  ASSUME Inv, Served, NEW i \in 1..Len(rows), rows' = ConfirmRow(i)
  PROVE  FewAttempts' /\ RowsOfOne(rows[i].rec)
<1> DEFINE row == [rows[i] EXCEPT !.state = "CONFIRMED"]
<1>1. rows \in [1..Len(rows) -> Row] /\ Len(rows) \in Nat
  BY LenProperties DEF Inv, Types
<1>2. rows' = [rows EXCEPT ![i] = row]
  BY <1>1 DEF ConfirmRow
<1>3. row.state = "CONFIRMED"
  BY <1>1 DEF Row
<1>4. SameRows(rows', {i})
  BY ConfirmRowType DEF Inv
<1> HIDE DEF row
<1>5. /\ Len(rows') = Len(rows) /\ rows'[i] = row
      /\ \A k \in 1..Len(rows) : k # i => rows'[k] = rows[k]
      /\ \A k \in 1..Len(rows) : rows'[k].rec = rows[k].rec
  BY <1>1, <1>2, <1>4 DEF SameRows
<1>6. FewAttempts'
  BY <1>3, <1>5 DEF Served, FewAttempts
<1> QED
  BY <1>1, <1>5, <1>6 DEF RowsOfOne

\* An attempt that won, this worker's or an earlier one: the hash is on the chain.
LEMMA ConfirmedServed ==
  ASSUME Inv, Served, NEW w \in Worker, job[w].pc \in AnchorPCs,
         NEW i \in 1..Len(rows), rows[i].rec = job[w].item.rec, rows' = ConfirmRow(i),
         Chain!Anchored(job[w].item.rec),
         Done(w) \/ \E pc \in {"mark", "reconcile"} : Goto(w, pc),
         UNCHANGED <<status, orgApproved, issuers, anchors>>
  PROVE  Served'
<1>1. PICK q : q = job[w].item.rec
  OBVIOUS
<1>2. \A r \in Record : Waits(r)' => Waits(r)
  BY DEF Waits
<1>3. q \in Record /\ Accounted(q)'
  BY <1>1, AnchoringKnows DEF Accounted, Chain!Anchored
<1>4. FewAttempts' /\ RowsOfOne(q)
  BY <1>1, RowConfirmed
<1>5. CASE Done(w)
  BY <1>1, <1>2, <1>3, <1>4, <1>5, AttemptEnds
<1>6. ASSUME NEW pc \in {"mark", "reconcile"}, Goto(w, pc) PROVE Served'
  <2>1. pc \in PC \ {"answering"}
    BY DEF PC
  <2>2. Moves(w) /\ job'[w].pc = pc /\ Informed(w)'
    BY <1>2, <1>6, <2>1, GotoInformed DEF Served
  <2>3. NewerRow(w)' /\ ~TurnedDown(w)'
    BY <2>2 DEF NewerRow, TurnedDown
  <2> QED
    BY <1>1, <1>2, <1>3, <1>4, <2>2, <2>3, ServedOnOne
<1> QED
  BY <1>5, <1>6

LEMMA AnchorConfirmedServed ==
  ASSUME Inv, Served, NEW w \in Worker, AnchorAlreadyOnChain(w) \/ AnchorReceipt(w)
  PROVE  Served'
<1>1. /\ job[w].pc \in {"send", "wait"} /\ rows' = ConfirmRow(job[w].row) /\ Goto(w, "mark")
      /\ UNCHANGED <<status, orgApproved, issuers, anchors>>
  BY DEF AnchorAlreadyOnChain, AnchorReceipt, chain
<1>2. job[w].row \in 1..Len(rows) /\ rows[job[w].row].rec = job[w].item.rec
      /\ job[w].pc \in AnchorPCs
  BY <1>1, AnchoringKnows DEF AnchorPCs
<1>3. Chain!Anchored(job[w].item.rec)
  BY <1>1 DEF AnchorAlreadyOnChain, AnchorReceipt, Rec, Inv, WorkersOK, WorkerOK
<1> QED
  BY <1>1, <1>2, <1>3, ConfirmedServed

LEMMA ReconcileServed == ASSUME Inv, Served, NEW w \in Worker, Reconcile(w) PROVE Served'
<1>1. /\ job[w].pc = "verify" /\ rows' = ConfirmRow(job[w].item.row)
      /\ UNCHANGED <<status, orgApproved, issuers, anchors>>
      /\ Chain!Anchored(job[w].item.rec)
      /\ Done(w) \/ Goto(w, "reconcile")
  BY DEF Reconcile, chain, Rec
<1>2. /\ job[w].item.row \in 1..Len(rows) /\ rows[job[w].item.row].rec = job[w].item.rec
      /\ job[w].pc \in AnchorPCs
  BY <1>1, AnchoringKnows DEF AnchorPCs
<1> QED
  BY <1>1, <1>2, ConfirmedServed

LEMMA MarkIssuedServed == ASSUME Inv, Served, NEW w \in Worker, MarkIssued(w) PROVE Served'
<1>1. PICK q : q = job[w].item.rec
  OBVIOUS
<1>2. /\ job[w].pc \in {"mark", "reconcile"} /\ Done(w) /\ Aside
      /\ status' = [status EXCEPT ![q] = "ISSUED"]
  BY <1>1 DEF MarkIssued, Rec, chain, Aside
<1>3. q \in Record /\ job[w].pc \in AnchorPCs
  BY <1>1, <1>2, AnchoringKnows DEF AnchorPCs
<1>4. (\A r \in Record : Waits(r)' => Waits(r)) /\ ~Waits(q)'
  BY <1>2, <1>3 DEF Waits, Inv, Types
<1>5. FewAttempts' /\ RowsOfOne(q)
  BY <1>2, RowsAsTheyAre DEF Served, FewAttempts, Aside
<1> QED
  BY <1>1, <1>2, <1>3, <1>4, <1>5, AttemptEnds DEF Aside

\* A key taken meanwhile was given up by this record, which waits no longer.
LEMMA MarkIssuedConflictsServed ==
  ASSUME Inv, Served, NEW w \in Worker, MarkIssuedConflicts(w) PROVE Served'
<1>1. PICK q : q = job[w].item.rec
  OBVIOUS
<1>2. /\ job[w].pc \in {"mark", "reconcile"} /\ status[q] \notin Live
      /\ UNCHANGED <<status, orgApproved, issuers, anchors>>
  BY <1>1 DEF MarkIssuedConflicts, Rec, MaySetLive, chain
<1>3. q \in Record /\ job[w].pc \in AnchorPCs /\ ~Waits(q)
  BY <1>1, <1>2, AnchoringKnows DEF AnchorPCs, Waits, Live
<1>4. CASE Raise(w, rows)
  BY <1>1, <1>2, <1>3, <1>4, RowsAsTheyAre, RaiseServed
<1>5. CASE job' = [job EXCEPT ![w] = Idle] /\ rows' = rows
  <2>1. Moves(w) /\ job'[w] = Idle
    BY <1>5, IdleType DEF Inv, Types, Moves
  <2>2. Informed(w)' /\ NewerRow(w)' /\ ~TurnedDown(w)'
    BY <2>1, IdleType DEF Informed, AnchorPCs, TurnedDown, NewerRow
  <2>3. job[w].pc # "anchor"
    BY <1>2
  <2> QED
    BY <1>2, <1>5, <2>1, <2>2, <2>3, ServedAside DEF Waits
<1> QED
  BY <1>4, <1>5 DEF MarkIssuedConflicts

(***************************************************************************)
(* The chain                                                               *)
(***************************************************************************)
\* A transaction that reverts has come second, for the issuer is in good standing.
LEMMA MineNextServed == ASSUME Inv, Served, MineNext PROVE Served'
<1>1. PICK tx : tx = Head(mempool)
  OBVIOUS
<1>2. /\ tx \in Tx /\ now' = now
      /\ \A r \in Record : r # tx.rec => anchors'[r] = anchors[r]
  BY <1>1, Mined
<1>3. PICK goes \in BOOLEAN :
         /\ job' = Heard(tx.from, goes)
         /\ ~goes => anchors' = anchors
         /\ ~goes /\ tx.op = "anchor" =>
               ~Chain!ActiveIssuer(IssuerKey) \/ Chain!Anchored(tx.rec)
         /\ goes /\ tx.op = "anchor" => anchors'[tx.rec].issuedAt # 0
         /\ goes /\ tx.op = "revoke" =>
               anchors[tx.rec].issuedAt # 0 /\ anchors'[tx.rec].issuedAt # 0
  BY <1>1, Mined
<1>4. UNCHANGED <<status, rows, orgApproved, issuers>> /\ mempool # << >>
  BY DEF MineNext, db, chain, Chain!Anchor, Chain!Revoke
<1>5. mempool \in Seq(Tx) /\ Len(mempool) \in Nat /\ Len(mempool) # 0 /\ mempool[1] = tx
  BY <1>1, <1>4, HeadTailProperties, LenProperties, EmptySeq DEF Inv, Types
<1>6. tx.rec \in Record /\ tx.op \in {"anchor", "revoke"} /\ 1 \in 1..Len(mempool)
  BY <1>2, <1>5 DEF Tx
<1>7. tx.from \in Worker =>
        /\ job[tx.from].pc = IF tx.op = "anchor" THEN "wait" ELSE "revokeWait"
        /\ job[tx.from].item.rec = tx.rec
  BY <1>5, <1>6 DEF Inv, LinksOK
<1>8. \A v \in Worker :
        /\ job'[v].pc = job[v].pc /\ job'[v].item = job[v].item /\ job'[v].todo = job[v].todo
        /\ job'[v].row = job[v].row
        /\ v # tx.from => job'[v] = job[v]
        /\ v = tx.from => job'[v].receipt = IF goes THEN "ok" ELSE "reverted"
  BY <1>3, OutcomeHeard DEF Inv
<1>9. \A r \in Record : Chain!Anchored(r) => Chain!Anchored(r)'
  BY <1>2, <1>3, <1>6 DEF Chain!Anchored
<1>10. InGoodStanding' /\ FewAttempts'
  BY <1>4 DEF Served, InGoodStanding, Chain!ActiveIssuer, Chain!Approved, FewAttempts
<1>11. \A v \in Worker : Informed(v)' /\ NewerRow(v)'
  BY <1>4, <1>8 DEF Served, Informed, NewerRow, SeenAsIs, Waits
<1>12. \A r \in Record : Waits(r)' => Accounted(r)'
  BY <1>4, <1>8, <1>9 DEF Served, Waits, Accounted, Expected, Open, Latest, HasRow, ToBegin
<1>13. SecondsOnly'
  <2> SUFFICES ASSUME NEW v \in Worker, TurnedDown(v)'
               PROVE  Chain!Anchored(job[v].item.rec)'
    BY DEF SecondsOnly
  <2>1. CASE v # tx.from
    <3>1. PICK q : q = job[v].item.rec
      OBVIOUS
    <3>2. Chain!Anchored(q) /\ q \in Record
      BY <1>8, <2>1, <3>1, AnchoringKnows DEF TurnedDown, Served, SecondsOnly, AnchorPCs
    <3> QED
      BY <1>8, <1>9, <3>1, <3>2
  <2>2. CASE v = tx.from
    <3>1. ~goes /\ tx.op = "anchor"
      BY <1>6, <1>7, <1>8, <2>2 DEF TurnedDown
    <3>2. Chain!Anchored(tx.rec)'
      BY <1>3, <3>1 DEF Chain!Anchored, Served, InGoodStanding
    <3> QED
      BY <1>7, <1>8, <2>2, <3>2
  <2> QED
    BY <2>1, <2>2
<1> QED
  BY <1>10, <1>11, <1>12, <1>13 DEF Served

(***************************************************************************)
(* The theorem                                                             *)
(***************************************************************************)
LEMMA InitServed == Init => Served
<1> SUFFICES ASSUME Init PROVE Served
  OBVIOUS
<1>1. InGoodStanding
  <2>1. IssuerKey \in Chain!AnyAddress
    BY DEF Chain!AnyAddress
  <2>2. issuers[IssuerKey] = [kind |-> "Institution", active |-> TRUE,
                              approvedAt |-> 1, suspendedAt |-> 0]
    BY <2>1 DEF Init
  <2>3. issuers[IssuerKey].kind = "Institution" /\ issuers[IssuerKey].active
    BY <2>2
  <2> QED
    BY <2>3 DEF Init, InGoodStanding, Chain!ActiveIssuer, Chain!Approved
<1>2. 1..Len(rows) = {}
  <2>1. rows = << >> /\ Len(rows) = 0
    BY EmptySeq DEF Init
  <2> QED
    BY <2>1
<1>3. \A v \in Worker : Informed(v) /\ NewerRow(v) /\ ~TurnedDown(v)
  BY IdleType DEF Init, Informed, TurnedDown, NewerRow, AnchorPCs
<1>4. \A r \in Record : ~Waits(r)
  BY DEF Init, Waits
<1> QED
  BY <1>1, <1>2, <1>3, <1>4 DEF Served, FewAttempts, SecondsOnly

LEMMA NextServed == StandingKept /\ Inv /\ Served /\ [Next]_vars => Served'
<1> SUFFICES ASSUME StandingKept, Inv, Served, [Next]_vars PROVE Served'
  OBVIOUS
<1>1. Web \subseteq Worker /\ Retriers \subseteq Worker /\ Sweepers \subseteq Worker
  BY DEF Worker
<1>2. CASE \E r \in Record : CreateOffer(r) \/ OfferLapses(r)
  BY <1>2, OffersServed
<1>3. ASSUME NEW w \in Web, Requests(w) \/ Answers(w) PROVE Served'
  BY <1>1, <1>3, RequestsServed, AcceptServed, EndsServed DEF Requests, Answers
<1>4. ASSUME NEW w \in Retriers, StartRetry(w) PROVE Served'
  BY <1>1, <1>4, StartRetryServed
<1>5. ASSUME NEW w \in Sweepers, SelectStale(w) \/ ExpireSelected(w) PROVE Served'
  BY <1>1, <1>5, RequestsServed, EndsServed
<1>6. ASSUME NEW w \in Worker, AnchorSteps(w) PROVE Served'
  BY <1>6, AnchorRefusedServed, RecordAttemptServed, SubmitAnchorServed, AnchorConfirmedServed,
     AnchorRejectedServed, MarkIssuedServed, MarkIssuedConflictsServed, ReconcileServed,
     ResubmitServed
  DEF AnchorSteps
<1>7. ASSUME NEW w \in Worker, RevokeSteps(w) PROVE Served'
  BY <1>7, RevokingServed, EndsServed DEF RevokeSteps
<1>8. ASSUME NEW w \in Worker, FaultSteps(w) PROVE Served'
  BY <1>8, LeftToRetryServed, AnchorPollFailsServed, EndsServed, RevokingServed, CrashServed
  DEF FaultSteps
<1>9. ~SuspendOrg /\ ~ReinstateOrg
  BY DEF SuspendOrg, ReinstateOrg, Spend, StandingKept, Served, InGoodStanding
<1>10. CASE UNCHANGED vars
  BY <1>10, NobodyMoves DEF vars, Waits
<1> QED
  BY <1>2, <1>3, <1>4, <1>5, <1>6, <1>7, <1>8, <1>9, <1>10, MineNextServed DEF Next

\* An open row is one the retry command selects.
LEMMA ServedForgetsNothing == StandingKept /\ Inv /\ Served => NothingForgotten
<1> SUFFICES ASSUME StandingKept, Inv, Served, NEW r \in Record, Waits(r)
             PROVE  TakenCareOf(r) \/ Chain!Anchored(r) \/ CutShort(r)
  BY DEF NothingForgotten
<1>1. CASE Open(r)
  <2>1. PICK k \in 1..Len(rows) : rows[k].rec = r /\ rows[k].state = "PENDING"
    BY <1>1 DEF Open, Latest
  <2>2. rows[k].attempts <= 2 /\ rows[k].attempts \in Nat
    <3>1. rows[k] \in Row
      BY ElementOfSeq DEF Inv, Types
    <3> QED
      BY <2>1, <3>1 DEF Served, FewAttempts, Row
  <2>3. Retryable(k)
    BY <2>1, <2>2, PipelineAssumption DEF Retryable, StandingKept
  <2> QED
    BY <2>1, <2>3 DEF TakenCareOf
<1>2. CASE Expected(r)
  BY <1>2 DEF Expected, ToBegin, CutShort, TakenCareOf, Bringing, Rec, AnchorPCs
<1> QED
  BY <1>1, <1>2 DEF Served, Accounted

\* "A chain failure must never lose a record ... anchor_pending finishes the
\* job later" (ledger/services.py): a consented record that waits for its anchor
\* has a worker bringing it there or a row the next retry run selects, or its hash
\* is on the chain - through outages, answers of the node that are lost, polls that
\* fail, timeouts and crashes, except the crash before its first row - however many
\* requests, retry runs and expiry commands are at work on it.
THEOREM PipelineForgetsNothing == StandingKept /\ Spec => []NothingForgotten
<1> SUFFICES ASSUME StandingKept PROVE Spec => []NothingForgotten
  OBVIOUS
<1>1. Inv /\ Served /\ [Next]_vars => Served'
  BY NextServed
<1>2. Inv /\ Served => NothingForgotten
  BY ServedForgetsNothing
<1> QED
  BY <1>1, <1>2, InitServed, PipelineInv, PTL DEF Spec
=============================================================================
