--------------------------- MODULE AnchorPipeline ---------------------------
(***************************************************************************)
(* Publication of an authority-pushed credential: offer, consent, anchor,  *)
(* retry, revocation and expiry, run by web requests and scheduled         *)
(* commands against one database and one chain.                            *)
(*   credentials/confirmations.py, ledger/services.py, ledger/client.py    *)
(*                                                                         *)
(* A step is what the database or the chain makes atomic: one committed    *)
(* transaction, one ORM save (requests run with ATOMIC_REQUESTS = False),  *)
(* one client call, one mined transaction.  What a handler read earlier is *)
(* kept in its job, as the Python objects keep it, and used as it was.     *)
(*                                                                         *)
(* The contract is CredentialRegistry itself, with one issuer key and a    *)
(* record's hash identified with the record (the payload holds its id, so  *)
(* hashes are distinct).  Chain time is not looked at here: it stands still.*)
(***************************************************************************)
EXTENDS Integers, Sequences, FiniteSets

CONSTANTS
    Record,         \* credential records
    Credential,     \* what a dedupe key identifies
    CredentialOf,   \* the dedupe key of each record
    Web,            \* concurrent web requests
    Retriers,       \* concurrent runs of manage.py anchor_pending
    Sweepers,       \* concurrent runs of manage.py expire_offers
    MaxAttempts,    \* MAX_ANCHOR_ATTEMPTS (5)
    NamesReverts,   \* the node names custom errors in the revert message
    Faults,         \* the kinds of fault that happen
    MaxFaults,      \* bound of the model: how many of them
    NoRecord, PlatformKey, IssuerKey, ZeroAddress, ZeroHash

Worker == Web \cup Retriers \cup Sweepers
NoOne  == "no one"      \* the sender of a transaction nobody waits for any more

ASSUME PipelineAssumption ==
    /\ CredentialOf \in [Record -> Credential]
    /\ NoRecord \notin Record
    /\ MaxAttempts \in Nat \ {0}
    /\ NamesReverts \in BOOLEAN
    /\ Faults \subseteq {"outage", "timeout", "crash", "suspension"}
    /\ MaxFaults \in Nat
    /\ ZeroHash \notin Record
    /\ ZeroAddress \notin {PlatformKey, IssuerKey}
    /\ NoOne \notin Worker

VARIABLES
    status,         \* CredentialRecord.status
    confirmation,   \* the CredentialConfirmation row: none, open, confirmed, declined
    lapsed,         \* has offer_expires_at / expires_at passed?
    rows,           \* LedgerAnchor rows, oldest first
    revocation,     \* its RevocationEvents: none, recorded, one confirmed on chain
    orgApproved,    \* Organization.can_issue
    registrar, pendingRegistrar, issuers, anchors, reasons, anchorIndex,
    issuerIndex, now, \* the contract's storage and clock
    mempool,        \* the issuer key's submitted transactions, in nonce order
    job,            \* what each request or command is in the middle of
    left            \* how many faults may still happen

db     == <<status, confirmation, lapsed, rows, revocation, orgApproved>>
chain  == <<registrar, pendingRegistrar, issuers, anchors, reasons, anchorIndex,
            issuerIndex, now>>
vars   == <<status, confirmation, lapsed, rows, revocation, orgApproved, registrar,
            pendingRegistrar, issuers, anchors, reasons, anchorIndex, issuerIndex, now,
            mempool, job, left>>

Chain == INSTANCE CredentialRegistry WITH
    Account <- {PlatformKey, IssuerKey}, Hash <- Record, Reason <- {"reason"},
    Deployer <- PlatformKey, MaxBatch <- 1, MaxTime <- 1

-----------------------------------------------------------------------------
(* Data                                                                     *)

Status == {"DRAFT", "OFFERED", "DECLINED", "EXPIRED", "PENDING_ANCHOR", "ISSUED", "REVOKED"}

\* Mutant: the partial index covers a record only once it is anchored.
Live_NotWhilePending == {"OFFERED", "ISSUED", "REVOKED"}

\* LIVE_STATUSES
Live   == {"OFFERED", "PENDING_ANCHOR", "ISSUED", "REVOKED"}
Row    == [rec : Record, state : {"PENDING", "CONFIRMED", "FAILED"}, attempts : Nat]

\* What a handler holds in memory of the record it works on: the status and
\* the issuer's standing when they were loaded, and, in a retry run, the
\* LedgerAnchor row it came from (0 in a request) with its attempts.
Item    == [rec : Record \cup {NoRecord}, seen : Status, mayIssue : BOOLEAN,
            row : Nat, attempts : Nat]
NoItem  == [rec |-> NoRecord, seen |-> "DRAFT", mayIssue |-> FALSE, row |-> 0, attempts |-> 0]

PC == {"idle", "answering", "anchor", "send", "wait", "mark", "reconcile", "verify",
       "revoke", "revokeWait", "revokeSave", "expire"}

Idle == [pc |-> "idle", item |-> NoItem, row |-> 0, receipt |-> "none",
         todo |-> {}, stale |-> {}]

Tx    == [op : {"anchor", "revoke"}, rec : Record, from : Worker \cup {NoOne}]

Rec(w) == job[w].item.rec

\* The partial unique index on dedupe_key: a row may enter a live status only
\* while no other live row has its key.
KeyFree(r) ==
    \A q \in Record \ {r} : CredentialOf[q] = CredentialOf[r] => status[q] \notin Live
MaySetLive(r) == status[r] \in Live \/ KeyFree(r)

SetRow(i, state, attempts) ==
    [rows EXCEPT ![i].state = state, ![i].attempts = attempts]
ConfirmRow(i) == [rows EXCEPT ![i].state = "CONFIRMED"]

Goto(w, pc) == job' = [job EXCEPT ![w].pc = pc]

\* A request is over; a retry run goes on with the oldest row it selected.
Continue(w, todo) ==
    \/ todo = {} /\ job' = [job EXCEPT ![w] = Idle]
    \/ \E item \in todo :
        /\ \A other \in todo : item.row <= other.row
        /\ job' = [job EXCEPT ![w] =
               [Idle EXCEPT !.pc = "verify", !.item = item, !.todo = todo \ {item}]]
Done(w) == Continue(w, job[w].todo)

\* An exception out of anchor_record: swallowed by _anchor in a request, and
\* in a retry run the row it came from is written off, from its copy in memory.
Raise(w, newRows) ==
    LET i == job[w].item IN
    /\ rows' = IF i.row = 0 THEN newRows
               ELSE [newRows EXCEPT ![i.row].state = "FAILED", ![i.row].attempts = i.attempts + 1]
    /\ Done(w)

Spend(fault) == fault \in Faults /\ left > 0 /\ left' = left - 1

Init ==
    /\ status = [r \in Record |-> "DRAFT"]
    /\ confirmation = [r \in Record |-> "none"]
    /\ lapsed = [r \in Record |-> FALSE]
    /\ rows = << >>
    /\ revocation = [r \in Record |-> "none"]
    /\ orgApproved = TRUE
    /\ registrar = PlatformKey
    /\ pendingRegistrar = ZeroAddress
    /\ now = 1
    /\ issuerIndex = <<IssuerKey>>
    /\ issuers = [a \in Chain!AnyAddress |->
           IF a = IssuerKey
           THEN [kind |-> "Institution", active |-> TRUE, approvedAt |-> 1, suspendedAt |-> 0]
           ELSE Chain!NoIssuer]
    /\ anchors = [h \in Chain!AnyHash |-> Chain!NoAnchor]
    /\ reasons = [h \in Chain!AnyHash |-> ""]
    /\ anchorIndex = << >>
    /\ mempool = << >>
    /\ job = [w \in Worker |-> Idle]
    /\ left = MaxFaults

-----------------------------------------------------------------------------
(* The consent gate                                                         *)

\* create_offer, behind CanIssueCredentials: one transaction freezes the
\* draft, takes the dedupe key and writes the confirmation row.
CreateOffer(r) ==
    /\ orgApproved
    /\ status[r] = "DRAFT"
    /\ KeyFree(r)
    /\ status' = [status EXCEPT ![r] = "OFFERED"]
    /\ confirmation' = [confirmation EXCEPT ![r] = "open"]
    /\ UNCHANGED <<lapsed, rows, revocation, orgApproved, chain, mempool, job, left>>

\* The clock passes the offer's expiry.
OfferLapses(r) ==
    /\ confirmation[r] # "none" /\ ~lapsed[r]
    /\ lapsed' = [lapsed EXCEPT ![r] = TRUE]
    /\ UNCHANGED <<status, confirmation, rows, revocation, orgApproved, chain, mempool, job, left>>

Locked(r) == \E w \in Worker : job[w].pc = "answering" /\ Rec(w) = r

\* Mutant: select_for_update is dropped (as SQLite drops it).
LockOpenConfirmation_NoLock(w, r) ==
    /\ job[w].pc = "idle"
    /\ confirmation[r] = "open" /\ ~lapsed[r]
    /\ job' = [job EXCEPT ![w].pc = "answering",
           ![w].item = [NoItem EXCEPT !.rec = r, !.seen = "PENDING_ANCHOR", !.mayIssue = orgApproved]]
    /\ UNCHANGED <<db, chain, mempool, left>>

\* _lock_open_confirmation: the row lock is held until the transaction ends;
\* the clock is read here and not again.
LockOpenConfirmation(w, r) ==
    /\ job[w].pc = "idle"
    /\ confirmation[r] = "open" /\ ~lapsed[r]
    /\ ~Locked(r)
    /\ job' = [job EXCEPT ![w].pc = "answering",
           ![w].item = [NoItem EXCEPT !.rec = r, !.seen = "PENDING_ANCHOR", !.mayIssue = orgApproved]]
    /\ UNCHANGED <<db, chain, mempool, left>>

\* Mutant: anchor_record runs inside the transaction, not on its commit.
Accept_AnchorsInside(w) ==
    /\ job[w].pc = "answering"
    /\ MaySetLive(Rec(w))
    /\ status' = [status EXCEPT ![Rec(w)] = "PENDING_ANCHOR"]
    /\ Goto(w, "anchor")
    /\ UNCHANGED <<confirmation, lapsed, rows, revocation, orgApproved, chain, mempool, left>>

\* _accept commits both rows; its on_commit hook then runs anchor_record.
Accept(w) ==
    /\ job[w].pc = "answering"
    /\ MaySetLive(Rec(w))
    /\ confirmation' = [confirmation EXCEPT ![Rec(w)] = "confirmed"]
    /\ status' = [status EXCEPT ![Rec(w)] = "PENDING_ANCHOR"]
    /\ Goto(w, "anchor")
    /\ UNCHANGED <<lapsed, rows, revocation, orgApproved, chain, mempool, left>>

\* _accept of a lapsed offer whose key was taken meanwhile: IntegrityError,
\* the transaction rolls back.
AcceptConflicts(w) ==
    /\ job[w].pc = "answering"
    /\ ~MaySetLive(Rec(w))
    /\ Done(w)
    /\ UNCHANGED <<db, chain, mempool, left>>

\* Mutant: an offer declined takes the status of a claim rejected.
Decline_AsRejected(w) ==
    /\ job[w].pc = "answering"
    /\ confirmation' = [confirmation EXCEPT ![Rec(w)] = "declined"]
    /\ status' = [status EXCEPT ![Rec(w)] = "REJECTED"]
    /\ Done(w)
    /\ UNCHANGED <<lapsed, rows, revocation, orgApproved, chain, mempool, left>>

Decline(w) ==
    /\ job[w].pc = "answering"
    /\ confirmation' = [confirmation EXCEPT ![Rec(w)] = "declined"]
    /\ status' = [status EXCEPT ![Rec(w)] = "DECLINED"]
    /\ Done(w)
    /\ UNCHANGED <<lapsed, rows, revocation, orgApproved, chain, mempool, left>>

-----------------------------------------------------------------------------
(* anchor_record: from the on_commit hook of an answer or from a retry run  *)

\* IssuerNotApproved, or the ValueError for a status that cannot be anchored.
\* (The early return of an issued record's confirmed row has no caller that
\* reaches it: a retry run asks the chain first, and nothing leaves the chain.)
AnchorRefused(w) ==
    LET i == job[w].item IN
    /\ job[w].pc = "anchor"
    /\ ~i.mayIssue \/ i.seen # "PENDING_ANCHOR"
    /\ Raise(w, rows)
    /\ UNCHANGED <<status, confirmation, lapsed, revocation, orgApproved, chain, mempool, left>>

\* Mutant: the chain first; the row is to be written from the receipt.
RecordAttempt_ChainFirst(w) ==
    LET i == job[w].item IN
    /\ job[w].pc = "anchor"
    /\ i.mayIssue /\ i.seen = "PENDING_ANCHOR"
    /\ Goto(w, "send")
    /\ UNCHANGED <<db, chain, mempool, left>>

\* The LedgerAnchor row is committed before the chain is called.
RecordAttempt(w) ==
    LET i == job[w].item IN
    /\ job[w].pc = "anchor"
    /\ i.mayIssue /\ i.seen = "PENDING_ANCHOR"
    /\ rows' = Append(rows, [rec |-> i.rec, state |-> "PENDING", attempts |-> 1])
    /\ job' = [job EXCEPT ![w].pc = "send", ![w].row = Len(rows) + 1]
    /\ UNCHANGED <<status, confirmation, lapsed, revocation, orgApproved, chain, mempool, left>>

\* client._send: gas estimation accepts the call on the current state and the
\* signed transaction goes to the mempool behind the key's earlier ones.
SubmitAnchor(w) ==
    /\ job[w].pc = "send"
    /\ Chain!ActiveIssuer(IssuerKey) /\ ~Chain!Anchored(Rec(w))
    /\ mempool' = Append(mempool, [op |-> "anchor", rec |-> Rec(w), from |-> w])
    /\ Goto(w, "wait")
    /\ UNCHANGED <<db, chain, left>>

\* _handle_rejection on the message of AlreadyAnchored: an earlier attempt
\* won, the new row is confirmed.
AnchorAlreadyOnChain(w) ==
    /\ job[w].pc = "send"
    /\ Chain!ActiveIssuer(IssuerKey) /\ Chain!Anchored(Rec(w)) /\ NamesReverts
    /\ rows' = ConfirmRow(job[w].row)
    /\ Goto(w, "mark")
    /\ UNCHANGED <<status, confirmation, lapsed, revocation, orgApproved, chain, mempool, left>>

\* _handle_rejection on any other revert found by gas estimation: the attempt
\* is written off and LedgerUnavailable (not LedgerUnavailableError) is raised.
AnchorRejected(w) ==
    /\ job[w].pc = "send"
    /\ \/ ~Chain!ActiveIssuer(IssuerKey)
       \/ Chain!Anchored(Rec(w)) /\ ~NamesReverts
    /\ Raise(w, SetRow(job[w].row, "FAILED", 2))
    /\ UNCHANGED <<status, confirmation, lapsed, revocation, orgApproved, chain, mempool, left>>

\* Mutant: an outage is written off as fatal, so no retry run sees the row.
AnchorOutage_Fatal(w) ==
    /\ job[w].pc = "send"
    /\ Spend("outage")
    /\ rows' = SetRow(job[w].row, "FAILED", 2)
    /\ Done(w)
    /\ UNCHANGED <<status, confirmation, lapsed, revocation, orgApproved, chain, mempool>>

\* A submission that fails: the node never had the transaction, or its answer to
\* send_raw_transaction is lost and it has it although nobody waits for it.
SubmissionFails(w, op, accepts) ==
    \/ UNCHANGED mempool
    \/ accepts /\ mempool' = Append(mempool, [op |-> op, rec |-> Rec(w), from |-> NoOne])

\* LedgerUnavailableError while submitting: the row stays PENDING.
AnchorOutage(w) ==
    /\ job[w].pc = "send"
    /\ Spend("outage")
    /\ SubmissionFails(w, "anchor", Chain!ActiveIssuer(IssuerKey) /\ ~Chain!Anchored(Rec(w)))
    /\ rows' = SetRow(job[w].row, "PENDING", 2)
    /\ Done(w)
    /\ UNCHANGED <<status, confirmation, lapsed, revocation, orgApproved, chain>>

\* Mutant: receipt.status is not looked at.
AnchorReceipt_AnyStatus(w) ==
    /\ job[w].pc = "wait" /\ job[w].receipt # "none"
    /\ rows' = ConfirmRow(job[w].row)
    /\ Goto(w, "mark")
    /\ UNCHANGED <<status, confirmation, lapsed, revocation, orgApproved, chain, mempool, left>>

AnchorReceipt(w) ==
    /\ job[w].pc = "wait" /\ job[w].receipt = "ok"
    /\ rows' = ConfirmRow(job[w].row)
    /\ Goto(w, "mark")
    /\ UNCHANGED <<status, confirmation, lapsed, revocation, orgApproved, chain, mempool, left>>

\* receipt.status == 0: the message is not the one _handle_rejection looks for.
AnchorReverted(w) ==
    /\ job[w].pc = "wait" /\ job[w].receipt = "reverted"
    /\ Raise(w, SetRow(job[w].row, "FAILED", 2))
    /\ UNCHANGED <<status, confirmation, lapsed, revocation, orgApproved, chain, mempool, left>>

Abandon(w) ==
    [i \in 1..Len(mempool) |->
        IF mempool[i].from = w THEN [mempool[i] EXCEPT !.from = NoOne] ELSE mempool[i]]

\* Mutant: submitted is taken for confirmed.
AnchorTimeout_Confirmed(w) ==
    /\ job[w].pc = "wait" /\ job[w].receipt = "none"
    /\ Spend("timeout")
    /\ mempool' = Abandon(w)
    /\ Goto(w, "mark")
    /\ UNCHANGED <<db, chain>>

\* TimeExhausted: submitted, unconfirmed, and it may still be mined.
AnchorTimeout(w) ==
    /\ job[w].pc = "wait" /\ job[w].receipt = "none"
    /\ Spend("timeout")
    /\ mempool' = Abandon(w)
    /\ rows' = SetRow(job[w].row, "PENDING", 2)
    /\ Done(w)
    /\ UNCHANGED <<status, confirmation, lapsed, revocation, orgApproved, chain>>

\* Mutant: a catch-all writes the attempt off.
AnchorPollFails_Fatal(w) ==
    /\ job[w].pc = "wait"
    /\ Spend("outage")
    /\ mempool' = Abandon(w)
    /\ Raise(w, SetRow(job[w].row, "FAILED", 2))
    /\ UNCHANGED <<status, confirmation, lapsed, revocation, orgApproved, chain>>

\* Any other failure while it polls for the receipt is not caught by _send, nor
\* by anchor_record: the new row stays as it was written.
AnchorPollFails(w) ==
    /\ job[w].pc = "wait"
    /\ Spend("outage")
    /\ mempool' = Abandon(w)
    /\ Raise(w, rows)
    /\ UNCHANGED <<status, confirmation, lapsed, revocation, orgApproved, chain>>

\* record.mark_issued() saves the status whatever it has become meanwhile.
MarkIssued(w) ==
    /\ job[w].pc \in {"mark", "reconcile"}
    /\ MaySetLive(Rec(w))
    /\ status' = [status EXCEPT ![Rec(w)] = "ISSUED"]
    /\ Done(w)
    /\ UNCHANGED <<confirmation, lapsed, rows, revocation, orgApproved, chain, mempool, left>>

\* ... unless the unique index refuses it: caught like any other exception of
\* anchor_record, but not on the reconcile path, where it ends the whole run.
MarkIssuedConflicts(w) ==
    /\ job[w].pc \in {"mark", "reconcile"}
    /\ ~MaySetLive(Rec(w))
    /\ IF job[w].pc = "mark" THEN Raise(w, rows)
       ELSE job' = [job EXCEPT ![w] = Idle] /\ rows' = rows
    /\ UNCHANGED <<status, confirmation, lapsed, revocation, orgApproved, chain, mempool, left>>

-----------------------------------------------------------------------------
(* retry_pending_anchors                                                    *)

Snapshot(i) == [rec |-> rows[i].rec, seen |-> status[rows[i].rec], mayIssue |-> orgApproved,
                row |-> i, attempts |-> rows[i].attempts]

Retryable(i) == rows[i].state = "PENDING" /\ rows[i].attempts < MaxAttempts

Backlog == {Snapshot(i) : i \in {k \in 1..Len(rows) : Retryable(k)}}

\* The queryset is evaluated once, records and issuers joined in.
StartRetry(w) ==
    /\ job[w].pc = "idle"
    /\ Backlog # {}
    /\ Continue(w, Backlog)
    /\ UNCHANGED <<db, chain, mempool, left>>

VerifyOutage(w) ==
    /\ job[w].pc = "verify"
    /\ Spend("outage")
    /\ Done(w)
    /\ UNCHANGED <<db, chain, mempool>>

\* An earlier transaction landed: the row is confirmed, and the record marked
\* if it was waiting when the run started.
Reconcile(w) ==
    /\ job[w].pc = "verify"
    /\ Chain!Anchored(Rec(w))
    /\ rows' = ConfirmRow(job[w].item.row)
    /\ IF job[w].item.seen = "PENDING_ANCHOR" THEN Goto(w, "reconcile") ELSE Done(w)
    /\ UNCHANGED <<status, confirmation, lapsed, revocation, orgApproved, chain, mempool, left>>

Resubmit(w) ==
    /\ job[w].pc = "verify"
    /\ ~Chain!Anchored(Rec(w))
    /\ Goto(w, "anchor")
    /\ UNCHANGED <<db, chain, mempool, left>>

-----------------------------------------------------------------------------
(* revoke_record                                                            *)

\* Mutant: the event is left to be written with the receipt.
BeginRevoke_NoEvent(w, r) ==
    /\ job[w].pc = "idle"
    /\ orgApproved
    /\ status[r] \in {"ISSUED", "PENDING_ANCHOR"}
    /\ job' = [job EXCEPT ![w].pc = "revoke", ![w].item = [NoItem EXCEPT !.rec = r]]
    /\ UNCHANGED <<db, chain, mempool, left>>

\* The status check and the RevocationEvent row; the view lets only an
\* organisation in good standing come here.
BeginRevoke(w, r) ==
    /\ job[w].pc = "idle"
    /\ orgApproved
    /\ status[r] \in {"ISSUED", "PENDING_ANCHOR"}
    /\ revocation' = [revocation EXCEPT ![r] = IF @ = "none" THEN "recorded" ELSE @]
    /\ job' = [job EXCEPT ![w].pc = "revoke", ![w].item = [NoItem EXCEPT !.rec = r]]
    /\ UNCHANGED <<status, confirmation, lapsed, rows, orgApproved, chain, mempool, left>>

CanRevoke(r) == Chain!Anchored(r) /\ ~Chain!Revoked(r)

SubmitRevoke(w) ==
    /\ job[w].pc = "revoke"
    /\ CanRevoke(Rec(w))
    /\ mempool' = Append(mempool, [op |-> "revoke", rec |-> Rec(w), from |-> w])
    /\ Goto(w, "revokeWait")
    /\ UNCHANGED <<db, chain, left>>

\* A revert - found by gas estimation or in the receipt - leaves
\* revoke_record as LedgerRejectedError: the event stays, the status does too.
RevokeRejected(w) ==
    /\ \/ job[w].pc = "revoke" /\ ~CanRevoke(Rec(w))
       \/ job[w].pc = "revokeWait" /\ job[w].receipt = "reverted"
    /\ Done(w)
    /\ UNCHANGED <<db, chain, mempool, left>>

RevokeOutage(w) ==
    /\ job[w].pc = "revoke"
    /\ Spend("outage")
    /\ SubmissionFails(w, "revoke", CanRevoke(Rec(w)))
    /\ Goto(w, "revokeSave")
    /\ UNCHANGED <<db, chain>>

RevokeReceipt(w) ==
    /\ job[w].pc = "revokeWait" /\ job[w].receipt = "ok"
    /\ revocation' = [revocation EXCEPT ![Rec(w)] = "confirmed"]
    /\ Goto(w, "revokeSave")
    /\ UNCHANGED <<status, confirmation, lapsed, rows, orgApproved, chain, mempool, left>>

RevokeTimeout(w) ==
    /\ job[w].pc = "revokeWait" /\ job[w].receipt = "none"
    /\ Spend("timeout")
    /\ mempool' = Abandon(w)
    /\ Goto(w, "revokeSave")
    /\ UNCHANGED <<db, chain>>

\* The poll's other failures leave revoke_record as they are: the event stays,
\* the status does too, and the transaction may still be mined.
RevokePollFails(w) ==
    /\ job[w].pc = "revokeWait"
    /\ Spend("outage")
    /\ mempool' = Abandon(w)
    /\ Done(w)
    /\ UNCHANGED <<db, chain>>

\* status = REVOKED, or the IntegrityError of a key taken meanwhile.
RevokeSave(w) ==
    /\ job[w].pc = "revokeSave"
    /\ status' = IF MaySetLive(Rec(w)) THEN [status EXCEPT ![Rec(w)] = "REVOKED"] ELSE status
    /\ Done(w)
    /\ UNCHANGED <<confirmation, lapsed, rows, revocation, orgApproved, chain, mempool, left>>

-----------------------------------------------------------------------------
(* expire_stale_offers: a SELECT of the keys, then an UPDATE by key         *)

Stale == {r \in Record : status[r] = "OFFERED" /\ lapsed[r]}

SelectStale(w) ==
    /\ job[w].pc = "idle"
    /\ Stale # {}
    /\ job' = [job EXCEPT ![w].pc = "expire", ![w].stale = Stale]
    /\ UNCHANGED <<db, chain, mempool, left>>

ExpireSelected(w) ==
    /\ job[w].pc = "expire"
    /\ status' = [r \in Record |-> IF r \in job[w].stale THEN "EXPIRED" ELSE status[r]]
    /\ Done(w)
    /\ UNCHANGED <<confirmation, lapsed, rows, revocation, orgApproved, chain, mempool, left>>

-----------------------------------------------------------------------------
(* The chain, the issuer's standing, and crashes                            *)

\* The next transaction of the issuer key is mined; its call may revert.
MineNext ==
    /\ mempool # << >>
    /\ LET tx == Head(mempool)
           goes == IF tx.op = "anchor"
                   THEN Chain!ActiveIssuer(IssuerKey) /\ Chain!Fresh(tx.rec)
                   ELSE CanRevoke(tx.rec)
       IN
       /\ \/ ~goes /\ UNCHANGED chain
          \/ goes /\ tx.op = "anchor" /\ Chain!Anchor(IssuerKey, tx.rec)
          \/ goes /\ tx.op = "revoke" /\ Chain!Revoke(IssuerKey, tx.rec, "reason")
       /\ job' = [w \in Worker |->
              IF w = tx.from
              THEN [job[w] EXCEPT !.receipt = IF goes THEN "ok" ELSE "reverted"]
              ELSE job[w]]
    /\ mempool' = Tail(mempool)
    /\ UNCHANGED <<db, left>>

\* suspend_organization: the chain first; if the chain is down, only the row.
SuspendOrg ==
    /\ orgApproved
    /\ \/ Spend("suspension") /\ Chain!SuspendIssuer(PlatformKey, IssuerKey, "reason")
       \/ Spend("suspension") /\ UNCHANGED chain
    /\ orgApproved' = FALSE
    /\ UNCHANGED <<status, confirmation, lapsed, rows, revocation, mempool, job>>

\* reinstate_organization: nothing is saved unless the chain call succeeded.
ReinstateOrg ==
    /\ ~orgApproved
    /\ Chain!ReinstateIssuer(PlatformKey, IssuerKey)
    /\ orgApproved' = TRUE
    /\ UNCHANGED <<status, confirmation, lapsed, rows, revocation, mempool, job, left>>

\* A process dies: an open transaction rolls back, a submitted one lives on.
Crash(w) ==
    /\ job[w].pc # "idle"
    /\ Spend("crash")
    /\ mempool' = Abandon(w)
    /\ job' = [job EXCEPT ![w] = Idle]
    /\ UNCHANGED <<db, chain>>

-----------------------------------------------------------------------------
AnchorSteps(w) ==
    \/ AnchorRefused(w) \/ RecordAttempt(w) \/ SubmitAnchor(w)
    \/ AnchorAlreadyOnChain(w) \/ AnchorRejected(w) \/ AnchorReceipt(w) \/ AnchorReverted(w)
    \/ MarkIssued(w) \/ MarkIssuedConflicts(w) \/ Reconcile(w) \/ Resubmit(w)

RevokeSteps(w) == SubmitRevoke(w) \/ RevokeRejected(w) \/ RevokeReceipt(w) \/ RevokeSave(w)

FaultSteps(w) ==
    \/ AnchorOutage(w) \/ AnchorTimeout(w) \/ AnchorPollFails(w) \/ VerifyOutage(w)
    \/ RevokeOutage(w) \/ RevokeTimeout(w) \/ RevokePollFails(w) \/ Crash(w)

Requests(w) == \E r \in Record : LockOpenConfirmation(w, r) \/ BeginRevoke(w, r)

Answers(w) == Accept(w) \/ AcceptConflicts(w) \/ Decline(w)

Next ==
    \/ \E r \in Record : CreateOffer(r) \/ OfferLapses(r)
    \/ \E w \in Web : Requests(w) \/ Answers(w)
    \/ \E w \in Retriers : StartRetry(w)
    \/ \E w \in Sweepers : SelectStale(w) \/ ExpireSelected(w)
    \/ \E w \in Worker : AnchorSteps(w) \/ RevokeSteps(w) \/ FaultSteps(w)
    \/ MineNext
    \/ SuspendOrg \/ ReinstateOrg

Spec == Init /\ [][Next]_vars

\* A live process goes on with what it is doing; anchor_pending is run for as
\* long as it has work (cron); a submitted transaction is mined; the registrar
\* lifts a suspension.  Users owe nothing: no fairness on offers and answers
\* begun, revocations and the expiry command; an answer begun is committed.
Fairness ==
    /\ \A w \in Worker : WF_vars(AnchorSteps(w)) /\ WF_vars(RevokeSteps(w))
    /\ \A w \in Web : WF_vars(Answers(w))
    /\ \A w \in Sweepers : WF_vars(ExpireSelected(w))
    /\ \A w \in Retriers : WF_vars(StartRetry(w))
    /\ WF_vars(MineNext)
    /\ WF_vars(ReinstateOrg)

FairSpec == Spec /\ Fairness

-----------------------------------------------------------------------------
TypeOK ==
    /\ status \in [Record -> Status]
    /\ confirmation \in [Record -> {"none", "open", "confirmed", "declined"}]
    /\ lapsed \in [Record -> BOOLEAN]
    /\ rows \in Seq(Row)
    /\ revocation \in [Record -> {"none", "recorded", "confirmed"}]
    /\ orgApproved \in BOOLEAN
    /\ mempool \in Seq(Tx)
    /\ \A w \in Worker :
        /\ job[w].pc \in PC
        /\ job[w].item \in Item
        /\ job[w].row \in 0..Len(rows)
        /\ job[w].receipt \in {"none", "ok", "reverted"}
        /\ job[w].todo \subseteq Item
        /\ job[w].stale \subseteq Record

\* The consent gate: a hash is on the chain, or on its way to it, only for a
\* record whose holder has confirmed - through retries, crashes and expiry.
ConsentBeforeChain ==
    \A r \in Record :
        \/ Chain!Anchored(r)
        \/ \E i \in 1..Len(mempool) : mempool[i].rec = r
        => confirmation[r] = "confirmed"

\* The governing rule of ledger/services.py: database first, chain second. Of
\* what is mined or submitted the database tells already: of an anchor by its
\* LedgerAnchor row, of a revocation by the event that says why.
DatabaseFirst ==
    \A r \in Record :
        /\ \/ Chain!Anchored(r)
           \/ \E i \in 1..Len(mempool) : mempool[i].rec = r
           => \E i \in 1..Len(rows) : rows[i].rec = r
        /\ \/ Chain!Revoked(r)
           \/ \E i \in 1..Len(mempool) : mempool[i].op = "revoke" /\ mempool[i].rec = r
           => revocation[r] # "none"

\* The database never claims more than the chain holds: an ISSUED record and a
\* CONFIRMED row are anchored, a confirmed revocation is on the chain.
NoFalseClaim ==
    /\ \A r \in Record : status[r] = "ISSUED" => Chain!Anchored(r)
    /\ \A i \in 1..Len(rows) : rows[i].state = "CONFIRMED" => Chain!Anchored(rows[i].rec)
    /\ \A r \in Record : revocation[r] = "confirmed" => Chain!Revoked(r)

\* One graduate, one degree: two records with one dedupe key are both
\* anchored and unrevoked only if the expiry command, racing with an answer,
\* took one of them out of the live statuses while it was being anchored.
OneAnchorPerCredential ==
    \A q, r \in Record :
        /\ q # r /\ CredentialOf[q] = CredentialOf[r]
        /\ Chain!Anchored(q) /\ ~Chain!Revoked(q)
        /\ Chain!Anchored(r) /\ ~Chain!Revoked(r)
        => "EXPIRED" \in {status[q], status[r]}

\* The retry command finds every record it is needed for.  A record waiting for
\* its anchor has a worker bringing it there or a row the next retry run selects,
\* through outages, lost answers, timeouts and crashes; it drops out of sight only
\* when its hash is on the chain, or when the process died between the consent
\* and the first row.
AnchorPCs      == {"anchor", "send", "wait", "mark", "reconcile", "verify"}
Waits(r)       == status[r] = "PENDING_ANCHOR"
Bringing(w, r) == Rec(w) = r /\ job[w].pc \in AnchorPCs \ {"verify"}
HasRow(r)      == \E k \in 1..Len(rows) : rows[k].rec = r
TakenCareOf(r) ==
    \/ \E w \in Worker : Bringing(w, r)
    \/ \E k \in 1..Len(rows) : rows[k].rec = r /\ Retryable(k)
CutShort(r)    == "crash" \in Faults /\ ~HasRow(r)
NothingForgotten ==
    \A r \in Record : Waits(r) => TakenCareOf(r) \/ Chain!Anchored(r) \/ CutShort(r)

\* The holder's answer is given once: two clicks, or a click and the
\* dashboard, never turn one answer into the other or take it back.
AnswerIsFinal ==
    [][\A r \in Record : confirmation[r] \in {"confirmed", "declined"} =>
           confirmation'[r] = confirmation[r]]_vars

\* "A chain failure must never lose a record ... anchor_pending finishes the job
\* later" (ledger/services.py), as far as the code keeps it: once an attempt has a
\* row, every attempt is finally settled and the hash is on the chain, or the
\* record was revoked meanwhile - through lost answers, timeouts and crashes.
Settled(r) == \A k \in 1..Len(rows) : rows[k].rec = r => rows[k].state # "PENDING"
AttemptsSettle ==
    \A r \in Record : HasRow(r) ~> Settled(r) /\ (Chain!Anchored(r) \/ status[r] = "REVOKED")

\* The whole pipeline implements ConsentedPublication, whatever interleaves
\* and fails: every step asks, answers, publishes, orders, withdraws, reports
\* or stops reporting one record as that specification allows, or none.
Promise == INSTANCE ConsentedPublication WITH
    answer   <- confirmation,
    public   <- [r \in Record |-> IF Chain!Revoked(r) THEN "revoked"
                                  ELSE IF Chain!Anchored(r) THEN "anchored" ELSE "absent"],
    ordered  <- {r \in Record : revocation[r] # "none"},
    reported <- {r \in Record : status[r] = "ISSUED"}

PublishesByConsent == Promise!Spec

-----------------------------------------------------------------------------
(* What the documentation says and the code does not do (violation runs)    *)

\* "the record stays PENDING_ANCHOR and the retry command finishes the job": every
\* consented record is issued, unless it is revoked.
ConsentIsAnchored ==
    \A r \in Record :
        confirmation[r] = "confirmed" ~> status[r] \in {"ISSUED", "REVOKED"}

\* expire_stale_offers: "Lapse offers nobody answered."
OnlyUnansweredLapse ==
    [][\A r \in Record : status'[r] = "EXPIRED" /\ status[r] # "EXPIRED" =>
           confirmation[r] = "open"]_vars

\* revoke_record: "The off-chain revocation stands".
RevocationStands ==
    [][\A r \in Record : status[r] = "REVOKED" => status'[r] = "REVOKED"]_vars

\* revoke_record: "Only the on-chain flag lags, and the retry command
\* reconciles it."
RevocationReachesChain ==
    \A r \in Record : status[r] = "REVOKED" /\ Chain!Anchored(r) ~> Chain!Revoked(r)
=============================================================================
