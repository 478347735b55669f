------------------------- MODULE CredentialRegistry -------------------------
(***************************************************************************)
(* The on-chain registry, src/contracts/contracts/CredentialRegistry.sol.  *)
(*                                                                         *)
(* One action per external function that writes storage.  A call whose     *)
(* `require` chain fails reverts and changes nothing, so it is a step      *)
(* that is not taken.  The EVM executes calls one at a time: an action is  *)
(* a whole call.                                                           *)
(*                                                                         *)
(* Abstracted: issuer names (their non-emptiness is kept as a guard),      *)
(* events, and the view functions, which are the operators the other       *)
(* modules read (Anchored, ActiveIssuer, ...).                             *)
(***************************************************************************)
EXTENDS Integers, Sequences, FiniteSets

CONSTANTS
    Account,        \* addresses that can send a transaction
    ZeroAddress,    \* address(0): a legal argument, never a sender
    Hash,           \* the non-zero record hashes
    ZeroHash,       \* bytes32(0)
    Reason,         \* non-empty texts (reasons and legal names)
    Deployer,       \* the constructor's initialRegistrar
    MaxBatch,       \* MAX_BATCH (200 in the contract)
    MaxTime         \* bound of the model: the last block timestamp reached

AnyAddress == Account \cup {ZeroAddress}
AnyHash    == Hash \cup {ZeroHash}
AnyText    == Reason \cup {""}

ASSUME RegistryAssumption ==
    /\ ZeroAddress \notin Account
    /\ ZeroHash \notin Hash
    /\ "" \notin Reason
    /\ Deployer \in Account
    /\ MaxBatch \in Nat \ {0}
    /\ MaxTime \in Nat \ {0}

VARIABLES
    registrar,
    pendingRegistrar,
    issuers,        \* _issuers
    anchors,        \* _anchors
    reasons,        \* _revocationReasons
    anchorIndex,    \* _anchorIndex
    issuerIndex,    \* _issuerIndex
    now             \* block.timestamp

governance == <<registrar, pendingRegistrar>>
ledger     == <<anchors, reasons, anchorIndex>>
vars == <<registrar, pendingRegistrar, issuers, anchors, reasons, anchorIndex,
          issuerIndex, now>>

-----------------------------------------------------------------------------
(* Storage. A mapping is total and starts zeroed.                           *)

Time == 1..MaxTime
Kind == {"None", "Institution", "Employer"}

Issuer == [kind : Kind, active : BOOLEAN,
           approvedAt : {0} \cup Time, suspendedAt : {0} \cup Time]

AnchorEntry == [issuer : AnyAddress, issuedAt : {0} \cup Time,
                revokedAt : {0} \cup Time, supersededBy : AnyHash]

NoIssuer == [kind |-> "None", active |-> FALSE, approvedAt |-> 0, suspendedAt |-> 0]

NoAnchor == [issuer |-> ZeroAddress, issuedAt |-> 0, revokedAt |-> 0,
             supersededBy |-> ZeroHash]

Approved(a)     == issuers[a].kind # "None"
ActiveIssuer(a) == Approved(a) /\ issuers[a].active
Anchored(h)     == anchors[h].issuedAt # 0
Revoked(h)      == anchors[h].revokedAt # 0
Superseded(h)   == anchors[h].supersededBy # ZeroHash
Fresh(h)        == h # ZeroHash /\ ~Anchored(h)

NewAnchor(a) == [NoAnchor EXCEPT !.issuer = a, !.issuedAt = now]

Elements(seq) == {seq[i] : i \in 1..Len(seq)}
Distinct(seq) == \A i, j \in 1..Len(seq) : seq[i] = seq[j] => i = j

Init ==
    /\ registrar = Deployer
    /\ pendingRegistrar = ZeroAddress
    /\ issuers = [a \in AnyAddress |-> NoIssuer]
    /\ anchors = [h \in AnyHash |-> NoAnchor]
    /\ reasons = [h \in AnyHash |-> ""]
    /\ anchorIndex = << >>
    /\ issuerIndex = << >>
    /\ now = 1

-----------------------------------------------------------------------------
(* Registrar governance                                                     *)

TransferRegistrar(sender, to) ==
    /\ sender = registrar
    /\ to # ZeroAddress
    /\ pendingRegistrar' = to
    /\ UNCHANGED <<registrar, issuers, ledger, issuerIndex, now>>

\* Mutant: the pending registrar is cleared before it is copied.
AcceptRegistrar_ClearedFirst(sender) ==
    /\ sender = pendingRegistrar
    /\ registrar' = ZeroAddress
    /\ pendingRegistrar' = ZeroAddress
    /\ UNCHANGED <<issuers, ledger, issuerIndex, now>>

AcceptRegistrar(sender) ==
    /\ sender = pendingRegistrar
    /\ registrar' = pendingRegistrar
    /\ pendingRegistrar' = ZeroAddress
    /\ UNCHANGED <<issuers, ledger, issuerIndex, now>>

-----------------------------------------------------------------------------
(* Issuer lifecycle                                                         *)

ApproveIssuer(sender, a, kind, name) ==
    /\ sender = registrar
    /\ a # ZeroAddress
    /\ kind # "None"
    /\ name # ""
    /\ ~Approved(a)
    /\ issuers' = [issuers EXCEPT ![a] =
           [kind |-> kind, active |-> TRUE, approvedAt |-> now, suspendedAt |-> 0]]
    /\ issuerIndex' = Append(issuerIndex, a)
    /\ UNCHANGED <<governance, ledger, now>>

SuspendIssuer(sender, a, reason) ==
    /\ sender = registrar
    /\ ActiveIssuer(a)
    /\ reason # ""
    /\ issuers' = [issuers EXCEPT ![a].active = FALSE, ![a].suspendedAt = now]
    /\ UNCHANGED <<governance, ledger, issuerIndex, now>>

ReinstateIssuer(sender, a) ==
    /\ sender = registrar
    /\ Approved(a)
    /\ issuers' = [issuers EXCEPT ![a].active = TRUE, ![a].suspendedAt = 0]
    /\ UNCHANGED <<governance, ledger, issuerIndex, now>>

-----------------------------------------------------------------------------
(* Anchoring                                                                *)

\* Mutant: onlyActiveIssuer checks the registration but not the suspension.
Anchor_WhileSuspended(sender, h) ==
    /\ Approved(sender)
    /\ Fresh(h)
    /\ anchors' = [anchors EXCEPT ![h] = NewAnchor(sender)]
    /\ anchorIndex' = Append(anchorIndex, h)
    /\ UNCHANGED <<governance, issuers, reasons, issuerIndex, now>>

Anchor(sender, h) ==
    /\ ActiveIssuer(sender)
    /\ Fresh(h)
    /\ anchors' = [anchors EXCEPT ![h] = NewAnchor(sender)]
    /\ anchorIndex' = Append(anchorIndex, h)
    /\ UNCHANGED <<governance, issuers, reasons, issuerIndex, now>>

\* Mutant: the batch is checked against storage before the loop, not in it.
AnchorBatch_CheckedUpFront(sender, batch) ==
    /\ ActiveIssuer(sender)
    /\ Len(batch) \in 1..MaxBatch
    /\ \A h \in Elements(batch) : Fresh(h)
    /\ anchors' = [h \in AnyHash |->
           IF h \in Elements(batch) THEN NewAnchor(sender) ELSE anchors[h]]
    /\ anchorIndex' = anchorIndex \o batch
    /\ UNCHANGED <<governance, issuers, reasons, issuerIndex, now>>

\* The loop stops at the first hash that is zero or already anchored - by an
\* earlier call or by an earlier element of this batch - and the whole call
\* reverts.
AnchorBatch(sender, batch) ==
    /\ ActiveIssuer(sender)
    /\ Len(batch) \in 1..MaxBatch
    /\ \A h \in Elements(batch) : Fresh(h)
    /\ Distinct(batch)
    /\ anchors' = [h \in AnyHash |->
           IF h \in Elements(batch) THEN NewAnchor(sender) ELSE anchors[h]]
    /\ anchorIndex' = anchorIndex \o batch
    /\ UNCHANGED <<governance, issuers, reasons, issuerIndex, now>>

-----------------------------------------------------------------------------
(* Corrections                                                              *)

\* Mutants: the empty reason is not refused; a second revocation is not refused.
Revoke_EmptyReason(sender, h, reason) ==
    /\ Anchored(h)
    /\ ~Revoked(h)
    /\ sender \in {anchors[h].issuer, registrar}
    /\ anchors' = [anchors EXCEPT ![h].revokedAt = now]
    /\ reasons' = [reasons EXCEPT ![h] = reason]
    /\ UNCHANGED <<governance, issuers, anchorIndex, issuerIndex, now>>

Revoke_Again(sender, h, reason) ==
    /\ Anchored(h)
    /\ sender \in {anchors[h].issuer, registrar}
    /\ reason # ""
    /\ anchors' = [anchors EXCEPT ![h].revokedAt = now]
    /\ reasons' = [reasons EXCEPT ![h] = reason]
    /\ UNCHANGED <<governance, issuers, anchorIndex, issuerIndex, now>>

Revoke(sender, h, reason) ==
    /\ Anchored(h)
    /\ ~Revoked(h)
    /\ sender \in {anchors[h].issuer, registrar}
    /\ reason # ""
    /\ anchors' = [anchors EXCEPT ![h].revokedAt = now]
    /\ reasons' = [reasons EXCEPT ![h] = reason]
    /\ UNCHANGED <<governance, issuers, anchorIndex, issuerIndex, now>>

\* Mutant: any active issuer, not only the record's own, may correct a record.
Supersede_AnyIssuer(sender, old, new) ==
    /\ ActiveIssuer(sender)
    /\ Anchored(old)
    /\ ~Superseded(old)
    /\ Fresh(new)
    /\ anchors' = [anchors EXCEPT ![new] = NewAnchor(sender),
                                  ![old].supersededBy = new]
    /\ anchorIndex' = Append(anchorIndex, new)
    /\ UNCHANGED <<governance, issuers, reasons, issuerIndex, now>>

Supersede(sender, old, new) ==
    /\ ActiveIssuer(sender)
    /\ Anchored(old)
    /\ ~Superseded(old)
    /\ sender = anchors[old].issuer
    /\ Fresh(new)
    /\ anchors' = [anchors EXCEPT ![new] = NewAnchor(sender),
                                  ![old].supersededBy = new]
    /\ anchorIndex' = Append(anchorIndex, new)
    /\ UNCHANGED <<governance, issuers, reasons, issuerIndex, now>>

\* A later block: several calls may share one timestamp.
Tick ==
    /\ now < MaxTime
    /\ now' = now + 1
    /\ UNCHANGED <<governance, issuers, ledger, issuerIndex>>

-----------------------------------------------------------------------------
\* One hash more than MAX_BATCH is enough to exercise BatchTooLarge.
Batches == UNION {[1..n -> AnyHash] : n \in 0..(MaxBatch + 1)}

Governance ==
    \E s \in Account :
        \/ \E to \in AnyAddress : TransferRegistrar(s, to)
        \/ AcceptRegistrar(s)

IssuerLifecycle ==
    \E s \in Account, a \in AnyAddress :
        \/ \E k \in Kind, n \in AnyText : ApproveIssuer(s, a, k, n)
        \/ \E r \in AnyText : SuspendIssuer(s, a, r)
        \/ ReinstateIssuer(s, a)

Writes ==
    \E s \in Account :
        \/ \E h \in AnyHash : Anchor(s, h)
        \/ \E b \in Batches : AnchorBatch(s, b)
        \/ \E h \in AnyHash, r \in AnyText : Revoke(s, h, r)
        \/ \E old, new \in AnyHash : Supersede(s, old, new)

Next == Governance \/ IssuerLifecycle \/ Writes \/ Tick

Spec == Init /\ [][Next]_vars

-----------------------------------------------------------------------------
(* What the registry promises                                               *)

\* The types of storage; in particular the registrar is never address(0),
\* which the contract says would freeze issuer onboarding for ever.
TypeOK ==
    /\ registrar \in Account
    /\ pendingRegistrar \in AnyAddress
    /\ issuers \in [AnyAddress -> Issuer]
    /\ anchors \in [AnyHash -> AnchorEntry]
    /\ reasons \in [AnyHash -> AnyText]
    /\ anchorIndex \in Seq(AnyHash)
    /\ issuerIndex \in Seq(AnyAddress)
    /\ now \in Time

\* Walking an index enumerates exactly what the mapping holds, each entry
\* once (anchorCount/anchorAt, issuerCount/issuerAt), through single anchors,
\* batches and corrections alike; bytes32(0) and address(0) are never entries.
IndexExact ==
    /\ Distinct(anchorIndex)
    /\ Elements(anchorIndex) = {h \in Hash : Anchored(h)}
    /\ ~Anchored(ZeroHash)
    /\ Distinct(issuerIndex)
    /\ Elements(issuerIndex) = {a \in Account : Approved(a)}
    /\ ~Approved(ZeroAddress)

Before(h, g) ==
    \E i, j \in 1..Len(anchorIndex) :
        i < j /\ anchorIndex[i] = h /\ anchorIndex[j] = g

\* A superseded record points forward to one later anchor of the same issuer,
\* and no two records point to the same correction: following the links from
\* an old QR code reaches the current record, by one path, and stops.
CorrectionsResolve ==
    \A h \in Hash : Superseded(h) =>
        /\ Anchored(h)
        /\ Before(h, anchors[h].supersededBy)
        /\ anchors[anchors[h].supersededBy].issuer = anchors[h].issuer
        /\ \A g \in Hash : anchors[g].supersededBy = anchors[h].supersededBy => g = h

\* "Suspension is not retroactive": every anchor was written by an approved
\* issuer, after its approval and not after the suspension it is serving, so
\* a verifier can present a suspended issuer's records as validly issued.
IssuedInGoodStanding ==
    \A h \in Hash : Anchored(h) =>
        LET i == issuers[anchors[h].issuer] IN
        /\ i.kind # "None"
        /\ i.approvedAt <= anchors[h].issuedAt
        /\ i.active \/ (i.suspendedAt # 0 /\ anchors[h].issuedAt <= i.suspendedAt)

\* A revocation always carries a reason a verifier can be shown, and a reason
\* is never shown for a record that was not revoked after it was anchored.
RevocationExplained ==
    \A h \in Hash :
        /\ Revoked(h) <=> reasons[h] # ""
        /\ Revoked(h) => Anchored(h) /\ anchors[h].issuedAt <= anchors[h].revokedAt

\* "Immutable is not uncorrectable": a step may add to an anchored record a
\* revocation or a correction, and may never alter or remove anything it holds.
AppendStep ==
    /\ \A h \in Hash : Anchored(h) =>
          /\ anchors'[h].issuer = anchors[h].issuer
          /\ anchors'[h].issuedAt = anchors[h].issuedAt
          /\ Revoked(h) => /\ anchors'[h].revokedAt = anchors[h].revokedAt
                           /\ reasons'[h] = reasons[h]
          /\ Superseded(h) => anchors'[h].supersededBy = anchors[h].supersededBy
    /\ Len(anchorIndex) <= Len(anchorIndex')
    /\ \A i \in 1..Len(anchorIndex) : anchorIndex'[i] = anchorIndex[i]
    /\ \A a \in Account : Approved(a) =>
          issuers'[a].approvedAt = issuers[a].approvedAt /\ issuers'[a].kind = issuers[a].kind

\* Every step of the registry only appends.
AppendOnly == [][AppendStep]_vars
=============================================================================
