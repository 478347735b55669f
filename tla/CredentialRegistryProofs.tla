---------------------- MODULE CredentialRegistryProofs ----------------------
(***************************************************************************)
(* Proofs about the registry, for any sets of accounts and hashes, any     *)
(* batch limit and any number of blocks.                                   *)
(***************************************************************************)
EXTENDS CredentialRegistry, SequenceTheorems, TLAPS

(***************************************************************************)
(* Facts about the constants and the records storage is made of            *)
(***************************************************************************)

\* What a mapping returns before the first write is well-typed.
LEMMA ZeroStorage == NoIssuer \in Issuer /\ NoAnchor \in AnchorEntry
  BY DEF NoIssuer, Issuer, Kind, NoAnchor, AnchorEntry, AnyAddress, AnyHash

\* Timestamps are positive numbers: 0 can stand for "never".
LEMMA TimeType == MaxTime \in Nat /\ 1 \in Time /\ Time \subseteq Nat \ {0}
<1>1. MaxTime \in Nat /\ MaxTime # 0
  BY RegistryAssumption
<1> QED
  BY <1>1 DEF Time

\* A batch, of whatever length, is a sequence of hashes.
LEMMA BatchType == \A b \in Batches : b \in Seq(AnyHash)
<1>1. MaxBatch \in Nat
  BY RegistryAssumption
<1> SUFFICES ASSUME NEW b \in Batches PROVE b \in Seq(AnyHash)
  OBVIOUS
<1>2. PICK n \in 0..(MaxBatch + 1) : b \in [1..n -> AnyHash]
  BY DEF Batches
<1>3. n \in Nat
  BY <1>1
<1> QED
  BY <1>2, <1>3, SeqDef

\* The entry a write creates is well-typed.
LEMMA NewAnchorType ==
  ASSUME TypeOK, NEW a \in Account
  PROVE  NewAnchor(a) \in AnchorEntry
BY DEF TypeOK, NewAnchor, NoAnchor, AnchorEntry, AnyAddress, AnyHash

(***************************************************************************)
(* Type correctness                                                        *)
(***************************************************************************)

\* The constructor's storage is well-typed.
LEMMA InitTypeOK == Init => TypeOK
<1> SUFFICES ASSUME Init PROVE TypeOK
  OBVIOUS
<1>1. registrar \in Account /\ pendingRegistrar \in AnyAddress
  BY RegistryAssumption DEF Init, AnyAddress
<1>2. issuers \in [AnyAddress -> Issuer] /\ anchors \in [AnyHash -> AnchorEntry]
  BY ZeroStorage DEF Init
<1>3. reasons \in [AnyHash -> AnyText]
  BY DEF Init, AnyText
<1>4. anchorIndex \in Seq(AnyHash) /\ issuerIndex \in Seq(AnyAddress)
  BY EmptySeq DEF Init
<1>5. now \in Time
  BY TimeType DEF Init
<1> QED
  BY <1>1, <1>2, <1>3, <1>4, <1>5 DEF TypeOK

\* Every call that does not revert keeps storage well-typed.
LEMMA NextTypeOK == TypeOK /\ [Next]_vars => TypeOK'
<1> SUFFICES ASSUME TypeOK, [Next]_vars PROVE TypeOK'
  OBVIOUS
<1>1. ASSUME NEW s \in Account, NEW to \in AnyAddress, TransferRegistrar(s, to)
      PROVE  TypeOK'
  BY <1>1 DEF TypeOK, TransferRegistrar, ledger
<1>2. ASSUME NEW s \in Account, AcceptRegistrar(s)
      PROVE  TypeOK'
  BY <1>2 DEF TypeOK, AcceptRegistrar, ledger, AnyAddress
<1>3. ASSUME NEW s \in Account, NEW a \in AnyAddress, NEW k \in Kind, NEW n \in AnyText,
             ApproveIssuer(s, a, k, n)
      PROVE  TypeOK'
  <2>1. issuers' \in [AnyAddress -> Issuer]
    BY <1>3 DEF TypeOK, ApproveIssuer, Issuer
  <2>2. issuerIndex' \in Seq(AnyAddress)
    BY <1>3, AppendProperties DEF TypeOK, ApproveIssuer
  <2> QED
    BY <1>3, <2>1, <2>2 DEF TypeOK, ApproveIssuer, governance, ledger
<1>4. ASSUME NEW s \in Account, NEW a \in AnyAddress, NEW r \in AnyText,
             SuspendIssuer(s, a, r)
      PROVE  TypeOK'
  <2>1. issuers' \in [AnyAddress -> Issuer]
    BY <1>4 DEF TypeOK, SuspendIssuer, Issuer
  <2> QED
    BY <1>4, <2>1 DEF TypeOK, SuspendIssuer, governance, ledger
<1>5. ASSUME NEW s \in Account, NEW a \in AnyAddress, ReinstateIssuer(s, a)
      PROVE  TypeOK'
  <2>1. issuers' \in [AnyAddress -> Issuer]
    BY <1>5 DEF TypeOK, ReinstateIssuer, Issuer
  <2> QED
    BY <1>5, <2>1 DEF TypeOK, ReinstateIssuer, governance, ledger
<1>6. ASSUME NEW s \in Account, NEW h \in AnyHash, Anchor(s, h)
      PROVE  TypeOK'
  <2>1. anchors' \in [AnyHash -> AnchorEntry]
    BY <1>6, NewAnchorType DEF TypeOK, Anchor
  <2>2. anchorIndex' \in Seq(AnyHash)
    BY <1>6, AppendProperties DEF TypeOK, Anchor
  <2> QED
    BY <1>6, <2>1, <2>2 DEF TypeOK, Anchor, governance
<1>7. ASSUME NEW s \in Account, NEW b \in Batches, AnchorBatch(s, b)
      PROVE  TypeOK'
  <2>1. anchors' \in [AnyHash -> AnchorEntry]
    BY <1>7, NewAnchorType DEF TypeOK, AnchorBatch
  <2>2. anchorIndex' \in Seq(AnyHash)
    BY <1>7, BatchType, ConcatProperties DEF TypeOK, AnchorBatch
  <2> QED
    BY <1>7, <2>1, <2>2 DEF TypeOK, AnchorBatch, governance
<1>8. ASSUME NEW s \in Account, NEW h \in AnyHash, NEW r \in AnyText, Revoke(s, h, r)
      PROVE  TypeOK'
  <2>1. anchors' \in [AnyHash -> AnchorEntry]
    <3>1. anchors' = [anchors EXCEPT ![h].revokedAt = now] /\ anchors[h] \in AnchorEntry
      BY <1>8 DEF TypeOK, Revoke
    <3>2. [anchors[h] EXCEPT !.revokedAt = now] \in AnchorEntry
      BY <3>1 DEF TypeOK, AnchorEntry
    <3> QED
      BY <3>1, <3>2 DEF TypeOK
  <2>2. reasons' \in [AnyHash -> AnyText]
    BY <1>8 DEF TypeOK, Revoke
  <2> QED
    BY <1>8, <2>1, <2>2 DEF TypeOK, Revoke, governance
<1>9. ASSUME NEW s \in Account, NEW old \in AnyHash, NEW new \in AnyHash,
             Supersede(s, old, new)
      PROVE  TypeOK'
  <2>1. anchors' \in [AnyHash -> AnchorEntry]
    BY <1>9, NewAnchorType DEF TypeOK, Supersede, AnchorEntry
  <2>2. anchorIndex' \in Seq(AnyHash)
    BY <1>9, AppendProperties DEF TypeOK, Supersede
  <2> QED
    BY <1>9, <2>1, <2>2 DEF TypeOK, Supersede, governance
<1>10. ASSUME Tick PROVE TypeOK'
  <2>1. now' \in Time
    BY <1>10, TimeType DEF TypeOK, Tick, Time
  <2> QED
    BY <1>10, <2>1 DEF TypeOK, Tick, governance, ledger
<1>11. ASSUME UNCHANGED vars PROVE TypeOK'
  BY <1>11 DEF TypeOK, vars
<1> QED
  BY <1>1, <1>2, <1>3, <1>4, <1>5, <1>6, <1>7, <1>8, <1>9, <1>10, <1>11
     DEF Next, Governance, IssuerLifecycle, Writes

\* Storage keeps its types on every reachable state, whatever the calls: in
\* particular the registrar is always an account that can act.
THEOREM RegistryTypeOK == Spec => []TypeOK
  BY InitTypeOK, NextTypeOK, PTL DEF Spec

(***************************************************************************)
(* The steps                                                               *)
(***************************************************************************)

\* A step that touches neither issuers nor the ledger: a hand-over, a later
\* block, or a stutter.
Quiet ==
    /\ UNCHANGED <<issuers, anchors, reasons, anchorIndex, issuerIndex>>
    /\ now' = now \/ now' = now + 1

\* What a step can be, once the quiet ones are put together.
LEMMA Steps ==
  ASSUME [Next]_vars
  PROVE  \/ Quiet
         \/ \E s \in Account, a \in AnyAddress, k \in Kind, n \in AnyText :
                ApproveIssuer(s, a, k, n)
         \/ \E s \in Account, a \in AnyAddress, r \in AnyText : SuspendIssuer(s, a, r)
         \/ \E s \in Account, a \in AnyAddress : ReinstateIssuer(s, a)
         \/ \E s \in Account, h \in AnyHash : Anchor(s, h)
         \/ \E s \in Account, b \in Batches : AnchorBatch(s, b)
         \/ \E s \in Account, h \in AnyHash, r \in AnyText : Revoke(s, h, r)
         \/ \E s \in Account, old, new \in AnyHash : Supersede(s, old, new)
<1>1. CASE Governance
  BY <1>1 DEF Governance, TransferRegistrar, AcceptRegistrar, Quiet, ledger
<1>2. CASE Tick
  BY <1>2 DEF Tick, Quiet, ledger
<1>3. CASE UNCHANGED vars
  BY <1>3 DEF vars, Quiet
<1> QED
  BY <1>1, <1>2, <1>3 DEF Next, IssuerLifecycle, Writes

(***************************************************************************)
(* Append only                                                             *)
(***************************************************************************)

\* An index has a length.
LEMMA IndexLength == TypeOK => Len(anchorIndex) \in Nat /\ Len(issuerIndex) \in Nat
  BY DEF TypeOK

\* No call alters or removes anything an anchored record already holds.
LEMMA NextAppendStep == TypeOK /\ [Next]_vars => AppendStep
<1> SUFFICES ASSUME TypeOK, [Next]_vars PROVE AppendStep
  OBVIOUS
<1>1. CASE Quiet
  BY <1>1 DEF Quiet, AppendStep, TypeOK
<1>2. ASSUME NEW s \in Account, NEW a \in AnyAddress, NEW k \in Kind, NEW n \in AnyText,
             ApproveIssuer(s, a, k, n)
      PROVE  AppendStep
  <2>1. anchors' = anchors /\ reasons' = reasons /\ anchorIndex' = anchorIndex
    BY <1>2 DEF ApproveIssuer, ledger
  <2>2. \A c \in Account : Approved(c) => issuers'[c] = issuers[c]
    BY <1>2 DEF ApproveIssuer, TypeOK, AnyAddress
  <2> QED
    BY <2>1, <2>2, IndexLength DEF AppendStep
<1>3. ASSUME NEW s \in Account, NEW a \in AnyAddress, NEW r \in AnyText,
             SuspendIssuer(s, a, r)
      PROVE  AppendStep
  <2>1. anchors' = anchors /\ reasons' = reasons /\ anchorIndex' = anchorIndex
    BY <1>3 DEF SuspendIssuer, ledger
  <2>2. \A c \in Account : /\ issuers'[c].kind = issuers[c].kind
                           /\ issuers'[c].approvedAt = issuers[c].approvedAt
    BY <1>3 DEF SuspendIssuer, TypeOK, AnyAddress, Issuer
  <2> QED
    BY <2>1, <2>2, IndexLength DEF AppendStep
<1>4. ASSUME NEW s \in Account, NEW a \in AnyAddress, ReinstateIssuer(s, a)
      PROVE  AppendStep
  <2>1. anchors' = anchors /\ reasons' = reasons /\ anchorIndex' = anchorIndex
    BY <1>4 DEF ReinstateIssuer, ledger
  <2>2. \A c \in Account : /\ issuers'[c].kind = issuers[c].kind
                           /\ issuers'[c].approvedAt = issuers[c].approvedAt
    BY <1>4 DEF ReinstateIssuer, TypeOK, AnyAddress, Issuer
  <2> QED
    BY <2>1, <2>2, IndexLength DEF AppendStep
<1>5. ASSUME NEW s \in Account, NEW x \in AnyHash, Anchor(s, x)
      PROVE  AppendStep
  <2>1. /\ Len(anchorIndex') = Len(anchorIndex) + 1
        /\ \A i \in 1..Len(anchorIndex) : anchorIndex'[i] = anchorIndex[i]
    BY <1>5, AppendProperties DEF Anchor, TypeOK
  <2>2. \A h \in Hash : Anchored(h) => anchors'[h] = anchors[h]
    BY <1>5 DEF Anchor, Fresh, Anchored, TypeOK, AnyHash
  <2>3. Len(anchorIndex) \in Nat
    BY DEF TypeOK
  <2> QED
    BY <1>5, <2>1, <2>2, <2>3 DEF Anchor, AppendStep
<1>6. ASSUME NEW s \in Account, NEW b \in Batches, AnchorBatch(s, b)
      PROVE  AppendStep
  <2>1. /\ Len(anchorIndex') = Len(anchorIndex) + Len(b)
        /\ \A i \in 1..Len(anchorIndex) : anchorIndex'[i] = anchorIndex[i]
    BY <1>6, BatchType, ConcatProperties DEF AnchorBatch, TypeOK
  <2>2. \A h \in Hash : Anchored(h) => anchors'[h] = anchors[h]
    BY <1>6 DEF AnchorBatch, Fresh, Anchored, TypeOK, AnyHash
  <2>3. Len(anchorIndex) \in Nat /\ Len(b) \in Nat
    BY BatchType DEF TypeOK
  <2>4. reasons' = reasons /\ issuers' = issuers
    BY <1>6 DEF AnchorBatch
  <2> QED
    BY <2>1, <2>2, <2>3, <2>4 DEF AppendStep
<1>7. ASSUME NEW s \in Account, NEW x \in AnyHash, NEW r \in AnyText, Revoke(s, x, r)
      PROVE  AppendStep
  <2>1. anchorIndex' = anchorIndex /\ issuers' = issuers
    BY <1>7 DEF Revoke
  <2>2. \A h \in Hash : h # x => anchors'[h] = anchors[h] /\ reasons'[h] = reasons[h]
    BY <1>7 DEF Revoke, TypeOK, AnyHash
  <2>3. anchors'[x] = [anchors[x] EXCEPT !.revokedAt = now] /\ ~Revoked(x)
    BY <1>7 DEF Revoke, TypeOK
  <2>4. anchors[x] \in AnchorEntry
    BY DEF TypeOK
  <2> QED
    BY <2>1, <2>2, <2>3, <2>4, IndexLength DEF AppendStep, AnchorEntry
<1>8. ASSUME NEW s \in Account, NEW old \in AnyHash, NEW new \in AnyHash,
             Supersede(s, old, new)
      PROVE  AppendStep
  <2>1. /\ Len(anchorIndex') = Len(anchorIndex) + 1
        /\ \A i \in 1..Len(anchorIndex) : anchorIndex'[i] = anchorIndex[i]
    BY <1>8, AppendProperties DEF Supersede, TypeOK
  <2>2. \A h \in Hash : Anchored(h) /\ h # old => anchors'[h] = anchors[h]
    BY <1>8 DEF Supersede, Fresh, Anchored, TypeOK, AnyHash
  <2>3. /\ anchors'[old] = [anchors[old] EXCEPT !.supersededBy = new]
        /\ ~Superseded(old)
    BY <1>8 DEF Supersede, Fresh, Anchored, TypeOK, AnyHash
  <2>4. Len(anchorIndex) \in Nat /\ anchors[old] \in AnchorEntry
    BY DEF TypeOK
  <2>5. reasons' = reasons /\ issuers' = issuers
    BY <1>8 DEF Supersede
  <2> QED
    BY <2>1, <2>2, <2>3, <2>4, <2>5 DEF AppendStep, AnchorEntry
<1> QED
  BY <1>1, <1>2, <1>3, <1>4, <1>5, <1>6, <1>7, <1>8, Steps

\* The registry's history is append-only: an anchored record keeps its issuer,
\* its date, its first revocation and its first correction for ever.
THEOREM RegistryAppendOnly == Spec => AppendOnly
  BY RegistryTypeOK, NextAppendStep, PTL DEF Spec, AppendOnly

(***************************************************************************)
(* Nothing is dated in the future; revocations explain themselves; only    *)
(* issuers in good standing issue                                          *)
(***************************************************************************)

\* Every date in storage is the time of an earlier or the current block.
ClockAhead ==
    /\ \A a \in AnyAddress : issuers[a].approvedAt <= now /\ issuers[a].suspendedAt <= now
    /\ \A h \in AnyHash : anchors[h].issuedAt <= now /\ anchors[h].revokedAt <= now

\* The dates are numbers and the clock has started.
LEMMA Dates ==
  ASSUME TypeOK
  PROVE  /\ now \in Nat /\ now # 0
         /\ \A a \in AnyAddress : issuers[a].approvedAt \in Nat /\ issuers[a].suspendedAt \in Nat
         /\ \A h \in AnyHash : anchors[h].issuedAt \in Nat /\ anchors[h].revokedAt \in Nat
<1>1. {0} \cup Time \subseteq Nat
  BY TimeType
<1>2. now \in Nat /\ now # 0
  BY TimeType DEF TypeOK
<1>3. \A a \in AnyAddress : issuers[a].approvedAt \in Nat /\ issuers[a].suspendedAt \in Nat
  BY <1>1 DEF TypeOK, Issuer
<1>4. \A h \in AnyHash : anchors[h].issuedAt \in Nat /\ anchors[h].revokedAt \in Nat
  BY <1>1 DEF TypeOK, AnchorEntry
<1> QED
  BY <1>2, <1>3, <1>4

\* What each call does to the entries it writes, and that it leaves the others
\* alone: the later proofs use these facts in place of the actions.
LEMMA ApproveEffect ==
  ASSUME TypeOK, NEW s \in Account, NEW a \in AnyAddress, NEW k \in Kind, NEW n \in AnyText,
         ApproveIssuer(s, a, k, n)
  PROVE  /\ a \in Account /\ ~Approved(a) /\ k # "None"
         /\ issuers'[a].kind = k /\ issuers'[a].active
         /\ issuers'[a].approvedAt = now /\ issuers'[a].suspendedAt = 0
         /\ \A c \in AnyAddress : c # a => issuers'[c] = issuers[c]
         /\ anchors' = anchors /\ reasons' = reasons /\ now' = now
<1>1. a \in Account /\ ~Approved(a) /\ k # "None"
  BY DEF ApproveIssuer, AnyAddress
<1>2. /\ issuers'[a] = [kind |-> k, active |-> TRUE, approvedAt |-> now, suspendedAt |-> 0]
      /\ \A c \in AnyAddress : c # a => issuers'[c] = issuers[c]
  BY DEF ApproveIssuer, TypeOK
<1>3. anchors' = anchors /\ reasons' = reasons /\ now' = now
  BY DEF ApproveIssuer, ledger
<1> QED
  BY <1>1, <1>2, <1>3

\* A suspension keeps the registration and dates itself.
LEMMA SuspendEffect ==
  ASSUME TypeOK, NEW s \in Account, NEW a \in AnyAddress, NEW r \in AnyText,
         SuspendIssuer(s, a, r)
  PROVE  /\ issuers[a].active
         /\ issuers'[a].kind = issuers[a].kind /\ ~issuers'[a].active
         /\ issuers'[a].approvedAt = issuers[a].approvedAt /\ issuers'[a].suspendedAt = now
         /\ \A c \in AnyAddress : c # a => issuers'[c] = issuers[c]
         /\ anchors' = anchors /\ reasons' = reasons /\ now' = now
<1>1. issuers[a].active /\ issuers[a] \in Issuer
  BY DEF SuspendIssuer, ActiveIssuer, TypeOK
<1>2. /\ issuers'[a] = [issuers[a] EXCEPT !.active = FALSE, !.suspendedAt = now]
      /\ \A c \in AnyAddress : c # a => issuers'[c] = issuers[c]
  BY DEF SuspendIssuer, TypeOK
<1>3. anchors' = anchors /\ reasons' = reasons /\ now' = now
  BY DEF SuspendIssuer, ledger
<1>4. /\ issuers'[a].kind = issuers[a].kind /\ ~issuers'[a].active
      /\ issuers'[a].approvedAt = issuers[a].approvedAt /\ issuers'[a].suspendedAt = now
  BY <1>1, <1>2 DEF Issuer
<1> QED
  BY <1>1, <1>2, <1>3, <1>4

\* A reinstatement keeps the registration and forgets the suspension.
LEMMA ReinstateEffect ==
  ASSUME TypeOK, NEW s \in Account, NEW a \in AnyAddress, ReinstateIssuer(s, a)
  PROVE  /\ issuers'[a].kind = issuers[a].kind /\ issuers'[a].active
         /\ issuers'[a].approvedAt = issuers[a].approvedAt /\ issuers'[a].suspendedAt = 0
         /\ \A c \in AnyAddress : c # a => issuers'[c] = issuers[c]
         /\ anchors' = anchors /\ reasons' = reasons /\ now' = now
<1>1. issuers[a] \in Issuer
  BY DEF TypeOK
<1>2. /\ issuers'[a] = [issuers[a] EXCEPT !.active = TRUE, !.suspendedAt = 0]
      /\ \A c \in AnyAddress : c # a => issuers'[c] = issuers[c]
  BY DEF ReinstateIssuer, TypeOK
<1>3. anchors' = anchors /\ reasons' = reasons /\ now' = now
  BY DEF ReinstateIssuer, ledger
<1>4. /\ issuers'[a].kind = issuers[a].kind /\ issuers'[a].active
      /\ issuers'[a].approvedAt = issuers[a].approvedAt /\ issuers'[a].suspendedAt = 0
  BY <1>1, <1>2 DEF Issuer
<1> QED
  BY <1>2, <1>3, <1>4

\* The fields of a new anchor.
LEMMA NewAnchorFields ==
  ASSUME NEW a
  PROVE  /\ NewAnchor(a).issuer = a /\ NewAnchor(a).issuedAt = now
         /\ NewAnchor(a).revokedAt = 0 /\ NewAnchor(a).supersededBy = ZeroHash
  BY DEF NewAnchor, NoAnchor

\* A single anchor writes one fresh hash.
LEMMA AnchorEffect ==
  ASSUME TypeOK, NEW s \in Account, NEW x \in AnyHash, Anchor(s, x)
  PROVE  /\ ActiveIssuer(s) /\ x \in Hash /\ ~Anchored(x)
         /\ anchors'[x] = NewAnchor(s)
         /\ \A h \in AnyHash : h # x => anchors'[h] = anchors[h]
         /\ issuers' = issuers /\ reasons' = reasons /\ now' = now
  BY DEF TypeOK, Anchor, Fresh, AnyHash

\* A batch writes all its hashes alike, and no other.
LEMMA BatchEffect ==
  ASSUME TypeOK, NEW s \in Account, NEW b \in Batches, AnchorBatch(s, b)
  PROVE  /\ ActiveIssuer(s) /\ Elements(b) \subseteq Hash
         /\ \A h \in Elements(b) : ~Anchored(h) /\ anchors'[h] = NewAnchor(s)
         /\ \A h \in AnyHash : h \notin Elements(b) => anchors'[h] = anchors[h]
         /\ issuers' = issuers /\ reasons' = reasons /\ now' = now
<1>1. Elements(b) \subseteq AnyHash
  BY BatchType DEF Elements
<1> QED
  BY <1>1 DEF TypeOK, AnchorBatch, Fresh, AnyHash

\* A revocation dates one record and gives its reason.
LEMMA RevokeEffect ==
  ASSUME TypeOK, NEW s \in Account, NEW x \in AnyHash, NEW r \in AnyText, Revoke(s, x, r)
  PROVE  /\ Anchored(x) /\ ~Revoked(x) /\ r # ""
         /\ anchors'[x].issuer = anchors[x].issuer
         /\ anchors'[x].issuedAt = anchors[x].issuedAt
         /\ anchors'[x].revokedAt = now
         /\ anchors'[x].supersededBy = anchors[x].supersededBy
         /\ reasons'[x] = r
         /\ \A h \in AnyHash : h # x => anchors'[h] = anchors[h] /\ reasons'[h] = reasons[h]
         /\ issuers' = issuers /\ now' = now
<1>1. Anchored(x) /\ ~Revoked(x) /\ r # "" /\ issuers' = issuers /\ now' = now
  BY DEF Revoke
<1>2. /\ anchors'[x] = [anchors[x] EXCEPT !.revokedAt = now]
      /\ reasons'[x] = r
      /\ \A h \in AnyHash : h # x => anchors'[h] = anchors[h] /\ reasons'[h] = reasons[h]
  BY DEF TypeOK, Revoke
<1>3. anchors[x] \in AnchorEntry
  BY DEF TypeOK
<1>4. /\ anchors'[x].issuer = anchors[x].issuer
      /\ anchors'[x].issuedAt = anchors[x].issuedAt
      /\ anchors'[x].revokedAt = now
      /\ anchors'[x].supersededBy = anchors[x].supersededBy
  BY <1>2, <1>3 DEF AnchorEntry
<1> QED
  BY <1>1, <1>2, <1>4

\* A correction writes one fresh record and links one old record to it.
LEMMA SupersedeEffect ==
  ASSUME TypeOK, NEW s \in Account, NEW old \in AnyHash, NEW new \in AnyHash,
         Supersede(s, old, new)
  PROVE  /\ ActiveIssuer(s) /\ anchors[old].issuer = s
         /\ Anchored(old) /\ ~Superseded(old) /\ new \in Hash /\ ~Anchored(new) /\ old # new
         /\ anchors'[new] = NewAnchor(s)
         /\ anchors'[old].issuer = anchors[old].issuer
         /\ anchors'[old].issuedAt = anchors[old].issuedAt
         /\ anchors'[old].revokedAt = anchors[old].revokedAt
         /\ anchors'[old].supersededBy = new
         /\ \A h \in AnyHash : h # old /\ h # new => anchors'[h] = anchors[h]
         /\ issuers' = issuers /\ reasons' = reasons /\ now' = now
<1>1. /\ ActiveIssuer(s) /\ anchors[old].issuer = s
      /\ Anchored(old) /\ ~Superseded(old) /\ new \in Hash /\ ~Anchored(new)
      /\ issuers' = issuers /\ reasons' = reasons /\ now' = now
  BY DEF Supersede, Fresh, AnyHash
<1>2. old # new
  BY <1>1
<1>3. anchors' = [anchors EXCEPT ![new] = NewAnchor(s), ![old].supersededBy = new]
  BY DEF Supersede
<1>4. /\ anchors'[new] = NewAnchor(s)
      /\ anchors'[old] = [anchors[old] EXCEPT !.supersededBy = new]
      /\ \A h \in AnyHash : h # old /\ h # new => anchors'[h] = anchors[h]
  BY <1>2, <1>3 DEF TypeOK
<1>5. anchors[old] \in AnchorEntry
  BY DEF TypeOK
<1>6. /\ anchors'[old].issuer = anchors[old].issuer
      /\ anchors'[old].issuedAt = anchors[old].issuedAt
      /\ anchors'[old].revokedAt = anchors[old].revokedAt
      /\ anchors'[old].supersededBy = new
  BY <1>4, <1>5 DEF AnchorEntry
<1> QED
  BY <1>1, <1>2, <1>4, <1>6

\* Before the first call every issuer is unknown, every anchor empty.
LEMMA Empty ==
  ASSUME Init
  PROVE  /\ now = 1
         /\ \A a \in AnyAddress :
               /\ issuers[a].kind = "None" /\ issuers[a].approvedAt = 0
               /\ issuers[a].suspendedAt = 0
         /\ \A h \in AnyHash :
               /\ anchors[h].issuedAt = 0 /\ anchors[h].revokedAt = 0
               /\ anchors[h].supersededBy = ZeroHash /\ reasons[h] = ""
<1>1. \A a \in AnyAddress : issuers[a] = NoIssuer
  BY DEF Init
<1>2. \A h \in AnyHash : anchors[h] = NoAnchor /\ reasons[h] = ""
  BY DEF Init
<1>3. now = 1
  BY DEF Init
<1>4. NoIssuer.kind = "None" /\ NoIssuer.approvedAt = 0 /\ NoIssuer.suspendedAt = 0
  BY DEF NoIssuer
<1>5. /\ NoAnchor.issuedAt = 0 /\ NoAnchor.revokedAt = 0
      /\ NoAnchor.supersededBy = ZeroHash
  BY DEF NoAnchor
<1> QED
  BY <1>1, <1>2, <1>3, <1>4, <1>5

\* The clock starts ahead of every date, and stays ahead.
LEMMA InitClockAhead == Init => ClockAhead
<1> SUFFICES ASSUME Init PROVE ClockAhead
  OBVIOUS
<1>1. /\ now = 1
      /\ \A a \in AnyAddress : issuers[a].approvedAt = 0 /\ issuers[a].suspendedAt = 0
      /\ \A h \in AnyHash : anchors[h].issuedAt = 0 /\ anchors[h].revokedAt = 0
  BY Empty
<1> QED
  BY <1>1 DEF ClockAhead

\* No step writes a date of a later block.
LEMMA NextClockAhead == TypeOK /\ ClockAhead /\ [Next]_vars => ClockAhead'
<1> SUFFICES ASSUME TypeOK, ClockAhead, [Next]_vars PROVE ClockAhead'
  OBVIOUS
<1>1. CASE Quiet
  BY <1>1, Dates DEF Quiet, ClockAhead
<1>2. ASSUME NEW s \in Account, NEW a \in AnyAddress, NEW k \in Kind, NEW n \in AnyText,
             ApproveIssuer(s, a, k, n)
      PROVE  ClockAhead'
  BY <1>2, Dates, ApproveEffect DEF ClockAhead
<1>3. ASSUME NEW s \in Account, NEW a \in AnyAddress, NEW r \in AnyText,
             SuspendIssuer(s, a, r)
      PROVE  ClockAhead'
  BY <1>3, Dates, SuspendEffect DEF ClockAhead
<1>4. ASSUME NEW s \in Account, NEW a \in AnyAddress, ReinstateIssuer(s, a)
      PROVE  ClockAhead'
  BY <1>4, Dates, ReinstateEffect DEF ClockAhead
<1>5. ASSUME NEW s \in Account, NEW x \in AnyHash, Anchor(s, x)
      PROVE  ClockAhead'
  BY <1>5, Dates, AnchorEffect, NewAnchorFields DEF ClockAhead
<1>6. ASSUME NEW s \in Account, NEW b \in Batches, AnchorBatch(s, b)
      PROVE  ClockAhead'
  BY <1>6, Dates, BatchEffect, NewAnchorFields DEF ClockAhead
<1>7. ASSUME NEW s \in Account, NEW x \in AnyHash, NEW r \in AnyText, Revoke(s, x, r)
      PROVE  ClockAhead'
  <2>1. \A h \in AnyHash : /\ anchors'[h].issuedAt = anchors[h].issuedAt
                           /\ anchors'[h].revokedAt \in {anchors[h].revokedAt, now}
    BY <1>7, RevokeEffect
  <2>2. issuers' = issuers /\ now' = now
    BY <1>7, RevokeEffect
  <2> QED
    BY <2>1, <2>2, Dates DEF ClockAhead
<1>8. ASSUME NEW s \in Account, NEW old \in AnyHash, NEW new \in AnyHash,
             Supersede(s, old, new)
      PROVE  ClockAhead'
  BY <1>8, Dates, SupersedeEffect, NewAnchorFields DEF ClockAhead
<1> QED
  BY <1>1, <1>2, <1>3, <1>4, <1>5, <1>6, <1>7, <1>8, Steps

\* A revocation and its reason come together, after the anchor, for ever.
LEMMA NextRevocationExplained ==
  TypeOK /\ ClockAhead /\ RevocationExplained /\ [Next]_vars => RevocationExplained'
<1> SUFFICES ASSUME TypeOK, ClockAhead, RevocationExplained, [Next]_vars
             PROVE  RevocationExplained'
  OBVIOUS
<1>h. Hash \subseteq AnyHash
  BY DEF AnyHash
<1>1. ASSUME anchors' = anchors, reasons' = reasons
      PROVE  RevocationExplained'
  BY <1>1 DEF RevocationExplained, Revoked, Anchored
<1>2. ASSUME NEW s \in Account, NEW x \in AnyHash, Anchor(s, x)
      PROVE  RevocationExplained'
  <2>1. reasons' = reasons
    BY <1>2, AnchorEffect
  <2>2. \A h \in Hash : \/ anchors'[h] = anchors[h]
                        \/ ~Anchored(h) /\ anchors'[h].revokedAt = 0
    BY <1>2, <1>h, AnchorEffect, NewAnchorFields
  <2> QED
    BY <2>1, <2>2 DEF RevocationExplained, Revoked, Anchored
<1>3. ASSUME NEW s \in Account, NEW b \in Batches, AnchorBatch(s, b)
      PROVE  RevocationExplained'
  <2>1. reasons' = reasons
    BY <1>3, BatchEffect
  <2>2. \A h \in Hash : \/ anchors'[h] = anchors[h]
                        \/ ~Anchored(h) /\ anchors'[h].revokedAt = 0
    BY <1>3, <1>h, BatchEffect, NewAnchorFields
  <2> QED
    BY <2>1, <2>2 DEF RevocationExplained, Revoked, Anchored
<1>4. ASSUME NEW s \in Account, NEW x \in AnyHash, NEW r \in AnyText, Revoke(s, x, r)
      PROVE  RevocationExplained'
  BY <1>4, <1>h, Dates, RevokeEffect
     DEF RevocationExplained, Revoked, Anchored, ClockAhead
<1>5. ASSUME NEW s \in Account, NEW old \in AnyHash, NEW new \in AnyHash,
             Supersede(s, old, new)
      PROVE  RevocationExplained'
  <2>1. reasons' = reasons
    BY <1>5, SupersedeEffect
  <2>2. \A h \in Hash : \/ /\ anchors'[h].issuedAt = anchors[h].issuedAt
                           /\ anchors'[h].revokedAt = anchors[h].revokedAt
                        \/ ~Anchored(h) /\ anchors'[h].revokedAt = 0
    BY <1>5, <1>h, SupersedeEffect, NewAnchorFields
  <2> QED
    BY <2>1, <2>2 DEF RevocationExplained, Revoked, Anchored
<1> QED
  BY <1>1, <1>2, <1>3, <1>4, <1>5, Steps, ApproveEffect, SuspendEffect, ReinstateEffect
     DEF Quiet

\* A verifier is never shown a revocation without a reason, nor a reason for a
\* record nobody revoked, nor a revocation older than its record.
THEOREM RegistryRevocationExplained == Spec => []RevocationExplained
<1>1. Init => RevocationExplained
  BY Empty DEF RevocationExplained, Revoked, AnyHash
<1> QED
  BY <1>1, InitTypeOK, NextTypeOK, InitClockAhead, NextClockAhead,
     NextRevocationExplained, PTL DEF Spec

\* An anchor's issuer was approved before it wrote, and did not write while
\* suspended, whatever is approved, suspended or reinstated later.
LEMMA NextIssuedInGoodStanding ==
  TypeOK /\ ClockAhead /\ IssuedInGoodStanding /\ [Next]_vars => IssuedInGoodStanding'
<1> SUFFICES ASSUME TypeOK, ClockAhead, IssuedInGoodStanding, [Next]_vars
             PROVE  IssuedInGoodStanding'
  OBVIOUS
<1>h. Hash \subseteq AnyHash /\ Account \subseteq AnyAddress
  BY DEF AnyHash, AnyAddress
<1>t. \A h \in AnyHash : anchors[h].issuer \in AnyAddress
  BY DEF TypeOK, AnchorEntry
<1>1. CASE Quiet
  BY <1>1 DEF Quiet, IssuedInGoodStanding, Anchored
<1>2. ASSUME NEW s \in Account, NEW a \in AnyAddress, NEW k \in Kind, NEW n \in AnyText,
             ApproveIssuer(s, a, k, n)
      PROVE  IssuedInGoodStanding'
  BY <1>2, <1>h, <1>t, ApproveEffect DEF IssuedInGoodStanding, Anchored, Approved
<1>3. ASSUME NEW s \in Account, NEW a \in AnyAddress, NEW r \in AnyText,
             SuspendIssuer(s, a, r)
      PROVE  IssuedInGoodStanding'
  BY <1>3, <1>h, <1>t, Dates, SuspendEffect DEF IssuedInGoodStanding, Anchored, ClockAhead
<1>4. ASSUME NEW s \in Account, NEW a \in AnyAddress, ReinstateIssuer(s, a)
      PROVE  IssuedInGoodStanding'
  BY <1>4, <1>h, <1>t, ReinstateEffect DEF IssuedInGoodStanding, Anchored
<1>5. ASSUME NEW s \in Account, NEW x \in AnyHash, Anchor(s, x)
      PROVE  IssuedInGoodStanding'
  BY <1>5, <1>h, Dates, AnchorEffect, NewAnchorFields
     DEF IssuedInGoodStanding, Anchored, ActiveIssuer, Approved, ClockAhead
<1>6. ASSUME NEW s \in Account, NEW b \in Batches, AnchorBatch(s, b)
      PROVE  IssuedInGoodStanding'
  BY <1>6, <1>h, Dates, BatchEffect, NewAnchorFields
     DEF IssuedInGoodStanding, Anchored, ActiveIssuer, Approved, ClockAhead
<1>7. ASSUME NEW s \in Account, NEW x \in AnyHash, NEW r \in AnyText, Revoke(s, x, r)
      PROVE  IssuedInGoodStanding'
  BY <1>7, <1>h, RevokeEffect DEF IssuedInGoodStanding, Anchored
<1>8. ASSUME NEW s \in Account, NEW old \in AnyHash, NEW new \in AnyHash,
             Supersede(s, old, new)
      PROVE  IssuedInGoodStanding'
  BY <1>8, <1>h, Dates, SupersedeEffect, NewAnchorFields
     DEF IssuedInGoodStanding, Anchored, ActiveIssuer, Approved, ClockAhead
<1> QED
  BY <1>1, <1>2, <1>3, <1>4, <1>5, <1>6, <1>7, <1>8, Steps

\* Suspension is not retroactive and cannot be evaded: every anchor was made
\* by an issuer in good standing at the time.
THEOREM RegistryIssuedInGoodStanding == Spec => []IssuedInGoodStanding
<1>1. Init => IssuedInGoodStanding
  BY Empty DEF IssuedInGoodStanding, Anchored, AnyHash
<1> QED
  BY <1>1, InitTypeOK, NextTypeOK, InitClockAhead, NextClockAhead,
     NextIssuedInGoodStanding, PTL DEF Spec

(***************************************************************************)
(* The indexes                                                             *)
(***************************************************************************)

\* Appending an element adds it, and keeps an index free of repetitions when
\* the element is new.
LEMMA AppendIndex ==
  ASSUME NEW S, NEW q \in Seq(S), NEW e \in S
  PROVE  /\ Elements(Append(q, e)) = Elements(q) \cup {e}
         /\ Distinct(q) /\ e \notin Elements(q) => Distinct(Append(q, e))
<1> DEFINE r == Append(q, e)
<1>1. /\ Len(q) \in Nat /\ Len(r) = Len(q) + 1
      /\ \A i \in 1..Len(q) : r[i] = q[i]
      /\ r[Len(q) + 1] = e
  BY AppendProperties
<1> HIDE DEF r
<1>2. Elements(r) = Elements(q) \cup {e}
  <2>1. \A i \in 1..Len(r) : r[i] \in Elements(q) \cup {e}
    BY <1>1 DEF Elements
  <2>2. \A i \in 1..Len(q) : i \in 1..Len(r)
    BY <1>1
  <2>3. Len(q) + 1 \in 1..Len(r)
    BY <1>1
  <2> QED
    BY <1>1, <2>1, <2>2, <2>3 DEF Elements
<1>3. ASSUME Distinct(q), e \notin Elements(q)
      PROVE  Distinct(r)
  BY <1>1, <1>3 DEF Distinct, Elements
<1> QED
  BY <1>2, <1>3 DEF r

\* Appending a batch adds its elements, and keeps an index free of repetitions
\* when the batch has none and none of its elements is there already.
LEMMA ConcatIndex ==
  ASSUME NEW S, NEW q \in Seq(S), NEW b \in Seq(S)
  PROVE  /\ Elements(q \o b) = Elements(q) \cup Elements(b)
         /\ Distinct(q) /\ Distinct(b) /\ Elements(q) \cap Elements(b) = {}
               => Distinct(q \o b)
<1> DEFINE r == q \o b
<1>1. /\ Len(q) \in Nat /\ Len(b) \in Nat /\ Len(r) = Len(q) + Len(b)
      /\ \A i \in 1..Len(q) : r[i] = q[i]
      /\ \A i \in 1..Len(r) : i > Len(q) => r[i] = b[i - Len(q)]
  BY ConcatProperties
<1> HIDE DEF r
<1>2. \A i \in 1..Len(r) : i \in 1..Len(q) \/ (i > Len(q) /\ i - Len(q) \in 1..Len(b))
  BY <1>1
<1>3. Elements(r) = Elements(q) \cup Elements(b)
  <2>1. \A i \in 1..Len(r) : r[i] \in Elements(q) \cup Elements(b)
    BY <1>1, <1>2 DEF Elements
  <2>2. \A i \in 1..Len(q) : q[i] \in Elements(r)
    BY <1>1 DEF Elements
  <2>3. ASSUME NEW j \in 1..Len(b) PROVE b[j] \in Elements(r)
    <3>1. j + Len(q) \in 1..Len(r) /\ r[j + Len(q)] = b[j]
      BY <1>1
    <3> QED
      BY <3>1 DEF Elements
  <2> QED
    BY <2>1, <2>2, <2>3 DEF Elements
<1>4. ASSUME Distinct(q), Distinct(b), Elements(q) \cap Elements(b) = {}
      PROVE  Distinct(r)
  <2> SUFFICES ASSUME NEW i \in 1..Len(r), NEW j \in 1..Len(r), r[i] = r[j]
               PROVE  i = j
    BY DEF Distinct
  <2>1. CASE i \in 1..Len(q) /\ j \in 1..Len(q)
    BY <1>1, <1>4, <2>1 DEF Distinct
  <2>2. CASE i > Len(q) /\ j > Len(q)
    <3>1. i - Len(q) \in 1..Len(b) /\ j - Len(q) \in 1..Len(b)
      BY <1>1, <1>2, <2>2
    <3>2. b[i - Len(q)] = b[j - Len(q)]
      BY <1>1, <2>2
    <3>3. i - Len(q) = j - Len(q)
      BY <1>4, <3>1, <3>2 DEF Distinct
    <3> QED
      BY <1>1, <3>3
  <2>3. CASE i \in 1..Len(q) /\ j > Len(q)
    <3>1. j - Len(q) \in 1..Len(b) /\ r[j] = b[j - Len(q)]
      BY <1>1, <1>2, <2>3
    <3>2. r[j] \in Elements(b) /\ r[i] \in Elements(q)
      BY <1>1, <2>3, <3>1 DEF Elements
    <3> QED
      BY <1>4, <3>2
  <2>4. CASE i > Len(q) /\ j \in 1..Len(q)
    <3>1. i - Len(q) \in 1..Len(b) /\ r[i] = b[i - Len(q)]
      BY <1>1, <1>2, <2>4
    <3>2. r[i] \in Elements(b) /\ r[j] \in Elements(q)
      BY <1>1, <2>4, <3>1 DEF Elements
    <3> QED
      BY <1>4, <3>2
  <2> QED
    BY <1>1, <1>2, <2>1, <2>2, <2>3, <2>4
<1> QED
  BY <1>3, <1>4 DEF r

\* The two halves of IndexExact.
AnchorIndexExact ==
    /\ Distinct(anchorIndex)
    /\ Elements(anchorIndex) = {h \in Hash : Anchored(h)}
    /\ ~Anchored(ZeroHash)

IssuerIndexExact ==
    /\ Distinct(issuerIndex)
    /\ Elements(issuerIndex) = {a \in Account : Approved(a)}
    /\ ~Approved(ZeroAddress)

\* The anchor index stays exact when a call writes the set `written` of fresh
\* hashes and appends exactly these.
LEMMA AnchorIndexGrows ==
  ASSUME AnchorIndexExact,
         NEW written \in SUBSET Hash,
         Distinct(anchorIndex'), Elements(anchorIndex') = Elements(anchorIndex) \cup written,
         \A h \in AnyHash : IF h \in written THEN Anchored(h)' ELSE Anchored(h)' = Anchored(h)
  PROVE  AnchorIndexExact'
<1>1. ZeroHash \notin written /\ ZeroHash \in AnyHash /\ Hash \subseteq AnyHash
  BY RegistryAssumption DEF AnyHash
<1> QED
  BY <1>1 DEF AnchorIndexExact

\* The anchor index is exact after every step, whatever the call appends.
LEMMA NextAnchorIndexExact ==
  TypeOK /\ AnchorIndexExact /\ [Next]_vars => AnchorIndexExact'
<1> SUFFICES ASSUME TypeOK, AnchorIndexExact, [Next]_vars PROVE AnchorIndexExact'
  OBVIOUS
<1>n. now # 0 /\ Hash \subseteq AnyHash
  BY Dates DEF AnyHash
<1>s. anchorIndex \in Seq(AnyHash)
  BY DEF TypeOK
<1>1. ASSUME anchors' = anchors, anchorIndex' = anchorIndex
      PROVE  AnchorIndexExact'
  BY <1>1 DEF AnchorIndexExact, Anchored
<1>2. ASSUME NEW s \in Account, NEW x \in AnyHash, Anchor(s, x)
      PROVE  AnchorIndexExact'
  <2>1. x \in Hash /\ x \notin Elements(anchorIndex)
    BY <1>2, AnchorEffect DEF AnchorIndexExact
  <2>2. anchorIndex' = Append(anchorIndex, x)
    BY <1>2 DEF Anchor
  <2>3. /\ Distinct(anchorIndex')
        /\ Elements(anchorIndex') = Elements(anchorIndex) \cup {x}
    BY <1>s, <2>1, <2>2, AppendIndex DEF AnchorIndexExact
  <2>4. \A h \in AnyHash :
           IF h \in {x} THEN Anchored(h)' ELSE Anchored(h)' = Anchored(h)
    BY <1>2, <1>n, AnchorEffect, NewAnchorFields DEF Anchored
  <2> QED
    BY <2>1, <2>3, <2>4, AnchorIndexGrows
<1>3. ASSUME NEW s \in Account, NEW b \in Batches, AnchorBatch(s, b)
      PROVE  AnchorIndexExact'
  <2>1. /\ Elements(b) \subseteq Hash
        /\ Elements(anchorIndex) \cap Elements(b) = {}
    BY <1>3, BatchEffect DEF AnchorIndexExact
  <2>2. anchorIndex' = anchorIndex \o b /\ Distinct(b) /\ b \in Seq(AnyHash)
    BY <1>3, BatchType DEF AnchorBatch
  <2>3. /\ Distinct(anchorIndex')
        /\ Elements(anchorIndex') = Elements(anchorIndex) \cup Elements(b)
    BY <1>s, <2>1, <2>2, ConcatIndex DEF AnchorIndexExact
  <2>4. \A h \in AnyHash :
           IF h \in Elements(b) THEN Anchored(h)' ELSE Anchored(h)' = Anchored(h)
    BY <1>3, <1>n, BatchEffect, NewAnchorFields DEF Anchored
  <2> QED
    BY <2>1, <2>3, <2>4, AnchorIndexGrows
<1>4. ASSUME NEW s \in Account, NEW x \in AnyHash, NEW r \in AnyText, Revoke(s, x, r)
      PROVE  AnchorIndexExact'
  <2>1. anchorIndex' = anchorIndex
    BY <1>4 DEF Revoke
  <2>2. \A h \in AnyHash : anchors'[h].issuedAt = anchors[h].issuedAt
    BY <1>4, RevokeEffect
  <2>3. ZeroHash \in AnyHash
    BY DEF AnyHash
  <2> QED
    BY <1>n, <2>1, <2>2, <2>3 DEF AnchorIndexExact, Anchored
<1>5. ASSUME NEW s \in Account, NEW old \in AnyHash, NEW new \in AnyHash,
             Supersede(s, old, new)
      PROVE  AnchorIndexExact'
  <2>1. new \in Hash /\ new \notin Elements(anchorIndex)
    BY <1>5, SupersedeEffect DEF AnchorIndexExact
  <2>2. anchorIndex' = Append(anchorIndex, new)
    BY <1>5 DEF Supersede
  <2>3. /\ Distinct(anchorIndex')
        /\ Elements(anchorIndex') = Elements(anchorIndex) \cup {new}
    BY <1>s, <2>1, <2>2, AppendIndex DEF AnchorIndexExact
  <2>4. \A h \in AnyHash :
           IF h \in {new} THEN Anchored(h)' ELSE Anchored(h)' = Anchored(h)
    BY <1>5, <1>n, SupersedeEffect, NewAnchorFields DEF Anchored
  <2> QED
    BY <2>1, <2>3, <2>4, AnchorIndexGrows
<1> QED
  <2>1. ASSUME NEW s \in Account, NEW a \in AnyAddress, NEW k \in Kind, NEW n \in AnyText,
               ApproveIssuer(s, a, k, n)
        PROVE  anchors' = anchors /\ anchorIndex' = anchorIndex
    BY <2>1 DEF ApproveIssuer, ledger
  <2>2. ASSUME NEW s \in Account, NEW a \in AnyAddress, NEW r \in AnyText,
               SuspendIssuer(s, a, r)
        PROVE  anchors' = anchors /\ anchorIndex' = anchorIndex
    BY <2>2 DEF SuspendIssuer, ledger
  <2>3. ASSUME NEW s \in Account, NEW a \in AnyAddress, ReinstateIssuer(s, a)
        PROVE  anchors' = anchors /\ anchorIndex' = anchorIndex
    BY <2>3 DEF ReinstateIssuer, ledger
  <2> QED
    BY <1>1, <1>2, <1>3, <1>4, <1>5, <2>1, <2>2, <2>3, Steps DEF Quiet

\* The issuer index is exact after every step: only an approval touches it.
LEMMA NextIssuerIndexExact ==
  TypeOK /\ IssuerIndexExact /\ [Next]_vars => IssuerIndexExact'
<1> SUFFICES ASSUME TypeOK, IssuerIndexExact, [Next]_vars PROVE IssuerIndexExact'
  OBVIOUS
<1>z. ZeroAddress \in AnyAddress /\ ZeroAddress \notin Account /\ Account \subseteq AnyAddress
  BY RegistryAssumption DEF AnyAddress
<1>1. ASSUME issuerIndex' = issuerIndex,
             \A c \in AnyAddress : issuers'[c].kind = issuers[c].kind
      PROVE  IssuerIndexExact'
  BY <1>z, <1>1 DEF IssuerIndexExact, Approved
<1>2. ASSUME NEW s \in Account, NEW a \in AnyAddress, NEW k \in Kind, NEW n \in AnyText,
             ApproveIssuer(s, a, k, n)
      PROVE  IssuerIndexExact'
  <2>1. a \in Account /\ a \notin Elements(issuerIndex)
    BY <1>2, ApproveEffect DEF IssuerIndexExact
  <2>2. issuerIndex' = Append(issuerIndex, a) /\ issuerIndex \in Seq(AnyAddress)
    BY <1>2 DEF ApproveIssuer, TypeOK
  <2>3. /\ Distinct(issuerIndex')
        /\ Elements(issuerIndex') = Elements(issuerIndex) \cup {a}
    BY <2>1, <2>2, AppendIndex DEF IssuerIndexExact
  <2>4. Approved(a)' /\ \A c \in AnyAddress : c # a => Approved(c)' = Approved(c)
    BY <1>2, ApproveEffect DEF Approved
  <2>5. {c \in Account : Approved(c)'} = {c \in Account : Approved(c)} \cup {a}
    BY <1>z, <2>1, <2>4
  <2>6. ~Approved(ZeroAddress)'
    BY <1>z, <2>1, <2>4 DEF IssuerIndexExact
  <2> QED
    BY <2>3, <2>5, <2>6 DEF IssuerIndexExact
<1>3. ASSUME NEW s \in Account, NEW a \in AnyAddress, NEW r \in AnyText,
             SuspendIssuer(s, a, r)
      PROVE  IssuerIndexExact'
  <2>1. issuerIndex' = issuerIndex
    BY <1>3 DEF SuspendIssuer
  <2>2. \A c \in AnyAddress : issuers'[c].kind = issuers[c].kind
    BY <1>3, SuspendEffect
  <2> QED
    BY <1>1, <2>1, <2>2
<1>4. ASSUME NEW s \in Account, NEW a \in AnyAddress, ReinstateIssuer(s, a)
      PROVE  IssuerIndexExact'
  <2>1. issuerIndex' = issuerIndex
    BY <1>4 DEF ReinstateIssuer
  <2>2. \A c \in AnyAddress : issuers'[c].kind = issuers[c].kind
    BY <1>4, ReinstateEffect
  <2> QED
    BY <1>1, <2>1, <2>2
<1> QED
  BY <1>1, <1>2, <1>3, <1>4, Steps DEF Quiet, Anchor, AnchorBatch, Revoke, Supersede

\* Before the first call both indexes are empty, and nothing is in storage.
LEMMA InitIndexExact == Init => AnchorIndexExact /\ IssuerIndexExact
<1> SUFFICES ASSUME Init PROVE AnchorIndexExact /\ IssuerIndexExact
  OBVIOUS
<1>1. anchorIndex = << >> /\ issuerIndex = << >>
  BY DEF Init
<1>2. Elements(<< >>) = {} /\ Distinct(<< >>)
  BY DEF Elements, Distinct
<1>3. \A h \in AnyHash : ~Anchored(h)
  BY Empty DEF Anchored
<1>4. \A a \in AnyAddress : ~Approved(a)
  BY Empty DEF Approved
<1> QED
  BY <1>1, <1>2, <1>3, <1>4 DEF AnchorIndexExact, IssuerIndexExact, AnyHash, AnyAddress

\* Both halves hold on every reachable state.
LEMMA SpecIndexExact == Spec => [](AnchorIndexExact /\ IssuerIndexExact)
  BY InitTypeOK, NextTypeOK, InitIndexExact, NextAnchorIndexExact, NextIssuerIndexExact,
     PTL DEF Spec

\* Walking the indexes enumerates exactly the anchored records and the
\* registered issuers, each once, for batches of any size.
THEOREM RegistryIndexExact == Spec => []IndexExact
<1>1. AnchorIndexExact /\ IssuerIndexExact => IndexExact
  BY DEF AnchorIndexExact, IssuerIndexExact, IndexExact
<1> QED
  BY <1>1, SpecIndexExact, PTL

(***************************************************************************)
(* Corrections                                                             *)
(***************************************************************************)

\* The order of two entries of the index never changes.
LEMMA BeforeKept ==
  ASSUME TypeOK, TypeOK', AppendStep, NEW h, NEW g, Before(h, g)
  PROVE  Before(h, g)'
<1>1. Len(anchorIndex) \in Nat /\ Len(anchorIndex') \in Nat
  BY DEF TypeOK
<1>2. /\ Len(anchorIndex) <= Len(anchorIndex')
      /\ \A i \in 1..Len(anchorIndex) : anchorIndex'[i] = anchorIndex[i]
  BY DEF AppendStep
<1>3. PICK i, j \in 1..Len(anchorIndex) :
          i < j /\ anchorIndex[i] = h /\ anchorIndex[j] = g
  BY DEF Before
<1>4. i \in 1..Len(anchorIndex') /\ j \in 1..Len(anchorIndex')
  BY <1>1, <1>2
<1>5. anchorIndex'[i] = h /\ anchorIndex'[j] = g /\ i < j
  BY <1>2, <1>3
<1> QED
  BY <1>4, <1>5 DEF Before

\* What comes last in an order of the index is anchored.
LEMMA BeforeAnchored ==
  ASSUME AnchorIndexExact, NEW h, NEW g, Before(h, g)
  PROVE  g \in Hash /\ Anchored(g)
  BY DEF Before, AnchorIndexExact, Elements

\* A step that links no record keeps every link good.
LEMMA CorrectionsKept ==
  ASSUME TypeOK, TypeOK', AnchorIndexExact, CorrectionsResolve, AppendStep,
         \A h \in Hash : Anchored(h) => Anchored(h)',
         \A h \in Hash : \/ anchors'[h].supersededBy = anchors[h].supersededBy
                         \/ anchors'[h].supersededBy = ZeroHash
  PROVE  CorrectionsResolve'
<1> SUFFICES ASSUME NEW h \in Hash, Superseded(h)'
             PROVE  /\ Anchored(h)'
                    /\ Before(h, anchors[h].supersededBy)'
                    /\ anchors'[anchors'[h].supersededBy].issuer = anchors'[h].issuer
                    /\ \A g \in Hash :
                          anchors'[g].supersededBy = anchors'[h].supersededBy => g = h
  BY DEF CorrectionsResolve
<1>0. PICK t : t = anchors[h].supersededBy
  OBVIOUS
<1>1. anchors'[h].supersededBy = t /\ t # ZeroHash
  BY <1>0 DEF Superseded
<1>2. /\ Anchored(h) /\ Before(h, t) /\ anchors[t].issuer = anchors[h].issuer
      /\ \A g \in Hash : anchors[g].supersededBy = t => g = h
  BY <1>0, <1>1 DEF CorrectionsResolve, Superseded
<1>3. t \in Hash /\ Anchored(t)
  BY <1>2, BeforeAnchored
<1>4. anchors'[t].issuer = anchors'[h].issuer
  BY <1>2, <1>3 DEF AppendStep
<1>5. Before(h, t)'
  BY <1>2, BeforeKept
<1>6. \A g \in Hash : anchors'[g].supersededBy = t => g = h
  BY <1>1, <1>2
<1> QED
  BY <1>1, <1>2, <1>4, <1>5, <1>6

\* A correction links a record to a fresh one, by the same issuer.
LEMMA SupersedeResolves ==
  ASSUME TypeOK, TypeOK', AnchorIndexExact, CorrectionsResolve, AppendStep,
         NEW s \in Account, NEW old \in AnyHash, NEW new \in AnyHash, Supersede(s, old, new)
  PROVE  CorrectionsResolve'
<1>e. /\ anchors[old].issuer = s /\ new \in Hash /\ ~Anchored(new) /\ old # new
      /\ Anchored(old) /\ ~Superseded(old)
      /\ anchors'[new] = NewAnchor(s)
      /\ anchors'[old].issuer = anchors[old].issuer
      /\ anchors'[old].issuedAt = anchors[old].issuedAt
      /\ anchors'[old].supersededBy = new
      /\ \A h \in AnyHash : h # old /\ h # new => anchors'[h] = anchors[h]
  BY SupersedeEffect
<1>f. /\ anchors'[new].issuer = s /\ anchors'[new].supersededBy = ZeroHash
  BY <1>e, NewAnchorFields
<1>z. old \in Hash /\ Hash \subseteq AnyHash /\ ZeroHash \notin Hash
  BY <1>e, RegistryAssumption DEF AnchorIndexExact, AnyHash
<1>t. \A h \in Hash : Superseded(h) => /\ anchors[h].supersededBy \in Hash
                                       /\ Anchored(anchors[h].supersededBy)
  BY BeforeAnchored DEF CorrectionsResolve
<1>n. \A h \in Hash : anchors[h].supersededBy # new
  BY <1>e, <1>t, <1>z DEF Superseded
<1> SUFFICES ASSUME NEW h \in Hash, Superseded(h)'
             PROVE  /\ Anchored(h)'
                    /\ Before(h, anchors[h].supersededBy)'
                    /\ anchors'[anchors'[h].supersededBy].issuer = anchors'[h].issuer
                    /\ \A g \in Hash :
                          anchors'[g].supersededBy = anchors'[h].supersededBy => g = h
  BY DEF CorrectionsResolve
<1>1. CASE h = old
  <2>1. Anchored(h)'
    BY <1>1, <1>e DEF Anchored
  <2>2. Before(old, new)'
    <3>1. PICK i \in 1..Len(anchorIndex) : anchorIndex[i] = old
      BY <1>e, <1>z DEF AnchorIndexExact, Elements
    <3>2. /\ Len(anchorIndex) \in Nat /\ Len(anchorIndex') = Len(anchorIndex) + 1
          /\ anchorIndex'[i] = old /\ anchorIndex'[Len(anchorIndex) + 1] = new
      BY <3>1, AppendProperties DEF TypeOK, Supersede
    <3>3. /\ i \in 1..Len(anchorIndex') /\ Len(anchorIndex) + 1 \in 1..Len(anchorIndex')
          /\ i < Len(anchorIndex) + 1
      BY <3>1, <3>2
    <3> QED
      BY <3>2, <3>3 DEF Before
  <2>3. \A g \in Hash : anchors'[g].supersededBy = new => g = old
    BY <1>e, <1>f, <1>n, <1>z
  <2> QED
    BY <1>1, <1>e, <1>f, <2>1, <2>2, <2>3
<1>2. CASE h # old
  <2>1. h # new /\ anchors'[h] = anchors[h]
    BY <1>2, <1>e, <1>f, <1>z DEF Superseded
  <2>0. PICK t : t = anchors[h].supersededBy
    OBVIOUS
  <2>2. /\ Anchored(h) /\ Before(h, t) /\ anchors[t].issuer = anchors[h].issuer
        /\ \A g \in Hash : anchors[g].supersededBy = t => g = h
    BY <2>0, <2>1 DEF CorrectionsResolve, Superseded
  <2>3. t \in Hash /\ Anchored(t) /\ t # new /\ t # ZeroHash
    BY <2>2, <1>e, <1>z, BeforeAnchored
  <2>4. anchors'[t].issuer = anchors[t].issuer
    BY <2>3 DEF AppendStep
  <2>5. Before(h, t)'
    BY <2>2, BeforeKept
  <2>6. \A g \in Hash : anchors'[g].supersededBy = t => g = h
    BY <1>e, <1>f, <1>z, <2>2, <2>3
  <2>7. Anchored(h)'
    BY <2>1, <2>2 DEF Anchored
  <2> QED
    BY <2>0, <2>1, <2>2, <2>4, <2>5, <2>6, <2>7
<1> QED
  BY <1>1, <1>2

\* Links stay good through every step.
LEMMA NextCorrectionsResolve ==
  TypeOK /\ AnchorIndexExact /\ CorrectionsResolve /\ [Next]_vars => CorrectionsResolve'
<1> SUFFICES ASSUME TypeOK, AnchorIndexExact, CorrectionsResolve, [Next]_vars
             PROVE  CorrectionsResolve'
  OBVIOUS
<1>a. TypeOK' /\ AppendStep /\ Hash \subseteq AnyHash
  BY NextTypeOK, NextAppendStep DEF AnyHash
<1>k. \A h \in Hash : Anchored(h) => Anchored(h)'
  BY <1>a DEF AppendStep, Anchored
<1>1. ASSUME NEW s \in Account, NEW x \in AnyHash, Anchor(s, x)
      PROVE  CorrectionsResolve'
  <2>1. \A h \in Hash : \/ anchors'[h].supersededBy = anchors[h].supersededBy
                        \/ anchors'[h].supersededBy = ZeroHash
    BY <1>a, <1>1, AnchorEffect, NewAnchorFields
  <2> QED
    BY <1>a, <1>k, <2>1, CorrectionsKept
<1>2. ASSUME NEW s \in Account, NEW b \in Batches, AnchorBatch(s, b)
      PROVE  CorrectionsResolve'
  <2>1. \A h \in Hash : \/ anchors'[h].supersededBy = anchors[h].supersededBy
                        \/ anchors'[h].supersededBy = ZeroHash
    BY <1>a, <1>2, BatchEffect, NewAnchorFields
  <2> QED
    BY <1>a, <1>k, <2>1, CorrectionsKept
<1>3. ASSUME NEW s \in Account, NEW x \in AnyHash, NEW r \in AnyText, Revoke(s, x, r)
      PROVE  CorrectionsResolve'
  <2>1. \A h \in Hash : anchors'[h].supersededBy = anchors[h].supersededBy
    BY <1>a, <1>3, RevokeEffect
  <2> QED
    BY <1>a, <1>k, <2>1, CorrectionsKept
<1>4. ASSUME NEW s \in Account, NEW old \in AnyHash, NEW new \in AnyHash,
             Supersede(s, old, new)
      PROVE  CorrectionsResolve'
  BY <1>a, <1>4, SupersedeResolves
<1>5. ASSUME anchors' = anchors
      PROVE  CorrectionsResolve'
  BY <1>a, <1>k, <1>5, CorrectionsKept
<1> QED
  BY <1>1, <1>2, <1>3, <1>4, <1>5, Steps, ApproveEffect, SuspendEffect, ReinstateEffect
     DEF Quiet

\* Following the links from a superseded record leads, by one path and through
\* later and later anchors of the same issuer, to its current correction.
THEOREM RegistryCorrectionsResolve == Spec => []CorrectionsResolve
<1>1. Init => CorrectionsResolve
  BY Empty DEF CorrectionsResolve, Superseded, AnyHash
<1> QED
  BY <1>1, InitTypeOK, NextTypeOK, InitIndexExact, NextAnchorIndexExact,
     NextCorrectionsResolve, PTL DEF Spec
=============================================================================
