-------------------------- MODULE ConsoleDataProofs --------------------------
(***************************************************************************)
(* Proofs about the consoles' data, for any number of changes of the       *)
(* watched query and of writes under way.                                  *)
(***************************************************************************)
EXTENDS ConsoleData, TLAPS

(***************************************************************************)
(* What is invalidated                                                     *)
(***************************************************************************)
\* The words keys are made of.
Word == {"offers", "passport", "share-links", "seeker-profile", "org-documents",
         "subscription", "quota", "claims", "records", "stats", "activity", "registrar",
         "summary", "verify-history", "organizations"} \cup Filter

\* A key is invalidated by its own name, and by the name of its family.
LEMMA OwnPrefix == \A s \in Seq(Word) : IsPrefix(s, s)
BY DEF IsPrefix

LEMMA FamilyPrefix == \A s \in Seq(Word), f \in Word : IsPrefix(s, Append(s, f))
BY DEF IsPrefix

LEMMA KeysAreSequences ==
  /\ {Offers, Passport, ShareLinks, Profile} \subseteq Seq(Word)
  /\ {OrgDocuments, Subscription, Quota, Claims, RecordStats, Activity, RegSummary}
        \subseteq Seq(Word)
  /\ {Records, History, RegOrgs} \subseteq Seq(Word)
<1>1. Offers \in Seq(Word) /\ Passport \in Seq(Word) /\ ShareLinks \in Seq(Word)
  BY DEF Offers, Passport, ShareLinks, Word
<1>2. Profile \in Seq(Word) /\ OrgDocuments \in Seq(Word) /\ Subscription \in Seq(Word)
  BY DEF Profile, OrgDocuments, Subscription, Word
<1>3. Quota \in Seq(Word) /\ Claims \in Seq(Word) /\ RecordStats \in Seq(Word)
  BY DEF Quota, Claims, RecordStats, Word
<1>4. Activity \in Seq(Word) /\ RegSummary \in Seq(Word)
  BY DEF Activity, RegSummary, Word
<1>5. Records \in Seq(Word) /\ History \in Seq(Word) /\ RegOrgs \in Seq(Word)
  BY DEF Records, History, RegOrgs, Word
<1> QED
  BY <1>1, <1>2, <1>3, <1>4, <1>5

LEMMA FamilyCovered ==
  ASSUME NEW s \in Seq(Word), NEW key \in Filtered(s)
  PROVE  IsPrefix(s, key)
BY FamilyPrefix DEF Filtered, Word

\* A hook invalidates every query its write touches, but for the effects left out
\* (hooks.ts: the onSuccess of each mutation, against the views behind it).
Covers(w, key) == \E prefix \in Invalidates[w] : IsPrefix(prefix, key)

LEMMA CitizenWritesCovered ==
  ASSUME NEW w \in DOMAIN CitizenWrites, NEW key \in Touches(w), <<w, key>> \notin LeftOut
  PROVE  Covers(w, key)
<1>1. Invalidates[w] = CitizenWrites[w]
  BY DEF Invalidates, Write
<1>2. w \in {"answerOffer", "createLink", "revokeLink", "claimExperience", "changePassword",
             "updateProfile"}
  BY DEF CitizenWrites
<1>3. key \in CitizenWrites[w]
  BY <1>2 DEF CitizenWrites, Touches, LeftOut
<1>4. CitizenWrites[w] \subseteq {Offers, Passport, ShareLinks, Profile}
  BY <1>2 DEF CitizenWrites
<1>5. key \in Seq(Word)
  BY <1>3, <1>4, KeysAreSequences
<1> QED
  BY <1>1, <1>3, <1>5, OwnPrefix DEF Covers

LEMMA OtherWritesCovered ==
  ASSUME NEW w \in DOMAIN OtherWrites, NEW key \in Touches(w), <<w, key>> \notin LeftOut
  PROVE  Covers(w, key)
<1>1. w \in {"uploadDocument", "revokeRecord", "issueRecord", "uploadBatch", "changePlan",
             "verifyDocument", "reviewClaim", "transition", "provision"}
  BY DEF OtherWrites
<1>2. w \in Write /\ w \notin DOMAIN CitizenWrites
  BY <1>1 DEF Write, CitizenWrites
<1>3. Invalidates[w] = OtherWrites[w]
  BY <1>2 DEF Invalidates
<1>4. SUFFICES \E prefix \in OtherWrites[w] : IsPrefix(prefix, key)
  BY <1>3 DEF Covers
<1>5. CASE w = "uploadDocument"
  <2>1. key = OrgDocuments
    BY <1>5 DEF Touches, LeftOut
  <2> QED
    BY <1>5, <2>1, KeysAreSequences, OwnPrefix DEF OtherWrites, UploadDocument
<1>6. CASE w = "changePlan"
  <2>1. key \in {Subscription, Quota}
    BY <1>6 DEF Touches, LeftOut
  <2> QED
    BY <1>6, <2>1, KeysAreSequences, OwnPrefix DEF OtherWrites, ChangePlan
<1>7. CASE w = "verifyDocument"
  <2>1. key = Quota \/ key \in Filtered(History)
    BY <1>7 DEF Touches, LeftOut, HistoryReads
  <2> QED
    BY <1>7, <2>1, KeysAreSequences, OwnPrefix, FamilyCovered DEF OtherWrites, VerifyDocument
<1>8. CASE w = "reviewClaim"
  <2>1. key \in {Claims, RecordStats, Activity} \/ key \in Filtered(Records)
    BY <1>2, <1>8 DEF Touches, LeftOut, RecordReads, Published
  <2> QED
    BY <1>8, <2>1, KeysAreSequences, OwnPrefix, FamilyCovered DEF OtherWrites, ReviewClaim
<1>9. CASE w \in {"transition", "provision"}
  <2>1. key = RegSummary \/ key \in Filtered(RegOrgs)
    BY <1>2, <1>9 DEF Touches, LeftOut, RegistrarReads
  <2>2. OtherWrites[w] = {RegOrgs, RegSummary}
    BY <1>9 DEF OtherWrites, Transition, Provision
  <2> QED
    BY <2>1, <2>2, KeysAreSequences, OwnPrefix, FamilyCovered
<1>10. CASE w \in {"revokeRecord", "issueRecord", "uploadBatch"}
  <2>1. key \in {RecordStats, Activity} \/ key \in Filtered(Records)
    <3>1. CASE w = "issueRecord"
      BY <3>1 DEF Touches, RecordReads
    <3>2. CASE w \in {"revokeRecord", "uploadBatch"}
      BY <1>2, <3>2 DEF Touches, LeftOut, RecordReads, Published
    <3> QED
      BY <1>10, <3>1, <3>2
  <2>2. {Records, RecordStats, Activity} \subseteq OtherWrites[w]
    BY <1>10 DEF OtherWrites, RevokeRecord, IssueRecord, UploadBatch
  <2> QED
    BY <2>1, <2>2, KeysAreSequences, OwnPrefix, FamilyCovered
<1> QED
  BY <1>1, <1>5, <1>6, <1>7, <1>8, <1>9, <1>10

\* Whatever a write changes on the server is in a query that its hook invalidates,
\* but for the pairs that LeftOut names one by one (the onSuccess of the mutations of
\* hooks.ts, against the serializers behind the queries).
THEOREM EveryWriteCovered ==
  ASSUME NEW w \in Write, NEW key \in Touches(w), <<w, key>> \notin LeftOut
  PROVE  Covers(w, key)
BY CitizenWritesCovered, OtherWritesCovered DEF Write

(***************************************************************************)
(* Type correctness                                                        *)
(***************************************************************************)
Request == [pc : {"sent", "read"}, version : 0..data, tries : 0..2, overtaken : BOOLEAN]
Entry == [version : 0..data, invalid : BOOLEAN, stale : BOOLEAN, overtaken : BOOLEAN]
Flight == [write : Write, pc : {"sent", "done"}, version : 0..data]

\* The parts of TypeOK, by what the steps leave alone together.
PlaceTyped ==
    console \in Console /\ watched \in ReadsOf(console) /\ page \in PagesOf[console]
VersionsTyped == data \in 1..MaxVersion /\ known \in 0..data
EntryTyped == entry \in Entry /\ (entry.invalid => HasData)
FetchTyped == fetch \in {NoFetch} \cup Request
FlightsTyped ==
    /\ flights \subseteq Flight
    /\ \A f, g \in flights : f.write = g.write => f = g

LEMMA TypedParts ==
  TypeOK <=> PlaceTyped /\ VersionsTyped /\ EntryTyped /\ FetchTyped /\ FlightsTyped
BY DEF TypeOK, PlaceTyped, VersionsTyped, EntryTyped, FetchTyped, FlightsTyped,
       Request, Entry, Flight

LEMMA TypedAfter ==
  (PlaceTyped' /\ VersionsTyped' /\ EntryTyped' /\ FetchTyped' /\ FlightsTyped') => TypeOK'
BY DEF TypeOK, PlaceTyped, VersionsTyped, EntryTyped, FetchTyped, FlightsTyped,
       Request, Entry, Flight

LEMMA PartsStay ==
  /\ PlaceTyped /\ UNCHANGED <<watched, console, page>> => PlaceTyped'
  /\ VersionsTyped /\ UNCHANGED <<data, known>> => VersionsTyped'
  /\ EntryTyped /\ UNCHANGED <<entry, data>> => EntryTyped'
  /\ FetchTyped /\ UNCHANGED <<fetch, data>> => FetchTyped'
  /\ FlightsTyped /\ UNCHANGED <<flights, data>> => FlightsTyped'
<1>1. PlaceTyped /\ UNCHANGED <<watched, console, page>> => PlaceTyped'
  BY DEF PlaceTyped, ReadsOf
<1>2. VersionsTyped /\ UNCHANGED <<data, known>> => VersionsTyped'
  BY DEF VersionsTyped
<1>3. EntryTyped /\ UNCHANGED <<entry, data>> => EntryTyped'
  BY DEF EntryTyped, Entry, HasData
<1>4. FetchTyped /\ UNCHANGED <<fetch, data>> => FetchTyped'
  BY DEF FetchTyped, Request
<1>5. FlightsTyped /\ UNCHANGED <<flights, data>> => FlightsTyped'
  BY DEF FlightsTyped, Flight
<1> QED
  BY <1>1, <1>2, <1>3, <1>4, <1>5

\* Versions stay versions while the data moves on.
LEMMA DataMovesOn ==
  ASSUME VersionsTyped, EntryTyped, FetchTyped, UNCHANGED <<known, entry, fetch>>,
         data' \in {data, data + 1}, data' <= MaxVersion
  PROVE  VersionsTyped' /\ EntryTyped' /\ FetchTyped' /\ 0..data \subseteq 0..data'
<1>1. data' \in 1..MaxVersion /\ 0..data \subseteq 0..data'
  BY BoundsAssumption DEF VersionsTyped
<1>2. VersionsTyped'
  BY <1>1 DEF VersionsTyped
<1>3. EntryTyped'
  BY <1>1 DEF EntryTyped, Entry, HasData
<1>4. FetchTyped'
  BY <1>1 DEF FetchTyped, Request
<1> QED
  BY <1>1, <1>2, <1>3, <1>4

LEMMA AskedIsRequest ==
  ASSUME VersionsTyped
  PROVE  Asked \in Request
BY DEF VersionsTyped, Asked, Request

\* A page of the console, one of those alike for the watched query.
LEMMA PagesOfConsole ==
  ASSUME NEW c \in Console
  PROVE  PageOf(c) \subseteq PagesOf[c]
BY DEF PageOf

LEMMA InitTyped ==
  ASSUME Init
  PROVE  TypeOK
<1>1. PlaceTyped
  BY PagesOfConsole DEF Init, PlaceTyped
<1>2. VersionsTyped
  BY BoundsAssumption DEF Init, VersionsTyped
<1>3. EntryTyped
  BY DEF Init, Empty, EntryTyped, Entry, HasData
<1>4. FetchTyped
  BY <1>2, AskedIsRequest DEF Init, FetchTyped
<1>5. FlightsTyped
  BY DEF Init, FlightsTyped
<1> QED
  BY <1>1, <1>2, <1>3, <1>4, <1>5, TypedParts

\* Invalidating marks the entry, and asks again or marks the request.
LEMMA InvalidateEffect ==
  ASSUME TypeOK, Invalidate
  PROVE  /\ entry' \in Entry /\ entry'.version = entry.version /\ entry'.invalid = HasData
         /\ fetch' \in {NoFetch} \cup Request
         /\ \/ fetch' = NoFetch \/ fetch'.pc = "sent" \/ fetch'.overtaken
<1>1. VersionsTyped /\ EntryTyped /\ FetchTyped
  BY TypedParts
<1>2. HasData \in BOOLEAN
  BY DEF HasData
<1>3. entry' = [entry EXCEPT !.invalid = HasData, !.stale = FALSE]
  BY DEF Invalidate
<1>4. entry' \in Entry /\ entry'.version = entry.version /\ entry'.invalid = HasData
  BY <1>1, <1>2, <1>3 DEF EntryTyped, Entry
<1>5. fetch' = Asked \/ (fetch' = fetch /\ fetch = NoFetch)
      \/ (fetch # NoFetch /\ fetch' = [fetch EXCEPT !.overtaken = TRUE])
  BY DEF Invalidate, Overtake
<1>6. Asked \in Request /\ Asked.pc = "sent"
  BY <1>1, AskedIsRequest DEF Asked
<1>7. fetch # NoFetch =>
        /\ [fetch EXCEPT !.overtaken = TRUE] \in Request
        /\ [fetch EXCEPT !.overtaken = TRUE].overtaken
  BY <1>1 DEF FetchTyped, Request
<1> QED
  BY <1>4, <1>5, <1>6, <1>7

LEMMA WriteAnsweredTyped ==
  ASSUME TypeOK, NEW f \in flights, WriteAnswered(f)
  PROVE  TypeOK'
<1>1. PlaceTyped /\ VersionsTyped /\ EntryTyped /\ FetchTyped /\ FlightsTyped
  BY TypedParts
<1>2. UNCHANGED <<watched, console, page, data>> /\ flights' = flights \ {f}
  BY DEF WriteAnswered
<1>3. PlaceTyped'
  BY <1>1, <1>2, PartsStay
<1>4. VersionsTyped'
  <2>1. f.version \in 0..data
    BY <1>1 DEF FlightsTyped, Flight
  <2>2. known' \in {f.version, known}
    BY DEF WriteAnswered
  <2> QED
    BY <1>1, <1>2, <2>1, <2>2 DEF VersionsTyped
<1>5. FlightsTyped'
  BY <1>1, <1>2 DEF FlightsTyped, Flight
<1>6. EntryTyped' /\ FetchTyped'
  <2>1. CASE Invalidate
    <3>1. /\ entry' \in Entry /\ entry'.version = entry.version /\ entry'.invalid = HasData
          /\ fetch' \in {NoFetch} \cup Request
      BY <2>1, InvalidateEffect
    <3>2. entry'.invalid => entry'.version # 0
      BY <3>1 DEF HasData
    <3> QED
      BY <1>2, <3>1, <3>2 DEF EntryTyped, FetchTyped, Entry, Request, HasData
  <2>2. CASE UNCHANGED <<entry, fetch>>
    BY <1>1, <1>2, <2>2, PartsStay
  <2> QED
    BY <2>1, <2>2 DEF WriteAnswered
<1> QED
  BY <1>3, <1>4, <1>5, <1>6, TypedAfter

LEMMA ServeWriteTyped ==
  ASSUME TypeOK, NEW f \in flights, ServeWrite(f)
  PROVE  TypeOK'
<1>1. PlaceTyped /\ VersionsTyped /\ EntryTyped /\ FetchTyped /\ FlightsTyped
  BY TypedParts
<1>2. PICK d : d = data'
  OBVIOUS
<1>3. /\ UNCHANGED <<watched, console, page, known, entry, fetch>>
      /\ d \in {data, data + 1} /\ data < MaxVersion
      /\ flights' = (flights \ {f}) \cup {[f EXCEPT !.pc = "done", !.version = d]}
  BY <1>2 DEF ServeWrite
<1>4. d <= MaxVersion
  BY <1>1, <1>3, BoundsAssumption DEF VersionsTyped
<1>5. VersionsTyped' /\ EntryTyped' /\ FetchTyped' /\ 0..data \subseteq 0..d
  BY <1>1, <1>2, <1>3, <1>4, DataMovesOn
<1>6. FlightsTyped'
  <2> DEFINE g == [f EXCEPT !.pc = "done", !.version = d]
  <2>1. f \in Flight
    BY <1>1 DEF FlightsTyped
  <2>2. d \in 0..d
    BY <1>1, <1>3 DEF VersionsTyped
  <2>3. g \in [write : Write, pc : {"sent", "done"}, version : 0..d] /\ g.write = f.write
    BY <2>1, <2>2 DEF Flight
  <2>4. flights \subseteq [write : Write, pc : {"sent", "done"}, version : 0..d]
    BY <1>1, <1>5 DEF FlightsTyped, Flight
  <2>5. flights' = (flights \ {f}) \cup {g}
    BY <1>3
  <2> HIDE DEF g
  <2>6. flights' \subseteq Flight'
    BY <1>2, <2>3, <2>4, <2>5 DEF Flight
  <2>7. \A a, b \in flights' : a.write = b.write => a = b
    BY <1>1, <2>3, <2>5 DEF FlightsTyped
  <2> QED
    BY <2>6, <2>7 DEF FlightsTyped
<1> QED
  BY <1>1, <1>3, <1>5, <1>6, PartsStay, TypedAfter

LEMMA ReadFailsTyped ==
  ASSUME TypeOK, NEW answer, ReadFails(answer)
  PROVE  TypeOK'
<1>1. PlaceTyped /\ VersionsTyped /\ EntryTyped /\ FetchTyped /\ FlightsTyped
  BY TypedParts
<1>2. UNCHANGED <<watched, console, page, data, known, flights>> /\ fetch \in Request
  BY <1>1 DEF ReadFails, FetchTyped
<1>3. CASE /\ Retry(fetch.tries, answer)
           /\ fetch' = [fetch EXCEPT !.pc = "sent", !.tries = (@ + 1) % 3]
           /\ UNCHANGED entry
  <2>1. (fetch.tries + 1) % 3 \in 0..2
    BY <1>2 DEF Request
  <2>2. fetch' \in Request
    BY <1>2, <1>3, <2>1 DEF Request
  <2>3. FetchTyped'
    BY <1>2, <2>2 DEF FetchTyped, Request
  <2> QED
    BY <1>1, <1>2, <1>3, <2>3, PartsStay, TypedAfter
<1>4. CASE fetch' = NoFetch /\ entry' = [entry EXCEPT !.invalid = HasData, !.stale = FALSE]
  <2>1. HasData \in BOOLEAN
    BY DEF HasData
  <2>2. entry' \in Entry /\ entry'.version = entry.version /\ entry'.invalid = HasData
    BY <1>1, <1>4, <2>1 DEF EntryTyped, Entry
  <2>3. entry'.invalid => entry'.version # 0
    BY <2>2 DEF HasData
  <2>4. EntryTyped'
    BY <1>2, <2>2, <2>3 DEF EntryTyped, Entry, HasData
  <2>5. FetchTyped'
    BY <1>4 DEF FetchTyped
  <2> QED
    BY <1>1, <1>2, <2>4, <2>5, PartsStay, TypedAfter
<1> QED
  BY <1>3, <1>4 DEF ReadFails

LEMMA NextTyped ==
  ASSUME TypeOK, [Next]_vars
  PROVE  TypeOK'
<1>1. PlaceTyped /\ VersionsTyped /\ EntryTyped /\ FetchTyped /\ FlightsTyped
  BY TypedParts
<1>2. Asked \in Request
  BY <1>1, AskedIsRequest
<1>3. CASE GrowStale
  <2>1. EntryTyped'
    BY <1>1, <1>3 DEF GrowStale, EntryTyped, Entry, HasData
  <2> QED
    BY <1>1, <1>3, <2>1, PartsStay, TypedAfter DEF GrowStale
<1>4. ASSUME NEW p \in PageOf(console), Visit(p) PROVE TypeOK'
  <2>1. PlaceTyped'
    BY <1>1, <1>4, PagesOfConsole DEF Visit, PlaceTyped, ReadsOf
  <2>2. FetchTyped'
    BY <1>1, <1>2, <1>4 DEF Visit, Mount, AskIfIdle, FetchTyped, Request
  <2> QED
    BY <1>1, <1>4, <2>1, <2>2, PartsStay, TypedAfter DEF Visit
<1>5. CASE PollLedger
  <2>1. FetchTyped'
    BY <1>2, <1>5 DEF PollLedger, FetchTyped, Request
  <2> QED
    BY <1>1, <1>5, <2>1, PartsStay, TypedAfter DEF PollLedger
<1>6. CASE ServeRead
  <2>1. FetchTyped'
    <3>1. data \in 0..data
      BY <1>1 DEF VersionsTyped
    <3> QED
      BY <1>1, <1>6, <3>1 DEF ServeRead, FetchTyped, Request
  <2> QED
    BY <1>1, <1>6, <2>1, PartsStay, TypedAfter DEF ServeRead
<1>7. CASE ReadArrives
  <2>1. FetchTyped'
    BY <1>7 DEF ReadArrives, FetchTyped
  <2>2. EntryTyped'
    BY <1>1, <1>7 DEF ReadArrives, FetchTyped, Request, EntryTyped, Entry, HasData
  <2> QED
    BY <1>1, <1>7, <2>1, <2>2, PartsStay, TypedAfter DEF ReadArrives
<1>8. ASSUME NEW answer \in {"refused", "failed"}, ReadFails(answer) PROVE TypeOK'
  BY <1>8, ReadFailsTyped
<1>9. ASSUME NEW w \in Write, Mutate(w) PROVE TypeOK'
  <2> DEFINE g == [write |-> w, pc |-> "sent", version |-> 0]
  <2>1. g \in Flight /\ g.write = w
    BY <1>1 DEF VersionsTyped, Flight
  <2>2. flights' = flights \cup {g} /\ \A f \in flights : f.write # w
    BY <1>9 DEF Mutate
  <2> HIDE DEF g
  <2>3. FlightsTyped'
    <3>1. \A a, b \in flights' : a.write = b.write => a = b
      BY <1>1, <2>1, <2>2 DEF FlightsTyped
    <3>2. data' = data /\ flights' \subseteq Flight
      BY <1>1, <1>9, <2>1, <2>2 DEF Mutate, FlightsTyped
    <3> QED
      BY <3>1, <3>2 DEF FlightsTyped, Flight
  <2> QED
    BY <1>1, <1>9, <2>3, PartsStay, TypedAfter DEF Mutate
<1>10. ASSUME NEW f \in flights, ServeWrite(f) \/ WriteAnswered(f) PROVE TypeOK'
  BY <1>10, ServeWriteTyped, WriteAnsweredTyped
<1>11. ASSUME NEW f \in flights, WriteFails(f) PROVE TypeOK'
  <2>1. FlightsTyped'
    BY <1>1, <1>11 DEF WriteFails, FlightsTyped, Flight
  <2> QED
    BY <1>1, <1>11, <2>1, PartsStay, TypedAfter DEF WriteFails
<1>12. CASE OthersWrite
  <2>1. data' = data + 1 /\ data < MaxVersion /\ UNCHANGED <<known, entry, fetch>>
        /\ UNCHANGED <<watched, console, page, flights>>
    BY <1>12 DEF OthersWrite
  <2>2. data' <= MaxVersion
    BY <1>1, <2>1, BoundsAssumption DEF VersionsTyped
  <2>3. VersionsTyped' /\ EntryTyped' /\ FetchTyped' /\ 0..data \subseteq 0..data'
    BY <1>1, <2>1, <2>2, DataMovesOn
  <2>4. FlightsTyped'
    BY <1>1, <2>1, <2>3 DEF FlightsTyped, Flight
  <2> QED
    BY <1>1, <2>1, <2>3, <2>4, PartsStay, TypedAfter
<1>13. CASE UNCHANGED vars
  BY <1>1, <1>13, PartsStay, TypedAfter DEF vars
<1> QED
  BY <1>3, <1>4, <1>5, <1>6, <1>7, <1>8, <1>9, <1>10, <1>11, <1>12, <1>13 DEF Next

\* The cache's entry, its request and the writes under way have their shape, no
\* answer is newer than the data, and a form's write is under way at most once.
THEOREM DataTypeCorrect == Spec => []TypeOK
<1>1. Init => TypeOK
  BY InitTyped
<1>2. TypeOK /\ [Next]_vars => TypeOK'
  BY NextTyped
<1> QED
  BY <1>1, <1>2, PTL DEF Spec

(***************************************************************************)
(* Own writes are seen                                                     *)
(***************************************************************************)
\* An answer under way that no acknowledged write has overtaken is not older
\* than any of them.
AnswerFresh ==
    (fetch # NoFetch /\ fetch.pc = "read" /\ ~fetch.overtaken) => fetch.version >= known

SeenInv == OwnWritesSeen /\ AnswerFresh

\* The acknowledgement of a write: either the query is invalidated, or nothing
\* it was to show has changed.
LEMMA WriteAnsweredSeen ==
  ASSUME TypeOK, SeenInv, NEW f \in flights, WriteAnswered(f)
  PROVE  SeenInv'
<1>1. FlightsTyped
  BY TypedParts
<1>2. CASE Invalidate
  <2>1. /\ entry'.version = entry.version /\ entry'.invalid = HasData
        /\ \/ fetch' = NoFetch \/ fetch'.pc = "sent" \/ fetch'.overtaken
    BY <1>2, InvalidateEffect
  <2>2. OwnWritesSeen'
    BY <2>1 DEF OwnWritesSeen, HasData
  <2>3. AnswerFresh'
    BY <2>1 DEF AnswerFresh
  <2> QED
    BY <2>2, <2>3 DEF SeenInv
<1>3. CASE ~\E prefix \in Invalidates[f.write] : IsPrefix(prefix, watched)
  <2>1. f.write \in Write
    BY <1>1 DEF FlightsTyped, Flight
  <2>2. ~(watched \in Touches(f.write) /\ <<f.write, watched>> \notin LeftOut)
    BY <1>3, <2>1, EveryWriteCovered DEF Covers
  <2>3. UNCHANGED <<known, entry, fetch>>
    BY <1>3, <2>2 DEF WriteAnswered
  <2> QED
    BY <2>3 DEF SeenInv, OwnWritesSeen, AnswerFresh, HasData
<1> QED
  BY <1>2, <1>3 DEF WriteAnswered

LEMMA NextSeen ==
  ASSUME TypeOK, SeenInv, [Next]_vars
  PROVE  SeenInv'
<1>1. VersionsTyped /\ EntryTyped /\ FetchTyped
  BY TypedParts
<1>2. CASE GrowStale
  <2>1. UNCHANGED <<known, fetch>> /\ entry' = [entry EXCEPT !.stale = TRUE]
    BY <1>2 DEF GrowStale
  <2>2. entry'.version = entry.version /\ entry'.invalid = entry.invalid
        /\ entry'.overtaken = entry.overtaken
    BY <1>1, <2>1 DEF EntryTyped, Entry
  <2> QED
    BY <2>1, <2>2 DEF SeenInv, OwnWritesSeen, AnswerFresh, HasData
<1>3. CASE UNCHANGED <<known, entry>> /\ (fetch' = Asked \/ fetch' = fetch)
  <2>1. OwnWritesSeen'
    BY <1>3 DEF SeenInv, OwnWritesSeen, HasData
  <2>2. AnswerFresh'
    BY <1>3 DEF SeenInv, AnswerFresh, Asked
  <2> QED
    BY <2>1, <2>2 DEF SeenInv
<1>4. CASE ServeRead
  <2>1. UNCHANGED <<known, entry>> /\ fetch' = [fetch EXCEPT !.pc = "read", !.version = data]
    BY <1>4 DEF ServeRead
  <2>2. fetch \in Request
    BY <1>1, <1>4 DEF ServeRead, FetchTyped
  <2>3. fetch'.version = data /\ data >= known
    BY <1>1, <2>1, <2>2 DEF VersionsTyped, Request
  <2>4. AnswerFresh'
    BY <2>1, <2>3 DEF AnswerFresh
  <2> QED
    BY <2>1, <2>4 DEF SeenInv, OwnWritesSeen, HasData
<1>5. CASE ReadArrives
  <2>1. /\ fetch # NoFetch /\ fetch.pc = "read" /\ fetch' = NoFetch /\ known' = known
        /\ entry'.version = fetch.version /\ entry'.overtaken = fetch.overtaken
    BY <1>5 DEF ReadArrives
  <2> QED
    BY <2>1 DEF SeenInv, OwnWritesSeen, AnswerFresh
<1>6. ASSUME NEW answer \in {"refused", "failed"}, ReadFails(answer) PROVE SeenInv'
  <2>1. known' = known /\ fetch \in Request
    BY <1>1, <1>6 DEF ReadFails, FetchTyped
  <2>2. CASE fetch' = [fetch EXCEPT !.pc = "sent", !.tries = (@ + 1) % 3] /\ UNCHANGED entry
    <3>1. fetch'.pc = "sent"
      BY <2>1, <2>2 DEF Request
    <3> QED
      BY <2>1, <2>2, <3>1 DEF SeenInv, OwnWritesSeen, AnswerFresh, HasData
  <2>3. CASE fetch' = NoFetch /\ entry' = [entry EXCEPT !.invalid = HasData, !.stale = FALSE]
    <3>1. entry'.version = entry.version /\ entry'.invalid = HasData
      BY <1>1, <2>3 DEF EntryTyped, Entry
    <3> QED
      BY <2>3, <3>1 DEF SeenInv, OwnWritesSeen, AnswerFresh, HasData
  <2> QED
    BY <1>6, <2>2, <2>3 DEF ReadFails
<1>7. ASSUME NEW f \in flights, WriteAnswered(f) PROVE SeenInv'
  BY <1>7, WriteAnsweredSeen
<1>8. CASE \/ \E p \in PageOf(console) : Visit(p)
           \/ PollLedger
           \/ \E w \in Write : Mutate(w)
           \/ \E f \in flights : ServeWrite(f) \/ WriteFails(f)
           \/ OthersWrite
           \/ UNCHANGED vars
  <2>1. UNCHANGED <<known, entry>> /\ (fetch' = Asked \/ fetch' = fetch)
    BY <1>8 DEF Visit, Mount, AskIfIdle, PollLedger, Mutate, ServeWrite, WriteFails,
                OthersWrite, vars
  <2> QED
    BY <1>3, <2>1
<1> QED
  BY <1>2, <1>4, <1>5, <1>6, <1>7, <1>8 DEF Next

\* Once a write of ours has been acknowledged, no query it concerns is taken for
\* valid with data from before it (hooks.ts, the onSuccess of each mutation),
\* whatever page is open by then and however often the data changes; the effects
\* the hooks leave out and the requests a write overtook excepted.
THEOREM OwnWritesAreSeen == Spec => []OwnWritesSeen
<1>1. Init => SeenInv
  BY DEF Init, SeenInv, OwnWritesSeen, AnswerFresh, Empty, HasData, Asked
<1>2. TypeOK /\ SeenInv /\ [Next]_vars => SeenInv'
  BY NextSeen
<1>3. SeenInv => OwnWritesSeen
  BY DEF SeenInv
<1> QED
  BY <1>1, <1>2, <1>3, DataTypeCorrect, PTL DEF Spec
=============================================================================
