----------------------------- MODULE ConsoleData -----------------------------
(***************************************************************************)
(* What the consoles show of the server, and when they ask again:          *)
(* lib/api/hooks.ts (every read and write), components/providers.tsx (the  *)
(* query client's options) and the pages that mount the reads.             *)
(*                                                                         *)
(* Queries do not affect each other, so a behaviour watches one of them:   *)
(* its data on the server is a version, raised by every write that touches *)
(* it.  Writes that neither touch nor invalidate the watched query are     *)
(* left out.  The cache itself is @tanstack/react-query 5 (external).      *)
(***************************************************************************)
EXTENDS Integers, FiniteSets, Sequences, SequencesExt

CONSTANTS
    MaxVersion,     \* bound of the model: changes of the watched data
    MaxFlights,     \* bound of the model: writes in flight at once
    NoFetch

ASSUME BoundsAssumption == MaxVersion \in Nat \ {0} /\ MaxFlights \in Nat

(***************************************************************************)
(* Query keys; a list that takes a filter has a key per filter.            *)
(***************************************************************************)
Passport     == <<"passport">>
Offers       == <<"offers">>
AccessLog    == <<"access-log">>
ShareLinks   == <<"share-links">>
Profile      == <<"seeker-profile">>
Directory    == <<"org-directory", "?kind=EMPLOYER">>
Records      == <<"records">>
RecordStats  == <<"records", "stats">>
Claims       == <<"claims">>
Batches      == <<"batches">>
MyOrg        == <<"organization">>
Members      == <<"org-members">>
OrgDocuments == <<"org-documents">>
Activity     == <<"activity">>
Subscription == <<"subscription">>
Quota        == <<"quota">>
History      == <<"verify-history">>
Candidates   == <<"candidates", "">>
RegOrgs      == <<"registrar", "organizations">>
RegSummary   == <<"registrar", "summary">>
Ledger       == <<"ledger-status">>

Filter == {"", "?filtered"}
Filtered(key) == {Append(key, f) : f \in Filter}

\* The queries each group of hooks declares.
CitizenReads    == {Passport, Offers, AccessLog, ShareLinks, Profile}
PickerReads     == {Directory, Candidates}
PanelReads      == {Members, OrgDocuments}
IssuerReads     == {RecordStats, Activity, MyOrg} \cup Filtered(Records)
AllowanceReads  == {Quota, Subscription}
HistoryReads    == Filtered(History)
RegistrarReads  == {RegSummary} \cup Filtered(RegOrgs)

(***************************************************************************)
(* Where they are mounted: the reads of a console's layout, and of pages.  *)
(***************************************************************************)
Layout == [citizen  |-> {Offers},        issuer |-> {RecordStats, MyOrg},
           employer |-> {MyOrg, Claims}, admin  |-> {RegSummary}]

Shows(keys, writes) == [read |-> keys, write |-> writes]

CitizenDashboard   == Shows({Passport, Offers, AccessLog, ShareLinks}, {})
CredentialsPage    == Shows({Passport, Offers}, {"answerOffer"})
ProfilePage        == Shows({Profile}, {"updateProfile", "changePassword"})
NewSharePage       == Shows({Passport, ShareLinks}, {"createLink", "revokeLink"})
NewClaimPage       == Shows({Directory, Passport}, {"claimExperience"})
AccessLogPage      == Shows({AccessLog}, {})
CitizenPages == {CitizenDashboard, CredentialsPage, ProfilePage, NewSharePage, NewClaimPage,
                 AccessLogPage}

OrganizationPanel  == Shows({MyOrg} \cup PanelReads, {"uploadDocument"})
IssueForms         == Shows({}, {"issueRecord", "uploadBatch"})   \* two pages, no reads

IssuerDashboard    == Shows({RecordStats, Append(Records, ""), Activity, Ledger}, {})
IssuerActivityPage == Shows({Activity, Ledger, MyOrg}, {})
IssuerHistoryPage(key) == Shows({key}, {"revokeRecord"})
IssuerPages == {IssuerDashboard, IssueForms, IssuerActivityPage, OrganizationPanel}
               \cup {IssuerHistoryPage(key) : key \in Filtered(Records)}

EmployerDashboard  == Shows({Quota, Append(History, ""), Claims, Ledger}, {})
VerifyPage         == Shows({Quota}, {"verifyDocument"})
BillingPage        == Shows(AllowanceReads, {"changePlan"})
ClaimsPage         == Shows({Claims}, {"reviewClaim"})
CandidatesPage     == Shows({Candidates}, {})
EmployerHistoryPage(key) == Shows({key}, {})
EmployerPages == {EmployerDashboard, VerifyPage, BillingPage, ClaimsPage, CandidatesPage,
                  IssueForms, OrganizationPanel}
                 \cup {EmployerHistoryPage(key) : key \in HistoryReads}

AdminDashboard     == Shows({RegSummary, Ledger}, {})
CreateAccountForm  == Shows({}, {"provision"})
OrganizationsPage(key) == Shows({key}, {"transition"})
AdminPages == {AdminDashboard, CreateAccountForm}
              \cup {OrganizationsPage(key) : key \in Filtered(RegOrgs)}

PagesOf == [citizen |-> CitizenPages, issuer |-> IssuerPages,
            employer |-> EmployerPages, admin |-> AdminPages]
Console == DOMAIN PagesOf
ReadsOf(c) == Layout[c] \cup UNION {p.read : p \in PagesOf[c]}
Key == UNION {ReadsOf(c) : c \in Console}

(***************************************************************************)
(* What a successful write invalidates, by prefix.                         *)
(***************************************************************************)
\* Mutants: an accepted offer leaves the passport alone; a lookup the meter.
CitizenWritesPassportForgotten ==
    [answerOffer     |-> {Offers},
     createLink      |-> {ShareLinks},  revokeLink     |-> {ShareLinks},
     claimExperience |-> {Passport},    changePassword |-> {},
     updateProfile   |-> {Profile, Passport}]
VerifyDocumentMeterForgotten == {History}

CitizenWrites ==
    [answerOffer     |-> {Offers, Passport},
     createLink      |-> {ShareLinks},  revokeLink     |-> {ShareLinks},
     claimExperience |-> {Passport},    changePassword |-> {},
     updateProfile   |-> {Profile, Passport}]
UploadDocument == {OrgDocuments}
RevokeRecord   == {Records, RecordStats, Activity}
IssueRecord    == {Records, RecordStats, Activity}
UploadBatch    == {Records, RecordStats, Batches, Activity}
ChangePlan     == {Subscription, Quota}
VerifyDocument == {Quota, History}
ReviewClaim    == {Claims, Records, RecordStats, Activity}
Transition     == {RegOrgs, RegSummary}
Provision      == {RegOrgs, RegSummary}

OtherWrites ==
    [uploadDocument |-> UploadDocument, revokeRecord   |-> RevokeRecord,
     issueRecord    |-> IssueRecord,    uploadBatch    |-> UploadBatch,
     changePlan     |-> ChangePlan,     verifyDocument |-> VerifyDocument,
     reviewClaim    |-> ReviewClaim,    transition     |-> Transition,
     provision      |-> Provision]

Write == DOMAIN CitizenWrites \cup DOMAIN OtherWrites
Invalidates ==
    [w \in Write |-> IF w \in DOMAIN CitizenWrites THEN CitizenWrites[w] ELSE OtherWrites[w]]

(***************************************************************************)
(* What it changes on the server, of the queries above: the serializers    *)
(* behind them show more than the table a write goes to.  An organisation  *)
(* shows its documents and its plan, a link the number of its records, a   *)
(* candidate the count of credentials issued, the ledger the node's block; *)
(* a lookup and a change of plan leave an event of the organisation's.  A  *)
(* refused write may leave something too (see Forms): ServeWrite, then     *)
(* WriteFails.                                                             *)
(***************************************************************************)
RecordReads == {RecordStats, Activity} \cup Filtered(Records)
Published   == {Candidates, Ledger}

Touches(w) ==
    CASE w = "answerOffer"     -> {Offers, Passport, ShareLinks}
      [] w \in {"createLink", "revokeLink"} -> {ShareLinks}
      [] w = "claimExperience" -> {Passport}
      [] w = "changePassword"  -> {}
      [] w = "updateProfile"   -> {Profile, Passport}
      [] w = "uploadDocument"  -> {OrgDocuments, MyOrg}
      [] w = "changePlan"      -> {Subscription, Quota, MyOrg, Activity}
      [] w = "verifyDocument"  -> {Quota, Activity} \cup HistoryReads
      [] w = "reviewClaim"     -> {Claims} \cup RecordReads \cup Published
      [] w = "issueRecord"     -> RecordReads
      [] w \in {"transition", "provision"} -> RegistrarReads \cup {Ledger}
      [] OTHER                 -> RecordReads \cup Published

\* What no hook announces, though its write changes it: left to the next mount
\* that finds it stale or, for the ledger, to the poll.
LeftOut ==
    {<<"answerOffer", ShareLinks>>, <<"uploadDocument", MyOrg>>, <<"changePlan", MyOrg>>}
    \cup {"changePlan", "verifyDocument"} \X {Activity}
    \cup {"reviewClaim", "uploadBatch", "revokeRecord"} \X {Candidates}
    \cup Write \X {Ledger}

VARIABLES
    watched, console,   \* chosen at the start
    page,               \* the page shown
    data,               \* the server's version of the watched query
    known,              \* the largest version a credited write of ours answered with
    entry,              \* the query's cache entry
    fetch,              \* its request under way
    flights             \* writes under way

vars == <<watched, console, page, data, known, entry, fetch, flights>>

Empty == [version |-> 0, invalid |-> FALSE, stale |-> FALSE, overtaken |-> FALSE]
HasData == entry.version # 0

\* overtaken: a write was acknowledged while the request was under way, and it
\* was joined instead of being sent again.
Asked == [pc |-> "sent", version |-> 0, tries |-> 0, overtaken |-> FALSE]

Mounted == watched \in Layout[console] \cup page.read

Matters(w) == watched \in Touches(w) \/ \E prefix \in Invalidates[w] : IsPrefix(prefix, watched)

\* One of the pages that are alike for the watched query.
Effect(p) == <<watched \in p.read, {w \in p.write : Matters(w)}>>
PageOf(c) == {CHOOSE p \in PagesOf[c] : Effect(p) = e : e \in {Effect(p) : p \in PagesOf[c]}}

(***************************************************************************)
(* The cache (external).  A request is joined while one is under way,      *)
(* except that an invalidation starts again a request for data already     *)
(* held.  What nobody mounts is only marked.                               *)
(***************************************************************************)
AskIfIdle == fetch' = IF fetch = NoFetch THEN Asked ELSE fetch

Mount ==
    IF ~HasData \/ entry.invalid \/ entry.stale
    THEN AskIfIdle ELSE UNCHANGED fetch

Overtake == fetch' = IF fetch = NoFetch THEN fetch ELSE [fetch EXCEPT !.overtaken = TRUE]

Invalidate ==
    /\ entry' = [entry EXCEPT !.invalid = HasData, !.stale = FALSE]
    /\ CASE Mounted /\ HasData -> fetch' = Asked
         [] Mounted /\ ~HasData /\ fetch = NoFetch -> fetch' = Asked
         [] OTHER -> Overtake

(***************************************************************************)
(* The query client's options.                                             *)
(***************************************************************************)
\* Mutant: the count of failures is ignored.
RetryForever(tries, answer) == answer = "failed"

\* retry: never after a 4xx, else twice.
Retry(tries, answer) == answer = "failed" /\ tries < 2

\* staleTime: fifteen seconds go by (invalid data needs no telling).
GrowStale ==
    /\ HasData /\ ~entry.stale /\ ~entry.invalid
    /\ entry' = [entry EXCEPT !.stale = TRUE]
    /\ UNCHANGED <<watched, console, page, data, known, fetch, flights>>

(***************************************************************************)
(* Actions.                                                                *)
(***************************************************************************)
Visit(p) ==
    /\ p # page
    /\ page' = p
    /\ IF watched \in p.read THEN Mount ELSE UNCHANGED fetch
    /\ UNCHANGED <<watched, console, data, known, entry, flights>>

\* refetchInterval of useLedgerStatus; its mutant forgets it.
NeverPolls == FALSE /\ UNCHANGED vars

PollLedger ==
    /\ watched = Ledger /\ Mounted /\ fetch = NoFetch
    /\ fetch' = Asked
    /\ UNCHANGED <<watched, console, page, data, known, entry, flights>>

\* The server reads the data it will answer with.
ServeRead ==
    /\ fetch # NoFetch /\ fetch.pc = "sent"
    /\ fetch' = [fetch EXCEPT !.pc = "read", !.version = data]
    /\ UNCHANGED <<watched, console, page, data, known, entry, flights>>

ReadArrives ==
    /\ fetch # NoFetch /\ fetch.pc = "read"
    /\ entry' = [version |-> fetch.version, invalid |-> FALSE, stale |-> FALSE,
                 overtaken |-> fetch.overtaken]
    /\ fetch' = NoFetch
    /\ UNCHANGED <<watched, console, page, data, known, flights>>

\* answer: refused (a 4xx) or failed (a 5xx, or none).  Retries stop once
\* nothing mounts the query.
ReadFails(answer) ==
    /\ fetch # NoFetch
    /\ IF Mounted /\ Retry(fetch.tries, answer)
       THEN /\ fetch' = [fetch EXCEPT !.pc = "sent", !.tries = (@ + 1) % 3]
            /\ UNCHANGED entry
       ELSE /\ fetch' = NoFetch
            /\ entry' = [entry EXCEPT !.invalid = HasData, !.stale = FALSE]
    /\ UNCHANGED <<watched, console, page, data, known, flights>>

\* Mutant: nothing is disabled while the mutation is pending.
MutateWhilePending(w) ==
    /\ w \in page.write /\ Matters(w)
    /\ Cardinality(flights) < MaxFlights
    /\ flights' = flights \cup {[write |-> w, pc |-> "sent", version |-> 0]}
    /\ UNCHANGED <<watched, console, page, data, known, entry, fetch>>

\* A mutation of the page's forms and buttons; leaving the page does not stop it.
Mutate(w) ==
    /\ w \in page.write /\ Matters(w)
    /\ Cardinality(flights) < MaxFlights
    /\ \A f \in flights : f.write # w
    /\ flights' = flights \cup {[write |-> w, pc |-> "sent", version |-> 0]}
    /\ UNCHANGED <<watched, console, page, data, known, entry, fetch>>

ServeWrite(f) ==
    /\ f.pc = "sent" /\ data < MaxVersion
    /\ data' = IF watched \in Touches(f.write) THEN data + 1 ELSE data
    /\ flights' = (flights \ {f})
                  \cup {[f EXCEPT !.pc = "done", !.version = data']}
    /\ UNCHANGED <<watched, console, page, known, entry, fetch>>

\* onSuccess, whether or not the page is still there.
WriteAnswered(f) ==
    /\ f.pc = "done"
    /\ flights' = flights \ {f}
    /\ known' = IF watched \in Touches(f.write) /\ <<f.write, watched>> \notin LeftOut
                   /\ f.version > known
                THEN f.version ELSE known
    /\ IF \E prefix \in Invalidates[f.write] : IsPrefix(prefix, watched)
       THEN Invalidate ELSE UNCHANGED <<entry, fetch>>
    /\ UNCHANGED <<watched, console, page, data>>

\* Refused, or lost before or after it took effect: mutations are not retried
\* and invalidate nothing.
WriteFails(f) ==
    /\ flights' = flights \ {f}
    /\ UNCHANGED <<watched, console, page, data, known, entry, fetch>>

\* Somebody else changes the data.
OthersWrite ==
    /\ data < MaxVersion
    /\ data' = data + 1
    /\ UNCHANGED <<watched, console, page, known, entry, fetch, flights>>

Init ==
    /\ console \in Console
    /\ watched \in ReadsOf(console)
    /\ page \in PageOf(console)
    /\ data = 1 /\ known = 0
    /\ entry = Empty
    /\ fetch = IF Mounted THEN Asked ELSE NoFetch
    /\ flights = {}

Next ==
    \/ GrowStale
    \/ \E p \in PageOf(console) : Visit(p)
    \/ PollLedger
    \/ ServeRead
    \/ ReadArrives
    \/ \E answer \in {"refused", "failed"} : ReadFails(answer)
    \/ \E w \in Write : Mutate(w)
    \/ \E f \in flights : ServeWrite(f) \/ WriteAnswered(f) \/ WriteFails(f)
    \/ OthersWrite

\* A request is answered or fails, the poll's timer fires, and a ledger node
\* that is asked for ever answers in the end.  Nobody has to click.
Fairness ==
    /\ WF_vars(ServeRead)
    /\ WF_vars(ReadArrives \/ \E answer \in {"refused", "failed"} : ReadFails(answer))
    /\ WF_vars(PollLedger)
    /\ SF_vars(watched = Ledger /\ ServeRead) /\ SF_vars(watched = Ledger /\ ReadArrives)

Spec == Init /\ [][Next]_vars /\ Fairness

-----------------------------------------------------------------------------
\* The shape of the state; one write of a kind at a time.
TypeOK ==
    /\ console \in Console /\ watched \in ReadsOf(console)
    /\ page \in PagesOf[console]
    /\ data \in 1..MaxVersion /\ known \in 0..data
    /\ entry \in [version : 0..data, invalid : BOOLEAN, stale : BOOLEAN,
                  overtaken : BOOLEAN]
    /\ (entry.invalid => HasData)
    /\ fetch \in {NoFetch} \cup [pc : {"sent", "read"}, version : 0..data,
                                 tries : 0..2, overtaken : BOOLEAN]
    /\ \A f \in flights :
          f \in [write : Write, pc : {"sent", "done"}, version : 0..data]
    /\ \A f, g \in flights : f.write = g.write => f = g

\* Once a write has been acknowledged, no query it concerns is taken for valid
\* with data from before it: across every page of every console, with the
\* writer still on the page or gone, for filtered and unfiltered lists (hooks.ts,
\* the onSuccess of each mutation).  Left out are the effects no hook announces,
\* pair by pair in LeftOut (the organisation after an uploaded document, the
\* candidates after an endorsement or a batch, ...), which do stay old, and an
\* answer that was already under way and was joined.
OwnWritesSeen ==
    (HasData /\ ~entry.invalid /\ ~entry.overtaken) => entry.version >= known

\* A page that shows the query comes to show the user's own acknowledged
\* writes, LeftOut apart, without another click; it may fail to, and says so.
OwnWritesShown ==
    (Mounted /\ entry.version < known) ~>
        (~Mounted \/ entry.version >= known \/ entry.overtaken
         \/ (fetch = NoFetch /\ (entry.invalid \/ ~HasData)))

\* No read is asked for ever: it ends in data or an error, even when every
\* answer fails (providers.tsx, retry).
EveryReadSettles == (fetch # NoFetch) ~> (fetch = NoFetch)

\* The chain's state changes without anybody clicking, and a page that stays
\* open on it follows, through failures (hooks.ts, useLedgerStatus).
LedgerFollowed ==
    (watched = Ledger /\ <>[]Mounted) => <>[](entry.version = data)
=============================================================================
