----------------------------- MODULE FormsProofs -----------------------------
(***************************************************************************)
(* Proofs about the forms, for any number of subjects, submissions and     *)
(* visits.                                                                 *)
(***************************************************************************)
EXTENDS Forms, TLAPS

(***************************************************************************)
(* The screens                                                             *)
(***************************************************************************)
Told   == form \notin {"account", "verify", "lookup"}
Wiped  == form \in {"verify", "lookup"}
Viewed == form \notin {"document", "profile", "password"}
Instead == form \in {"issue", "experience", "claim", "account"}
Jobs   == form \in {"experience", "claim"}

\* What each screen does with its answer, and what it sends.
LEMMA Pages ==
  ASSUME form \in Form
  PROVE  /\ Page[form].toast <=> Told
         /\ Page[form].wipes <=> Wiped
         /\ Page[form].view # "none" <=> Viewed
         /\ Page[form].view = "instead" <=> Instead
         /\ Page[form].payload = IF Jobs THEN Job ELSE draft
<1>1. CASE form = "issue"
  BY <1>1 DEF Page, IssueSinglePage, Screen, Told, Wiped, Viewed, Instead, Jobs
<1>2. CASE form = "experience"
  BY <1>2 DEF Page, ExperienceForm, Screen, Told, Wiped, Viewed, Instead, Jobs
<1>3. CASE form = "claim"
  BY <1>3 DEF Page, NewClaimPage, Screen, Told, Wiped, Viewed, Instead, Jobs
<1>4. CASE form = "account"
  BY <1>4 DEF Page, CreateAccountForm, Screen, Told, Wiped, Viewed, Instead, Jobs
<1>5. CASE form = "share"
  BY <1>5 DEF Page, NewSharePage, Screen, Told, Wiped, Viewed, Instead, Jobs
<1>6. CASE form = "batch"
  BY <1>6 DEF Page, BatchUpload, Screen, Told, Wiped, Viewed, Instead, Jobs
<1>7. CASE form = "verify"
  BY <1>7 DEF Page, VerifyForm, Screen, Told, Wiped, Viewed, Instead, Jobs
<1>8. CASE form = "lookup"
  BY <1>8 DEF Page, PublicVerifyPage, Screen, Told, Wiped, Viewed, Instead, Jobs
<1>9. CASE form = "document"
  BY <1>9 DEF Page, AccreditationDocuments, Screen, Told, Wiped, Viewed, Instead, Jobs
<1>10. CASE form = "profile"
  BY <1>10 DEF Page, ProfilePage, Screen, Told, Wiped, Viewed, Instead, Jobs
<1>11. CASE form = "password"
  BY <1>11 DEF Page, ChangePassword, Screen, Told, Wiped, Viewed, Instead, Jobs
<1> QED
  BY <1>1, <1>2, <1>3, <1>4, <1>5, <1>6, <1>7, <1>8, <1>9, <1>10, <1>11 DEF Form

\* Of a batch nothing is sent while a result is shown; nothing is sent without a subject.
LEMMA ControlsAsk ==
  ASSUME form \in Form, Controls[form]
  PROVE  /\ draft.about # Blank
         /\ form = "batch" => shown = None
         /\ Jobs => (draft.first \/ draft.second)
<1>1. CASE form = "issue"
  BY <1>1 DEF Controls, IssueControls, Filled, Jobs
<1>2. CASE form = "experience"
  BY <1>2 DEF Controls, ExperienceControls, Filled, Jobs
<1>3. CASE form = "claim"
  BY <1>3 DEF Controls, ClaimControls, Filled, Jobs
<1>4. CASE form = "account"
  BY <1>4 DEF Controls, AccountControls, Filled, Jobs
<1>5. CASE form = "share"
  BY <1>5 DEF Controls, ShareControls, Filled, Jobs
<1>6. CASE form = "batch"
  BY <1>6 DEF Controls, BatchControls, Filled, Jobs
<1>7. CASE form = "verify"
  BY <1>7 DEF Controls, VerifyControls, Filled, Jobs
<1>8. CASE form = "lookup"
  BY <1>8 DEF Controls, LookupControls, Filled, Jobs
<1>9. CASE form = "document"
  BY <1>9 DEF Controls, DocumentControls, Filled, Jobs
<1>10. CASE form = "profile"
  BY <1>10 DEF Controls, ProfileControls, Filled, Jobs
<1>11. CASE form = "password"
  BY <1>11 DEF Controls, PasswordControls, Filled, Jobs
<1> QED
  BY <1>1, <1>2, <1>3, <1>4, <1>5, <1>6, <1>7, <1>8, <1>9, <1>10, <1>11 DEF Form

(***************************************************************************)
(* Types                                                                   *)
(***************************************************************************)
Entry == [about : Subject \cup {Blank}, first : BOOLEAN, second : BOOLEAN, visit : Nat,
          pc : {"sent", "taken", "refused", "over"}, saves : Nat, leftover : BOOLEAN,
          told : BOOLEAN, lost : BOOLEAN]

FormTypes ==
    /\ form \in Form /\ visit \in Nat /\ open \in BOOLEAN /\ typed \in BOOLEAN
    /\ draft \in Draft /\ shown \in Nat /\ formError \in Int
    /\ log \in Seq(Entry)

LEMMA Sends ==
  ASSUME FormTypes
  PROVE  Page[form].payload \in Draft /\ Page[form].payload.about = draft.about
<1>1. Job \in Draft /\ Job.about = draft.about
  BY DEF FormTypes, Draft, Job
<1>2. Page[form].payload \in {Job, draft}
  BY Pages DEF FormTypes
<1> QED
  BY <1>1, <1>2 DEF FormTypes

\* What a submission is when it is sent.
SentEntry(p) == [about |-> p.about, first |-> p.first, second |-> p.second,
            visit |-> visit, pc |-> "sent", saves |-> 0, leftover |-> FALSE,
            told |-> FALSE, lost |-> FALSE]

LEMMA SentIsEntry ==
  ASSUME FormTypes, NEW p \in Draft
  PROVE  SentEntry(p) \in Entry
<1>1. p.about \in Subject \cup {Blank} /\ p.first \in BOOLEAN /\ p.second \in BOOLEAN
  BY DEF Draft
<1> QED
  BY <1>1 DEF SentEntry, Entry, FormTypes

\* The same submission, further on.
SameEntry(d, e) ==
    e.about = d.about /\ e.first = d.first /\ e.second = d.second /\ e.visit = d.visit

\* A DRAFT is left by the forms that save in two transactions only.
LeftOK(e) == e.leftover => MayLeaveDraft

\* A step of the server or of the handler moves one submission on.
MovesEntry(n, e) ==
    /\ n \in DOMAIN log /\ e \in Entry /\ SameEntry(log[n], e)
    /\ log' = [log EXCEPT ![n] = e]

LEMMA MovesOne ==
  ASSUME FormTypes, NEW n, NEW e, MovesEntry(n, e)
  PROVE  /\ log' \in Seq(Entry) /\ DOMAIN log' = DOMAIN log
         /\ log'[n] = e /\ \A m \in DOMAIN log \ {n} : log'[m] = log[m]
<1>1. log \in Seq(Entry) /\ n \in DOMAIN log /\ e \in Entry /\ log' = [log EXCEPT ![n] = e]
  BY DEF FormTypes, MovesEntry
<1> QED
  BY <1>1

LEMMA ServeMoves ==
  ASSUME FormTypes, NEW n \in DOMAIN log, Serve(n)
  PROVE  \E e : /\ MovesEntry(n, e) /\ log[n].pc = "sent"
                /\ \/ e.pc = "taken" /\ e.saves = log[n].saves + 1
                   \/ e.pc = "refused" /\ e.saves = log[n].saves
                /\ LeftOK(log[n]) => LeftOK(e)
<1>0. log[n].pc = "sent"
  BY DEF Serve
<1>1. log[n] \in Entry /\ log[n].pc = "sent"
  BY <1>0 DEF FormTypes
<1>2. CASE log' = [log EXCEPT ![n].pc = "taken", ![n].saves = @ + 1]
  <2> DEFINE k == log[n].saves + 1
             e == [log[n] EXCEPT !.pc = "taken", !.saves = k]
  <2>1. k \in Nat
    BY <1>1 DEF Entry
  <2>2. log' = [log EXCEPT ![n] = e]
    BY <1>2
  <2> HIDE DEF k
  <2>3. e \in Entry
    BY <1>1, <2>1 DEF Entry
  <2>4. /\ SameEntry(log[n], e) /\ e.pc = "taken" /\ e.saves = k
        /\ e.leftover = log[n].leftover
    BY <1>1 DEF Entry, SameEntry
  <2> HIDE DEF e
  <2>5. MovesEntry(n, e)
    BY <2>2, <2>3, <2>4 DEF MovesEntry
  <2> USE DEF k
  <2> QED
    BY <1>1, <2>4, <2>5 DEF LeftOK
<1>3. ASSUME NEW left \in BOOLEAN, left => MayLeaveDraft,
             log' = [log EXCEPT ![n].pc = "refused", ![n].leftover = left]
      PROVE  \E e : /\ MovesEntry(n, e) /\ e.pc = "refused" /\ e.saves = log[n].saves
                    /\ LeftOK(e)
  <2> DEFINE e == [log[n] EXCEPT !.pc = "refused", !.leftover = left]
  <2>1. /\ e \in Entry /\ SameEntry(log[n], e) /\ e.pc = "refused"
        /\ e.saves = log[n].saves /\ e.leftover = left
    BY <1>1 DEF Entry, SameEntry
  <2>2. log' = [log EXCEPT ![n] = e]
    BY <1>3
  <2>3. left => MayLeaveDraft
    BY <1>3
  <2> HIDE DEF e
  <2> QED
    BY <1>1, <2>1, <2>2, <2>3 DEF MovesEntry, LeftOK
<1> QED
  BY <1>2, <1>3 DEF Serve

\* What an answer does to its submission.
LEMMA SucceededMoves ==
  ASSUME FormTypes, NEW n \in DOMAIN log, Succeeded(n)
  PROVE  \E e : /\ MovesEntry(n, e) /\ log[n].pc = "taken"
                /\ e.pc = "over" /\ e.saves = log[n].saves
                /\ (Told \/ Here(n)) => e.told
                /\ e.leftover = log[n].leftover
<1>1. log[n] \in Entry /\ log[n].pc = "taken"
  BY DEF FormTypes, Succeeded
<1> DEFINE b == Page[form].toast \/ Here(n)
           e == [log[n] EXCEPT !.pc = "over", !.told = b]
<1>2. b \in BOOLEAN
  OBVIOUS
<1>3. (Told \/ Here(n)) => b
  BY Pages DEF FormTypes
<1>4. log' = [log EXCEPT ![n] = e]
  BY DEF Succeeded, TellSuccess
<1> HIDE DEF b
<1>5. /\ e \in Entry /\ SameEntry(log[n], e) /\ e.pc = "over" /\ e.saves = log[n].saves
      /\ e.told = b /\ e.leftover = log[n].leftover
  BY <1>1, <1>2 DEF Entry, SameEntry
<1> HIDE DEF e
<1> QED
  BY <1>1, <1>3, <1>4, <1>5 DEF MovesEntry

LEMMA FailureMoves ==
  ASSUME FormTypes, NEW n \in DOMAIN log, Refused(n) \/ Lose(n)
  PROVE  \E e : /\ MovesEntry(n, e) /\ e.pc = "over" /\ e.saves = log[n].saves
                /\ e.told = log[n].told /\ e.leftover = log[n].leftover
                /\ log[n].pc # "over"
                /\ e.lost \/ log[n].pc = "refused"
<1>1. log[n] \in Entry
  BY DEF FormTypes
<1>2. CASE Refused(n)
  <2> DEFINE e == [log[n] EXCEPT !.pc = "over"]
  <2>1. /\ e \in Entry /\ SameEntry(log[n], e) /\ e.pc = "over" /\ e.saves = log[n].saves
        /\ e.told = log[n].told /\ e.leftover = log[n].leftover
    BY <1>1 DEF Entry, SameEntry
  <2>2. log' = [log EXCEPT ![n] = e] /\ log[n].pc = "refused"
    BY <1>2 DEF Refused
  <2> HIDE DEF e
  <2> QED
    BY <2>1, <2>2 DEF MovesEntry
<1>3. CASE Lose(n)
  <2> DEFINE e == [log[n] EXCEPT !.pc = "over", !.lost = TRUE]
  <2>1. /\ e \in Entry /\ SameEntry(log[n], e) /\ e.pc = "over" /\ e.saves = log[n].saves
        /\ e.told = log[n].told /\ e.leftover = log[n].leftover /\ e.lost
    BY <1>1 DEF Entry, SameEntry
  <2>2. log' = [log EXCEPT ![n] = e] /\ log[n].pc # "over"
    BY <1>3 DEF Lose
  <2> HIDE DEF e
  <2> QED
    BY <2>1, <2>2 DEF MovesEntry
<1> QED
  BY <1>2, <1>3

LEMMA EmptyIsDraft == EmptyForm \in Draft /\ EmptyForm.about = Blank
<1> QED
  BY DEF EmptyForm, Draft

LEMMA InitFormTypes == FormsInit => FormTypes
<1> SUFFICES ASSUME FormsInit PROVE FormTypes
  OBVIOUS
<1>1. log = <<>> /\ draft = EmptyForm /\ shown = 0 /\ formError = 0
      /\ form \in Form /\ visit = 1 /\ open = TRUE /\ typed = FALSE
  BY DEF FormsInit, None
<1>2. open \in BOOLEAN /\ typed \in BOOLEAN
  BY <1>1
<1>3. log \in Seq(Entry)
  BY <1>1
<1>4. draft \in Draft
  BY <1>1, EmptyIsDraft
<1>5. visit \in Nat /\ shown \in Nat /\ formError \in Int
  BY <1>1
<1> QED
  BY <1>1, <1>2, <1>3, <1>4, <1>5 DEF FormTypes

\* Submitting appends what was sent, and the history of what was sent stays.
LEMMA SubmitSends ==
  ASSUME FormTypes, Submit
  PROVE  /\ log' = Append(log, SentEntry(Page[form].payload)) /\ log' \in Seq(Entry)
         /\ DOMAIN log' = DOMAIN log \cup {Len(log) + 1}
         /\ log'[Len(log) + 1] = SentEntry(Page[form].payload)
         /\ \A n \in DOMAIN log : log'[n] = log[n] /\ n # Len(log) + 1
<1>1. log' = Append(log, SentEntry(Page[form].payload))
  BY DEF Submit, SentEntry
<1>2. SentEntry(Page[form].payload) \in Entry
  BY Sends, SentIsEntry
<1>3. log \in Seq(Entry)
  BY DEF FormTypes
<1> HIDE DEF SentEntry
<1> QED
  BY <1>1, <1>2, <1>3

LEMMA AnswerTypes ==
  ASSUME FormTypes, NEW n \in DOMAIN log,
         Serve(n) \/ Succeeded(n) \/ Refused(n) \/ Lose(n)
  PROVE  FormTypes'
<1>1. log' \in Seq(Entry)
  BY ServeMoves, SucceededMoves, FailureMoves, MovesOne
<1>2. n \in Nat
  BY DEF FormTypes
<1>3. form' = form /\ visit' = visit /\ open' = open /\ typed' = typed
  BY DEF Serve, Succeeded, Refused, Lose, ShowError
<1>4. draft' = draft \/ draft' = EmptyForm
  BY DEF Serve, Succeeded, Refused, Lose, ShowError, KeepFields
<1>5. (shown' = shown \/ shown' = n) /\ (formError' = formError \/ formError' = n)
  BY DEF Serve, Succeeded, Refused, Lose, ShowError
<1> QED
  BY <1>1, <1>2, <1>3, <1>4, <1>5, EmptyIsDraft DEF FormTypes

LEMMA NextFormTypes == FormTypes /\ [FormsNext]_formVars => FormTypes'
<1> SUFFICES ASSUME FormTypes, [FormsNext]_formVars PROVE FormTypes'
  OBVIOUS
<1>1. CASE UNCHANGED formVars
  BY <1>1 DEF formVars, FormTypes
<1>2. CASE OpenForm
  <2>1. /\ form' = form /\ log' = log /\ visit' = visit + 1
        /\ draft' = EmptyForm /\ shown' = 0 /\ formError' = 0
    BY <1>2 DEF OpenForm, FreshForm, None
  <2>2. open' \in BOOLEAN /\ typed' \in BOOLEAN
    BY <1>2 DEF OpenForm, FreshForm
  <2> QED
    BY <2>1, <2>2, EmptyIsDraft DEF FormTypes
<1>3. CASE LeaveForm
  <2>1. /\ form' = form /\ log' = log /\ visit' = visit
        /\ draft' = EmptyForm /\ shown' = 0 /\ formError' = 0
    BY <1>3 DEF LeaveForm, FreshForm, None
  <2>2. open' \in BOOLEAN /\ typed' \in BOOLEAN
    BY <1>3 DEF LeaveForm, FreshForm
  <2> QED
    BY <2>1, <2>2, EmptyIsDraft DEF FormTypes
<1>4. CASE Another
  <2>1. /\ form' = form /\ log' = log /\ visit' = visit /\ open' = open /\ shown' = 0
        /\ draft' = draft \/ draft' = EmptyForm
        /\ formError' = formError \/ formError' = 0
    BY <1>4 DEF Another, FreshForm, None
  <2>2. typed' \in BOOLEAN
    BY <1>4 DEF Another, FreshForm, FormTypes
  <2> QED
    BY <2>1, <2>2, EmptyIsDraft DEF FormTypes
<1>5. CASE RefuseToSend
  BY <1>5 DEF RefuseToSend, Unsent, FormTypes
<1>6. CASE Submit
  <2>1. /\ form' = form /\ visit' = visit /\ open' = open /\ draft' = draft
        /\ typed' \in BOOLEAN /\ formError' = None /\ (shown' = shown \/ shown' = None)
    BY <1>6 DEF Submit
  <2> QED
    BY <1>6, <2>1, SubmitSends DEF FormTypes, None
<1>7. ASSUME NEW d \in Draft, Fill(d) PROVE FormTypes'
  <2>1. /\ form' = form /\ visit' = visit /\ open' = open /\ log' = log
        /\ draft' = d /\ typed' = TRUE
    BY <1>7 DEF Fill
  <2>2. (shown' = shown \/ shown' = None) /\ (formError' = formError \/ formError' = None)
    BY <1>7 DEF Fill, HandleFile
  <2> QED
    BY <2>1, <2>2 DEF FormTypes, None
<1>8. ASSUME NEW f, FileRead(f) PROVE FormTypes'
  BY <1>8 DEF FileRead, FormTypes
<1> QED
  BY <1>1, <1>2, <1>3, <1>4, <1>5, <1>6, <1>7, <1>8, AnswerTypes DEF FormsNext

(***************************************************************************)
(* The invariant                                                           *)
(***************************************************************************)
OfThisVisit(e) == open /\ e.visit = visit
NotTyped == ~typed /\ draft.about # Blank

\* A submission: what the server did with it, that its user was told, and that its
\* screen holds what was sent as long as nothing was typed.
EntryOK(e) ==
    /\ e.visit <= visit
    /\ e.pc \in {"sent", "refused"} => e.saves = 0
    /\ e.pc = "taken" => e.saves > 0
    /\ (e.pc = "over" /\ e.saves > 0) =>
          e.told \/ e.lost \/ (~Told /\ ~OfThisVisit(e))
    /\ Jobs => e.first # e.second
    /\ LeftOK(e)
    /\ (OfThisVisit(e) /\ e.pc # "over" /\ NotTyped) => e.about = draft.about

LogOK == \A n \in DOMAIN log : EntryOK(log[n])

ErrorOK ==
    formError \in DOMAIN log =>
        log[formError].pc = "over" /\ (log[formError].lost \/ log[formError].saves = 0)

\* What is shown was saved, on this visit.
ShownOK ==
    shown # None =>
        /\ shown \in DOMAIN log /\ Viewed
        /\ OfThisVisit(log[shown])
        /\ log[shown].pc = "over" /\ log[shown].saves > 0
        /\ (NotTyped /\ form # "share") => log[shown].about = draft.about

FormsInv == FormTypes /\ LogOK /\ ErrorOK /\ ShownOK

LEMMA InitInv == FormsInit => FormsInv
<1> SUFFICES ASSUME FormsInit PROVE FormsInv
  OBVIOUS
<1>1. log = <<>> /\ shown = None
  BY DEF FormsInit
<1>2. DOMAIN log = {}
  BY <1>1
<1> QED
  BY <1>1, <1>2, InitFormTypes DEF FormsInv, LogOK, ErrorOK, ShownOK

\* Entries as they were, on another visit or on a screen that is left, emptied or
\* typed in.
LEMMA Elsewhere ==
  ASSUME FormTypes, LogOK, form' = form, visit' \in Nat, visit <= visit', log' = log,
         \/ ~open' \/ visit' > visit
         \/ open' = open /\ visit' = visit /\ (typed' \/ draft'.about = Blank)
         \/ open' = open /\ visit' = visit /\ typed' = typed /\ draft' = draft
  PROVE  LogOK'
<1> SUFFICES ASSUME NEW n \in DOMAIN log PROVE EntryOK(log[n])'
  BY DEF LogOK
<1>0. log[n] \in Entry
  BY DEF FormTypes
<1>1. EntryOK(log[n]) /\ log[n].visit \in Nat /\ visit \in Nat
  BY <1>0 DEF LogOK, FormTypes, Entry
<1>2. log'[n] = log[n]
  OBVIOUS
<1> QED
  BY <1>1, <1>2 DEF EntryOK, LeftOK, MayLeaveDraft, OfThisVisit, NotTyped, Told, Jobs

LEMMA NoError ==
  ASSUME log' \in Seq(Entry), formError' \in {None, Unsent}
  PROVE  ErrorOK'
<1>1. formError' \notin DOMAIN log'
  BY DEF None, Unsent
<1> QED
  BY <1>1 DEF ErrorOK

LEMMA OpenInv ==
  ASSUME FormsInv, OpenForm \/ LeaveForm \/ Another, FormTypes'
  PROVE  FormsInv'
<1>0. FormTypes /\ LogOK /\ ErrorOK /\ ShownOK
  BY DEF FormsInv
<1>1. form' = form /\ log' = log /\ shown' = None /\ visit' \in Nat /\ visit <= visit'
  BY <1>0 DEF OpenForm, LeaveForm, Another, FreshForm, FormTypes
<1>2. \/ ~open' \/ visit' > visit
      \/ open' = open /\ visit' = visit /\ draft'.about = Blank
      \/ open' = open /\ visit' = visit /\ typed' = typed /\ draft' = draft
  <2>1. CASE OpenForm
    <3>1. visit' = visit + 1
      BY <2>1 DEF OpenForm
    <3>2. visit \in Nat
      BY <1>0 DEF FormTypes
    <3> QED
      BY <3>1, <3>2
  <2>2. CASE LeaveForm
    BY <2>2 DEF LeaveForm
  <2>3. CASE Another
    <3>1. open' = open /\ visit' = visit
      BY <2>3 DEF Another
    <3>2. CASE form = "share"
      BY <2>3, <3>1, <3>2, Zenon DEF Another
    <3>3. CASE form # "share"
      <4>1. draft' = EmptyForm
        BY <2>3, <3>3 DEF Another, FreshForm
      <4> QED
        BY <3>1, <4>1, EmptyIsDraft
    <3> QED
      BY <3>2, <3>3
  <2> QED
    BY <2>1, <2>2, <2>3
<1>3. LogOK'
  BY <1>0, <1>1, <1>2, Elsewhere
<1>4. ErrorOK'
  <2>1. formError' = None \/ formError' = formError
    BY DEF OpenForm, LeaveForm, Another, FreshForm
  <2>2. log' \in Seq(Entry)
    BY <1>0, <1>1 DEF FormTypes
  <2> QED
    BY <1>0, <1>1, <2>1, <2>2, NoError DEF ErrorOK
<1>5. ShownOK'
  BY <1>1 DEF ShownOK
<1> QED
  BY <1>3, <1>4, <1>5 DEF FormsInv

\* Typing, and what changes nothing of what was sent or shown.
LEMMA FieldsInv ==
  ASSUME FormsInv, RefuseToSend \/ (\E d \in Draft : Fill(d)) \/ (\E f : FileRead(f)), FormTypes'
  PROVE  FormsInv'
<1>0. FormTypes /\ LogOK /\ ErrorOK /\ ShownOK
  BY DEF FormsInv
<1>1. form' = form /\ log' = log /\ visit' = visit /\ open' = open
  BY DEF RefuseToSend, Fill, FileRead
<1>2. typed' \/ (typed' = typed /\ draft' = draft)
  BY DEF RefuseToSend, Fill, FileRead
<1>3. shown' = shown \/ shown' = None
  BY DEF RefuseToSend, Fill, HandleFile, FileRead
<1>4. formError' = formError \/ formError' \in {None, Unsent}
  BY DEF RefuseToSend, Fill, HandleFile, FileRead
<1>5. log \in Seq(Entry) /\ visit \in Nat
  BY <1>0 DEF FormTypes
<1>6. LogOK'
  BY <1>0, <1>1, <1>2, <1>5, Elsewhere
<1>7. ErrorOK'
  BY <1>0, <1>1, <1>4, <1>5, NoError DEF ErrorOK
<1>8. ShownOK'
  BY <1>0, <1>1, <1>2, <1>3 DEF ShownOK, OfThisVisit, NotTyped, Viewed
<1> QED
  BY <1>6, <1>7, <1>8 DEF FormsInv

\* What is sent is what the fields hold, and a job has one of its two dates.
LEMMA SentFits ==
  ASSUME FormTypes, Submit
  PROVE  /\ SentEntry(Page[form].payload).about = draft.about
         /\ Jobs => SentEntry(Page[form].payload).first # SentEntry(Page[form].payload).second
         /\ SentEntry(Page[form].payload).pc = "sent" /\ SentEntry(Page[form].payload).saves = 0
         /\ ~SentEntry(Page[form].payload).leftover
         /\ SentEntry(Page[form].payload).visit = visit
<1>1. Controls[form]
  BY DEF Submit
<1>2. Jobs => (draft.first \/ draft.second)
  BY <1>1, ControlsAsk DEF FormTypes
<1>3. Jobs => Page[form].payload = Job
  BY Pages DEF FormTypes
<1>4. draft.first \in BOOLEAN /\ draft.second \in BOOLEAN /\ draft \in Draft
  BY DEF FormTypes, Draft
<1>5. Job.first = draft.first /\ Job.second = (draft.second /\ ~draft.first)
  BY <1>4 DEF Job, Draft
<1>6. Jobs => Page[form].payload.first # Page[form].payload.second
  BY <1>2, <1>3, <1>4, <1>5
<1> QED
  BY <1>6, Sends DEF SentEntry

LEMMA SubmitInv ==
  ASSUME FormsInv, Submit, FormTypes'
  PROVE  FormsInv'
<1>0. FormTypes /\ LogOK /\ ErrorOK /\ ShownOK
  BY DEF FormsInv
<1>1. /\ form' = form /\ visit' = visit /\ open' = open /\ draft' = draft /\ open
      /\ formError' = None
      /\ shown' = IF Page[form].wipes THEN None ELSE shown
      /\ Shows = "fields" /\ Controls[form] /\ ~Busy
  BY DEF Submit
<1>e. PICK e : e = SentEntry(Page[form].payload)
  OBVIOUS
<1>k. PICK k : k = Len(log) + 1
  OBVIOUS
<1>2. /\ log' \in Seq(Entry) /\ DOMAIN log' = DOMAIN log \cup {k} /\ log'[k] = e
      /\ \A n \in DOMAIN log : log'[n] = log[n]
  BY <1>0, <1>e, <1>k, SubmitSends
<1>3. /\ e.about = draft.about /\ e.pc = "sent" /\ e.saves = 0 /\ e.visit = visit
      /\ ~e.leftover
      /\ Jobs => e.first # e.second
  BY <1>0, <1>e, SentFits
<1>4. EntryOK(e)'
  <2>1. LeftOK(e)'
    BY <1>3 DEF LeftOK
  <2> QED
    BY <1>0, <1>1, <1>3, <2>1 DEF EntryOK, OfThisVisit, NotTyped, Told, Jobs, FormTypes
\* Nothing else is under way on this screen: its button was not disabled.
<1>5. ASSUME NEW n \in DOMAIN log PROVE EntryOK(log[n])'
  <2>0. PICK d : d = log[n]
    OBVIOUS
  <2>1. EntryOK(d)
    BY <1>0, <2>0 DEF LogOK
  <2>2. OfThisVisit(d) => d.pc = "over"
    BY <1>1, <2>0 DEF Busy, Here, OfThisVisit
  <2>3. log'[n] = d
    BY <1>2, <2>0
  <2>4. EntryOK(d)'
    BY <1>1, <2>1, <2>2 DEF EntryOK, LeftOK, MayLeaveDraft, OfThisVisit, NotTyped, Told, Jobs
  <2> QED
    BY <2>3, <2>4 DEF EntryOK, OfThisVisit
<1>6. LogOK'
  <2> SUFFICES ASSUME NEW n \in DOMAIN log' PROVE EntryOK(log[n])'
    BY DEF LogOK
  <2>1. CASE n \in DOMAIN log
    BY <1>2, <1>5, <2>1
  <2>2. CASE n = k
    BY <1>2, <1>4, <2>2 DEF EntryOK, OfThisVisit
  <2> QED
    BY <1>2, <2>1, <2>2
<1>7. ErrorOK'
  BY <1>1, <1>2, NoError
<1>8. ShownOK'
  <2> SUFFICES ASSUME shown' # None
               PROVE  /\ shown' \in DOMAIN log' /\ Viewed'
                      /\ open' /\ log'[shown'].visit = visit'
                      /\ log'[shown'].pc = "over" /\ log'[shown'].saves > 0
                      /\ form' = "share"
    BY DEF ShownOK, OfThisVisit
  <2>1. shown' = shown /\ ~Wiped
    BY <1>0, <1>1, Pages DEF FormTypes
  <2>2. /\ shown \in DOMAIN log /\ Viewed /\ OfThisVisit(log[shown])
        /\ log[shown].pc = "over" /\ log[shown].saves > 0
    BY <1>0, <2>1 DEF ShownOK
  <2>3. ~Instead
    BY <1>0, <1>1, <2>1, Pages DEF Shows, FormTypes
  <2>4. form # "batch"
    BY <1>0, <1>1, <2>1, ControlsAsk DEF FormTypes
  <2>5. form = "share"
    BY <1>0, <2>1, <2>2, <2>3, <2>4 DEF FormTypes, Form, Wiped, Viewed, Instead
  <2> QED
    BY <1>1, <1>2, <2>1, <2>2, <2>5 DEF Viewed, OfThisVisit
<1> QED
  BY <1>6, <1>7, <1>8 DEF FormsInv

\* One submission moved on, on a screen that is where it was.
LEMMA MovedLog ==
  ASSUME FormTypes, LogOK, NEW n, NEW e, MovesEntry(n, e), EntryOK(e),
         form' = form, visit' = visit, open' = open, typed' = typed,
         draft' = draft \/ draft'.about = Blank
  PROVE  LogOK'
<1> SUFFICES ASSUME NEW m \in DOMAIN log' PROVE EntryOK(log[m])'
  BY DEF LogOK
<1>1. m \in DOMAIN log /\ log'[m] = IF m = n THEN e ELSE log[m]
  BY MovesOne
<1>2. PICK d : d = log'[m]
  OBVIOUS
<1>3. EntryOK(d)
  BY <1>1, <1>2 DEF LogOK
<1>4. EntryOK(d)'
  BY <1>3 DEF EntryOK, LeftOK, MayLeaveDraft, OfThisVisit, NotTyped, Told, Jobs
<1> QED
  BY <1>2, <1>4 DEF EntryOK, OfThisVisit

LEMMA ServeInv ==
  ASSUME FormsInv, NEW n \in DOMAIN log, Serve(n), FormTypes'
  PROVE  FormsInv'
<1>0. FormTypes /\ LogOK /\ ErrorOK /\ ShownOK
  BY DEF FormsInv
<1>1. /\ form' = form /\ visit' = visit /\ open' = open /\ draft' = draft
      /\ shown' = shown /\ formError' = formError /\ typed' = typed
  BY DEF Serve
<1>2. PICK e : /\ MovesEntry(n, e) /\ log[n].pc = "sent"
               /\ \/ e.pc = "taken" /\ e.saves = log[n].saves + 1
                  \/ e.pc = "refused" /\ e.saves = log[n].saves
               /\ LeftOK(log[n]) => LeftOK(e)
  BY <1>0, ServeMoves
<1>3. EntryOK(log[n])
  BY <1>0 DEF LogOK
<1>4. EntryOK(e)
  BY <1>2, <1>3 DEF EntryOK, LeftOK, MovesEntry, SameEntry, OfThisVisit
<1>5. LogOK'
  BY <1>0, <1>1, <1>2, <1>4, MovedLog
<1>6. DOMAIN log' = DOMAIN log /\ \A m \in DOMAIN log \ {n} : log'[m] = log[m]
  BY <1>0, <1>2, MovesOne
<1>7. formError # n \/ formError \notin DOMAIN log
  BY <1>0, <1>2 DEF ErrorOK
<1>8. ErrorOK'
  BY <1>0, <1>1, <1>6, <1>7 DEF ErrorOK
<1>9. shown # n \/ shown = None
  BY <1>0, <1>2 DEF ShownOK
<1>10. ShownOK'
  BY <1>0, <1>1, <1>6, <1>9 DEF ShownOK, OfThisVisit, NotTyped, Viewed
<1> QED
  BY <1>5, <1>8, <1>10 DEF FormsInv

LEMMA SucceededInv ==
  ASSUME FormsInv, NEW n \in DOMAIN log, Succeeded(n), FormTypes'
  PROVE  FormsInv'
<1>0. FormTypes /\ LogOK /\ ErrorOK /\ ShownOK
  BY DEF FormsInv
<1>1. /\ form' = form /\ visit' = visit /\ open' = open
      /\ formError' = formError /\ typed' = typed
      /\ draft' = draft \/ draft' = EmptyForm
  BY DEF Succeeded
<1>2. PICK e : /\ MovesEntry(n, e) /\ log[n].pc = "taken"
               /\ e.pc = "over" /\ e.saves = log[n].saves
               /\ (Told \/ Here(n)) => e.told
               /\ e.leftover = log[n].leftover
  BY <1>0, SucceededMoves
<1>3. EntryOK(log[n])
  BY <1>0 DEF LogOK
<1>4. EntryOK(e)
  BY <1>2, <1>3 DEF EntryOK, LeftOK, MovesEntry, SameEntry, OfThisVisit, Here
<1>5. LogOK'
  BY <1>0, <1>1, <1>2, <1>4, MovedLog, EmptyIsDraft
<1>6. /\ DOMAIN log' = DOMAIN log /\ log'[n] = e
      /\ \A m \in DOMAIN log \ {n} : log'[m] = log[m]
  BY <1>0, <1>2, MovesOne
<1>7. formError # n \/ formError \notin DOMAIN log
  BY <1>0, <1>2 DEF ErrorOK
<1>8. ErrorOK'
  BY <1>0, <1>1, <1>6, <1>7 DEF ErrorOK
<1>9. ShownOK'
  <2>1. CASE Here(n) /\ Viewed
    <3>1. shown' = n
      BY <1>0, <2>1, Pages DEF Succeeded, FormTypes
    <3>2. e.visit = visit /\ open /\ e.saves > 0 /\ e.about = log[n].about
      BY <1>2, <1>3, <2>1 DEF Here, MovesEntry, SameEntry, EntryOK
    <3>3. NotTyped => log[n].about = draft.about
      BY <1>2, <1>3, <2>1 DEF Here, EntryOK, OfThisVisit
    <3>4. NotTyped' => NotTyped /\ draft' = draft
      BY <1>1, EmptyIsDraft DEF NotTyped
    <3>5. (NotTyped /\ form # "share")' => e.about = draft'.about
      BY <3>2, <3>3, <3>4
    <3> QED
      BY <1>1, <1>2, <1>6, <2>1, <3>1, <3>2, <3>5 DEF ShownOK, OfThisVisit, Viewed
  <2>2. CASE Here(n) /\ ~Viewed
    <3>1. shown' = None
      BY <1>0, <2>2, Pages DEF Succeeded, FormTypes, ShownOK
    <3> QED
      BY <3>1 DEF ShownOK
  <2>3. CASE ~Here(n)
    <3>1. shown' = shown /\ draft' = draft
      BY <2>3 DEF Succeeded
    <3>2. shown # n \/ shown = None
      BY <1>0, <1>2 DEF ShownOK
    <3> QED
      BY <1>0, <1>1, <1>6, <3>1, <3>2 DEF ShownOK, OfThisVisit, NotTyped, Viewed
  <2> QED
    BY <2>1, <2>2, <2>3
<1> QED
  BY <1>5, <1>8, <1>9 DEF FormsInv

LEMMA FailureInv ==
  ASSUME FormsInv, NEW n \in DOMAIN log, Refused(n) \/ Lose(n), FormTypes'
  PROVE  FormsInv'
<1>0. FormTypes /\ LogOK /\ ErrorOK /\ ShownOK
  BY DEF FormsInv
<1>1. /\ form' = form /\ visit' = visit /\ open' = open /\ draft' = draft
      /\ shown' = shown /\ typed' = typed
      /\ formError' = formError \/ formError' = n
  BY DEF Refused, Lose, ShowError, KeepFields
<1>2. PICK e : /\ MovesEntry(n, e) /\ e.pc = "over" /\ e.saves = log[n].saves
               /\ e.told = log[n].told /\ e.leftover = log[n].leftover
               /\ log[n].pc # "over"
               /\ e.lost \/ log[n].pc = "refused"
  BY <1>0, FailureMoves
<1>3. EntryOK(log[n])
  BY <1>0 DEF LogOK
<1>4. EntryOK(e)
  BY <1>2, <1>3 DEF EntryOK, LeftOK, MovesEntry, SameEntry, OfThisVisit
<1>5. LogOK'
  BY <1>0, <1>1, <1>2, <1>4, MovedLog
<1>6. /\ DOMAIN log' = DOMAIN log /\ log'[n] = e
      /\ \A m \in DOMAIN log \ {n} : log'[m] = log[m]
  BY <1>0, <1>2, MovesOne
<1>7. e.lost \/ e.saves = 0
  BY <1>2, <1>3 DEF EntryOK
<1>8. formError # n \/ formError \notin DOMAIN log
  BY <1>0, <1>2 DEF ErrorOK
<1>9. ErrorOK'
  BY <1>0, <1>1, <1>2, <1>6, <1>7, <1>8 DEF ErrorOK
<1>10. shown # n \/ shown = None
  BY <1>0, <1>2 DEF ShownOK
<1>11. ShownOK'
  BY <1>0, <1>1, <1>6, <1>10 DEF ShownOK, OfThisVisit, NotTyped, Viewed
<1> QED
  BY <1>5, <1>9, <1>11 DEF FormsInv

LEMMA NextInv == FormsInv /\ [FormsNext]_formVars => FormsInv'
<1> SUFFICES ASSUME FormsInv, [FormsNext]_formVars PROVE FormsInv'
  OBVIOUS
<1>1. FormTypes /\ FormTypes'
  BY NextFormTypes DEF FormsInv
<1>2. CASE UNCHANGED formVars
  <2>1. LogOK'
    BY <1>1, <1>2, Elsewhere DEF FormsInv, formVars, FormTypes
  <2>2. ErrorOK' /\ ShownOK'
    BY <1>2 DEF FormsInv, formVars, ErrorOK, ShownOK, OfThisVisit, NotTyped, Viewed
  <2> QED
    BY <1>1, <2>1, <2>2 DEF FormsInv
<1>3. CASE FormsNext
  BY <1>1, <1>3, OpenInv, FieldsInv, SubmitInv, ServeInv, SucceededInv, FailureInv
     DEF FormsNext
<1> QED
  BY <1>2, <1>3

(***************************************************************************)
(* The theorems                                                            *)
(***************************************************************************)
LEMMA FormsInvariant == FormsSpec => []FormsInv
<1> QED
  BY InitInv, NextInv, PTL DEF FormsSpec

\* What the server saved is told, whenever and wherever the answer arrives.
THEOREM FormsSavedIsTold == FormsSpec => []SavedIsTold
<1>1. FormsInv => SavedIsTold
  <2> SUFFICES ASSUME FormsInv, NEW n \in DOMAIN log,
                      log[n].pc = "over", log[n].saves > 0
               PROVE  log[n].told \/ log[n].lost \/ (~Page[form].toast /\ ~Here(n))
    BY DEF SavedIsTold
  <2>1. EntryOK(log[n]) /\ form \in Form
    BY DEF FormsInv, LogOK, FormTypes
  <2> QED
    BY <2>1, Pages DEF EntryOK, OfThisVisit, Here
<1> QED
  BY <1>1, FormsInvariant, PTL

\* An error that is shown is about a submission the server did not take; only of an
\* issue, a job or a claim it may have left a DRAFT.
THEOREM FormsErrorIsHonest == FormsSpec => []ErrorIsHonest
<1>1. FormsInv => ErrorIsHonest
  <2>1. ASSUME FormsInv, formError \in DOMAIN log
        PROVE  LeftOK(log[formError])
    BY <2>1 DEF FormsInv, LogOK, EntryOK
  <2> QED
    BY <2>1 DEF FormsInv, ErrorOK, ErrorIsHonest, LeftOK, MayLeaveDraft, StatusOf
<1> QED
  BY <1>1, FormsInvariant, PTL

\* A verdict, result or login on the screen is of what the fields hold.
THEOREM FormsViewIsOfDraft == FormsSpec => []ViewIsOfDraft
<1>1. FormsInv => ViewIsOfDraft
  BY DEF FormsInv, ShownOK, NotTyped, ViewIsOfDraft
<1> QED
  BY <1>1, FormsInvariant, PTL

\* A job goes out current or with an end, never both and never neither.
THEOREM FormsJobsFit == FormsSpec => []JobsFitTheConstraint
<1>1. FormsInv => JobsFitTheConstraint
  BY DEF FormsInv, LogOK, EntryOK, Jobs, JobsFitTheConstraint
<1> QED
  BY <1>1, FormsInvariant, PTL

Kept == (open /\ open' /\ visit' = visit /\ draft.about # Blank /\ draft' = EmptyForm
         /\ ~typed /\ ~typed')
        => \E n \in DOMAIN log :
              Here(n) /\ log[n].saves > 0 /\ log[n].about = draft.about

\* Only an answer and "another" empty a form that stays open; the one is about what the
\* fields hold, the other is offered beside a result of it.
LEMMA EmptiedAfterSaving == FormsInv /\ [FormsNext]_formVars => Kept
<1> SUFFICES ASSUME FormsInv, [FormsNext]_formVars,
                    open, open', visit' = visit, draft.about # Blank, draft' = EmptyForm,
                    ~typed, ~typed'
             PROVE  \E n \in DOMAIN log :
                       Here(n) /\ log[n].saves > 0 /\ log[n].about = draft.about
  BY DEF Kept
<1>1. draft' # draft /\ NotTyped
  BY EmptyIsDraft DEF NotTyped
<1>2. Another \/ \E n \in DOMAIN log : Succeeded(n)
  BY <1>1 DEF FormsNext, formVars, OpenForm, LeaveForm, RefuseToSend, Submit, Fill,
     FileRead, Serve, Refused, Lose, ShowError, KeepFields
<1>3. CASE Another
  <2>1. shown # None /\ form # "share"
    BY <1>1, <1>3 DEF Another
  <2> QED
    BY <1>1, <2>1 DEF FormsInv, ShownOK, Here, OfThisVisit
<1>4. CASE \E n \in DOMAIN log : Succeeded(n)
  <2>1. PICK n \in DOMAIN log : Succeeded(n)
    BY <1>4
  <2>2. Here(n) /\ log[n].pc = "taken" /\ EntryOK(log[n])
    BY <1>1, <2>1 DEF Succeeded, FormsInv, LogOK
  <2>3. log[n].saves > 0 /\ log[n].about = draft.about
    BY <1>1, <2>2 DEF EntryOK, Here, OfThisVisit
  <2> QED
    BY <2>2, <2>3
<1> QED
  BY <1>2, <1>3, <1>4

\* No answer empties a form of what the server does not hold.
THEOREM FormsWorkKept == FormsSpec => WorkKept
<1>1. FormsInv /\ [FormsNext]_formVars => [Kept]_formVars
  BY EmptiedAfterSaving
<1> QED
  BY <1>1, FormsInvariant, PTL DEF FormsSpec, WorkKept, Kept

(***************************************************************************)
(* The shape of the state, within the bounds                               *)
(***************************************************************************)
EntryFits(e, v) == e.about \in Subject /\ e.visit \in 1..v
Fits ==
    /\ visit \in 1..MaxVisits
    /\ shown \in 0..Len(log) /\ formError \in -1..Len(log)
    /\ preview \in Subject \cup {Blank} /\ reading \subseteq Subject
    /\ \A n \in DOMAIN log : EntryFits(log[n], visit)

LEMMA InitFits == FormsInit => Fits
<1> SUFFICES ASSUME FormsInit PROVE Fits
  OBVIOUS
<1>1. log = <<>> /\ Len(log) = 0 /\ DOMAIN log = {} /\ visit = 1
  BY DEF FormsInit
<1> QED
  BY <1>1, FormsAssumption DEF FormsInit, Fits, None

\* The submissions there were still fit.
LEMMA EntriesFit ==
  ASSUME FormTypes, Fits, visit' \in Nat, visit <= visit', log' \in Seq(Entry),
         DOMAIN log \subseteq DOMAIN log',
         \A n \in DOMAIN log : log'[n].about = log[n].about /\ log'[n].visit = log[n].visit
  PROVE  \A n \in DOMAIN log : EntryFits(log'[n], visit')
<1> SUFFICES ASSUME NEW n \in DOMAIN log PROVE EntryFits(log'[n], visit')
  OBVIOUS
<1>1. log[n].about \in Subject /\ log[n].visit \in 1..visit /\ visit \in Nat
  BY DEF Fits, EntryFits, FormTypes
<1> QED
  BY <1>1 DEF EntryFits

LEMMA AnswerFits ==
  ASSUME FormTypes, Fits, NEW n \in DOMAIN log,
         Serve(n) \/ Succeeded(n) \/ Refused(n) \/ Lose(n)
  PROVE  Fits'
<1>1. PICK e : MovesEntry(n, e)
  BY ServeMoves, SucceededMoves, FailureMoves
<1>2. /\ log' \in Seq(Entry) /\ DOMAIN log' = DOMAIN log
      /\ log'[n] = e /\ \A m \in DOMAIN log \ {n} : log'[m] = log[m]
  BY <1>1, MovesOne
<1>3. \A m \in DOMAIN log : log'[m].about = log[m].about /\ log'[m].visit = log[m].visit
  BY <1>1, <1>2 DEF MovesEntry, SameEntry
<1>4. Len(log') = Len(log) /\ n \in 1..Len(log)
  BY <1>2 DEF FormTypes
<1>5. visit' = visit /\ preview' = preview /\ reading' = reading
  BY DEF Serve, Succeeded, Refused, Lose, ShowError
<1>6. \A m \in DOMAIN log' : EntryFits(log'[m], visit')
  BY <1>2, <1>3, <1>5, EntriesFit DEF FormTypes
<1>7. (shown' = shown \/ shown' = n) /\ (formError' = formError \/ formError' = n)
  BY DEF Serve, Succeeded, Refused, Lose, ShowError
<1>8. shown' \in 0..Len(log') /\ formError' \in -1..Len(log')
  BY <1>4, <1>7 DEF Fits, FormTypes
<1> QED
  BY <1>5, <1>6, <1>8 DEF Fits

LEMMA NextFits == FormTypes /\ Fits /\ [FormsNext]_formVars => Fits'
<1> SUFFICES ASSUME FormTypes, Fits, [FormsNext]_formVars PROVE Fits'
  OBVIOUS
<1>0. visit \in Nat /\ Len(log) \in Nat /\ DOMAIN log = 1..Len(log) /\ log \in Seq(Entry)
  BY DEF FormTypes
<1>1. CASE UNCHANGED formVars
  BY <1>1 DEF formVars, Fits, EntryFits
<1>2. ASSUME log' = log, visit' = visit, shown' \in {shown, None},
             formError' \in {formError, None, Unsent},
             preview' \in Subject \cup {Blank}, reading' \subseteq Subject
      PROVE  Fits'
  <2>1. shown' \in 0..Len(log) /\ formError' \in -1..Len(log)
    BY <1>0, <1>2 DEF Fits, None, Unsent
  <2> QED
    BY <1>2, <2>1 DEF Fits, EntryFits
<1>3. CASE OpenForm
  <2>1. /\ log' = log /\ visit' = visit + 1 /\ visit < MaxVisits
        /\ shown' = 0 /\ formError' = 0 /\ preview' = Blank /\ reading' = {}
    BY <1>3 DEF OpenForm, FreshForm, None
  <2>2. visit' \in 1..MaxVisits /\ visit' \in Nat /\ visit <= visit'
    BY <1>0, <2>1, FormsAssumption
  <2>3. \A n \in DOMAIN log : EntryFits(log'[n], visit')
    BY <1>0, <2>1, <2>2, EntriesFit
  <2> QED
    BY <1>0, <2>1, <2>2, <2>3 DEF Fits
<1>4. CASE LeaveForm
  BY <1>2, <1>4 DEF LeaveForm, FreshForm
<1>5. CASE Another
  BY <1>2, <1>5 DEF Another, FreshForm, Fits
<1>6. CASE RefuseToSend
  BY <1>2, <1>6 DEF RefuseToSend, Fits
<1>7. CASE Submit
  <2>1. /\ visit' = visit /\ preview' = preview /\ reading' = reading /\ formError' = None
        /\ shown' \in {shown, None} /\ Controls[form]
    BY <1>7 DEF Submit
  <2>2. /\ log' = Append(log, SentEntry(Page[form].payload)) /\ log' \in Seq(Entry)
        /\ DOMAIN log' = DOMAIN log \cup {Len(log) + 1}
        /\ log'[Len(log) + 1] = SentEntry(Page[form].payload)
        /\ \A n \in DOMAIN log : log'[n] = log[n]
    BY <1>7, SubmitSends
  <2>3. SentEntry(Page[form].payload).about = draft.about
        /\ SentEntry(Page[form].payload).visit = visit
    BY Sends DEF SentEntry
  <2>4. draft.about \in Subject
    BY <2>1, ControlsAsk DEF FormTypes, Draft
  <2>5. EntryFits(log'[Len(log) + 1], visit')
    BY <1>0, <2>1, <2>2, <2>3, <2>4 DEF EntryFits, Fits
  <2>6. \A n \in DOMAIN log : EntryFits(log'[n], visit')
    BY <1>0, <2>1, <2>2, EntriesFit
  <2>7. Len(log') = Len(log) + 1
    BY <1>0, <2>2
  <2>8. shown' \in 0..Len(log') /\ formError' \in -1..Len(log')
    BY <1>0, <2>1, <2>7 DEF Fits, None
  <2> QED
    BY <2>1, <2>2, <2>5, <2>6, <2>8 DEF Fits
<1>8. ASSUME NEW d \in Draft, Fill(d) PROVE Fits'
  <2>1. d.about \in Subject \cup {Blank}
    BY DEF Draft
  <2>2. /\ shown' \in {shown, None} /\ formError' \in {formError, None}
        /\ preview' \in {Blank, preview} /\ reading' \subseteq reading \cup ({d.about} \ {Blank})
        /\ log' = log /\ visit' = visit
    BY <1>8 DEF Fill, HandleFile
  <2>3. preview' \in Subject \cup {Blank} /\ reading' \subseteq Subject
    BY <2>1, <2>2 DEF Fits
  <2> QED
    BY <1>2, <2>2, <2>3
<1>9. ASSUME NEW f \in reading, FileRead(f) PROVE Fits'
  <2>1. f \in Subject /\ reading' \subseteq Subject
    BY <1>9 DEF Fits, FileRead
  <2> QED
    BY <1>2, <1>9, <2>1 DEF FileRead
<1> QED
  BY <1>1, <1>3, <1>4, <1>5, <1>6, <1>7, <1>8, <1>9, AnswerFits DEF FormsNext

\* The state keeps its shape: whatever is sent is about somebody or something, and
\* what is shown, and the error, belong to a submission there is.
THEOREM FormsTypeCorrect == FormsSpec => []FormsTypeOK
<1>1. FormTypes /\ Fits => FormsTypeOK
  <2> SUFFICES ASSUME FormTypes, Fits PROVE FormsTypeOK
    OBVIOUS
  <2>1. ASSUME NEW n \in DOMAIN log
        PROVE  /\ log[n].about \in Subject /\ log[n].visit \in 1..visit
               /\ log[n].pc \in {"sent", "taken", "refused", "over"}
               /\ {log[n].leftover, log[n].told, log[n].lost} \subseteq BOOLEAN
               /\ {log[n].first, log[n].second} \subseteq BOOLEAN
    <3>1. log[n] \in Entry /\ EntryFits(log[n], visit)
      BY DEF FormTypes, Fits
    <3> QED
      BY <3>1 DEF Entry, EntryFits
  <2> QED
    BY <2>1 DEF FormTypes, Fits, FormsTypeOK
<1> QED
  BY InitFormTypes, NextFormTypes, InitFits, NextFits, <1>1, PTL DEF FormsSpec
=============================================================================
