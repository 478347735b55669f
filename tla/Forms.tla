-------------------------------- MODULE Forms --------------------------------
(***************************************************************************)
(* The consoles' forms: what is filled in, sent, answered and shown.       *)
(*                                                                         *)
(* A behaviour is about one form, opened, left and opened again; leaving   *)
(* is any unmount (a link, the wallet gate closing, the session ending).   *)
(* What is filled in is abstracted to whom or what it is about, and to two *)
(* boxes where they decide what may be sent.  Fields stay editable while a *)
(* request is under way, its button does not.                              *)
(***************************************************************************)
EXTENDS Integers, Sequences, FiniteSets

CONSTANTS
    Subject,        \* what a filled form is about: a person, a job, a file
    Blank,          \* nothing
    MaxSends,       \* bound of the model: submissions
    MaxVisits       \* bound of the model: times the form is opened

ASSUME FormsAssumption == Blank \notin Subject /\ MaxVisits \in Nat \ {0}

VARIABLES
    form,               \* chosen at the start
    visit, open,        \* how often it was opened, and whether it is
    draft,              \* the fields
    shown,              \* the submission whose result, link or verdict is shown
    formError,          \* the submission whose error is shown, or Unsent
    preview, reading,   \* the batch's preview; files being read for it
    log,                \* every submission and what became of it
    typed               \* history: has a field changed since the last submission?

formVars == <<form, visit, open, draft, shown, formError, preview, reading, log, typed>>

None   == 0
Unsent == -1
EmptyForm == [about |-> Blank, first |-> FALSE, second |-> FALSE]
Draft == [about : Subject \cup {Blank}, first : BOOLEAN, second : BOOLEAN]
WithBoxes == {"experience", "claim", "share", "password"}

Here(n) == open /\ log[n].visit = visit
Busy == \E n \in DOMAIN log : Here(n) /\ log[n].pc # "over"

(***************************************************************************)
(* What the controls ask for before the button sends anything.             *)
(***************************************************************************)
Filled == draft.about # Blank

IssueControls      == Filled
ExperienceControls == Filled /\ (draft.first \/ draft.second)  \* current, or it has an end
ClaimControls      == Filled /\ (draft.first \/ draft.second)
AccountControls    == Filled
ShareControls      == Filled                    \* first: everything; second: some picked
BatchControls      == Filled /\ preview # Blank /\ shown = None
VerifyControls     == Filled
LookupControls     == Filled
DocumentControls   == Filled
ProfileControls    == Filled
PasswordControls   == Filled                    \* second: typed twice alike

\* Of a current job no end is sent; the mutant sends both.
JobWithBothDates == draft
Job == [draft EXCEPT !.second = @ /\ ~draft.first]

(***************************************************************************)
(* The screens.  checks: what the handler refuses to send.  view: where a  *)
(* success is shown.  clears: it empties the fields.  toast: it is told    *)
(* wherever the user is by then.  wipes: submitting takes the view away.   *)
(***************************************************************************)
Screen(view, clears, toast) ==
    [checks |-> TRUE, payload |-> draft, view |-> view, clears |-> clears,
     toast |-> toast, wipes |-> FALSE]

IssueSinglePage == Screen("instead", FALSE, TRUE)
ExperienceForm  == [Screen("instead", FALSE, TRUE) EXCEPT !.payload = Job]
NewClaimPage    == [Screen("instead", TRUE, TRUE) EXCEPT !.payload = Job]
\* The toast has no temporary password: the account is told by its view only.
CreateAccountForm == Screen("instead", FALSE, FALSE)
NewSharePage    == [Screen("beside", TRUE, TRUE) EXCEPT
                       !.checks = draft.first \/ draft.second]
BatchUpload     == Screen("beside", FALSE, TRUE)

\* Mutant: the last verdict stays while the next document is checked.
VerifyFormStale == Screen("beside", FALSE, FALSE)
VerifyForm      == [Screen("beside", FALSE, FALSE) EXCEPT !.wipes = TRUE]
PublicVerifyPage == [Screen("beside", FALSE, FALSE) EXCEPT !.wipes = TRUE]
AccreditationDocuments == Screen("none", TRUE, TRUE)
ProfilePage     == Screen("none", TRUE, TRUE)
ChangePassword  == [Screen("none", TRUE, TRUE) EXCEPT !.checks = draft.second]

Page == [issue      |-> IssueSinglePage, experience |-> ExperienceForm,
         claim      |-> NewClaimPage,    account    |-> CreateAccountForm,
         share      |-> NewSharePage,    batch      |-> BatchUpload,
         verify     |-> VerifyForm,      document   |-> AccreditationDocuments,
         profile    |-> ProfilePage,     password   |-> ChangePassword,
         lookup     |-> PublicVerifyPage]
Controls == [issue   |-> IssueControls,   experience |-> ExperienceControls,
             claim   |-> ClaimControls,   account    |-> AccountControls,
             share   |-> ShareControls,   batch      |-> BatchControls,
             verify  |-> VerifyControls,  document   |-> DocumentControls,
             profile |-> ProfileControls, password   |-> PasswordControls,
             lookup  |-> LookupControls]
Form == {"issue", "experience", "claim", "account", "share", "batch", "verify",
         "lookup", "document", "profile", "password"}

Shows == IF Page[form].view = "instead" /\ shown # None THEN "result" ELSE "fields"

(***************************************************************************)
(* The server: which statuses a saved record has, and which of them stop a *)
(* second one of the same content; a login is created once; the current    *)
(* password must be given.                                                 *)
(***************************************************************************)
LiveStatuses == {"OFFERED", "PENDING_ANCHOR", "ISSUED", "REVOKED", "SUPERSEDED"}
StatusOf == [issue |-> "OFFERED", experience |-> "OFFERED", claim |-> "PENDING_REVIEW"]

Taken(p) == \E n \in DOMAIN log : log[n].saves > 0 /\ log[n].about = p
GuardDuplicate(p) ==
    /\ Taken(p)
    /\ \/ form \in DOMAIN StatusOf /\ StatusOf[form] \in LiveStatuses
       \/ form \in {"account", "password"}

(***************************************************************************)
(* The user.                                                               *)
(***************************************************************************)
FreshForm ==
    /\ draft' = EmptyForm /\ shown' = None /\ formError' = None
    /\ preview' = Blank /\ reading' = {} /\ typed' = FALSE

OpenForm ==
    /\ ~open /\ visit < MaxVisits
    /\ open' = TRUE /\ visit' = visit + 1
    /\ FreshForm
    /\ UNCHANGED <<form, log>>

LeaveForm ==
    /\ open /\ open' = FALSE
    /\ FreshForm
    /\ UNCHANGED <<form, visit, log>>

\* handleFile: the result and the error go, the rows of the last file stay
\* until this one has been read; without a file they go too.
HandleFile(d) ==
    /\ shown' = None /\ formError' = None
    /\ preview' = IF d.about = Blank THEN Blank ELSE preview
    /\ reading' = reading \cup ({d.about} \ {Blank})

Fill(d) ==
    /\ open /\ Shows = "fields" /\ d # draft
    /\ (form \in WithBoxes \/ (~d.first /\ ~d.second))
    /\ draft' = d /\ typed' = TRUE
    /\ IF form = "batch" THEN HandleFile(d)
       ELSE UNCHANGED <<shown, formError, preview, reading>>
    /\ UNCHANGED <<form, visit, open, log>>

FileRead(f) ==
    /\ f \in reading
    /\ reading' = reading \ {f} /\ preview' = f
    /\ UNCHANGED <<form, visit, open, draft, shown, formError, log, typed>>

\* Refused before anything is sent.
RefuseToSend ==
    /\ open /\ Shows = "fields"
    /\ Controls[form] /\ ~Page[form].checks /\ ~Busy
    /\ formError' = Unsent
    /\ UNCHANGED <<form, visit, open, draft, shown, preview, reading, log, typed>>

Submit ==
    /\ open /\ Shows = "fields"
    /\ Controls[form] /\ Page[form].checks /\ ~Busy
    /\ Len(log) < MaxSends
    /\ LET p == Page[form].payload IN
       log' = Append(log, [about |-> p.about, first |-> p.first, second |-> p.second,
                           visit |-> visit, pc |-> "sent", saves |-> 0,
                           leftover |-> FALSE, told |-> FALSE, lost |-> FALSE])
    /\ formError' = None /\ typed' = FALSE
    /\ shown' = IF Page[form].wipes THEN None ELSE shown
    /\ UNCHANGED <<form, visit, open, draft, preview, reading>>

\* "Issue another", "Log another job", "Create another", Dismiss, onReset.
Another ==
    /\ open /\ shown # None
    /\ IF form = "share" THEN shown' = None /\ UNCHANGED <<draft, formError, preview,
                                                          reading, typed>>
       ELSE FreshForm
    /\ form \notin {"verify", "lookup"}
    /\ UNCHANGED <<form, visit, open, log>>

(***************************************************************************)
(* The answer.                                                             *)
(***************************************************************************)
\* A refused issue, job or claim may be in the issuer's history all the same:
\* _create_record has committed the record, as a DRAFT, and its holder's account
\* before the duplicate is looked for (a refusal of the serializer comes before, and
\* saves nothing; no other form saves in two transactions).  The guard does not count
\* a DRAFT, which is not live and has no key.
MayLeaveDraft == form \in DOMAIN StatusOf

Serve(n) ==
    /\ log[n].pc = "sent"
    /\ \/ /\ ~GuardDuplicate(log[n].about)
          /\ log' = [log EXCEPT ![n].pc = "taken", ![n].saves = @ + 1]
       \/ \E left \in BOOLEAN :
             /\ left => MayLeaveDraft
             /\ log' = [log EXCEPT ![n].pc = "refused", ![n].leftover = left]
    /\ UNCHANGED <<form, visit, open, draft, shown, formError, preview, reading, typed>>

\* Mutant: success is told by callbacks of a component that may be gone.
TellIfMounted(n) == log' = [log EXCEPT ![n].pc = "over", ![n].told = Here(n)]
TellSuccess(n) ==
    log' = [log EXCEPT ![n].pc = "over", ![n].told = Page[form].toast \/ Here(n)]

Succeeded(n) ==
    /\ log[n].pc = "taken"
    /\ TellSuccess(n)
    /\ draft' = IF Here(n) /\ Page[form].clears THEN EmptyForm ELSE draft
    /\ shown' = IF Here(n) /\ Page[form].view # "none" THEN n ELSE shown
    /\ UNCHANGED <<form, visit, open, formError, preview, reading, typed>>

\* Mutant: the fields are cleared in a finally.
KeepFieldsNot(n) == draft' = IF Here(n) THEN EmptyForm ELSE draft
KeepFields(n) == UNCHANGED draft

ShowError(n) ==
    /\ formError' = IF Here(n) THEN n ELSE formError
    /\ KeepFields(n)
    /\ UNCHANGED <<form, visit, open, shown, preview, reading, typed>>

Refused(n) ==
    /\ log[n].pc = "refused"
    /\ log' = [log EXCEPT ![n].pc = "over"]
    /\ ShowError(n)

\* No answer, before or after the request took effect.  Mutations are not
\* retried; the mutant does.
LoseAndRetry(n) ==
    /\ log[n].pc # "over"
    /\ log' = [log EXCEPT ![n].pc = "sent"]
    /\ UNCHANGED <<form, visit, open, draft, shown, formError, preview, reading, typed>>

Lose(n) ==
    /\ log[n].pc # "over"
    /\ log' = [log EXCEPT ![n].pc = "over", ![n].lost = TRUE]
    /\ ShowError(n)

FormsInit ==
    /\ form \in Form
    /\ visit = 1 /\ open = TRUE
    /\ draft = EmptyForm /\ shown = None /\ formError = None
    /\ preview = Blank /\ reading = {} /\ log = <<>> /\ typed = FALSE

FormsNext ==
    \/ OpenForm \/ LeaveForm \/ Another \/ RefuseToSend \/ Submit
    \/ \E d \in Draft : Fill(d)
    \/ \E f \in reading : FileRead(f)
    \/ \E n \in DOMAIN log : Serve(n) \/ Succeeded(n) \/ Refused(n) \/ Lose(n)

FormsSpec == FormsInit /\ [][FormsNext]_formVars

-----------------------------------------------------------------------------
\* The shape of the state.
FormsTypeOK ==
    /\ form \in Form /\ visit \in 1..MaxVisits /\ open \in BOOLEAN
    /\ draft \in Draft /\ shown \in 0..Len(log) /\ formError \in -1..Len(log)
    /\ preview \in Subject \cup {Blank} /\ reading \subseteq Subject /\ typed \in BOOLEAN
    /\ \A n \in DOMAIN log :
          /\ log[n].about \in Subject /\ log[n].visit \in 1..visit
          /\ log[n].pc \in {"sent", "taken", "refused", "over"}
          /\ {log[n].leftover, log[n].told, log[n].lost} \subseteq BOOLEAN
          /\ {log[n].first, log[n].second} \subseteq BOOLEAN

\* What the server took, the user is told, also when the form was left before
\* the answer came; only an answer that never came, and a verdict or temporary
\* password nobody was there to see, go untold (the await of every handleSubmit,
\* lib/toast.tsx).  Of the DRAFT a refusal leaves behind nobody is told.
SavedIsTold ==
    \A n \in DOMAIN log :
        log[n].pc = "over" /\ log[n].saves > 0 =>
            log[n].told \/ log[n].lost \/ (~Page[form].toast /\ ~Here(n))

\* An error shown about a submission means that it was not taken, unless its
\* answer was lost: nobody sends again what was offered, filed or created (the
\* catch of every handleSubmit, providers.tsx:33-36).  It does not mean that
\* nothing was saved: of an issue, a job or a claim a DRAFT may be left
\* (services.py:193-194, 210-216); of any other submission the database keeps
\* nothing, though what it had sent to the chain stays there (services.py:321, 413;
\* organizations/services.py:36-60).
ErrorIsHonest ==
    (formError \in DOMAIN log /\ ~log[formError].lost) =>
        /\ log[formError].saves = 0
        /\ log[formError].leftover => form \in {"issue", "experience", "claim"}

\* What was typed stays in the fields until it was saved: an answer never empties
\* a form of what the server does not hold, unless it was typed meanwhile.
WorkKept ==
    [][ (open /\ open' /\ visit' = visit /\ draft.about # Blank /\ draft' = EmptyForm
         /\ ~typed /\ ~typed')
        => \E n \in DOMAIN log :
              Here(n) /\ log[n].saves > 0 /\ log[n].about = draft.about ]_formVars

\* The verdict, batch result, record or login on the screen is of what the fields
\* hold, as long as nothing was typed since: while the next certificate is checked,
\* and when its check fails, the last verdict is not taken for its own.
ViewIsOfDraft ==
    (open /\ ~typed /\ draft.about # Blank /\ form # "share" /\ shown # None) =>
        log[shown].about = draft.about

\* A job is sent as the database's constraint wants it, current or with an end,
\* in whatever order the boxes were ticked and filled (models.py:469-475).
JobsFitTheConstraint ==
    form \in {"experience", "claim"} =>
        \A n \in DOMAIN log : log[n].first # log[n].second

\* "Somebody does not file the same job twice while waiting - the backend would
\* reject the duplicate anyway" (claims/new/page.tsx:77-79): of one job the server
\* takes one claim.
ClaimFiledOnce ==
    form = "claim" =>
        \A p \in Subject :
            Cardinality({n \in DOMAIN log : log[n].saves > 0 /\ log[n].about = p}) <= 1
=============================================================================
