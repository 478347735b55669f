----------------------------- MODULE PublicPages -----------------------------
(***************************************************************************)
(* The two pages a stranger opens from a link: a holder's shared passport  *)
(* (app/s/[token], SharedPassportView) and the confirmation of an offer    *)
(* (app/confirm/[token], the token endpoints).  A behaviour is about one   *)
(* link, opened in several tabs.                                           *)
(***************************************************************************)
EXTENDS Integers, FiniteSets

CONSTANTS
    Tab,            \* browser tabs, on any device, with the link open
    ViewLimit,      \* max_views, where the link has one
    MaxAsks         \* bound of the model: requests

ASSUME PublicAssumption == ViewLimit \in Nat /\ MaxAsks \in Nat

VARIABLES
    publicPage,         \* "share" or "confirm", chosen at the start
    link, limited, protected,  \* the link: active or not, with a limit, a passphrase
    views, given,       \* view_count; history: how often the records were given out
    offer,              \* the offer behind a confirmation link
    phase,              \* of each tab
    asks,               \* requests under way
    asked,              \* counter behind the bound
    overlapped,         \* history: did two views count over each other?
    unheard             \* history: tabs that lost an answer

publicVars == <<publicPage, link, limited, protected, views, given, offer, phase, asks,
                asked, overlapped, unheard>>
serverVars == <<link, limited, protected, views, given, offer, overlapped>>

Share == publicPage = "share"
Confirm == publicPage = "confirm"
Secret == {"none", "wrong", "right"}
Asking(t) == \E f \in asks : f.tab = t /\ f.here

Ask(t, what, secret) ==
    /\ asked < MaxAsks /\ asked' = asked + 1
    /\ asks' = asks \cup {[n |-> asked, tab |-> t, what |-> what, secret |-> secret,
                           pc |-> "sent", count |-> 0, here |-> TRUE,
                           late |-> link # "active"]}

(***************************************************************************)
(* The tabs.                                                               *)
(***************************************************************************)
\* The effect of the mount; the confirmation is read before it is answered.
OpenTab(t) ==
    /\ phase[t] = "closed"
    /\ phase' = [phase EXCEPT ![t] = "loading"]
    /\ Ask(t, "load", "none")
    /\ UNCHANGED <<publicPage, serverVars, unheard>>

\* The cleanup sets cancelled: what is still to come is not shown.
CloseTab(t) ==
    /\ phase[t] # "closed"
    /\ phase' = [phase EXCEPT ![t] = "closed"]
    /\ asks' = {[f EXCEPT !.here = @ /\ f.tab # t] : f \in asks}
    /\ unheard' = unheard \ {t}
    /\ UNCHANGED <<publicPage, serverVars, asked>>

Unlock(t, secret) ==
    /\ Share /\ phase[t] = "locked" /\ ~Asking(t) /\ secret # "none"
    /\ Ask(t, "unlock", secret)
    /\ UNCHANGED <<publicPage, serverVars, phase, unheard>>

Answer(t, act) ==
    /\ Confirm /\ phase[t] = "ready" /\ ~Asking(t)
    /\ Ask(t, act, "none")
    /\ UNCHANGED <<publicPage, serverVars, phase, unheard>>

(***************************************************************************)
(* The server.                                                             *)
(***************************************************************************)
Reply(f, pc) == asks' = (asks \ {f}) \cup {[f EXCEPT !.pc = pc]}

\* is_active; the mutant lets one more view through.
LinkOpenOneMore == link = "active" /\ (limited => views <= ViewLimit)
LinkOpen == link = "active" /\ (limited => views < ViewLimit)

\* The link is read once: its state, its passphrase and its count.
ServeShare(f) ==
    /\ Share /\ f.pc = "sent"
    /\ CASE ~LinkOpen -> Reply(f, "gone")
         [] LinkOpen /\ protected /\ f.secret # "right" -> Reply(f, "locked")
         [] OTHER -> asks' = (asks \ {f}) \cup {[f EXCEPT !.pc = "reading", !.count = views]}
    /\ UNCHANGED <<publicPage, serverVars, phase, asked, unheard>>

\* Then the view is counted, from the count that was read.
CountView(f) ==
    /\ f.pc = "reading"
    /\ views' = f.count + 1 /\ given' = given + 1
    /\ overlapped' = (overlapped \/ views # f.count)
    /\ Reply(f, "granted")
    /\ UNCHANGED <<publicPage, link, limited, protected, offer, phase, asked, unheard>>

\* The lock and the look at is_open are one step; the mutant writes whatever it finds.
AnswerUnchecked(f) == offer' = f.what /\ Reply(f, "granted")
AnswerLocked(f) ==
    IF offer = "open" THEN offer' = f.what /\ Reply(f, "granted")
    ELSE UNCHANGED offer /\ Reply(f, "gone")

ServeConfirm(f) ==
    /\ Confirm /\ f.pc = "sent"
    /\ IF f.what = "load"
       THEN UNCHANGED offer /\ Reply(f, IF offer = "open" THEN "granted" ELSE "gone")
       ELSE AnswerLocked(f)
    /\ UNCHANGED <<publicPage, link, limited, protected, views, given, overlapped, phase,
                   asked, unheard>>

\* The holder revokes the link, or the clock passes its expiry; an offer lapses.
\* Only the confirmation row lapses here: what expire_stale_offers does to the record
\* behind it is AnchorPipeline's.
Withdraw ==
    /\ IF Share THEN link = "active" /\ link' = "withdrawn" /\ UNCHANGED offer
       ELSE offer = "open" /\ offer' = "lapsed" /\ UNCHANGED link
    /\ UNCHANGED <<publicPage, limited, protected, views, given, overlapped, phase, asks,
                   asked, unheard>>

(***************************************************************************)
(* The answer.  Anything but a 401 is "gone" on a first load; unlocking    *)
(* stays on the form; a confirmation that fails is "no longer valid".      *)
(***************************************************************************)
SharedPhase(what, pc) ==
    IF pc = "granted" THEN "ready"
    ELSE IF pc = "locked" \/ what = "unlock" THEN "locked" ELSE "gone"

ConfirmPhase(what, pc) ==
    IF pc # "granted" THEN "gone" ELSE IF what = "load" THEN "ready" ELSE what

Phase(f, pc) == IF Share THEN SharedPhase(f.what, pc) ELSE ConfirmPhase(f.what, pc)

ShowPhase(f, pc) ==
    /\ asks' = asks \ {f}
    /\ phase' = IF f.here THEN [phase EXCEPT ![f.tab] = Phase(f, pc)] ELSE phase

Arrives(f) ==
    /\ f.pc \in {"granted", "locked", "gone"}
    /\ ShowPhase(f, f.pc)
    /\ UNCHANGED <<publicPage, serverVars, asked, unheard>>

\* The network fails, before or after the server did its part, or it is throttled.
NetworkFails(f) ==
    /\ f.pc # "reading"
    /\ ShowPhase(f, "lost")
    /\ unheard' = IF f.here THEN unheard \cup {f.tab} ELSE unheard
    /\ UNCHANGED <<publicPage, serverVars, asked>>

PublicInit ==
    /\ publicPage \in {"share", "confirm"}
    /\ link = "active" /\ offer = "open"
    /\ limited \in BOOLEAN /\ protected \in BOOLEAN /\ (Confirm => ~limited /\ ~protected)
    /\ views = 0 /\ given = 0
    /\ phase = [t \in Tab |-> "closed"] /\ asks = {} /\ asked = 0
    /\ overlapped = FALSE /\ unheard = {}

PublicNext ==
    \/ \E t \in Tab : OpenTab(t) \/ CloseTab(t)
    \/ \E t \in Tab : \/ \E secret \in Secret : Unlock(t, secret)
                      \/ \E act \in {"confirmed", "declined"} : Answer(t, act)
    \/ Withdraw
    \/ \E f \in asks : ServeShare(f) \/ CountView(f) \/ ServeConfirm(f) \/ Arrives(f)
                       \/ NetworkFails(f)

PublicSpec == PublicInit /\ [][PublicNext]_publicVars

-----------------------------------------------------------------------------
\* The shape of the state; a tab has one request under way.
PublicTypeOK ==
    /\ publicPage \in {"share", "confirm"} /\ link \in {"active", "withdrawn"}
    /\ offer \in {"open", "lapsed", "confirmed", "declined"}
    /\ phase \in [Tab -> {"closed", "loading", "locked", "ready", "gone",
                          "confirmed", "declined"}]
    /\ views \in 0..MaxAsks /\ given \in views..MaxAsks /\ unheard \subseteq Tab
    /\ \A f, g \in asks : f.here /\ g.here /\ f.tab = g.tab => f = g

\* The records are given out only to who asked while the link was active, with the
\* right passphrase if it has one, and no more often than it allows, unless views
\* were counted over each other (views.py:162-184).
ViewsAsAllowed ==
    /\ \A f \in asks : f.pc = "granted" /\ Share =>
          ~f.late /\ (protected => f.secret = "right")
    /\ limited /\ ~overlapped => given <= ViewLimit

\* What a tab says of an offer is so: a confirmation and a refusal are never both on
\* screens somewhere, each is what the server holds, and "this link is no longer
\* valid" means that it is not, unless an answer was lost on the way to that tab
\* (confirm-panel.tsx:50-70, confirmations.py:158-184).  It speaks of the
\* confirmation row: the record behind a "confirmed" screen may still be written
\* EXPIRED (confirmations.py:331; run expiry_race).
OutcomeIsTrue ==
    Confirm => \A t \in Tab :
        /\ phase[t] \in {"confirmed", "declined"} => offer = phase[t]
        /\ phase[t] = "gone" /\ t \notin unheard => offer # "open"
=============================================================================
