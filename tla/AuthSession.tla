----------------------------- MODULE AuthSession -----------------------------
(***************************************************************************)
(* The browser's session: one tab's tokens, their refresh, the retry of    *)
(* refused calls, sign-in, registration, sign-out and the route guards.    *)
(*   lib/auth/auth-context.tsx, lib/api/client.ts,                         *)
(*   components/auth/protected-route.tsx, app/{page,login,register,layout} *)
(*                                                                         *)
(* JavaScript runs one turn at a time, so a step is what happens between   *)
(* two awaits: a click, a timer, or one response and the continuations it  *)
(* wakes.  A token pair is the user it speaks for and a number; the server *)
(* (external) refuses an expired access token, and any access token of an  *)
(* account it has deactivated; it rotates a refresh token without looking  *)
(* at the account, and does not revoke the old pair.                       *)
(***************************************************************************)
EXTENDS Integers, FiniteSets

CONSTANTS
    User,           \* people with, or about to have, an account
    RoleOf,         \* User -> Role
    KindOf,         \* User -> kind of the organisation they belong to, or NoOrg
    Visited,        \* the consoles that links and typed addresses name
    Query,          \* concurrent authenticated calls of the mounted page
    Nobody, NoPair, NoOrg, NoNext,
    MaxPairs,       \* bound of the model: pairs the server mints
    MaxRefreshes,   \* bound of the model: refreshes in flight at once
    MaxLoads        \* bound of the model: page loads after the first

Role == {"SEEKER", "ORG_MEMBER", "REGISTRAR"}
OrgKind == {"INSTITUTION", "EMPLOYER"}

ASSUME SessionAssumption ==
    /\ RoleOf \in [User -> Role]
    /\ KindOf \in [User -> OrgKind \cup {NoOrg}]
    /\ NoOrg \notin OrgKind
    /\ Nobody \notin User
    /\ NoPair \notin [user : User, id : Nat]
    /\ Query \cap {"me", "timer", "boot"} = {}
    /\ MaxPairs \in Nat /\ MaxRefreshes \in Nat \ {0} /\ MaxLoads \in Nat

(***************************************************************************)
(* Consoles and who may open them.                                         *)
(***************************************************************************)
Console == {"citizen", "issuer", "employer", "admin"}
Page == Console \cup {"landing", "login", "register"}
ASSUME ConsoleAssumption == NoNext \notin Console /\ Visited \subseteq Console

Allow == [citizen  |-> {"SEEKER"},     issuer |-> {"ORG_MEMBER"},
          employer |-> {"ORG_MEMBER"}, admin  |-> {"REGISTRAR"}]
RequireOrgKind == [issuer |-> "INSTITUTION", employer |-> "EMPLOYER"]

\* Neither wrongRole nor wrongOrgKind.
InPlace(u, p) ==
    /\ RoleOf[u] \in Allow[p]
    /\ (p \in DOMAIN RequireOrgKind /\ KindOf[u] # NoOrg)
          => KindOf[u] = RequireOrgKind[p]

\* Mutant: employers and institutions swapped.
HomeForSwapped(u) ==
    CASE RoleOf[u] = "REGISTRAR" -> "admin"
      [] RoleOf[u] = "ORG_MEMBER" ->
            IF KindOf[u] = "EMPLOYER" THEN "issuer" ELSE "employer"
      [] RoleOf[u] = "SEEKER" -> "citizen"

HomeFor(u) ==
    CASE RoleOf[u] = "REGISTRAR" -> "admin"
      [] RoleOf[u] = "ORG_MEMBER" ->
            IF KindOf[u] = "EMPLOYER" THEN "employer" ELSE "issuer"
      [] RoleOf[u] = "SEEKER" -> "citizen"

VARIABLES
    tokens,         \* tokensRef: the pair every call is sent with
    stored,         \* localStorage
    user, status,   \* React state
    timer,          \* is refreshTimer armed?
    inFlight,       \* inFlightRefresh: the refresh others join, 0 if null
    refreshes,      \* POST /auth/refresh/ requests under way
    call,           \* apiFetch calls: of each query, and bootstrap's GET /auth/me/
    page, next,     \* the route, and /login's ?next=
    entering,       \* the sign-in or registration under way
    accounts,       \* accounts that exist
    refused,        \* accounts the server has deactivated
    expired,        \* access tokens past their exp
    minted,         \* pairs handed out
    loads,          \* page loads so far
    overlap         \* history: since the page loaded, has anyone signed in or
                    \* out while a refresh or bootstrap was still under way?

session == <<tokens, stored, user, status, timer>>
server  == <<accounts, refused, expired, minted>>
route   == <<page, next>>
vars == <<tokens, stored, user, status, timer, inFlight, refreshes, call, page, next,
          entering, accounts, refused, expired, minted, loads, overlap>>

Pair == [user : User, id : 1..MaxPairs]
Caller == Query \cup {"me"}
Waiter == Caller \cup {"timer", "boot"}
Idle == [pc |-> "idle", token |-> NoPair]
NoEntry == [user |-> Nobody, step |-> "none", goTo |-> NoNext]

\* The pair handed to u by the n-th successful login or rotation.
PairFor(u) == [user |-> u, id |-> minted + 1]

Pending == refreshes # {} \/ call["me"] # Idle

(***************************************************************************)
(* auth-context.tsx.                                                       *)
(***************************************************************************)
Adopt(p) == tokens' = p /\ stored' = p

\* Mutant: writeStoredTokens(null) is forgotten.
ClearsMemoryOnly ==
    /\ tokens' = NoPair /\ UNCHANGED stored
    /\ user' = Nobody /\ status' = "unauthenticated"
    /\ timer' = "off" /\ inFlight' = 0

ClearSession ==
    /\ tokens' = NoPair /\ stored' = NoPair
    /\ user' = Nobody /\ status' = "unauthenticated"
    /\ timer' = "off" /\ inFlight' = 0

FreshRefresh == CHOOSE i \in 1..MaxRefreshes : \A r \in refreshes : r.id # i

\* Mutants: every caller refreshes for itself; a caller who joins is not heard.
AwaitAlone(w) ==
    /\ Cardinality(refreshes) < MaxRefreshes
    /\ refreshes' = refreshes \cup {[id |-> FreshRefresh, of |-> tokens, waiting |-> {w}]}
    /\ inFlight' = FreshRefresh
AwaitUnheard(w) ==
    IF inFlight # 0 THEN UNCHANGED <<refreshes, inFlight>> ELSE AwaitAlone(w)

\* requestRefresh with tokens in hand: join the refresh in flight, or start one.
Await(w) ==
    IF inFlight # 0
      THEN /\ refreshes' = {IF r.id = inFlight THEN [r EXCEPT !.waiting = @ \cup {w}]
                                               ELSE r : r \in refreshes}
           /\ UNCHANGED inFlight
      ELSE /\ Cardinality(refreshes) < MaxRefreshes
           /\ refreshes' = refreshes \cup
                {[id |-> FreshRefresh, of |-> tokens, waiting |-> {w}]}
           /\ inFlight' = FreshRefresh

\* The timer goes off; with no tokens requestRefresh answers null at once.
TimerFires ==
    /\ timer = "armed"
    /\ IF tokens = NoPair
         THEN ClearSession /\ UNCHANGED refreshes
         ELSE timer' = "off" /\ Await("timer") /\ UNCHANGED <<tokens, stored, user, status>>
    /\ UNCHANGED <<call, route, entering, server, loads, overlap>>

\* The finally clause, whichever refresh it belongs to.
MarkerKept == UNCHANGED inFlight
Finally == inFlight' = 0

\* scheduleRefresh: the timer re-arms itself when the refresh it asked for comes.
NeverRearms(r) == UNCHANGED timer
Rearm(r) == timer' = IF "timer" \in r.waiting THEN "armed" ELSE timer

\* Those for whom a null answer is the end of the session.
SessionEndersButBoot == {"timer", "me"}
SessionEnders == {"timer", "boot", "me"}

\* A rotated pair arrives: stored, the timer re-armed, the waiting calls resent.
RefreshGranted(r) ==
    /\ minted < MaxPairs
    /\ Adopt(PairFor(r.of.user))
    /\ minted' = minted + 1
    /\ Finally
    /\ refreshes' = refreshes \ {r}
    /\ Rearm(r)
    /\ call' = [c \in Caller |->
                 IF c \in r.waiting THEN [pc |-> "resent", token |-> PairFor(r.of.user)]
                 ELSE IF c = "me" /\ "boot" \in r.waiting
                        THEN [pc |-> "sent", token |-> PairFor(r.of.user)]
                 ELSE call[c]]
    /\ UNCHANGED <<user, status, route, entering, accounts, refused, expired, loads, overlap>>

\* Any failure of it, refused or unreachable, answers null to all who wait:
\* the timer and bootstrap end the session, the calls report their 401.
RefreshFailed(r) ==
    /\ refreshes' = refreshes \ {r}
    /\ call' = [c \in Caller |-> IF c \in r.waiting THEN Idle ELSE call[c]]
    /\ IF r.waiting \cap SessionEnders # {}
         THEN ClearSession
         ELSE Finally /\ UNCHANGED session
    /\ UNCHANGED <<route, entering, server, loads, overlap>>

(***************************************************************************)
(* client.ts: apiFetch.                                                    *)
(***************************************************************************)
Accepted(p) == p # NoPair /\ p.id \notin expired /\ p.user \notin refused

SendCall(q) ==
    /\ status = "authenticated" /\ page \in Console /\ InPlace(user, page)
    /\ call[q] = Idle
    /\ call' = [call EXCEPT ![q] = [pc |-> "sent", token |-> tokens]]
    /\ UNCHANGED <<session, inFlight, refreshes, route, entering, server, loads, overlap>>

ReplyOk(q) ==
    /\ call[q].pc \in {"sent", "resent"} /\ Accepted(call[q].token)
    /\ call' = [call EXCEPT ![q] = Idle]
    /\ UNCHANGED <<session, inFlight, refreshes, route, entering, server, loads, overlap>>

\* reloadUser, then scheduleRefresh(tokensRef.current!.access), which throws
\* when a sign-out has emptied the ref meanwhile.
MeOk ==
    /\ call["me"].pc \in {"sent", "resent"} /\ Accepted(call["me"].token)
    /\ call' = [call EXCEPT !["me"] = Idle]
    /\ user' = call["me"].token.user /\ status' = "authenticated"
    /\ timer' = IF tokens # NoPair THEN "armed" ELSE timer
    /\ UNCHANGED <<tokens, stored, inFlight, refreshes, route, entering, server, loads,
                   overlap>>

\* The first 401 asks for a refresh and waits for it.
Unauthorized(c) ==
    /\ call[c].pc = "sent" /\ ~Accepted(call[c].token)
    /\ tokens # NoPair
    /\ call' = [call EXCEPT ![c].pc = "waiting"]
    /\ Await(c)
    /\ UNCHANGED <<session, route, entering, server, loads, overlap>>

\* Mutant: bootstrap does not look at what reloadUser answers.
ReplyError_Unseen(c) ==
    /\ call[c].pc \in {"sent", "resent"}
    /\ call' = [call EXCEPT ![c] = Idle]
    /\ UNCHANGED <<session, inFlight, refreshes, route, entering, server, loads, overlap>>

\* A second 401, one with nothing to refresh, or any other error.
ReplyError(c) ==
    /\ call[c].pc \in {"sent", "resent"}
    /\ call' = [call EXCEPT ![c] = Idle]
    /\ IF c = "me" THEN ClearSession ELSE UNCHANGED <<session, inFlight>>
    /\ UNCHANGED <<refreshes, route, entering, server, loads, overlap>>

(***************************************************************************)
(* app/login, app/register: one attempt at a time.                         *)
(***************************************************************************)
\* LoginForm.handleSubmit; where it will go is fixed by the URL it is shown at.
SubmitLogin(u) ==
    /\ page = "login" /\ entering = NoEntry
    /\ entering' = [user |-> u, step |-> "login",
                    goTo |-> IF next # NoNext THEN next ELSE HomeFor(u)]
    /\ UNCHANGED <<session, inFlight, refreshes, call, route, server, loads, overlap>>

SubmitRegister(u) ==
    /\ page = "register" /\ entering = NoEntry /\ RoleOf[u] = "SEEKER"
    /\ entering' = [user |-> u, step |-> "register", goTo |-> "citizen"]
    /\ UNCHANGED <<session, inFlight, refreshes, call, route, server, loads, overlap>>

\* register: the account exists from here on, whatever the login does.
AccountCreated ==
    /\ entering.step = "register" /\ entering.user \notin accounts
    /\ accounts' = accounts \cup {entering.user}
    /\ entering' = [entering EXCEPT !.step = "login"]
    /\ UNCHANGED <<session, inFlight, refreshes, call, route, refused, expired, minted,
                   loads, overlap>>

\* login: the newest pair and user win, whatever else is under way.
SignedIn ==
    /\ entering.step = "login" /\ minted < MaxPairs
    /\ entering.user \in accounts \ refused
    /\ Adopt(PairFor(entering.user))
    /\ minted' = minted + 1
    /\ user' = entering.user /\ status' = "authenticated" /\ timer' = "armed"
    /\ page' = entering.goTo /\ next' = NoNext
    /\ entering' = NoEntry
    /\ overlap' = (overlap \/ Pending)
    /\ UNCHANGED <<inFlight, refreshes, call, accounts, refused, expired, loads>>

EntryFailed ==
    /\ entering # NoEntry
    /\ entering' = NoEntry
    /\ UNCHANGED <<session, inFlight, refreshes, call, route, server, loads, overlap>>

\* AccountChip.handleSignOut, whose replace("/login") races the guard's own
\* redirect; or the wallet gate's, which leaves the redirect to the guard.
SignOut ==
    /\ status = "authenticated" /\ page \in Console /\ InPlace(user, page)
    /\ ClearSession
    /\ \/ page' = "login" /\ next' \in {NoNext, page}
       \/ page \in DOMAIN RequireOrgKind /\ UNCHANGED route
    /\ overlap' = (overlap \/ Pending)
    /\ UNCHANGED <<refreshes, call, entering, server, loads>>

(***************************************************************************)
(* Routes.                                                                 *)
(***************************************************************************)
\* ProtectedRoute's effect.
Guard ==
    /\ page \in Console /\ status # "loading"
    /\ \/ /\ status = "unauthenticated"
          /\ page' = "login" /\ next' = page
       \/ /\ status = "authenticated" /\ ~InPlace(user, page)
          /\ page' = HomeFor(user) /\ next' = NoNext
    /\ UNCHANGED <<session, inFlight, refreshes, call, entering, server, loads, overlap>>

\* RoleSelectPage sends a signed-in visitor home.
LandingRedirect ==
    /\ page = "landing" /\ status = "authenticated"
    /\ page' = HomeFor(user) /\ next' = NoNext
    /\ UNCHANGED <<session, inFlight, refreshes, call, entering, server, loads, overlap>>

\* The links between the public pages; a console's logo leads to the landing page.
FollowLink ==
    /\ \/ /\ page = "landing" /\ status = "unauthenticated"
          /\ \/ page' = "login" /\ next' \in Visited \cup {NoNext}
             \/ page' = "register" /\ next' = NoNext
       \/ page = "login" /\ page' \in {"register", "landing"} /\ next' = NoNext
       \/ page = "register" /\ page' = "login" /\ next' = NoNext
       \/ /\ page \in Console /\ status = "authenticated" /\ InPlace(user, page)
          /\ page' = "landing" /\ next' = NoNext
    /\ UNCHANGED <<session, inFlight, refreshes, call, entering, server, loads, overlap>>

\* AuthProvider mounts: memory is rebuilt from localStorage.  A pair whose exp
\* has passed by this machine's clock is refreshed first; otherwise, and with
\* a clock that is behind, /auth/me/ is asked with it as it is.
Load(p) ==
    /\ loads < MaxLoads
    /\ loads' = loads + 1
    /\ page' = p /\ next' = IF p = page THEN next ELSE NoNext
    /\ tokens' = stored
    /\ user' = Nobody /\ timer' = "off" /\ entering' = NoEntry /\ overlap' = FALSE
    /\ \/ /\ stored = NoPair
          /\ status' = "unauthenticated"
          /\ refreshes' = {} /\ inFlight' = 0
          /\ call' = [c \in Caller |-> Idle]
       \/ /\ stored # NoPair
          /\ status' = "loading"
          /\ \/ /\ stored.id \in expired
                /\ refreshes' = {[id |-> 1, of |-> stored, waiting |-> {"boot"}]}
                /\ inFlight' = 1
                /\ call' = [c \in Caller |-> Idle]
             \/ /\ refreshes' = {} /\ inFlight' = 0
                /\ call' = [c \in Caller |-> IF c = "me" THEN [pc |-> "sent", token |-> stored]
                                                         ELSE Idle]
    /\ UNCHANGED <<stored, server>>

(***************************************************************************)
(* The server's side.                                                      *)
(***************************************************************************)
Expire(i) ==
    /\ i \in 1..minted \ expired
    /\ expired' = expired \cup {i}
    /\ UNCHANGED <<session, inFlight, refreshes, call, route, entering, accounts, refused,
                   minted, loads, overlap>>

Deactivate(u) ==
    /\ u \in accounts \ refused
    /\ refused' = refused \cup {u}
    /\ UNCHANGED <<session, inFlight, refreshes, call, route, entering, accounts, expired,
                   minted, loads, overlap>>

(***************************************************************************)
(* Specification.  Every request is answered or fails, timers fire, and    *)
(* effects run; people and the server's clock may do nothing for ever.     *)
(***************************************************************************)
Init ==
    /\ tokens = NoPair /\ stored = NoPair
    /\ user = Nobody /\ status = "unauthenticated" /\ timer = "off"
    /\ inFlight = 0 /\ refreshes = {}
    /\ call = [c \in Caller |-> Idle]
    /\ page = "landing" /\ next = NoNext /\ entering = NoEntry
    /\ accounts \in {a \in SUBSET User : \A u \in User : RoleOf[u] # "SEEKER" => u \in a}
    /\ refused = {} /\ expired = {} /\ minted = 0 /\ loads = 0
    /\ overlap = FALSE

RefreshAnswered(i) == \E r \in refreshes : r.id = i /\ (RefreshGranted(r) \/ RefreshFailed(r))
CallAnswered(c) ==
    \/ c \in Query /\ ReplyOk(c)
    \/ c = "me" /\ MeOk
    \/ Unauthorized(c)
    \/ ReplyError(c)

Next ==
    \/ TimerFires
    \/ \E i \in 1..MaxRefreshes : RefreshAnswered(i)
    \/ \E c \in Caller : CallAnswered(c)
    \/ \E q \in Query : SendCall(q)
    \/ \E u \in User : SubmitLogin(u) \/ SubmitRegister(u) \/ Deactivate(u)
    \/ AccountCreated \/ SignedIn \/ EntryFailed \/ SignOut
    \/ Guard \/ LandingRedirect \/ FollowLink
    \/ \E p \in Visited \cup (Page \ Console) : Load(p)
    \/ \E i \in 1..MaxPairs : Expire(i)

Fairness ==
    /\ WF_vars(TimerFires) /\ WF_vars(Guard)
    /\ \A i \in 1..MaxRefreshes : WF_vars(RefreshAnswered(i))
    /\ \A c \in Caller : WF_vars(CallAnswered(c))

Spec == Init /\ [][Next]_vars /\ Fairness

(***************************************************************************)
(* Properties.                                                             *)
(***************************************************************************)
\* Every variable has its type, and inFlightRefresh is null or a refresh that
\* is still under way: a marker left behind would be joined for ever.
TypeOK ==
    /\ tokens \in Pair \cup {NoPair} /\ stored \in Pair \cup {NoPair}
    /\ user \in User \cup {Nobody}
    /\ status \in {"loading", "authenticated", "unauthenticated"}
    /\ timer \in {"off", "armed"}
    /\ refreshes \subseteq [id : 1..MaxRefreshes, of : Pair, waiting : SUBSET Waiter]
    /\ inFlight = 0 \/ \E r \in refreshes : r.id = inFlight
    /\ call \in [Caller -> [pc : {"idle", "sent", "waiting", "resent"},
                            token : Pair \cup {NoPair}]]
    /\ page \in Page /\ next \in Console \cup {NoNext}
    /\ entering \in [user : User \cup {Nobody}, step : {"none", "register", "login"},
                     goTo : Console \cup {NoNext}]
    /\ accounts \subseteq User /\ refused \subseteq User
    /\ minted \in 0..MaxPairs /\ expired \subseteq 1..minted
    /\ loads \in 0..MaxLoads /\ overlap \in BOOLEAN

\* auth-context.tsx keeps one fact in five places.  As long as nobody signed in
\* or out over an unfinished refresh or bootstrap: the signed-in user is the one
\* the tokens speak for, the tokens are the stored ones, and signed out means
\* that nothing of the session is left, in memory, storage or timers.
SessionCoherent ==
    ~overlap =>
        /\ tokens = stored
        /\ status = "authenticated" => user # Nobody /\ tokens # NoPair /\ tokens.user = user
        /\ status = "unauthenticated" => user = Nobody /\ tokens = NoPair /\ timer = "off"

\* "Both paths funnel into one in-flight promise so a page that fires six
\* queries at once refreshes once" (auth-context.tsx:26-27).
OneRefresh == ~overlap => Cardinality(refreshes) <= 1

\* A signed-in session always has its next proactive refresh armed or under way:
\* the reactive 401 path never re-arms the timer, so a lost one stays lost.
SessionKeptAlive ==
    (status = "authenticated" /\ ~overlap) =>
        timer = "armed" \/ \E r \in refreshes : "timer" \in r.waiting

\* A call waiting on a refresh is waited for: it is among those some refresh
\* under way will wake, so that no query hangs after a 401.
NoCallStranded ==
    \A c \in Caller : call[c].pc = "waiting" => \E r \in refreshes : c \in r.waiting

\* A redirect from one console to another ends where its user may be; a guard
\* that bounced would send a stale link's follower round for ever.  Only a
\* sign-in still under way goes where its ?next= says, wherever its user is by
\* then, and leaves the rest to the guard.
RedirectsLand ==
    [][(page \in Console /\ page' \in Console \ {page} /\ UNCHANGED <<loads, entering>>)
         => InPlace(user', page')]_vars

\* Whoever opens a console, restored session or not, ends up in one that is
\* theirs or outside the consoles: the spinner never stays.
EveryVisitSettles ==
    page \in Console ~>
        (page \notin Console \/ (status = "authenticated" /\ InPlace(user, page)))

\* "... a refresh that keeps yielding 401 is a dead session" (client.ts:73): the
\* session of a deactivated account is rotated for as long as it is open, but a
\* page load does not restore it: whatever refreshes are granted on the way, the
\* load ends signed out, unless somebody signs in over it.
DeadSessionNotRestored ==
    \A u \in User :
        (status = "loading" /\ ~overlap /\ u \in refused /\ tokens \in {p \in Pair : p.user = u})
            ~> (status = "unauthenticated" \/ overlap)
=============================================================================
