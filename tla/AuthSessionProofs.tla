-------------------------- MODULE AuthSessionProofs --------------------------
(***************************************************************************)
(* Proofs about the browser's session, for any people, queries, consoles   *)
(* visited, and any number of token pairs, refreshes and page loads.       *)
(***************************************************************************)
EXTENDS AuthSession, FiniteSetTheorems, TLAPS

(***************************************************************************)
(* The inductive invariant.                                                *)
(***************************************************************************)
\* A sign-in under way is somebody's and knows the console it will lead to;
\* whoever is signed in has an account; the requests under way are finitely many.
Supported ==
    /\ entering.step # "none" => entering.user \in User /\ entering.goTo \in Console
    /\ status = "authenticated" => user \in User
    /\ IsFiniteSet(refreshes)

Typed == TypeOK /\ Supported

\* What bootstrap may be doing while the spinner shows, the queries being idle:
\* asking /auth/me/ with the tokens, or waiting for the one refresh of them that
\* it, or the /auth/me/ call, has asked for.
AskingMe ==
    /\ refreshes = {}
    /\ call["me"].pc \in {"sent", "resent"} /\ call["me"].token = tokens
RefreshingFirst ==
    /\ refreshes # {} /\ \A r \in refreshes : r.waiting = {"boot"}
    /\ call["me"] = Idle
RefreshingForMe ==
    /\ refreshes # {} /\ \A r \in refreshes : r.waiting = {"me"}
    /\ call["me"].pc = "waiting" /\ call["me"].token = tokens

Booting ==
    /\ user = Nobody /\ tokens # NoPair /\ timer = "off"
    /\ \A q \in Query : call[q].pc = "idle"
    /\ AskingMe \/ RefreshingFirst \/ RefreshingForMe

SignedInWell ==
    /\ tokens # NoPair /\ tokens.user = user
    /\ call["me"] = Idle
    /\ \A r \in refreshes : r.waiting \subseteq Query \cup {"timer"}
    /\ timer = "armed" \/ \E r \in refreshes : "timer" \in r.waiting

SignedOutWell ==
    /\ user = Nobody /\ tokens = NoPair /\ timer = "off"
    /\ call["me"] = Idle /\ refreshes = {}

\* inFlightRefresh names the one refresh under way, and it is of the tokens held.
OneOfTheTokens ==
    \/ refreshes = {} /\ inFlight = 0
    \/ \E r \in refreshes : refreshes = {r} /\ inFlight = r.id /\ r.of = tokens

\* The five places agree, whatever the status.
Agreement ==
    /\ tokens = stored
    /\ OneOfTheTokens
    /\ status = "loading" => Booting
    /\ status = "authenticated" => SignedInWell
    /\ status = "unauthenticated" => SignedOutWell

SessionInv == Typed /\ NoCallStranded /\ (~overlap => Agreement)

(***************************************************************************)
(* Lemmas about the operators                                              *)
(***************************************************************************)
\* homeFor names a console, and one the route guard admits its user to.
LEMMA HomeInPlace ==
  ASSUME NEW u \in User
  PROVE  HomeFor(u) \in Console /\ InPlace(u, HomeFor(u))
<1>1. RoleOf[u] \in Role /\ KindOf[u] \in OrgKind \cup {NoOrg} /\ NoOrg \notin OrgKind
  BY SessionAssumption
<1>2. CASE RoleOf[u] = "REGISTRAR"
  <2>1. HomeFor(u) = "admin"
    BY <1>2 DEF HomeFor
  <2> QED
    BY <2>1, <1>2 DEF Console, InPlace, Allow, RequireOrgKind
<1>3. CASE RoleOf[u] = "SEEKER"
  <2>1. HomeFor(u) = "citizen"
    BY <1>3 DEF HomeFor
  <2> QED
    BY <2>1, <1>3 DEF Console, InPlace, Allow, RequireOrgKind
<1>4. CASE RoleOf[u] = "ORG_MEMBER" /\ KindOf[u] = "EMPLOYER"
  <2>1. HomeFor(u) = "employer"
    BY <1>4 DEF HomeFor
  <2> QED
    BY <2>1, <1>4 DEF Console, InPlace, Allow, RequireOrgKind
<1>5. CASE RoleOf[u] = "ORG_MEMBER" /\ KindOf[u] # "EMPLOYER"
  <2>1. HomeFor(u) = "issuer"
    BY <1>5 DEF HomeFor
  <2> QED
    BY <2>1, <1>1, <1>5 DEF Console, InPlace, Allow, RequireOrgKind, OrgKind
<1> QED
  BY <1>1, <1>2, <1>3, <1>4, <1>5 DEF Role

\* The null of the tokens is no pair.
LEMMA NoPairIsNone == NoPair \notin Pair
<1>1. Pair \subseteq [user : User, id : Nat]
  BY SessionAssumption DEF Pair
<1> QED
  BY <1>1, SessionAssumption

\* A pair the server mints while it may is one, and speaks for who asked.
LEMMA PairMinted ==
  ASSUME NEW u \in User, minted \in 0..MaxPairs, minted < MaxPairs
  PROVE  PairFor(u) \in Pair /\ PairFor(u) # NoPair /\ PairFor(u).user = u
<1>1. minted + 1 \in 1..MaxPairs
  BY SessionAssumption
<1>2. PairFor(u) \in Pair /\ PairFor(u).user = u
  BY <1>1 DEF PairFor, Pair
<1> QED
  BY <1>2, NoPairIsNone

\* What a function takes from a finite set is finite, and no larger.
LEMMA ImageFinite ==
  ASSUME NEW S, IsFiniteSet(S), NEW T, NEW f \in [S -> T],
         \A t \in T : \E s \in S : f[s] = t
  PROVE  IsFiniteSet(T) /\ Cardinality(T) <= Cardinality(S)
<1>1. f \in Surjection(S, T)
  BY DEF Surjection
<1> QED
  BY <1>1, FS_Surjection

\* The parts of TypeOK and Supported, by what the steps leave alone together.
Refresh == [id : 1..MaxRefreshes, of : Pair, waiting : SUBSET Waiter]

SessionTyped ==
    /\ tokens \in Pair \cup {NoPair} /\ stored \in Pair \cup {NoPair}
    /\ user \in User \cup {Nobody}
    /\ status \in {"loading", "authenticated", "unauthenticated"}
    /\ timer \in {"off", "armed"}
    /\ status = "authenticated" => user \in User
RefreshesTyped ==
    /\ refreshes \subseteq Refresh /\ IsFiniteSet(refreshes)
    /\ inFlight = 0 \/ \E r \in refreshes : r.id = inFlight
CallTyped ==
    call \in [Caller -> [pc : {"idle", "sent", "waiting", "resent"}, token : Pair \cup {NoPair}]]
RouteTyped == page \in Page /\ next \in Console \cup {NoNext}
EntryTyped ==
    /\ entering \in [user : User \cup {Nobody}, step : {"none", "register", "login"},
                     goTo : Console \cup {NoNext}]
    /\ entering.step # "none" => entering.user \in User /\ entering.goTo \in Console
ServerTyped ==
    /\ accounts \subseteq User /\ refused \subseteq User
    /\ minted \in 0..MaxPairs /\ expired \subseteq 1..minted
HistoryTyped == loads \in 0..MaxLoads /\ overlap \in BOOLEAN

LEMMA TypedParts ==
  Typed <=> /\ SessionTyped /\ RefreshesTyped /\ CallTyped /\ RouteTyped
            /\ EntryTyped /\ ServerTyped /\ HistoryTyped
BY DEF Typed, TypeOK, Supported, SessionTyped, RefreshesTyped, CallTyped, RouteTyped,
       EntryTyped, ServerTyped, HistoryTyped, Refresh

LEMMA TypedAfter ==
  (/\ SessionTyped' /\ RefreshesTyped' /\ CallTyped' /\ RouteTyped'
   /\ EntryTyped' /\ ServerTyped' /\ HistoryTyped') => Typed'
BY DEF Typed, TypeOK, Supported, SessionTyped, RefreshesTyped, CallTyped, RouteTyped,
       EntryTyped, ServerTyped, HistoryTyped, Refresh

\* While fewer than the bound are under way, there is a number no refresh has.
LEMMA FreshNumber ==
  ASSUME RefreshesTyped, Cardinality(refreshes) < MaxRefreshes
  PROVE  FreshRefresh \in 1..MaxRefreshes
<1> DEFINE Ids == {r.id : r \in refreshes}
           f == [r \in refreshes |-> r.id]
<1>1. IsFiniteSet(refreshes) /\ refreshes \subseteq Refresh
  BY DEF RefreshesTyped
<1>2. f \in [refreshes -> Ids] /\ \A t \in Ids : \E r \in refreshes : f[r] = t
  OBVIOUS
<1>3. IsFiniteSet(Ids) /\ Cardinality(Ids) <= Cardinality(refreshes)
  BY <1>1, <1>2, ImageFinite
<1>4. IsFiniteSet(1..MaxRefreshes) /\ Cardinality(1..MaxRefreshes) = MaxRefreshes
  BY FS_Interval, SessionAssumption
<1>5. Cardinality(refreshes) \in Nat /\ Cardinality(Ids) \in Nat
  BY <1>1, <1>3, FS_CardinalityType
<1>6. ~(1..MaxRefreshes \subseteq Ids)
  <2>1. SUFFICES ASSUME 1..MaxRefreshes \subseteq Ids PROVE FALSE
    OBVIOUS
  <2>2. Cardinality(1..MaxRefreshes) <= Cardinality(Ids)
    BY <2>1, <1>3, FS_Subset
  <2> QED
    BY <2>2, <1>3, <1>4, <1>5, SessionAssumption
<1>7. PICK i \in 1..MaxRefreshes : i \notin Ids
  BY <1>6
<1>8. \A r \in refreshes : r.id # i
  BY <1>7
<1> QED
  BY <1>7, <1>8 DEF FreshRefresh

\* Joining a refresh, or starting one, leaves the others and those who wait for
\* them, and from then on some refresh knows who asked.
LEMMA AwaitEffect ==
  ASSUME RefreshesTyped, tokens \in Pair, NEW w \in Waiter, Await(w)
  PROVE  /\ RefreshesTyped'
         /\ \A r \in refreshes : \E s \in refreshes' : r.waiting \subseteq s.waiting
         /\ \E s \in refreshes' : w \in s.waiting
<1>1. IsFiniteSet(refreshes) /\ refreshes \subseteq Refresh
  BY DEF RefreshesTyped
<1>2. CASE inFlight # 0
  <2> DEFINE Join(r) == IF r.id = inFlight THEN [r EXCEPT !.waiting = @ \cup {w}] ELSE r
             f == [r \in refreshes |-> Join(r)]
  <2>1. refreshes' = {Join(r) : r \in refreshes} /\ inFlight' = inFlight
    BY <1>2 DEF Await
  <2>2. \A r \in refreshes : /\ Join(r) \in Refresh /\ Join(r).id = r.id
                             /\ r.waiting \subseteq Join(r).waiting
                             /\ r.id = inFlight => w \in Join(r).waiting
    BY <1>1 DEF Refresh
  <2> HIDE DEF Join
  <2>3. f \in [refreshes -> refreshes'] /\ \A t \in refreshes' : \E r \in refreshes : f[r] = t
    BY <2>1
  <2>4. IsFiniteSet(refreshes')
    BY <1>1, <2>3, ImageFinite
  <2>5. PICK m \in refreshes : m.id = inFlight
    BY <1>2 DEF RefreshesTyped
  <2>6. Join(m) \in refreshes' /\ Join(m).id = inFlight' /\ w \in Join(m).waiting
    BY <2>1, <2>2, <2>5
  <2>7. refreshes' \subseteq Refresh
    BY <2>1, <2>2
  <2>8. \A r \in refreshes : Join(r) \in refreshes' /\ r.waiting \subseteq Join(r).waiting
    BY <2>1, <2>2
  <2> QED
    BY <2>4, <2>6, <2>7, <2>8 DEF RefreshesTyped, Refresh
<1>3. CASE inFlight = 0
  <2> DEFINE new == [id |-> FreshRefresh, of |-> tokens, waiting |-> {w}]
  <2>1. /\ Cardinality(refreshes) < MaxRefreshes
        /\ refreshes' = refreshes \cup {new} /\ inFlight' = FreshRefresh
    BY <1>3 DEF Await
  <2>2. new \in Refresh
    BY <2>1, FreshNumber DEF Refresh
  <2>3. new.id = inFlight' /\ w \in new.waiting
    BY <2>1
  <2> HIDE DEF new
  <2>4. IsFiniteSet(refreshes')
    BY <1>1, <2>1, FS_AddElement
  <2>5. new \in refreshes' /\ refreshes \subseteq refreshes' /\ refreshes' \subseteq Refresh
    BY <1>1, <2>1, <2>2
  <2> QED
    BY <2>3, <2>4, <2>5 DEF RefreshesTyped, Refresh
<1> QED
  BY <1>2, <1>3

\* A session that ends leaves nothing mistyped.
LEMMA ClearSessionTyped ==
  ASSUME ClearSession
  PROVE  SessionTyped' /\ inFlight' = 0
BY DEF ClearSession, SessionTyped

(***************************************************************************)
(* Type correctness                                                        *)
(***************************************************************************)
\* A route as typed stays one when a step leaves it, and so for the other parts.
LEMMA PartsStay ==
  /\ SessionTyped /\ UNCHANGED session => SessionTyped'
  /\ RefreshesTyped /\ UNCHANGED <<refreshes, inFlight>> => RefreshesTyped'
  /\ CallTyped /\ UNCHANGED call => CallTyped'
  /\ RouteTyped /\ UNCHANGED route => RouteTyped'
  /\ EntryTyped /\ UNCHANGED entering => EntryTyped'
  /\ ServerTyped /\ UNCHANGED server => ServerTyped'
  /\ HistoryTyped /\ UNCHANGED <<loads, overlap>> => HistoryTyped'
<1>1. SessionTyped /\ UNCHANGED session => SessionTyped'
  BY DEF SessionTyped, session
<1>2. RefreshesTyped /\ UNCHANGED <<refreshes, inFlight>> => RefreshesTyped'
  BY DEF RefreshesTyped
<1>3. CallTyped /\ UNCHANGED call => CallTyped'
  BY DEF CallTyped, Caller
<1>4. RouteTyped /\ UNCHANGED route => RouteTyped'
  BY DEF RouteTyped, route
<1>5. EntryTyped /\ UNCHANGED entering => EntryTyped'
  BY DEF EntryTyped
<1>6. ServerTyped /\ UNCHANGED server => ServerTyped'
  BY DEF ServerTyped, server
<1>7. HistoryTyped /\ UNCHANGED <<loads, overlap>> => HistoryTyped'
  BY DEF HistoryTyped
<1> QED
  BY <1>1, <1>2, <1>3, <1>4, <1>5, <1>6, <1>7

LEMMA TimerFiresTyped ==
  ASSUME Typed, TimerFires
  PROVE  Typed'
<1>1. /\ SessionTyped /\ RefreshesTyped /\ CallTyped /\ RouteTyped /\ EntryTyped
      /\ ServerTyped /\ HistoryTyped
  BY TypedParts
<1>2. CallTyped' /\ RouteTyped' /\ EntryTyped' /\ ServerTyped' /\ HistoryTyped'
  BY <1>1, PartsStay DEF TimerFires
<1>3. CASE tokens = NoPair
  <2>1. ClearSession /\ refreshes' = refreshes
    BY <1>3 DEF TimerFires
  <2>2. SessionTyped' /\ inFlight' = 0
    BY <2>1, ClearSessionTyped
  <2>3. RefreshesTyped'
    BY <1>1, <2>1, <2>2 DEF RefreshesTyped
  <2> QED
    BY <1>2, <2>2, <2>3, TypedAfter
<1>4. CASE tokens # NoPair
  <2>1. timer' = "off" /\ Await("timer") /\ UNCHANGED <<tokens, stored, user, status>>
    BY <1>4 DEF TimerFires
  <2>2. tokens \in Pair
    BY <1>1, <1>4 DEF SessionTyped
  <2>3. RefreshesTyped'
    BY <1>1, <2>1, <2>2, AwaitEffect DEF Waiter
  <2>4. SessionTyped'
    BY <1>1, <2>1 DEF SessionTyped
  <2> QED
    BY <1>2, <2>3, <2>4, TypedAfter
<1> QED
  BY <1>3, <1>4

LEMMA RefreshAnsweredTyped ==
  ASSUME Typed, NEW r \in refreshes, RefreshGranted(r) \/ RefreshFailed(r)
  PROVE  Typed'
<1>1. /\ SessionTyped /\ RefreshesTyped /\ CallTyped /\ RouteTyped /\ EntryTyped
      /\ ServerTyped /\ HistoryTyped
  BY TypedParts
<1>2. r \in Refresh /\ r.of \in Pair /\ r.of.user \in User
  BY <1>1 DEF RefreshesTyped, Refresh, Pair
<1>3. refreshes' = refreshes \ {r} /\ inFlight' = 0
  BY DEF RefreshGranted, RefreshFailed, Finally, ClearSession
<1>4. RefreshesTyped'
  <2>1. IsFiniteSet(refreshes')
    BY <1>1, <1>3, FS_RemoveElement DEF RefreshesTyped
  <2> QED
    BY <1>1, <1>3, <2>1 DEF RefreshesTyped
<1>5. RouteTyped' /\ EntryTyped' /\ HistoryTyped'
  BY <1>1, PartsStay DEF RefreshGranted, RefreshFailed
<1>6. CASE RefreshGranted(r)
  <2> DEFINE pair == PairFor(r.of.user)
  <2>1. /\ minted < MaxPairs /\ minted' = minted + 1
        /\ tokens' = pair /\ stored' = pair /\ UNCHANGED <<user, status>>
        /\ timer' = IF "timer" \in r.waiting THEN "armed" ELSE timer
        /\ call' = [c \in Caller |->
                     IF c \in r.waiting THEN [pc |-> "resent", token |-> pair]
                     ELSE IF c = "me" /\ "boot" \in r.waiting
                            THEN [pc |-> "sent", token |-> pair]
                     ELSE call[c]]
        /\ UNCHANGED <<accounts, refused, expired>>
    BY <1>6 DEF RefreshGranted, Adopt, Rearm
  <2>2. pair \in Pair
    BY <1>1, <1>2, <2>1, PairMinted DEF ServerTyped
  <2> HIDE DEF pair
  <2>3. SessionTyped'
    BY <1>1, <2>1, <2>2 DEF SessionTyped
  <2>4. CallTyped'
    BY <1>1, <2>1, <2>2 DEF CallTyped
  <2>5. ServerTyped'
    <3>1. minted' \in 0..MaxPairs /\ 1..minted \subseteq 1..minted'
      BY <1>1, <2>1, SessionAssumption DEF ServerTyped
    <3> QED
      BY <1>1, <2>1, <3>1 DEF ServerTyped
  <2> QED
    BY <1>4, <1>5, <2>3, <2>4, <2>5, TypedAfter
<1>7. CASE RefreshFailed(r)
  <2>1. SessionTyped'
    <3>1. CASE r.waiting \cap SessionEnders # {}
      BY <1>7, <3>1, ClearSessionTyped DEF RefreshFailed
    <3>2. CASE r.waiting \cap SessionEnders = {}
      BY <1>1, <1>7, <3>2, PartsStay DEF RefreshFailed
    <3> QED
      BY <3>1, <3>2
  <2>2. CallTyped'
    BY <1>1, <1>7 DEF RefreshFailed, CallTyped, Idle
  <2>3. ServerTyped'
    BY <1>1, <1>7, PartsStay DEF RefreshFailed
  <2> QED
    BY <1>4, <1>5, <2>1, <2>2, <2>3, TypedAfter
<1> QED
  BY <1>6, <1>7

LEMMA CallAnsweredTyped ==
  ASSUME Typed, NEW c \in Caller, CallAnswered(c)
  PROVE  Typed'
<1>1. /\ SessionTyped /\ RefreshesTyped /\ CallTyped /\ RouteTyped /\ EntryTyped
      /\ ServerTyped /\ HistoryTyped
  BY TypedParts
<1>2. RouteTyped' /\ EntryTyped' /\ ServerTyped' /\ HistoryTyped'
  BY <1>1, PartsStay DEF CallAnswered, ReplyOk, MeOk, Unauthorized, ReplyError
<1>3. CASE c \in Query /\ ReplyOk(c)
  <2>1. SessionTyped' /\ RefreshesTyped'
    BY <1>1, <1>3, PartsStay DEF ReplyOk
  <2>2. CallTyped'
    BY <1>1, <1>3 DEF ReplyOk, CallTyped, Idle
  <2> QED
    BY <1>2, <2>1, <2>2, TypedAfter
<1>4. CASE c = "me" /\ MeOk
  <2>1. call["me"].token \in Pair
    BY <1>1, <1>4 DEF MeOk, Accepted, CallTyped
  <2>2. SessionTyped'
    <3>1. call["me"].token.user \in User
      BY <2>1 DEF Pair
    <3>2. /\ user' = call["me"].token.user /\ status' = "authenticated"
          /\ UNCHANGED <<tokens, stored>> /\ timer' \in {"armed", timer}
      BY <1>4 DEF MeOk
    <3> QED
      BY <1>1, <3>1, <3>2 DEF SessionTyped
  <2>3. RefreshesTyped'
    BY <1>1, <1>4, PartsStay DEF MeOk
  <2>4. CallTyped'
    BY <1>1, <1>4 DEF MeOk, CallTyped, Idle
  <2> QED
    BY <1>2, <2>2, <2>3, <2>4, TypedAfter
<1>5. CASE Unauthorized(c)
  <2>1. tokens \in Pair /\ Await(c) /\ c \in Waiter
    BY <1>1, <1>5 DEF Unauthorized, SessionTyped, Waiter
  <2>2. SessionTyped'
    BY <1>1, <1>5, PartsStay DEF Unauthorized
  <2>3. RefreshesTyped'
    BY <1>1, <2>1, AwaitEffect
  <2>4. CallTyped'
    BY <1>1, <1>5 DEF Unauthorized, CallTyped
  <2> QED
    BY <1>2, <2>2, <2>3, <2>4, TypedAfter
<1>6. CASE ReplyError(c)
  <2>1. CallTyped'
    BY <1>1, <1>6 DEF ReplyError, CallTyped, Idle
  <2>2. SessionTyped' /\ RefreshesTyped'
    <3>1. CASE c = "me"
      <4>1. ClearSession /\ refreshes' = refreshes
        BY <1>6, <3>1 DEF ReplyError
      <4>2. SessionTyped' /\ inFlight' = 0
        BY <4>1, ClearSessionTyped
      <4> QED
        BY <1>1, <4>1, <4>2 DEF RefreshesTyped
    <3>2. CASE c # "me"
      BY <1>1, <1>6, <3>2, PartsStay DEF ReplyError
    <3> QED
      BY <3>1, <3>2
  <2> QED
    BY <1>2, <2>1, <2>2, TypedAfter
<1> QED
  BY <1>3, <1>4, <1>5, <1>6 DEF CallAnswered

\* The steps of sign-in and registration.
LEMMA EntryStepTyped ==
  ASSUME Typed,
         \/ \E u \in User : SubmitLogin(u) \/ SubmitRegister(u)
         \/ AccountCreated \/ SignedIn \/ EntryFailed
  PROVE  Typed'
<1>1. /\ SessionTyped /\ RefreshesTyped /\ CallTyped /\ RouteTyped /\ EntryTyped
      /\ ServerTyped /\ HistoryTyped
  BY TypedParts
<1>2. RefreshesTyped' /\ CallTyped'
  BY <1>1, PartsStay DEF SubmitLogin, SubmitRegister, AccountCreated, SignedIn, EntryFailed
<1>3. ASSUME NEW u \in User, SubmitLogin(u) PROVE Typed'
  <2>1. HomeFor(u) \in Console
    BY HomeInPlace
  <2>2. (IF next # NoNext THEN next ELSE HomeFor(u)) \in Console
    BY <1>1, <2>1 DEF RouteTyped
  <2>3. EntryTyped'
    BY <1>3, <2>2 DEF SubmitLogin, EntryTyped
  <2> QED
    BY <1>1, <1>2, <1>3, <2>3, PartsStay, TypedAfter DEF SubmitLogin
<1>4. ASSUME NEW u \in User, SubmitRegister(u) PROVE Typed'
  <2>1. EntryTyped'
    BY <1>4 DEF SubmitRegister, EntryTyped, Console
  <2> QED
    BY <1>1, <1>2, <1>4, <2>1, PartsStay, TypedAfter DEF SubmitRegister
<1>5. CASE AccountCreated
  <2>1. entering.user \in User /\ entering.goTo \in Console
    BY <1>1, <1>5 DEF AccountCreated, EntryTyped
  <2>2. EntryTyped'
    BY <1>1, <1>5, <2>1 DEF AccountCreated, EntryTyped
  <2>3. ServerTyped'
    BY <1>1, <1>5, <2>1 DEF AccountCreated, ServerTyped
  <2> QED
    BY <1>1, <1>2, <1>5, <2>2, <2>3, PartsStay, TypedAfter DEF AccountCreated
<1>6. CASE SignedIn
  <2> DEFINE pair == PairFor(entering.user)
  <2>1. /\ entering.step = "login" /\ minted < MaxPairs /\ entering.user \in accounts
        /\ tokens' = pair /\ stored' = pair
        /\ user' = entering.user /\ status' = "authenticated" /\ timer' = "armed"
    BY <1>6 DEF SignedIn, Adopt
  <2>2. /\ minted' = minted + 1 /\ page' = entering.goTo /\ next' = NoNext
        /\ entering' = NoEntry /\ overlap' = (overlap \/ Pending)
        /\ UNCHANGED <<accounts, refused, expired, loads>>
    BY <1>6 DEF SignedIn
  <2>3. entering.user \in User /\ entering.goTo \in Console
    BY <1>1, <2>1 DEF EntryTyped
  <2>4. pair \in Pair
    BY <1>1, <2>1, <2>3, PairMinted DEF ServerTyped
  <2> HIDE DEF pair
  <2>5. SessionTyped'
    BY <2>1, <2>3, <2>4 DEF SessionTyped
  <2>6. RouteTyped'
    BY <2>2, <2>3 DEF RouteTyped, Page
  <2>7. EntryTyped'
    BY <2>2 DEF EntryTyped, NoEntry
  <2>8. ServerTyped'
    <3>1. minted' \in 0..MaxPairs /\ 1..minted \subseteq 1..minted'
      BY <1>1, <2>1, <2>2, SessionAssumption DEF ServerTyped
    <3> QED
      BY <1>1, <2>2, <3>1 DEF ServerTyped
  <2>9. HistoryTyped'
    <3>1. (overlap \/ Pending) \in BOOLEAN
      OBVIOUS
    <3> QED
      BY <1>1, <2>2, <3>1 DEF HistoryTyped
  <2> QED
    BY <1>2, <2>5, <2>6, <2>7, <2>8, <2>9, TypedAfter
<1>7. CASE EntryFailed
  <2>1. EntryTyped'
    BY <1>7 DEF EntryFailed, EntryTyped, NoEntry
  <2> QED
    BY <1>1, <1>2, <1>7, <2>1, PartsStay, TypedAfter DEF EntryFailed
<1> QED
  BY <1>3, <1>4, <1>5, <1>6, <1>7

LEMMA SignOutTyped ==
  ASSUME Typed, SignOut
  PROVE  Typed'
<1>1. /\ SessionTyped /\ RefreshesTyped /\ CallTyped /\ RouteTyped /\ EntryTyped
      /\ ServerTyped /\ HistoryTyped
  BY TypedParts
<1>2. ClearSession /\ UNCHANGED <<refreshes, call, entering, server, loads>>
  BY DEF SignOut
<1>3. SessionTyped' /\ inFlight' = 0
  BY <1>2, ClearSessionTyped
<1>4. RefreshesTyped'
  BY <1>1, <1>2, <1>3 DEF RefreshesTyped
<1>5. RouteTyped'
  <2>1. page \in Console
    BY DEF SignOut
  <2>2. \/ page' = "login" /\ next' \in {NoNext, page}
        \/ page' = page /\ next' = next
    BY DEF SignOut, route
  <2> QED
    BY <1>1, <2>1, <2>2 DEF RouteTyped, Page
<1>6. HistoryTyped'
  <2>1. (overlap \/ Pending) \in BOOLEAN
    OBVIOUS
  <2>2. overlap' = (overlap \/ Pending) /\ loads' = loads
    BY DEF SignOut
  <2> QED
    BY <1>1, <2>1, <2>2 DEF HistoryTyped
<1> QED
  BY <1>1, <1>2, <1>3, <1>4, <1>5, <1>6, PartsStay, TypedAfter

\* The redirects and the links: only the route changes.
LEMMA RouteStepTyped ==
  ASSUME Typed, Guard \/ LandingRedirect \/ FollowLink
  PROVE  Typed'
<1>1. /\ SessionTyped /\ RefreshesTyped /\ CallTyped /\ RouteTyped /\ EntryTyped
      /\ ServerTyped /\ HistoryTyped
  BY TypedParts
<1>2. UNCHANGED <<session, inFlight, refreshes, call, entering, server, loads, overlap>>
  BY DEF Guard, LandingRedirect, FollowLink
<1>3. RouteTyped'
  <2>1. status = "authenticated" => HomeFor(user) \in Console
    BY <1>1, HomeInPlace DEF SessionTyped
  <2>2. CASE Guard
    BY <2>1, <2>2 DEF Guard, RouteTyped, Page
  <2>3. CASE LandingRedirect
    BY <2>1, <2>3 DEF LandingRedirect, RouteTyped, Page
  <2>4. CASE FollowLink
    BY <2>4, ConsoleAssumption DEF FollowLink, RouteTyped, Page
  <2> QED
    BY <2>2, <2>3, <2>4
<1> QED
  BY <1>1, <1>2, <1>3, PartsStay, TypedAfter

LEMMA LoadTyped ==
  ASSUME Typed, NEW p \in Visited \cup (Page \ Console), Load(p)
  PROVE  Typed'
<1>1. /\ SessionTyped /\ RefreshesTyped /\ CallTyped /\ RouteTyped /\ EntryTyped
      /\ ServerTyped /\ HistoryTyped
  BY TypedParts
<1>2. SessionTyped'
  BY <1>1 DEF Load, SessionTyped
<1>3. RefreshesTyped'
  <2>1. CASE refreshes' = {} /\ inFlight' = 0
    BY <2>1, FS_EmptySet DEF RefreshesTyped
  <2>2. CASE /\ stored # NoPair
             /\ refreshes' = {[id |-> 1, of |-> stored, waiting |-> {"boot"}]} /\ inFlight' = 1
    <3>1. stored \in Pair /\ 1 \in 1..MaxRefreshes
      BY <1>1, <2>2, SessionAssumption DEF SessionTyped
    <3>2. IsFiniteSet(refreshes')
      BY <2>2, FS_Singleton
    <3> QED
      BY <2>2, <3>1, <3>2 DEF RefreshesTyped, Refresh, Waiter
  <2> QED
    BY <2>1, <2>2 DEF Load
<1>4. CallTyped'
  BY <1>1 DEF Load, CallTyped, SessionTyped, Idle
<1>5. RouteTyped'
  BY <1>1, ConsoleAssumption DEF Load, RouteTyped, Page
<1>6. EntryTyped'
  BY DEF Load, EntryTyped, NoEntry
<1>7. ServerTyped'
  BY <1>1, PartsStay DEF Load
<1>8. HistoryTyped'
  <2>1. loads \in 0..MaxLoads /\ loads < MaxLoads /\ loads' = loads + 1
    BY <1>1 DEF Load, HistoryTyped
  <2>2. loads' \in 0..MaxLoads
    BY <2>1, SessionAssumption
  <2>3. overlap' = FALSE
    BY DEF Load
  <2> QED
    BY <2>2, <2>3 DEF HistoryTyped
<1> QED
  BY <1>2, <1>3, <1>4, <1>5, <1>6, <1>7, <1>8, TypedAfter

LEMMA InitTyped ==
  ASSUME Init
  PROVE  Typed
<1>1. SessionTyped /\ CallTyped /\ RouteTyped /\ EntryTyped
  BY DEF Init, SessionTyped, CallTyped, RouteTyped, EntryTyped, Idle, NoEntry, Page, Console
<1>2. RefreshesTyped
  BY FS_EmptySet DEF Init, RefreshesTyped
<1>3. ServerTyped
  BY SessionAssumption DEF Init, ServerTyped
<1>4. HistoryTyped
  <2>1. loads = 0 /\ overlap = FALSE
    BY DEF Init
  <2>2. 0 \in 0..MaxLoads
    BY SessionAssumption
  <2> QED
    BY <2>1, <2>2 DEF HistoryTyped
<1> QED
  BY <1>1, <1>2, <1>3, <1>4, TypedParts

LEMMA NextTyped ==
  ASSUME Typed, [Next]_vars
  PROVE  Typed'
<1>1. /\ SessionTyped /\ RefreshesTyped /\ CallTyped /\ RouteTyped /\ EntryTyped
      /\ ServerTyped /\ HistoryTyped
  BY TypedParts
<1>2. CASE TimerFires
  BY <1>2, TimerFiresTyped
<1>3. ASSUME NEW i \in 1..MaxRefreshes, RefreshAnswered(i) PROVE Typed'
  BY <1>3, RefreshAnsweredTyped DEF RefreshAnswered
<1>4. ASSUME NEW c \in Caller, CallAnswered(c) PROVE Typed'
  BY <1>4, CallAnsweredTyped
<1>5. ASSUME NEW q \in Query, SendCall(q) PROVE Typed'
  <2>1. CallTyped'
    BY <1>1, <1>5 DEF SendCall, CallTyped, SessionTyped, Caller
  <2> QED
    BY <1>1, <1>5, <2>1, PartsStay, TypedAfter DEF SendCall
<1>6. CASE \/ \E u \in User : SubmitLogin(u) \/ SubmitRegister(u)
           \/ AccountCreated \/ SignedIn \/ EntryFailed
  BY <1>6, EntryStepTyped
<1>7. CASE SignOut
  BY <1>7, SignOutTyped
<1>8. CASE Guard \/ LandingRedirect \/ FollowLink
  BY <1>8, RouteStepTyped
<1>9. ASSUME NEW p \in Visited \cup (Page \ Console), Load(p) PROVE Typed'
  BY <1>9, LoadTyped
<1>10. ASSUME NEW u \in User, Deactivate(u) PROVE Typed'
  <2>1. ServerTyped'
    BY <1>1, <1>10 DEF Deactivate, ServerTyped
  <2> QED
    BY <1>1, <1>10, <2>1, PartsStay, TypedAfter DEF Deactivate
<1>11. ASSUME NEW i \in 1..MaxPairs, Expire(i) PROVE Typed'
  <2>1. ServerTyped'
    BY <1>1, <1>11 DEF Expire, ServerTyped
  <2> QED
    BY <1>1, <1>11, <2>1, PartsStay, TypedAfter DEF Expire
<1>12. CASE UNCHANGED vars
  BY <1>1, <1>12, PartsStay, TypedAfter DEF vars, session, route, server
<1> QED
  BY <1>2, <1>3, <1>4, <1>5, <1>6, <1>7, <1>8, <1>9, <1>10, <1>11, <1>12 DEF Next

LEMMA TypedHolds == Spec => []Typed
<1>1. Init => Typed
  BY InitTyped
<1>2. Typed /\ [Next]_vars => Typed'
  BY NextTyped
<1> QED
  BY <1>1, <1>2, PTL DEF Spec

\* Every variable of the session has its type, and the promise that later callers
\* join (inFlightRefresh, auth-context.tsx) is null or of a refresh under way.
THEOREM SessionTypeCorrect == Spec => []TypeOK
<1>1. Typed => TypeOK
  BY DEF Typed
<1> QED
  BY <1>1, TypedHolds, PTL

(***************************************************************************)
(* No call is stranded                                                     *)
(***************************************************************************)
\* Who waited is still waited for when nobody new waits and no list shrinks.
LEMMA NobodyLeftOut ==
  ASSUME NoCallStranded,
         \A c \in Caller : call'[c].pc = "waiting" => call[c].pc = "waiting",
         \A r \in refreshes : \E s \in refreshes' : r.waiting \subseteq s.waiting
  PROVE  NoCallStranded'
<1>1. SUFFICES ASSUME NEW c \in Caller, call'[c].pc = "waiting"
               PROVE  \E s \in refreshes' : c \in s.waiting
  BY DEF NoCallStranded, Caller
<1>2. PICK r \in refreshes : c \in r.waiting
  BY <1>1 DEF NoCallStranded
<1> QED
  BY <1>2

LEMMA NextKeepsCallers ==
  ASSUME Typed, NoCallStranded, [Next]_vars
  PROVE  NoCallStranded'
<1>1. RefreshesTyped /\ CallTyped /\ SessionTyped
  BY TypedParts
<1>2. CASE TimerFires
  <2>1. call' = call
    BY <1>2 DEF TimerFires
  <2>2. CASE tokens = NoPair
    BY <1>2, <2>1, <2>2, NobodyLeftOut DEF TimerFires
  <2>3. CASE tokens # NoPair
    <3>1. tokens \in Pair /\ "timer" \in Waiter /\ Await("timer")
      BY <1>1, <1>2, <2>3 DEF TimerFires, SessionTyped, Waiter
    <3>2. \A r \in refreshes : \E s \in refreshes' : r.waiting \subseteq s.waiting
      BY <1>1, <3>1, AwaitEffect
    <3> QED
      BY <2>1, <3>2, NobodyLeftOut
  <2> QED
    BY <2>2, <2>3
<1>3. ASSUME NEW r \in refreshes, RefreshGranted(r) \/ RefreshFailed(r)
      PROVE  NoCallStranded'
  <2>1. refreshes' = refreshes \ {r}
    BY <1>3 DEF RefreshGranted, RefreshFailed
  <2>2. \A c \in Caller : call'[c].pc = "waiting" => call[c].pc = "waiting" /\ c \notin r.waiting
    <3>1. CASE RefreshGranted(r)
      BY <3>1 DEF RefreshGranted
    <3>2. CASE RefreshFailed(r)
      BY <3>2 DEF RefreshFailed, Idle
    <3> QED
      BY <1>3, <3>1, <3>2
  <2>3. SUFFICES ASSUME NEW c \in Caller, call'[c].pc = "waiting"
                 PROVE  \E s \in refreshes' : c \in s.waiting
    BY DEF NoCallStranded, Caller
  <2>4. PICK s \in refreshes : c \in s.waiting
    BY <2>2, <2>3 DEF NoCallStranded
  <2> QED
    BY <2>1, <2>2, <2>3, <2>4
<1>4. ASSUME NEW i \in 1..MaxRefreshes, RefreshAnswered(i) PROVE NoCallStranded'
  BY <1>3, <1>4 DEF RefreshAnswered
<1>5. ASSUME NEW c \in Caller, Unauthorized(c) PROVE NoCallStranded'
  <2>1. tokens \in Pair /\ Await(c) /\ c \in Waiter
    BY <1>1, <1>5 DEF Unauthorized, SessionTyped, Waiter
  <2>2. /\ \A r \in refreshes : \E s \in refreshes' : r.waiting \subseteq s.waiting
        /\ \E s \in refreshes' : c \in s.waiting
    BY <1>1, <2>1, AwaitEffect
  <2>3. \A d \in Caller : d # c => call'[d] = call[d]
    BY <1>1, <1>5 DEF Unauthorized, CallTyped
  <2>4. SUFFICES ASSUME NEW d \in Caller, call'[d].pc = "waiting"
                 PROVE  \E s \in refreshes' : d \in s.waiting
    BY DEF NoCallStranded, Caller
  <2>5. CASE d = c
    BY <2>2, <2>5
  <2>6. CASE d # c
    <3>1. PICK r \in refreshes : d \in r.waiting
      BY <2>3, <2>4, <2>6 DEF NoCallStranded
    <3> QED
      BY <2>2, <3>1
  <2> QED
    BY <2>5, <2>6
<1>6. ASSUME NEW c \in Caller,
             \/ c \in Query /\ (ReplyOk(c) \/ SendCall(c))
             \/ c = "me" /\ MeOk
             \/ ReplyError(c)
      PROVE  NoCallStranded'
  <2>1. refreshes' = refreshes
    BY <1>6 DEF ReplyOk, SendCall, MeOk, ReplyError
  <2>2. \A d \in Caller : call'[d].pc = "waiting" => call[d].pc = "waiting"
    BY <1>1, <1>6 DEF ReplyOk, SendCall, MeOk, ReplyError, Idle, CallTyped
  <2> QED
    BY <2>1, <2>2, NobodyLeftOut
<1>7. ASSUME NEW p, Load(p) PROVE NoCallStranded'
  <2>1. \A d \in Caller : call'[d].pc # "waiting"
    BY <1>7 DEF Load, Idle
  <2> QED
    BY <2>1 DEF NoCallStranded, Caller
<1>8. CASE UNCHANGED <<refreshes, call>>
  BY <1>8, NobodyLeftOut
<1>9. CASE \/ \E u \in User : SubmitLogin(u) \/ SubmitRegister(u) \/ Deactivate(u)
           \/ AccountCreated \/ SignedIn \/ EntryFailed \/ SignOut
           \/ Guard \/ LandingRedirect \/ FollowLink
           \/ \E i \in 1..MaxPairs : Expire(i)
           \/ UNCHANGED vars
  <2>1. UNCHANGED <<refreshes, call>>
    BY <1>9 DEF SubmitLogin, SubmitRegister, Deactivate, AccountCreated, SignedIn, EntryFailed,
                SignOut, Guard, LandingRedirect, FollowLink, Expire, vars
  <2> QED
    BY <1>8, <2>1
<1> QED
  BY <1>2, <1>4, <1>5, <1>6, <1>7, <1>9 DEF Next, CallAnswered, Caller

\* A call that met a 401 is on the list of a refresh under way, whose answer
\* wakes it (apiFetch's retry, client.ts): none hangs for ever.
THEOREM CallsAreWokenUp == Spec => []NoCallStranded
<1>1. Init => NoCallStranded
  BY DEF Init, NoCallStranded, Idle
<1>2. Typed /\ NoCallStranded /\ [Next]_vars => NoCallStranded'
  BY NextKeepsCallers
<1> QED
  BY <1>1, <1>2, TypedHolds, PTL DEF Spec

(***************************************************************************)
(* Redirects                                                               *)
(***************************************************************************)
\* Whoever is redirected from console to console by the guard (ProtectedRoute)
\* lands in one of theirs: homeFor never answers a console that turns them away.
THEOREM RedirectsLandProperly == Spec => RedirectsLand
<1>1. ASSUME Typed, Next, page \in Console, page' \in Console \ {page},
             UNCHANGED <<loads, entering>>
      PROVE  InPlace(user', page')
  <2>1. page' # page /\ page # "login" /\ page # "landing" /\ page # "register"
    BY <1>1 DEF Console
  <2>2. ~SignedIn
    BY <1>1 DEF SignedIn, NoEntry
  <2>3. ~FollowLink /\ ~LandingRedirect /\ ~SignOut
    <3>1. page' \notin {"login", "landing", "register"}
      BY <1>1 DEF Console
    <3> QED
      BY <2>1, <3>1 DEF FollowLink, LandingRedirect, SignOut, route
  <2>4. \A p : ~Load(p)
    <3>1. loads \in Nat
      BY <1>1, TypedParts, SessionAssumption DEF HistoryTyped
    <3> QED
      BY <1>1, <3>1 DEF Load
  <2>5. Guard
    BY <1>1, <2>1, <2>2, <2>3, <2>4 DEF Next, TimerFires, RefreshAnswered, RefreshGranted,
       RefreshFailed, CallAnswered, ReplyOk, MeOk, Unauthorized, ReplyError, SendCall,
       SubmitLogin, SubmitRegister, Deactivate, AccountCreated, EntryFailed, Expire, route
  <2>6. status = "authenticated" /\ page' = HomeFor(user) /\ user' = user
    <3>1. page' # "login"
      BY <1>1 DEF Console
    <3> QED
      BY <2>5, <3>1 DEF Guard, session
  <2>7. user \in User
    BY <1>1, <2>6, TypedParts DEF SessionTyped
  <2> QED
    BY <2>6, <2>7, HomeInPlace
<1>2. Typed /\ [Next]_vars =>
        [(page \in Console /\ page' \in Console \ {page} /\ UNCHANGED <<loads, entering>>)
            => InPlace(user', page')]_vars
  BY <1>1
<1> QED
  BY <1>2, TypedHolds, PTL DEF Spec, RedirectsLand

(***************************************************************************)
(* The five places agree                                                   *)
(***************************************************************************)
LEMMA NamesApart == \A q \in Query : q \notin {"me", "timer", "boot"}
BY SessionAssumption

\* What Agreement says, for the status there is.
LEMMA AgreementByStatus ==
  ASSUME Typed
  PROVE  Agreement <=> /\ tokens = stored /\ OneOfTheTokens
                       /\ \/ status = "loading" /\ Booting
                          \/ status = "authenticated" /\ SignedInWell
                          \/ status = "unauthenticated" /\ SignedOutWell
<1>1. status \in {"loading", "authenticated", "unauthenticated"}
  BY TypedParts DEF SessionTyped
<1> QED
  BY <1>1 DEF Agreement

\* A step of the queries, the routes, the forms or the server disturbs nothing.
LEMMA QuietStepAgrees ==
  ASSUME Agreement, UNCHANGED <<session, inFlight, refreshes>>, call'["me"] = call["me"],
         status = "loading" =>
            \A q \in Query : call'[q].pc = "idle" \/ call'[q] = call[q]
  PROVE  Agreement'
<1>1. UNCHANGED <<tokens, stored, user, status, timer, inFlight, refreshes>>
  BY DEF session
<1>2. tokens' = stored' /\ OneOfTheTokens'
  BY <1>1 DEF Agreement, OneOfTheTokens
<1>3. ASSUME status = "loading" PROVE Booting'
  <2>1. Booting /\ \A q \in Query : call'[q].pc = "idle"
    BY <1>3 DEF Agreement, Booting
  <2> QED
    BY <1>1, <2>1 DEF Booting, AskingMe, RefreshingFirst, RefreshingForMe, Idle
<1>4. ASSUME status = "authenticated" PROVE SignedInWell'
  BY <1>1, <1>4 DEF Agreement, SignedInWell, Idle
<1>5. ASSUME status = "unauthenticated" PROVE SignedOutWell'
  BY <1>1, <1>5 DEF Agreement, SignedOutWell, Idle
<1> QED
  BY <1>1, <1>2, <1>3, <1>4, <1>5 DEF Agreement

\* After requestRefresh there is one refresh, of the tokens held, whether it was
\* joined or started.
LEMMA AwaitOne ==
  ASSUME Typed, OneOfTheTokens, NEW w, Await(w), tokens' = tokens
  PROVE  \E s \in refreshes' :
            /\ refreshes' = {s} /\ inFlight' = s.id /\ s.of = tokens
            /\ \/ refreshes = {} /\ s.waiting = {w}
               \/ \E r \in refreshes : s.waiting = r.waiting \cup {w}
<1>1. refreshes \subseteq Refresh
  BY TypedParts DEF RefreshesTyped
<1>2. CASE refreshes = {} /\ inFlight = 0
  <2> DEFINE s == [id |-> FreshRefresh, of |-> tokens, waiting |-> {w}]
  <2>1. refreshes' = {s} /\ inFlight' = s.id
    BY <1>2 DEF Await
  <2> QED
    BY <1>2, <2>1
<1>3. ASSUME NEW r \in refreshes, refreshes = {r}, inFlight = r.id, r.of = tokens
      PROVE  \E s \in refreshes' :
                /\ refreshes' = {s} /\ inFlight' = s.id /\ s.of = tokens
                /\ s.waiting = r.waiting \cup {w}
  <2> DEFINE s == [r EXCEPT !.waiting = @ \cup {w}]
  <2>1. inFlight # 0
    BY <1>1, <1>3, SessionAssumption DEF Refresh
  <2>2. refreshes' = {s} /\ inFlight' = inFlight
    BY <1>3, <2>1 DEF Await
  <2>3. s.id = r.id /\ s.of = r.of /\ s.waiting = r.waiting \cup {w}
    BY <1>1 DEF Refresh
  <2> QED
    BY <1>3, <2>2, <2>3
<1> QED
  BY <1>2, <1>3 DEF OneOfTheTokens

LEMMA TimerFiresAgrees ==
  ASSUME Typed, Agreement, TimerFires
  PROVE  Agreement'
<1>1. status = "authenticated" /\ SignedInWell
  BY AgreementByStatus DEF TimerFires, Booting, SignedOutWell
<1>2. /\ UNCHANGED <<tokens, stored, user, status, call>>
      /\ timer' = "off" /\ Await("timer")
  BY <1>1 DEF TimerFires, SignedInWell
<1>3. PICK s \in refreshes' :
            /\ refreshes' = {s} /\ inFlight' = s.id /\ s.of = tokens
            /\ \/ refreshes = {} /\ s.waiting = {"timer"}
               \/ \E r \in refreshes : s.waiting = r.waiting \cup {"timer"}
  BY <1>2, AwaitOne DEF Agreement
<1>4. s.waiting \subseteq Query \cup {"timer"} /\ "timer" \in s.waiting
  BY <1>1, <1>3 DEF SignedInWell
<1>5. SignedInWell'
  BY <1>1, <1>2, <1>3, <1>4 DEF SignedInWell, Idle
<1>6. OneOfTheTokens'
  BY <1>2, <1>3 DEF OneOfTheTokens
<1> QED
  BY <1>1, <1>2, <1>5, <1>6 DEF Agreement

LEMMA RefreshGrantedAgrees ==
  ASSUME Typed, Agreement, NEW r \in refreshes, RefreshGranted(r)
  PROVE  Agreement'
<1> DEFINE pair == PairFor(r.of.user)
<1>1. refreshes = {r} /\ r.of = tokens /\ r \in Refresh
  BY TypedParts DEF Agreement, OneOfTheTokens, RefreshesTyped
<1>2. /\ pair # NoPair /\ pair.user = tokens.user
      /\ tokens' = pair /\ stored' = pair
  <2>1. r.of.user \in User
    BY <1>1 DEF Refresh, Pair
  <2>2. minted \in 0..MaxPairs /\ minted < MaxPairs
    BY TypedParts DEF RefreshGranted, ServerTyped
  <2> QED
    BY <1>1, <2>1, <2>2, PairMinted DEF RefreshGranted, Adopt
<1>3. /\ refreshes' = {} /\ inFlight' = 0 /\ UNCHANGED <<user, status>>
      /\ timer' = IF "timer" \in r.waiting THEN "armed" ELSE timer
      /\ call' = [c \in Caller |->
                   IF c \in r.waiting THEN [pc |-> "resent", token |-> pair]
                   ELSE IF c = "me" /\ "boot" \in r.waiting
                          THEN [pc |-> "sent", token |-> pair]
                   ELSE call[c]]
  BY <1>1 DEF RefreshGranted, Finally, Rearm
<1> HIDE DEF pair
<1>4. OneOfTheTokens' /\ tokens' = stored'
  BY <1>2, <1>3 DEF OneOfTheTokens
<1>5. CASE status = "loading"
  <2>1. Booting
    BY <1>5 DEF Agreement
  <2>2. r.waiting = {"boot"} \/ r.waiting = {"me"}
    BY <1>1, <2>1 DEF Booting, AskingMe, RefreshingFirst, RefreshingForMe
  <2>3. timer' = "off"
    BY <1>3, <2>1, <2>2 DEF Booting
  <2>4. \A q \in Query : call'[q].pc = "idle"
    BY <1>3, <2>1, <2>2, NamesApart DEF Booting, Caller
  <2>5. call'["me"].pc \in {"sent", "resent"} /\ call'["me"].token = pair
    BY <1>3, <2>2 DEF Caller
  <2>6. AskingMe'
    BY <1>2, <1>3, <2>5 DEF AskingMe
  <2> QED
    BY <1>2, <1>3, <1>4, <1>5, <2>1, <2>3, <2>4, <2>6 DEF Agreement, Booting
<1>6. CASE status = "authenticated"
  <2>1. SignedInWell
    BY <1>6 DEF Agreement
  <2>2. r.waiting \subseteq Query \cup {"timer"}
    BY <2>1 DEF SignedInWell
  <2>3. "me" \notin r.waiting /\ "boot" \notin r.waiting
    BY <2>2, NamesApart
  <2>4. call'["me"] = call["me"]
    BY <1>3, <2>3 DEF Caller
  <2>5. timer' = "armed"
    BY <1>1, <1>3, <2>1 DEF SignedInWell
  <2>6. SignedInWell'
    BY <1>2, <1>3, <2>1, <2>4, <2>5 DEF SignedInWell, Idle
  <2> QED
    BY <1>3, <1>4, <1>6, <2>6 DEF Agreement
<1>7. status # "unauthenticated"
  BY <1>1 DEF Agreement, SignedOutWell
<1> QED
  BY <1>5, <1>6, <1>7, AgreementByStatus

LEMMA RefreshFailedAgrees ==
  ASSUME Typed, Agreement, NEW r \in refreshes, RefreshFailed(r)
  PROVE  Agreement'
<1>1. refreshes = {r} /\ r.of = tokens /\ r \in Refresh
  BY TypedParts DEF Agreement, OneOfTheTokens, RefreshesTyped
<1>2. /\ refreshes' = {} /\ inFlight' = 0
      /\ call' = [c \in Caller |-> IF c \in r.waiting THEN Idle ELSE call[c]]
  BY <1>1 DEF RefreshFailed, ClearSession, Finally
<1>3. OneOfTheTokens'
  BY <1>2 DEF OneOfTheTokens
<1>4. status # "unauthenticated"
  BY <1>1 DEF Agreement, SignedOutWell
<1>5. call'["me"] = Idle
  <2>1. CASE status = "loading"
    BY <1>1, <1>2, <2>1 DEF Agreement, Booting, AskingMe, RefreshingFirst, RefreshingForMe, Caller
  <2>2. CASE status = "authenticated"
    BY <1>2, <2>2 DEF Agreement, SignedInWell, Caller
  <2> QED
    BY <1>4, <2>1, <2>2, AgreementByStatus
<1>6. CASE r.waiting \cap SessionEnders # {}
  <2>1. ClearSession
    BY <1>6 DEF RefreshFailed
  <2>2. SignedOutWell' /\ tokens' = stored' /\ status' = "unauthenticated"
    BY <1>2, <1>5, <2>1 DEF ClearSession, SignedOutWell, Idle
  <2> QED
    BY <1>3, <2>2 DEF Agreement
<1>7. CASE r.waiting \cap SessionEnders = {}
  <2>1. UNCHANGED <<tokens, stored, user, status, timer>>
    BY <1>7 DEF RefreshFailed, session
  <2>2. status = "authenticated" /\ SignedInWell
    <3>1. status # "loading"
      BY <1>1, <1>7 DEF Agreement, Booting, AskingMe, RefreshingFirst, RefreshingForMe,
                        SessionEnders
    <3> QED
      BY <1>4, <3>1, AgreementByStatus
  <2>3. timer = "armed"
    BY <1>1, <1>7, <2>2 DEF SignedInWell, SessionEnders
  <2>4. SignedInWell'
    BY <1>2, <1>5, <2>1, <2>2, <2>3 DEF SignedInWell, Idle
  <2>5. tokens' = stored' /\ status' = "authenticated"
    BY <2>1, <2>2 DEF Agreement
  <2> QED
    BY <1>3, <2>4, <2>5 DEF Agreement
<1> QED
  BY <1>6, <1>7

LEMMA CallAnsweredAgrees ==
  ASSUME Typed, Agreement, NEW c \in Caller, CallAnswered(c)
  PROVE  Agreement'
<1>1. CallTyped
  BY TypedParts
<1>2. ASSUME c \in Query, ReplyOk(c) \/ ReplyError(c) PROVE Agreement'
  <2>1. c # "me"
    BY <1>2, NamesApart
  <2>2. call' = [call EXCEPT ![c] = Idle] /\ UNCHANGED <<session, inFlight, refreshes>>
    BY <1>2, <2>1 DEF ReplyOk, ReplyError
  <2>3. call'["me"] = call["me"] /\ \A q \in Query : call'[q].pc = "idle" \/ call'[q] = call[q]
    BY <1>1, <2>1, <2>2 DEF CallTyped, Caller, Idle
  <2> QED
    BY <2>2, <2>3, QuietStepAgrees
<1>3. ASSUME call["me"].pc \in {"sent", "resent"}
      PROVE  status = "loading" /\ Booting /\ AskingMe
  BY <1>3, AgreementByStatus DEF Booting, RefreshingFirst, RefreshingForMe, SignedInWell,
                                 SignedOutWell, Idle
<1>4. CASE c = "me" /\ MeOk
  <2>1. status = "loading" /\ Booting /\ AskingMe
    BY <1>3, <1>4 DEF MeOk
  <2>2. /\ call'["me"] = Idle /\ status' = "authenticated" /\ user' = tokens.user
        /\ timer' = "armed" /\ UNCHANGED <<tokens, stored, inFlight, refreshes>>
    BY <1>1, <1>4, <2>1 DEF MeOk, AskingMe, Booting, CallTyped, Caller
  <2>3. SignedInWell'
    BY <2>1, <2>2 DEF SignedInWell, Booting, AskingMe, Idle
  <2>4. tokens' = stored' /\ OneOfTheTokens'
    BY <2>2 DEF Agreement, OneOfTheTokens
  <2> QED
    BY <2>2, <2>3, <2>4 DEF Agreement
<1>5. CASE c = "me" /\ ReplyError(c)
  <2>1. status = "loading" /\ AskingMe
    BY <1>3, <1>5 DEF ReplyError
  <2>2. ClearSession /\ refreshes' = {} /\ call'["me"] = Idle
    BY <1>1, <1>5, <2>1 DEF ReplyError, AskingMe, CallTyped
  <2>3. SignedOutWell' /\ OneOfTheTokens' /\ tokens' = stored' /\ status' = "unauthenticated"
    BY <2>2 DEF ClearSession, SignedOutWell, OneOfTheTokens, Idle
  <2> QED
    BY <2>3 DEF Agreement
<1>6. CASE c = "me" /\ Unauthorized(c)
  <2>1. status = "loading" /\ Booting /\ AskingMe
    BY <1>3, <1>6 DEF Unauthorized
  <2>2. /\ UNCHANGED <<tokens, stored, user, status, timer>> /\ Await("me")
        /\ call' = [call EXCEPT !["me"].pc = "waiting"]
    BY <1>6 DEF Unauthorized, session
  <2>3. PICK s \in refreshes' :
            /\ refreshes' = {s} /\ inFlight' = s.id /\ s.of = tokens
            /\ \/ refreshes = {} /\ s.waiting = {"me"}
               \/ \E r \in refreshes : s.waiting = r.waiting \cup {"me"}
    BY <2>2, AwaitOne DEF Agreement
  <2>4. s.waiting = {"me"}
    BY <2>1, <2>3 DEF AskingMe
  <2>5. /\ call'["me"].pc = "waiting" /\ call'["me"].token = tokens
        /\ \A q \in Query : call'[q] = call[q]
    BY <1>1, <2>1, <2>2, NamesApart DEF CallTyped, Caller, AskingMe
  <2>6. RefreshingForMe'
    BY <2>2, <2>3, <2>4, <2>5 DEF RefreshingForMe
  <2>7. Booting'
    BY <2>1, <2>2, <2>5, <2>6 DEF Booting
  <2>8. OneOfTheTokens' /\ tokens' = stored' /\ status' = "loading"
    BY <2>1, <2>2, <2>3 DEF Agreement, OneOfTheTokens
  <2> QED
    BY <2>7, <2>8 DEF Agreement
<1>7. CASE c \in Query /\ Unauthorized(c)
  <2>1. status = "authenticated" /\ SignedInWell
    BY <1>7, AgreementByStatus DEF Unauthorized, Booting, SignedOutWell
  <2>2. /\ UNCHANGED <<tokens, stored, user, status, timer>> /\ Await(c)
        /\ call' = [call EXCEPT ![c].pc = "waiting"]
    BY <1>7 DEF Unauthorized, session
  <2>3. PICK s \in refreshes' :
            /\ refreshes' = {s} /\ inFlight' = s.id /\ s.of = tokens
            /\ \/ refreshes = {} /\ s.waiting = {c}
               \/ \E r \in refreshes : s.waiting = r.waiting \cup {c}
    BY <2>2, AwaitOne DEF Agreement
  <2>4. s.waiting \subseteq Query \cup {"timer"}
    BY <1>7, <2>1, <2>3 DEF SignedInWell
  <2>5. timer = "armed" \/ "timer" \in s.waiting
    <3>1. OneOfTheTokens
      BY DEF Agreement
    <3>2. refreshes = {} \/ \E r \in refreshes : refreshes = {r}
      BY <3>1 DEF OneOfTheTokens
    <3> QED
      BY <2>1, <2>3, <3>2 DEF SignedInWell
  <2>6. call'["me"] = call["me"]
    BY <1>1, <1>7, <2>2, NamesApart DEF CallTyped, Caller
  <2>7. SignedInWell'
    BY <2>1, <2>2, <2>3, <2>4, <2>5, <2>6 DEF SignedInWell, Idle
  <2>8. OneOfTheTokens' /\ tokens' = stored' /\ status' = "authenticated"
    BY <2>1, <2>2, <2>3 DEF Agreement, OneOfTheTokens
  <2> QED
    BY <2>7, <2>8 DEF Agreement
<1> QED
  BY <1>2, <1>4, <1>5, <1>6, <1>7 DEF CallAnswered, Caller

\* Signing in and out over nothing unfinished.
LEMMA SignInAndOutAgree ==
  ASSUME Typed, Agreement, ~Pending, SignedIn \/ SignOut
  PROVE  Agreement'
<1>1. refreshes = {} /\ inFlight = 0 /\ call["me"] = Idle
  BY DEF Pending, Agreement, OneOfTheTokens
<1>2. CASE SignedIn
  <2>1. entering.user \in User /\ minted \in 0..MaxPairs /\ minted < MaxPairs
    BY <1>2, TypedParts DEF SignedIn, EntryTyped, ServerTyped
  <2>2. PairFor(entering.user) # NoPair /\ PairFor(entering.user).user = entering.user
    BY <2>1, PairMinted
  <2>3. /\ tokens' = PairFor(entering.user) /\ stored' = PairFor(entering.user)
        /\ user' = entering.user /\ status' = "authenticated" /\ timer' = "armed"
        /\ UNCHANGED <<refreshes, inFlight, call>>
    BY <1>2 DEF SignedIn, Adopt
  <2>4. SignedInWell' /\ OneOfTheTokens'
    BY <1>1, <2>2, <2>3 DEF SignedInWell, OneOfTheTokens, Idle
  <2> QED
    BY <2>3, <2>4 DEF Agreement
<1>3. CASE SignOut
  <2>1. ClearSession /\ UNCHANGED <<refreshes, call>>
    BY <1>3 DEF SignOut
  <2>2. SignedOutWell' /\ OneOfTheTokens' /\ tokens' = stored' /\ status' = "unauthenticated"
    BY <1>1, <2>1 DEF ClearSession, SignedOutWell, OneOfTheTokens, Idle
  <2> QED
    BY <2>2 DEF Agreement
<1> QED
  BY <1>2, <1>3

\* A page load starts afresh from localStorage, whatever was under way.
LEMMA LoadAgrees ==
  ASSUME Typed, NEW p, Load(p)
  PROVE  Agreement'
<1>1. /\ tokens' = stored /\ stored' = stored /\ user' = Nobody /\ timer' = "off"
  BY DEF Load
<1>2. CASE stored = NoPair
  <2>1. /\ status' = "unauthenticated" /\ refreshes' = {} /\ inFlight' = 0
        /\ call' = [c \in Caller |-> Idle]
    BY <1>2 DEF Load
  <2>2. SignedOutWell' /\ OneOfTheTokens'
    BY <1>1, <1>2, <2>1 DEF SignedOutWell, OneOfTheTokens, Caller, Idle
  <2> QED
    BY <1>1, <2>1, <2>2 DEF Agreement
<1>3. CASE /\ stored # NoPair /\ status' = "loading"
           /\ refreshes' = {[id |-> 1, of |-> stored, waiting |-> {"boot"}]} /\ inFlight' = 1
           /\ call' = [c \in Caller |-> Idle]
  <2>1. RefreshingFirst' /\ OneOfTheTokens'
    BY <1>1, <1>3 DEF RefreshingFirst, OneOfTheTokens, Caller, Idle
  <2>2. \A q \in Query : call'[q].pc = "idle"
    BY <1>3 DEF Caller, Idle
  <2> QED
    BY <1>1, <1>3, <2>1, <2>2 DEF Agreement, Booting
<1>4. CASE /\ stored # NoPair /\ status' = "loading" /\ refreshes' = {} /\ inFlight' = 0
           /\ call' = [c \in Caller |-> IF c = "me" THEN [pc |-> "sent", token |-> stored]
                                                    ELSE Idle]
  <2>1. AskingMe' /\ OneOfTheTokens'
    BY <1>1, <1>4 DEF AskingMe, OneOfTheTokens, Caller
  <2>2. \A q \in Query : call'[q].pc = "idle"
    BY <1>4, NamesApart DEF Caller, Idle
  <2> QED
    BY <1>1, <1>4, <2>1, <2>2 DEF Agreement, Booting
<1> QED
  BY <1>2, <1>3, <1>4 DEF Load

LEMMA NextAgrees ==
  ASSUME Typed, ~overlap => Agreement, [Next]_vars, ~overlap'
  PROVE  Agreement'
<1>1. ASSUME NEW p, Load(p) PROVE Agreement'
  BY <1>1, LoadAgrees
<1>2. CASE SignedIn \/ SignOut
  <2>1. ~overlap /\ ~Pending
    BY <1>2 DEF SignedIn, SignOut
  <2> QED
    BY <1>2, <2>1, SignInAndOutAgree
<1>3. CASE TimerFires
  BY <1>3, TimerFiresAgrees DEF TimerFires
<1>4. ASSUME NEW i \in 1..MaxRefreshes, RefreshAnswered(i) PROVE Agreement'
  BY <1>4, RefreshGrantedAgrees, RefreshFailedAgrees
     DEF RefreshAnswered, RefreshGranted, RefreshFailed
<1>5. ASSUME NEW c \in Caller, CallAnswered(c) PROVE Agreement'
  <2>1. overlap' = overlap
    BY <1>5 DEF CallAnswered, ReplyOk, MeOk, Unauthorized, ReplyError
  <2> QED
    BY <1>5, <2>1, CallAnsweredAgrees
<1>6. ASSUME NEW q \in Query, SendCall(q) PROVE Agreement'
  <2>1. /\ overlap' = overlap /\ status = "authenticated"
        /\ UNCHANGED <<session, inFlight, refreshes>>
    BY <1>6 DEF SendCall
  <2>2. call'["me"] = call["me"]
    BY <1>6, NamesApart, TypedParts DEF SendCall, CallTyped, Caller
  <2> QED
    BY <2>1, <2>2, QuietStepAgrees
<1>7. CASE \/ \E u \in User : SubmitLogin(u) \/ SubmitRegister(u) \/ Deactivate(u)
           \/ AccountCreated \/ EntryFailed
           \/ Guard \/ LandingRedirect \/ FollowLink
           \/ \E i \in 1..MaxPairs : Expire(i)
           \/ UNCHANGED vars
  <2>1. UNCHANGED <<session, inFlight, refreshes, call, overlap>>
    BY <1>7 DEF SubmitLogin, SubmitRegister, Deactivate, AccountCreated, EntryFailed,
                Guard, LandingRedirect, FollowLink, Expire, vars, session
  <2> QED
    BY <2>1, QuietStepAgrees
<1> QED
  BY <1>1, <1>2, <1>3, <1>4, <1>5, <1>6, <1>7 DEF Next

LEMMA SessionInvHolds == Spec => []SessionInv
<1>1. Init => SessionInv
  <2>1. Init => Typed
    BY InitTyped
  <2>2. Init => NoCallStranded
    BY DEF Init, NoCallStranded, Idle
  <2>3. Init => Agreement
    BY DEF Init, Agreement, OneOfTheTokens, SignedOutWell, Caller, Idle
  <2> QED
    BY <2>1, <2>2, <2>3 DEF SessionInv
<1>2. SessionInv /\ [Next]_vars => SessionInv'
  BY NextTyped, NextKeepsCallers, NextAgrees DEF SessionInv
<1> QED
  BY <1>1, <1>2, PTL DEF Spec

\* The user on the screen, the tokens of the calls, localStorage and the timer
\* speak of one session (auth-context.tsx), as long as nobody signed in or out
\* over an unfinished refresh or bootstrap since the page loaded.
THEOREM SessionIsCoherent == Spec => []SessionCoherent
<1>1. SessionInv => SessionCoherent
  <2>1. SUFFICES ASSUME Typed, Agreement
                 PROVE  /\ tokens = stored
                        /\ status = "authenticated" =>
                              user # Nobody /\ tokens # NoPair /\ tokens.user = user
                        /\ status = "unauthenticated" =>
                              user = Nobody /\ tokens = NoPair /\ timer = "off"
    BY DEF SessionInv, SessionCoherent
  <2>2. status = "authenticated" => user # Nobody
    BY <2>1, TypedParts, SessionAssumption DEF SessionTyped
  <2> QED
    BY <2>1, <2>2 DEF Agreement, SignedInWell, SignedOutWell
<1> QED
  BY <1>1, SessionInvHolds, PTL

\* However many calls fail at once, one refresh request is under way
\* (inFlightRefresh, auth-context.tsx:26-27).
THEOREM RefreshesOnce == Spec => []OneRefresh
<1>1. SessionInv => OneRefresh
  <2>1. Agreement => Cardinality(refreshes) <= 1
    <3>1. ASSUME refreshes = {} PROVE Cardinality(refreshes) <= 1
      <4>1. Cardinality({}) = 0
        BY FS_EmptySet
      <4> QED
        BY <3>1, <4>1
    <3>2. ASSUME NEW r, refreshes = {r} PROVE Cardinality(refreshes) <= 1
      <4>1. Cardinality({r}) = 1
        BY FS_Singleton
      <4> QED
        BY <3>2, <4>1
    <3> QED
      BY <3>1, <3>2 DEF Agreement, OneOfTheTokens
  <2> QED
    BY <2>1 DEF SessionInv, OneRefresh
<1> QED
  BY <1>1, SessionInvHolds, PTL

\* A signed-in session always has its next refresh armed or under way
\* (scheduleRefresh, auth-context.tsx), though the refresh a 401 asks for never
\* re-arms the timer.
THEOREM SessionIsKeptAlive == Spec => []SessionKeptAlive
<1>1. SessionInv => SessionKeptAlive
  BY DEF SessionInv, Agreement, SignedInWell, SessionKeptAlive
<1> QED
  BY <1>1, SessionInvHolds, PTL
=============================================================================
