-------------------------- MODULE PublicPagesProofs --------------------------
(***************************************************************************)
(* Proofs about the two public pages, for any number of tabs, any limit on *)
(* views and any number of requests.                                       *)
(***************************************************************************)
EXTENDS PublicPages, FiniteSetTheorems, TLAPS

(***************************************************************************)
(* Types                                                                   *)
(***************************************************************************)
Request ==
    [n : Nat, tab : Tab, what : {"load", "unlock", "confirmed", "declined"}, secret : Secret,
     pc : {"sent", "reading", "granted", "locked", "gone"}, count : Nat,
     here : BOOLEAN, late : BOOLEAN]

PublicTypes ==
    /\ publicPage \in {"share", "confirm"} /\ link \in {"active", "withdrawn"}
    /\ offer \in {"open", "lapsed", "confirmed", "declined"}
    /\ limited \in BOOLEAN /\ protected \in BOOLEAN /\ overlapped \in BOOLEAN
    /\ phase \in [Tab -> {"closed", "loading", "locked", "ready", "gone",
                          "confirmed", "declined"}]
    /\ views \in Nat /\ given \in Nat /\ asked \in Nat /\ unheard \subseteq Tab
    /\ asks \subseteq Request
    /\ \A f \in asks : f.what \in IF Share THEN {"load", "unlock"}
                                 ELSE {"load", "confirmed", "declined"}

\* A reply moves one request on and keeps the rest of it.
LEMMA Replied ==
  ASSUME PublicTypes, NEW f \in asks,
         NEW pc \in {"sent", "reading", "granted", "locked", "gone"}, Reply(f, pc)
  PROVE  \E g \in Request :
            /\ asks' = (asks \ {f}) \cup {g} /\ g.n = f.n /\ g.tab = f.tab /\ g.what = f.what
            /\ g.secret = f.secret /\ g.pc = pc /\ g.count = f.count
            /\ g.here = f.here /\ g.late = f.late
<1> DEFINE g == [f EXCEPT !.pc = pc]
<1>1. f \in Request
  BY DEF PublicTypes
<1>2. g \in Request
  BY <1>1 DEF Request
<1>3. asks' = (asks \ {f}) \cup {g}
  BY DEF Reply
<1> QED
  BY <1>1, <1>2, <1>3 DEF Request

\* Reading a link, a request notes its count.
LEMMA ReadLink ==
  ASSUME PublicTypes, NEW f \in asks,
         asks' = (asks \ {f}) \cup {[f EXCEPT !.pc = "reading", !.count = views]}
  PROVE  \E g \in Request :
            /\ asks' = (asks \ {f}) \cup {g} /\ g.n = f.n /\ g.tab = f.tab /\ g.what = f.what
            /\ g.secret = f.secret /\ g.pc = "reading" /\ g.count = views
            /\ g.here = f.here /\ g.late = f.late
<1> DEFINE g == [f EXCEPT !.pc = "reading", !.count = views]
<1>1. f \in Request
  BY DEF PublicTypes
<1>2. g \in Request
  BY <1>1 DEF Request, PublicTypes
<1>3. asks' = (asks \ {f}) \cup {g}
  OBVIOUS
<1> QED
  BY <1>1, <1>2, <1>3 DEF Request

\* What asking adds.
LEMMA AskSent ==
  ASSUME PublicTypes, NEW t \in Tab, NEW what \in {"load", "unlock", "confirmed", "declined"},
         NEW secret \in Secret, Ask(t, what, secret)
  PROVE  \E f \in Request :
            /\ asks' = asks \cup {f} /\ f.n = asked /\ f.tab = t /\ f.what = what
            /\ f.secret = secret /\ f.pc = "sent" /\ f.count = 0 /\ f.here
            /\ f.late = (link # "active")
<1> DEFINE f == [n |-> asked, tab |-> t, what |-> what, secret |-> secret, pc |-> "sent",
                 count |-> 0, here |-> TRUE, late |-> link # "active"]
<1>1. f \in Request
  BY DEF PublicTypes, Request
<1>2. asks' = asks \cup {f}
  BY DEF Ask
<1> QED
  BY <1>1, <1>2

\* A tab that closes is not there any more for its requests.
LEMMA Closed ==
  ASSUME PublicTypes, NEW t \in Tab, CloseTab(t), NEW g \in asks'
  PROVE  /\ g \in Request
         /\ \E f \in asks :
            /\ g.n = f.n /\ g.tab = f.tab /\ g.what = f.what /\ g.secret = f.secret
            /\ g.pc = f.pc /\ g.count = f.count /\ g.late = f.late
            /\ g.here = (f.here /\ f.tab # t)
<1>1. PICK f \in asks : g = [f EXCEPT !.here = @ /\ f.tab # t]
  BY DEF CloseTab
<1>2. f \in Request
  BY DEF PublicTypes
<1>3. g \in Request
  BY <1>1, <1>2 DEF Request
<1> QED
  BY <1>1, <1>2, <1>3 DEF Request

\* What an answer turns a tab into is one of its phases.
LEMMA PhaseType ==
  ASSUME PublicTypes, NEW f \in asks, NEW pc
  PROVE  Phase(f, pc) \in {"closed", "loading", "locked", "ready", "gone",
                           "confirmed", "declined"}
<1>1. CASE Share
  BY <1>1 DEF Phase, SharedPhase
<1>2. CASE ~Share
  BY <1>2 DEF Phase, ConfirmPhase, PublicTypes
<1> QED
  BY <1>1, <1>2

LEMMA InitPublicTypes == PublicInit => PublicTypes
<1> SUFFICES ASSUME PublicInit PROVE PublicTypes
  OBVIOUS
<1>1. phase \in [Tab -> {"closed", "loading", "locked", "ready", "gone",
                         "confirmed", "declined"}]
  BY DEF PublicInit
<1>2. asks \subseteq Request /\ \A f \in asks : FALSE
  BY DEF PublicInit
<1> QED
  BY <1>1, <1>2 DEF PublicInit, PublicTypes

LEMMA NextPublicTypes == PublicTypes /\ [PublicNext]_publicVars => PublicTypes'
<1> SUFFICES ASSUME PublicTypes, [PublicNext]_publicVars PROVE PublicTypes'
  OBVIOUS
<1> USE DEF Share
<1>1. ASSUME NEW t \in Tab, OpenTab(t) PROVE PublicTypes'
  <2>1. PICK f \in Request : asks' = asks \cup {f} /\ f.what = "load"
    BY <1>1, AskSent DEF OpenTab, Secret
  <2>2. asked' \in Nat
    BY <1>1 DEF OpenTab, Ask, PublicTypes
  <2> QED
    BY <1>1, <2>1, <2>2 DEF OpenTab, serverVars, PublicTypes
<1>2. ASSUME NEW t \in Tab, CloseTab(t) PROVE PublicTypes'
  <2>1. asks' \subseteq Request /\ \A g \in asks' : \E f \in asks : g.what = f.what
    BY <1>2, Closed
  <2> QED
    BY <1>2, <2>1 DEF CloseTab, serverVars, PublicTypes
<1>3. ASSUME NEW t \in Tab, NEW secret \in Secret, Unlock(t, secret) PROVE PublicTypes'
  <2>1. PICK f \in Request : asks' = asks \cup {f} /\ f.what = "unlock"
    BY <1>3, AskSent DEF Unlock
  <2>2. asked' \in Nat
    BY <1>3 DEF Unlock, Ask, PublicTypes
  <2> QED
    BY <1>3, <2>1, <2>2 DEF Unlock, serverVars, PublicTypes
<1>4. ASSUME NEW t \in Tab, NEW act \in {"confirmed", "declined"}, Answer(t, act) PROVE PublicTypes'
  <2>1. PICK f \in Request : asks' = asks \cup {f} /\ f.what = act
    BY <1>4, AskSent DEF Answer, Secret
  <2>2. asked' \in Nat
    BY <1>4 DEF Answer, Ask, PublicTypes
  <2> QED
    BY <1>4, <2>1, <2>2 DEF Answer, Confirm, serverVars, PublicTypes
<1>5. CASE Withdraw
  BY <1>5 DEF Withdraw, PublicTypes
<1>6. ASSUME NEW f \in asks, ServeShare(f) PROVE PublicTypes'
  <2>1. \/ \E pc \in {"gone", "locked"} : Reply(f, pc)
        \/ asks' = (asks \ {f}) \cup {[f EXCEPT !.pc = "reading", !.count = views]}
    BY <1>6 DEF ServeShare
  <2>2. CASE \E pc \in {"gone", "locked"} : Reply(f, pc)
    <3>1. PICK g \in Request : asks' = (asks \ {f}) \cup {g} /\ g.what = f.what
      BY <2>2, Replied
    <3> QED
      BY <1>6, <3>1 DEF ServeShare, serverVars, PublicTypes
  <2>3. CASE asks' = (asks \ {f}) \cup {[f EXCEPT !.pc = "reading", !.count = views]}
    <3>1. PICK g \in Request : asks' = (asks \ {f}) \cup {g} /\ g.what = f.what
      BY <2>3, ReadLink
    <3> QED
      BY <1>6, <3>1 DEF ServeShare, serverVars, PublicTypes
  <2> QED
    BY <2>1, <2>2, <2>3
<1>7. ASSUME NEW f \in asks, CountView(f) PROVE PublicTypes'
  <2>1. PICK g \in Request : asks' = (asks \ {f}) \cup {g} /\ g.what = f.what
    BY <1>7, Replied DEF CountView
  <2>2. views' \in Nat /\ given' \in Nat /\ overlapped' \in BOOLEAN
    BY <1>7 DEF CountView, PublicTypes, Request
  <2> QED
    BY <1>7, <2>1, <2>2 DEF CountView, PublicTypes
<1>8. ASSUME NEW f \in asks, ServeConfirm(f) PROVE PublicTypes'
  <2>1. \E pc \in {"gone", "granted"} : Reply(f, pc)
    BY <1>8 DEF ServeConfirm, AnswerLocked
  <2>2. PICK g \in Request : asks' = (asks \ {f}) \cup {g} /\ g.what = f.what
    BY <2>1, Replied
  <2>3. f.what \in {"load", "confirmed", "declined"}
        /\ offer' \in {offer, f.what} /\ (f.what = "load" => offer' = offer)
    BY <1>8 DEF ServeConfirm, AnswerLocked, PublicTypes, Confirm
  <2> QED
    BY <1>8, <2>2, <2>3 DEF ServeConfirm, PublicTypes
<1>9. ASSUME NEW f \in asks, Arrives(f) \/ NetworkFails(f) PROVE PublicTypes'
  <2>1. PICK pc : ShowPhase(f, pc)
    BY <1>9 DEF Arrives, NetworkFails
  <2>2. f.tab \in Tab /\ asks' = asks \ {f}
    BY <2>1 DEF PublicTypes, Request, ShowPhase
  <2>3. phase' \in [Tab -> {"closed", "loading", "locked", "ready", "gone",
                            "confirmed", "declined"}]
    BY <2>1, <2>2, PhaseType DEF PublicTypes, ShowPhase
  <2> QED
    BY <1>9, <2>2, <2>3 DEF Arrives, NetworkFails, serverVars, PublicTypes
<1>10. CASE UNCHANGED publicVars
  BY <1>10 DEF publicVars, PublicTypes
<1> QED
  BY <1>1, <1>2, <1>3, <1>4, <1>5, <1>6, <1>7, <1>8, <1>9, <1>10 DEF PublicNext

(***************************************************************************)
(* One request of a tab under way                                          *)
(***************************************************************************)
TabsAsk ==
    /\ \A f \in asks : f.here => phase[f.tab] # "closed"
    /\ \A f, g \in asks : f.here /\ g.here /\ f.tab = g.tab => f = g

\* What a reply shows, it shows on the tab that asked; no tab closes by it.
LEMMA ShownThere ==
  ASSUME PublicTypes, NEW f \in asks, NEW pc, ShowPhase(f, pc)
  PROVE  /\ asks' = asks \ {f}
         /\ \A t \in Tab : phase'[t] = IF f.here /\ t = f.tab THEN Phase(f, pc) ELSE phase[t]
         /\ Phase(f, pc) # "closed" /\ Phase(f, pc) # "loading"
<1>1. f.tab \in Tab
  BY DEF PublicTypes, Request
<1>2. Phase(f, pc) # "closed" /\ Phase(f, pc) # "loading"
  BY DEF PublicTypes, Phase, SharedPhase, ConfirmPhase
<1> QED
  BY <1>1, <1>2 DEF ShowPhase, PublicTypes

LEMMA NextTabsAsk == PublicTypes /\ TabsAsk /\ [PublicNext]_publicVars => TabsAsk'
<1> SUFFICES ASSUME PublicTypes, TabsAsk, [PublicNext]_publicVars PROVE TabsAsk'
  OBVIOUS
<1>a. \A f \in asks : f \in Request /\ f.tab \in Tab
  BY DEF PublicTypes, Request
<1>1. ASSUME NEW t \in Tab, OpenTab(t) PROVE TabsAsk'
  <2>1. PICK f \in Request : asks' = asks \cup {f} /\ f.tab = t
    BY <1>1, AskSent DEF OpenTab, Secret
  <2>2. phase[t] = "closed" /\ phase' = [phase EXCEPT ![t] = "loading"]
    BY <1>1 DEF OpenTab
  <2> QED
    BY <1>a, <2>1, <2>2 DEF TabsAsk, PublicTypes
<1>2. ASSUME NEW t \in Tab, CloseTab(t) PROVE TabsAsk'
  <2>1. phase' = [phase EXCEPT ![t] = "closed"]
    BY <1>2 DEF CloseTab
  <2>2. ASSUME NEW g \in asks', g.here PROVE g \in asks /\ g.tab # t
    <3>1. PICK f \in asks : g = [f EXCEPT !.here = @ /\ f.tab # t]
      BY <1>2 DEF CloseTab
    <3>2. f.here /\ f.tab # t
      BY <1>a, <2>2, <3>1 DEF Request
    <3>3. g = f
      BY <1>a, <3>1, <3>2 DEF Request
    <3> QED
      BY <3>2, <3>3
  <2> QED
    BY <1>a, <2>1, <2>2 DEF TabsAsk, PublicTypes
<1>3. ASSUME NEW t \in Tab, NEW secret \in Secret, Unlock(t, secret) PROVE TabsAsk'
  <2>1. PICK f \in Request : asks' = asks \cup {f} /\ f.tab = t
    BY <1>3, AskSent DEF Unlock
  <2>2. phase[t] = "locked" /\ phase' = phase /\ ~Asking(t)
    BY <1>3 DEF Unlock
  <2> QED
    BY <2>1, <2>2 DEF TabsAsk, Asking
<1>4. ASSUME NEW t \in Tab, NEW act \in {"confirmed", "declined"}, Answer(t, act) PROVE TabsAsk'
  <2>1. PICK f \in Request : asks' = asks \cup {f} /\ f.tab = t
    BY <1>4, AskSent DEF Answer, Secret
  <2>2. phase[t] = "ready" /\ phase' = phase /\ ~Asking(t)
    BY <1>4 DEF Answer
  <2> QED
    BY <2>1, <2>2 DEF TabsAsk, Asking
<1>5. CASE Withdraw
  BY <1>5 DEF Withdraw, TabsAsk
<1>6. ASSUME NEW f \in asks, ServeShare(f) \/ CountView(f) \/ ServeConfirm(f) PROVE TabsAsk'
  <2>1. phase' = phase
    BY <1>6 DEF ServeShare, CountView, ServeConfirm
  <2>2. \/ \E pc \in {"gone", "locked", "granted"} : Reply(f, pc)
        \/ asks' = (asks \ {f}) \cup {[f EXCEPT !.pc = "reading", !.count = views]}
    BY <1>6 DEF ServeShare, CountView, ServeConfirm, AnswerLocked
  <2>3. CASE \E pc \in {"gone", "locked", "granted"} : Reply(f, pc)
    <3>1. PICK g : asks' = (asks \ {f}) \cup {g} /\ g.tab = f.tab /\ g.here = f.here
      BY <2>3, Replied
    <3> QED
      BY <2>1, <3>1 DEF TabsAsk
  <2>4. CASE asks' = (asks \ {f}) \cup {[f EXCEPT !.pc = "reading", !.count = views]}
    <3>1. PICK g : asks' = (asks \ {f}) \cup {g} /\ g.tab = f.tab /\ g.here = f.here
      BY <2>4, ReadLink
    <3> QED
      BY <2>1, <3>1 DEF TabsAsk
  <2> QED
    BY <2>2, <2>3, <2>4
<1>7. ASSUME NEW f \in asks, Arrives(f) \/ NetworkFails(f) PROVE TabsAsk'
  <2>1. PICK pc : ShowPhase(f, pc)
    BY <1>7 DEF Arrives, NetworkFails
  <2> QED
    BY <1>a, <2>1, ShownThere DEF TabsAsk
<1>8. CASE UNCHANGED publicVars
  BY <1>8 DEF publicVars, TabsAsk
<1> QED
  BY <1>1, <1>2, <1>3, <1>4, <1>5, <1>6, <1>7, <1>8 DEF PublicNext

(***************************************************************************)
(* The share link                                                          *)
(***************************************************************************)
ShareInv ==
    /\ \A f \in asks :
          /\ f.late => link # "active"
          /\ f.pc = "reading" => Share /\ (limited => f.count < ViewLimit)
          /\ Share /\ f.pc \in {"reading", "granted"} =>
                ~f.late /\ (protected => f.secret = "right")
    /\ ~overlapped => views = given
    /\ limited /\ ~overlapped => given <= ViewLimit

LEMMA InitShareInv == PublicInit => ShareInv
BY PublicAssumption DEF PublicInit, ShareInv

LEMMA NextShareInv == PublicTypes /\ ShareInv /\ [PublicNext]_publicVars => ShareInv'
<1> SUFFICES ASSUME PublicTypes, ShareInv, [PublicNext]_publicVars PROVE ShareInv'
  OBVIOUS
<1>a. \A f \in asks : f \in Request /\ f.count \in Nat
  BY DEF PublicTypes, Request
<1> USE DEF Share
<1>1. ASSUME NEW t \in Tab, OpenTab(t) PROVE ShareInv'
  <2>1. PICK f \in Request : asks' = asks \cup {f} /\ f.pc = "sent" /\ f.late = (link # "active")
    BY <1>1, AskSent DEF OpenTab, Secret
  <2> QED
    BY <1>1, <2>1 DEF ShareInv, OpenTab, serverVars
<1>2. ASSUME NEW t \in Tab, CloseTab(t) PROVE ShareInv'
  <2>1. ASSUME NEW g \in asks'
        PROVE  \E f \in asks : /\ g.late = f.late /\ g.pc = f.pc /\ g.count = f.count
                               /\ g.secret = f.secret
    BY <1>2, <2>1, Closed
  <2> QED
    BY <1>2, <2>1 DEF ShareInv, CloseTab, serverVars
<1>3. ASSUME NEW t \in Tab, NEW secret \in Secret, Unlock(t, secret) PROVE ShareInv'
  <2>1. PICK f \in Request : asks' = asks \cup {f} /\ f.pc = "sent" /\ f.late = (link # "active")
    BY <1>3, AskSent DEF Unlock
  <2> QED
    BY <1>3, <2>1 DEF ShareInv, Unlock, serverVars
<1>4. ASSUME NEW t \in Tab, NEW act \in {"confirmed", "declined"}, Answer(t, act) PROVE ShareInv'
  <2>1. PICK f \in Request : asks' = asks \cup {f} /\ f.pc = "sent" /\ f.late = (link # "active")
    BY <1>4, AskSent DEF Answer, Secret
  <2> QED
    BY <1>4, <2>1 DEF ShareInv, Answer, serverVars
<1>5. CASE Withdraw
  BY <1>5 DEF Withdraw, ShareInv
<1>6. ASSUME NEW f \in asks, ServeShare(f) PROVE ShareInv'
  <2>1. CASE \E pc \in {"gone", "locked"} : Reply(f, pc)
    <3>1. PICK pc \in {"gone", "locked"} : Reply(f, pc)
      BY <2>1
    <3>2. PICK g : asks' = (asks \ {f}) \cup {g} /\ g.late = f.late /\ g.pc = pc
      BY <3>1, Replied
    <3> QED
      BY <1>6, <3>2 DEF ShareInv, ServeShare, serverVars
  <2>2. CASE asks' = (asks \ {f}) \cup {[f EXCEPT !.pc = "reading", !.count = views]}
    <3>1. PICK g : /\ asks' = (asks \ {f}) \cup {g} /\ g.late = f.late /\ g.pc = "reading"
                   /\ g.count = views /\ g.secret = f.secret
      BY <2>2, ReadLink
    <3>2. CASE Reply(f, "gone") \/ Reply(f, "locked")
      BY <2>1, <3>2
    <3>3. CASE LinkOpen /\ (protected => f.secret = "right")
      <4>1. Share /\ link = "active" /\ (limited => views < ViewLimit) /\ ~f.late
        BY <1>6, <3>3 DEF ServeShare, LinkOpen, ShareInv
      <4> QED
        BY <1>6, <3>1, <3>3, <4>1 DEF ShareInv, ServeShare, serverVars
    <3> QED
      BY <1>6, <3>2, <3>3 DEF ServeShare
  <2> QED
    BY <1>6, <2>1, <2>2 DEF ServeShare
<1>7. ASSUME NEW f \in asks, CountView(f) PROVE ShareInv'
  <2>1. PICK g : /\ asks' = (asks \ {f}) \cup {g} /\ g.late = f.late /\ g.pc = "granted"
                 /\ g.secret = f.secret
    BY <1>7, Replied DEF CountView
  <2>2. ~overlapped' => views = f.count /\ views = given
    BY <1>7 DEF CountView, ShareInv
  <2>3. f.pc = "reading" /\ views' = f.count + 1 /\ given' = given + 1
    BY <1>7 DEF CountView
  <2>4. /\ ~overlapped' => views' = given'
        /\ limited /\ ~overlapped' => given' <= ViewLimit
    BY <1>a, <2>2, <2>3, PublicAssumption DEF ShareInv, PublicTypes
  <2> QED
    BY <1>7, <2>1, <2>3, <2>4 DEF ShareInv, CountView
<1>8. ASSUME NEW f \in asks, ServeConfirm(f) PROVE ShareInv'
  <2>1. PICK pc \in {"gone", "granted"} : Reply(f, pc)
    BY <1>8 DEF ServeConfirm, AnswerLocked
  <2>2. PICK g : asks' = (asks \ {f}) \cup {g} /\ g.late = f.late /\ g.pc = pc
    BY <2>1, Replied
  <2>3. ~Share
    BY <1>8 DEF ServeConfirm, Confirm
  <2> QED
    BY <1>8, <2>2, <2>3 DEF ShareInv, ServeConfirm
<1>9. ASSUME NEW f \in asks, Arrives(f) \/ NetworkFails(f) PROVE ShareInv'
  <2>1. asks' = asks \ {f}
    BY <1>9 DEF Arrives, NetworkFails, ShowPhase
  <2> QED
    BY <1>9, <2>1 DEF ShareInv, Arrives, NetworkFails, serverVars
<1>10. CASE UNCHANGED publicVars
  BY <1>10 DEF publicVars, ShareInv
<1> QED
  BY <1>1, <1>2, <1>3, <1>4, <1>5, <1>6, <1>7, <1>8, <1>9, <1>10 DEF PublicNext

\* The records behind a share link are given out only to who asked while it was
\* active, with its passphrase, and within its limit unless views overlapped.
THEOREM PublicViewsAsAllowed == PublicSpec => []ViewsAsAllowed
<1>1. PublicTypes /\ ShareInv => ViewsAsAllowed
  BY DEF ShareInv, ViewsAsAllowed
<1> QED
  BY InitPublicTypes, NextPublicTypes, InitShareInv, NextShareInv, <1>1, PTL DEF PublicSpec

(***************************************************************************)
(* The confirmation                                                        *)
(***************************************************************************)
ConfirmInv ==
    Confirm =>
    /\ \A f \in asks : f.pc \in {"sent", "granted", "gone"}
    /\ \A f \in asks : f.pc = "granted" /\ f.what # "load" => offer = f.what
    /\ \A f \in asks : f.pc = "gone" => offer # "open"
    /\ \A t \in Tab : /\ phase[t] \in {"confirmed", "declined"} => offer = phase[t]
                      /\ phase[t] = "gone" /\ t \notin unheard => offer # "open"

LEMMA InitConfirmInv == PublicInit => ConfirmInv
BY DEF PublicInit, ConfirmInv

LEMMA NextConfirmInv == PublicTypes /\ ConfirmInv /\ [PublicNext]_publicVars => ConfirmInv'
<1> SUFFICES ASSUME PublicTypes, ConfirmInv, Confirm', [PublicNext]_publicVars PROVE ConfirmInv'
  BY DEF ConfirmInv
<1> USE DEF Confirm, Share
<1>a. \A f \in asks : f \in Request /\ f.tab \in Tab
                      /\ (Confirm => f.what \in {"load", "confirmed", "declined"})
  BY DEF PublicTypes, Request
<1>1. ASSUME NEW t \in Tab, OpenTab(t) PROVE ConfirmInv'
  <2>1. PICK f \in Request : asks' = asks \cup {f} /\ f.pc = "sent"
    BY <1>1, AskSent DEF OpenTab, Secret
  <2> QED
    BY <1>1, <2>1 DEF ConfirmInv, OpenTab, serverVars, PublicTypes
<1>2. ASSUME NEW t \in Tab, CloseTab(t) PROVE ConfirmInv'
  <2>1. ASSUME NEW g \in asks'
        PROVE  \E f \in asks : g.pc = f.pc /\ g.what = f.what
    BY <1>2, <2>1, Closed
  <2> QED
    BY <1>2, <2>1 DEF ConfirmInv, CloseTab, serverVars, PublicTypes
<1>3. ASSUME NEW t \in Tab, NEW secret \in Secret, Unlock(t, secret) PROVE ConfirmInv'
  BY <1>3 DEF Unlock
<1>4. ASSUME NEW t \in Tab, NEW act \in {"confirmed", "declined"}, Answer(t, act)
      PROVE  ConfirmInv'
  <2>1. PICK f \in Request : asks' = asks \cup {f} /\ f.pc = "sent"
    BY <1>4, AskSent DEF Answer, Secret
  <2> QED
    BY <1>4, <2>1 DEF ConfirmInv, Answer, serverVars
<1>5. CASE Withdraw
  BY <1>5 DEF Withdraw, ConfirmInv, PublicTypes
<1>6. ASSUME NEW f \in asks, ServeShare(f) PROVE ConfirmInv'
  BY <1>6 DEF ServeShare
<1>7. ASSUME NEW f \in asks, CountView(f) PROVE ConfirmInv'
  BY <1>7 DEF CountView, ConfirmInv
<1>8. ASSUME NEW f \in asks, ServeConfirm(f) PROVE ConfirmInv'
  <2>1. PICK pc \in {"gone", "granted"} :
            /\ Reply(f, pc)
            /\ pc = "gone" => offer # "open" /\ offer' = offer
            /\ pc = "granted" => IF f.what = "load" THEN offer' = offer
                                 ELSE offer = "open" /\ offer' = f.what
    BY <1>8 DEF ServeConfirm, AnswerLocked
  <2>2. PICK g : asks' = (asks \ {f}) \cup {g} /\ g.pc = pc /\ g.what = f.what
    BY <2>1, Replied
  <2>3. offer # "open" => offer' = offer
    BY <2>1
  <2>4. phase' = phase /\ unheard' = unheard /\ publicPage' = publicPage
    BY <1>8 DEF ServeConfirm
  <2>5. offer' # "open" \/ offer' = offer
    BY <1>a, <2>1, <1>8 DEF ServeConfirm
  <2> QED
    BY <2>1, <2>2, <2>3, <2>4, <2>5 DEF ConfirmInv, PublicTypes
<1>9. ASSUME NEW f \in asks, NEW pc, ShowPhase(f, pc), UNCHANGED <<publicPage, offer>>,
             pc \in {"granted", "locked", "gone"} => pc = f.pc,
             IF pc \in {"granted", "locked", "gone"} THEN UNCHANGED unheard
             ELSE unheard' = IF f.here THEN unheard \cup {f.tab} ELSE unheard
      PROVE  ConfirmInv'
  <2>1. Phase(f, pc) = IF pc # "granted" THEN "gone" ELSE IF f.what = "load" THEN "ready"
                       ELSE f.what
    BY <1>9 DEF Phase, ConfirmPhase, PublicTypes
  <2>2. Phase(f, pc) \in {"confirmed", "declined"} => offer = Phase(f, pc)
    BY <1>9, <1>a, <2>1 DEF ConfirmInv
  <2>3. Phase(f, pc) = "gone" /\ ~(f.here /\ f.tab \in unheard') => offer # "open" \/ ~f.here
    BY <1>9, <1>a, <2>1 DEF ConfirmInv
  <2> QED
    BY <1>9, <1>a, <2>2, <2>3, ShownThere DEF ConfirmInv
<1>10. ASSUME NEW f \in asks, Arrives(f) \/ NetworkFails(f) PROVE ConfirmInv'
  BY <1>10, <1>9 DEF Arrives, NetworkFails, serverVars
<1>11. CASE UNCHANGED publicVars
  BY <1>11 DEF publicVars, ConfirmInv
<1> QED
  BY <1>1, <1>2, <1>3, <1>4, <1>5, <1>6, <1>7, <1>8, <1>10, <1>11 DEF PublicNext

\* No tab shows an answer the server does not hold, nor calls an open offer's link
\* invalid unless its own answer was lost on the way.
THEOREM PublicOutcomeIsTrue == PublicSpec => []OutcomeIsTrue
<1>1. ConfirmInv => OutcomeIsTrue
  BY DEF ConfirmInv, OutcomeIsTrue
<1> QED
  BY InitPublicTypes, NextPublicTypes, InitConfirmInv, NextConfirmInv, <1>1, PTL DEF PublicSpec

(***************************************************************************)
(* The counters                                                            *)
(***************************************************************************)
Unanswered == {f \in asks : f.pc \in {"sent", "reading"}}

\* Every view given out is of a request of its own.
Budget ==
    /\ IsFiniteSet(asks) /\ asked <= MaxAsks
    /\ views <= given /\ given + Cardinality(Unanswered) <= asked
    /\ \A f \in asks : f.count <= given

\* One element more is at most one more, one for another is none more.
LEMMA OneMore ==
  ASSUME NEW S, NEW x, IsFiniteSet(S)
  PROVE  /\ IsFiniteSet(S \cup {x}) /\ Cardinality(S) \in Nat /\ Cardinality(S \cup {x}) \in Nat
         /\ Cardinality(S \cup {x}) <= Cardinality(S) + 1
<1>1. IsFiniteSet(S \cup {x}) /\ Cardinality(S) \in Nat
      /\ Cardinality(S \cup {x}) = IF x \in S THEN Cardinality(S) ELSE Cardinality(S) + 1
  BY FS_AddElement, FS_CardinalityType
<1> QED
  BY <1>1

LEMMA OneForAnother ==
  ASSUME NEW S, NEW x \in S, NEW y, IsFiniteSet(S)
  PROVE  /\ IsFiniteSet((S \ {x}) \cup {y})
         /\ Cardinality((S \ {x}) \cup {y}) \in Nat
         /\ Cardinality((S \ {x}) \cup {y}) <= Cardinality(S)
<1>1. IsFiniteSet(S \ {x}) /\ Cardinality(S \ {x}) = Cardinality(S) - 1 /\ Cardinality(S) \in Nat
  BY FS_RemoveElement, FS_CardinalityType
<1> DEFINE R == S \ {x}
<1>2. /\ IsFiniteSet(R \cup {y}) /\ Cardinality(R) \in Nat /\ Cardinality(R \cup {y}) \in Nat
      /\ Cardinality(R \cup {y}) <= Cardinality(R) + 1
  <2>1. IsFiniteSet(R)
    BY <1>1
  <2> HIDE DEF R
  <2> QED
    BY <2>1, OneMore
<1> QED
  BY <1>1, <1>2

LEMMA WaitingType ==
  ASSUME IsFiniteSet(asks)
  PROVE  IsFiniteSet(Unanswered) /\ Cardinality(Unanswered) \in Nat
BY FS_Subset, FS_CardinalityType DEF Unanswered

\* A step that lets one request go on, or drops it, keeps the budget if it gives
\* nothing out, or lets it stop waiting.
LEMMA BudgetKept ==
  ASSUME PublicTypes, Budget, NEW f \in asks, NEW g \in Request, g.count <= given', given' \in Nat,
         asks' = (asks \ {f}) \cup {g}, asked' = asked, views' <= given',
         \/ given' = given /\ (g.pc \in {"sent", "reading"} => f \in Unanswered)
         \/ given' = given + 1 /\ f \in Unanswered /\ g.pc \notin {"sent", "reading"}
  PROVE  Budget'
<1>1. IsFiniteSet(asks) /\ IsFiniteSet(Unanswered) /\ Cardinality(Unanswered) \in Nat
  BY WaitingType DEF Budget
<1>2. IsFiniteSet(asks')
  BY <1>1, FS_AddElement, FS_RemoveElement
<1>3. IsFiniteSet(Unanswered') /\ Cardinality(Unanswered') \in Nat
  BY <1>2, FS_Subset, FS_CardinalityType DEF Unanswered
<1>4. CASE g.pc \in {"sent", "reading"}
  <2>1. Unanswered' \subseteq (Unanswered \ {f}) \cup {g} /\ f \in Unanswered /\ given' = given
    BY <1>4 DEF Unanswered
  <2>2. /\ IsFiniteSet((Unanswered \ {f}) \cup {g})
        /\ Cardinality((Unanswered \ {f}) \cup {g}) \in Nat
        /\ Cardinality((Unanswered \ {f}) \cup {g}) <= Cardinality(Unanswered)
    BY <1>1, <2>1, OneForAnother
  <2>3. Cardinality(Unanswered') <= Cardinality((Unanswered \ {f}) \cup {g})
    BY <2>1, <2>2, FS_Subset
  <2>4. Cardinality(Unanswered') <= Cardinality(Unanswered)
    BY <1>1, <1>3, <2>2, <2>3
  <2> QED
    BY <1>1, <1>2, <1>3, <2>1, <2>4 DEF Budget, PublicTypes
<1>5. CASE g.pc \notin {"sent", "reading"}
  <2>1. Unanswered' \subseteq Unanswered \ {f}
    BY <1>5 DEF Unanswered
  <2>2. /\ IsFiniteSet(Unanswered \ {f})
        /\ Cardinality(Unanswered \ {f}) = IF f \in Unanswered THEN Cardinality(Unanswered) - 1
                                        ELSE Cardinality(Unanswered)
    BY <1>1, FS_RemoveElement
  <2>3. Cardinality(Unanswered') <= Cardinality(Unanswered \ {f})
    BY <2>1, <2>2, FS_Subset
  <2>4. \A h \in asks' : h.count <= given'
    <3>1. \A h \in asks : h.count \in Nat
      BY DEF PublicTypes, Request
    <3> QED
      BY <3>1 DEF Budget, PublicTypes
  <2>5. given' + Cardinality(Unanswered') <= asked'
    BY <1>1, <1>3, <2>2, <2>3 DEF Budget, PublicTypes
  <2> QED
    BY <1>2, <2>4, <2>5 DEF Budget
<1> QED
  BY <1>4, <1>5

LEMMA InitBudget == PublicInit => Budget
<1> SUFFICES ASSUME PublicInit PROVE Budget
  OBVIOUS
<1>1. asks = {} /\ Unanswered = {} /\ views = 0 /\ given = 0 /\ asked = 0
  BY DEF PublicInit, Unanswered
<1> QED
  BY <1>1, FS_EmptySet, PublicAssumption DEF Budget

\* Asking spends one request and waits for one more.
LEMMA AskBudget ==
  ASSUME PublicTypes, Budget, NEW t \in Tab, NEW secret \in Secret,
         NEW what \in {"load", "unlock", "confirmed", "declined"}, Ask(t, what, secret),
         UNCHANGED <<views, given>>
  PROVE  Budget'
<1>1. PICK f \in Request : asks' = asks \cup {f} /\ f.count = 0
  BY AskSent
<1>2. IsFiniteSet(asks') /\ IsFiniteSet(Unanswered) /\ Cardinality(Unanswered) \in Nat
  BY <1>1, WaitingType, FS_AddElement DEF Budget
<1>3. IsFiniteSet(Unanswered') /\ Cardinality(Unanswered') \in Nat
  BY <1>2, FS_Subset, FS_CardinalityType DEF Unanswered
<1>4. Unanswered' \subseteq Unanswered \cup {f}
  BY <1>1 DEF Unanswered
<1>5. IsFiniteSet(Unanswered \cup {f}) /\ Cardinality(Unanswered \cup {f}) <= Cardinality(Unanswered) + 1
  BY <1>2, OneMore
<1>6. Cardinality(Unanswered') <= Cardinality(Unanswered \cup {f}) /\ Cardinality(Unanswered \cup {f}) \in Nat
  BY <1>4, <1>5, FS_Subset, FS_CardinalityType
<1>7. asked' = asked + 1 /\ asked < MaxAsks
  BY DEF Ask
<1>8. Cardinality(Unanswered') <= Cardinality(Unanswered) + 1
  BY <1>2, <1>3, <1>5, <1>6
<1>9. asked' <= MaxAsks /\ given' + Cardinality(Unanswered') <= asked'
  BY <1>2, <1>3, <1>7, <1>8, PublicAssumption DEF Budget, PublicTypes
<1> QED
  BY <1>1, <1>2, <1>9 DEF Budget, PublicTypes

\* Closing a tab changes requests one by one, and none of what is counted.
LEMMA CloseBudget ==
  ASSUME PublicTypes, Budget, NEW t \in Tab, CloseTab(t)
  PROVE  Budget'
<1> DEFINE h == [f \in asks |-> [f EXCEPT !.here = @ /\ f.tab # t]]
           w == [f \in Unanswered |-> [f EXCEPT !.here = @ /\ f.tab # t]]
<1>1. \A f \in asks : f \in Request
  BY DEF PublicTypes
<1>2. asks' = {[f EXCEPT !.here = @ /\ f.tab # t] : f \in asks}
  BY DEF CloseTab
<1>3. h \in Surjection(asks, asks')
  BY <1>2 DEF Surjection
<1>4. IsFiniteSet(asks')
  BY <1>3, FS_Surjection DEF Budget
<1>5. \A f \in asks : [f EXCEPT !.here = @ /\ f.tab # t].pc = f.pc
  BY <1>1 DEF Request
<1>6. Unanswered' = {[f EXCEPT !.here = @ /\ f.tab # t] : f \in Unanswered}
  BY <1>2, <1>5 DEF Unanswered
<1>7. w \in Surjection(Unanswered, Unanswered')
  BY <1>6 DEF Surjection
<1>8. IsFiniteSet(Unanswered) /\ Cardinality(Unanswered) \in Nat
  BY WaitingType DEF Budget
<1>9. IsFiniteSet(Unanswered') /\ Cardinality(Unanswered') <= Cardinality(Unanswered)
      /\ Cardinality(Unanswered') \in Nat
  BY <1>7, <1>8, FS_Surjection, FS_CardinalityType
<1>10. \A g \in asks' : \E f \in asks : g.count = f.count
  BY Closed
<1>11. UNCHANGED <<views, given, asked>>
  BY DEF CloseTab, serverVars
<1> QED
  BY <1>4, <1>8, <1>9, <1>10, <1>11 DEF Budget, PublicTypes

\* A request that ends gives back what it waited for.
LEMMA EndBudget ==
  ASSUME PublicTypes, Budget, NEW f \in asks, asks' = asks \ {f}, UNCHANGED <<views, given, asked>>
  PROVE  Budget'
<1>1. IsFiniteSet(asks') /\ IsFiniteSet(Unanswered) /\ Cardinality(Unanswered) \in Nat
  BY WaitingType, FS_RemoveElement DEF Budget
<1>2. Unanswered' \subseteq Unanswered
  BY DEF Unanswered
<1>3. Cardinality(Unanswered') <= Cardinality(Unanswered) /\ Cardinality(Unanswered') \in Nat
  BY <1>1, <1>2, FS_Subset, FS_CardinalityType
<1> QED
  BY <1>1, <1>3 DEF Budget, PublicTypes

LEMMA NextBudget == PublicTypes /\ Budget /\ [PublicNext]_publicVars => Budget'
<1> SUFFICES ASSUME PublicTypes, Budget, [PublicNext]_publicVars PROVE Budget'
  OBVIOUS
<1>1. ASSUME NEW t \in Tab, OpenTab(t) PROVE Budget'
  BY <1>1, AskBudget DEF OpenTab, serverVars, Secret
<1>2. ASSUME NEW t \in Tab, CloseTab(t) PROVE Budget'
  BY <1>2, CloseBudget
<1>3. ASSUME NEW t \in Tab, NEW secret \in Secret, Unlock(t, secret) PROVE Budget'
  BY <1>3, AskBudget DEF Unlock, serverVars
<1>4. ASSUME NEW t \in Tab, NEW act \in {"confirmed", "declined"}, Answer(t, act) PROVE Budget'
  BY <1>4, AskBudget DEF Answer, serverVars, Secret
<1>5. CASE Withdraw
  <2>1. UNCHANGED <<asks, Unanswered, views, given, asked>>
    BY <1>5 DEF Withdraw, Unanswered
  <2> QED
    BY <2>1 DEF Budget
<1>6. ASSUME NEW f \in asks, ServeShare(f) PROVE Budget'
  <2>1. UNCHANGED <<views, given, asked>> /\ f \in Unanswered
    BY <1>6 DEF ServeShare, serverVars, Unanswered
  <2>2. CASE \E pc \in {"gone", "locked"} : Reply(f, pc)
    <3>1. PICK pc \in {"gone", "locked"} : Reply(f, pc)
      BY <2>2
    <3>2. PICK g \in Request : /\ asks' = (asks \ {f}) \cup {g} /\ g.pc = pc /\ g.count = f.count
      BY <3>1, Replied
    <3> QED
      BY <2>1, <3>2, BudgetKept DEF Budget, PublicTypes
  <2>3. CASE asks' = (asks \ {f}) \cup {[f EXCEPT !.pc = "reading", !.count = views]}
    <3>1. PICK g \in Request : /\ asks' = (asks \ {f}) \cup {g} /\ g.pc = "reading"
                               /\ g.count = views
      BY <2>3, ReadLink
    <3> QED
      BY <2>1, <3>1, BudgetKept DEF Budget, PublicTypes
  <2> QED
    BY <1>6, <2>2, <2>3 DEF ServeShare
<1>7. ASSUME NEW f \in asks, CountView(f) PROVE Budget'
  <2>1. PICK g \in Request : asks' = (asks \ {f}) \cup {g} /\ g.pc = "granted" /\ g.count = f.count
    BY <1>7, Replied DEF CountView
  <2>2. f \in Unanswered /\ asked' = asked /\ views' = f.count + 1 /\ given' = given + 1
    BY <1>7 DEF CountView, Unanswered
  <2>3. f.count \in Nat /\ f.count <= given /\ given \in Nat
    BY DEF PublicTypes, Request, Budget
  <2> QED
    BY <2>1, <2>2, <2>3, BudgetKept
<1>8. ASSUME NEW f \in asks, ServeConfirm(f) PROVE Budget'
  <2>1. UNCHANGED <<views, given, asked>> /\ f \in Unanswered
    BY <1>8 DEF ServeConfirm, Unanswered
  <2>2. PICK pc \in {"gone", "granted"} : Reply(f, pc)
    BY <1>8 DEF ServeConfirm, AnswerLocked
  <2>3. PICK g \in Request : asks' = (asks \ {f}) \cup {g} /\ g.pc = pc /\ g.count = f.count
    BY <2>2, Replied
  <2> QED
    BY <2>1, <2>3, BudgetKept DEF Budget, PublicTypes
<1>9. ASSUME NEW f \in asks, Arrives(f) \/ NetworkFails(f) PROVE Budget'
  BY <1>9, EndBudget DEF Arrives, NetworkFails, ShowPhase, serverVars
<1>10. CASE UNCHANGED publicVars
  <2>1. UNCHANGED <<asks, Unanswered, views, given, asked>>
    BY <1>10 DEF publicVars, Unanswered
  <2> QED
    BY <2>1 DEF Budget
<1> QED
  BY <1>1, <1>2, <1>3, <1>4, <1>5, <1>6, <1>7, <1>8, <1>9, <1>10 DEF PublicNext

\* The state keeps its shape: a tab has one request under way, and no view is
\* counted or given out without a request of its own.
THEOREM PublicTypesCorrect == PublicSpec => []PublicTypeOK
<1>1. ASSUME PublicTypes, TabsAsk, Budget PROVE PublicTypeOK
  <2>1. Cardinality(Unanswered) \in Nat
    BY <1>1, WaitingType DEF Budget
  <2>2. views \in 0..MaxAsks /\ given \in views..MaxAsks
    BY <1>1, <2>1, PublicAssumption DEF PublicTypes, Budget
  <2> QED
    BY <1>1, <2>2 DEF PublicTypes, TabsAsk, PublicTypeOK
<1>2. PublicInit => TabsAsk
  BY DEF PublicInit, TabsAsk
<1> QED
  BY InitPublicTypes, NextPublicTypes, <1>2, NextTabsAsk, InitBudget, NextBudget, <1>1, PTL
     DEF PublicSpec
=============================================================================
