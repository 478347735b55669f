---------------------------- MODULE ScreensProofs ----------------------------
(***************************************************************************)
(* Proofs about the wallet's gate, for any accounts, networks, changes in  *)
(* MetaMask and messages on their way; and about the screens together,     *)
(* which keep what each of them is proved to keep.                         *)
(***************************************************************************)
EXTENDS Screens, FormsProofs, DesksProofs, PublicPagesProofs

(***************************************************************************)
(* The gate: what is on its way                                            *)
(***************************************************************************)
AccountEvents == {"accountsChanged", "granted"}
ChainEvents   == {"chainChanged", "connectChain"}
AccountNews   == AccountEvents \cup {"accounts"}
ChainNews     == ChainEvents \cup {"chain"}
ConnectKinds  == {"granted", "connectRefused", "connectChain"}

MaybeAccount == Account \cup {Nothing}

\* Each message carries what its kind is about.
MessageOK(m) ==
    /\ m \in Message
    /\ m.kind \in AccountNews => m.value \in MaybeAccount
    /\ m.kind \in ChainNews => m.value \in Chain

\* No message of the kinds is in the queue; and what none of the events follows
\* there, the last of them included, says v.
NoneComing(q, kinds) == \A i \in 1..Len(q) : q[i].kind \notin kinds
LastSays(q, events, news, v) ==
    \A i \in 1..Len(q) :
        (q[i].kind \in news /\ \A j \in 1..Len(q) : j > i => q[j].kind \notin events)
            => q[i].value = v

\* connect's answers come one at a time, to the step that waits for them.
Expected(kind, pc) ==
    /\ kind = "granted" => pc = "asking"
    /\ kind = "connectChain" => pc = "chain"
    /\ kind = "connectRefused" => pc # "idle"
ConnectOrder(q, pc) ==
    /\ \A i \in 1..Len(q) : Expected(q[i].kind, pc)
    /\ \A i, j \in 1..Len(q) :
          q[i].kind \in ConnectKinds /\ q[j].kind \in ConnectKinds => i = j

\* A queue that brings the page up to date with the account and the network.
Queue(q, pc, account, chain) ==
    /\ q \in Seq(Message) /\ \A i \in 1..Len(q) : MessageOK(q[i])
    /\ ConnectOrder(q, pc)
    /\ LastSays(q, AccountEvents, AccountNews, account)
    /\ LastSays(q, ChainEvents, ChainNews, chain)

LEMMA NoneAppended ==
  ASSUME NEW q \in Seq(Message), NEW m \in Message, NEW kinds
  PROVE  NoneComing(Append(q, m), kinds) <=> NoneComing(q, kinds) /\ m.kind \notin kinds
<1>1. Len(Append(q, m)) = Len(q) + 1 /\ Len(q) \in Nat
  OBVIOUS
<1>2. Append(q, m)[Len(q) + 1] = m /\ \A i \in 1..Len(q) : Append(q, m)[i] = q[i]
  OBVIOUS
<1> QED
  BY <1>1, <1>2 DEF NoneComing

\* News of the value there is, or an event that tells of a new one.
LEMMA SaysAppended ==
  ASSUME NEW q \in Seq(Message), NEW m \in Message, NEW events, NEW news, NEW v, NEW w,
         LastSays(q, events, news, v), events \subseteq news,
         \/ w = v /\ (m.kind \in news => m.value = v)
         \/ m.kind \in events /\ m.value = w
  PROVE  LastSays(Append(q, m), events, news, w)
<1> DEFINE p == Append(q, m)
<1>1. Len(p) = Len(q) + 1 /\ Len(q) \in Nat
  OBVIOUS
<1>2. p[Len(q) + 1] = m /\ \A i \in 1..Len(q) : p[i] = q[i]
  OBVIOUS
<1> HIDE DEF p
<1>3. SUFFICES ASSUME NEW i \in 1..Len(p), p[i].kind \in news,
                      \A j \in 1..Len(p) : j > i => p[j].kind \notin events
               PROVE  p[i].value = w
  BY DEF LastSays, p
<1>4. CASE i = Len(q) + 1
  BY <1>2, <1>3, <1>4
<1>5. CASE i \in 1..Len(q)
  <2>1. m.kind \notin events
    BY <1>1, <1>2, <1>3, <1>5
  <2>2. \A j \in 1..Len(q) : j > i => q[j].kind \notin events
    BY <1>1, <1>2, <1>3
  <2>3. q[i].value = v
    BY <1>2, <1>3, <1>5, <2>2 DEF LastSays
  <2> QED
    BY <1>2, <1>5, <2>1, <2>3
<1> QED
  BY <1>1, <1>4, <1>5

LEMMA QueueAppended ==
  ASSUME NEW q, NEW pc, NEW a, NEW c, Queue(q, pc, a, c),
         NEW m, MessageOK(m), NEW aa, NEW cc,
         m.kind \in ConnectKinds => NoneComing(q, ConnectKinds) /\ Expected(m.kind, pc),
         \/ aa = a /\ (m.kind \in AccountNews => m.value = a)
         \/ m.kind \in AccountEvents /\ m.value = aa,
         \/ cc = c /\ (m.kind \in ChainNews => m.value = c)
         \/ m.kind \in ChainEvents /\ m.value = cc
  PROVE  Queue(Append(q, m), pc, aa, cc)
<1> DEFINE p == Append(q, m)
<1>1. q \in Seq(Message) /\ m \in Message
  BY DEF Queue, MessageOK
<1>2. p \in Seq(Message) /\ Len(p) = Len(q) + 1 /\ Len(q) \in Nat
  BY <1>1
<1>3. p[Len(q) + 1] = m /\ \A i \in 1..Len(q) : p[i] = q[i]
  BY <1>1
<1>4. LastSays(p, AccountEvents, AccountNews, aa)
  <2>1. AccountEvents \subseteq AccountNews /\ LastSays(q, AccountEvents, AccountNews, a)
    BY DEF AccountNews, Queue
  <2> QED
    BY <1>1, <2>1, SaysAppended
<1>5. LastSays(p, ChainEvents, ChainNews, cc)
  <2>1. ChainEvents \subseteq ChainNews /\ LastSays(q, ChainEvents, ChainNews, c)
    BY DEF ChainNews, Queue
  <2> QED
    BY <1>1, <2>1, SaysAppended
<1> HIDE DEF p
<1>6. \A i \in 1..Len(p) : MessageOK(p[i])
  BY <1>2, <1>3 DEF Queue
<1>7. ConnectOrder(p, pc)
  <2>1. Expected(m.kind, pc)
    BY DEF Expected, ConnectKinds
  <2>2. \A i \in 1..Len(p) : Expected(p[i].kind, pc)
    BY <1>2, <1>3, <2>1 DEF Queue, ConnectOrder
  <2>3. ASSUME NEW i \in 1..Len(p), NEW j \in 1..Len(p),
               p[i].kind \in ConnectKinds, p[j].kind \in ConnectKinds
        PROVE  i = j
    <3>1. CASE m.kind \in ConnectKinds
      BY <1>2, <1>3, <2>3, <3>1 DEF NoneComing
    <3>2. CASE m.kind \notin ConnectKinds
      BY <1>2, <1>3, <2>3, <3>2 DEF Queue, ConnectOrder
    <3> QED
      BY <3>1, <3>2
  <2> QED
    BY <2>2, <2>3 DEF ConnectOrder
<1> QED
  BY <1>2, <1>4, <1>5, <1>6, <1>7 DEF Queue, p

LEMMA NoneTaken ==
  ASSUME NEW q \in Seq(Message), q # <<>>, NEW kinds
  PROVE  NoneComing(q, kinds) <=> NoneComing(Tail(q), kinds) /\ Head(q).kind \notin kinds
<1>1. Len(Tail(q)) = Len(q) - 1 /\ Len(q) \in Nat \ {0}
  OBVIOUS
<1>2. Head(q) = q[1] /\ \A i \in 1..Len(Tail(q)) : Tail(q)[i] = q[i + 1]
  OBVIOUS
<1>3. \A i \in 1..Len(q) : i = 1 \/ (i - 1 \in 1..Len(Tail(q)) /\ (i - 1) + 1 = i)
  BY <1>1
<1>4. \A i \in 1..Len(Tail(q)) : i + 1 \in 1..Len(q)
  BY <1>1
<1> QED
  BY <1>1, <1>2, <1>3, <1>4 DEF NoneComing

LEMMA SaysTaken ==
  ASSUME NEW q \in Seq(Message), q # <<>>, NEW events, NEW news, NEW v,
         LastSays(q, events, news, v)
  PROVE  /\ LastSays(Tail(q), events, news, v)
         /\ Head(q).kind \in news /\ NoneComing(Tail(q), events) => Head(q).value = v
<1> DEFINE p == Tail(q)
<1>1. Len(p) = Len(q) - 1 /\ Len(q) \in Nat \ {0}
  OBVIOUS
<1>2. Head(q) = q[1] /\ \A i \in 1..Len(p) : p[i] = q[i + 1]
  OBVIOUS
<1> HIDE DEF p
<1>3. \A j \in 1..Len(q) : j = 1 \/ (j - 1 \in 1..Len(p) /\ p[j - 1] = q[j])
  BY <1>1, <1>2
<1>4. LastSays(p, events, news, v)
  <2>1. SUFFICES ASSUME NEW i \in 1..Len(p), p[i].kind \in news,
                        \A j \in 1..Len(p) : j > i => p[j].kind \notin events
                 PROVE  p[i].value = v
    BY DEF LastSays
  <2>2. i + 1 \in 1..Len(q) /\ p[i] = q[i + 1]
    BY <1>1, <1>2
  <2>3. \A j \in 1..Len(q) : j > i + 1 => q[j].kind \notin events
    BY <1>1, <1>3, <2>1
  <2> QED
    BY <2>1, <2>2, <2>3 DEF LastSays
<1>5. ASSUME Head(q).kind \in news, NoneComing(p, events) PROVE Head(q).value = v
  <2>1. \A j \in 1..Len(q) : j > 1 => q[j].kind \notin events
    BY <1>1, <1>3, <1>5 DEF NoneComing
  <2> QED
    BY <1>1, <1>2, <1>5, <2>1 DEF LastSays
<1> QED
  BY <1>4, <1>5 DEF p

\* Taking a message; one of connect's is the only one, whatever comes next.
LEMMA QueueTaken ==
  ASSUME NEW q, NEW pc, NEW a, NEW c, Queue(q, pc, a, c), q # <<>>, NEW next,
         next = pc \/ Head(q).kind \in ConnectKinds
  PROVE  /\ Queue(Tail(q), next, a, c)
         /\ Len(Tail(q)) = Len(q) - 1
         /\ MessageOK(Head(q)) /\ Expected(Head(q).kind, pc)
         /\ Head(q).kind \in AccountNews /\ NoneComing(Tail(q), AccountEvents) => Head(q).value = a
         /\ Head(q).kind \in ChainNews /\ NoneComing(Tail(q), ChainEvents) => Head(q).value = c
<1> DEFINE p == Tail(q)
<1>1. q \in Seq(Message) /\ p \in Seq(Message)
  BY DEF Queue
<1>2. Len(p) = Len(q) - 1 /\ Len(q) \in Nat \ {0}
  BY <1>1
<1>3. Head(q) = q[1] /\ \A i \in 1..Len(p) : p[i] = q[i + 1] /\ i + 1 \in 1..Len(q)
  BY <1>1, <1>2
<1>4. /\ LastSays(p, AccountEvents, AccountNews, a) /\ LastSays(p, ChainEvents, ChainNews, c)
      /\ Head(q).kind \in AccountNews /\ NoneComing(p, AccountEvents) => Head(q).value = a
      /\ Head(q).kind \in ChainNews /\ NoneComing(p, ChainEvents) => Head(q).value = c
  BY <1>1, SaysTaken DEF Queue
<1> HIDE DEF p
<1>5. 1 \in 1..Len(q)
  BY <1>2
<1>6. MessageOK(Head(q)) /\ Expected(Head(q).kind, pc)
  BY <1>3, <1>5 DEF Queue, ConnectOrder
<1>7. \A i \in 1..Len(p) : MessageOK(p[i])
  BY <1>3 DEF Queue
<1>8. ConnectOrder(p, next)
  <2>1. ASSUME NEW i \in 1..Len(p), NEW j \in 1..Len(p),
               p[i].kind \in ConnectKinds, p[j].kind \in ConnectKinds
        PROVE  i = j
    <3>1. i + 1 = j + 1
      BY <1>3, <2>1 DEF Queue, ConnectOrder
    <3> QED
      BY <3>1
  <2>2. ASSUME NEW i \in 1..Len(p) PROVE Expected(p[i].kind, next)
    <3>1. CASE next = pc
      BY <1>3, <3>1 DEF Queue, ConnectOrder
    <3>2. CASE Head(q).kind \in ConnectKinds
      <4>1. p[i].kind \in ConnectKinds => i + 1 = 1
        BY <1>3, <1>5, <3>2 DEF Queue, ConnectOrder
      <4>2. p[i].kind \notin ConnectKinds
        BY <4>1
      <4> QED
        BY <4>2 DEF Expected, ConnectKinds
    <3> QED
      BY <3>1, <3>2
  <2> QED
    BY <2>1, <2>2 DEF ConnectOrder
<1> QED
  BY <1>1, <1>2, <1>4, <1>6, <1>7, <1>8 DEF Queue, p

(***************************************************************************)
(* The gate: the inductive invariant                                       *)
(***************************************************************************)
OutsideTyped ==
    /\ installed \in BOOLEAN /\ exposed \in MaybeAccount
    /\ onChain \in knows /\ knows \subseteq Chain
    /\ Len(inbox) <= MaxInbox

Detection == [accounts : MaybeAccount \cup {"waits"}, chain : Chain \cup {Nothing, "waits"}]
PageTyped ==
    /\ address \in MaybeAccount /\ chainId \in Chain \cup {Nothing}
    /\ hint \in BOOLEAN /\ ready \in BOOLEAN /\ gateError \in BOOLEAN
    /\ overtaken \in BOOLEAN /\ unread \in BOOLEAN
    /\ detecting \in Detection
    /\ connecting \in [pc : {"idle", "asking", "chain"}, next : MaybeAccount]
    /\ switching \in {"no", "asking", "adding"}

\* The mount waits for an answer as long as it detects, and until then the page
\* asks the wallet for nothing else.
MountFirst ==
    Detecting =>
        /\ ~ready /\ connecting.pc = "idle"
        /\ detecting.accounts = "waits" \/ detecting.chain = "waits"
        /\ detecting.chain # Nothing

\* With no event about the account, or the network, on its way, what the page
\* believes of it, and what it keeps of the mount's first answer, is so.
AccountBelief ==
    NoneComing(inbox, AccountEvents) =>
        /\ address \in {Nothing, exposed}
        /\ connecting.pc = "chain" => address = exposed
        /\ Detecting => detecting.accounts \in {"waits", exposed}
        /\ ready /\ hint /\ installed /\ ~unread => address = exposed
ChainBelief ==
    NoneComing(inbox, ChainEvents) =>
        /\ chainId \in {Nothing, onChain}
        /\ Detecting => detecting.chain \in {"waits", onChain}

Beliefs == ~overtaken => AccountBelief /\ ChainBelief

WalletInv ==
    /\ OutsideTyped /\ PageTyped
    /\ Queue(inbox, connecting.pc, exposed, onChain)
    /\ MountFirst /\ Beliefs

\* The page's own state, in which a message on its way changes nothing.
pageState == <<hint, ready, address, chainId, detecting, connecting, switching, gateError,
               overtaken, unread>>

LEMMA PageStays ==
  ASSUME PageTyped, MountFirst, UNCHANGED pageState
  PROVE  PageTyped' /\ MountFirst'
<1>1. /\ UNCHANGED <<hint, ready, address, chainId, detecting, connecting>>
      /\ UNCHANGED <<switching, gateError, overtaken, unread>>
  BY DEF pageState
<1>2. PageTyped'
  BY <1>1 DEF PageTyped
<1>3. MountFirst'
  BY <1>1 DEF MountFirst, Detecting
<1> QED
  BY <1>2, <1>3

(***************************************************************************)
(* The gate: MetaMask sends                                                *)
(***************************************************************************)
\* A message is sent that tells of what MetaMask changes with it, if anything.
LEMMA MessageSent ==
  ASSUME WalletInv, UNCHANGED <<installed, pageState>>, NEW m, MessageOK(m), Tell(m),
         exposed' \in MaybeAccount, onChain' \in knows', knows' \subseteq Chain,
         m.kind \in ConnectKinds =>
            NoneComing(inbox, ConnectKinds) /\ Expected(m.kind, connecting.pc),
         \/ exposed' = exposed /\ (m.kind \in AccountNews => m.value = exposed)
         \/ m.kind \in AccountEvents /\ m.value = exposed',
         \/ onChain' = onChain /\ (m.kind \in ChainNews => m.value = onChain)
         \/ m.kind \in ChainEvents /\ m.value = onChain'
  PROVE  WalletInv'
<1>1. /\ OutsideTyped /\ PageTyped /\ MountFirst /\ Beliefs
      /\ Queue(inbox, connecting.pc, exposed, onChain)
  BY DEF WalletInv
<1>2. PICK e, c : e = exposed' /\ c = onChain'
  OBVIOUS
<1>3. inbox' = Append(inbox, m) /\ Len(inbox) < MaxInbox /\ inbox \in Seq(Message) /\ m \in Message
  BY <1>1 DEF Tell, Queue, MessageOK
<1>4. Queue(Append(inbox, m), connecting.pc, e, c)
  BY <1>1, <1>2, QueueAppended
<1>5. connecting' = connecting
  BY DEF pageState
<1>6. Queue(inbox, connecting.pc, exposed, onChain)'
  BY <1>2, <1>3, <1>4, <1>5 DEF Queue, LastSays, ConnectOrder
<1>7. OutsideTyped'
  <2>1. Len(inbox') <= MaxInbox
    BY <1>3, WalletAssumption
  <2> QED
    BY <1>1, <2>1 DEF OutsideTyped
<1>8. PageTyped' /\ MountFirst'
  BY <1>1, PageStays
<1>9. Beliefs'
  <2>1. UNCHANGED <<hint, ready, address, chainId, detecting, connecting, overtaken, unread,
                    installed>>
    BY DEF pageState
  <2>2. ASSUME NEW kinds, NoneComing(inbox', kinds)
        PROVE  NoneComing(inbox, kinds) /\ m.kind \notin kinds
    BY <1>3, <2>2, NoneAppended
  <2>3. AccountBelief => AccountBelief'
    <3>1. NoneComing(inbox', AccountEvents) =>
             NoneComing(inbox, AccountEvents) /\ exposed' = exposed
      BY <2>2
    <3> QED
      BY <2>1, <3>1 DEF AccountBelief, Detecting, NoneComing
  <2>4. ChainBelief => ChainBelief'
    <3>1. NoneComing(inbox', ChainEvents) =>
             NoneComing(inbox, ChainEvents) /\ onChain' = onChain
      BY <2>2
    <3> QED
      BY <2>1, <3>1 DEF ChainBelief, Detecting, NoneComing
  <2> QED
    BY <1>1, <2>1, <2>3, <2>4 DEF Beliefs
<1> QED
  BY <1>6, <1>7, <1>8, <1>9 DEF WalletInv

LEMMA ServeDetectSafe ==
  ASSUME WalletInv, NEW kind \in {"accounts", "chain"}, ServeDetect(kind)
  PROVE  WalletInv'
<1> DEFINE m == Msg(kind, IF kind = "accounts" THEN exposed ELSE onChain)
<1>1. Tell(m) /\ UNCHANGED <<installed, exposed, onChain, knows, pageState>>
  BY DEF ServeDetect, metamask, pageState
<1>2. OutsideTyped
  BY DEF WalletInv
<1>3. exposed \in MaybeAccount /\ onChain \in Chain
  BY <1>2 DEF OutsideTyped
<1>4. m.kind = kind /\ m.value = IF kind = "accounts" THEN exposed ELSE onChain
  BY DEF Msg
<1>5. m \in Message
  BY <1>3 DEF Msg, Message, MaybeAccount
<1> HIDE DEF m
<1>6. MessageOK(m) /\ m.kind \notin ConnectKinds
  BY <1>3, <1>4, <1>5 DEF MessageOK, AccountNews, ChainNews, AccountEvents, ChainEvents, ConnectKinds
<1>7. /\ m.kind \in AccountNews => m.value = exposed
      /\ m.kind \in ChainNews => m.value = onChain
  BY <1>4 DEF AccountNews, ChainNews, AccountEvents, ChainEvents
<1> QED
  BY <1>1, <1>2, <1>6, <1>7, MessageSent DEF OutsideTyped

LEMMA SelectSafe ==
  ASSUME WalletInv,
         \/ \E a \in Account \cup {Nothing} : SelectAccount(a)
         \/ \E c \in Chain : SelectChain(c)
  PROVE  WalletInv'
<1>1. OutsideTyped
  BY DEF WalletInv
<1>2. ASSUME NEW a \in Account \cup {Nothing}, SelectAccount(a) PROVE WalletInv'
  <2> DEFINE m == Msg("accountsChanged", a)
  <2>1. Tell(m) /\ exposed' = a /\ UNCHANGED <<installed, onChain, knows, pageState>>
    BY <1>2 DEF SelectAccount, Outside, pageState
  <2>2. m \in Message /\ m.kind = "accountsChanged" /\ m.value = a
    BY DEF Msg, Message
  <2> HIDE DEF m
  <2>3. /\ MessageOK(m) /\ m.kind \notin ConnectKinds /\ m.kind \in AccountEvents
        /\ m.kind \notin ChainNews /\ exposed' \in MaybeAccount
    BY <2>1, <2>2 DEF MessageOK, AccountNews, ChainNews, AccountEvents, ChainEvents,
                      ConnectKinds, MaybeAccount
  <2> QED
    BY <1>1, <2>1, <2>2, <2>3, MessageSent DEF OutsideTyped
<1>3. ASSUME NEW c \in Chain, SelectChain(c) PROVE WalletInv'
  <2> DEFINE m == Msg("chainChanged", c)
  <2>1. /\ Tell(m) /\ onChain' = c /\ c \in knows
        /\ UNCHANGED <<installed, exposed, knows, pageState>>
    BY <1>3 DEF SelectChain, Outside, pageState
  <2>2. m \in Message /\ m.kind = "chainChanged" /\ m.value = c
    BY DEF Msg, Message
  <2> HIDE DEF m
  <2>3. /\ MessageOK(m) /\ m.kind \notin ConnectKinds /\ m.kind \in ChainEvents
        /\ m.kind \notin AccountNews
    BY <2>1, <2>2 DEF MessageOK, AccountNews, ChainNews, AccountEvents, ChainEvents,
                      ConnectKinds
  <2> QED
    BY <1>1, <2>1, <2>2, <2>3, MessageSent DEF OutsideTyped
<1> QED
  BY <1>2, <1>3

LEMMA ConnectAnsweredSafe ==
  ASSUME WalletInv, (\E a \in Account \cup {Nothing} : AnswerConnect(a)) \/ ServeConnectChain
  PROVE  WalletInv'
<1>1. OutsideTyped /\ Queue(inbox, connecting.pc, exposed, onChain)
  BY DEF WalletInv
<1>2. ASSUME \A i \in 1..Len(inbox) : inbox[i].kind \notin {"granted", "connectRefused"},
             connecting.pc = "asking"
      PROVE  NoneComing(inbox, ConnectKinds)
  <2>1. \A i \in 1..Len(inbox) : inbox[i].kind # "connectChain"
    BY <1>1, <1>2 DEF Queue, ConnectOrder, Expected
  <2> QED
    BY <1>2, <2>1 DEF NoneComing, ConnectKinds
<1>3. ASSUME \A i \in 1..Len(inbox) : inbox[i].kind \notin {"connectChain", "connectRefused"},
             connecting.pc = "chain"
      PROVE  NoneComing(inbox, ConnectKinds)
  <2>1. \A i \in 1..Len(inbox) : inbox[i].kind # "granted"
    BY <1>1, <1>3 DEF Queue, ConnectOrder, Expected
  <2> QED
    BY <1>3, <2>1 DEF NoneComing, ConnectKinds
<1>4. ASSUME Tell(Msg("connectRefused", Nothing)), NoneComing(inbox, ConnectKinds),
             connecting.pc # "idle", UNCHANGED <<installed, exposed, onChain, knows, pageState>>
      PROVE  WalletInv'
  <2> DEFINE m == Msg("connectRefused", Nothing)
  <2>1. m \in Message /\ m.kind = "connectRefused"
    BY DEF Msg, Message
  <2> HIDE DEF m
  <2>2. /\ MessageOK(m) /\ m.kind \notin AccountNews /\ m.kind \notin ChainNews
        /\ Expected(m.kind, connecting.pc)
    BY <1>4, <2>1 DEF MessageOK, AccountNews, ChainNews, AccountEvents, ChainEvents, Expected
  <2> QED
    BY <1>1, <1>4, <2>1, <2>2, MessageSent DEF OutsideTyped, m
<1>5. ASSUME NEW a \in Account \cup {Nothing}, AnswerConnect(a) PROVE WalletInv'
  <2>1. /\ connecting.pc = "asking" /\ NoneComing(inbox, ConnectKinds)
        /\ UNCHANGED <<installed, onChain, knows, pageState>>
    BY <1>2, <1>5 DEF AnswerConnect, Outside, pageState
  <2>2. CASE a = Nothing
    BY <1>4, <1>5, <2>1, <2>2 DEF AnswerConnect
  <2>3. CASE a # Nothing
    <3> DEFINE m == Msg("granted", a)
    <3>1. Tell(m) /\ exposed' = a
      BY <1>5, <2>3 DEF AnswerConnect
    <3>2. m \in Message /\ m.kind = "granted" /\ m.value = a
      BY DEF Msg, Message
    <3> HIDE DEF m
    <3>3. /\ MessageOK(m) /\ m.kind \in AccountEvents /\ m.kind \notin ChainNews
          /\ Expected(m.kind, connecting.pc) /\ exposed' \in MaybeAccount
      BY <2>1, <3>1, <3>2 DEF MessageOK, AccountNews, ChainNews, AccountEvents, ChainEvents,
                              Expected, MaybeAccount
    <3> QED
      BY <1>1, <2>1, <3>1, <3>2, <3>3, MessageSent DEF OutsideTyped
  <2> QED
    BY <2>2, <2>3
<1>6. CASE ServeConnectChain
  <2>1. /\ connecting.pc = "chain" /\ NoneComing(inbox, ConnectKinds)
        /\ UNCHANGED <<installed, exposed, onChain, knows, pageState>>
    BY <1>3, <1>6 DEF ServeConnectChain, Outside, pageState
  <2>2. CASE Tell(Msg("connectRefused", Nothing))
    BY <1>4, <2>1, <2>2
  <2>3. CASE Tell(Msg("connectChain", onChain))
    <3> DEFINE m == Msg("connectChain", onChain)
    <3>1. onChain \in Chain
      BY <1>1 DEF OutsideTyped
    <3>2. m \in Message /\ m.kind = "connectChain" /\ m.value = onChain
      BY <3>1 DEF Msg, Message
    <3> HIDE DEF m
    <3>3. /\ MessageOK(m) /\ m.kind \notin AccountNews /\ Expected(m.kind, connecting.pc)
      BY <2>1, <3>1, <3>2 DEF MessageOK, AccountNews, ChainNews, AccountEvents, ChainEvents,
                              Expected
    <3> QED
      BY <1>1, <2>1, <2>3, <3>2, <3>3, MessageSent DEF OutsideTyped, m
  <2> QED
    BY <1>6, <2>2, <2>3 DEF ServeConnectChain
<1> QED
  BY <1>5, <1>6

\* What MetaMask answers to a switch of the network says nothing of where it is.
SwitchKinds == {"switched", "unknownChain", "switchRefused"}

LEMMA SwitchMessage ==
  ASSUME NEW k \in SwitchKinds
  PROVE  /\ MessageOK(Msg(k, Nothing)) /\ Msg(k, Nothing).kind \notin ConnectKinds
         /\ Msg(k, Nothing).kind \notin AccountNews /\ Msg(k, Nothing).kind \notin ChainNews
BY DEF SwitchKinds, Msg, Message, MessageOK, ConnectKinds, AccountNews, ChainNews,
       AccountEvents, ChainEvents

\* The network is switched: the event, if it is another one, and the answer.
LEMMA SwitchedSafe ==
  ASSUME WalletInv, UNCHANGED <<installed, exposed, pageState>>,
         onChain' = ChainId, knows' = knows \cup {ChainId}, Len(inbox) + 1 < MaxInbox,
         inbox' = Append(IF onChain = ChainId THEN inbox
                         ELSE Append(inbox, Msg("chainChanged", ChainId)),
                         Msg("switched", Nothing))
  PROVE  WalletInv'
<1>1. /\ OutsideTyped /\ PageTyped /\ MountFirst /\ Beliefs
      /\ Queue(inbox, connecting.pc, exposed, onChain)
  BY DEF WalletInv
<1>2. onChain' \in knows' /\ knows' \subseteq Chain /\ exposed' \in MaybeAccount
  BY <1>1, WalletAssumption DEF OutsideTyped
<1>3. inbox \in Seq(Message) /\ Len(inbox) \in Nat /\ MaxInbox \in Nat
  BY <1>1, WalletAssumption DEF Queue
<1> DEFINE sw == Msg("switched", Nothing)
           ch == Msg("chainChanged", ChainId)
           mid == Append(inbox, ch)
<1>4. /\ MessageOK(sw) /\ sw.kind \notin ConnectKinds
      /\ sw.kind \notin AccountNews /\ sw.kind \notin ChainNews
  BY SwitchMessage DEF SwitchKinds
<1>5. /\ ch.kind = "chainChanged" /\ ch.value = ChainId /\ ch \in Message
  BY WalletAssumption DEF Msg, Message
<1>6. inbox' = Append(IF onChain = ChainId THEN inbox ELSE mid, sw)
  OBVIOUS
<1> HIDE DEF sw, ch
<1>7. CASE onChain = ChainId
  <2>1. Tell(sw)
    BY <1>3, <1>6, <1>7 DEF Tell
  <2> QED
    BY <1>2, <1>4, <1>7, <2>1, MessageSent
<1>8. CASE onChain # ChainId
  <2>1. /\ MessageOK(ch) /\ ch.kind \notin ConnectKinds /\ ch.kind \in ChainEvents
        /\ ch.kind \notin AccountNews
    BY <1>5, WalletAssumption DEF MessageOK, ConnectKinds, ChainEvents, ChainNews, AccountNews,
                                  AccountEvents
  <2>2. Queue(mid, connecting.pc, exposed, ChainId)
    BY <1>1, <1>5, <2>1, QueueAppended
  <2>3. Queue(Append(mid, sw), connecting.pc, exposed, ChainId)
    BY <1>4, <2>2, QueueAppended
  <2>4. mid \in Seq(Message) /\ Len(mid) = Len(inbox) + 1
    BY <1>3, <1>5
  <2>5. sw \in Message
    BY <1>4 DEF MessageOK
  <2> HIDE DEF mid
  <2>6. inbox' = Append(mid, sw)
    BY <1>6, <1>8
  <2>7. Len(inbox') <= MaxInbox
    BY <1>3, <2>4, <2>5, <2>6
  <2>8. UNCHANGED <<hint, ready, address, chainId, detecting, connecting, overtaken, unread>>
    BY DEF pageState
  <2>9. Queue(inbox, connecting.pc, exposed, onChain)'
    BY <2>3, <2>6, <2>8 DEF Queue, LastSays, ConnectOrder
  <2>10. OutsideTyped'
    BY <1>1, <1>2, <2>7 DEF OutsideTyped
  <2>11. PageTyped' /\ MountFirst'
    BY <1>1, PageStays
  <2>12. ASSUME NEW kinds, NoneComing(inbox', kinds)
         PROVE  NoneComing(inbox, kinds) /\ ch.kind \notin kinds
    <3>1. NoneComing(mid, kinds)
      BY <2>4, <2>5, <2>6, <2>12, NoneAppended
    <3> QED
      BY <1>3, <1>5, <3>1, NoneAppended DEF mid
  <2>13. AccountBelief => AccountBelief'
    <3>1. NoneComing(inbox', AccountEvents) => NoneComing(inbox, AccountEvents)
      BY <2>12
    <3> QED
      BY <2>8, <3>1 DEF AccountBelief, Detecting, NoneComing
  <2>14. ChainBelief'
    <3>1. ~NoneComing(inbox', ChainEvents)
      BY <2>1, <2>12
    <3> QED
      BY <3>1 DEF ChainBelief, NoneComing
  <2>15. Beliefs'
    BY <1>1, <2>8, <2>13, <2>14 DEF Beliefs
  <2> QED
    BY <2>9, <2>10, <2>11, <2>15 DEF WalletInv
<1> QED
  BY <1>7, <1>8

LEMMA AnswerSwitchSafe ==
  ASSUME WalletInv, NEW yes \in BOOLEAN, AnswerSwitch(yes)
  PROVE  WalletInv'
<1>1. UNCHANGED <<installed, exposed, pageState>>
  BY DEF AnswerSwitch, Outside, pageState
<1>2. OutsideTyped
  BY DEF WalletInv
<1>3. ASSUME NEW k \in SwitchKinds, Tell(Msg(k, Nothing)), UNCHANGED <<onChain, knows>>
      PROVE  WalletInv'
  <2> DEFINE m == Msg(k, Nothing)
  <2>1. /\ MessageOK(m) /\ m.kind \notin ConnectKinds
        /\ m.kind \notin AccountNews /\ m.kind \notin ChainNews /\ Tell(m)
    BY <1>3, SwitchMessage
  <2> HIDE DEF m
  <2>2. onChain' \in knows' /\ knows' \subseteq Chain /\ exposed' \in MaybeAccount
    BY <1>1, <1>2, <1>3 DEF OutsideTyped
  <2> QED
    BY <1>1, <1>3, <2>1, <2>2, MessageSent
<1>4. \/ Tell(Msg("unknownChain", Nothing)) /\ UNCHANGED <<onChain, knows>>
      \/ Tell(Msg("switchRefused", Nothing)) /\ UNCHANGED <<onChain, knows>>
      \/ /\ onChain' = ChainId /\ knows' = knows \cup {ChainId}
         /\ Len(inbox) + 1 < MaxInbox
         /\ inbox' = Append(IF onChain = ChainId THEN inbox
                            ELSE Append(inbox, Msg("chainChanged", ChainId)),
                            Msg("switched", Nothing))
  <2>1. CASE switching = "asking" /\ ChainId \notin knows
    BY <2>1 DEF AnswerSwitch
  <2>2. CASE ~yes /\ (switching = "adding" \/ ChainId \in knows)
    BY <2>2 DEF AnswerSwitch
  <2>3. CASE /\ ~(switching = "asking" /\ ChainId \notin knows)
             /\ ~(~yes /\ (switching = "adding" \/ ChainId \in knows))
    BY <2>3 DEF AnswerSwitch
  <2> QED
    BY <2>1, <2>2, <2>3
<1> QED
  BY <1>1, <1>3, <1>4, SwitchedSafe DEF SwitchKinds

(***************************************************************************)
(* The gate: the page takes a message                                      *)
(***************************************************************************)
\* What holds of the queue and of the message whatever the page does with it.
LEMMA MessageTaken ==
  ASSUME WalletInv, inbox # <<>>, inbox' = Tail(inbox), UNCHANGED metamask,
         NEW m, m = Head(inbox),
         connecting'.pc = connecting.pc \/ m.kind \in ConnectKinds
  PROVE  /\ OutsideTyped' /\ Queue(inbox, connecting.pc, exposed, onChain)'
         /\ MessageOK(m) /\ Expected(m.kind, connecting.pc)
         /\ m.kind \in AccountNews /\ NoneComing(inbox', AccountEvents) => m.value = exposed
         /\ m.kind \in ChainNews /\ NoneComing(inbox', ChainEvents) => m.value = onChain
         /\ NoneComing(inbox', AccountEvents) /\ m.kind \notin AccountEvents =>
               NoneComing(inbox, AccountEvents)
         /\ NoneComing(inbox', ChainEvents) /\ m.kind \notin ChainEvents =>
               NoneComing(inbox, ChainEvents)
<1>1. OutsideTyped /\ Queue(inbox, connecting.pc, exposed, onChain)
  BY DEF WalletInv
<1>2. UNCHANGED <<installed, exposed, onChain, knows>>
  BY DEF metamask
<1>3. PICK pc : pc = connecting'.pc
  OBVIOUS
<1>4. /\ Queue(Tail(inbox), pc, exposed, onChain)
      /\ Len(Tail(inbox)) = Len(inbox) - 1
      /\ MessageOK(m) /\ Expected(m.kind, connecting.pc)
      /\ m.kind \in AccountNews /\ NoneComing(Tail(inbox), AccountEvents) => m.value = exposed
      /\ m.kind \in ChainNews /\ NoneComing(Tail(inbox), ChainEvents) => m.value = onChain
  BY <1>1, <1>3, QueueTaken
<1>5. inbox \in Seq(Message) /\ Len(inbox) \in Nat
  BY <1>1 DEF Queue
<1>6. Len(inbox') <= MaxInbox
  BY <1>1, <1>4, <1>5, WalletAssumption DEF OutsideTyped
<1>7. OutsideTyped'
  BY <1>1, <1>2, <1>6 DEF OutsideTyped
<1>8. Queue(inbox, connecting.pc, exposed, onChain)'
  BY <1>2, <1>3, <1>4 DEF Queue, LastSays, ConnectOrder
<1> QED
  BY <1>4, <1>5, <1>7, <1>8, NoneTaken

\* A belief stays when what it is about does.
LEMMA AccountBeliefStays ==
  ASSUME AccountBelief, UNCHANGED <<exposed, installed, address, unread>>,
         NoneComing(inbox', AccountEvents) => NoneComing(inbox, AccountEvents),
         hint' => hint, ready' => ready, connecting' = connecting, detecting' = detecting
  PROVE  AccountBelief'
BY DEF AccountBelief, Detecting, NoneComing

LEMMA ChainBeliefStays ==
  ASSUME ChainBelief, UNCHANGED <<onChain, chainId>>, detecting' = detecting,
         NoneComing(inbox', ChainEvents) => NoneComing(inbox, ChainEvents)
  PROVE  ChainBelief'
BY DEF ChainBelief, Detecting, NoneComing

LEMMA AnswerToMount ==
  ASSUME WalletInv, Receive, NEW m, m = Head(inbox), m.kind \in {"accounts", "chain"},
         DetectAnswer(m.kind, m.value),
         UNCHANGED <<hint, connecting, switching, gateError, overtaken>>
  PROVE  WalletInv'
<1>1. PageTyped /\ MountFirst /\ Beliefs
  BY DEF WalletInv
<1>2. /\ inbox # <<>> /\ inbox' = Tail(inbox) /\ UNCHANGED metamask /\ unread' = unread
      /\ UNCHANGED <<installed, exposed, onChain, knows>>
  BY DEF Receive, metamask
<1>3. /\ OutsideTyped' /\ Queue(inbox, connecting.pc, exposed, onChain)' /\ MessageOK(m)
      /\ m.kind \in AccountNews /\ NoneComing(inbox', AccountEvents) => m.value = exposed
      /\ m.kind \in ChainNews /\ NoneComing(inbox', ChainEvents) => m.value = onChain
      /\ NoneComing(inbox', AccountEvents) /\ m.kind \notin AccountEvents =>
            NoneComing(inbox, AccountEvents)
      /\ NoneComing(inbox', ChainEvents) /\ m.kind \notin ChainEvents =>
            NoneComing(inbox, ChainEvents)
  BY <1>2, MessageTaken
<1>4. m.kind \notin AccountEvents /\ m.kind \notin ChainEvents
  BY DEF AccountEvents, ChainEvents
<1>5. /\ m.kind = "accounts" => m.kind \in AccountNews /\ m.value \in MaybeAccount
      /\ m.kind = "chain" => m.kind \in ChainNews /\ m.value \in Chain
  BY <1>3 DEF MessageOK, AccountNews, ChainNews
<1> DEFINE d == [detecting EXCEPT ![m.kind] = m.value]
<1>6. /\ d \in Detection
      /\ m.kind = "accounts" => d.accounts = m.value /\ d.chain = detecting.chain
      /\ m.kind = "chain" => d.chain = m.value /\ d.accounts = detecting.accounts
  BY <1>1, <1>5 DEF PageTyped, Detection
<1>7. \/ /\ Detecting /\ d.accounts # "waits" /\ d.chain # "waits"
         /\ address' = IF hint /\ d.accounts # Nothing THEN d.accounts ELSE address
         /\ chainId' = d.chain
         /\ ready' = TRUE /\ detecting' = Done
      \/ /\ Detecting /\ (d.accounts = "waits" \/ d.chain = "waits")
         /\ detecting' = d /\ UNCHANGED <<address, chainId, ready>>
      \/ ~Detecting /\ UNCHANGED <<address, chainId, ready, detecting>>
  BY DEF DetectAnswer, Restore
<1> HIDE DEF d
<1>8. CASE ~Detecting /\ UNCHANGED <<address, chainId, ready, detecting>>
  <2>1. PageTyped' /\ MountFirst'
    BY <1>1, <1>2, <1>8, PageStays DEF pageState
  <2>2. AccountBelief => AccountBelief'
    BY <1>2, <1>3, <1>4, <1>8, AccountBeliefStays
  <2>3. ChainBelief => ChainBelief'
    BY <1>2, <1>3, <1>4, <1>8, ChainBeliefStays
  <2> QED
    BY <1>1, <1>3, <2>1, <2>2, <2>3 DEF WalletInv, Beliefs
<1>9. ASSUME Detecting, ~overtaken
      PROVE  /\ NoneComing(inbox', AccountEvents) =>
                   d.accounts \in {"waits", exposed} /\ address \in {Nothing, exposed}
             /\ NoneComing(inbox', ChainEvents) =>
                   d.chain \in {"waits", onChain} /\ chainId \in {Nothing, onChain}
  BY <1>1, <1>3, <1>4, <1>5, <1>6, <1>9 DEF Beliefs, AccountBelief, ChainBelief
<1>10. CASE /\ Detecting /\ (d.accounts = "waits" \/ d.chain = "waits")
            /\ detecting' = d /\ UNCHANGED <<address, chainId, ready>>
  <2>1. PageTyped'
    BY <1>1, <1>2, <1>6, <1>10 DEF PageTyped
  <2>2. d.chain # Nothing
    BY <1>1, <1>5, <1>6, <1>10, WalletAssumption DEF MountFirst
  <2>3. MountFirst'
    BY <1>1, <1>10, <2>2 DEF MountFirst, Detecting
  <2>4. ~ready' /\ connecting'.pc # "chain"
    BY <1>1, <1>10 DEF MountFirst
  <2>5. ~overtaken => AccountBelief' /\ ChainBelief'
    BY <1>2, <1>9, <1>10, <2>4 DEF AccountBelief, ChainBelief, NoneComing
  <2> QED
    BY <1>3, <2>1, <2>3, <2>5 DEF WalletInv, Beliefs
<1>11. CASE /\ Detecting /\ d.accounts # "waits" /\ d.chain # "waits"
            /\ address' = IF hint /\ d.accounts # Nothing THEN d.accounts ELSE address
            /\ chainId' = d.chain
            /\ ready' = TRUE /\ detecting' = Done
  <2>1. d.accounts \in MaybeAccount /\ d.chain \in Chain \cup {Nothing}
    BY <1>6, <1>11 DEF Detection
  <2>2. address' \in MaybeAccount /\ Done \in Detection
    BY <1>1, <1>11, <2>1 DEF PageTyped, Detection, Done, MaybeAccount
  <2>3. PageTyped'
    BY <1>1, <1>2, <1>11, <2>1, <2>2 DEF PageTyped
  <2>4. ~Detecting'
    BY <1>11 DEF Detecting
  <2>5. MountFirst'
    BY <2>4 DEF MountFirst
  <2>6. connecting'.pc # "chain"
    BY <1>1, <1>11 DEF MountFirst
  <2>7. ~overtaken => AccountBelief' /\ ChainBelief'
    <3>1. ASSUME ~overtaken, NoneComing(inbox', AccountEvents)
          PROVE  address' \in {Nothing, exposed} /\ (hint => address' = exposed)
      BY <1>9, <1>11, <3>1
    <3>2. ASSUME ~overtaken, NoneComing(inbox', ChainEvents)
          PROVE  chainId' = onChain
      BY <1>9, <1>11, <3>2
    <3> QED
      BY <1>2, <2>4, <2>6, <3>1, <3>2 DEF AccountBelief, ChainBelief, NoneComing
  <2> QED
    BY <1>3, <2>3, <2>5, <2>7 DEF WalletInv, Beliefs
<1> QED
  BY <1>7, <1>8, <1>10, <1>11

LEMMA EventTaken ==
  ASSUME WalletInv, Receive, NEW m, m = Head(inbox),
         \/ /\ m.kind = "accountsChanged"
            /\ OnAccounts(m.value)
            /\ overtaken' = (overtaken \/ (Detecting /\ detecting.accounts # "waits"))
            /\ UNCHANGED <<chainId, ready, detecting, connecting, switching, gateError>>
         \/ /\ m.kind = "chainChanged"
            /\ OnChain(m.value)
            /\ overtaken' = (overtaken \/ (Detecting /\ detecting.chain # "waits"))
            /\ UNCHANGED <<address, hint, ready, detecting, connecting, switching, gateError>>
  PROVE  WalletInv'
<1>1. PageTyped /\ MountFirst /\ Beliefs
  BY DEF WalletInv
<1>2. /\ inbox # <<>> /\ inbox' = Tail(inbox) /\ UNCHANGED metamask /\ unread' = unread
      /\ UNCHANGED <<installed, exposed, onChain, knows>> /\ connecting' = connecting
  BY DEF Receive, metamask
<1>3. /\ OutsideTyped' /\ Queue(inbox, connecting.pc, exposed, onChain)' /\ MessageOK(m)
      /\ m.kind \in AccountNews /\ NoneComing(inbox', AccountEvents) => m.value = exposed
      /\ m.kind \in ChainNews /\ NoneComing(inbox', ChainEvents) => m.value = onChain
      /\ NoneComing(inbox', AccountEvents) /\ m.kind \notin AccountEvents =>
            NoneComing(inbox, AccountEvents)
      /\ NoneComing(inbox', ChainEvents) /\ m.kind \notin ChainEvents =>
            NoneComing(inbox, ChainEvents)
  BY <1>2, MessageTaken
<1>4. CASE /\ m.kind = "accountsChanged"
           /\ OnAccounts(m.value)
           /\ overtaken' = (overtaken \/ (Detecting /\ detecting.accounts # "waits"))
           /\ UNCHANGED <<chainId, ready, detecting, connecting, switching, gateError>>
  <2>1. address' = m.value /\ hint' \in BOOLEAN /\ (hint' => hint) /\ overtaken' \in BOOLEAN
    BY <1>4 DEF OnAccounts
  <2>2. /\ m.kind \in AccountNews /\ m.kind \notin ChainEvents /\ m.value \in MaybeAccount
    BY <1>3, <1>4 DEF AccountNews, AccountEvents, ChainEvents, MessageOK
  <2>3. PageTyped'
    BY <1>1, <1>2, <1>4, <2>1, <2>2 DEF PageTyped
  <2>4. MountFirst'
    BY <1>1, <1>4 DEF MountFirst, Detecting
  <2>5. ASSUME ~overtaken' PROVE ~overtaken /\ (Detecting => detecting.accounts = "waits")
    BY <1>4, <2>5
  <2>6. ~overtaken' => AccountBelief'
    <3>1. ASSUME ~overtaken', NoneComing(inbox', AccountEvents)
          PROVE  address' = exposed /\ (Detecting' => detecting'.accounts = "waits")
      BY <1>3, <1>4, <2>1, <2>2, <2>5, <3>1 DEF Detecting
    <3> QED
      BY <1>2, <3>1 DEF AccountBelief, NoneComing
  <2>7. ChainBelief => ChainBelief'
    BY <1>2, <1>3, <1>4, <2>2, ChainBeliefStays
  <2> QED
    BY <1>1, <1>3, <2>3, <2>4, <2>5, <2>6, <2>7 DEF WalletInv, Beliefs
<1>5. CASE /\ m.kind = "chainChanged"
           /\ OnChain(m.value)
           /\ overtaken' = (overtaken \/ (Detecting /\ detecting.chain # "waits"))
           /\ UNCHANGED <<address, hint, ready, detecting, connecting, switching, gateError>>
  <2>1. chainId' = m.value /\ overtaken' \in BOOLEAN
    BY <1>5 DEF OnChain
  <2>2. /\ m.kind \in ChainNews /\ m.kind \notin AccountEvents /\ m.value \in Chain
    BY <1>3, <1>5 DEF ChainNews, AccountEvents, ChainEvents, MessageOK
  <2>3. PageTyped'
    BY <1>1, <1>2, <1>5, <2>1, <2>2 DEF PageTyped
  <2>4. MountFirst'
    BY <1>1, <1>5 DEF MountFirst, Detecting
  <2>5. ASSUME ~overtaken' PROVE ~overtaken /\ (Detecting => detecting.chain = "waits")
    BY <1>5, <2>5
  <2>6. ~overtaken' => ChainBelief'
    <3>1. ASSUME ~overtaken', NoneComing(inbox', ChainEvents)
          PROVE  chainId' = onChain /\ (Detecting' => detecting'.chain = "waits")
      BY <1>3, <1>5, <2>1, <2>2, <2>5, <3>1 DEF Detecting
    <3> QED
      BY <1>2, <3>1 DEF ChainBelief, NoneComing
  <2>7. AccountBelief => AccountBelief'
    BY <1>2, <1>3, <1>5, <2>2, AccountBeliefStays
  <2> QED
    BY <1>1, <1>3, <2>3, <2>4, <2>5, <2>6, <2>7 DEF WalletInv, Beliefs
<1> QED
  BY <1>4, <1>5

LEMMA ConnectTaken ==
  ASSUME WalletInv, Receive, NEW m, m = Head(inbox),
         \/ /\ m.kind = "granted"
            /\ Granted(m.value)
            /\ UNCHANGED <<chainId, hint, ready, detecting, switching, gateError, overtaken>>
         \/ /\ m.kind = "connectChain"
            /\ ConnectDone(m.value)
            /\ UNCHANGED <<address, ready, detecting, switching, gateError, overtaken>>
         \/ /\ m.kind = "connectRefused"
            /\ connecting' = Idle /\ gateError' = TRUE
            /\ UNCHANGED <<hint, address, chainId, ready, detecting, switching, overtaken>>
  PROVE  WalletInv'
<1>1. PageTyped /\ MountFirst /\ Beliefs
  BY DEF WalletInv
<1>2. /\ inbox # <<>> /\ inbox' = Tail(inbox) /\ UNCHANGED metamask /\ unread' = unread
      /\ UNCHANGED <<installed, exposed, onChain, knows>>
  BY DEF Receive, metamask
<1>3. m.kind \in ConnectKinds
  BY DEF ConnectKinds
<1>4. /\ OutsideTyped' /\ Queue(inbox, connecting.pc, exposed, onChain)' /\ MessageOK(m)
      /\ Expected(m.kind, connecting.pc)
      /\ m.kind \in AccountNews /\ NoneComing(inbox', AccountEvents) => m.value = exposed
      /\ m.kind \in ChainNews /\ NoneComing(inbox', ChainEvents) => m.value = onChain
      /\ NoneComing(inbox', AccountEvents) /\ m.kind \notin AccountEvents =>
            NoneComing(inbox, AccountEvents)
      /\ NoneComing(inbox', ChainEvents) /\ m.kind \notin ChainEvents =>
            NoneComing(inbox, ChainEvents)
  BY <1>2, <1>3, MessageTaken
<1>5. connecting.pc # "idle" /\ ~Detecting
  BY <1>1, <1>4 DEF Expected, MountFirst
<1>6. Idle \in [pc : {"idle", "asking", "chain"}, next : MaybeAccount] /\ Idle.pc = "idle"
  BY DEF Idle, MaybeAccount
<1>7. MountFirst'
  BY <1>5 DEF MountFirst, Detecting
<1>8. CASE /\ m.kind = "granted"
           /\ Granted(m.value)
           /\ UNCHANGED <<chainId, hint, ready, detecting, switching, gateError, overtaken>>
  <2>1. address' = m.value /\ connecting' = [pc |-> "chain", next |-> m.value]
    BY <1>8 DEF Granted
  <2>2. /\ m.kind \in AccountNews /\ m.kind \notin ChainEvents /\ m.value \in MaybeAccount
    BY <1>4, <1>8 DEF AccountNews, AccountEvents, ChainEvents, MessageOK
  <2>3. PageTyped'
    BY <1>1, <1>2, <1>8, <2>1, <2>2 DEF PageTyped
  <2>4. AccountBelief'
    <3>1. NoneComing(inbox', AccountEvents) => address' = exposed
      BY <1>4, <2>1, <2>2
    <3>2. ~Detecting'
      BY <1>5, <1>8 DEF Detecting
    <3> QED
      BY <1>2, <3>1, <3>2 DEF AccountBelief, NoneComing
  <2>5. ChainBelief => ChainBelief'
    BY <1>2, <1>4, <1>8, <2>2, ChainBeliefStays
  <2> QED
    BY <1>1, <1>4, <1>7, <1>8, <2>3, <2>4, <2>5 DEF WalletInv, Beliefs
<1>9. CASE /\ m.kind = "connectChain"
           /\ ConnectDone(m.value)
           /\ UNCHANGED <<address, ready, detecting, switching, gateError, overtaken>>
  <2>1. chainId' = m.value /\ connecting' = Idle /\ hint' \in BOOLEAN
    BY <1>1, <1>9 DEF ConnectDone, PageTyped
  <2>2. /\ m.kind \in ChainNews /\ m.kind \notin AccountEvents /\ m.value \in Chain
        /\ connecting.pc = "chain"
    BY <1>4, <1>9 DEF ChainNews, AccountEvents, ChainEvents, MessageOK, Expected
  <2>3. PageTyped'
    BY <1>1, <1>2, <1>6, <1>9, <2>1, <2>2 DEF PageTyped
  <2>4. ~Detecting'
    BY <1>5, <1>9 DEF Detecting
  <2>5. AccountBelief => AccountBelief'
    <3>1. AccountBelief /\ NoneComing(inbox', AccountEvents) => address' = exposed
      BY <1>4, <1>9, <2>2 DEF AccountBelief
    <3> QED
      BY <1>2, <2>4, <3>1 DEF AccountBelief, NoneComing
  <2>6. ChainBelief'
    <3>1. NoneComing(inbox', ChainEvents) => chainId' = onChain
      BY <1>4, <2>1, <2>2
    <3> QED
      BY <1>2, <2>4, <3>1 DEF ChainBelief, NoneComing
  <2> QED
    BY <1>1, <1>4, <1>7, <1>9, <2>3, <2>5, <2>6 DEF WalletInv, Beliefs
<1>10. CASE /\ m.kind = "connectRefused"
            /\ connecting' = Idle /\ gateError' = TRUE
            /\ UNCHANGED <<hint, address, chainId, ready, detecting, switching, overtaken>>
  <2>1. m.kind \notin AccountEvents /\ m.kind \notin ChainEvents
    BY <1>10 DEF AccountEvents, ChainEvents
  <2>2. PageTyped'
    BY <1>1, <1>2, <1>6, <1>10 DEF PageTyped
  <2>3. AccountBelief => AccountBelief'
    <3>1. NoneComing(inbox', AccountEvents) => NoneComing(inbox, AccountEvents)
      BY <1>4, <2>1
    <3>2. ~Detecting' /\ connecting'.pc # "chain"
      BY <1>5, <1>6, <1>10 DEF Detecting
    <3> QED
      BY <1>2, <1>10, <3>1, <3>2 DEF AccountBelief, NoneComing
  <2>4. ChainBelief => ChainBelief'
    BY <1>2, <1>4, <1>10, <2>1, ChainBeliefStays
  <2> QED
    BY <1>1, <1>4, <1>7, <1>10, <2>2, <2>3, <2>4 DEF WalletInv, Beliefs
<1> QED
  BY <1>8, <1>9, <1>10

LEMMA SwitchTaken ==
  ASSUME WalletInv, Receive, NEW m, m = Head(inbox),
         m.kind \in {"switched", "unknownChain", "switchRefused"},
         switching' = IF m.kind = "unknownChain" THEN "adding" ELSE "no",
         gateError' = (gateError \/ m.kind = "switchRefused"),
         UNCHANGED <<hint, address, chainId, ready, detecting, connecting, overtaken>>
  PROVE  WalletInv'
<1>1. PageTyped /\ MountFirst /\ Beliefs
  BY DEF WalletInv
<1>2. /\ inbox # <<>> /\ inbox' = Tail(inbox) /\ UNCHANGED metamask /\ unread' = unread
      /\ UNCHANGED <<installed, exposed, onChain, knows>>
  BY DEF Receive, metamask
<1>3. m.kind \notin AccountEvents /\ m.kind \notin ChainEvents
  BY DEF AccountEvents, ChainEvents
<1>4. /\ OutsideTyped' /\ Queue(inbox, connecting.pc, exposed, onChain)'
      /\ NoneComing(inbox', AccountEvents) => NoneComing(inbox, AccountEvents)
      /\ NoneComing(inbox', ChainEvents) => NoneComing(inbox, ChainEvents)
  BY <1>2, <1>3, MessageTaken
<1>5. switching' \in {"no", "asking", "adding"} /\ gateError' \in BOOLEAN
  OBVIOUS
<1>6. PageTyped'
  BY <1>1, <1>2, <1>5 DEF PageTyped
<1>7. MountFirst'
  BY <1>1 DEF MountFirst, Detecting
<1>8. AccountBelief => AccountBelief'
  BY <1>2, <1>4, AccountBeliefStays
<1>9. ChainBelief => ChainBelief'
  BY <1>2, <1>4, ChainBeliefStays
<1> QED
  BY <1>1, <1>4, <1>6, <1>7, <1>8, <1>9 DEF WalletInv, Beliefs

LEMMA ReceiveSafe ==
  ASSUME WalletInv, Receive
  PROVE  WalletInv'
<1>1. PICK m : m = Head(inbox)
  OBVIOUS
<1> QED
  BY <1>1, AnswerToMount, EventTaken, ConnectTaken, SwitchTaken DEF Receive

(***************************************************************************)
(* The gate: the page and the tab                                          *)
(***************************************************************************)
\* The queue and MetaMask stay as they are, and connect's answers still have the
\* step that waits for them.
LEMMA QueueStays ==
  ASSUME WalletInv, UNCHANGED <<metamask, inbox>>,
         connecting'.pc = connecting.pc \/ connecting.pc = "idle"
  PROVE  OutsideTyped' /\ Queue(inbox, connecting.pc, exposed, onChain)'
<1>1. OutsideTyped /\ Queue(inbox, connecting.pc, exposed, onChain)
  BY DEF WalletInv
<1>2. UNCHANGED <<installed, exposed, onChain, knows, inbox>>
  BY DEF metamask
<1>3. ConnectOrder(inbox, connecting.pc) => ConnectOrder(inbox, connecting.pc)'
  <2>1. CASE connecting'.pc = connecting.pc
    BY <1>2, <2>1 DEF ConnectOrder
  <2>2. CASE connecting.pc = "idle"
    BY <1>2, <2>2 DEF ConnectOrder, Expected
  <2> QED
    BY <2>1, <2>2
<1> QED
  BY <1>1, <1>2, <1>3 DEF OutsideTyped, Queue, LastSays

LEMMA DetectFailsSafe ==
  ASSUME WalletInv, DetectFails
  PROVE  WalletInv'
<1>1. PageTyped /\ MountFirst /\ Beliefs
  BY DEF WalletInv
<1>2. /\ Detecting /\ detecting' = Done /\ unread' = TRUE /\ ready' = TRUE
      /\ UNCHANGED <<metamask, inbox, hint, address, chainId, connecting, switching>>
      /\ UNCHANGED <<gateError, overtaken, installed, exposed, onChain, knows>>
  BY DEF DetectFails, SettleAlways, metamask
<1>3. OutsideTyped' /\ Queue(inbox, connecting.pc, exposed, onChain)'
  BY <1>2, QueueStays
<1>4. Done \in Detection
  BY DEF Done, Detection, MaybeAccount
<1>5. PageTyped'
  BY <1>1, <1>2, <1>4 DEF PageTyped
<1>6. ~Detecting'
  BY <1>2 DEF Detecting
<1>7. MountFirst'
  BY <1>6 DEF MountFirst
<1>8. AccountBelief => AccountBelief'
  BY <1>2, <1>6 DEF AccountBelief, NoneComing
<1>9. ChainBelief => ChainBelief'
  BY <1>2, <1>6 DEF ChainBelief, NoneComing
<1> QED
  BY <1>1, <1>2, <1>3, <1>5, <1>7, <1>8, <1>9 DEF WalletInv, Beliefs

LEMMA ConnectSafe ==
  ASSUME WalletInv, Connect
  PROVE  WalletInv'
<1>1. PageTyped /\ MountFirst /\ Beliefs
  BY DEF WalletInv
<1>2. /\ connecting = Idle /\ connecting' = [pc |-> "asking", next |-> Nothing]
      /\ gateError' = FALSE
      /\ UNCHANGED <<metamask, inbox, hint, ready, address, chainId, detecting, switching>>
      /\ UNCHANGED <<overtaken, unread, installed, exposed, onChain, knows>>
  BY DEF Connect, metamask
<1>3. ready
  BY <1>1 DEF Connect, Status, PageTyped
<1>4. ~Detecting
  BY <1>1, <1>3 DEF MountFirst
<1>5. OutsideTyped' /\ Queue(inbox, connecting.pc, exposed, onChain)'
  BY <1>2, QueueStays DEF Idle
<1>6. PageTyped'
  BY <1>1, <1>2 DEF PageTyped, MaybeAccount
<1>7. ~Detecting'
  BY <1>2, <1>4 DEF Detecting
<1>8. MountFirst'
  BY <1>7 DEF MountFirst
<1>9. AccountBelief => AccountBelief'
  BY <1>2, <1>7 DEF AccountBelief, NoneComing
<1>10. ChainBelief => ChainBelief'
  BY <1>2, <1>7 DEF ChainBelief, NoneComing
<1> QED
  BY <1>1, <1>2, <1>5, <1>6, <1>8, <1>9, <1>10 DEF WalletInv, Beliefs

LEMMA SwitchNetworkSafe ==
  ASSUME WalletInv, SwitchNetwork
  PROVE  WalletInv'
<1>1. PageTyped /\ MountFirst /\ Beliefs
  BY DEF WalletInv
<1>2. /\ gateError' \in BOOLEAN /\ (switching' = "asking" \/ switching' = switching)
      /\ UNCHANGED <<metamask, inbox, hint, ready, address, chainId, detecting, connecting>>
      /\ UNCHANGED <<overtaken, unread, installed, exposed, onChain, knows>>
  BY DEF SwitchNetwork, metamask
<1>3. OutsideTyped' /\ Queue(inbox, connecting.pc, exposed, onChain)'
  BY <1>2, QueueStays
<1>4. switching' \in {"no", "asking", "adding"}
  BY <1>1, <1>2 DEF PageTyped
<1>5. PageTyped'
  BY <1>1, <1>2, <1>4 DEF PageTyped
<1>6. MountFirst'
  BY <1>1, <1>2 DEF MountFirst, Detecting
<1>7. AccountBelief => AccountBelief'
  BY <1>2, AccountBeliefStays
<1>8. ChainBelief => ChainBelief'
  BY <1>2, ChainBeliefStays
<1> QED
  BY <1>1, <1>2, <1>3, <1>5, <1>6, <1>7, <1>8 DEF WalletInv, Beliefs

LEMMA DisconnectSafe ==
  ASSUME WalletInv, Disconnect
  PROVE  WalletInv'
<1>1. PageTyped /\ MountFirst /\ Beliefs
  BY DEF WalletInv
<1>2. /\ address' = Nothing /\ gateError' = FALSE /\ hint' = FALSE
      /\ overtaken' = (overtaken \/ connecting.pc = "chain")
      /\ UNCHANGED <<metamask, inbox, ready, chainId, detecting, connecting, switching>>
      /\ UNCHANGED <<unread, installed, exposed, onChain, knows>>
  BY DEF Disconnect, metamask
<1>3. overtaken' \in BOOLEAN
  BY <1>2
<1>4. OutsideTyped' /\ Queue(inbox, connecting.pc, exposed, onChain)'
  BY <1>2, QueueStays
<1>5. PageTyped'
  BY <1>1, <1>2, <1>3 DEF PageTyped, MaybeAccount
<1>6. MountFirst'
  BY <1>1, <1>2 DEF MountFirst, Detecting
<1>7. ~overtaken' => ~overtaken /\ connecting.pc # "chain"
  BY <1>2
<1>8. AccountBelief /\ connecting.pc # "chain" => AccountBelief'
  BY <1>2 DEF AccountBelief, Detecting, NoneComing
<1>9. ChainBelief => ChainBelief'
  BY <1>2, ChainBeliefStays
<1> QED
  BY <1>1, <1>4, <1>5, <1>6, <1>7, <1>8, <1>9 DEF WalletInv, Beliefs

\* A page that has just been loaded believes nothing and expects nothing.
LEMMA LoadedSafe ==
  ASSUME WalletAssumption, installed \in BOOLEAN, exposed \in MaybeAccount,
         onChain \in knows, knows \subseteq Chain, hint \in BOOLEAN,
         inbox = <<>>, ready = FALSE, address = Nothing, chainId = Nothing,
         detecting = Waiting, connecting = Idle, switching = "no",
         gateError = FALSE, overtaken = FALSE, unread = FALSE
  PROVE  WalletInv
<1>1. Len(inbox) = 0 /\ inbox \in Seq(Message)
  OBVIOUS
<1>2. OutsideTyped
  BY <1>1, WalletAssumption DEF OutsideTyped
<1>3. PageTyped
  BY DEF PageTyped, Waiting, Idle, Detection, MaybeAccount
<1>4. Queue(inbox, connecting.pc, exposed, onChain)
  BY <1>1 DEF Queue, ConnectOrder, LastSays
<1>5. MountFirst
  BY WalletAssumption DEF MountFirst, Waiting, Idle
<1>6. Beliefs
  BY DEF Beliefs, AccountBelief, ChainBelief, Waiting, Idle
<1> QED
  BY <1>2, <1>3, <1>4, <1>5, <1>6 DEF WalletInv

LEMMA ReloadSafe ==
  ASSUME WalletInv, Reload
  PROVE  WalletInv'
<1>1. OutsideTyped /\ PageTyped
  BY DEF WalletInv
<1>2. /\ inbox' = <<>> /\ ready' = FALSE /\ address' = Nothing /\ chainId' = Nothing
      /\ detecting' = Waiting /\ connecting' = Idle /\ switching' = "no"
      /\ gateError' = FALSE /\ overtaken' = FALSE /\ unread' = FALSE
      /\ UNCHANGED <<installed, exposed, onChain, knows, hint>>
  BY DEF Reload, metamask
<1>3. Len(inbox') = 0 /\ inbox' \in Seq(Message)
  BY <1>2
<1>4. OutsideTyped'
  BY <1>1, <1>2, <1>3, WalletAssumption DEF OutsideTyped
<1>5. PageTyped'
  BY <1>1, <1>2 DEF PageTyped, Waiting, Idle, Detection, MaybeAccount
<1>6. Queue(inbox, connecting.pc, exposed, onChain)'
  BY <1>3 DEF Queue, ConnectOrder, LastSays
<1>7. MountFirst'
  BY <1>2, WalletAssumption DEF MountFirst, Waiting, Idle
<1>8. Beliefs'
  BY <1>2 DEF Beliefs, AccountBelief, ChainBelief, Waiting, Idle, NoneComing
<1> QED
  BY <1>4, <1>5, <1>6, <1>7, <1>8 DEF WalletInv

LEMMA WalletInitSafe ==
  ASSUME WalletInit
  PROVE  WalletInv
BY WalletAssumption, LoadedSafe DEF WalletInit, MaybeAccount

LEMMA WalletNextSafe ==
  ASSUME WalletInv, [WalletNext]_walletVars
  PROVE  WalletInv'
<1>1. CASE UNCHANGED walletVars
  <2>1. /\ UNCHANGED <<metamask, inbox>> /\ UNCHANGED pageState
        /\ UNCHANGED <<installed, exposed, onChain, hint, ready, address, chainId>>
        /\ UNCHANGED <<detecting, connecting, overtaken, unread>>
    BY <1>1 DEF walletVars, metamask, pageState
  <2>2. OutsideTyped' /\ Queue(inbox, connecting.pc, exposed, onChain)'
    BY <2>1, QueueStays
  <2>3. PageTyped' /\ MountFirst'
    BY <2>1, PageStays DEF WalletInv
  <2>4. Beliefs'
    BY <2>1, AccountBeliefStays, ChainBeliefStays DEF WalletInv, Beliefs
  <2> QED
    BY <2>2, <2>3, <2>4 DEF WalletInv
<1> QED
  BY <1>1, DetectFailsSafe, ServeDetectSafe, ReceiveSafe, ConnectSafe, SwitchNetworkSafe,
     DisconnectSafe, SelectSafe, ConnectAnsweredSafe, AnswerSwitchSafe, ReloadSafe
     DEF WalletNext

LEMMA GateTyped == WalletInv => WalletTypeOK
<1> SUFFICES ASSUME WalletInv PROVE WalletTypeOK
  OBVIOUS
<1>1. OutsideTyped /\ PageTyped /\ MountFirst /\ inbox \in Seq(Message)
  BY DEF WalletInv, Queue
<1> QED
  BY <1>1 DEF OutsideTyped, PageTyped, MountFirst, WalletTypeOK, MaybeAccount

LEMMA GateBelieves == WalletInv => BeliefMatches
<1> SUFFICES ASSUME WalletInv, Quiet PROVE
             /\ address # Nothing => address = exposed
             /\ hint /\ installed /\ ~unread => address = exposed
             /\ chainId \in {Nothing, onChain}
             /\ GateOpen => installed /\ onChain = ChainId
  BY DEF BeliefMatches
<1>1. PageTyped /\ OutsideTyped /\ AccountBelief /\ ChainBelief /\ ready /\ inbox = <<>>
  BY DEF WalletInv, Quiet, Beliefs
<1>2. NoneComing(inbox, AccountEvents) /\ NoneComing(inbox, ChainEvents)
  BY <1>1 DEF NoneComing
<1>3. /\ address \in {Nothing, exposed} /\ chainId \in {Nothing, onChain}
      /\ hint /\ installed /\ ~unread => address = exposed
  BY <1>1, <1>2 DEF AccountBelief, ChainBelief
<1>4. GateOpen => installed /\ address # Nothing /\ chainId = ChainId
  BY <1>1 DEF GateOpen, Status, PageTyped, OutsideTyped
<1> QED
  BY <1>3, <1>4, WalletAssumption

\* Typing of the gate's state: what MetaMask is, the messages on their way, what
\* the page keeps and waits for (wallet-context.tsx).
THEOREM GateTypeCorrect == WalletInit /\ [][WalletNext]_walletVars => []WalletTypeOK
<1>1. WalletInit => WalletInv
  BY WalletInitSafe
<1>2. WalletInv /\ [WalletNext]_walletVars => WalletInv'
  BY WalletNextSafe
<1> QED
  BY <1>1, <1>2, GateTyped, PTL

\* Whatever the order of the wallet's answers and events, a page with no message
\* on its way believes what MetaMask says (wallet-context.tsx:119-185).
THEOREM GateBelievesWhatIsSo ==
  WalletInit /\ [][WalletNext]_walletVars => []BeliefMatches
<1>1. WalletInit => WalletInv
  BY WalletInitSafe
<1>2. WalletInv /\ [WalletNext]_walletVars => WalletInv'
  BY WalletNextSafe
<1> QED
  BY <1>1, <1>2, GateBelieves, PTL

(***************************************************************************)
(* The screens together                                                    *)
(***************************************************************************)
\* A step of one screen is a step of its own specification and none of another.
LEMMA StepOfOne ==
  ASSUME [Next]_vars
  PROVE  /\ [WalletNext]_walletVars /\ [FormsNext]_formVars
         /\ [DesksNext]_deskVars /\ [PublicNext]_publicVars
<1>1. CASE UNCHANGED vars
  BY <1>1 DEF vars
<1>2. CASE Wallet
  BY <1>2 DEF Wallet
<1>3. CASE FormsStep
  BY <1>3 DEF FormsStep
<1>4. CASE DesksStep
  BY <1>4 DEF DesksStep
<1>5. CASE PublicStep
  BY <1>5 DEF PublicStep
<1> QED
  BY <1>1, <1>2, <1>3, <1>4, <1>5 DEF Next

\* Together the screens do what each of them does on its own: what is proved of the
\* gate, the forms, the desks and the public pages is so of all of them.
THEOREM ScreensAreTheirParts ==
  Spec => /\ WalletInit /\ [][WalletNext]_walletVars
          /\ FormsSpec /\ DesksSpec /\ PublicSpec
<1>1. Init => WalletInit /\ FormsInit /\ DesksInit /\ PublicInit
  BY DEF Init
<1>2. [Next]_vars => [WalletNext]_walletVars
  BY StepOfOne
<1>3. [Next]_vars => [FormsNext]_formVars
  BY StepOfOne
<1>4. [Next]_vars => [DesksNext]_deskVars
  BY StepOfOne
<1>5. [Next]_vars => [PublicNext]_publicVars
  BY StepOfOne
<1> QED
  BY <1>1, <1>2, <1>3, <1>4, <1>5, PTL DEF Spec, FormsSpec, DesksSpec, PublicSpec

\* The state of every screen keeps its shape.
THEOREM ScreensTypeCorrect == Spec => []TypeOK
<1>1. WalletTypeOK /\ FormsTypeOK /\ DesksTypeOK /\ PublicTypeOK => TypeOK
  BY DEF TypeOK
<1> QED
  BY <1>1, ScreensAreTheirParts, GateTypeCorrect, FormsTypeCorrect, DesksTypeCorrect,
     PublicTypesCorrect, PTL

\* The screens together keep every safety property of each (every page and panel of
\* src/frontend that is modelled).
THEOREM ScreensKeepTheirWord ==
  Spec => /\ []BeliefMatches
          /\ []SavedIsTold /\ []ErrorIsHonest /\ []ViewIsOfDraft /\ []JobsFitTheConstraint
          /\ WorkKept
          /\ []ReasonIsForIt /\ MovesAreLegal
          /\ []ViewsAsAllowed /\ []OutcomeIsTrue
BY ScreensAreTheirParts, GateBelievesWhatIsSo, FormsSavedIsTold, FormsErrorIsHonest,
   FormsViewIsOfDraft, FormsJobsFit, FormsWorkKept, DesksReasonIsForIt,
   DesksMovesAreLegal, PublicViewsAsAllowed, PublicOutcomeIsTrue, PTL
=============================================================================
