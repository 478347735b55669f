----------------------------- MODULE WalletGate -----------------------------
(***************************************************************************)
(* The wallet that opens an organisation's console:                        *)
(*   lib/wallet/wallet-context.tsx, components/auth/wallet-gate.tsx,       *)
(*   lib/chain.ts.                                                         *)
(*                                                                         *)
(* MetaMask is external.  It sends the page one stream of messages, the    *)
(* answers to its requests and the events, and the page takes them in      *)
(* order; what MetaMask is and what the page believes differ while         *)
(* messages are on their way.                                              *)
(***************************************************************************)
EXTENDS Integers, Sequences, SequencesExt

CONSTANTS
    Account,        \* accounts of the wallet
    Chain, ChainId, \* networks, and the one this build publishes to
    Nothing,        \* null
    MaxInbox,       \* bound of the model: messages on their way
    MaxChanges,     \* bound of the model: changes made in MetaMask, reloads
    MaxClicks       \* bound of the model: requests that prompt

ASSUME WalletAssumption ==
    /\ ChainId \in Chain
    /\ Nothing \notin Account \cup Chain \cup {"waits"} /\ "waits" \notin Account \cup Chain
    /\ MaxInbox \in Nat /\ MaxChanges \in Nat /\ MaxClicks \in Nat

VARIABLES
    installed, exposed, onChain, knows, \* MetaMask: is it there, the account this
                                    \* site may see, the network, the networks it has
    inbox,                          \* messages on their way to the page
    hint,                           \* localStorage: connected before
    ready, address, chainId,        \* React state
    detecting,                      \* answers of the mount's two reads
    connecting, switching,          \* what connect and switchNetwork wait for
    gateError,
    changes, clicks,                \* counters behind the bounds
    overtaken,                      \* history: has an event come between the two
                                    \* answers the mount waits for together, or a
                                    \* disconnect between the two of connect?
    unread                          \* history: has the mount's read failed?

metamask == <<installed, exposed, onChain, knows>>
belief   == <<ready, address, chainId, hint>>
walletVars == <<installed, exposed, onChain, knows, inbox, hint, ready, address, chainId,
                detecting, connecting, switching, gateError, changes, clicks, overtaken,
                unread>>

Message == [kind : {"accounts", "chain", "granted", "connectChain", "connectRefused",
                    "switched", "unknownChain", "switchRefused",
                    "accountsChanged", "chainChanged"},
            value : Account \cup Chain \cup {Nothing}]
Msg(k, v) == [kind |-> k, value |-> v]
Waiting == [accounts |-> "waits", chain |-> "waits"]
Done    == [accounts |-> Nothing, chain |-> Nothing]
Detecting == detecting # Done
Idle == [pc |-> "idle", next |-> Nothing]

Tell(m) == Len(inbox) < MaxInbox /\ inbox' = Append(inbox, m)

(***************************************************************************)
(* status, and what the gate shows for it.                                 *)
(***************************************************************************)
Status ==
    CASE ~ready -> "detecting"
      [] ready /\ ~installed -> "unavailable"
      [] ready /\ installed /\ address = Nothing -> "disconnected"
      [] ready /\ installed /\ address # Nothing /\ chainId # ChainId -> "wrong-network"
      [] OTHER -> "connected"

GateOpen == Status = "connected"

(***************************************************************************)
(* Restoring on mount: eth_accounts and eth_chainId together.              *)
(***************************************************************************)
Restore(d) ==
    /\ address' = IF hint /\ d.accounts # Nothing THEN d.accounts ELSE address
    /\ chainId' = d.chain

\* One of the two answers; the second one resolves Promise.all.  What comes after
\* the other has failed is thrown away.
DetectAnswer(field, v) ==
    LET d == [detecting EXCEPT ![field] = v] IN
    \/ /\ Detecting /\ d.accounts # "waits" /\ d.chain # "waits"
       /\ Restore(d) /\ ready' = TRUE /\ detecting' = Done
    \/ /\ Detecting /\ (d.accounts = "waits" \/ d.chain = "waits")
       /\ detecting' = d /\ UNCHANGED <<address, chainId, ready>>
    \/ ~Detecting /\ UNCHANGED <<address, chainId, ready, detecting>>

\* A provider that throws on a read; or there is none.  The mutant sets ready in
\* the then, not in the finally.
SettleOnSuccess == UNCHANGED ready
SettleAlways == ready' = TRUE

DetectFails ==
    /\ Detecting
    /\ detecting' = Done /\ unread' = TRUE /\ SettleAlways
    /\ UNCHANGED <<metamask, inbox, hint, address, chainId, connecting, switching,
                   gateError, changes, clicks, overtaken>>

\* MetaMask answers one of the reads.
ServeDetect(kind) ==
    /\ Detecting /\ installed
    /\ detecting[kind] = "waits"
    /\ \A i \in 1..Len(inbox) : inbox[i].kind # kind
    /\ Tell(Msg(kind, IF kind = "accounts" THEN exposed ELSE onChain))
    /\ UNCHANGED <<metamask, hint, ready, address, chainId, detecting, connecting,
                   switching, gateError, changes, clicks, overtaken, unread>>

\* The provider has said nothing yet to one of the reads.
StillSilent ==
    /\ installed /\ Detecting
    /\ \E kind \in DOMAIN detecting :
          /\ detecting[kind] = "waits"
          /\ \A i \in 1..Len(inbox) : inbox[i].kind # kind

(***************************************************************************)
(* Messages.                                                               *)
(***************************************************************************)
\* accountsChanged: without an account the permission is gone.
OnAccounts(v) == address' = v /\ hint' = (hint /\ v # Nothing)

\* Mutant: chainChanged is not listened to.
OnChainIgnored(v) == UNCHANGED chainId
OnChain(v) == chainId' = v

\* connect's continuation after eth_requestAccounts, then after eth_chainId.
Granted(v) == address' = v /\ connecting' = [pc |-> "chain", next |-> v]
ConnectDone(v) ==
    /\ chainId' = v /\ connecting' = Idle
    /\ hint' = (hint \/ connecting.next # Nothing)

\* The wallet's next message: an answer to the mount, an event, or what the
\* user said to a prompt (4902: the wallet has never heard of the network).
Receive ==
    /\ inbox # <<>>
    /\ inbox' = Tail(inbox)
    /\ LET m == Head(inbox) IN
       \/ /\ m.kind \in {"accounts", "chain"}
          /\ DetectAnswer(m.kind, m.value)
          /\ UNCHANGED <<hint, connecting, switching, gateError, overtaken>>
       \/ /\ m.kind = "accountsChanged"
          /\ OnAccounts(m.value)
          /\ overtaken' = (overtaken \/ (Detecting /\ detecting.accounts # "waits"))
          /\ UNCHANGED <<chainId, ready, detecting, connecting, switching, gateError>>
       \/ /\ m.kind = "chainChanged"
          /\ OnChain(m.value)
          /\ overtaken' = (overtaken \/ (Detecting /\ detecting.chain # "waits"))
          /\ UNCHANGED <<address, hint, ready, detecting, connecting, switching, gateError>>
       \/ /\ m.kind = "granted"
          /\ Granted(m.value)
          /\ UNCHANGED <<chainId, hint, ready, detecting, switching, gateError, overtaken>>
       \/ /\ m.kind = "connectChain"
          /\ ConnectDone(m.value)
          /\ UNCHANGED <<address, ready, detecting, switching, gateError, overtaken>>
       \/ /\ m.kind = "connectRefused"
          /\ connecting' = Idle /\ gateError' = TRUE
          /\ UNCHANGED <<hint, address, chainId, ready, detecting, switching, overtaken>>
       \/ /\ m.kind \in {"switched", "unknownChain", "switchRefused"}
          /\ switching' = IF m.kind = "unknownChain" THEN "adding" ELSE "no"
          /\ gateError' = (gateError \/ m.kind = "switchRefused")
          /\ UNCHANGED <<hint, address, chainId, ready, detecting, connecting, overtaken>>
    /\ UNCHANGED <<metamask, changes, clicks, unread>>

(***************************************************************************)
(* The gate's buttons.                                                     *)
(***************************************************************************)
Connect ==
    /\ Status = "disconnected" /\ connecting = Idle
    /\ clicks < MaxClicks /\ clicks' = clicks + 1
    /\ connecting' = [pc |-> "asking", next |-> Nothing] /\ gateError' = FALSE
    /\ UNCHANGED <<metamask, inbox, hint, ready, address, chainId, detecting, switching,
                   changes, overtaken, unread>>

\* Its button stays enabled; MetaMask refuses a second prompt at once (-32002).
SwitchNetwork ==
    /\ Status = "wrong-network"
    /\ \/ /\ switching = "no" /\ clicks < MaxClicks
          /\ switching' = "asking" /\ gateError' = FALSE /\ clicks' = clicks + 1
       \/ switching # "no" /\ gateError' = TRUE /\ UNCHANGED <<switching, clicks>>
    /\ UNCHANGED <<metamask, inbox, hint, ready, address, chainId, detecting, connecting,
                   changes, overtaken, unread>>

\* "use a different account": local only.
Disconnect ==
    /\ Status = "wrong-network"
    /\ address' = Nothing /\ gateError' = FALSE /\ hint' = FALSE
    /\ overtaken' = (overtaken \/ connecting.pc = "chain")
    /\ UNCHANGED <<metamask, inbox, ready, chainId, detecting, connecting, switching,
                   changes, clicks, unread>>

(***************************************************************************)
(* MetaMask, its user, and the tab (external).                             *)
(***************************************************************************)
Outside == UNCHANGED <<installed, hint, ready, address, chainId, detecting, connecting,
                       switching, gateError, clicks, overtaken, unread>>

SelectAccount(a) ==
    /\ installed /\ exposed # a /\ changes < MaxChanges /\ changes' = changes + 1
    /\ exposed' = a /\ Tell(Msg("accountsChanged", a))
    /\ UNCHANGED <<onChain, knows>> /\ Outside

SelectChain(c) ==
    /\ installed /\ onChain # c /\ c \in knows
    /\ changes < MaxChanges /\ changes' = changes + 1
    /\ onChain' = c /\ Tell(Msg("chainChanged", c))
    /\ UNCHANGED <<exposed, knows>> /\ Outside

AnswerConnect(a) ==
    /\ connecting.pc = "asking"
    /\ \A i \in 1..Len(inbox) : inbox[i].kind \notin {"granted", "connectRefused"}
    /\ exposed' = IF a = Nothing THEN exposed ELSE a
    /\ Tell(IF a = Nothing THEN Msg("connectRefused", Nothing) ELSE Msg("granted", a))
    /\ UNCHANGED <<onChain, knows, changes>> /\ Outside

ServeConnectChain ==
    /\ connecting.pc = "chain"
    /\ \A i \in 1..Len(inbox) : inbox[i].kind \notin {"connectChain", "connectRefused"}
    /\ Tell(Msg("connectChain", onChain)) \/ Tell(Msg("connectRefused", Nothing))
    /\ UNCHANGED <<exposed, onChain, knows, changes>> /\ Outside

AnswerSwitch(yes) ==
    /\ switching # "no"
    /\ \A i \in 1..Len(inbox) :
          inbox[i].kind \notin {"switched", "unknownChain", "switchRefused"}
    /\ CASE switching = "asking" /\ ChainId \notin knows ->
              Tell(Msg("unknownChain", Nothing)) /\ UNCHANGED <<onChain, knows>>
         [] ~yes /\ (switching = "adding" \/ ChainId \in knows) ->
              Tell(Msg("switchRefused", Nothing)) /\ UNCHANGED <<onChain, knows>>
         [] OTHER ->
              /\ onChain' = ChainId /\ knows' = knows \cup {ChainId}
              /\ Len(inbox) + 1 < MaxInbox
              /\ inbox' = Append(IF onChain = ChainId THEN inbox
                                  ELSE Append(inbox, Msg("chainChanged", ChainId)),
                                 Msg("switched", Nothing))
    /\ UNCHANGED <<exposed, changes>> /\ Outside

Reload ==
    /\ changes < MaxChanges /\ changes' = changes + 1
    /\ inbox' = <<>> /\ ready' = FALSE /\ address' = Nothing /\ chainId' = Nothing
    /\ detecting' = Waiting /\ connecting' = Idle /\ switching' = "no"
    /\ gateError' = FALSE /\ overtaken' = FALSE /\ unread' = FALSE
    /\ UNCHANGED <<metamask, hint, clicks>>

WalletInit ==
    /\ installed \in BOOLEAN /\ exposed \in Account \cup {Nothing}
    /\ knows \in {Chain, Chain \ {ChainId}} /\ onChain \in knows
    /\ inbox = <<>> /\ hint \in BOOLEAN
    /\ ready = FALSE /\ address = Nothing /\ chainId = Nothing
    /\ detecting = Waiting /\ connecting = Idle /\ switching = "no"
    /\ gateError = FALSE /\ changes = 0 /\ clicks = 0
    /\ overtaken = FALSE /\ unread = FALSE

WalletNext ==
    \/ DetectFails
    \/ \E kind \in {"accounts", "chain"} : ServeDetect(kind)
    \/ Receive
    \/ Connect \/ SwitchNetwork \/ Disconnect
    \/ \E a \in Account \cup {Nothing} : SelectAccount(a) \/ AnswerConnect(a)
    \/ \E c \in Chain : SelectChain(c)
    \/ ServeConnectChain
    \/ \E yes \in BOOLEAN : AnswerSwitch(yes)
    \/ Reload

\* The page takes what has arrived, and without a provider detect answers null by
\* itself.  Nothing makes a provider answer, a read or a prompt.
WalletFairness == WF_walletVars(Receive) /\ WF_walletVars(~installed /\ DetectFails)

WalletSpec == WalletInit /\ [][WalletNext]_walletVars /\ WalletFairness

-----------------------------------------------------------------------------
\* The shape of the state.
WalletTypeOK ==
    /\ exposed \in Account \cup {Nothing} /\ onChain \in knows /\ knows \subseteq Chain
    /\ inbox \in Seq(Message) /\ Len(inbox) <= MaxInbox
    /\ address \in Account \cup {Nothing} /\ chainId \in Chain \cup {Nothing}
    /\ (Detecting => ~ready) /\ {hint, ready, gateError, overtaken, unread} \subseteq BOOLEAN
    /\ connecting.pc \in {"idle", "asking", "chain"} /\ switching \in {"no", "asking", "adding"}

Quiet == ready /\ inbox = <<>> /\ connecting.pc # "chain" /\ ~overtaken

\* When no message is on its way the page believes what is so: the address it
\* knows is the account MetaMask exposes, the network is MetaMask's, and a
\* browser that remembers having connected is connected again after a reload
\* without a click.  In particular the gate is open for the right network and
\* account only.  An event between the two answers the mount waits for together
\* is overwritten by them, a disconnect between connect's two answers is
\* remembered as a connection, and a failed read restores nothing
\* (wallet-context.tsx:119-185).
BeliefMatches ==
    Quiet =>
        /\ (address # Nothing => address = exposed)
        /\ (hint /\ installed /\ ~unread => address = exposed)
        /\ chainId \in {Nothing, onChain}
        /\ (GateOpen => installed /\ onChain = ChainId)

\* The spinner before the gate goes away: without a provider, with one that throws,
\* and with one that answers, whatever its events.  It stays for ever only for a
\* provider that never answers one of the two reads, for which nothing here has a
\* timeout (wallet-context.tsx:130-156).
DetectSettles == <>[]~ready => <>[]StillSilent
=============================================================================
