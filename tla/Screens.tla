------------------------------- MODULE Screens -------------------------------
(***************************************************************************)
(* The screens a person works on, one at a time: the wallet's gate, a form *)
(* behind it, a desk, a public page.  They share no state of their own     *)
(* (that they share is in AuthSession and ConsoleData); a form left while  *)
(* the gate closes or the session ends is Forms's LeaveForm.               *)
(***************************************************************************)
EXTENDS WalletGate, Forms, Desks, PublicPages

VARIABLE screen     \* chosen at the start

vars == <<screen, walletVars, formVars, deskVars, publicVars>>

\* A screen that is not looked at has not been opened: it rests in one state.
Resting ==
    /\ screen # "wallet" =>
          installed /\ ~hint /\ exposed = Nothing /\ onChain = ChainId /\ knows = Chain
    /\ screen # "form" => form = "issue"
    /\ screen # "desk" => desk = "claims"
    /\ screen # "public" => publicPage = "confirm"

Init ==
    /\ screen \in {"wallet", "form", "desk", "public"}
    /\ WalletInit /\ FormsInit /\ DesksInit /\ PublicInit
    /\ Resting

Wallet == screen = "wallet" /\ WalletNext /\ UNCHANGED <<screen, formVars, deskVars, publicVars>>
FormsStep  == screen = "form" /\ FormsNext /\ UNCHANGED <<screen, walletVars, deskVars, publicVars>>
DesksStep  == screen = "desk" /\ DesksNext /\ UNCHANGED <<screen, walletVars, formVars, publicVars>>
PublicStep == screen = "public" /\ PublicNext /\ UNCHANGED <<screen, walletVars, formVars, deskVars>>

Next == Wallet \/ FormsStep \/ DesksStep \/ PublicStep

Spec == Init /\ [][Next]_vars /\ (screen = "wallet" => WalletFairness)

-----------------------------------------------------------------------------
\* The shape of the state of every screen.
TypeOK == WalletTypeOK /\ FormsTypeOK /\ DesksTypeOK /\ PublicTypeOK

\* On the gate: its spinner goes away, unless the provider leaves a read of the
\* mount unanswered for ever (wallet-context.tsx:130-156).
GateSettles == screen = "wallet" => DetectSettles
=============================================================================
