----------------------------- MODULE MCEnvelop ------------------------------
(***************************************************************************)
(* Small instances of Envelop: a red packet and a transfer.                *)
(***************************************************************************)
EXTENDS Envelop

CONSTANTS r1, t1

Envelopes == {r1, t1}
Transfers == {t1}
Reds      == {r1}

\* Operators who cancel only what they see waiting, and red packets only.
WaitingRed == Reds \X {"wait"}

\* A worker may die wherever sending again makes up for it.
Recoverable == {"transfer", "look", "insert"}

\* The statuses cancel_envelop_action selects.
AsCoded == Reds \X {"wait", "confirm", "fail"}
=============================================================================
