------------------------- MODULE MCMsgAsyncPrompter -------------------------
(* Instances of MsgAsyncPrompter for TLC: keys are model values. *)
EXTENDS MsgAsyncPrompter

CONSTANTS k1, k2, k3
=============================================================================
