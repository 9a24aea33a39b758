--------------------------- MODULE MCMsgSendLater ---------------------------
(* Instances of MsgSendLater for TLC: messages are model values. *)
EXTENDS MsgSendLater

CONSTANTS m1, m2, m3
=============================================================================
