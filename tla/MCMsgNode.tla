------------------------------ MODULE MCMsgNode ------------------------------
(* Unsigned integers of three bits: seven lengths whose terminator has room, *)
(* and the one for which the size wraps to 0.                                *)
EXTENDS MsgNode

MCUIntMod == 2 ^ 3
=============================================================================
