---------------------------- MODULE MCClientEcho ----------------------------
(* The head has its real width. The payload is the first bytes of the        *)
(* message of client5 (the tag and the length of the name, and a letter).    *)
EXTENDS ClientEcho

MCPayload == <<10, 17, 110>>
=============================================================================
