---------------------------- MODULE MCLifecycle ----------------------------
(* Two workers; identifiers 0 to 2 stand for those up to 1024: 0 has a      *)
(* handler, 1 stands for 55 and 77 of the test clients, 2 is the last.      *)
EXTENDS Lifecycle

MCClientIds == {0, 1}
=============================================================================
