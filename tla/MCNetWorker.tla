----------------------------- MODULE MCNetWorker -----------------------------
(* Connection identifiers start at 1, as in addConnection: with two workers  *)
(* 1 and 3 share a worker and 2 has the other one to itself.                 *)
EXTENDS NetWorker

MCConnIds == 1..3
=============================================================================
