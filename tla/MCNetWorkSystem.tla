--------------------------- MODULE MCNetWorkSystem ---------------------------
(* Three connections over two descriptors: at least one descriptor is used   *)
(* twice. Connections 1 and 3 have the same worker.                          *)
EXTENDS NetWorkSystem, TLC

CONSTANTS a1, a2

MCFds == {5, 6}

MCAddrs == {a1, a2}

MCWorkers == {0, 1}

MCWorkerOf(c) == c % 2

Symmetric == Permutations(MCAddrs)
=============================================================================
