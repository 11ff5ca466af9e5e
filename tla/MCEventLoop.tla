----------------------------- MODULE MCEventLoop -----------------------------
EXTENDS EventLoop

\* As many requests as the kernels' buffers hold replies for the peer that
\* may stop reading, more for the one that goes on.
MCRequests == [p \in Peers |-> IF p \in Readers THEN Capacity + 1 ELSE Capacity]
=============================================================================
