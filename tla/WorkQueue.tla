------------------------------ MODULE WorkQueue ------------------------------
(***************************************************************************)
(* What the two threads and the mutex of a NetWorker promise: a queue per  *)
(* worker. A message put in it is served once, after all those put before  *)
(* it. When a queue is closed the messages at its end may be dropped, never *)
(* one that has another, later one served.                                 *)
(***************************************************************************)
EXTENDS Integers, Sequences

CONSTANTS Workers, Messages

VARIABLES
  queue,   \* messages put and not served
  served,  \* messages served, in the order in which they were
  open     \* queues that take more messages

vars == <<queue, served, open>>

Init ==
  /\ queue = [w \in Workers |-> <<>>]
  /\ served = [w \in Workers |-> <<>>]
  /\ open = Workers

Put(w, m) ==
  /\ w \in open
  /\ queue' = [queue EXCEPT ![w] = Append(@, m)]
  /\ UNCHANGED <<served, open>>

Serve(w) ==
  /\ queue[w] # <<>>
  /\ served' = [served EXCEPT ![w] = Append(@, Head(queue[w]))]
  /\ queue' = [queue EXCEPT ![w] = Tail(@)]
  /\ UNCHANGED open

Close(w) ==
  /\ w \in open
  /\ open' = open \ {w}
  /\ \E n \in 0..Len(queue[w]) : queue' = [queue EXCEPT ![w] = SubSeq(@, 1, n)]
  /\ UNCHANGED served

Next == \E w \in Workers : Serve(w) \/ Close(w) \/ \E m \in Messages : Put(w, m)

Spec == Init /\ [][Next]_vars
==============================================================================
