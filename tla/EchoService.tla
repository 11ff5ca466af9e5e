------------------------------ MODULE EchoService ------------------------------
(***************************************************************************)
(* What the server promises the peers that are connected to it: each gets  *)
(* one reply for each request, after the request, for as long as it stays. *)
(***************************************************************************)
EXTENDS Integers

CONSTANTS
  Peers,    \* the connected peers
  Requests  \* bound: the number of requests each peer sends

VARIABLES
  asked,  \* requests a peer has sent
  got,    \* replies it has received
  here    \* the peers that have not hung up

vars == <<asked, got, here>>

Init ==
  /\ asked = [p \in Peers |-> 0]
  /\ got = [p \in Peers |-> 0]
  /\ here = Peers

Ask(p) ==
  /\ p \in here
  /\ asked[p] < Requests[p]
  /\ asked' = [asked EXCEPT ![p] = @ + 1]
  /\ UNCHANGED <<got, here>>

Answer(p) ==
  /\ p \in here
  /\ got[p] < asked[p]
  /\ got' = [got EXCEPT ![p] = @ + 1]
  /\ UNCHANGED <<asked, here>>

Leave(p) ==
  /\ p \in here
  /\ here' = here \ {p}
  /\ UNCHANGED <<asked, got>>

Next == \E p \in Peers : Ask(p) \/ Answer(p) \/ Leave(p)

Spec == Init /\ [][Next]_vars
==============================================================================
