--------------------------- MODULE EventLoop_proofs ---------------------------
(***************************************************************************)
(* The safety of the event loop for every number of peers and requests and *)
(* every size of the kernels' buffers.                                     *)
(***************************************************************************)
EXTENDS EventLoop, TLAPS

\* The requests of p that are on their way, and the replies that are.
Count(p) ==
  unsent[p] + arrived[p] + work[p] + output[p] + kernel[p] + got[p]

\* Hanging up and erasing lose requests and replies and never make any: with
\* EachAnsweredOnce, which is about the peers that have not hung up, this
\* bounds what a write can find in an output buffer.
NothingMade == \A p \in Peers : Count(p) <= Requests[p]

IInv == TypeOK /\ EachAnsweredOnce /\ NothingMade /\ ErasedAfterHangUp
          /\ NeverWaitsForFew
------------------------------------------------------------------------------
LEMMA InitInv == Init => IInv
  BY Constants DEF Init, IInv, TypeOK, EachAnsweredOnce, NothingMade, Count,
     ErasedAfterHangUp, NeverWaitsForFew

\* What a write copies at once.
LEMMA CopiedAtOnce ==
  ASSUME TypeOK, NEW p \in Peers, WriteOutput(p)
  PROVE  \E n \in Nat :
           /\ n <= output[p] /\ kernel[p] + n <= Capacity
           /\ n < output[p] => kernel[p] + n = Capacity
           /\ kernel' = [kernel EXCEPT ![p] = @ + n]
           /\ output' = [output EXCEPT ![p] = @ - n]
           /\ writing' = output[p] - n
           /\ thread' = IF writing' = 0 THEN "loop" ELSE p
  <1> DEFINE room == Capacity - kernel[p]
             n == IF output[p] <= room THEN output[p] ELSE room
  <1>1. room \in Nat /\ output[p] \in Nat /\ kernel[p] \in Nat
    BY Constants DEF TypeOK
  <1>2. n \in Nat /\ n <= output[p] /\ kernel[p] + n <= Capacity
          /\ (n < output[p] => kernel[p] + n = Capacity)
    BY <1>1, Constants
  <1>3. /\ kernel' = [kernel EXCEPT ![p] = @ + n]
        /\ output' = [output EXCEPT ![p] = @ - n]
        /\ writing' = output[p] - n
        /\ thread' = IF writing' = 0 THEN "loop" ELSE p
    BY <1>1 DEF WriteOutput, Unwritten, TypeOK
  <1> QED
    BY <1>2, <1>3
------------------------------------------------------------------------------
\* Types are preserved by every step.
LEMMA TypeStep == TypeOK /\ [Next]_vars => TypeOK'
<1> SUFFICES ASSUME TypeOK, [Next]_vars PROVE TypeOK'
  OBVIOUS
<1> USE Constants DEF TypeOK, peerVars, serverVars
<1>1. CASE UNCHANGED vars
  BY <1>1 DEF vars
<1>2. CASE Report
  BY <1>2 DEF Report, Ready
<1>3. ASSUME NEW p \in Peers, Send(p) PROVE TypeOK'
  BY <1>3 DEF Send
<1>4. ASSUME NEW p \in Peers, PeerReads(p) PROVE TypeOK'
  BY <1>4 DEF PeerReads
<1>5. ASSUME NEW p \in Peers, HangUp(p) PROVE TypeOK'
  BY <1>5 DEF HangUp
<1>6. ASSUME NEW p \in Peers, ReplyRefused(p) PROVE TypeOK'
  BY <1>6 DEF ReplyRefused
<1>7. ASSUME NEW p \in Peers, Reply(p) PROVE TypeOK'
  BY <1>7 DEF Reply
<1>8. ASSUME NEW p \in Peers, ReadRequests(p) PROVE TypeOK'
  <2>1. PICK n \in 1..arrived[p] :
          /\ arrived' = [arrived EXCEPT ![p] = @ - n]
          /\ work' = [work EXCEPT ![p] = @ + n]
    BY <1>8 DEF ReadRequests
  <2> QED
    BY <1>8, <2>1 DEF ReadRequests, Dispatch
<1>9. ASSUME NEW p \in Peers, ReadEnd(p) \/ WriteError(p) PROVE TypeOK'
  BY <1>9 DEF ReadEnd, WriteError, eraseConnection, Dispatch
<1>10. ASSUME NEW p \in Peers, WriteOutput(p) PROVE TypeOK'
  <2>1. PICK n \in Nat :
          /\ n <= output[p] /\ kernel[p] + n <= Capacity
          /\ kernel' = [kernel EXCEPT ![p] = @ + n]
          /\ output' = [output EXCEPT ![p] = @ - n]
          /\ writing' = output[p] - n
          /\ thread' = IF writing' = 0 THEN "loop" ELSE p
    BY <1>10, CopiedAtOnce
  <2> QED
    BY <1>10, <2>1 DEF WriteOutput, Dispatch
<1>11. ASSUME NEW p \in Peers, WriteGoesOn(p) PROVE TypeOK'
  BY <1>11 DEF WriteGoesOn
<1>12. ASSUME NEW p \in Peers, WriteReturnsShort(p) PROVE TypeOK'
  BY <1>12 DEF WriteReturnsShort
<1>13. ASSUME NEW p \in Peers, BrokenPipe(p) PROVE TypeOK'
  BY <1>13 DEF BrokenPipe, Dispatch
<1> QED
  BY <1>1, <1>2, <1>3, <1>4, <1>5, <1>6, <1>7, <1>8, <1>9, <1>10, <1>11, <1>12,
     <1>13 DEF Next, MainStep

\* No step makes a request or a reply, and only a hang-up loses one.
LEMMA CountStep ==
  ASSUME TypeOK, [Next]_vars, NEW q \in Peers
  PROVE  /\ Count(q)' <= Count(q)
         /\ link'[q] = "open" => Count(q)' = Count(q) \/ erased[q]
<1> USE Constants DEF TypeOK, peerVars, serverVars, Count
<1>1. CASE UNCHANGED vars
  BY <1>1 DEF vars
<1>2. CASE Report
  BY <1>2 DEF Report
<1>3. ASSUME NEW p \in Peers, Send(p) \/ PeerReads(p)
      PROVE  Count(q)' = Count(q)
  BY <1>3 DEF Send, PeerReads
<1>4. ASSUME NEW p \in Peers, HangUp(p) \/ ReplyRefused(p)
      PROVE  Count(q)' <= Count(q) /\ (link'[q] = "open" => Count(q)' = Count(q))
  <2>1. /\ kernel' = [kernel EXCEPT ![p] = 0]
        /\ \E l \in {"ended", "reset", "broken"} : link' = [link EXCEPT ![p] = l]
        /\ UNCHANGED <<unsent, arrived, work, output, got>>
    BY <1>4 DEF HangUp, ReplyRefused
  <2>2. link'[p] # "open" /\ kernel'[p] = 0
    BY <2>1
  <2>3. q # p => link'[q] = link[q] /\ kernel'[q] = kernel[q]
    BY <2>1
  <2> QED
    BY <2>1, <2>2, <2>3
<1>5. ASSUME NEW p \in Peers, Reply(p)
      PROVE  Count(q)' <= Count(q) /\ (Count(q)' = Count(q) \/ erased[q])
  BY <1>5 DEF Reply
<1>6. ASSUME NEW p \in Peers, ReadRequests(p) PROVE Count(q)' = Count(q)
  <2>1. PICK n \in 1..arrived[p] :
          /\ arrived' = [arrived EXCEPT ![p] = @ - n]
          /\ work' = [work EXCEPT ![p] = @ + n]
    BY <1>6 DEF ReadRequests
  <2> QED
    BY <1>6, <2>1 DEF ReadRequests
<1>7. ASSUME NEW p \in Peers, WriteOutput(p) PROVE Count(q)' = Count(q)
  <2>1. PICK n \in Nat :
          /\ n <= output[p]
          /\ kernel' = [kernel EXCEPT ![p] = @ + n]
          /\ output' = [output EXCEPT ![p] = @ - n]
    BY <1>7, CopiedAtOnce
  <2> QED
    BY <1>7, <2>1 DEF WriteOutput
<1>8. ASSUME NEW p \in Peers, WriteGoesOn(p) PROVE Count(q)' = Count(q)
  BY <1>8 DEF WriteGoesOn
<1>9. ASSUME NEW p \in Peers,
             ReadEnd(p) \/ WriteError(p) \/ WriteReturnsShort(p) \/ BrokenPipe(p)
      PROVE  Count(q)' = Count(q)
  BY <1>9 DEF ReadEnd, WriteError, WriteReturnsShort, BrokenPipe
<1> QED
  BY <1>1, <1>2, <1>3, <1>4, <1>5, <1>6, <1>7, <1>8, <1>9 DEF Next, MainStep

\* A peer that has hung up does not come back, and an erased connection is not
\* read any more.
LEMMA LinkStep ==
  ASSUME TypeOK, ErasedAfterHangUp, [Next]_vars
  PROVE  /\ \A q \in Peers : link'[q] = "open" => link[q] = "open"
         /\ ErasedAfterHangUp'
<1> USE DEF TypeOK, peerVars, serverVars, ErasedAfterHangUp
<1>1. CASE UNCHANGED vars
  BY <1>1 DEF vars
<1>2. CASE Report
  BY <1>2 DEF Report
<1> DEFINE Kept == /\ \A q \in Peers : link'[q] = "open" => link[q] = "open"
                   /\ ErasedAfterHangUp'
<1>3. ASSUME NEW p \in Peers, Send(p) PROVE Kept
  BY <1>3 DEF Send
<1>4. ASSUME NEW p \in Peers, HangUp(p) \/ ReplyRefused(p) PROVE Kept
  BY <1>4 DEF HangUp, ReplyRefused
<1>5. ASSUME NEW p \in Peers, ReadRequests(p) PROVE Kept
  BY <1>5 DEF ReadRequests
<1>6. ASSUME NEW p \in Peers, ReadEnd(p) \/ WriteError(p) PROVE Kept
  BY <1>6 DEF ReadEnd, WriteError, eraseConnection
<1>7. ASSUME NEW p \in Peers,
             PeerReads(p) \/ Reply(p) \/ WriteOutput(p) \/ WriteGoesOn(p)
               \/ WriteReturnsShort(p) \/ BrokenPipe(p)
      PROVE  Kept
  BY <1>7 DEF PeerReads, Reply, WriteOutput, WriteGoesOn, WriteReturnsShort, BrokenPipe
<1> QED
  BY <1>1, <1>2, <1>3, <1>4, <1>5, <1>6, <1>7 DEF Next, MainStep

\* The thread begins to wait only in WriteOutput, which then has filled the
\* buffers and holds more.
LEMMA WaitStep ==
  ASSUME TypeOK, NothingMade, NeverWaitsForFew, [Next]_vars
  PROVE  NeverWaitsForFew'
<1> USE DEF NeverWaitsForFew
<1>1. CASE \E p \in Peers : WriteOutput(p)
  <2>1. PICK p \in Peers : WriteOutput(p)
    BY <1>1
  <2>2. PICK n \in Nat :
          /\ n <= output[p]
          /\ n < output[p] => kernel[p] + n = Capacity
          /\ writing' = output[p] - n
          /\ thread' = IF writing' = 0 THEN "loop" ELSE p
    BY <2>1, CopiedAtOnce
  <2>3. output[p] + kernel[p] <= Requests[p]
    BY Constants DEF NothingMade, Count, TypeOK
  <2>4. thread' \in Peers => thread' = p /\ n < output[p]
    BY <2>2, Constants DEF TypeOK
  <2> QED
    BY <2>2, <2>3, <2>4, Constants DEF TypeOK
<1>2. CASE ~ \E p \in Peers : WriteOutput(p)
  <2>1. thread' = thread \/ thread' \in {"loop", "killed"}
    BY <1>2 DEF Next, MainStep, Report, Send, PeerReads, HangUp, ReplyRefused, Reply,
       ReadRequests, ReadEnd, WriteGoesOn, WriteReturnsShort, WriteError, BrokenPipe, vars
  <2> QED
    BY <2>1, Constants
<1> QED
  BY <1>1, <1>2

LEMMA InvStep == IInv /\ [Next]_vars => IInv'
<1> SUFFICES ASSUME IInv, [Next]_vars PROVE IInv'
  OBVIOUS
<1>1. TypeOK' /\ ErasedAfterHangUp' /\ NeverWaitsForFew'
  BY TypeStep, LinkStep, WaitStep DEF IInv
<1>2. ASSUME NEW q \in Peers
      PROVE  /\ Count(q)' <= Requests[q]
             /\ link'[q] = "open" => Count(q)' = Requests[q]
  <2>1. Count(q) \in Nat /\ Count(q)' \in Nat /\ Requests[q] \in Nat
    BY <1>1, Constants DEF IInv, TypeOK, Count
  <2>2. /\ Count(q)' <= Count(q)
        /\ link'[q] = "open" => Count(q)' = Count(q) \/ erased[q]
    BY CountStep DEF IInv
  <2>3. link'[q] = "open" => link[q] = "open" /\ ~erased[q]
    BY LinkStep DEF IInv, ErasedAfterHangUp
  <2>4. Count(q) <= Requests[q] /\ (link[q] = "open" => Count(q) = Requests[q])
    BY DEF IInv, NothingMade, EachAnsweredOnce, Count
  <2> QED
    BY <2>1, <2>2, <2>3, <2>4
<1>3. NothingMade' /\ EachAnsweredOnce'
  BY <1>2 DEF NothingMade, EachAnsweredOnce, Count
<1> QED
  BY <1>1, <1>3 DEF IInv
------------------------------------------------------------------------------
THEOREM Invariant == Spec => []IInv
<1>1. IInv /\ [Next]_vars => IInv'
  BY InvStep
<1> QED
  BY <1>1, InitInv, PTL DEF Spec

\* Types of the event loop, for every number of peers and requests.
THEOREM TypeCorrect == Spec => []TypeOK
<1>1. IInv => TypeOK
  BY DEF IInv
<1> QED
  BY <1>1, Invariant, PTL

\* No request and no reply of a peer that has not hung up is lost or repeated.
THEOREM AnsweredOnceCorrect == Spec => []EachAnsweredOnce
<1>1. IInv => EachAnsweredOnce
  BY DEF IInv
<1> QED
  BY <1>1, Invariant, PTL

\* A connection is erased once its peer has hung up, and without requests that
\* arrived and were not read unless it was reset.
THEOREM ErasedCorrect == Spec => []ErasedAfterHangUp
<1>1. IInv => ErasedAfterHangUp
  BY DEF IInv
<1> QED
  BY <1>1, Invariant, PTL

\* Only a peer that leaves more replies unread than the kernels' buffers hold
\* can stop the server, for every size of those buffers.
THEOREM WaitCorrect == Spec => []NeverWaitsForFew
<1>1. IInv => NeverWaitsForFew
  BY DEF IInv
<1> QED
  BY <1>1, Invariant, PTL
------------------------------------------------------------------------------
\* The refinement mapping, named for the proof.
Asked == [p \in Peers |-> Requests[p] - unsent[p]]
Here  == {p \in Peers : link[p] = "open"}

LEMMA ServiceInit == Init => Service!Init
  BY Constants DEF Init, Service!Init

\* A peer that reads has asked for more than it has got: the reply it reads is
\* one of those that EachAnsweredOnce counts.
LEMMA ReadStep ==
  ASSUME IInv, NEW p \in Peers, PeerReads(p)
  PROVE  Service!Answer(p)
<1> USE Constants DEF IInv, TypeOK, PeerReads, serverVars
<1>1. got[p] < Asked[p]
  <2>1. unsent[p] + arrived[p] + work[p] + output[p] + kernel[p] + got[p] = Requests[p]
    BY DEF EachAnsweredOnce
  <2> QED
    BY <2>1 DEF Asked
<1>2. Asked' = Asked /\ Here' = Here
  BY DEF Asked, Here
<1>3. p \in Here /\ got' = [got EXCEPT ![p] = @ + 1]
  BY DEF Here
<1> QED
  BY <1>1, <1>2, <1>3 DEF Asked, Here, Service!Answer

LEMMA SendStep ==
  ASSUME IInv, NEW p \in Peers, Send(p)
  PROVE  Service!Ask(p)
<1>1. /\ unsent \in [Peers -> Nat] /\ Requests \in [Peers -> Nat] /\ unsent[p] > 0
      /\ unsent' = [unsent EXCEPT ![p] = @ - 1]
  BY Constants DEF IInv, TypeOK, Send
<1>2. p \in Here /\ Here' = Here /\ got' = got
  BY DEF Here, Send
<1>3. Asked[p] < Requests[p]
  BY <1>1 DEF Asked
<1>4. ASSUME NEW q \in Peers
      PROVE  Requests[q] - unsent'[q] =
               IF q = p THEN Requests[q] - unsent[q] + 1 ELSE Requests[q] - unsent[q]
  BY <1>1
<1>5. Asked' = [Asked EXCEPT ![p] = @ + 1]
  BY <1>4 DEF Asked
<1> QED
  BY <1>2, <1>3, <1>5 DEF Asked, Here, Service!Ask

LEMMA HangUpStep ==
  ASSUME IInv, NEW p \in Peers, HangUp(p)
  PROVE  Service!Leave(p)
<1> USE DEF IInv, TypeOK, HangUp, peerVars
<1>1. p \in Here /\ Asked' = Asked /\ got' = got
  BY DEF Here, Asked
<1>2. PICK l \in {"ended", "reset", "broken"} : link' = [link EXCEPT ![p] = l]
  OBVIOUS
<1>3. Here' = Here \ {p}
  BY <1>2 DEF Here
<1> QED
  BY <1>1, <1>3 DEF Asked, Here, Service!Leave

\* What the server and the network do is not seen by the peers.
LEMMA HiddenStep ==
  ASSUME IInv, Report \/ \E p \in Peers :
           \/ ReplyRefused(p) \/ Reply(p) \/ ReadRequests(p) \/ ReadEnd(p)
           \/ WriteOutput(p) \/ WriteGoesOn(p) \/ WriteReturnsShort(p)
           \/ WriteError(p) \/ BrokenPipe(p)
  PROVE  UNCHANGED <<Asked, got, Here>>
<1>1. unsent' = unsent /\ got' = got
  BY DEF Report, ReplyRefused, Reply, ReadRequests, ReadEnd, WriteOutput, WriteGoesOn,
     WriteReturnsShort, WriteError, BrokenPipe, peerVars
<1>2. Here' = Here
  <2>1. CASE \E p \in Peers : ReplyRefused(p)
    BY <2>1 DEF ReplyRefused, Here, IInv, TypeOK
  <2>2. CASE ~ \E p \in Peers : ReplyRefused(p)
    <3>1. link' = link
      BY <2>2 DEF Report, Reply, ReadRequests, ReadEnd, WriteOutput, WriteGoesOn,
         WriteReturnsShort, WriteError, BrokenPipe
    <3> QED
      BY <3>1 DEF Here
  <2> QED
    BY <2>1, <2>2
<1> QED
  BY <1>1, <1>2 DEF Asked

LEMMA ServiceStep == IInv /\ [Next]_vars => [Service!Next]_(Service!vars)
<1> SUFFICES ASSUME IInv, [Next]_vars PROVE [Service!Next]_(Service!vars)
  OBVIOUS
<1>1. CASE UNCHANGED vars
  BY <1>1 DEF vars, Service!vars
<1>2. ASSUME NEW p \in Peers, Send(p) \/ PeerReads(p) \/ HangUp(p)
      PROVE  Service!Next
  BY <1>2, SendStep, ReadStep, HangUpStep DEF Service!Next
<1>3. CASE Report \/ \E p \in Peers :
        \/ ReplyRefused(p) \/ Reply(p) \/ ReadRequests(p) \/ ReadEnd(p)
        \/ WriteOutput(p) \/ WriteGoesOn(p) \/ WriteReturnsShort(p)
        \/ WriteError(p) \/ BrokenPipe(p)
  BY <1>3, HiddenStep DEF Service!vars, Asked, Here
<1> QED
  BY <1>1, <1>2, <1>3 DEF Next, MainStep

\* The event loop implements the service: a peer that has not hung up gets a
\* reply for each request and none that it has not asked for.
THEOREM Refinement == Spec => ServiceSpec
  BY ServiceInit, ServiceStep, Invariant, PTL DEF Spec, ServiceSpec, Service!Spec
==============================================================================
