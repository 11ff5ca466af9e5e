------------------------------- MODULE EventLoop -------------------------------
(***************************************************************************)
(* The thread that runs event_base_dispatch and the sockets it serves. A   *)
(* socket that listener_read_cb accepts is left in blocking mode, so       *)
(* libevent, which writes all of an output buffer as soon as the socket    *)
(* takes some of it, waits inside that write for the peer to read, and     *)
(* with it wait the callbacks of all other connections. And the signal a   *)
(* write to a connection that the peer has given up raises is not ignored. *)
(*                                                                         *)
(* Requests and replies are counted, not told apart. Each has its own      *)
(* descriptor here: what happens when one is used again is the subject of  *)
(* NetWorkSystem.                                                          *)
(***************************************************************************)
EXTENDS Integers, Sequences

CONSTANTS
  Peers,     \* the connected peers
  Readers,   \* the peers that keep sending and reading until they hang up
  Requests,  \* bound: the number of requests each peer sends
  Capacity   \* replies the buffers of the two kernels hold for a connection

ASSUME Constants ==
  /\ Readers \subseteq Peers
  /\ Requests \in [Peers -> Nat]
  /\ Capacity \in Nat \ {0}
  /\ "loop" \notin Peers /\ "killed" \notin Peers

VARIABLES
  unsent,   \* requests a peer has still to send
  arrived,  \* requests in the socket, not read by the server
  work,     \* requests given to a worker
  output,   \* replies in the output buffer of the bufferevent
  kernel,   \* replies the server has written and the peer has not read
  got,      \* replies the peer has read
  link,     \* what the server's kernel knows of the peer
  erased,   \* eraseConnection was called
  active,   \* the events epoll reported whose callbacks are still to run
  thread,   \* the peer in a write to which the thread waits, "loop" or "killed"
  writing   \* replies that write has still to copy

peerVars == <<unsent, got>>
serverVars == <<work, erased, active>>
vars == <<unsent, arrived, work, output, kernel, got, link, erased, active,
          thread, writing>>

Init ==
  /\ unsent = Requests
  /\ arrived = [p \in Peers |-> 0]
  /\ work = [p \in Peers |-> 0]
  /\ output = [p \in Peers |-> 0]
  /\ kernel = [p \in Peers |-> 0]
  /\ got = [p \in Peers |-> 0]
  /\ link = [p \in Peers |-> "open"]
  /\ erased = [p \in Peers |-> FALSE]
  /\ active = {}
  /\ thread = "loop"
  /\ writing = 0
------------------------------------------------------------------------------
(* The peers and the network *)

Send(p) ==
  /\ link[p] = "open"
  /\ unsent[p] > 0
  /\ unsent' = [unsent EXCEPT ![p] = @ - 1]
  /\ arrived' = [arrived EXCEPT ![p] = @ + 1]
  /\ UNCHANGED <<serverVars, output, kernel, got, link, thread, writing>>

PeerReads(p) ==
  /\ link[p] = "open"
  /\ kernel[p] > 0
  /\ kernel' = [kernel EXCEPT ![p] = @ - 1]
  /\ got' = [got EXCEPT ![p] = @ + 1]
  /\ UNCHANGED <<serverVars, unsent, arrived, output, link, thread, writing>>

\* A peer closes its socket. Replies it had not read make its kernel reset
\* the connection, at once or, if they were still on their way, after the end
\* of the stream: a write to such a connection is a broken pipe.
HangUp(p) ==
  /\ link[p] = "open"
  /\ \E l \in (IF kernel[p] = 0 THEN {"ended"} ELSE {"reset", "broken"}) :
       link' = [link EXCEPT ![p] = l]
  /\ kernel' = [kernel EXCEPT ![p] = 0]
  /\ UNCHANGED <<serverVars, peerVars, arrived, output, thread, writing>>

\* A reply reaches a peer that has closed its socket.
ReplyRefused(p) ==
  /\ link[p] = "ended"
  /\ kernel[p] > 0
  /\ link' = [link EXCEPT ![p] = "broken"]
  /\ kernel' = [kernel EXCEPT ![p] = 0]
  /\ UNCHANGED <<serverVars, peerVars, arrived, output, thread, writing>>
------------------------------------------------------------------------------
(* The main thread *)

GivenUp(p) == link[p] \in {"reset", "broken"}

\* The events epoll reports: there is something to read, be it the end of the
\* stream, or something to write and room for it.
Ready ==
  {<<"read", p>> : p \in {q \in Peers : ~erased[q] /\ (arrived[q] > 0 \/ link[q] # "open")}}
    \cup
  {<<"write", p>> : p \in {q \in Peers : ~erased[q] /\ output[q] > 0
                                          /\ (kernel[q] < Capacity \/ GivenUp(q))}}

Report ==
  /\ thread = "loop"
  /\ active = {}
  /\ Ready # {}
  /\ active' = Ready
  /\ UNCHANGED <<peerVars, arrived, work, output, kernel, link, erased, thread,
                 writing>>

Dispatch(e, p) ==
  /\ thread = "loop"
  /\ <<e, p>> \in active
  /\ active' = active \ {<<e, p>>}

eraseConnection(p) == erased' = [erased EXCEPT ![p] = TRUE]

\* Mutant of ReadRequests: one request is handed over per callback.
ReadOneOfMany(p) ==
  /\ Dispatch("read", p)
  /\ ~erased[p]
  /\ \E n \in 1..arrived[p] :
       /\ arrived' = [arrived EXCEPT ![p] = @ - n]
       /\ work' = [work EXCEPT ![p] = @ + 1]
  /\ UNCHANGED <<peerVars, output, kernel, link, erased, thread, writing>>

\* tcpread_cb: what one recv returned is handed to a worker.
ReadRequests(p) ==
  /\ Dispatch("read", p)
  /\ ~erased[p]
  /\ \E n \in 1..arrived[p] :
       /\ arrived' = [arrived EXCEPT ![p] = @ - n]
       /\ work' = [work EXCEPT ![p] = @ + n]
  /\ UNCHANGED <<peerVars, output, kernel, link, erased, thread, writing>>

\* Mutant of ReadEnd: the end of the stream is not an error.
ReadEndIgnored(p) ==
  /\ Dispatch("read", p)
  /\ erased[p] \/ (arrived[p] = 0 /\ link[p] # "open")
  /\ UNCHANGED <<peerVars, arrived, work, output, kernel, link, erased, thread,
                 writing>>

\* tcperror_cb, for the end of the stream or an error on recv: the connection
\* was reset, or its descriptor closed by a callback of the same round.
ReadEnd(p) ==
  /\ Dispatch("read", p)
  /\ erased[p] \/ (arrived[p] = 0 /\ link[p] # "open")
  /\ eraseConnection(p)
  /\ UNCHANGED <<peerVars, arrived, work, output, kernel, link, thread, writing>>

\* Mutants of Unwritten: what does not fit is thrown away, or what is copied
\* is not removed.
UnwrittenDropped(p, n) == 0
UnwrittenKept(p, n)    == output[p]

\* What is left in the output buffer once n replies are copied.
Unwritten(p, n) == output[p] - n

\* libevent writes the output buffer. The write returns when all of it is
\* copied, at once or, on a socket in blocking mode, when there was room.
WriteOutput(p) ==
  LET room == Capacity - kernel[p]
      n    == IF output[p] <= room THEN output[p] ELSE room
  IN /\ Dispatch("write", p)
     /\ ~erased[p] /\ ~GivenUp(p)
     /\ kernel' = [kernel EXCEPT ![p] = @ + n]
     /\ output' = [output EXCEPT ![p] = Unwritten(p, n)]
     /\ writing' = output[p] - n
     /\ thread' = IF writing' = 0 THEN "loop" ELSE p
     /\ UNCHANGED <<peerVars, arrived, work, link, erased>>

\* The peer has read and the write goes on.
WriteGoesOn(p) ==
  /\ thread = p
  /\ kernel[p] < Capacity /\ ~GivenUp(p)
  /\ kernel' = [kernel EXCEPT ![p] = @ + 1]
  /\ output' = [output EXCEPT ![p] = @ - 1]
  /\ writing' = writing - 1
  /\ thread' = IF writing' = 0 THEN "loop" ELSE p
  /\ UNCHANGED <<serverVars, peerVars, arrived, link>>

\* The connection is given up while the write waits: it returns with what it
\* has copied.
WriteReturnsShort(p) ==
  /\ thread = p
  /\ GivenUp(p)
  /\ thread' = "loop"
  /\ writing' = 0
  /\ UNCHANGED <<serverVars, peerVars, arrived, output, kernel, link>>

\* tcperror_cb, for an error on write: the connection was reset, or its
\* descriptor closed by a callback of the same round.
WriteError(p) ==
  /\ Dispatch("write", p)
  /\ erased[p] \/ link[p] = "reset"
  /\ eraseConnection(p)
  /\ UNCHANGED <<peerVars, arrived, work, output, kernel, link, thread, writing>>

\* A write to a broken pipe raises SIGPIPE, whose default action is not
\* changed anywhere.
BrokenPipe(p) ==
  /\ Dispatch("write", p)
  /\ ~erased[p] /\ link[p] = "broken"
  /\ thread' = "killed"
  /\ UNCHANGED <<peerVars, arrived, work, output, kernel, link, erased, writing>>

MainStep ==
  \/ Report
  \/ \E p \in Peers :
       \/ ReadRequests(p) \/ ReadEnd(p)
       \/ WriteOutput(p) \/ WriteGoesOn(p) \/ WriteReturnsShort(p)
       \/ WriteError(p) \/ BrokenPipe(p)
------------------------------------------------------------------------------
\* A worker handles a request; there is no reply once the connection is erased.
Reply(p) ==
  /\ work[p] > 0
  /\ work' = [work EXCEPT ![p] = @ - 1]
  /\ output' = IF erased[p] THEN output ELSE [output EXCEPT ![p] = @ + 1]
  /\ UNCHANGED <<peerVars, arrived, kernel, link, erased, active, thread, writing>>

Next ==
  /\ thread # "killed"
  /\ \/ MainStep
     \/ \E p \in Peers : \/ Send(p) \/ PeerReads(p) \/ HangUp(p)
                         \/ ReplyRefused(p) \/ Reply(p)

Spec == Init /\ [][Next]_vars

\* The main thread and the workers run and the network delivers; of the
\* peers, only the readers are trusted to go on.
FairSpec ==
  /\ Spec
  /\ WF_vars(thread # "killed" /\ MainStep)
  /\ \A p \in Peers :
       /\ WF_vars(thread # "killed" /\ Reply(p))
       /\ WF_vars(thread # "killed" /\ ReplyRefused(p))
  /\ \A p \in Readers :
       /\ WF_vars(thread # "killed" /\ Send(p))
       /\ WF_vars(thread # "killed" /\ PeerReads(p))
------------------------------------------------------------------------------
TypeOK ==
  /\ unsent \in [Peers -> Nat]
  /\ arrived \in [Peers -> Nat]
  /\ work \in [Peers -> Nat]
  /\ output \in [Peers -> Nat]
  /\ kernel \in [Peers -> 0..Capacity]
  /\ got \in [Peers -> Nat]
  /\ link \in [Peers -> {"open", "ended", "reset", "broken"}]
  /\ erased \in [Peers -> BOOLEAN]
  /\ active \subseteq {"read", "write"} \X Peers
  /\ thread \in Peers \cup {"loop", "killed"}
  /\ writing \in Nat
  /\ thread \in Peers => 0 < writing /\ writing <= output[thread]
  /\ thread \notin Peers => writing = 0

\* Every request is somewhere on its way, or its reply is, until the peer
\* hangs up: a write that waits, and the replies the workers add to the
\* output buffer meanwhile, lose and repeat nothing.
EachAnsweredOnce ==
  \A p \in Peers : link[p] = "open" =>
    unsent[p] + arrived[p] + work[p] + output[p] + kernel[p] + got[p] = Requests[p]

\* A connection is erased only after its peer has hung up, and then either all
\* requests that had arrived were read or the connection was reset: requests
\* that arrived before a reset may be dropped with it, those before the end of
\* the stream and before a broken pipe may not.
ErasedAfterHangUp ==
  \A p \in Peers : erased[p] => link[p] # "open" /\ (arrived[p] = 0 \/ link[p] = "reset")

\* The thread never waits for a peer that has sent no more requests than the
\* kernels' buffers hold replies, however reads, writes and hang-ups fall: it
\* takes a peer that leaves more than that unread to stop the server.
NeverWaitsForFew == thread \in Peers => Requests[thread] > Capacity

\* The abstract specification of what a peer sees, whatever waits and
\* whichever callbacks run first.
Service == INSTANCE EchoService
             WITH asked <- [p \in Peers |-> Requests[p] - unsent[p]],
                  here  <- {p \in Peers : link[p] = "open"}

ServiceSpec == Service!Spec

\* The readers get a reply to each of their requests although the others stop
\* reading or hang up, as long as the replies to those that stop reading fit
\* in the kernels' buffers, unless they hang up or SIGPIPE kills the process.
ReadersServed ==
  \A p \in Readers :
    <>(got[p] = Requests[p] \/ link[p] # "open" \/ thread = "killed")

\* A peer that hangs up is noticed under the same conditions, also one to which
\* the thread is writing.
HangUpNoticed ==
  \A p \in Peers : link[p] # "open" ~> erased[p] \/ thread = "killed"
==============================================================================
