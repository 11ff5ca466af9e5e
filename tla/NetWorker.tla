------------------------------- MODULE NetWorker -------------------------------
(***************************************************************************)
(* The hand-over of messages from the thread of the event loop to the      *)
(* worker threads. Each NetWorker has an in-stream (a list and a counter)  *)
(* and a mutex. The main thread, in pushNodeInStream, appends the messages *)
(* of one connection to the in-stream of worker connId % 2; the worker, in *)
(* popMsgFromInStream, moves the whole in-stream to a local stream, then   *)
(* handles the messages of that one without the mutex.                     *)
(*                                                                         *)
(* The list operations are atomic here and the counter is loaded in one    *)
(* step and stored in the next, so that nothing but the mutex keeps the    *)
(* threads apart. At the end the main thread runs ~NetWorkSystem: for each *)
(* worker it sets m_nShutDown, destroys the in-stream, then joins. A       *)
(* worker that has not seen m_nShutDown goes on with what the destructor   *)
(* left, an empty list and a counter of 0, or faults.                      *)
(***************************************************************************)
EXTENDS Integers, Sequences

CONSTANTS
  NWorkers,   \* size of m_pNetWorkers (2 in the code)
  ConnIds,    \* identifiers of the connections, from addConnection
  MaxMsgs,    \* bound: messages of one connection
  MaxReads    \* bound: read callbacks in a behaviour

ASSUME WorkerCount == NWorkers \in Nat \ {0}
ASSUME Connections == ConnIds \subseteq Nat
ASSUME Bounds == MaxMsgs \in Nat /\ MaxReads \in Nat

Workers == 0..(NWorkers - 1)

\* m_pNetWorkers[connId % 2]
WorkerOf(c) == c % NWorkers

\* A ConMsgNode. seq is the rank of the message in its connection: the
\* program does not keep it, the properties need it.
ConMsgNode == [mConnId : ConnIds, seq : 1..MaxMsgs]

VARIABLES
  reads,     \* read callbacks so far (bounded by MaxReads)
  received,  \* messages completed on each connection
  mainPc,    \* where the main thread is
  target,    \* the worker the main thread is dealing with
  toPush,    \* received nodes of m_listMsgs the callback has still to push
  mainCount, \* m_nCount as loaded by the main thread
  holder,    \* who holds the mutex of each worker
  inList,    \* m_msgInStream.m_listConMsg
  inCount,   \* m_msgInStream.m_nCount
  inAlive,   \* workers whose m_msgInStream has not been destroyed
  shutDown,  \* workers with m_nShutDown set
  workPc,    \* where each worker is
  count,     \* iterations left in the loop of popMsgFromInStream
  workCount, \* m_nCount as loaded by the worker
  batch,     \* the local msgStream of threadWorkFunc
  handled    \* messages passed to handleMsg (history)

mainVars == <<reads, received, mainPc, target, toPush, mainCount>>
streamVars == <<inList, inCount>>
workVars == <<workPc, count, workCount, batch, handled>>
vars == <<mainVars, holder, streamVars, inAlive, shutDown, workVars>>

MainPC == {"dispatch", "lock", "push", "count", "delete", "destroy", "join", "end"}
WorkPC == {"loop", "pop", "lock", "take", "count", "handle", "exited", "fault"}
Holder == {"nobody", "main", "worker", "deleted"}

Init ==
  /\ reads = 0
  /\ received = [c \in ConnIds |-> 0]
  /\ mainPc = "dispatch"
  /\ target = 0
  /\ toPush = <<>>
  /\ mainCount = 0
  /\ holder = [w \in Workers |-> "nobody"]
  /\ inList = [w \in Workers |-> <<>>]
  /\ inCount = [w \in Workers |-> 0]
  /\ inAlive = Workers
  /\ shutDown = {}
  /\ workPc = [w \in Workers |-> "loop"]
  /\ count = [w \in Workers |-> 0]
  /\ workCount = [w \in Workers |-> 0]
  /\ batch = [w \in Workers |-> <<>>]
  /\ handled = [w \in Workers |-> <<>>]
------------------------------------------------------------------------------
(* The main thread *)

\* Mutant of WorkerFor: the work is spread over the workers by turns.
NextWorker(c) == reads % NWorkers

WorkerFor(c) == WorkerOf(c)

\* NetWorkSystem::dealReadEvent on connection c completes n messages and
\* calls pushNodeInStream, even if n is zero.
ReadCallback(c, n) ==
  /\ mainPc = "dispatch"
  /\ reads < MaxReads
  /\ received[c] + n <= MaxMsgs
  /\ reads' = reads + 1
  /\ received' = [received EXCEPT ![c] = @ + n]
  /\ toPush' = [i \in 1..n |-> [mConnId |-> c, seq |-> received[c] + i]]
  /\ target' = WorkerFor(c)
  /\ mainPc' = "lock"
  /\ UNCHANGED <<mainCount, holder, streamVars, inAlive, shutDown, workVars>>

\* The constructor of CLock.
MainLock ==
  /\ mainPc = "lock"
  /\ holder[target] = "nobody"
  /\ holder' = [holder EXCEPT ![target] = "main"]
  /\ mainPc' = "push"
  /\ UNCHANGED <<reads, received, target, toPush, mainCount, streamVars,
                 inAlive, shutDown, workVars>>

\* insertMsgToList: push_back ...
InsertNode ==
  /\ mainPc = "push"
  /\ toPush # <<>>
  /\ inList' = [inList EXCEPT ![target] = Append(@, Head(toPush))]
  /\ toPush' = Tail(toPush)
  /\ mainCount' = inCount[target]
  /\ mainPc' = "count"
  /\ UNCHANGED <<reads, received, target, holder, inCount, inAlive, shutDown,
                 workVars>>

\* ... and m_nCount++.
InsertCount ==
  /\ mainPc = "count"
  /\ inCount' = [inCount EXCEPT ![target] = mainCount + 1]
  /\ mainPc' = "push"
  /\ UNCHANGED <<reads, received, target, toPush, mainCount, holder, inList,
                 inAlive, shutDown, workVars>>

\* Mutant of MainUnlock: pushNodeInStream returns with the mutex held.
MainReturn ==
  /\ mainPc = "push"
  /\ toPush = <<>>
  /\ mainPc' = "dispatch"
  /\ UNCHANGED <<reads, received, target, toPush, mainCount, holder, streamVars,
                 inAlive, shutDown, workVars>>

\* The destructor of CLock.
MainUnlock ==
  /\ mainPc = "push"
  /\ toPush = <<>>
  /\ holder' = [holder EXCEPT ![target] = "nobody"]
  /\ mainPc' = "dispatch"
  /\ UNCHANGED <<reads, received, target, toPush, mainCount, streamVars,
                 inAlive, shutDown, workVars>>

\* The event loop has ended and the singleton is destroyed at exit.
Exit ==
  /\ mainPc = "dispatch"
  /\ mainPc' = "delete"
  /\ target' = 0
  /\ UNCHANGED <<reads, received, toPush, mainCount, holder, streamVars,
                 inAlive, shutDown, workVars>>

\* ~NetWorker.
SetShutDown ==
  /\ mainPc = "delete"
  /\ shutDown' = shutDown \cup {target}
  /\ mainPc' = "destroy"
  /\ UNCHANGED <<reads, received, target, toPush, mainCount, holder,
                 streamVars, inAlive, workVars>>

\* The members of NetWorker are destroyed before ~BaseThread runs.
DestroyInStream ==
  /\ mainPc = "destroy"
  /\ inAlive' = inAlive \ {target}
  /\ inList' = [inList EXCEPT ![target] = <<>>]
  /\ inCount' = [inCount EXCEPT ![target] = 0]
  /\ mainPc' = "join"
  /\ UNCHANGED <<reads, received, target, toPush, mainCount, holder, shutDown,
                 workVars>>

\* ~BaseThread waits for the thread, then the next worker is deleted.
Join ==
  /\ mainPc = "join"
  /\ workPc[target] = "exited"
  /\ \/ target + 1 \in Workers /\ target' = target + 1 /\ mainPc' = "delete"
     \/ target + 1 \notin Workers /\ mainPc' = "end" /\ UNCHANGED target
  /\ UNCHANGED <<reads, received, toPush, mainCount, holder, streamVars,
                 inAlive, shutDown, workVars>>

MainStep ==
  \/ MainLock \/ InsertNode \/ InsertCount \/ MainUnlock
  \/ SetShutDown \/ DestroyInStream \/ Join

MainNext ==
  \/ \E c \in ConnIds, n \in 0..MaxMsgs : ReadCallback(c, n)
  \/ Exit
  \/ MainStep
------------------------------------------------------------------------------
(* Worker w *)

\* Mutant of ThreadLoop: m_nShutDown is looked at in popMsgFromInStream only.
ThreadLoopForever(w) ==
  /\ workPc[w] = "loop"
  /\ workPc' = [workPc EXCEPT ![w] = "pop"]
  /\ UNCHANGED <<mainVars, holder, streamVars, inAlive, shutDown, count,
                 workCount, batch, handled>>

\* The head of the loop of threadWorkFunc. A worker that leaves it deletes
\* its mutex.
ThreadLoop(w) ==
  /\ workPc[w] = "loop"
  /\ IF w \in shutDown
     THEN /\ workPc' = [workPc EXCEPT ![w] = "exited"]
          /\ holder' = [holder EXCEPT ![w] = "deleted"]
     ELSE /\ workPc' = [workPc EXCEPT ![w] = "pop"]
          /\ UNCHANGED holder
  /\ UNCHANGED <<mainVars, streamVars, inAlive, shutDown, count, workCount,
                 batch, handled>>

\* popMsgFromInStream looks at m_nShutDown once more; if it is set there is
\* nothing to handle and threadWorkFunc sleeps.
PopBegin(w) ==
  /\ workPc[w] = "pop"
  /\ workPc' = [workPc EXCEPT ![w] = IF w \in shutDown THEN "loop" ELSE "lock"]
  /\ UNCHANGED <<mainVars, holder, streamVars, inAlive, shutDown, count,
                 workCount, batch, handled>>

\* Mutant of WorkerLock: the stream is emptied without the mutex.
WorkerNoLock(w) ==
  /\ workPc[w] = "lock"
  /\ count' = [count EXCEPT ![w] = inCount[w]]
  /\ workPc' = [workPc EXCEPT ![w] = "take"]
  /\ UNCHANGED <<mainVars, holder, streamVars, inAlive, shutDown, workCount,
                 batch, handled>>

\* The constructor of CLock, and getCount under the mutex.
WorkerLock(w) ==
  /\ workPc[w] = "lock"
  /\ holder[w] = "nobody"
  /\ holder' = [holder EXCEPT ![w] = "worker"]
  /\ count' = [count EXCEPT ![w] = inCount[w]]
  /\ workPc' = [workPc EXCEPT ![w] = "take"]
  /\ UNCHANGED <<mainVars, streamVars, inAlive, shutDown, workCount, batch,
                 handled>>

\* Mutants of MovedTo: the node goes to the front of the local stream, or
\* replaces what it holds.
MovedToFront(w, node) == <<node>> \o batch[w]
MovedOver(w, node) == <<node>>

\* insertMsgToList on the local stream.
MovedTo(w, node) == Append(batch[w], node)

\* popMsgFromList returns false: the in-stream was destroyed after getCount.
PopNothing(w) ==
  /\ workPc[w] = "take"
  /\ count[w] > 0
  /\ inCount[w] = 0
  /\ count' = [count EXCEPT ![w] = @ - 1]
  /\ UNCHANGED <<mainVars, holder, streamVars, inAlive, shutDown, workPc,
                 workCount, batch, handled>>

\* popMsgFromList: front and pop_front; the node goes to the local stream ...
TakeNode(w) ==
  /\ workPc[w] = "take"
  /\ count[w] > 0
  /\ inCount[w] # 0
  /\ inList[w] # <<>>
  /\ batch' = [batch EXCEPT ![w] = MovedTo(w, Head(inList[w]))]
  /\ inList' = [inList EXCEPT ![w] = Tail(@)]
  /\ workCount' = [workCount EXCEPT ![w] = inCount[w]]
  /\ workPc' = [workPc EXCEPT ![w] = "count"]
  /\ UNCHANGED <<mainVars, holder, inCount, inAlive, shutDown, count, handled>>

\* ... and m_nCount--, which may store over the 0 of a destroyed in-stream.
TakeCount(w) ==
  /\ workPc[w] = "count"
  /\ inCount' = [inCount EXCEPT ![w] = workCount[w] - 1]
  /\ count' = [count EXCEPT ![w] = @ - 1]
  /\ workPc' = [workPc EXCEPT ![w] = "take"]
  /\ UNCHANGED <<mainVars, holder, inList, inAlive, shutDown, workCount,
                 batch, handled>>

\* Mutant of WorkerUnlock: without messages the thread leaves its loop.
WorkerUnlockLeaves(w) ==
  /\ workPc[w] = "take"
  /\ count[w] = 0
  /\ IF batch[w] = <<>>
     THEN /\ holder' = [holder EXCEPT ![w] = "deleted"]
          /\ workPc' = [workPc EXCEPT ![w] = "exited"]
     ELSE /\ holder' = [holder EXCEPT ![w] = "nobody"]
          /\ workPc' = [workPc EXCEPT ![w] = "handle"]
  /\ UNCHANGED <<mainVars, streamVars, inAlive, shutDown, count, workCount,
                 batch, handled>>

\* The destructor of CLock. Without messages threadWorkFunc sleeps.
WorkerUnlock(w) ==
  /\ workPc[w] = "take"
  /\ count[w] = 0
  /\ holder' = [holder EXCEPT ![w] = "nobody"]
  /\ workPc' = [workPc EXCEPT ![w] = IF batch[w] = <<>> THEN "loop" ELSE "handle"]
  /\ UNCHANGED <<mainVars, streamVars, inAlive, shutDown, count, workCount,
                 batch, handled>>

\* m_msgHandler.handleMsg on the next message of the local stream.
HandleMsg(w) ==
  /\ workPc[w] = "handle"
  /\ handled' = [handled EXCEPT ![w] = Append(@, Head(batch[w]))]
  /\ batch' = [batch EXCEPT ![w] = Tail(@)]
  /\ workPc' = [workPc EXCEPT ![w] = IF batch'[w] = <<>> THEN "loop" ELSE @]
  /\ UNCHANGED <<mainVars, holder, streamVars, inAlive, shutDown, count,
                 workCount>>

\* The other outcome of each use of a destroyed in-stream, whose list the
\* destructor may be clearing, and the only one of front on an empty list.
Fault(w) ==
  /\ \/ /\ w \notin inAlive
        /\ \/ workPc[w] = "lock" /\ holder[w] = "nobody"
           \/ workPc[w] = "take" /\ count[w] > 0
           \/ workPc[w] = "count"
     \/ workPc[w] = "take" /\ count[w] > 0 /\ inCount[w] # 0 /\ inList[w] = <<>>
  /\ workPc' = [workPc EXCEPT ![w] = "fault"]
  /\ UNCHANGED <<mainVars, holder, streamVars, inAlive, shutDown, count,
                 workCount, batch, handled>>

WorkerStep(w) ==
  \/ ThreadLoop(w) \/ PopBegin(w) \/ WorkerLock(w) \/ PopNothing(w) \/ TakeNode(w)
  \/ TakeCount(w) \/ WorkerUnlock(w) \/ HandleMsg(w) \/ Fault(w)

Next == MainNext \/ \E w \in Workers : WorkerStep(w)

Spec == Init /\ [][Next]_vars

\* Threads that can run do. A worker that finds nothing to do lets go of the
\* mutex and sleeps for two seconds, so the main thread gets it in the end:
\* strong fairness. A worker gets it because the read callbacks come to an
\* end, by MaxReads. Nothing is assumed of the peers.
FairSpec ==
  /\ Spec
  /\ WF_vars(MainStep)
  /\ SF_vars(MainLock)
  /\ \A w \in Workers : WF_vars(WorkerStep(w))
------------------------------------------------------------------------------
TypeOK ==
  /\ reads \in 0..MaxReads
  /\ received \in [ConnIds -> 0..MaxMsgs]
  /\ mainPc \in MainPC
  /\ target \in Workers
  /\ toPush \in Seq(ConMsgNode)
  /\ mainCount \in Nat
  /\ holder \in [Workers -> Holder]
  /\ inList \in [Workers -> Seq(ConMsgNode)]
  /\ inCount \in [Workers -> Nat]
  /\ inAlive \subseteq Workers
  /\ shutDown \subseteq Workers
  /\ workPc \in [Workers -> WorkPC]
  /\ count \in [Workers -> Nat]
  /\ workCount \in [Workers -> Nat]
  /\ batch \in [Workers -> Seq(ConMsgNode)]
  /\ handled \in [Workers -> Seq(ConMsgNode)]

\* Every message given to worker w: handled, in its batch, in its in-stream.
Line(w) == handled[w] \o batch[w] \o inList[w]

\* The messages of a connection go to one worker and are handled in the order
\* in which they were received, without gap or repetition.
InOrder ==
  \A w \in Workers : \A i \in 1..Len(handled[w]) :
    LET m == handled[w][i] IN
      /\ WorkerOf(m.mConnId) = w
      /\ \A j \in 1..(i - 1) :
           handled[w][j].mConnId = m.mConnId => handled[w][j].seq < m.seq
      /\ m.seq > 1 => \E j \in 1..(i - 1) :
           handled[w][j] = [m EXCEPT !.seq = m.seq - 1]

\* No message disappears between the two threads: until the in-stream of its
\* worker is destroyed, each message that was received waits in the callback,
\* in the in-stream or in the batch, or was handled.
NothingLost ==
  \A c \in ConnIds : \A s \in 1..received[c] :
    WorkerOf(c) \in inAlive =>
      LET m == [mConnId |-> c, seq |-> s]
      IN \/ \E i \in 1..Len(toPush) : toPush[i] = m
         \/ \E i \in 1..Len(Line(WorkerOf(c))) : Line(WorkerOf(c))[i] = m

\* Whenever the mutex is free the counter is the length of the list, and a
\* worker that empties the stream never calls front() on an empty list.
CountIsLength ==
  \A w \in inAlive :
    /\ holder[w] = "nobody" => inCount[w] = Len(inList[w])
    /\ workPc[w] = "take" => count[w] <= Len(inList[w])

\* A mutex is deleted by the thread that uses it last: nobody waits for a
\* deleted mutex or unlocks it.
NoUseAfterDelete ==
  \A w \in Workers : holder[w] = "deleted" =>
    /\ workPc[w] = "exited"
    /\ mainPc \in {"lock", "push", "count"} => target # w

\* The abstract specification: a queue per worker.
Queues == INSTANCE WorkQueue
            WITH Messages <- ConMsgNode,
                 queue <- [w \in Workers |-> batch[w] \o inList[w]],
                 served <- handled,
                 open <- inAlive

QueuesSpec == Queues!Spec

\* Each message received is handled, unless its worker is shut down.
EveryMessageHandled ==
  \A c \in ConnIds : \A s \in 1..MaxMsgs :
    received[c] >= s ~>
      \/ WorkerOf(c) \in shutDown
      \/ \E i \in 1..Len(handled[WorkerOf(c)]) :
           handled[WorkerOf(c)][i] = [mConnId |-> c, seq |-> s]

\* The destructor of NetWorkSystem returns, also when a worker goes on with
\* the in-stream that was destroyed under it, unless it faults on that.
ExitEnds ==
  mainPc = "delete" ~> mainPc = "end" \/ \E w \in Workers : workPc[w] = "fault"
==============================================================================
