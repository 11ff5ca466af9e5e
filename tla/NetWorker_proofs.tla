--------------------------- MODULE NetWorker_proofs ---------------------------
(***************************************************************************)
(* Theorems about NetWorker: its invariants for every number of workers,   *)
(* connections, messages and read callbacks, and that the threads, the     *)
(* mutex and the counter implement the queues of WorkQueue.                *)
(***************************************************************************)
EXTENDS NetWorker, SequenceTheorems, TLAPS

USE WorkerCount, Connections, Bounds

\* Who holds a mutex, by where the threads are.
LockInv ==
  \A w \in Workers :
    /\ holder[w] = "main" <=> mainPc \in {"push", "count"} /\ target = w
    /\ workPc[w] \in {"take", "count"} => holder[w] = "worker"
    /\ holder[w] = "worker" => workPc[w] \in {"take", "count", "fault"}
    /\ holder[w] = "deleted" <=> workPc[w] = "exited"

\* How far the destruction of the workers has come.
LifeInv ==
  /\ mainPc \in {"dispatch", "lock", "push", "count"} =>
       inAlive = Workers /\ shutDown = {}
  /\ mainPc \in {"delete", "destroy"} =>
       \A w \in Workers : w >= target => w \in inAlive
  /\ mainPc = "join" => \A w \in Workers : w > target => w \in inAlive
  /\ \A w \in Workers :
       /\ workPc[w] = "exited" => w \in shutDown
       /\ workPc[w] = "fault" => w \notin inAlive

\* Counter and list, at each point of the thread that holds the mutex.
StreamOf(w) ==
  /\ w \in inAlive =>
       /\ holder[w] = "nobody" => inCount[w] = Len(inList[w])
       /\ mainPc = "push" /\ target = w => inCount[w] = Len(inList[w])
       /\ mainPc = "count" /\ target = w =>
            mainCount = inCount[w] /\ inCount[w] + 1 = Len(inList[w])
       /\ workPc[w] = "take" =>
            inCount[w] = Len(inList[w]) /\ count[w] = inCount[w]
       /\ workPc[w] = "count" =>
            /\ inCount[w] = Len(inList[w]) + 1
            /\ count[w] = inCount[w] /\ workCount[w] = inCount[w]
  /\ w \notin inAlive => inList[w] = <<>>
  /\ workPc[w] = "count" => workCount[w] > 0 /\ count[w] > 0
  /\ workPc[w] = "handle" => batch[w] # <<>>

StreamInv == \A w \in Workers : StreamOf(w)

IInv == TypeOK /\ LockInv /\ LifeInv /\ StreamInv
------------------------------------------------------------------------------
LEMMA WorkersType == Workers \subseteq Nat /\ 0 \in Workers
BY DEF Workers

\* The worker of a connection is one of the workers.
LEMMA WorkerOfType ==
  ASSUME NEW c \in ConnIds
  PROVE  WorkerOf(c) \in Workers
BY DEF WorkerOf, Workers

\* The nodes that a read callback completes.
LEMMA NewNodesType ==
  ASSUME TypeOK, NEW c \in ConnIds, NEW n \in 0..MaxMsgs,
         received[c] + n <= MaxMsgs
  PROVE  [i \in 1..n |-> [mConnId |-> c, seq |-> received[c] + i]]
           \in Seq(ConMsgNode)
<1>1. received[c] \in 0..MaxMsgs
  BY DEF TypeOK
<1>2. \A i \in 1..n : received[c] + i \in 1..MaxMsgs
  BY <1>1
<1>3. \A i \in 1..n :
        [mConnId |-> c, seq |-> received[c] + i] \in ConMsgNode
  BY <1>2 DEF ConMsgNode
<1>4. QED
  BY <1>3

LEMMA HeadTail ==
  ASSUME NEW S, NEW s \in Seq(S), s # <<>>
  PROVE  Head(s) \in S /\ Tail(s) \in Seq(S) /\ Len(Tail(s)) = Len(s) - 1
OBVIOUS

LEMMA AppendTo ==
  ASSUME NEW S, NEW s \in Seq(S), NEW x \in S
  PROVE  Append(s, x) \in Seq(S) /\ Len(Append(s, x)) = Len(s) + 1
OBVIOUS

LEMMA InitInv == Init => IInv
<1> SUFFICES ASSUME Init PROVE IInv
  OBVIOUS
<1>1. TypeOK
  BY WorkersType DEF Init, TypeOK, MainPC, WorkPC, Holder
<1>2. LockInv /\ LifeInv /\ StreamInv
  BY WorkersType DEF Init, LockInv, LifeInv, StreamInv, StreamOf
<1>3. QED
  BY <1>1, <1>2 DEF IInv
------------------------------------------------------------------------------
LEMMA TypeMain == TypeOK /\ MainNext => TypeOK'
<1> SUFFICES ASSUME TypeOK, MainNext PROVE TypeOK'
  OBVIOUS
<1> USE DEF MainPC, WorkPC, Holder, mainVars, streamVars, workVars
<1>1. ASSUME NEW c \in ConnIds, NEW n \in 0..MaxMsgs, ReadCallback(c, n)
      PROVE  TypeOK'
  <2>1. toPush' \in Seq(ConMsgNode)
    BY <1>1, NewNodesType DEF ReadCallback
  <2>2. target' \in Workers
    BY <1>1, WorkerOfType DEF ReadCallback, WorkerFor
  <2>3. received' \in [ConnIds -> 0..MaxMsgs] /\ reads' \in 0..MaxReads
    BY <1>1 DEF ReadCallback, TypeOK
  <2>4. QED
    BY <1>1, <2>1, <2>2, <2>3 DEF ReadCallback, TypeOK
<1>2. CASE MainLock
  BY <1>2 DEF MainLock, TypeOK
<1>3. CASE InsertNode
  BY <1>3 DEF InsertNode, TypeOK
<1>4. CASE InsertCount
  BY <1>4 DEF InsertCount, TypeOK
<1>5. CASE MainUnlock
  BY <1>5 DEF MainUnlock, TypeOK
<1>6. CASE Exit
  BY <1>6, WorkersType DEF Exit, TypeOK
<1>7. CASE SetShutDown
  BY <1>7 DEF SetShutDown, TypeOK
<1>8. CASE DestroyInStream
  BY <1>8 DEF DestroyInStream, TypeOK
<1>9. CASE Join
  BY <1>9 DEF Join, TypeOK
<1>10. QED
  BY <1>1, <1>2, <1>3, <1>4, <1>5, <1>6, <1>7, <1>8, <1>9
     DEF MainNext, MainStep

\* The decrements of a worker start from a positive number.
LEMMA TypeWorker ==
  ASSUME TypeOK, StreamInv, NEW w \in Workers, WorkerStep(w)
  PROVE  TypeOK'
<1> USE DEF MainPC, WorkPC, Holder, mainVars, streamVars, workVars
<1>1. CASE ThreadLoop(w)
  BY <1>1 DEF ThreadLoop, TypeOK
<1>2. CASE PopBegin(w)
  BY <1>2 DEF PopBegin, TypeOK
<1>3. CASE WorkerLock(w)
  BY <1>3 DEF WorkerLock, TypeOK
<1>4. CASE TakeNode(w)
  <2>1. batch[w] \in Seq(ConMsgNode) /\ inList[w] \in Seq(ConMsgNode)
        /\ inList[w] # <<>>
    BY <1>4 DEF TakeNode, TypeOK
  <2>2. /\ Tail(inList[w]) \in Seq(ConMsgNode)
        /\ Append(batch[w], Head(inList[w])) \in Seq(ConMsgNode)
    BY <2>1, HeadTail, AppendTo
  <2>3. batch' \in [Workers -> Seq(ConMsgNode)]
    BY <1>4, <2>2 DEF TakeNode, MovedTo, TypeOK
  <2>4. inList' \in [Workers -> Seq(ConMsgNode)]
    BY <1>4, <2>2 DEF TakeNode, TypeOK
  <2>5. QED
    BY <1>4, <2>3, <2>4 DEF TakeNode, TypeOK
<1>5. CASE TakeCount(w)
  <2>1. workCount[w] - 1 \in Nat /\ count[w] - 1 \in Nat
    BY <1>5 DEF TakeCount, StreamInv, StreamOf, TypeOK
  <2>2. QED
    BY <1>5, <2>1 DEF TakeCount, TypeOK
<1>6. CASE WorkerUnlock(w)
  BY <1>6 DEF WorkerUnlock, TypeOK
<1>7. CASE HandleMsg(w)
  <2>1. batch[w] # <<>>
    BY <1>7 DEF HandleMsg, StreamInv, StreamOf
  <2>2. batch[w] \in Seq(ConMsgNode) /\ handled[w] \in Seq(ConMsgNode)
    BY DEF TypeOK
  <2>3. /\ Tail(batch[w]) \in Seq(ConMsgNode)
        /\ Append(handled[w], Head(batch[w])) \in Seq(ConMsgNode)
    BY <2>1, <2>2, HeadTail, AppendTo
  <2>4. batch' \in [Workers -> Seq(ConMsgNode)]
    BY <1>7, <2>3 DEF HandleMsg, TypeOK
  <2>5. handled' \in [Workers -> Seq(ConMsgNode)]
    BY <1>7, <2>3 DEF HandleMsg, TypeOK
  <2>6. workPc' \in [Workers -> WorkPC]
    BY <1>7 DEF HandleMsg, TypeOK
  <2>7. QED
    BY <1>7, <2>4, <2>5, <2>6 DEF HandleMsg, TypeOK
<1>8. CASE Fault(w)
  BY <1>8 DEF Fault, TypeOK
<1>9. CASE PopNothing(w)
  <2>1. count[w] - 1 \in Nat
    BY <1>9 DEF PopNothing, TypeOK
  <2>2. QED
    BY <1>9, <2>1 DEF PopNothing, TypeOK
<1>10. QED
  BY <1>1, <1>2, <1>3, <1>4, <1>5, <1>6, <1>7, <1>8, <1>9 DEF WorkerStep
------------------------------------------------------------------------------
LEMMA LockMain ==
  ASSUME TypeOK, LockInv, LifeInv, MainNext
  PROVE  LockInv'
<1> USE DEF LockInv, TypeOK, mainVars, streamVars, workVars
<1>1. ASSUME NEW c \in ConnIds, NEW n \in 0..MaxMsgs, ReadCallback(c, n)
      PROVE  LockInv'
  BY <1>1 DEF ReadCallback
<1>2. CASE MainLock
  BY <1>2 DEF MainLock
<1>3. CASE InsertNode
  BY <1>3 DEF InsertNode
<1>4. CASE InsertCount
  BY <1>4 DEF InsertCount
<1>5. CASE MainUnlock
  BY <1>5 DEF MainUnlock
<1>6. CASE Exit
  BY <1>6 DEF Exit
<1>7. CASE SetShutDown
  BY <1>7 DEF SetShutDown
<1>8. CASE DestroyInStream
  BY <1>8 DEF DestroyInStream
<1>9. CASE Join
  BY <1>9 DEF Join
<1>10. QED
  BY <1>1, <1>2, <1>3, <1>4, <1>5, <1>6, <1>7, <1>8, <1>9
     DEF MainNext, MainStep

LEMMA LockWorker ==
  ASSUME TypeOK, LockInv, LifeInv, NEW w \in Workers, WorkerStep(w)
  PROVE  LockInv'
<1> USE DEF LockInv, TypeOK, mainVars, streamVars, workVars
<1>1. CASE ThreadLoop(w)
  <2>1. w \in shutDown => ~ (mainPc \in {"push", "count"} /\ target = w)
    BY DEF LifeInv
  <2>2. QED
    BY <1>1, <2>1 DEF ThreadLoop
<1>2. CASE PopBegin(w)
  BY <1>2 DEF PopBegin
<1>3. CASE WorkerLock(w)
  BY <1>3 DEF WorkerLock
<1>4. CASE TakeNode(w)
  BY <1>4 DEF TakeNode
<1>5. CASE TakeCount(w)
  BY <1>5 DEF TakeCount
<1>6. CASE WorkerUnlock(w)
  BY <1>6 DEF WorkerUnlock
<1>7. CASE HandleMsg(w)
  BY <1>7 DEF HandleMsg
<1>8. CASE Fault(w)
  BY <1>8 DEF Fault
<1>9. CASE PopNothing(w)
  BY <1>9 DEF PopNothing
<1>10. QED
  BY <1>1, <1>2, <1>3, <1>4, <1>5, <1>6, <1>7, <1>8, <1>9 DEF WorkerStep
------------------------------------------------------------------------------
LEMMA LifeMain ==
  ASSUME TypeOK, LifeInv, MainNext
  PROVE  LifeInv'
<1> USE DEF LifeInv, TypeOK, mainVars, streamVars, workVars
<1>1. ASSUME NEW c \in ConnIds, NEW n \in 0..MaxMsgs, ReadCallback(c, n)
      PROVE  LifeInv'
  BY <1>1 DEF ReadCallback
<1>2. CASE MainLock
  BY <1>2 DEF MainLock
<1>3. CASE InsertNode
  BY <1>3 DEF InsertNode
<1>4. CASE InsertCount
  BY <1>4 DEF InsertCount
<1>5. CASE MainUnlock
  BY <1>5 DEF MainUnlock
<1>6. CASE Exit
  BY <1>6 DEF Exit
<1>7. CASE SetShutDown
  BY <1>7 DEF SetShutDown
<1>8. CASE DestroyInStream
  BY <1>8, WorkersType DEF DestroyInStream
<1>9. CASE Join
  <2>1. target \in Nat /\ \A w \in Workers : w \in Nat
    BY WorkersType
  <2>2. CASE target + 1 \in Workers
    <3>1. \A w \in Workers : w >= target + 1 => w \in inAlive
      BY <1>9, <2>1 DEF Join
    <3>2. mainPc' = "delete" /\ target' = target + 1
      BY <1>9, <2>2 DEF Join
    <3>3. QED
      BY <1>9, <3>1, <3>2 DEF Join
  <2>3. CASE target + 1 \notin Workers
    BY <1>9, <2>3 DEF Join
  <2>4. QED
    BY <2>2, <2>3
<1>10. QED
  BY <1>1, <1>2, <1>3, <1>4, <1>5, <1>6, <1>7, <1>8, <1>9
     DEF MainNext, MainStep

\* A worker faults only after its in-stream was destroyed.
LEMMA LifeWorker ==
  ASSUME TypeOK, LifeInv, StreamInv, NEW w \in Workers, WorkerStep(w)
  PROVE  LifeInv'
<1> USE DEF LifeInv, TypeOK, mainVars, streamVars, workVars
<1>1. CASE ThreadLoop(w)
  BY <1>1 DEF ThreadLoop
<1>2. CASE PopBegin(w)
  BY <1>2 DEF PopBegin
<1>3. CASE WorkerLock(w)
  BY <1>3 DEF WorkerLock
<1>4. CASE TakeNode(w)
  BY <1>4 DEF TakeNode
<1>5. CASE TakeCount(w)
  BY <1>5 DEF TakeCount
<1>6. CASE WorkerUnlock(w)
  BY <1>6 DEF WorkerUnlock
<1>7. CASE HandleMsg(w)
  BY <1>7 DEF HandleMsg
<1>8. CASE Fault(w)
  <2>1. w \notin inAlive
    BY <1>8 DEF Fault, StreamInv, StreamOf
  <2>2. QED
    BY <1>8, <2>1 DEF Fault
<1>9. CASE PopNothing(w)
  BY <1>9 DEF PopNothing
<1>10. QED
  BY <1>1, <1>2, <1>3, <1>4, <1>5, <1>6, <1>7, <1>8, <1>9 DEF WorkerStep
------------------------------------------------------------------------------
LEMMA StreamMain ==
  ASSUME TypeOK, LockInv, LifeInv, StreamInv, MainNext
  PROVE  StreamInv'
<1> USE DEF StreamInv, StreamOf, TypeOK, mainVars, streamVars, workVars
<1>1. ASSUME NEW c \in ConnIds, NEW n \in 0..MaxMsgs, ReadCallback(c, n)
      PROVE  StreamInv'
  BY <1>1 DEF ReadCallback
<1>2. CASE MainLock
  BY <1>2 DEF MainLock
<1>3. CASE InsertNode
  <2>1. toPush \in Seq(ConMsgNode) /\ toPush # <<>>
    BY <1>3 DEF InsertNode
  <2>2. Len(inList'[target]) = Len(inList[target]) + 1
    BY <1>3, <2>1, HeadTail, AppendTo DEF InsertNode
  <2>3. workPc[target] \notin {"take", "count"} /\ holder[target] = "main"
    BY <1>3 DEF InsertNode, LockInv
  <2>4. inAlive' = Workers /\ inCount[target] = Len(inList[target])
    BY <1>3 DEF InsertNode, LifeInv
  <2>5. /\ UNCHANGED <<target, holder, inCount, workPc, count, workCount, batch>>
        /\ \A v \in Workers \ {target} : inList'[v] = inList[v]
        /\ mainPc' = "count" /\ mainCount' = inCount[target]
        /\ inAlive = Workers
    BY <1>3 DEF InsertNode, LifeInv
  <2>6. ASSUME NEW v \in Workers
        PROVE  StreamOf(v)'
    <3>1. CASE v = target
      BY <2>2, <2>3, <2>4, <2>5, <3>1
    <3>2. CASE v # target
      BY <2>4, <2>5, <3>2
    <3>3. QED
      BY <3>1, <3>2
  <2> HIDE DEF StreamOf
  <2>7. QED
    BY <2>6
<1>4. CASE InsertCount
  <2>1. workPc[target] \notin {"take", "count"} /\ holder[target] = "main"
    BY <1>4 DEF InsertCount, LockInv
  <2>2. QED
    BY <1>4, <2>1 DEF InsertCount
<1>5. CASE MainUnlock
  BY <1>5 DEF MainUnlock
<1>6. CASE Exit
  BY <1>6 DEF Exit
<1>7. CASE SetShutDown
  BY <1>7 DEF SetShutDown
<1>8. CASE DestroyInStream
  BY <1>8 DEF DestroyInStream
<1>9. CASE Join
  BY <1>9 DEF Join
<1>10. QED
  BY <1>1, <1>2, <1>3, <1>4, <1>5, <1>6, <1>7, <1>8, <1>9
     DEF MainNext, MainStep

LEMMA StreamWorker ==
  ASSUME TypeOK, LockInv, StreamInv, NEW w \in Workers, WorkerStep(w)
  PROVE  StreamInv'
<1> USE DEF StreamInv, StreamOf, TypeOK, mainVars, streamVars, workVars
<1>1. CASE ThreadLoop(w)
  <2>1. /\ UNCHANGED <<mainPc, target, mainCount, inList, inCount, inAlive, count,
                       workCount, batch>>
        /\ \A v \in Workers \ {w} : workPc'[v] = workPc[v] /\ holder'[v] = holder[v]
        /\ holder'[w] \in {holder[w], "deleted"} /\ workPc'[w] \in {"exited", "pop"}
    BY <1>1 DEF ThreadLoop
  <2>2. ASSUME NEW v \in Workers
        PROVE  StreamOf(v)'
    <3>1. CASE v = w
      BY <2>1, <3>1
    <3>2. CASE v # w
      BY <2>1, <3>2
    <3>3. QED
      BY <3>1, <3>2
  <2> HIDE DEF StreamOf
  <2>3. QED
    BY <2>2
<1>2. CASE PopBegin(w)
  BY <1>2 DEF PopBegin
<1>3. CASE WorkerLock(w)
  BY <1>3 DEF WorkerLock
<1>4. CASE TakeNode(w)
  <2>1. Len(inList'[w]) = Len(inList[w]) - 1
    BY <1>4, HeadTail DEF TakeNode
  <2>2. ~ (mainPc \in {"push", "count"} /\ target = w) /\ holder[w] = "worker"
    BY <1>4 DEF TakeNode, LockInv
  <2>3. /\ mainPc' = mainPc /\ target' = target /\ mainCount' = mainCount
        /\ inAlive' = inAlive /\ inCount' = inCount /\ count' = count
        /\ holder' = holder
        /\ \A v \in Workers \ {w} :
             /\ workPc'[v] = workPc[v] /\ workCount'[v] = workCount[v]
             /\ inList'[v] = inList[v] /\ batch'[v] = batch[v]
        /\ workPc'[w] = "count" /\ workCount'[w] = inCount[w]
    BY <1>4 DEF TakeNode
  <2>4. inCount[w] = Len(inList[w]) /\ count[w] = inCount[w] /\ inCount[w] \in Nat
        /\ inCount[w] > 0 /\ w \in inAlive
    BY <1>4 DEF TakeNode
  <2>5. inCount'[w] = Len(inList'[w]) + 1
    BY <2>1, <2>3, <2>4
  <2>6. ASSUME NEW v \in Workers
        PROVE  StreamOf(v)'
    <3>1. CASE v = w
      BY <2>2, <2>3, <2>4, <2>5, <3>1
    <3>2. CASE v # w
      BY <2>3, <3>2
    <3>3. QED
      BY <3>1, <3>2
  <2> HIDE DEF StreamOf
  <2>7. QED
    BY <2>6
<1>5. CASE TakeCount(w)
  <2>1. ~ (mainPc \in {"push", "count"} /\ target = w) /\ holder[w] = "worker"
    BY <1>5 DEF TakeCount, LockInv
  <2>2. /\ mainPc' = mainPc /\ target' = target /\ mainCount' = mainCount
        /\ inAlive' = inAlive /\ holder' = holder /\ inList' = inList
        /\ batch' = batch /\ workCount' = workCount
        /\ \A v \in Workers \ {w} :
             /\ workPc'[v] = workPc[v] /\ inCount'[v] = inCount[v]
             /\ count'[v] = count[v]
        /\ workPc'[w] = "take"
    BY <1>5 DEF TakeCount
  <2>3. w \in inAlive =>
          /\ inCount[w] = Len(inList[w]) + 1 /\ count[w] = inCount[w]
          /\ workCount[w] = inCount[w] /\ Len(inList[w]) \in Nat
    BY <1>5 DEF TakeCount
  <2>4. w \in inAlive => inCount'[w] = Len(inList[w]) /\ count'[w] = Len(inList[w])
    BY <1>5, <2>3 DEF TakeCount
  <2>5. ASSUME NEW v \in Workers
        PROVE  StreamOf(v)'
    <3>1. CASE v = w
      BY <2>1, <2>2, <2>4, <3>1
    <3>2. CASE v # w
      BY <2>2, <3>2
    <3>3. QED
      BY <3>1, <3>2
  <2> HIDE DEF StreamOf
  <2>6. QED
    BY <2>5
<1>6. CASE WorkerUnlock(w)
  BY <1>6 DEF WorkerUnlock
<1>7. CASE HandleMsg(w)
  BY <1>7 DEF HandleMsg
<1>8. CASE Fault(w)
  BY <1>8 DEF Fault
<1>9. CASE PopNothing(w)
  <2>1. w \notin inAlive /\ workPc[w] = "take"
    BY <1>9 DEF PopNothing
  <2>2. /\ UNCHANGED <<mainPc, target, mainCount, holder, inList, inCount, inAlive,
                       workPc, workCount, batch>>
        /\ \A v \in Workers \ {w} : count'[v] = count[v]
    BY <1>9 DEF PopNothing
  <2>3. ASSUME NEW v \in Workers
        PROVE  StreamOf(v)'
    <3>1. CASE v = w
      BY <2>1, <2>2, <3>1
    <3>2. CASE v # w
      BY <2>2, <3>2
    <3>3. QED
      BY <3>1, <3>2
  <2> HIDE DEF StreamOf
  <2>4. QED
    BY <2>3
<1>10. QED
  BY <1>1, <1>2, <1>3, <1>4, <1>5, <1>6, <1>7, <1>8, <1>9 DEF WorkerStep
------------------------------------------------------------------------------
LEMMA NextInv == IInv /\ [Next]_vars => IInv'
<1> SUFFICES ASSUME IInv, [Next]_vars PROVE IInv'
  OBVIOUS
<1> USE DEF IInv
<1>1. CASE MainNext
  BY <1>1, TypeMain, LockMain, LifeMain, StreamMain
<1>2. ASSUME NEW w \in Workers, WorkerStep(w)
      PROVE  IInv'
  BY <1>2, TypeWorker, LockWorker, LifeWorker, StreamWorker
<1>3. CASE UNCHANGED vars
  BY <1>3 DEF vars, mainVars, streamVars, workVars, TypeOK, LockInv, LifeInv,
              StreamInv, StreamOf
<1>4. QED
  BY <1>1, <1>2, <1>3 DEF Next

LEMMA Invariance == Spec => []IInv
<1>1. QED
  BY InitInv, NextInv, PTL DEF Spec

\* Every variable keeps its type, for every number of workers and messages:
\* no counter of an in-stream or of a loop goes below zero.
THEOREM TypeCorrect == Spec => []TypeOK
<1>1. IInv => TypeOK
  BY DEF IInv
<1>2. QED
  BY <1>1, Invariance, PTL

\* m_nCount is the length of the list whenever the mutex is free, and
\* popMsgFromInStream never calls front() on an empty list.
THEOREM CountCorrect == Spec => []CountIsLength
<1>1. IInv => CountIsLength
  BY DEF IInv, StreamInv, StreamOf, CountIsLength, TypeOK
<1>2. QED
  BY <1>1, Invariance, PTL

\* The mutex that a worker deletes when it leaves its loop is used by no one
\* any more.
THEOREM LockLifetime == Spec => []NoUseAfterDelete
<1>1. IInv => NoUseAfterDelete
  BY DEF IInv, LockInv, LifeInv, NoUseAfterDelete
<1>2. QED
  BY <1>1, Invariance, PTL
------------------------------------------------------------------------------
(* Sequences *)

LEMMA ConcatAppend ==
  ASSUME NEW S, NEW s \in Seq(S), NEW t \in Seq(S), NEW x \in S
  PROVE  s \o Append(t, x) = Append(s \o t, x)
OBVIOUS

LEMMA MoveHead ==
  ASSUME NEW S, NEW s \in Seq(S), NEW t \in Seq(S), t # <<>>
  PROVE  Append(s, Head(t)) \o Tail(t) = s \o t
OBVIOUS

LEMMA ConcatHead ==
  ASSUME NEW S, NEW s \in Seq(S), NEW t \in Seq(S), s # <<>>
  PROVE  /\ s \o t # <<>>
         /\ Head(s \o t) = Head(s)
         /\ Tail(s \o t) = Tail(s) \o t
OBVIOUS

LEMMA ConcatPrefix ==
  ASSUME NEW S, NEW s \in Seq(S), NEW t \in Seq(S)
  PROVE  /\ Len(s) \in 0..Len(s \o t)
         /\ SubSeq(s \o t, 1, Len(s)) = s
OBVIOUS

------------------------------------------------------------------------------
(* The refinement *)

QueueOf(w) == batch[w] \o inList[w]

LEMMA QueueTypes ==
  ASSUME TypeOK, NEW w \in Workers
  PROVE  /\ batch[w] \in Seq(ConMsgNode) /\ inList[w] \in Seq(ConMsgNode)
         /\ handled[w] \in Seq(ConMsgNode) /\ QueueOf(w) \in Seq(ConMsgNode)
         /\ toPush \in Seq(ConMsgNode)
BY DEF TypeOK, QueueOf

LEMMA QueuesInit == Init => Queues!Init
<1> SUFFICES ASSUME Init PROVE Queues!Init
  OBVIOUS
<1>1. \A w \in Workers : batch[w] \o inList[w] = <<>>
  BY DEF Init
<1>2. QED
  BY <1>1 DEF Init, Queues!Init

\* An action that leaves these as they are is a stutter of the queues.
LEMMA QueuesStutter ==
  ASSUME \A w \in Workers : QueueOf(w)' = QueueOf(w),
         UNCHANGED <<handled, inAlive>>
  PROVE  UNCHANGED Queues!vars
BY DEF Queues!vars, QueueOf

\* A node reaches the in-stream in InsertNode, before it is counted.
LEMMA InsertNodePuts ==
  ASSUME IInv, InsertNode
  PROVE  Queues!Put(target, Head(toPush))
<1> USE DEF IInv
<1>1. target \in Workers /\ target \in inAlive
  BY DEF TypeOK, LifeInv, InsertNode
<1>2. toPush \in Seq(ConMsgNode) /\ toPush # <<>>
  BY DEF TypeOK, InsertNode
<1>3. Head(toPush) \in ConMsgNode
  BY <1>2, HeadTail
<1>4. \A w \in Workers :
        inList'[w] = IF w = target THEN Append(inList[w], Head(toPush))
                     ELSE inList[w]
  BY DEF InsertNode, TypeOK
<1>5. batch[target] \o Append(inList[target], Head(toPush))
        = Append(batch[target] \o inList[target], Head(toPush))
  <2> DEFINE s == batch[target]
             t == inList[target]
             x == Head(toPush)
  <2>1. s \in Seq(ConMsgNode) /\ t \in Seq(ConMsgNode) /\ x \in ConMsgNode
    BY <1>1, <1>3, QueueTypes
  <2> HIDE DEF s, t, x
  <2>2. s \o Append(t, x) = Append(s \o t, x)
    BY <2>1, ConcatAppend
  <2>3. QED
    BY <2>2 DEF s, t, x
<1>6. UNCHANGED <<batch, handled, inAlive>>
  BY DEF InsertNode, workVars
<1>7. [w \in Workers |-> batch'[w] \o inList'[w]]
        = [[w \in Workers |-> batch[w] \o inList[w]] EXCEPT
             ![target] = Append(@, Head(toPush))]
  BY <1>1, <1>4, <1>5, <1>6
<1>8. QED
  BY <1>1, <1>6, <1>7 DEF Queues!Put

LEMMA HandleServes ==
  ASSUME IInv, NEW w \in Workers, HandleMsg(w)
  PROVE  Queues!Serve(w)
<1> USE DEF IInv
<1>1. batch[w] # <<>>
  BY DEF StreamInv, StreamOf, HandleMsg
<1>2. /\ QueueOf(w) # <<>>
      /\ Head(QueueOf(w)) = Head(batch[w])
      /\ Tail(QueueOf(w)) = Tail(batch[w]) \o inList[w]
  BY <1>1, QueueTypes, ConcatHead DEF QueueOf
<1>3. \A v \in Workers :
        batch'[v] = IF v = w THEN Tail(batch[v]) ELSE batch[v]
  BY DEF HandleMsg, TypeOK
<1>4. UNCHANGED <<inList, inAlive>>
  BY DEF HandleMsg, streamVars
<1>5. [v \in Workers |-> batch'[v] \o inList'[v]]
        = [[v \in Workers |-> batch[v] \o inList[v]] EXCEPT ![w] = Tail(@)]
  BY <1>2, <1>3, <1>4 DEF QueueOf
<1>6. handled' = [handled EXCEPT ![w] = Append(@, Head(QueueOf(w)))]
  BY <1>2 DEF HandleMsg
<1>7. QED
  BY <1>2, <1>4, <1>5, <1>6 DEF Queues!Serve, QueueOf

\* What is dropped with the in-stream is the end of the queue.
LEMMA DestroyCloses ==
  ASSUME IInv, DestroyInStream
  PROVE  Queues!Close(target)
<1> USE DEF IInv
<1>1. target \in Workers /\ target \in inAlive
  BY WorkersType DEF TypeOK, LifeInv, DestroyInStream
<1>2. /\ Len(batch[target]) \in 0..Len(QueueOf(target))
      /\ SubSeq(QueueOf(target), 1, Len(batch[target])) = batch[target]
      /\ batch[target] \o <<>> = batch[target]
  BY <1>1, QueueTypes, ConcatPrefix, ConcatEmptySeq DEF QueueOf
<1>3. \A v \in Workers :
        inList'[v] = IF v = target THEN <<>> ELSE inList[v]
  BY DEF DestroyInStream, TypeOK
<1>4. UNCHANGED <<batch, handled>> /\ inAlive' = inAlive \ {target}
  BY DEF DestroyInStream, workVars
<1>5. [v \in Workers |-> batch'[v] \o inList'[v]]
        = [[v \in Workers |-> batch[v] \o inList[v]] EXCEPT
             ![target] = SubSeq(@, 1, Len(batch[target]))]
  BY <1>1, <1>2, <1>3, <1>4 DEF QueueOf
<1>6. QED
  BY <1>1, <1>2, <1>4, <1>5 DEF Queues!Close, QueueOf

\* The node taken passes from the in-stream to the end of the batch.
LEMMA TakeStutters ==
  ASSUME IInv, NEW w \in Workers, TakeNode(w)
  PROVE  UNCHANGED Queues!vars
<1> USE DEF IInv
<1>1. inList[w] # <<>>
  BY DEF TakeNode
<1>2. Append(batch[w], Head(inList[w])) \o Tail(inList[w]) = batch[w] \o inList[w]
  BY <1>1, QueueTypes, MoveHead
<1>3. \A v \in Workers :
        /\ batch'[v] = IF v = w THEN Append(batch[v], Head(inList[v])) ELSE batch[v]
        /\ inList'[v] = IF v = w THEN Tail(inList[v]) ELSE inList[v]
  BY DEF TakeNode, MovedTo, TypeOK
<1>4. \A v \in Workers : QueueOf(v)' = QueueOf(v)
  BY <1>2, <1>3 DEF QueueOf
<1>5. UNCHANGED <<handled, inAlive>>
  BY DEF TakeNode
<1>6. QED
  BY <1>4, <1>5, QueuesStutter

LEMMA QueuesMain ==
  ASSUME IInv, MainNext
  PROVE  [Queues!Next]_Queues!vars
<1> USE DEF mainVars, streamVars, workVars
<1>1. CASE InsertNode
  <2>1. target \in Workers /\ Head(toPush) \in ConMsgNode
    BY <1>1, HeadTail DEF IInv, TypeOK, InsertNode
  <2>2. Queues!Put(target, Head(toPush))
    BY <1>1, InsertNodePuts
  <2>3. \E w \in Workers, m \in ConMsgNode : Queues!Put(w, m)
    BY <2>1, <2>2 DEF Queues!Put
  <2>4. QED
    BY <2>3 DEF Queues!Next
<1>2. CASE DestroyInStream
  <2>1. target \in Workers
    BY DEF IInv, TypeOK
  <2>2. Queues!Close(target)
    BY <1>2, DestroyCloses
  <2>3. \E w \in Workers : Queues!Close(w)
    BY <2>1, <2>2 DEF Queues!Close
  <2>4. QED
    BY <2>3 DEF Queues!Next
<1>3. ASSUME NEW c \in ConnIds, NEW n \in 0..MaxMsgs, ReadCallback(c, n)
      PROVE  UNCHANGED <<batch, inList, handled, inAlive>>
  BY <1>3 DEF ReadCallback
<1>4. CASE \/ MainLock \/ InsertCount \/ MainUnlock \/ Exit
           \/ SetShutDown \/ Join
  BY <1>4 DEF MainLock, InsertCount, MainUnlock, Exit, SetShutDown, Join,
              Queues!vars
<1>5. QED
  BY <1>1, <1>2, <1>3, <1>4 DEF MainNext, MainStep, Queues!vars

LEMMA QueuesWorker ==
  ASSUME IInv, NEW w \in Workers, WorkerStep(w)
  PROVE  [Queues!Next]_Queues!vars
<1> USE DEF mainVars, streamVars, workVars
<1>1. CASE HandleMsg(w)
  <2>1. Queues!Serve(w)
    BY <1>1, HandleServes
  <2>2. QED
    BY <2>1 DEF Queues!Next
<1>2. CASE TakeNode(w)
  BY <1>2, TakeStutters
<1>3. CASE \/ ThreadLoop(w) \/ PopBegin(w) \/ WorkerLock(w) \/ TakeCount(w)
           \/ PopNothing(w) \/ WorkerUnlock(w) \/ Fault(w)
  BY <1>3 DEF ThreadLoop, PopBegin, WorkerLock, TakeCount, PopNothing, WorkerUnlock,
              Fault, Queues!vars
<1>4. QED
  BY <1>1, <1>2, <1>3 DEF WorkerStep

\* The lists, the counter and the mutex of the two threads implement a queue
\* per worker: messages are handled once and in order, also while the workers
\* are destroyed.
THEOREM Refinement == Spec => QueuesSpec
<1>1. IInv /\ [Next]_vars => [Queues!Next]_Queues!vars
  <2> SUFFICES ASSUME IInv, [Next]_vars
               PROVE  [Queues!Next]_Queues!vars
    OBVIOUS
  <2>1. CASE MainNext
    BY <2>1, QueuesMain
  <2>2. ASSUME NEW w \in Workers, WorkerStep(w)
        PROVE  [Queues!Next]_Queues!vars
    BY <2>2, QueuesWorker
  <2>3. CASE UNCHANGED vars
    BY <2>3 DEF vars, streamVars, workVars, Queues!vars
  <2>4. QED
    BY <2>1, <2>2, <2>3 DEF Next
<1>2. QED
  BY <1>1, QueuesInit, Invariance, PTL DEF Spec, QueuesSpec, Queues!Spec
------------------------------------------------------------------------------
(* The order of the messages *)

\* Every message given to worker w and those it is about to be given.
Arrived(w) == Line(w) \o (IF target = w THEN toPush ELSE <<>>)

\* L holds the messages of connections of worker w, those of a connection in
\* order, without gap or repetition.
Ordered(L, w) ==
  /\ \A i \in 1..Len(L) : WorkerOf(L[i].mConnId) = w
  /\ \A i, j \in 1..Len(L) :
       j < i /\ L[j].mConnId = L[i].mConnId => L[j].seq < L[i].seq
  /\ \A i \in 1..Len(L) : L[i].seq > 1 =>
       \E j \in 1..(i - 1) : L[j] = [L[i] EXCEPT !.seq = L[i].seq - 1]

\* L holds no message that was not received, and every one of connection c.
Within(L, n) == \A i \in 1..Len(L) : L[i].seq <= n[L[i].mConnId]
Complete(L, c, n) ==
  \A s \in 1..n : \E i \in 1..Len(L) : L[i] = [mConnId |-> c, seq |-> s]

OrderInv ==
  /\ mainPc \notin {"lock", "push", "count"} => toPush = <<>>
  /\ \A w \in Workers : Ordered(Arrived(w), w) /\ Within(Arrived(w), received)
  /\ \A c \in ConnIds : WorkerOf(c) \in inAlive =>
       Complete(Arrived(WorkerOf(c)), c, received[c])

LEMMA ConcatParts ==
  ASSUME NEW S, NEW s \in Seq(S), NEW t \in Seq(S)
  PROVE  /\ Len(s) \in Nat /\ Len(t) \in Nat /\ Len(s \o t) = Len(s) + Len(t)
         /\ \A i \in 1..Len(s) : (s \o t)[i] = s[i]
         /\ \A i \in 1..Len(s \o t) : i > Len(s) =>
              i - Len(s) \in 1..Len(t) /\ (s \o t)[i] = t[i - Len(s)]
OBVIOUS

LEMMA NodeType ==
  ASSUME NEW L \in Seq(ConMsgNode), NEW i \in 1..Len(L)
  PROVE  L[i] \in ConMsgNode /\ L[i].mConnId \in ConnIds /\ L[i].seq \in Nat
<1>1. L[i] \in ConMsgNode
  OBVIOUS
<1>2. QED
  BY <1>1 DEF ConMsgNode

LEMMA OrderedPrefix ==
  ASSUME NEW L \in Seq(ConMsgNode), NEW R \in Seq(ConMsgNode), NEW w,
         NEW n, Ordered(L \o R, w), Within(L \o R, n)
  PROVE  Ordered(L, w) /\ Within(L, n)
<1>1. /\ Len(L) \in Nat /\ Len(L) <= Len(L \o R) /\ Len(L \o R) \in Nat
      /\ \A i \in 1..Len(L) : (L \o R)[i] = L[i]
  OBVIOUS
<1> DEFINE LR == L \o R
<1>2. \A i \in 1..Len(L) : WorkerOf(L[i].mConnId) = w /\ L[i].seq <= n[L[i].mConnId]
  BY <1>1 DEF Ordered, Within
<1>3. ASSUME NEW i \in 1..Len(L), NEW j \in 1..Len(L), j < i,
             L[j].mConnId = L[i].mConnId
      PROVE  L[j].seq < L[i].seq
  BY <1>1, <1>3 DEF Ordered
<1>4. ASSUME NEW i \in 1..Len(L), L[i].seq > 1
      PROVE  \E j \in 1..(i - 1) : L[j] = [L[i] EXCEPT !.seq = L[i].seq - 1]
  <2>1. PICK j \in 1..(i - 1) : LR[j] = [LR[i] EXCEPT !.seq = LR[i].seq - 1]
    BY <1>1, <1>4 DEF Ordered
  <2>2. j \in 1..Len(L) /\ LR[j] = L[j] /\ LR[i] = L[i]
    BY <1>1
  <2>3. QED
    BY <2>1, <2>2
<1>5. QED
  BY <1>2, <1>3, <1>4 DEF Ordered, Within

\* The messages that a read callback completes come after those before them.
NewNodes(c, r, n) == [i \in 1..n |-> [mConnId |-> c, seq |-> r + i]]

LEMMA OrderedExtended ==
  ASSUME NEW L \in Seq(ConMsgNode), NEW w, NEW c \in ConnIds, WorkerOf(c) = w,
         NEW m \in [ConnIds -> Nat], NEW n \in Nat,
         m[c] + n <= MaxMsgs,
         Ordered(L, w), Within(L, m), Complete(L, c, m[c])
  PROVE  LET N == NewNodes(c, m[c], n)
             more == [m EXCEPT ![c] = @ + n]
         IN /\ Ordered(L \o N, w)
            /\ Within(L \o N, more)
            /\ \A d \in ConnIds : Complete(L, d, m[d]) => Complete(L \o N, d, more[d])
<1> DEFINE N == NewNodes(c, m[c], n)
           M == L \o N
           more == [m EXCEPT ![c] = @ + n]
<1>1. m[c] \in Nat
  OBVIOUS
<1>2. /\ N \in Seq(ConMsgNode) /\ Len(N) = n
      /\ \A i \in 1..n : N[i].mConnId = c /\ N[i].seq = m[c] + i
                         /\ N[i] = [mConnId |-> c, seq |-> m[c] + i]
  <2>1. \A i \in 1..n : m[c] + i \in 1..MaxMsgs
    BY <1>1
  <2>2. \A i \in 1..n : [mConnId |-> c, seq |-> m[c] + i] \in ConMsgNode
    BY <2>1 DEF ConMsgNode
  <2>3. QED
    BY <2>2 DEF NewNodes
<1>3. \A i \in 1..Len(L) :
        L[i].mConnId \in ConnIds /\ L[i].seq \in Nat /\ L[i] \in ConMsgNode
  BY NodeType
<1> HIDE DEF N
<1>4. /\ Len(L) \in Nat /\ Len(M) = Len(L) + n
      /\ \A i \in 1..Len(L) : M[i] = L[i]
      /\ \A i \in 1..Len(M) : i > Len(L) =>
           i - Len(L) \in 1..n /\ M[i] = N[i - Len(L)]
  <2>1. L \in Seq(ConMsgNode) /\ N \in Seq(ConMsgNode)
    BY <1>2
  <2>2. /\ Len(L) \in Nat /\ Len(M) = Len(L) + Len(N)
        /\ \A i \in 1..Len(L) : M[i] = L[i]
        /\ \A i \in 1..Len(M) : i > Len(L) =>
             i - Len(L) \in 1..Len(N) /\ M[i] = N[i - Len(L)]
    BY <2>1, ConcatParts
  <2>3. QED
    BY <1>2, <2>2
<1> HIDE DEF M
<1>4a. \A i \in 1..Len(L) : i \in 1..Len(M) /\ M[i] = L[i]
  <2>1. Len(M) \in Nat /\ Len(L) <= Len(M)
    BY <1>4
  <2>2. 1..Len(L) \subseteq 1..Len(M)
    BY <1>4, <2>1
  <2>3. QED
    BY <1>4, <2>2
<1>5. \A i \in 1..Len(M) : i > Len(L) =>
        M[i].mConnId = c /\ M[i].seq = m[c] + (i - Len(L))
  BY <1>2, <1>4
<1>6. \A i \in 1..Len(M) : WorkerOf(M[i].mConnId) = w
  BY <1>4, <1>5 DEF Ordered
<1>7. ASSUME NEW i \in 1..Len(M), NEW j \in 1..Len(M), j < i,
             M[j].mConnId = M[i].mConnId
      PROVE  M[j].seq < M[i].seq
  <2>1. CASE i <= Len(L)
    <3>1. /\ i \in 1..Len(L) /\ j \in 1..Len(L)
          /\ M[i] = L[i] /\ M[j] = L[j]
      BY <1>4, <1>7, <2>1
    <3>2. QED
      BY <1>7, <3>1 DEF Ordered
  <2>2. CASE i > Len(L) /\ j <= Len(L)
    <3>1. M[i].mConnId = c /\ M[i].seq > m[c]
      BY <1>1, <1>5, <2>2
    <3>2. M[j] = L[j] /\ j \in 1..Len(L)
      BY <1>4, <2>2
    <3>3. L[j].seq <= m[c]
      BY <1>7, <3>1, <3>2 DEF Within
    <3>4. QED
      BY <1>1, <1>3, <1>5, <2>2, <3>1, <3>2, <3>3
  <2>3. CASE j > Len(L)
    BY <1>1, <1>4, <1>5, <1>7, <2>3
  <2>4. QED
    BY <1>4, <2>1, <2>2, <2>3
<1>8. ASSUME NEW i \in 1..Len(M), M[i].seq > 1
      PROVE  \E j \in 1..(i - 1) : M[j] = [M[i] EXCEPT !.seq = M[i].seq - 1]
  <2>1. CASE i <= Len(L)
    <3>1. i \in 1..Len(L) /\ M[i] = L[i]
      BY <1>4, <2>1
    <3>2. PICK j \in 1..(i - 1) : L[j] = [L[i] EXCEPT !.seq = L[i].seq - 1]
      BY <1>8, <3>1 DEF Ordered
    <3>3. M[j] = L[j]
      BY <1>4, <2>1
    <3>4. QED
      BY <3>1, <3>2, <3>3
  <2>2. CASE i > Len(L)
    <3> DEFINE k == i - Len(L)
    <3>1. k \in 1..n /\ M[i] = [mConnId |-> c, seq |-> m[c] + k]
      BY <1>2, <1>4, <2>2
    <3>2. [M[i] EXCEPT !.seq = M[i].seq - 1] = [mConnId |-> c, seq |-> m[c] + (k - 1)]
      BY <1>1, <3>1
    <3>3. CASE k = 1
      <4>1. m[c] \in 1..m[c]
        BY <1>1, <1>8, <3>1, <3>3
      <4>2. PICK j \in 1..Len(L) : L[j] = [mConnId |-> c, seq |-> m[c]]
        BY <4>1 DEF Complete
      <4>3. M[j] = L[j] /\ j \in 1..(i - 1)
        BY <1>4, <2>2
      <4>4. M[j] = [mConnId |-> c, seq |-> m[c] + (k - 1)]
        BY <1>1, <3>3, <4>2, <4>3
      <4>5. QED
        BY <3>2, <4>3, <4>4
    <3>4. CASE k > 1
      <4>1. i - 1 \in 1..Len(M) /\ i - 1 > Len(L) /\ (i - 1) - Len(L) = k - 1
            /\ k - 1 \in 1..n /\ i - 1 \in 1..(i - 1)
        BY <1>4, <2>2, <3>1, <3>4
      <4>2. M[i - 1] = N[k - 1]
        BY <1>4, <4>1
      <4>3. M[i - 1] = [mConnId |-> c, seq |-> m[c] + (k - 1)]
        BY <1>2, <4>1, <4>2
      <4>4. QED
        BY <3>2, <4>1, <4>3
    <3>5. k = 1 \/ k > 1
      BY <3>1
    <3>6. QED
      BY <3>3, <3>4, <3>5
  <2>3. i <= Len(L) \/ i > Len(L)
    BY <1>4
  <2>4. QED
    BY <2>1, <2>2, <2>3
<1>9. Ordered(M, w)
  BY <1>6, <1>7, <1>8 DEF Ordered
<1>10. Within(M, more)
  <2>1. ASSUME NEW i \in 1..Len(M)
        PROVE  M[i].seq <= more[M[i].mConnId]
    <3>1. CASE i <= Len(L)
      <4>1. M[i] = L[i] /\ i \in 1..Len(L)
        BY <1>4, <3>1
      <4>2. \A d \in ConnIds : m[d] <= more[d] /\ m[d] \in Nat /\ more[d] \in Nat
        BY <1>1
      <4>3. L[i].seq <= m[L[i].mConnId] /\ L[i].mConnId \in ConnIds
        BY <1>3, <4>1 DEF Within
      <4>4. PICK d \in ConnIds, q \in Nat :
              d = L[i].mConnId /\ q = L[i].seq
        BY <1>3, <4>1
      <4> HIDE DEF more
      <4>5. q <= m[d] /\ m[d] <= more[d] /\ m[d] \in Nat /\ more[d] \in Nat
        BY <4>2, <4>3, <4>4
      <4>6. q <= more[d]
        BY <4>5
      <4>7. M[i].mConnId = d /\ M[i].seq = q
        BY <4>1, <4>4
      <4>8. QED
        BY <4>6, <4>7
    <3>2. CASE i > Len(L)
      <4>1. i - Len(L) \in 1..n
        BY <1>4, <3>2
      <4>2. QED
        BY <1>1, <1>5, <3>2, <4>1
    <3>3. QED
      BY <1>4, <3>1, <3>2
  <2>2. QED
    BY <2>1 DEF Within
<1>11. ASSUME NEW d \in ConnIds, Complete(L, d, m[d])
       PROVE  Complete(M, d, more[d])
  <2>1. ASSUME NEW s \in 1..more[d]
        PROVE  \E i \in 1..Len(M) : M[i] = [mConnId |-> d, seq |-> s]
    <3>1. CASE s <= m[d]
      <4>1. PICK i \in 1..Len(L) : L[i] = [mConnId |-> d, seq |-> s]
        BY <1>11, <3>1 DEF Complete
      <4>2. i \in 1..Len(M) /\ M[i] = L[i]
        BY <1>4a
      <4>3. QED
        BY <4>1, <4>2
    <3>2. CASE s > m[d]
      <4>1. d = c /\ s <= m[c] + n
        BY <3>2
      <4>2. s - m[c] \in 1..n /\ Len(L) + (s - m[c]) \in 1..Len(M)
        BY <1>1, <1>4, <3>2, <4>1
      <4>3. M[Len(L) + (s - m[c])] = N[s - m[c]]
        BY <1>1, <1>4, <4>2
      <4>4. N[s - m[c]] = [mConnId |-> d, seq |-> s]
        BY <1>1, <1>2, <4>1, <4>2
      <4>5. QED
        BY <4>2, <4>3, <4>4
    <3>3. QED
      BY <3>1, <3>2
  <2>2. QED
    BY <2>1 DEF Complete
<1>12. QED
  BY <1>9, <1>10, <1>11 DEF N, M
------------------------------------------------------------------------------
LEMMA LineTypes ==
  ASSUME TypeOK, NEW w \in Workers
  PROVE  /\ handled[w] \o batch[w] \in Seq(ConMsgNode)
         /\ Line(w) \in Seq(ConMsgNode)
         /\ Arrived(w) \in Seq(ConMsgNode)
<1>1. handled[w] \o batch[w] \in Seq(ConMsgNode)
  BY QueueTypes
<1>2. Line(w) \in Seq(ConMsgNode)
  BY <1>1, QueueTypes DEF Line
<1>3. QED
  BY <1>1, <1>2, QueueTypes DEF Arrived

\* The worker only moves messages along its line.
LEMMA LineKept ==
  ASSUME IInv, NEW w \in Workers, WorkerStep(w), NEW v \in Workers
  PROVE  Line(v)' = Line(v)
<1> DEFINE h == handled[w]
           b == batch[w]
           l == inList[w]
<1>1. /\ h \in Seq(ConMsgNode) /\ b \in Seq(ConMsgNode)
      /\ l \in Seq(ConMsgNode) /\ h \o b \in Seq(ConMsgNode)
  BY QueueTypes, LineTypes DEF IInv
<1> USE DEF mainVars, streamVars, workVars
<1>2. CASE TakeNode(w)
  <2>1. l # <<>>
    BY <1>2 DEF TakeNode
  <2>2. /\ batch'[v] = IF v = w THEN Append(b, Head(l)) ELSE batch[v]
        /\ inList'[v] = IF v = w THEN Tail(l) ELSE inList[v]
        /\ handled'[v] = handled[v]
    BY <1>2 DEF TakeNode, MovedTo, IInv, TypeOK
  <2> HIDE DEF h, b, l
  <2>3. Head(l) \in ConMsgNode
    BY <1>1, <2>1, HeadTail
  <2>4. h \o Append(b, Head(l)) = Append(h \o b, Head(l))
    BY <1>1, <2>3, ConcatAppend
  <2>5. Append(h \o b, Head(l)) \o Tail(l) = (h \o b) \o l
    BY <1>1, <2>1, MoveHead
  <2>6. QED
    BY <2>2, <2>4, <2>5 DEF Line, h, b, l
<1>3. CASE HandleMsg(w)
  <2>1. b # <<>>
    BY <1>3 DEF HandleMsg, IInv, StreamInv, StreamOf
  <2>2. /\ handled'[v] = IF v = w THEN Append(h, Head(b)) ELSE handled[v]
        /\ batch'[v] = IF v = w THEN Tail(b) ELSE batch[v]
        /\ inList'[v] = inList[v]
    BY <1>3 DEF HandleMsg, IInv, TypeOK
  <2> HIDE DEF h, b, l
  <2>3. Append(h, Head(b)) \o Tail(b) = h \o b
    BY <1>1, <2>1, MoveHead
  <2>4. QED
    BY <2>2, <2>3 DEF Line, h, b, l
<1>4. CASE \/ ThreadLoop(w) \/ PopBegin(w) \/ WorkerLock(w) \/ TakeCount(w)
           \/ PopNothing(w) \/ WorkerUnlock(w) \/ Fault(w)
  BY <1>4 DEF ThreadLoop, PopBegin, WorkerLock, TakeCount, PopNothing, WorkerUnlock,
              Fault, Line
<1>5. QED
  BY <1>2, <1>3, <1>4 DEF WorkerStep

\* A node moves from the callback to the in-stream.
LEMMA InsertKeeps ==
  ASSUME IInv, InsertNode, NEW w \in Workers
  PROVE  Arrived(w)' = Arrived(w)
<1> DEFINE h == handled[w] \o batch[w]
           l == inList[w]
           p == toPush
<1>1. h \in Seq(ConMsgNode) /\ l \in Seq(ConMsgNode) /\ p \in Seq(ConMsgNode)
  BY QueueTypes, LineTypes DEF IInv
<1>2. /\ p # <<>> /\ toPush' = Tail(p) /\ UNCHANGED <<target, handled, batch>>
      /\ inList'[w] = IF w = target THEN Append(l, Head(p)) ELSE l
  BY DEF InsertNode, workVars, IInv, TypeOK
<1>3. CASE w = target
  <2> HIDE DEF h, l, p
  <2>1. Head(p) \in ConMsgNode
    BY <1>1, <1>2, HeadTail
  <2>2. h \o Append(l, Head(p)) = Append(h \o l, Head(p)) /\ h \o l \in Seq(ConMsgNode)
    BY <1>1, <2>1, ConcatAppend
  <2>3. Append(h \o l, Head(p)) \o Tail(p) = (h \o l) \o p
    BY <1>1, <1>2, <2>2, MoveHead
  <2>4. QED
    BY <1>2, <1>3, <2>2, <2>3 DEF Arrived, Line, h, l, p
<1>4. CASE w # target
  BY <1>2, <1>4 DEF Arrived, Line
<1>5. QED
  BY <1>3, <1>4

LEMMA OrderKept ==
  ASSUME OrderInv, UNCHANGED <<received, inAlive>>,
         \A w \in Workers : Arrived(w)' = Arrived(w),
         mainPc' \notin {"lock", "push", "count"} => toPush' = <<>>
  PROVE  OrderInv'
<1>1. ASSUME NEW w \in Workers
      PROVE  Ordered(Arrived(w), w)' /\ Within(Arrived(w), received)'
  BY DEF OrderInv, Ordered, Within
<1>2. ASSUME NEW c \in ConnIds, WorkerOf(c) \in inAlive
      PROVE  Complete(Arrived(WorkerOf(c)), c, received[c])'
  BY <1>2, WorkerOfType DEF OrderInv, Complete
<1>3. QED
  BY <1>1, <1>2 DEF OrderInv

LEMMA OrderInit == Init => OrderInv
<1> SUFFICES ASSUME Init PROVE OrderInv
  OBVIOUS
<1>1. \A w \in Workers : Arrived(w) = <<>>
  BY DEF Init, Arrived, Line
<1>2. \A c \in ConnIds : received[c] = 0
  BY DEF Init
<1>3. QED
  BY <1>1, <1>2, WorkerOfType DEF OrderInv, Ordered, Within, Complete, Init

\* A main thread that has no nodes to push leaves what has arrived, whatever
\* worker it turns to.
LEMMA IdleKeeps ==
  ASSUME TypeOK, toPush = <<>>, toPush' = <<>>,
         UNCHANGED <<handled, batch, inList>>, NEW w \in Workers
  PROVE  Arrived(w)' = Arrived(w)
<1>1. Line(w) \in Seq(ConMsgNode)
  BY LineTypes
<1>2. Line(w) \o <<>> = Line(w)
  BY <1>1, ConcatEmptySeq
<1>3. Line(w)' = Line(w)
  BY DEF Line
<1>4. QED
  BY <1>2, <1>3 DEF Arrived

\* The nodes that a read callback completes are after all that its worker
\* was given, and received counts them.
LEMMA OrderRead ==
  ASSUME TypeOK, OrderInv, NEW c \in ConnIds, NEW n \in 0..MaxMsgs,
         WorkerOf(c) \in inAlive, ReadCallback(c, n)
  PROVE  OrderInv'
<1> DEFINE t == WorkerOf(c)
           N == NewNodes(c, received[c], n)
<1>1. /\ toPush = <<>> /\ toPush' = N /\ target' = t /\ mainPc' = "lock"
      /\ received' = [received EXCEPT ![c] = @ + n]
      /\ received[c] + n <= MaxMsgs
      /\ UNCHANGED <<handled, batch, inList, inAlive>>
  BY DEF ReadCallback, WorkerFor, NewNodes, OrderInv, streamVars, workVars
<1>2. received \in [ConnIds -> Nat] /\ n \in Nat
  BY DEF TypeOK
<1>3. \A w \in Workers :
        /\ Line(w)' = Line(w)
        /\ Line(w) \in Seq(ConMsgNode)
        /\ Line(w) \o <<>> = Line(w)
  <2>1. ASSUME NEW w \in Workers
        PROVE  Line(w) \in Seq(ConMsgNode) /\ Line(w) \o <<>> = Line(w)
    BY LineTypes, ConcatEmptySeq
  <2>2. QED
    BY <1>1, <2>1 DEF Line
<1>4. \A w \in Workers : Arrived(w) = Line(w)
  BY <1>1, <1>3 DEF Arrived
<1>5. t \in Workers
  BY WorkerOfType
<1>6. /\ Arrived(t)' = Line(t) \o N
      /\ \A w \in Workers : w # t => Arrived(w)' = Line(w)
  BY <1>1, <1>3, <1>5 DEF Arrived
<1>7. /\ Ordered(Line(t), t) /\ Within(Line(t), received)
      /\ Complete(Line(t), c, received[c])
  BY <1>4, <1>5 DEF OrderInv
<1>8. /\ Ordered(Line(t) \o N, t)
      /\ Within(Line(t) \o N, received')
      /\ \A d \in ConnIds : Complete(Line(t), d, received[d]) =>
                              Complete(Line(t) \o N, d, received'[d])
  BY <1>1, <1>2, <1>3, <1>5, <1>7, OrderedExtended
<1> HIDE DEF t, N
<1>9. ASSUME NEW w \in Workers
      PROVE  Ordered(Arrived(w), w)' /\ Within(Arrived(w), received)'
  <2>1. CASE w = t
    BY <1>6, <1>8, <2>1 DEF Ordered, Within
  <2>2. CASE w # t
    <3>1. Ordered(Line(w), w) /\ Within(Line(w), received)
      BY <1>4 DEF OrderInv
    <3>2. \A i \in 1..Len(Line(w)) :
            WorkerOf(Line(w)[i].mConnId) = w /\ Line(w)[i].mConnId \in ConnIds
      BY <1>3, <3>1, NodeType DEF Ordered
    <3>3. \A d \in ConnIds : WorkerOf(d) = w => received'[d] = received[d]
      BY <1>1, <1>2, <2>2 DEF t
    <3>4. Within(Line(w), received')
      BY <3>1, <3>2, <3>3 DEF Within
    <3>5. Arrived(w)' = Line(w)
      BY <1>6, <2>2
    <3>6. QED
      BY <3>1, <3>4, <3>5 DEF Ordered, Within
  <2>3. QED
    BY <2>1, <2>2
<1>10. ASSUME NEW d \in ConnIds, WorkerOf(d) \in inAlive'
       PROVE  Complete(Arrived(WorkerOf(d)), d, received[d])'
  <2>1. Complete(Line(WorkerOf(d)), d, received[d]) /\ WorkerOf(d) \in Workers
    BY <1>1, <1>4, <1>10, WorkerOfType DEF OrderInv
  <2>2. CASE WorkerOf(d) = t
    <3>1. Complete(Line(t) \o N, d, received'[d])
      BY <1>8, <2>1, <2>2
    <3>2. Arrived(WorkerOf(d))' = Line(t) \o N
      BY <1>6, <2>2
    <3>3. QED
      BY <3>1, <3>2 DEF Complete
  <2>3. CASE WorkerOf(d) # t
    <3>1. received'[d] = received[d]
      BY <1>1, <1>2, <2>3 DEF t
    <3>2. QED
      BY <1>6, <2>1, <2>3, <3>1 DEF Complete
  <2>4. QED
    BY <2>2, <2>3
<1>11. QED
  BY <1>1, <1>9, <1>10 DEF OrderInv

\* With the in-stream goes the end of the line of its worker: what is left is
\* still in order, and complete on the other workers.
LEMMA OrderDestroy ==
  ASSUME TypeOK, OrderInv, DestroyInStream
  PROVE  OrderInv'
<1>1. /\ toPush = <<>> /\ toPush' = <<>>
      /\ UNCHANGED <<received, target, handled, batch>>
      /\ inAlive' = inAlive \ {target}
      /\ \A w \in Workers : inList'[w] = IF w = target THEN <<>> ELSE inList[w]
  BY DEF DestroyInStream, OrderInv, TypeOK, workVars
<1>2. ASSUME NEW w \in Workers
      PROVE  /\ Line(w) \in Seq(ConMsgNode) /\ Line(w) \o <<>> = Line(w)
             /\ handled[w] \o batch[w] \in Seq(ConMsgNode)
             /\ (handled[w] \o batch[w]) \o <<>> = handled[w] \o batch[w]
  BY LineTypes, ConcatEmptySeq
<1>3. \A w \in Workers : Arrived(w) = Line(w)
  BY <1>1, <1>2 DEF Arrived
<1>4. \A w \in Workers :
        Arrived(w)' = IF w = target THEN handled[w] \o batch[w] ELSE Line(w)
  BY <1>1, <1>2 DEF Arrived, Line
<1>5. ASSUME NEW w \in Workers
      PROVE  Ordered(Arrived(w), w)' /\ Within(Arrived(w), received)'
  <2>1. Ordered(Line(w), w) /\ Within(Line(w), received)
    BY <1>3 DEF OrderInv
  <2> DEFINE L == handled[w] \o batch[w]
             R == inList[w]
  <2>2. L \in Seq(ConMsgNode) /\ R \in Seq(ConMsgNode) /\ Line(w) = L \o R
    BY <1>2, QueueTypes DEF Line
  <2> HIDE DEF L, R
  <2>3. Ordered(L \o R, w) /\ Within(L \o R, received)
    BY <2>1, <2>2
  <2>4. Ordered(L, w) /\ Within(L, received)
    BY <2>2, <2>3, OrderedPrefix
  <2>5. QED
    BY <1>1, <1>4, <2>1, <2>4 DEF Ordered, Within, L
<1>6. ASSUME NEW c \in ConnIds, WorkerOf(c) \in inAlive'
      PROVE  Complete(Arrived(WorkerOf(c)), c, received[c])'
  <2>1. /\ WorkerOf(c) \in Workers /\ WorkerOf(c) # target
        /\ Complete(Line(WorkerOf(c)), c, received[c])
    BY <1>1, <1>3, <1>6, WorkerOfType DEF OrderInv
  <2>2. QED
    BY <1>1, <1>4, <2>1 DEF Complete
<1>7. QED
  BY <1>1, <1>5, <1>6 DEF OrderInv

LEMMA OrderMain ==
  ASSUME IInv, OrderInv, MainNext
  PROVE  OrderInv'
<1> USE DEF mainVars, streamVars, workVars
<1>1. TypeOK /\ LifeInv
  BY DEF IInv
<1>2. ASSUME NEW c \in ConnIds, NEW n \in 0..MaxMsgs, ReadCallback(c, n)
      PROVE  OrderInv'
  <2>1. WorkerOf(c) \in inAlive
    BY <1>1, <1>2, WorkerOfType DEF LifeInv, ReadCallback
  <2>2. QED
    BY <1>1, <1>2, <2>1, OrderRead
<1>3. CASE InsertNode
  <2>1. \A w \in Workers : Arrived(w)' = Arrived(w)
    BY <1>3, InsertKeeps
  <2>2. UNCHANGED <<received, inAlive>> /\ mainPc' = "count"
    BY <1>3 DEF InsertNode
  <2>3. QED
    BY <2>1, <2>2, OrderKept
<1>4. CASE DestroyInStream
  BY <1>1, <1>4, OrderDestroy
<1>5. CASE MainLock \/ InsertCount
  <2>1. /\ UNCHANGED <<received, inAlive, toPush, target, handled, batch, inList>>
        /\ mainPc' = "push"
    BY <1>5 DEF MainLock, InsertCount
  <2>2. \A w \in Workers : Arrived(w)' = Arrived(w)
    BY <2>1 DEF Arrived, Line
  <2>3. QED
    BY <2>1, <2>2, OrderKept
<1>6. CASE MainUnlock \/ Exit \/ SetShutDown \/ Join
  <2>1. /\ UNCHANGED <<received, inAlive, handled, batch, inList>>
        /\ toPush = <<>> /\ toPush' = <<>>
    BY <1>6 DEF MainUnlock, Exit, SetShutDown, Join, OrderInv
  <2>2. \A w \in Workers : Arrived(w)' = Arrived(w)
    BY <1>1, <2>1, IdleKeeps
  <2>3. QED
    BY <2>1, <2>2, OrderKept
<1>7. QED
  BY <1>2, <1>3, <1>4, <1>5, <1>6 DEF MainNext, MainStep

LEMMA OrderNext == IInv /\ OrderInv /\ [Next]_vars => OrderInv'
<1> SUFFICES ASSUME IInv, OrderInv, [Next]_vars PROVE OrderInv'
  OBVIOUS
<1>1. CASE MainNext
  BY <1>1, OrderMain
<1>2. ASSUME NEW w \in Workers, WorkerStep(w)
      PROVE  OrderInv'
  <2>1. UNCHANGED mainVars /\ inAlive' = inAlive
    BY <1>2 DEF WorkerStep, ThreadLoop, PopBegin, WorkerLock, PopNothing, TakeNode,
                TakeCount, WorkerUnlock, HandleMsg, Fault
  <2>2. UNCHANGED <<received, inAlive, mainPc, target, toPush>>
    BY <2>1 DEF mainVars
  <2>3. \A v \in Workers : Line(v)' = Line(v)
    BY <1>2, LineKept
  <2>4. \A v \in Workers : Arrived(v)' = Arrived(v)
    BY <2>2, <2>3 DEF Arrived
  <2>5. mainPc' \notin {"lock", "push", "count"} => toPush' = <<>>
    BY <2>2 DEF OrderInv
  <2>6. QED
    BY <2>2, <2>4, <2>5, OrderKept
<1>3. CASE UNCHANGED vars
  <2>1. UNCHANGED <<received, inAlive, mainPc, target, toPush, handled, batch, inList>>
    BY <1>3 DEF vars, mainVars, streamVars, workVars
  <2>2. \A w \in Workers : Arrived(w)' = Arrived(w)
    BY <2>1 DEF Arrived, Line
  <2>3. mainPc' \notin {"lock", "push", "count"} => toPush' = <<>>
    BY <2>1 DEF OrderInv
  <2>4. QED
    BY <2>1, <2>2, <2>3, OrderKept
<1>4. QED
  BY <1>1, <1>2, <1>3 DEF Next

LEMMA OrderInvariance == Spec => [](IInv /\ OrderInv)
<1>1. Init => IInv /\ OrderInv
  BY InitInv, OrderInit
<1>2. (IInv /\ OrderInv) /\ [Next]_vars => (IInv /\ OrderInv)'
  BY NextInv, OrderNext
<1>3. QED
  BY <1>1, <1>2, PTL DEF Spec
------------------------------------------------------------------------------
\* What was handled is the beginning of what has arrived.
LEMMA HandledOrdered ==
  ASSUME TypeOK, OrderInv, NEW w \in Workers
  PROVE  Ordered(handled[w], w)
<1> DEFINE h == handled[w]
           b == batch[w]
           l == inList[w]
           p == IF target = w THEN toPush ELSE <<>>
<1>1. /\ h \in Seq(ConMsgNode) /\ b \in Seq(ConMsgNode) /\ l \in Seq(ConMsgNode)
      /\ p \in Seq(ConMsgNode)
  BY QueueTypes
<1>2. Ordered(((h \o b) \o l) \o p, w) /\ Within(((h \o b) \o l) \o p, received)
  BY DEF OrderInv, Arrived, Line
<1> HIDE DEF h, b, l, p
<1>3. h \o b \in Seq(ConMsgNode) /\ (h \o b) \o l \in Seq(ConMsgNode)
  BY <1>1
<1>4. Ordered((h \o b) \o l, w) /\ Within((h \o b) \o l, received)
  BY <1>1, <1>2, <1>3, OrderedPrefix
<1>5. Ordered(h \o b, w) /\ Within(h \o b, received)
  BY <1>1, <1>3, <1>4, OrderedPrefix
<1>6. Ordered(h, w)
  BY <1>1, <1>5, OrderedPrefix
<1>7. QED
  BY <1>6 DEF h

\* The messages of a connection are handled by one worker, in the order in
\* which they were received, each once.
THEOREM OrderCorrect == Spec => []InOrder
<1>1. IInv /\ OrderInv => InOrder
  <2> SUFFICES ASSUME TypeOK, OrderInv PROVE InOrder
    BY DEF IInv
  <2>1. ASSUME NEW w \in Workers, NEW i \in 1..Len(handled[w])
        PROVE  /\ WorkerOf(handled[w][i].mConnId) = w
               /\ \A j \in 1..(i - 1) :
                    handled[w][j].mConnId = handled[w][i].mConnId =>
                      handled[w][j].seq < handled[w][i].seq
               /\ handled[w][i].seq > 1 =>
                    \E j \in 1..(i - 1) :
                      handled[w][j] =
                        [handled[w][i] EXCEPT !.seq = handled[w][i].seq - 1]
    <3>1. Ordered(handled[w], w) /\ Len(handled[w]) \in Nat
      BY HandledOrdered, QueueTypes
    <3>2. \A j \in 1..(i - 1) : j \in 1..Len(handled[w]) /\ j < i
      BY <3>1
    <3>3. QED
      BY <3>1, <3>2 DEF Ordered
  <2>2. QED
    BY <2>1 DEF InOrder
<1>2. QED
  BY <1>1, OrderInvariance, PTL

\* Until its worker's in-stream is destroyed, a message that was received is
\* with one of the two threads.
THEOREM NothingLostCorrect == Spec => []NothingLost
<1>1. IInv /\ OrderInv => NothingLost
  <2> SUFFICES ASSUME TypeOK, OrderInv, NEW c \in ConnIds,
                      NEW s \in 1..received[c], WorkerOf(c) \in inAlive
               PROVE  LET m == [mConnId |-> c, seq |-> s]
                      IN \/ \E i \in 1..Len(toPush) : toPush[i] = m
                         \/ \E i \in 1..Len(Line(WorkerOf(c))) :
                              Line(WorkerOf(c))[i] = m
    BY DEF IInv, NothingLost
  <2> DEFINE L == Line(WorkerOf(c))
             P == IF target = WorkerOf(c) THEN toPush ELSE <<>>
             m == [mConnId |-> c, seq |-> s]
  <2>1. WorkerOf(c) \in Workers
    BY WorkerOfType
  <2>2. L \in Seq(ConMsgNode) /\ P \in Seq(ConMsgNode)
    BY <2>1, LineTypes, QueueTypes
  <2>3. PICK i \in 1..Len(L \o P) : (L \o P)[i] = m
    BY <2>1 DEF OrderInv, Complete, Arrived
  <2>4. /\ Len(L) \in Nat
        /\ i <= Len(L) => (L \o P)[i] = L[i]
        /\ i > Len(L) => i - Len(L) \in 1..Len(P) /\ (L \o P)[i] = P[i - Len(L)]
    <3> HIDE DEF L, P
    <3>1. QED
      BY <2>2, ConcatParts
  <2>5. CASE i <= Len(L)
    BY <2>3, <2>4, <2>5
  <2>6. CASE i > Len(L)
    <3>1. \E k \in 1..Len(P) : P[k] = m
      BY <2>3, <2>4, <2>6
    <3>2. P = toPush
      BY <3>1
    <3>3. QED
      BY <3>1, <3>2
  <2>7. QED
    BY <2>4, <2>5, <2>6
<1>2. QED
  BY <1>1, OrderInvariance, PTL
==============================================================================
