--------------------------- MODULE Lifecycle_proofs ---------------------------
(***************************************************************************)
(* The safety of construction and exit for every number of workers,        *)
(* identifiers and messages.                                               *)
(***************************************************************************)
EXTENDS Lifecycle, TLAPS

\* Messages exist only once all workers are constructed, and from the moment
\* the table is filled for the last time until the end it has the handler.
TableReady ==
  /\ mainPc \in {"construct", "clear", "register", "startup", "started", "initial"} =>
       \A w \in Workers : work[w] = <<>>
  /\ mainPc \notin {"construct", "clear", "register"} =>
       table[TestMsgsId] = "HandleTestMsg"

\* A NetWorker before its construction, between construction and destruction,
\* and after it.
Unbuilt(w) == object[w] = "none" /\ w \notin shutDown /\ threadPc[w] = "none"
Whole(w) == object[w] = "NetWorker" /\ w \notin shutDown
Gone(w) == object[w] = "none" /\ threadPc[w] \in {"none", "exited"}

\* Construction and destruction go through the NetWorkers in the same order.
Objects ==
  /\ mainPc \in {"construct", "clear", "register", "startup", "started"} =>
       \A w \in Workers : (w < target => Whole(w)) /\ (w > target => Unbuilt(w))
  /\ mainPc = "construct" => Unbuilt(target)
  /\ mainPc = "clear" =>
       /\ object[target] = "BaseThread"
       /\ target \notin shutDown
       /\ threadPc[target] = "none"
  /\ mainPc \in {"register", "startup", "started"} => Whole(target)
  /\ mainPc \in {"initial", "run"} => target = 0 /\ \A w \in Workers : Whole(w)
  /\ mainPc = "delete" /\ target = 0 => \A w \in Workers : Whole(w)
  /\ mainPc \in {"delete", "base", "join"} =>
       \A w \in Workers : (w < target => Gone(w)) /\ (w > target => Whole(w))
  /\ mainPc \in {"delete", "base"} => object[target] = "NetWorker"
  /\ mainPc = "end" => \A w \in Workers : Gone(w)

IInv == TypeOK /\ TableReady /\ Objects /\ PureCallOnlyAtExit
------------------------------------------------------------------------------
LEMMA TargetType == target \in Workers => NextTarget \in Workers
  BY LifecycleConstants DEF NextTarget, Workers

LEMMA QueueType ==
  ASSUME NEW S, NEW s \in Seq(S)
  PROVE  /\ \A e \in S : Append(s, e) \in Seq(S)
         /\ s # <<>> => Tail(s) \in Seq(S) /\ Head(s) \in S
  OBVIOUS

LEMMA InitInv == Init => IInv
  BY LifecycleConstants DEF Init, IInv, TypeOK, TableReady, Objects, Unbuilt,
     PureCallOnlyAtExit, MainPC, ThreadPC, Workers

LEMMA TypeStep == TypeOK /\ [Next]_vars => TypeOK'
<1> SUFFICES ASSUME TypeOK, [Next]_vars PROVE TypeOK'
  OBVIOUS
<1> USE LifecycleConstants DEF TypeOK, mainVars
<1>1. CASE UNCHANGED vars
  BY <1>1 DEF vars
<1>2. CASE ConstructBase \/ ClearTable \/ RegisterTestMsgs
  BY <1>2 DEF ConstructBase, ClearTable, RegisterTestMsgs, MainPC
<1>3. CASE Startup
  BY <1>3 DEF Startup, MainPC, ThreadPC
<1>4. CASE StartupReturns
  BY <1>4, TargetType DEF StartupReturns, MainPC
<1>5. CASE Initial \/ RunReturns \/ SetShutDown \/ DestroyBase
  BY <1>5 DEF Initial, RunReturns, SetShutDown, DestroyBase, MainPC
<1>6. CASE Join
  BY <1>6, TargetType DEF Join, MainPC
<1>7. ASSUME NEW w \in Workers, NEW id \in ClientIds, Receive(w, id) PROVE TypeOK'
  <2>1. work' \in [Workers -> Seq(0..MaxId)]
    BY <1>7, QueueType DEF Receive
  <2> QED
    BY <1>7, <2>1 DEF Receive
<1>8. ASSUME NEW w \in Workers, CallWorkFunc(w) \/ LeaveLoop(w) PROVE TypeOK'
  BY <1>8 DEF CallWorkFunc, LeaveLoop, ThreadPC
<1>9. ASSUME NEW w \in Workers, HandleMsg(w) PROVE TypeOK'
  <2>1. work' \in [Workers -> Seq(0..MaxId)]
    BY <1>9, QueueType DEF HandleMsg
  <2> QED
    BY <1>9, <2>1 DEF HandleMsg, ThreadPC
<1> QED
  BY <1>1, <1>2, <1>3, <1>4, <1>5, <1>6, <1>7, <1>8, <1>9 DEF Next, MainStep, ThreadStep

LEMMA ReadyStep == TypeOK /\ TableReady /\ [Next]_vars => TableReady'
<1> SUFFICES ASSUME TypeOK, TableReady, [Next]_vars PROVE TableReady'
  OBVIOUS
<1> USE LifecycleConstants DEF TypeOK, TableReady, mainVars
<1>1. CASE UNCHANGED vars
  BY <1>1 DEF vars
<1>2. CASE ConstructBase \/ ClearTable
  BY <1>2 DEF ConstructBase, ClearTable
<1>3. CASE RegisterTestMsgs
  BY <1>3 DEF RegisterTestMsgs
<1>4. CASE Startup \/ StartupReturns \/ Initial \/ RunReturns \/ SetShutDown \/ DestroyBase \/ Join
  BY <1>4 DEF Startup, StartupReturns, Initial, RunReturns, SetShutDown, DestroyBase, Join
<1>5. ASSUME NEW w \in Workers, NEW id \in ClientIds, Receive(w, id) PROVE TableReady'
  BY <1>5 DEF Receive
<1>6. ASSUME NEW w \in Workers, ThreadStep(w) PROVE TableReady'
  BY <1>6 DEF ThreadStep, CallWorkFunc, HandleMsg, LeaveLoop
<1> QED
  BY <1>1, <1>2, <1>3, <1>4, <1>5, <1>6 DEF Next, MainStep

\* The workers before the next one are those up to this one.
LEMMA Order ==
  ASSUME TypeOK
  PROVE  /\ target \in Nat /\ 0 \in Workers
         /\ \A w \in Workers : w \in Nat /\ ~(w < 0)
         /\ NextTarget = 0 => \A w \in Workers : w < target \/ w = target
         /\ NextTarget # 0 =>
              /\ NextTarget = target + 1
              /\ \A w \in Workers : /\ w < NextTarget => w < target \/ w = target
                                    /\ w > NextTarget => w > target
              /\ NextTarget > target
  BY LifecycleConstants DEF TypeOK, NextTarget, Workers

LEMMA ObjectsStep == TypeOK /\ Objects /\ [Next]_vars => Objects'
<1> SUFFICES ASSUME TypeOK, Objects, [Next]_vars PROVE Objects'
  OBVIOUS
<1> USE Order DEF TypeOK, Objects, Unbuilt, Whole, Gone, mainVars
<1>1. CASE UNCHANGED vars
  BY <1>1 DEF vars
<1>2. CASE ConstructBase
  BY <1>2 DEF ConstructBase
<1>3. CASE ClearTable
  BY <1>3 DEF ClearTable
<1>4. CASE RegisterTestMsgs
  BY <1>4 DEF RegisterTestMsgs
<1>5. CASE Startup
  BY <1>5 DEF Startup
<1>6. CASE StartupReturns
  <2>1. CASE NextTarget = 0
    BY <1>6, <2>1 DEF StartupReturns
  <2>2. CASE NextTarget # 0
    BY <1>6, <2>2, TargetType DEF StartupReturns
  <2> QED
    BY <2>1, <2>2
<1>7. CASE Initial \/ RunReturns
  BY <1>7 DEF Initial, RunReturns
<1>8. CASE SetShutDown
  BY <1>8 DEF SetShutDown
<1>9. CASE DestroyBase
  BY <1>9 DEF DestroyBase
<1>10. CASE Join
  <2>1. CASE NextTarget = 0
    BY <1>10, <2>1 DEF Join, JoinReturns
  <2>2. CASE NextTarget # 0
    BY <1>10, <2>2, TargetType DEF Join, JoinReturns
  <2> QED
    BY <2>1, <2>2
<1>11. ASSUME NEW w \in Workers, NEW id \in ClientIds, Receive(w, id) PROVE Objects'
  BY <1>11 DEF Receive
<1>12. ASSUME NEW w \in Workers, ThreadStep(w) PROVE Objects'
  <2>1. /\ UNCHANGED <<mainPc, target, object, shutDown>>
        /\ threadPc[w] \notin {"none", "exited"}
        /\ \A v \in Workers : v # w => threadPc'[v] = threadPc[v]
    BY <1>12 DEF ThreadStep, CallWorkFunc, HandleMsg, LeaveLoop
  <2>2. \A v \in Workers : /\ Whole(v)' <=> Whole(v)
                           /\ Unbuilt(v) => Unbuilt(v)'
                           /\ Gone(v) => Gone(v)'
    BY <2>1
  <2>3. mainPc = "clear" => threadPc'[target] = "none"
    BY <2>1
  <2> QED
    BY <2>1, <2>2, <2>3
<1> QED
  BY <1>1, <1>2, <1>3, <1>4, <1>5, <1>6, <1>7, <1>8, <1>9, <1>10, <1>11, <1>12
  DEF Next, MainStep

\* A thread that begins to run finds a BaseThread only in ~BaseThread.
LEMMA PureOnlyInJoin ==
  ASSUME TypeOK, Objects, NEW w \in Workers,
         threadPc[w] = "begin", object[w] # "NetWorker"
  PROVE  mainPc = "join" /\ target = w
<1> USE DEF TypeOK
<1>1. w < target \/ w = target \/ w > target
  BY Order
<1>2. ~ Unbuilt(w) /\ ~ Whole(w) /\ ~ Gone(w)
  BY DEF Unbuilt, Whole, Gone
<1>3. mainPc \notin {"initial", "run", "end"}
  BY <1>2 DEF Objects
<1>4. w = target
  BY <1>1, <1>2, <1>3 DEF Objects, MainPC
<1>5. mainPc \notin {"construct", "clear", "register", "startup", "started", "delete", "base"}
  BY <1>2, <1>4 DEF Objects
<1> QED
  BY <1>3, <1>4, <1>5 DEF MainPC

LEMMA PureCallStep ==
  TypeOK /\ Objects /\ PureCallOnlyAtExit /\ [Next]_vars => PureCallOnlyAtExit'
<1> SUFFICES ASSUME TypeOK, Objects, PureCallOnlyAtExit, Next PROVE PureCallOnlyAtExit'
  BY DEF PureCallOnlyAtExit, vars, mainVars
<1>1. \A v \in Workers : threadPc[v] # "purecall"
  BY DEF Next, Dead
<1>2. CASE MainStep \/ RunReturns \/ \E w \in Workers : \E id \in ClientIds : Receive(w, id)
  <2>1. \A v \in Workers : threadPc'[v] # "purecall"
    BY <1>1, <1>2 DEF MainStep, ConstructBase, ClearTable, RegisterTestMsgs, Startup,
       StartupReturns, Initial, SetShutDown, DestroyBase, Join, RunReturns, Receive, TypeOK
  <2> QED
    BY <2>1 DEF PureCallOnlyAtExit
<1>3. ASSUME NEW w \in Workers, HandleMsg(w) \/ LeaveLoop(w) PROVE PureCallOnlyAtExit'
  BY <1>1, <1>3 DEF HandleMsg, LeaveLoop, PureCallOnlyAtExit, TypeOK
<1>4. ASSUME NEW w \in Workers, CallWorkFunc(w) PROVE PureCallOnlyAtExit'
  <2> SUFFICES ASSUME NEW u \in Workers, threadPc'[u] = "purecall"
               PROVE  /\ mainPc' = "join" /\ target' = u
                      /\ \A v \in Workers :
                           /\ v < u =>
                                object'[v] = "none" /\ threadPc'[v] \in {"none", "exited"}
                           /\ v > u => object'[v] = "NetWorker" /\ v \notin shutDown'
    BY DEF PureCallOnlyAtExit
  <2>1. u = w /\ threadPc[w] = "begin" /\ object[w] # "NetWorker"
    BY <1>1, <1>4 DEF CallWorkFunc, TypeOK
  <2>2. mainPc = "join" /\ target = w
    BY <2>1, PureOnlyInJoin
  <2> QED
    BY <1>4, <2>1, <2>2, Order DEF CallWorkFunc, Objects, Gone, Whole, TypeOK, mainVars
<1> QED
  BY <1>2, <1>3, <1>4 DEF Next, ThreadStep
------------------------------------------------------------------------------
\* The invariant holds in every reachable state.
THEOREM Invariant == Spec => []IInv
<1>1. IInv /\ [Next]_vars => IInv'
  BY TypeStep, ReadyStep, ObjectsStep, PureCallStep DEF IInv
<1> QED
  BY InitInv, <1>1, PTL DEF Spec

\* Types: in particular the loops over m_pNetWorkers stay inside the array.
THEOREM TypeCorrect == Spec => []TypeOK
<1>1. IInv => TypeOK
  BY DEF IInv
<1> QED
  BY Invariant, <1>1, PTL

\* No thread finds a test message without its handler, however many
\* constructors clear the table that the threads read.
THEOREM RegisteredCorrect == Spec => []TestMsgRegistered
<1>1. IInv => TestMsgRegistered
  BY DEF IInv, TableReady, TestMsgRegistered
<1> QED
  BY Invariant, <1>1, PTL

\* Of the threads that begin to run only one whose NetWorker is being joined
\* finds the function pure: not while the constructors make BaseThreads
\* NetWorkers, and not on an object already deleted.
THEOREM PureCallCorrect == Spec => []PureCallOnlyAtExit
<1>1. IInv => PureCallOnlyAtExit
  BY DEF IInv
<1> QED
  BY Invariant, <1>1, PTL
==============================================================================
