------------------------------ MODULE Lifecycle ------------------------------
(***************************************************************************)
(* The life of the process: the static NetWorkSystem is constructed, which *)
(* constructs the NetWorkers and starts their threads, main calls initial  *)
(* and run, and at exit the NetWorkers are destroyed and joined. It ends   *)
(* early when bind fails. What crosses the two kinds of threads here is    *)
(* the static table of MsgHandler, which every NetWorker clears and fills  *)
(* again in its constructor, the virtual function that a thread calls when *)
(* it begins to run, and m_nShutDown. The in-stream, whose own end is in   *)
(* NetWorker, is only the list of the identifiers to handle.               *)
(***************************************************************************)
EXTENDS Integers, Sequences

CONSTANTS
  NWorkers,   \* size of m_pNetWorkers (2 in the code)
  MaxId,      \* MAXMESSAGEID (1024 in the code)
  ClientIds,  \* identifiers that the clients send and dealReadEvent accepts
  TestMsgsId, \* TESTMSGSID (0 in the code)
  MaxMsgs     \* bound: messages received

ASSUME LifecycleConstants ==
  /\ NWorkers \in Nat \ {0}
  /\ MaxId \in Nat \ {0}
  /\ ClientIds \subseteq 0..MaxId
  /\ TestMsgsId \in 0..(MaxId - 1)
  /\ MaxMsgs \in Nat

Workers == 0..(NWorkers - 1)

VARIABLES
  mainPc,   \* where the main thread is
  target,   \* the NetWorker it constructs or destroys
  table,    \* m_hHandlers
  object,   \* the class whose virtual functions each NetWorker has
  shutDown, \* NetWorkers with m_nShutDown set
  threadPc, \* where the thread of each NetWorker is
  work,     \* identifiers of the messages given to a NetWorker
  received  \* messages received (bounded by MaxMsgs)

mainVars == <<mainPc, target>>
vars == <<mainVars, table, object, shutDown, threadPc, work, received>>

MainPC == {"construct", "clear", "register", "startup", "started", "initial", "run",
           "delete", "base", "join", "end"}
ThreadPC == {"none", "begin", "loop", "exited", "purecall", "nullcall"}

Init ==
  /\ mainPc = "construct"
  /\ target = 0
  /\ table = [id \in 0..MaxId |-> "null"]
  /\ object = [w \in Workers |-> "none"]
  /\ shutDown = {}
  /\ threadPc = [w \in Workers |-> "none"]
  /\ work = [w \in Workers |-> <<>>]
  /\ received = 0
------------------------------------------------------------------------------
(* Construction *)

\* Mutant of ConstructBase: the constructor of BaseThread starts the thread.
StartInConstructor ==
  /\ mainPc = "construct"
  /\ object' = [object EXCEPT ![target] = "BaseThread"]
  /\ threadPc' = [threadPc EXCEPT ![target] = "begin"]
  /\ mainPc' = "clear"
  /\ UNCHANGED <<target, table, shutDown, work, received>>

\* new NetWorker constructs its base first, in which threadWorkFunc is pure.
ConstructBase ==
  /\ mainPc = "construct"
  /\ object' = [object EXCEPT ![target] = "BaseThread"]
  /\ mainPc' = "clear"
  /\ UNCHANGED <<target, table, shutDown, threadPc, work, received>>

\* In the constructor of NetWorker, registerMsgs clears the table, but for its
\* last entry ...
ClearTable ==
  /\ mainPc = "clear"
  /\ object' = [object EXCEPT ![target] = "NetWorker"]
  /\ table' = [id \in 0..MaxId |-> IF id < MaxId THEN "null" ELSE table[id]]
  /\ mainPc' = "register"
  /\ UNCHANGED <<target, shutDown, threadPc, work, received>>

\* Mutant of RegisterTestMsgs: only the first NetWorker registers handlers.
RegisterOnce ==
  /\ mainPc = "register"
  /\ table' = IF target = 0 THEN [table EXCEPT ![TestMsgsId] = "HandleTestMsg"]
              ELSE table
  /\ mainPc' = "startup"
  /\ UNCHANGED <<target, object, shutDown, threadPc, work, received>>

\* ... and registers the only handler there is.
RegisterTestMsgs ==
  /\ mainPc = "register"
  /\ table' = [table EXCEPT ![TestMsgsId] = "HandleTestMsg"]
  /\ mainPc' = "startup"
  /\ UNCHANGED <<target, object, shutDown, threadPc, work, received>>

\* startup: the thread is created, or an error is printed and there is none.
Startup ==
  /\ mainPc = "startup"
  /\ mainPc' = "started"
  /\ \/ threadPc' = [threadPc EXCEPT ![target] = "begin"]
     \/ UNCHANGED threadPc
  /\ UNCHANGED <<target, table, object, shutDown, work, received>>

\* The next worker, or the first again when it was the last.
NextTarget == IF target + 1 \in Workers THEN target + 1 ELSE 0

\* startup returns to the loop in the constructor of NetWorkSystem.
StartupReturns ==
  /\ mainPc = "started"
  /\ mainPc' = IF NextTarget = 0 THEN "initial" ELSE "construct"
  /\ target' = NextTarget
  /\ UNCHANGED <<table, object, shutDown, threadPc, work, received>>
------------------------------------------------------------------------------
(* main *)

\* initial succeeds, or socket or bind fails and main returns.
Initial ==
  /\ mainPc = "initial"
  /\ mainPc' \in {"run", "delete"}
  /\ UNCHANGED <<target, table, object, shutDown, threadPc, work, received>>

\* A message is received in run and given to a worker.
Receive(w, id) ==
  /\ mainPc = "run"
  /\ received < MaxMsgs
  /\ received' = received + 1
  /\ work' = [work EXCEPT ![w] = Append(@, id)]
  /\ UNCHANGED <<mainVars, table, object, shutDown, threadPc>>

\* run and release return, then main.
RunReturns ==
  /\ mainPc = "run"
  /\ mainPc' = "delete"
  /\ UNCHANGED <<target, table, object, shutDown, threadPc, work, received>>

\* ~NetWorker.
SetShutDown ==
  /\ mainPc = "delete"
  /\ shutDown' = shutDown \cup {target}
  /\ mainPc' = "base"
  /\ UNCHANGED <<target, table, object, threadPc, work, received>>

\* ~BaseThread begins: the object is no more than a BaseThread, in which
\* threadWorkFunc is pure.
DestroyBase ==
  /\ mainPc = "base"
  /\ object' = [object EXCEPT ![target] = "BaseThread"]
  /\ mainPc' = "join"
  /\ UNCHANGED <<target, table, shutDown, threadPc, work, received>>

\* Mutant of JoinReturns: it waits also when there is no thread.
JoinAlways(w) == threadPc[w] = "exited"

\* join has nothing to wait for when m_nId is 0.
JoinReturns(w) == threadPc[w] \in {"none", "exited"}

Join ==
  /\ mainPc = "join"
  /\ JoinReturns(target)
  /\ object' = [object EXCEPT ![target] = "none"]
  /\ mainPc' = IF NextTarget = 0 THEN "end" ELSE "delete"
  /\ target' = NextTarget
  /\ UNCHANGED <<table, shutDown, threadPc, work, received>>

MainStep ==
  \/ ConstructBase \/ ClearTable \/ RegisterTestMsgs \/ Startup
  \/ StartupReturns \/ Initial \/ SetShutDown \/ DestroyBase \/ Join
------------------------------------------------------------------------------
(* The thread of worker w *)

\* threadFunc calls the virtual function threadWorkFunc.
CallWorkFunc(w) ==
  /\ threadPc[w] = "begin"
  /\ threadPc' = [threadPc EXCEPT ![w] =
                    IF object[w] = "NetWorker" THEN "loop" ELSE "purecall"]
  /\ UNCHANGED <<mainVars, table, object, shutDown, work, received>>

\* handleMsg calls the handler in the table, also when there is none.
HandleMsg(w) ==
  /\ threadPc[w] = "loop"
  /\ work[w] # <<>>
  /\ work' = [work EXCEPT ![w] = Tail(@)]
  /\ threadPc' = [threadPc EXCEPT ![w] =
                    IF table[Head(work[w])] = "null" THEN "nullcall" ELSE @]
  /\ UNCHANGED <<mainVars, table, object, shutDown, received>>

\* threadWorkFunc returns.
LeaveLoop(w) ==
  /\ threadPc[w] = "loop"
  /\ w \in shutDown
  /\ threadPc' = [threadPc EXCEPT ![w] = "exited"]
  /\ UNCHANGED <<mainVars, table, object, shutDown, work, received>>

ThreadStep(w) == CallWorkFunc(w) \/ HandleMsg(w) \/ LeaveLoop(w)

\* A call of a pure function or of a null handler ends the process.
Dead == \E w \in Workers : threadPc[w] \in {"purecall", "nullcall"}

Next ==
  /\ ~ Dead
  /\ \/ MainStep \/ RunReturns
     \/ \E w \in Workers : ThreadStep(w) \/ \E id \in ClientIds : Receive(w, id)

Spec == Init /\ [][Next]_vars

\* Threads that can run do. run need not return.
FairSpec ==
  /\ Spec
  /\ WF_vars(~ Dead /\ MainStep)
  /\ \A w \in Workers : WF_vars(~ Dead /\ ThreadStep(w))
------------------------------------------------------------------------------
TypeOK ==
  /\ mainPc \in MainPC
  /\ target \in Workers
  /\ table \in [0..MaxId -> {"null", "HandleTestMsg"}]
  /\ object \in [Workers -> {"none", "NetWorker", "BaseThread"}]
  /\ shutDown \subseteq Workers
  /\ threadPc \in [Workers -> ThreadPC]
  /\ work \in [Workers -> Seq(0..MaxId)]
  /\ received \in 0..MaxMsgs

\* Although a constructor clears the table that the threads started before it
\* read, no thread finds a test message without its handler.
TestMsgRegistered ==
  \A w \in Workers : \A i \in 1..Len(work[w]) :
    work[w][i] = TestMsgsId => table[TestMsgsId] # "null"

\* A thread finds threadWorkFunc pure only if it had not begun to run when the
\* destruction of its NetWorker had come to ~BaseThread. It never does while
\* NetWorkers are constructed, whose bases are BaseThreads at first, nor while
\* messages are handled, nor on an object that is already deleted. At that
\* moment the threads of the NetWorkers destroyed before have ended, and the
\* others are whole and not told to end.
PureCallOnlyAtExit ==
  \A w \in Workers : threadPc[w] = "purecall" =>
    /\ mainPc = "join" /\ target = w
    /\ \A v \in Workers :
         /\ v < w => object[v] = "none" /\ threadPc[v] \in {"none", "exited"}
         /\ v > w => object[v] = "NetWorker" /\ v \notin shutDown

\* The process ends after bind has failed or run has returned, whichever
\* threads could not be created, unless a thread dies of a bad call.
ExitEnds == mainPc = "delete" ~> mainPc = "end" \/ Dead

\* What the test clients expect: a worker gets through the messages they send.
ClientMsgsHandled == \A w \in Workers : threadPc[w] # "nullcall"
==============================================================================
