------------------------- MODULE NetWorkSystem_proofs -------------------------
(***************************************************************************)
(* The invariants of NetWorkSystem for every number of descriptors,        *)
(* addresses, workers, connections and messages.                           *)
(*                                                                         *)
(* TablesAgree is nearly inductive: it needs that identifiers above        *)
(* m_nConnId are not in use yet (Fresh). ReleaseDeletesAll needs that the  *)
(* handlers stay in the table by descriptor until the loop of release runs *)
(* (Deletable), and LookupStaysGood that a busy worker has a message       *)
(* (Busy).                                                                 *)
(***************************************************************************)
EXTENDS NetWorkSystem, TLAPS

Fresh ==
  /\ \A c \in Conns : c <= nConnId => bevFd[c] \in Fds
  /\ \A c \in Conns : c > nConnId => conHandlers[c] = Null
  /\ \A a \in Addrs : handlers[a] # Null => handlers[a] <= nConnId
  /\ \A fd \in Fds : socket[fd] # Null => socket[fd] <= nConnId
  /\ \A w \in Workers : \A i \in 1..Len(work[w]) : work[w][i] <= nConnId

Busy == \A w \in Workers : workPc[w] \in {"write", "enable"} => work[w] # <<>>

Deletable ==
  mainPc \in {"run", "delete"} =>
    \A a \in Addrs : handlers[a] # Null => \E fd \in Fds : tcpHandlers[fd] = a

IInv ==
  /\ TypeOK /\ Fresh /\ Busy
  /\ TablesAgree /\ Deletable /\ ReleaseDeletesAll
  /\ LookupStaysGood
------------------------------------------------------------------------------
(* The sequence operators on elements up to n. *)

LEMMA HeadTail ==
  ASSUME NEW S, NEW s \in Seq(S), s # <<>>
  PROVE  Head(s) \in S /\ Tail(s) \in Seq(S) /\ Head(s) = s[1] /\ 1 \in 1..Len(s)
         /\ Len(Tail(s)) = Len(s) - 1
         /\ \A i \in 1..Len(Tail(s)) : Tail(s)[i] = s[i + 1]
  OBVIOUS

LEMMA Appended ==
  ASSUME NEW S, NEW s \in Seq(S), NEW e \in S
  PROVE  /\ Append(s, e) \in Seq(S)
         /\ Len(Append(s, e)) = Len(s) + 1
         /\ \A i \in 1..Len(s) : Append(s, e)[i] = s[i]
         /\ Append(s, e)[Len(s) + 1] = e
         /\ s # <<>> => Head(Append(s, e)) = Head(s)
  OBVIOUS

\* What epoll watches stays a set of events.
LEMMA WatchType ==
  ASSUME watch \in [Fds -> SUBSET {"read", "write"}],
         NEW fd, NEW fdOf, NEW reads, NEW writes
  PROVE  NewWatch(fd, fdOf, reads, writes) \in [Fds -> SUBSET {"read", "write"}]
  BY DEF NewWatch, Interest

LEMMA InitInv == Init => IInv
  BY Constants DEF Init, IInv, TypeOK, Fresh, Busy, TablesAgree, Deletable,
     ReleaseDeletesAll, LookupStaysGood, Conns
------------------------------------------------------------------------------
(* Types. The steps of one action name what it changes; the rest of TypeOK  *)
(* is about variables it leaves alone.                                      *)

LEMMA TypeReport ==
  ASSUME TypeOK, NEW fd \in Fds, Report(fd)
  PROVE  TypeOK'
<1>1. active' \subseteq {"read", "write"} \X (1..nConnId)
  BY DEF Report, TypeOK
<1>2. UNCHANGED <<mainVars, socket, bevVars, tableVars, workVars, sent, bev>>
  BY DEF Report
<1> QED
  BY <1>1, <1>2 DEF TypeOK, mainVars, bevVars, tableVars, workVars

LEMMA TypeAccept ==
  ASSUME TypeOK, NEW fd \in Fds, NEW a \in Addrs, Accept(fd, a)
  PROVE  TypeOK'
<1> DEFINE c == nConnId + 1
<1>1. /\ c \in 1..MaxConns /\ nConnId' = c /\ bev' = c
      /\ bevFd' = [bevFd EXCEPT ![c] = fd]
      /\ socket' = [socket EXCEPT ![fd] = c]
      /\ handlers' = [handlers EXCEPT ![a] = c]
      /\ conHandlers' = [conHandlers EXCEPT ![c] = a]
      /\ evRead' = evRead \cup {c}
      /\ tcpHandlers' \in {tcpHandlers, [tcpHandlers EXCEPT ![fd] = a]}
  BY Constants DEF Accept, NextConnId, TypeOK
<1>2. UNCHANGED <<mainPc, evWrite, output, active, work, workPc, found, received, sent>>
  BY DEF Accept, workVars
<1>3. watch' \in [Fds -> SUBSET {"read", "write"}]
  BY WatchType DEF Accept, TypeOK
<1>4. nConnId \in Nat /\ 1..nConnId \subseteq 1..c /\ c \in 1..c /\ c \in 0..MaxConns
  BY <1>1, Constants DEF TypeOK
<1>5. bevFd' \in [Conns -> Fds \cup {Null}] /\ socket' \in [Fds -> Conns \cup {Null}]
  BY <1>1 DEF TypeOK, Conns
<1>6. /\ handlers' \in [Addrs -> Conns \cup {Null}]
      /\ conHandlers' \in [Conns -> Addrs \cup {Null}]
      /\ tcpHandlers' \in [Fds -> Addrs \cup {Null}]
  BY <1>1 DEF TypeOK, Conns
<1>7. /\ evRead' \subseteq 1..nConnId' /\ evWrite' \subseteq 1..nConnId'
      /\ active' \subseteq {"read", "write"} \X (1..nConnId')
  BY <1>1, <1>2, <1>4 DEF TypeOK
<1> QED
  BY <1>1, <1>2, <1>3, <1>4, <1>5, <1>6, <1>7 DEF TypeOK, Conns

LEMMA TypeReadMessage ==
  ASSUME TypeOK, NEW b \in Conns, ReadMessage(b)
  PROVE  TypeOK'
<1>1. WorkerOf(b) \in Workers
  BY Constants DEF Conns
<1>2. work' \in {work, [work EXCEPT ![WorkerOf(b)] = Append(@, b)]}
  BY DEF ReadMessage
<1>3. work' \in [Workers -> Seq(Conns)]
  <2>1. work[WorkerOf(b)] \in Seq(Conns)
    BY <1>1 DEF TypeOK
  <2>2. Append(work[WorkerOf(b)], b) \in Seq(Conns)
    BY <2>1, Appended
  <2> QED
    BY <1>2, <2>2 DEF TypeOK
<1>4. received' \in 0..MaxMsgs /\ bev' = b /\ active' \subseteq active
  BY Constants DEF ReadMessage, Dispatch, TypeOK
<1>5. UNCHANGED <<mainPc, nConnId, socket, bevVars, tableVars, workPc, found, sent>>
  BY DEF ReadMessage
<1> QED
  BY <1>3, <1>4, <1>5 DEF TypeOK, bevVars, tableVars

LEMMA TypeErase ==
  ASSUME TypeOK, NEW b \in Conns, eraseConnection(b)
  PROVE  /\ bev' \in Conns \cup {Null}
         /\ socket' \in [Fds -> Conns \cup {Null}]
         /\ watch' \in [Fds -> SUBSET {"read", "write"}]
         /\ handlers' \in [Addrs -> Conns \cup {Null}]
         /\ tcpHandlers' \in [Fds -> Addrs \cup {Null}]
         /\ conHandlers' \in [Conns -> Addrs \cup {Null}]
<1>1. bev' = b /\ socket' = [socket EXCEPT ![bevFd[b]] = Null]
      /\ watch' = [watch EXCEPT ![bevFd[b]] = {}]
  BY DEF eraseConnection
<1>2. tcpHandlers' = [tcpHandlers EXCEPT ![bevFd[b]] = Null]
  BY DEF eraseConnection, EraseTables
<1>3. /\ handlers' \in {handlers, [handlers EXCEPT ![tcpHandlers[bevFd[b]]] = Null]}
      /\ conHandlers' \in {conHandlers,
           [conHandlers EXCEPT ![handlers[tcpHandlers[bevFd[b]]]] = Null]}
  BY DEF eraseConnection, EraseTables
<1>4. handlers' \in [Addrs -> Conns \cup {Null}] /\ conHandlers' \in [Conns -> Addrs \cup {Null}]
  BY <1>3 DEF TypeOK
<1> QED
  BY <1>1, <1>2, <1>4 DEF TypeOK

LEMMA TypeErasing ==
  ASSUME TypeOK, NEW b \in Conns, ReadRefused(b) \/ ReadEnd(b) \/ WriteError(b)
  PROVE  TypeOK'
<1>1. eraseConnection(b)
  BY DEF ReadRefused, ReadEnd, WriteError
<1>2. active' \subseteq active /\ evRead' \subseteq evRead /\ evWrite' \subseteq evWrite
  BY DEF ReadRefused, ReadEnd, WriteError, Dispatch
<1>3. UNCHANGED <<mainVars, bevFd, output, workVars, sent>>
  BY DEF ReadRefused, ReadEnd, WriteError
<1> QED
  BY <1>1, <1>2, <1>3, TypeErase DEF TypeOK, mainVars, workVars

LEMMA TypeWriteOutput ==
  ASSUME TypeOK, Fresh, NEW b \in Conns, WriteOutput(b)
  PROVE  TypeOK'
<1> DEFINE d == socket[bevFd[b]]
<1>1. b <= nConnId /\ bevFd[b] \in Fds
  BY DEF WriteOutput, Dispatch, TypeOK, Fresh
<1>2. sent' \in [Conns -> Seq(Conns)]
  <2>1. CASE output[b] = <<>>
    BY <2>1 DEF WriteOutput, TypeOK
  <2>2. CASE output[b] # <<>>
    <3>1. d \in Conns /\ sent' = [sent EXCEPT ![d] = @ \o output[b]]
      BY <1>1, <2>2 DEF WriteOutput, TypeOK
    <3>2. sent[d] \o output[b] \in Seq(Conns)
      BY <3>1 DEF TypeOK
    <3> QED
      BY <3>1, <3>2 DEF TypeOK
  <2> QED
    BY <2>1, <2>2
<1>3. watch' \in [Fds -> SUBSET {"read", "write"}]
  BY WatchType DEF WriteOutput, DelWrite, TypeOK
<1>4. evWrite' \subseteq evWrite /\ active' \subseteq active /\ bev' = b
  BY DEF WriteOutput, Dispatch, DelWrite
<1>5. output' \in [Conns -> Seq(Conns)]
  BY DEF WriteOutput, TypeOK
<1>6. UNCHANGED <<mainVars, socket, bevFd, evRead, tableVars, workVars>>
  BY DEF WriteOutput
<1> QED
  BY <1>2, <1>3, <1>4, <1>5, <1>6 DEF TypeOK, mainVars, tableVars, workVars

LEMMA TypeRelease ==
  ASSUME TypeOK, DispatchReturns \/ DeleteHandlers \/ ClearTables
  PROVE  TypeOK'
<1>1. CASE DispatchReturns
  <2>1. mainPc' = "delete" /\ evRead' = {} /\ evWrite' = {} /\ watch' = [fd \in Fds |-> {}]
    BY <1>1 DEF DispatchReturns
  <2>2. UNCHANGED <<nConnId, received, socket, bevFd, output, active, tableVars, workVars,
                    sent, bev>>
    BY <1>1 DEF DispatchReturns
  <2> QED
    BY <2>1, <2>2 DEF TypeOK, tableVars, workVars
<1>2. CASE DeleteHandlers
  <2>1. mainPc' = "clear" /\ tcpHandlers' \in [Fds -> Addrs \cup {Null}]
        /\ handlers' \in [Addrs -> Conns \cup {Null}]
    BY <1>2 DEF DeleteHandlers, TypeOK
  <2>2. UNCHANGED <<nConnId, received, socket, bevVars, active, conHandlers, workVars,
                    sent, bev>>
    BY <1>2 DEF DeleteHandlers
  <2> QED
    BY <2>1, <2>2 DEF TypeOK, bevVars, workVars
<1>3. CASE ClearTables
  <2>1. mainPc' = "released" /\ conHandlers' \in [Conns -> Addrs \cup {Null}]
    BY <1>3 DEF ClearTables
  <2>2. UNCHANGED <<nConnId, received, socket, bevVars, active, handlers, tcpHandlers,
                    workVars, sent, bev>>
    BY <1>3 DEF ClearTables
  <2> QED
    BY <2>1, <2>2 DEF TypeOK, bevVars, workVars
<1> QED
  BY <1>1, <1>2, <1>3

LEMMA TypeLookup ==
  ASSUME TypeOK, NEW w \in Workers, Lookup(w)
  PROVE  TypeOK'
<1> DEFINE a == conHandlers[Head(work[w])]
<1>1. Head(work[w]) \in Conns /\ Tail(work[w]) \in Seq(Conns)
  BY HeadTail DEF Lookup, TypeOK
<1>2. a \in Addrs \cup {Null}
  BY <1>1 DEF TypeOK
<1>3. found' = [found EXCEPT ![w] = a]
  BY DEF Lookup
<1>4. \/ a = Null /\ work' = [work EXCEPT ![w] = Tail(@)] /\ workPc' = workPc /\ workPc[w] = "idle"
      \/ a # Null /\ workPc' = [workPc EXCEPT ![w] = "write"] /\ work' = work
  BY DEF Lookup
<1>5. work' \in [Workers -> Seq(Conns)]
  BY <1>1, <1>4 DEF TypeOK
<1>6. /\ found' \in [Workers -> Addrs \cup {Null}]
      /\ workPc' \in [Workers -> {"idle", "write", "enable", "fault"}]
      /\ \A v \in Workers : workPc'[v] \in {"write", "enable"} => found'[v] \in Addrs
  BY <1>2, <1>3, <1>4 DEF TypeOK
<1>7. UNCHANGED <<mainVars, socket, bevVars, active, tableVars, sent, bev>>
  BY DEF Lookup
<1> QED
  BY <1>5, <1>6, <1>7 DEF TypeOK, mainVars, bevVars, tableVars

LEMMA TypeReply ==
  ASSUME TypeOK, Fresh, Busy, NEW w \in Workers, WriteReply(w) \/ EnableWrite(w)
  PROVE  TypeOK'
<1> DEFINE b == handlers[found[w]]
<1>1. b \in Conns /\ b <= nConnId /\ work[w] # <<>>
  BY DEF WriteReply, EnableWrite, TypeOK, Fresh, Busy
<1>2. Head(work[w]) \in Conns /\ Tail(work[w]) \in Seq(Conns)
  BY <1>1, HeadTail DEF TypeOK
<1>3. AddWrite(b)
  BY DEF WriteReply, EnableWrite
<1>4. watch' \in [Fds -> SUBSET {"read", "write"}] /\ evWrite' = evWrite \cup {b}
  BY <1>3, WatchType DEF AddWrite, TypeOK
<1>5. evWrite' \subseteq 1..nConnId
  <2>1. b \in 1..nConnId
    BY <1>1, Constants DEF TypeOK, Conns
  <2> QED
    BY <1>4, <2>1 DEF TypeOK
<1>6. CASE WriteReply(w)
  <2>1. output' = [output EXCEPT ![b] = Append(@, Head(work[w]))]
        /\ workPc' = [workPc EXCEPT ![w] = "enable"] /\ workPc[w] = "write"
    BY <1>6 DEF WriteReply
  <2>2. Append(output[b], Head(work[w])) \in Seq(Conns)
    BY <1>1, <1>2 DEF TypeOK
  <2>3. output' \in [Conns -> Seq(Conns)]
    BY <2>1, <2>2 DEF TypeOK
  <2>4. UNCHANGED <<mainVars, socket, bevFd, evRead, active, tableVars, work, found, sent, bev>>
    BY <1>6 DEF WriteReply
  <2> QED
    BY <1>4, <1>5, <2>1, <2>3, <2>4 DEF TypeOK, mainVars, tableVars
<1>7. CASE EnableWrite(w)
  <2>1. work' = [work EXCEPT ![w] = Tail(@)] /\ workPc' = [workPc EXCEPT ![w] = "idle"]
    BY <1>7 DEF EnableWrite
  <2>2. work' \in [Workers -> Seq(Conns)]
    BY <1>2, <2>1 DEF TypeOK
  <2>3. UNCHANGED <<mainVars, socket, bevFd, evRead, output, active, tableVars, found, sent, bev>>
    BY <1>7 DEF EnableWrite
  <2> QED
    BY <1>4, <1>5, <2>1, <2>2, <2>3 DEF TypeOK, mainVars, tableVars
<1> QED
  BY <1>6, <1>7

LEMMA TypeUseDeleted ==
  ASSUME TypeOK, NEW w \in Workers, UseDeleted(w)
  PROVE  TypeOK'
<1>1. workPc' = [workPc EXCEPT ![w] = "fault"]
  BY DEF UseDeleted
<1>2. UNCHANGED <<mainVars, socket, bevVars, active, tableVars, work, found, sent, bev>>
  BY DEF UseDeleted
<1> QED
  BY <1>1, <1>2 DEF TypeOK, mainVars, bevVars, tableVars

LEMMA TypeStep == TypeOK /\ Fresh /\ Busy /\ [Next]_vars => TypeOK'
<1> SUFFICES ASSUME TypeOK, Fresh, Busy, [Next]_vars PROVE TypeOK'
  OBVIOUS
<1>1. CASE UNCHANGED vars
  BY <1>1 DEF vars, TypeOK, mainVars, bevVars, tableVars, workVars
<1>2. CASE MainStep
  BY <1>2, TypeReport, TypeAccept, TypeReadMessage, TypeErasing, TypeWriteOutput,
     TypeRelease DEF MainStep
<1>3. ASSUME NEW w \in Workers, WorkerStep(w) PROVE TypeOK'
  BY <1>3, TypeLookup, TypeReply, TypeUseDeleted DEF WorkerStep
<1> QED
  BY <1>1, <1>2, <1>3 DEF Next
------------------------------------------------------------------------------
(* What a step does to the tables, to the queues and to the counter. Every *)
(* step is of one of these kinds.                                          *)

\* The tables, the sockets and the counter stay as they are.
TablesStay == UNCHANGED <<nConnId, socket, bevFd, handlers, tcpHandlers, conHandlers>>

\* The queue of each worker stays, or a message of a connection that was
\* accepted is appended, or the worker finishes its first message.
QueuesStay == UNCHANGED <<work, workPc, found>>

LEMMA TablesSteps ==
  ASSUME TypeOK, [Next]_vars
  PROVE  \/ TablesStay /\ mainPc' = mainPc
         \/ \E fd \in Fds, a \in Addrs : Accept(fd, a)
         \/ /\ \E b \in Conns : b <= nConnId /\ eraseConnection(b)
            /\ UNCHANGED <<mainPc, nConnId, bevFd, work, workPc, found>>
         \/ DispatchReturns
         \/ DeleteHandlers
         \/ ClearTables
<1>1. CASE UNCHANGED vars
  BY <1>1 DEF vars, TablesStay, mainVars, bevVars, tableVars
<1>2. ASSUME NEW fd \in Fds, Report(fd) PROVE TablesStay /\ mainPc' = mainPc
  BY <1>2 DEF Report, TablesStay, mainVars, bevVars, tableVars
<1>3. ASSUME NEW b \in Conns, ReadMessage(b) \/ WriteOutput(b) PROVE TablesStay /\ mainPc' = mainPc
  BY <1>3 DEF ReadMessage, WriteOutput, TablesStay, mainVars, bevVars, tableVars
<1>4. ASSUME NEW b \in Conns, ReadRefused(b) \/ ReadEnd(b) \/ WriteError(b)
      PROVE  b <= nConnId /\ eraseConnection(b)
             /\ UNCHANGED <<mainPc, nConnId, bevFd, work, workPc, found>>
  BY <1>4 DEF ReadRefused, ReadEnd, WriteError, Dispatch, TypeOK, mainVars, workVars
<1>5. ASSUME NEW w \in Workers, WorkerStep(w) PROVE TablesStay /\ mainPc' = mainPc
  BY <1>5 DEF WorkerStep, Lookup, WriteReply, EnableWrite, UseDeleted, TablesStay,
     mainVars, bevVars, tableVars
<1> QED
  BY <1>1, <1>2, <1>3, <1>4, <1>5 DEF Next, MainStep

LEMMA QueuesSteps ==
  ASSUME TypeOK, [Next]_vars
  PROVE  \/ QueuesStay
         \/ \E b \in Conns : ReadMessage(b)
         \/ \E w \in Workers : WorkerStep(w)
<1>1. CASE UNCHANGED vars
  BY <1>1 DEF vars, QueuesStay, workVars
<1>2. ASSUME NEW fd \in Fds, NEW a \in Addrs, Accept(fd, a) PROVE QueuesStay
  BY <1>2 DEF Accept, QueuesStay, workVars
<1>3. ASSUME NEW fd \in Fds, Report(fd) PROVE QueuesStay
  BY <1>3 DEF Report, QueuesStay, workVars
<1>4. ASSUME NEW b \in Conns, ReadRefused(b) \/ ReadEnd(b) \/ WriteOutput(b) \/ WriteError(b)
      PROVE  QueuesStay
  BY <1>4 DEF ReadRefused, ReadEnd, WriteOutput, WriteError, QueuesStay, workVars
<1>5. CASE DispatchReturns \/ DeleteHandlers \/ ClearTables
  BY <1>5 DEF DispatchReturns, DeleteHandlers, ClearTables, QueuesStay, workVars
<1> QED
  BY <1>1, <1>2, <1>3, <1>4, <1>5 DEF Next, MainStep
------------------------------------------------------------------------------
(* Accept takes an identifier, a descriptor and an address that are free, and *)
(* eraseConnection gives those of one connection back.                        *)

LEMMA AcceptEffect ==
  ASSUME TypeOK, Fresh, TablesAgree, NEW fd \in Fds, NEW a \in Addrs, Accept(fd, a)
  PROVE  LET c == nConnId + 1 IN
         /\ mainPc = "run" /\ mainPc' = "run"
         /\ c \in Conns /\ nConnId' = c /\ c # Null
         /\ socket[fd] = Null /\ handlers[a] = Null /\ conHandlers[c] = Null
         /\ socket' = [socket EXCEPT ![fd] = c]
         /\ bevFd' = [bevFd EXCEPT ![c] = fd]
         /\ handlers' = [handlers EXCEPT ![a] = c]
         /\ tcpHandlers' = [tcpHandlers EXCEPT ![fd] = a]
         /\ conHandlers' = [conHandlers EXCEPT ![c] = a]
<1>1. tcpHandlers[fd] = Null
  BY DEF Accept, TablesAgree
<1>2. nConnId + 1 \in Conns
  BY Constants DEF Accept, TypeOK, Conns
<1>3. nConnId + 1 # Null /\ nConnId + 1 > nConnId
  BY <1>2, Constants DEF TypeOK, Conns
<1> QED
  BY <1>1, <1>2, <1>3 DEF Accept, NextConnId, Fresh

LEMMA EraseEffect ==
  ASSUME TypeOK, Fresh, TablesAgree, mainPc = "run",
         NEW b \in Conns, b <= nConnId, eraseConnection(b)
  PROVE  LET fd == bevFd[b]
             a  == tcpHandlers[fd]
             c  == socket[fd]
         IN /\ fd \in Fds
            /\ socket' = [socket EXCEPT ![fd] = Null]
            /\ tcpHandlers' = [tcpHandlers EXCEPT ![fd] = Null]
            /\ \/ a = Null /\ c = Null /\ UNCHANGED <<handlers, conHandlers>>
               \/ /\ a \in Addrs /\ c \in Conns /\ handlers[a] = c /\ conHandlers[c] = a
                  /\ bevFd[c] = fd
                  /\ handlers' = [handlers EXCEPT ![a] = Null]
                  /\ conHandlers' = [conHandlers EXCEPT ![c] = Null]
<1> DEFINE fd == bevFd[b]
           a  == tcpHandlers[fd]
           c  == socket[fd]
<1>1. fd \in Fds
  BY DEF Fresh
<1>2. socket' = [socket EXCEPT ![fd] = Null] /\ EraseTables(fd)
  BY DEF eraseConnection
<1>3. CASE c = Null
  BY <1>1, <1>2, <1>3 DEF TablesAgree, EraseTables
<1>4. CASE c # Null
  <2>1. c \in Conns /\ a \in Addrs /\ a # Null
    <3>1. a # Null
      BY <1>1, <1>4 DEF TablesAgree
    <3>2. c \in Conns \cup {Null} /\ a \in Addrs \cup {Null}
      BY <1>1 DEF TypeOK
    <3> QED
      BY <1>4, <3>1, <3>2
  <2>2. handlers[a] = c /\ conHandlers[c] = a /\ bevFd[c] = fd
    BY <1>1, <1>4 DEF TablesAgree
  <2> QED
    BY <1>1, <1>2, <2>1, <2>2 DEF EraseTables
<1> QED
  BY <1>3, <1>4

LEMMA AgreeStep ==
  ASSUME TypeOK, Fresh, TablesAgree, [Next]_vars
  PROVE  TablesAgree'
<1> SUFFICES ASSUME mainPc' = "run" PROVE TablesAgree'
  BY DEF TablesAgree
<1>1. ASSUME NEW fd \in Fds, NEW a \in Addrs, Accept(fd, a) PROVE TablesAgree'
  <2> DEFINE c == nConnId + 1
  <2>1. /\ mainPc = "run"
        /\ c \in Conns /\ c # Null /\ a # Null
        /\ socket[fd] = Null /\ handlers[a] = Null /\ conHandlers[c] = Null
        /\ socket' = [socket EXCEPT ![fd] = c]
        /\ bevFd' = [bevFd EXCEPT ![c] = fd]
        /\ handlers' = [handlers EXCEPT ![a] = c]
        /\ tcpHandlers' = [tcpHandlers EXCEPT ![fd] = a]
        /\ conHandlers' = [conHandlers EXCEPT ![c] = a]
    BY <1>1, AcceptEffect, Constants
  <2>2. ASSUME NEW g \in Fds
        PROVE  IF socket'[g] = Null THEN tcpHandlers'[g] = Null
               ELSE /\ bevFd'[socket'[g]] = g
                    /\ tcpHandlers'[g] # Null
                    /\ handlers'[tcpHandlers'[g]] = socket'[g]
                    /\ conHandlers'[socket'[g]] = tcpHandlers'[g]
    <3>1. CASE g = fd
      BY <2>1, <3>1 DEF TypeOK
    <3>2. CASE g # fd /\ socket[g] = Null
      BY <2>1, <3>2 DEF TypeOK, TablesAgree
    <3>3. CASE g # fd /\ socket[g] # Null
      <4>1. socket[g] \in Conns /\ tcpHandlers[g] \in Addrs
            /\ bevFd[socket[g]] = g /\ handlers[tcpHandlers[g]] = socket[g]
            /\ conHandlers[socket[g]] = tcpHandlers[g]
        BY <2>1, <3>3, Constants DEF TypeOK, TablesAgree
      <4>2. tcpHandlers[g] # a /\ socket[g] # c
        BY <2>1, <3>3, <4>1, Constants DEF TypeOK
      <4> QED
        BY <2>1, <3>3, <4>1, <4>2, Constants DEF TypeOK
    <3> QED
      BY <3>1, <3>2, <3>3
  <2>3. ASSUME NEW k \in Conns, conHandlers'[k] # Null
        PROVE  handlers'[conHandlers'[k]] = k
    <3>1. CASE k = c
      BY <2>1, <3>1 DEF TypeOK
    <3>2. CASE k # c
      <4>1. conHandlers'[k] = conHandlers[k] /\ conHandlers[k] \in Addrs
            /\ handlers[conHandlers[k]] = k
        BY <2>1, <2>3, <3>2, Constants DEF TypeOK, TablesAgree
      <4>2. k # Null
        BY Constants DEF Conns
      <4> QED
        BY <2>1, <4>1, <4>2 DEF TypeOK
    <3> QED
      BY <3>1, <3>2
  <2>4. ASSUME NEW x \in Addrs, handlers'[x] # Null
        PROVE  /\ conHandlers'[handlers'[x]] = x
               /\ socket'[bevFd'[handlers'[x]]] = handlers'[x]
    <3>1. CASE x = a
      BY <2>1, <3>1 DEF TypeOK
    <3>2. CASE x # a
      <4>1. handlers'[x] = handlers[x] /\ handlers[x] \in Conns
            /\ conHandlers[handlers[x]] = x
            /\ socket[bevFd[handlers[x]]] = handlers[x]
        BY <2>1, <2>4, <3>2, Constants DEF TypeOK, TablesAgree
      <4>2. handlers[x] # c /\ x # Null
        BY <2>1, <4>1, Constants
      <4>3. bevFd[handlers[x]] \in Fds
        BY <2>4, <4>1 DEF Fresh
      <4>4. bevFd[handlers[x]] # fd
        BY <2>1, <2>4, <4>1
      <4> QED
        BY <2>1, <4>1, <4>2, <4>3, <4>4 DEF TypeOK
    <3> QED
      BY <3>1, <3>2
  <2> QED
    BY <2>2, <2>3, <2>4 DEF TablesAgree
<1>2. ASSUME NEW b \in Conns, b <= nConnId, eraseConnection(b),
             UNCHANGED <<mainPc, nConnId, bevFd>>
      PROVE  TablesAgree'
  <2> DEFINE fd == bevFd[b]
             a  == tcpHandlers[fd]
             c  == socket[fd]
  <2>1. /\ mainPc = "run" /\ fd \in Fds
        /\ socket' = [socket EXCEPT ![fd] = Null]
        /\ tcpHandlers' = [tcpHandlers EXCEPT ![fd] = Null]
        /\ \/ a = Null /\ c = Null /\ UNCHANGED <<handlers, conHandlers>>
           \/ /\ a \in Addrs /\ c \in Conns /\ handlers[a] = c /\ conHandlers[c] = a
              /\ bevFd[c] = fd
              /\ handlers' = [handlers EXCEPT ![a] = Null]
              /\ conHandlers' = [conHandlers EXCEPT ![c] = Null]
    BY <1>2, EraseEffect
  <2>2. CASE a = Null /\ c = Null /\ UNCHANGED <<handlers, conHandlers>>
    <3>1. socket' = socket /\ tcpHandlers' = tcpHandlers
      BY <2>1, <2>2 DEF TypeOK
    <3> QED
      BY <1>2, <2>2, <3>1 DEF TablesAgree
  <2>3. CASE /\ a \in Addrs /\ c \in Conns /\ handlers[a] = c /\ conHandlers[c] = a
             /\ bevFd[c] = fd
             /\ handlers' = [handlers EXCEPT ![a] = Null]
             /\ conHandlers' = [conHandlers EXCEPT ![c] = Null]
    <3>1. a # Null /\ c # Null
      BY <2>3, Constants DEF Conns
    <3>2. ASSUME NEW g \in Fds
          PROVE  IF socket'[g] = Null THEN tcpHandlers'[g] = Null
                 ELSE /\ bevFd'[socket'[g]] = g
                      /\ tcpHandlers'[g] # Null
                      /\ handlers'[tcpHandlers'[g]] = socket'[g]
                      /\ conHandlers'[socket'[g]] = tcpHandlers'[g]
      <4>1. CASE g = fd
        BY <2>1, <4>1 DEF TypeOK
      <4>2. CASE g # fd /\ socket[g] = Null
        BY <2>1, <4>2 DEF TypeOK, TablesAgree
      <4>3. CASE g # fd /\ socket[g] # Null
        <5>1. socket[g] \in Conns /\ tcpHandlers[g] \in Addrs /\ tcpHandlers[g] # Null
              /\ bevFd[socket[g]] = g /\ handlers[tcpHandlers[g]] = socket[g]
              /\ conHandlers[socket[g]] = tcpHandlers[g]
          BY <2>1, <4>3, Constants DEF TypeOK, TablesAgree
        <5>2. socket[g] # c /\ tcpHandlers[g] # a
          BY <2>3, <4>3, <5>1
        <5>3. socket'[g] = socket[g] /\ tcpHandlers'[g] = tcpHandlers[g]
          BY <2>1, <4>3 DEF TypeOK
        <5>4. handlers'[tcpHandlers[g]] = handlers[tcpHandlers[g]]
          BY <2>3, <5>1, <5>2 DEF TypeOK
        <5>5. conHandlers'[socket[g]] = conHandlers[socket[g]]
          BY <2>3, <5>1, <5>2 DEF TypeOK
        <5>6. bevFd' = bevFd /\ socket'[g] # Null
          BY <1>2, <4>3, <5>3
        <5> QED
          BY <5>1, <5>3, <5>4, <5>5, <5>6
      <4> QED
        BY <4>1, <4>2, <4>3
    <3>3. ASSUME NEW k \in Conns, conHandlers'[k] # Null
          PROVE  handlers'[conHandlers'[k]] = k
      <4>1. k # c /\ conHandlers'[k] = conHandlers[k]
        BY <2>3, <3>3 DEF TypeOK
      <4>2. conHandlers[k] \in Addrs /\ handlers[conHandlers[k]] = k
        BY <2>1, <3>3, <4>1 DEF TypeOK, TablesAgree
      <4> QED
        BY <2>3, <4>1, <4>2 DEF TypeOK
    <3>4. ASSUME NEW x \in Addrs, handlers'[x] # Null
          PROVE  /\ conHandlers'[handlers'[x]] = x
                 /\ socket'[bevFd'[handlers'[x]]] = handlers'[x]
      <4>1. x # a /\ handlers'[x] = handlers[x]
        BY <2>3, <3>4 DEF TypeOK
      <4>2. handlers[x] \in Conns /\ conHandlers[handlers[x]] = x
            /\ socket[bevFd[handlers[x]]] = handlers[x]
        BY <2>1, <3>4, <4>1 DEF TypeOK, TablesAgree
      <4>3. handlers[x] # c /\ bevFd[handlers[x]] # fd
        BY <2>3, <4>1, <4>2
      <4>4. bevFd[handlers[x]] \in Fds
        BY <3>4, <4>1, <4>2 DEF Fresh
      <4> QED
        BY <1>2, <2>1, <2>3, <4>1, <4>2, <4>3, <4>4 DEF TypeOK
    <3> QED
      BY <3>2, <3>3, <3>4 DEF TablesAgree
  <2> QED
    BY <2>1, <2>2, <2>3
<1>3. CASE TablesStay /\ mainPc' = mainPc
  BY <1>3 DEF TablesStay, TablesAgree
<1>4. ~DispatchReturns /\ ~DeleteHandlers /\ ~ClearTables
  BY DEF DispatchReturns, DeleteHandlers, ClearTables
<1> QED
  BY <1>1, <1>2, <1>3, <1>4, TablesSteps
------------------------------------------------------------------------------
LEMMA FreshStep ==
  ASSUME TypeOK, Fresh, Busy, TablesAgree, [Next]_vars
  PROVE  Fresh'
<1> DEFINE Names ==
      /\ \A c \in Conns : c <= nConnId' => bevFd'[c] \in Fds
      /\ \A c \in Conns : c > nConnId' => conHandlers'[c] = Null
      /\ \A a \in Addrs : handlers'[a] # Null => handlers'[a] <= nConnId'
      /\ \A fd \in Fds : socket'[fd] # Null => socket'[fd] <= nConnId'
      /\ nConnId' \in Int /\ nConnId' >= nConnId
<1>1. Names
  <2>1. ASSUME NEW fd \in Fds, NEW a \in Addrs, Accept(fd, a) PROVE Names
    <3> DEFINE n == nConnId + 1
    <3>1. /\ n \in Conns /\ nConnId' = n /\ nConnId \in Int
          /\ socket' = [socket EXCEPT ![fd] = n]
          /\ bevFd' = [bevFd EXCEPT ![n] = fd]
          /\ handlers' = [handlers EXCEPT ![a] = n]
          /\ conHandlers' = [conHandlers EXCEPT ![n] = a]
      BY <2>1, AcceptEffect DEF TypeOK
    <3>2. \A c \in Conns : c \in Int
      BY Constants DEF Conns
    <3>3. ASSUME NEW c \in Conns, c <= n PROVE bevFd'[c] \in Fds
      BY <3>1, <3>2, <3>3 DEF TypeOK, Fresh
    <3>4. ASSUME NEW c \in Conns, c > n PROVE conHandlers'[c] = Null
      BY <3>1, <3>2, <3>4 DEF TypeOK, Fresh
    <3>5. ASSUME NEW x \in Addrs, handlers'[x] # Null PROVE handlers'[x] <= n
      <4>1. CASE x = a
        BY <3>1, <4>1, <3>2 DEF TypeOK
      <4>2. CASE x # a
        <5>1. handlers'[x] = handlers[x] /\ handlers[x] <= nConnId
              /\ handlers[x] \in Conns
          BY <3>1, <3>5, <4>2 DEF TypeOK, Fresh
        <5> QED
          BY <3>1, <3>2, <5>1
      <4> QED
        BY <4>1, <4>2
    <3>6. ASSUME NEW g \in Fds, socket'[g] # Null PROVE socket'[g] <= n
      <4>1. CASE g = fd
        BY <3>1, <4>1, <3>2 DEF TypeOK
      <4>2. CASE g # fd
        <5>1. socket'[g] = socket[g] /\ socket[g] <= nConnId /\ socket[g] \in Conns
          BY <3>1, <3>6, <4>2 DEF TypeOK, Fresh
        <5> QED
          BY <3>1, <3>2, <5>1
      <4> QED
        BY <4>1, <4>2
    <3> QED
      BY <3>1, <3>3, <3>4, <3>5, <3>6
  <2>2. ASSUME NEW b \in Conns, b <= nConnId, eraseConnection(b),
               UNCHANGED <<mainPc, nConnId, bevFd>>
        PROVE  Names
    <3>1. /\ \A fd \in Fds : socket'[fd] # Null => socket'[fd] = socket[fd]
          /\ \A a \in Addrs : handlers'[a] # Null => handlers'[a] = handlers[a]
          /\ \A c \in Conns : conHandlers'[c] # Null => conHandlers'[c] = conHandlers[c]
      BY <2>2 DEF eraseConnection, EraseTables, TypeOK
    <3> QED
      BY <2>2, <3>1 DEF Fresh, TypeOK
  <2>3. CASE TablesStay
    BY <2>3 DEF TablesStay, Fresh, TypeOK
  <2>4. CASE DispatchReturns \/ DeleteHandlers \/ ClearTables
    <3>1. /\ UNCHANGED <<nConnId, socket, bevFd>>
          /\ \A a \in Addrs : handlers'[a] # Null => handlers'[a] = handlers[a]
          /\ \A c \in Conns : conHandlers'[c] # Null => conHandlers'[c] = conHandlers[c]
      BY <2>4 DEF DispatchReturns, DeleteHandlers, ClearTables, tableVars, bevVars
    <3> QED
      BY <3>1 DEF Fresh, TypeOK
  <2> QED
    BY <2>1, <2>2, <2>3, <2>4, TablesSteps
<1>2. ASSUME NEW w \in Workers, NEW i \in 1..Len(work'[w]) PROVE work'[w][i] <= nConnId
  <2>1. work[w] \in Seq(Conns) /\ nConnId \in Int /\ \A c \in Conns : c \in Int
    BY Constants DEF TypeOK, Conns
  <2>2. CASE QueuesStay
    BY <1>2, <2>2 DEF QueuesStay, Fresh
  <2>3. ASSUME NEW b \in Conns, ReadMessage(b) PROVE work'[w][i] <= nConnId
    <3>1. b <= nConnId
      BY <2>3 DEF ReadMessage, Dispatch, TypeOK
    <3>2. work'[w] \in {work[w], Append(work[w], b)}
      BY <2>3 DEF ReadMessage, TypeOK
    <3>3. CASE work'[w] = work[w]
      BY <1>2, <3>3 DEF Fresh
    <3>4. CASE work'[w] = Append(work[w], b)
      <4>1. i \in 1..(Len(work[w]) + 1) /\ Len(work[w]) \in Nat
        BY <1>2, <2>1, <3>4, Appended
      <4>2. CASE i = Len(work[w]) + 1
        BY <2>1, <3>1, <3>4, <4>2, Appended
      <4>3. CASE i \in 1..Len(work[w])
        BY <2>1, <3>4, <4>3, Appended DEF Fresh
      <4> QED
        BY <4>1, <4>2, <4>3
    <3> QED
      BY <3>2, <3>3, <3>4
  <2>4. ASSUME NEW v \in Workers, WorkerStep(v) PROVE work'[w][i] <= nConnId
    <3>1. work'[w] = work[w] \/ (work[w] # <<>> /\ work'[w] = Tail(work[w]))
      <4>1. CASE Lookup(v)
        BY <4>1 DEF Lookup, TypeOK
      <4>2. CASE EnableWrite(v)
        BY <4>2 DEF EnableWrite, TypeOK, Busy
      <4>3. CASE WriteReply(v) \/ UseDeleted(v)
        BY <4>3 DEF WriteReply, UseDeleted
      <4> QED
        BY <2>4, <4>1, <4>2, <4>3 DEF WorkerStep
    <3>2. CASE work'[w] = work[w]
      BY <1>2, <3>2 DEF Fresh
    <3>3. CASE work[w] # <<>> /\ work'[w] = Tail(work[w])
      BY <1>2, <2>1, <3>3, HeadTail DEF Fresh
    <3> QED
      BY <3>1, <3>2, <3>3
  <2> QED
    BY <2>2, <2>3, <2>4, QueuesSteps
<1>3. \A w \in Workers : \A i \in 1..Len(work'[w]) : work'[w][i] <= nConnId'
  <2>1. ASSUME NEW w \in Workers, NEW i \in 1..Len(work'[w]) PROVE work'[w][i] <= nConnId'
    <3>1. work'[w] \in Seq(Conns)
      BY TypeStep DEF TypeOK
    <3>2. work'[w][i] \in Int /\ nConnId \in Int
      BY <3>1, Constants DEF Conns, TypeOK
    <3> QED
      BY <1>1, <1>2, <3>2
  <2> QED
    BY <2>1
<1> QED
  BY <1>1, <1>3 DEF Fresh

LEMMA BusyStep ==
  ASSUME TypeOK, Busy, [Next]_vars
  PROVE  Busy'
<1> SUFFICES ASSUME NEW w \in Workers, workPc'[w] \in {"write", "enable"}
             PROVE  work'[w] # <<>>
  BY DEF Busy
<1>1. CASE QueuesStay
  BY <1>1 DEF QueuesStay, Busy
<1>2. ASSUME NEW b \in Conns, ReadMessage(b) PROVE work'[w] # <<>>
  <2>1. work[w] # <<>> /\ work[w] \in Seq(Conns)
    BY <1>2 DEF ReadMessage, Busy, TypeOK
  <2>2. work'[w] \in {work[w], Append(work[w], b)}
    BY <1>2 DEF ReadMessage, TypeOK
  <2> QED
    BY <2>1, <2>2, Appended
<1>3. ASSUME NEW v \in Workers, WorkerStep(v) PROVE work'[w] # <<>>
  BY <1>3 DEF WorkerStep, Lookup, WriteReply, EnableWrite, UseDeleted, TypeOK, Busy
<1> QED
  BY <1>1, <1>2, <1>3, QueuesSteps

LEMMA DeletableStep ==
  ASSUME TypeOK, Fresh, TablesAgree, Deletable, ReleaseDeletesAll, [Next]_vars
  PROVE  Deletable' /\ ReleaseDeletesAll'
<1>1. ASSUME NEW fd \in Fds, NEW a \in Addrs, Accept(fd, a)
      PROVE  Deletable' /\ ReleaseDeletesAll'
  <2>1. /\ mainPc = "run" /\ mainPc' = "run"
        /\ socket[fd] = Null /\ tcpHandlers[fd] = Null
        /\ handlers' = [handlers EXCEPT ![a] = nConnId + 1]
        /\ tcpHandlers' = [tcpHandlers EXCEPT ![fd] = a]
    BY <1>1, AcceptEffect DEF TablesAgree
  <2>2. ASSUME NEW x \in Addrs, handlers'[x] # Null
        PROVE  \E g \in Fds : tcpHandlers'[g] = x
    <3>1. CASE x = a
      BY <2>1, <3>1 DEF TypeOK
    <3>2. CASE x # a
      <4>1. PICK g \in Fds : tcpHandlers[g] = x
        BY <2>1, <2>2, <3>2 DEF Deletable, TypeOK
      <4>2. g # fd
        BY <2>1, <4>1, Constants
      <4> QED
        BY <2>1, <4>1, <4>2 DEF TypeOK
    <3> QED
      BY <3>1, <3>2
  <2> QED
    BY <2>1, <2>2 DEF Deletable, ReleaseDeletesAll
<1>2. ASSUME NEW b \in Conns, eraseConnection(b), mainPc' = mainPc
      PROVE  Deletable' /\ ReleaseDeletesAll'
  <2> DEFINE fd == bevFd[b]
             a  == tcpHandlers[fd]
  <2>1. /\ tcpHandlers' = [tcpHandlers EXCEPT ![fd] = Null]
        /\ IF a = Null THEN handlers' = handlers
           ELSE handlers' = [handlers EXCEPT ![a] = Null]
    BY <1>2 DEF eraseConnection, EraseTables
  <2>2. ASSUME NEW x \in Addrs, handlers'[x] # Null
        PROVE  handlers[x] # Null /\ x # a
    BY <2>1, <2>2, Constants DEF TypeOK
  <2>3. ASSUME NEW x \in Addrs, handlers'[x] # Null, NEW g \in Fds, tcpHandlers[g] = x
        PROVE  tcpHandlers'[g] = x
    BY <2>1, <2>2, <2>3 DEF TypeOK
  <2> QED
    BY <1>2, <2>2, <2>3 DEF Deletable, ReleaseDeletesAll
<1>3. CASE TablesStay /\ mainPc' = mainPc
  BY <1>3 DEF TablesStay, Deletable, ReleaseDeletesAll
<1>4. CASE DispatchReturns
  BY <1>4 DEF DispatchReturns, tableVars, Deletable, ReleaseDeletesAll
<1>5. CASE DeleteHandlers
  BY <1>5 DEF DeleteHandlers, Deletable, ReleaseDeletesAll
<1>6. CASE ClearTables
  BY <1>6 DEF ClearTables, Deletable, ReleaseDeletesAll
<1> QED
  BY <1>1, <1>2, <1>3, <1>4, <1>5, <1>6, TablesSteps

LEMMA LookupStep ==
  ASSUME TypeOK, Fresh, Busy, TablesAgree, LookupStaysGood, [Next]_vars
  PROVE  LookupStaysGood'
<1> SUFFICES ASSUME NEW w \in Workers, workPc'[w] \in {"write", "enable"},
                    conHandlers'[Head(work'[w])] # Null
             PROVE  found'[w] = conHandlers'[Head(work'[w])]
  BY DEF LookupStaysGood
<1> DEFINE Same == UNCHANGED <<workPc[w], found[w], Head(work[w])>>
<1>0. work[w] # <<>> => Head(work[w]) \in Conns /\ Head(work[w]) <= nConnId
  BY HeadTail DEF TypeOK, Fresh
<1>1. ASSUME NEW c \in Conns, c <= nConnId, conHandlers'[c] # Null
      PROVE  conHandlers'[c] = conHandlers[c]
  <2>1. ASSUME NEW fd \in Fds, NEW a \in Addrs, Accept(fd, a)
        PROVE  conHandlers'[c] = conHandlers[c]
    <3>1. conHandlers' = [conHandlers EXCEPT ![nConnId + 1] = a]
      BY <2>1, AcceptEffect
    <3>2. c # nConnId + 1
      BY <1>1 DEF TypeOK
    <3> QED
      BY <3>1, <3>2 DEF TypeOK
  <2>2. ASSUME NEW b \in Conns, eraseConnection(b)
        PROVE  conHandlers'[c] = conHandlers[c]
    BY <1>1, <2>2 DEF eraseConnection, EraseTables, TypeOK
  <2>3. CASE TablesStay
    BY <2>3 DEF TablesStay
  <2>4. CASE DispatchReturns \/ DeleteHandlers \/ ClearTables
    BY <1>1, <2>4 DEF DispatchReturns, DeleteHandlers, ClearTables, tableVars
  <2> QED
    BY <2>1, <2>2, <2>3, <2>4, TablesSteps
<1>2. CASE Same
  <2>1. work[w] # <<>> /\ workPc[w] \in {"write", "enable"}
    BY <1>2 DEF Busy
  <2> QED
    BY <1>0, <1>1, <1>2, <2>1 DEF LookupStaysGood
<1>3. CASE QueuesStay
  BY <1>2, <1>3 DEF QueuesStay
<1>4. ASSUME NEW b \in Conns, ReadMessage(b) PROVE Same
  <2>1. UNCHANGED <<workPc, found>> /\ work'[w] \in {work[w], Append(work[w], b)}
    BY <1>4 DEF ReadMessage, TypeOK
  <2>2. work[w] # <<>> /\ work[w] \in Seq(Conns)
    BY <2>1 DEF Busy, TypeOK
  <2> QED
    BY <2>1, <2>2, Appended
<1>5. ASSUME NEW v \in Workers, v # w, WorkerStep(v) PROVE Same
  BY <1>5 DEF WorkerStep, Lookup, WriteReply, EnableWrite, UseDeleted, TypeOK
<1>6. CASE Lookup(w)
  <2>1. found'[w] = conHandlers[Head(work[w])] /\ conHandlers' = conHandlers
        /\ work' = work
    BY <1>6 DEF Lookup, tableVars, TypeOK
  <2> QED
    BY <2>1
<1>7. CASE WriteReply(w)
  BY <1>2, <1>7 DEF WriteReply, TypeOK, LookupStaysGood, tableVars
<1>8. CASE EnableWrite(w) \/ UseDeleted(w)
  BY <1>8 DEF EnableWrite, UseDeleted, TypeOK
<1> QED
  BY <1>2, <1>3, <1>4, <1>5, <1>6, <1>7, <1>8, QueuesSteps DEF WorkerStep
------------------------------------------------------------------------------
\* The invariant holds in every reachable state.
THEOREM Invariant == Spec => []IInv
<1>1. IInv /\ [Next]_vars => IInv'
  BY TypeStep, FreshStep, BusyStep, AgreeStep, DeletableStep, LookupStep DEF IInv
<1> QED
  BY InitInv, <1>1, PTL DEF Spec

\* Types, for every number of descriptors, workers and connections: no callback
\* and no worker indexes a table with something that is not a key of it.
THEOREM TypeCorrect == Spec => []TypeOK
<1>1. IInv => TypeOK
  BY DEF IInv
<1> QED
  BY Invariant, <1>1, PTL

\* The two tables, the heap and the kernel's descriptors agree while the server
\* runs, whatever stale bufferevents erase.
THEOREM AgreeCorrect == Spec => []TablesAgree
<1>1. IInv => TablesAgree
  BY DEF IInv
<1> QED
  BY Invariant, <1>1, PTL

\* release leaves no TcpHandler undeleted.
THEOREM ReleaseCorrect == Spec => []ReleaseDeletesAll
<1>1. IInv => ReleaseDeletesAll
  BY DEF IInv
<1> QED
  BY Invariant, <1>1, PTL

\* The pointer a worker holds is right while the connection lives.
THEOREM LookupCorrect == Spec => []LookupStaysGood
<1>1. IInv => LookupStaysGood
  BY DEF IInv
<1> QED
  BY Invariant, <1>1, PTL

\* An erased connection never comes back under its identifier.
THEOREM IdsCorrect == Spec => IdsNotReused
<1> DEFINE Step == \A c \in 1..nConnId : conHandlers[c] = Null => conHandlers'[c] = Null
<1>1. IInv /\ [Next]_vars => [Step]_vars
  <2> SUFFICES ASSUME IInv, [Next]_vars,
                      NEW c \in 1..nConnId, conHandlers[c] = Null
               PROVE  conHandlers'[c] = Null
    OBVIOUS
  <2>0. TypeOK /\ Fresh /\ TablesAgree /\ c \in Conns /\ nConnId \in Int
    BY Constants DEF IInv, TypeOK, Conns
  <2>1. ASSUME NEW fd \in Fds, NEW a \in Addrs, Accept(fd, a) PROVE conHandlers'[c] = Null
    <3>1. conHandlers' = [conHandlers EXCEPT ![nConnId + 1] = a]
      BY <2>0, <2>1, AcceptEffect
    <3> QED
      BY <2>0, <3>1 DEF TypeOK
  <2>2. ASSUME NEW b \in Conns, eraseConnection(b) PROVE conHandlers'[c] = Null
    BY <2>0, <2>2 DEF eraseConnection, EraseTables, TypeOK
  <2>3. CASE TablesStay
    BY <2>3 DEF TablesStay
  <2>4. CASE DispatchReturns \/ DeleteHandlers \/ ClearTables
    BY <2>0, <2>4 DEF DispatchReturns, DeleteHandlers, ClearTables, tableVars
  <2> QED
    BY <2>0, <2>1, <2>2, <2>3, <2>4, TablesSteps
<1> QED
  BY Invariant, <1>1, PTL DEF Spec, IdsNotReused

\* A reply goes to another connection only after its own was erased.
THEOREM RepliesCorrect == Spec => RepliesOfLiveOnes
<1> DEFINE Step == \A b \in Conns : \A i \in 1..Len(output'[b]) :
       i > Len(output[b]) /\ output'[b][i] # b => conHandlers[output'[b][i]] = Null
<1>1. IInv /\ [Next]_vars => [Step]_vars
  <2> SUFFICES ASSUME IInv, [Next]_vars, NEW b \in Conns, NEW i \in 1..Len(output'[b]),
                      i > Len(output[b]), output'[b][i] # b
               PROVE  conHandlers[output'[b][i]] = Null
    OBVIOUS
  <2>0. output[b] \in Seq(Conns) /\ Len(output[b]) \in Nat
    BY DEF IInv, TypeOK
  <2>1. PICK w \in Workers : WriteReply(w)
    <3>1. \/ output' = output
          \/ \E c \in Conns : output' = [output EXCEPT ![c] = <<>>]
          \/ \E w \in Workers : WriteReply(w)
      <4>1. CASE UNCHANGED vars
        BY <4>1 DEF vars, bevVars
      <4>2. CASE MainStep
        BY <4>2 DEF MainStep, Report, Accept, ReadMessage, ReadRefused, ReadEnd,
           WriteOutput, WriteError, DispatchReturns, DeleteHandlers, ClearTables, bevVars
      <4>3. ASSUME NEW w \in Workers, WorkerStep(w) PROVE output' = output \/ WriteReply(w)
        BY <4>3 DEF WorkerStep, Lookup, EnableWrite, UseDeleted, bevVars
      <4> QED
        BY <4>1, <4>2, <4>3 DEF Next
    <3>2. output' # output
      BY <2>0
    <3>3. ASSUME NEW c \in Conns, output' = [output EXCEPT ![c] = <<>>] PROVE FALSE
      BY <2>0, <3>3 DEF IInv, TypeOK
    <3> QED
      BY <3>1, <3>2, <3>3
  <2> DEFINE h == handlers[found[w]]
             m == Head(work[w])
  <2>2. /\ mainPc = "run" /\ workPc[w] = "write" /\ h # Null
        /\ output' = [output EXCEPT ![h] = Append(@, m)]
    BY <2>1 DEF WriteReply
  <2>3. m \in Conns /\ h \in Conns
    BY <2>2, HeadTail DEF IInv, Busy, TypeOK
  <2>4. b = h /\ output'[b] = Append(output[b], m)
    BY <2>0, <2>2, <2>3 DEF IInv, TypeOK
  <2>5. output'[b][i] = m
    BY <2>0, <2>3, <2>4, Appended
  <2>6. conHandlers[m] # Null => handlers[conHandlers[m]] = m /\ found[w] = conHandlers[m]
    BY <2>2, <2>3 DEF IInv, TablesAgree, LookupStaysGood
  <2> QED
    BY <2>4, <2>5, <2>6
<1> QED
  BY Invariant, <1>1, PTL DEF Spec, RepliesOfLiveOnes

\* A connection in the tables disturbs no other one.
THEOREM DisturbCorrect == Spec => OnlyErasedDisturb
<1> DEFINE Step == \A b, c \in Conns :
             mainPc = "run" /\ bev' = b /\ conHandlers[b] # Null /\ c # b =>
               /\ sent'[c] = sent[c]
               /\ conHandlers[c] # Null => conHandlers'[c] = conHandlers[c]
<1>1. IInv /\ [Next]_vars => [Step]_vars
  <2> SUFFICES ASSUME IInv, [Next]_vars, NEW b \in Conns, NEW c \in Conns,
                      mainPc = "run", bev' = b, conHandlers[b] # Null, c # b
               PROVE  /\ sent'[c] = sent[c]
                      /\ conHandlers[c] # Null => conHandlers'[c] = conHandlers[c]
    OBVIOUS
  <2>0. TypeOK /\ TablesAgree /\ Fresh
    BY DEF IInv
  <2> DEFINE fd == bevFd[b]
  <2>1. /\ conHandlers[b] \in Addrs
        /\ handlers[conHandlers[b]] = b
        /\ socket[fd] = b
    <3>1. conHandlers[b] \in Addrs /\ handlers[conHandlers[b]] = b
      BY <2>0 DEF TypeOK, TablesAgree
    <3>2. b # Null
      BY Constants DEF Conns
    <3> QED
      BY <2>0, <3>1, <3>2 DEF TablesAgree
  <2>2. fd \in Fds
    <3>1. b <= nConnId
      <4>1. nConnId \in Int /\ b \in Int
        BY <2>0, Constants DEF TypeOK, Conns
      <4> QED
        BY <2>0, <4>1 DEF Fresh
    <3> QED
      BY <2>0, <3>1 DEF Fresh
  <2>3. tcpHandlers[fd] = conHandlers[b] /\ b # Null
    BY <2>0, <2>1, <2>2, Constants DEF TablesAgree, Conns
  <2>4. sent'[c] = sent[c]
    <3>1. CASE UNCHANGED sent
      BY <3>1
    <3>2. ASSUME NEW d \in Conns, WriteOutput(d) PROVE sent'[c] = sent[c]
      BY <2>0, <2>1, <3>2 DEF WriteOutput, TypeOK
    <3>3. UNCHANGED sent \/ \E d \in Conns : WriteOutput(d)
      <4>1. CASE UNCHANGED vars
        BY <4>1 DEF vars
      <4>2. CASE MainStep
        BY <4>2 DEF MainStep, Report, Accept, ReadMessage, ReadRefused, ReadEnd,
           WriteError, DispatchReturns, DeleteHandlers, ClearTables
      <4>3. ASSUME NEW w \in Workers, WorkerStep(w) PROVE UNCHANGED sent
        BY <4>3 DEF WorkerStep, Lookup, WriteReply, EnableWrite, UseDeleted
      <4> QED
        BY <4>1, <4>2, <4>3 DEF Next
    <3> QED
      BY <3>1, <3>2, <3>3
  <2>5. ASSUME conHandlers[c] # Null PROVE conHandlers'[c] = conHandlers[c]
    <3>1. ASSUME NEW g \in Fds, NEW a \in Addrs, Accept(g, a)
          PROVE  conHandlers'[c] = conHandlers[c]
      <4>1. bev' = nConnId + 1 /\ conHandlers' = [conHandlers EXCEPT ![nConnId + 1] = a]
        BY <3>1 DEF Accept, NextConnId
      <4> QED
        BY <2>0, <4>1 DEF TypeOK
    <3>2. ASSUME NEW d \in Conns, eraseConnection(d) PROVE conHandlers'[c] = conHandlers[c]
      <4>1. d = b
        BY <3>2 DEF eraseConnection
      <4> QED
        BY <2>0, <2>1, <2>3, <3>2, <4>1 DEF eraseConnection, EraseTables, TypeOK
    <3>3. CASE TablesStay
      BY <3>3 DEF TablesStay
    <3>4. CASE DispatchReturns \/ DeleteHandlers \/ ClearTables
      BY <3>4 DEF DispatchReturns, DeleteHandlers, ClearTables, tableVars
    <3> QED
      BY <2>0, <3>1, <3>2, <3>3, <3>4, TablesSteps
  <2> QED
    BY <2>4, <2>5
<1> QED
  BY Invariant, <1>1, PTL DEF Spec, OnlyErasedDisturb
------------------------------------------------------------------------------
\* The read event of an open connection is registered, so that libevent tells
\* epoll of it whenever it tells epoll anything about its descriptor.
Reads ==
  mainPc = "run" => \A fd \in Fds : socket[fd] # Null => socket[fd] \in evRead

DInv == Reads /\ DeafBehindErased

\* Whatever events libevent passes on, they include the read event of a
\* connection that reads.
LEMMA NewWatchReads ==
  ASSUME TypeOK, NEW fd \in Fds, NEW g \in Fds, NEW reads, NEW writes,
         NEW c \in Conns, bevFd[c] = g, c \in reads
  PROVE  LET w == NewWatch(fd, bevFd, reads, writes) IN
         w[g] = watch[g] \/ "read" \in w[g]
  BY DEF NewWatch, Interest, TypeOK

LEMMA DeafStep == IInv /\ DInv /\ [Next]_vars => DInv'
<1> SUFFICES ASSUME IInv, DInv, [Next]_vars PROVE DInv'
  OBVIOUS
<1>0. TypeOK /\ TablesAgree /\ Fresh /\ Reads /\ DeafBehindErased
  BY DEF IInv, DInv
<1> DEFINE Deaf(fd) == "read" \notin watch[fd] => \E b \in evRead \ {socket[fd]} : bevFd[b] = fd
<1>1. CASE UNCHANGED <<mainPc, socket, bevFd, evRead, watch>>
  BY <1>0, <1>1 DEF DInv, Reads, DeafBehindErased
<1>2. ASSUME NEW fd \in Fds, NEW a \in Addrs, Accept(fd, a) PROVE DInv'
  <2> DEFINE c == nConnId + 1
             fdOf == [bevFd EXCEPT ![c] = fd]
  <2>1. /\ mainPc = "run" /\ c \in Conns /\ c \notin evRead
        /\ socket' = [socket EXCEPT ![fd] = c]
        /\ bevFd' = fdOf /\ evRead' = evRead \cup {c}
        /\ watch' = NewWatch(fd, fdOf, evRead \cup {c}, evWrite)
    <3>1. mainPc = "run" /\ c \in Conns
          /\ socket' = [socket EXCEPT ![fd] = c] /\ bevFd' = fdOf
      BY <1>0, <1>2, AcceptEffect
    <3>2. nConnId \in Int /\ evRead \subseteq 1..nConnId
      BY <1>0, Constants DEF TypeOK
    <3>3. c \notin evRead
      BY <3>2
    <3> QED
      BY <1>2, <3>1, <3>3 DEF Accept, NextConnId
  <2>2. evRead \subseteq Conns /\ \A b \in evRead : fdOf[b] = bevFd[b] /\ b # c
    BY <1>0, <2>1, Constants DEF TypeOK, Conns
  <2>3. Reads'
    BY <1>0, <2>1 DEF Reads, TypeOK
  <2>4. ASSUME NEW g \in Fds, socket'[g] # Null, "read" \notin watch'[g]
        PROVE  \E b \in evRead' \ {socket'[g]} : bevFd'[b] = g
    <3>1. CASE g = fd
      <4>1. "read" \in Interest(fd, fdOf, evRead \cup {c}, evWrite)
        BY <1>0, <2>1 DEF Interest, TypeOK
      <4>2. "read" \in Interest(fd, bevFd, evRead, evWrite)
        BY <1>0, <2>1, <2>4, <3>1, <4>1 DEF NewWatch, TypeOK
      <4>3. PICK b \in evRead : bevFd[b] = fd
        BY <4>2 DEF Interest
      <4> QED
        BY <1>0, <2>1, <2>2, <3>1, <4>3 DEF TypeOK
    <3>2. CASE g # fd
      <4>1. watch'[g] = watch[g] /\ socket'[g] = socket[g]
        BY <1>0, <2>1, <3>2 DEF NewWatch, TypeOK
      <4>2. PICK b \in evRead \ {socket[g]} : bevFd[b] = g
        BY <1>0, <2>1, <2>4, <4>1 DEF DeafBehindErased
      <4> QED
        BY <2>1, <2>2, <4>1, <4>2
    <3> QED
      BY <3>1, <3>2
  <2> QED
    BY <2>3, <2>4 DEF DInv, DeafBehindErased
<1>3. ASSUME NEW b \in Conns, eraseConnection(b), bevFd[b] \in Fds,
             UNCHANGED <<mainPc, bevFd>>, evRead' = evRead \/ evRead' = evRead \ {b}
      PROVE  DInv'
  <2>1. /\ socket' = [socket EXCEPT ![bevFd[b]] = Null]
        /\ watch' = [watch EXCEPT ![bevFd[b]] = {}]
    BY <1>3 DEF eraseConnection
  <2>2. ASSUME NEW g \in Fds, mainPc = "run", socket'[g] # Null
        PROVE  /\ g # bevFd[b] /\ socket'[g] = socket[g] /\ watch'[g] = watch[g]
               /\ bevFd[socket[g]] = g
    BY <1>0, <1>3, <2>1, <2>2 DEF TypeOK, TablesAgree
  <2>3. \A g \in Fds : bevFd[b] # g => \A d \in evRead : bevFd[d] = g => d \in evRead'
    BY <1>3
  <2> QED
    BY <1>0, <1>3, <2>2, <2>3 DEF DInv, Reads, DeafBehindErased
<1>4. ASSUME NEW b \in Conns, bevFd[b] \in Fds, NEW writes,
             UNCHANGED <<mainPc, socket, bevFd, evRead>>,
             watch' = watch \/ watch' = NewWatch(bevFd[b], bevFd, evRead, writes)
      PROVE  DInv'
  <2>1. ASSUME NEW g \in Fds, mainPc = "run", socket[g] # Null
        PROVE  watch'[g] = watch[g] \/ "read" \in watch'[g]
    <3>1. socket[g] \in Conns /\ bevFd[socket[g]] = g /\ socket[g] \in evRead
      BY <1>0, <2>1 DEF TypeOK, TablesAgree, Reads
    <3> QED
      BY <1>0, <1>4, <3>1, NewWatchReads
  <2> QED
    BY <1>0, <1>4, <2>1 DEF DInv, Reads, DeafBehindErased
<1>5. \A b \in Conns : b <= nConnId => bevFd[b] \in Fds
  BY <1>0 DEF Fresh
<1>6. ASSUME NEW b \in Conns, ReadMessage(b) \/ ReadRefused(b) \/ ReadEnd(b)
                                \/ WriteOutput(b) \/ WriteError(b)
      PROVE  DInv'
  <2>1. bevFd[b] \in Fds
    <3>1. b <= nConnId
      BY <1>0, <1>6 DEF ReadMessage, ReadRefused, ReadEnd, WriteOutput, WriteError,
         Dispatch, TypeOK
    <3> QED
      BY <1>5, <3>1
  <2>2. CASE ReadMessage(b)
    BY <1>1, <2>2 DEF ReadMessage, bevVars
  <2>3. CASE ReadRefused(b) \/ ReadEnd(b) \/ WriteError(b)
    BY <1>3, <2>1, <2>3 DEF ReadRefused, ReadEnd, WriteError, mainVars
  <2>4. CASE WriteOutput(b)
    BY <1>4, <2>1, <2>4 DEF WriteOutput, DelWrite, mainVars
  <2> QED
    BY <1>6, <2>2, <2>3, <2>4
<1>7. ASSUME NEW w \in Workers, WorkerStep(w) PROVE DInv'
  <2>1. CASE Lookup(w) \/ UseDeleted(w)
    BY <1>1, <2>1 DEF Lookup, UseDeleted, mainVars, bevVars
  <2>2. CASE WriteReply(w) \/ EnableWrite(w)
    <3> DEFINE b == handlers[found[w]]
    <3>1. /\ b # Null /\ AddWrite(b) /\ found[w] \in Addrs
          /\ UNCHANGED <<mainPc, socket, bevFd, evRead>>
      BY <1>0, <2>2 DEF WriteReply, EnableWrite, mainVars, TypeOK
    <3>2. b \in Conns /\ b <= nConnId
      BY <1>0, <3>1 DEF TypeOK, Fresh
    <3> QED
      BY <1>4, <1>5, <3>1, <3>2 DEF AddWrite
  <2> QED
    BY <1>7, <2>1, <2>2 DEF WorkerStep
<1>8. CASE DispatchReturns \/ DeleteHandlers \/ ClearTables
  BY <1>8 DEF DispatchReturns, DeleteHandlers, ClearTables, DInv, Reads, DeafBehindErased
<1>9. ASSUME NEW fd \in Fds, Report(fd) PROVE DInv'
  BY <1>1, <1>9 DEF Report, mainVars, bevVars
<1> QED
  BY <1>1, <1>2, <1>6, <1>7, <1>8, <1>9 DEF Next, MainStep, vars, mainVars, bevVars

\* The input of an open connection goes unreported only where an erased
\* bufferevent still has its read event on the same descriptor.
THEOREM DeafCorrect == Spec => []DeafBehindErased
<1>1. Init => DInv
  BY DEF Init, DInv, Reads, DeafBehindErased
<1>2. IInv /\ DInv /\ [Next]_vars => DInv'
  BY DeafStep
<1>3. DInv => DeafBehindErased
  BY DEF DInv
<1> QED
  BY Invariant, <1>1, <1>2, <1>3, PTL DEF Spec
==============================================================================
