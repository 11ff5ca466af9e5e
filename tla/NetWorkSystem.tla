----------------------------- MODULE NetWorkSystem -----------------------------
(***************************************************************************)
(* The tables of connections of NetWorkSystem and what shares them: the    *)
(* callbacks that libevent runs on the main thread, and the replies that   *)
(* the worker threads write through a TcpHandler they looked up.           *)
(*                                                                         *)
(* A bufferevent is created by each accept and never freed, so it is named *)
(* by the identifier of its connection. eraseConnection closes the file    *)
(* descriptor and deletes the TcpHandler but leaves the events of the      *)
(* bufferevent registered, and the kernel gives the descriptor to the next *)
(* connection. libevent and epoll are modelled as far as that matters.     *)
(***************************************************************************)
EXTENDS Integers, Sequences

CONSTANTS
  Fds,        \* descriptors the kernel can give to accepted sockets
  Addrs,      \* addresses at which a TcpHandler can be allocated
  Workers,    \* the NetWorkers
  WorkerOf(_),\* the worker that handles the messages of a connection
  MaxConns,   \* bound: connections accepted
  MaxMsgs,    \* bound: test messages received
  Null        \* a null pointer, a missing entry

ASSUME Constants ==
  /\ Fds \subseteq Nat
  /\ MaxConns \in Nat /\ MaxMsgs \in Nat
  /\ Null \notin Addrs /\ Null \notin Fds /\ Null \notin 1..MaxConns
  /\ \A c \in 1..MaxConns : WorkerOf(c) \in Workers

Conns == 1..MaxConns

VARIABLES
  mainPc,    \* whether the main thread is in run or in release
  nConnId,   \* m_nConnId
  socket,    \* the connection whose socket a descriptor is, or Null
  bevFd,     \* the descriptor a bufferevent was created for, or Null
  evRead,    \* bufferevents with a read event in the event base
  evWrite,   \* bufferevents with a write event in the event base
  watch,     \* the events of a descriptor that epoll was told to watch
  active,    \* the events epoll reported whose callbacks are still to run
  output,    \* replies in the output buffer of a bufferevent
  handlers,  \* the connection of the TcpHandler at an address, or Null
  tcpHandlers, \* m_mapTcpHandlers
  conHandlers, \* m_mapConHandlers
  work,      \* messages given to a worker and not handled
  workPc,    \* where a worker is in HandleTestMsg
  found,     \* the pointer getHandlerByConnId returned to a worker
  received,  \* test messages received (bounded by MaxMsgs)
  sent,      \* replies each peer was sent (history)
  bev        \* the argument of the last callback

bevVars == <<bevFd, evRead, evWrite, watch, output>>
tableVars == <<handlers, tcpHandlers, conHandlers>>
workVars == <<work, workPc, found>>
mainVars == <<mainPc, nConnId, received>>
vars == <<mainVars, socket, bevVars, active, tableVars, workVars, sent, bev>>

Init ==
  /\ mainPc = "run"
  /\ nConnId = 0
  /\ socket = [fd \in Fds |-> Null]
  /\ bevFd = [b \in Conns |-> Null]
  /\ evRead = {}
  /\ evWrite = {}
  /\ watch = [fd \in Fds |-> {}]
  /\ active = {}
  /\ output = [b \in Conns |-> <<>>]
  /\ handlers = [a \in Addrs |-> Null]
  /\ tcpHandlers = [fd \in Fds |-> Null]
  /\ conHandlers = [c \in Conns |-> Null]
  /\ work = [w \in Workers |-> <<>>]
  /\ workPc = [w \in Workers |-> "idle"]
  /\ found = [w \in Workers |-> Null]
  /\ received = 0
  /\ sent = [c \in Conns |-> <<>>]
  /\ bev = Null
------------------------------------------------------------------------------
(* libevent *)

\* The events registered for fd when reads and writes are the bufferevents
\* with a read and a write event, and fdOf gives their descriptors.
Interest(fd, fdOf, reads, writes) ==
  {e \in {"read", "write"} :
     \E b \in Conns : fdOf[b] = fd /\ b \in (IF e = "read" THEN reads ELSE writes)}

\* Mutant of NewWatch: only the first event of any kind is told to epoll.
NewWatchFirst(fd, fdOf, reads, writes) ==
  LET old == Interest(fd, bevFd, evRead, evWrite)
      new == Interest(fd, fdOf, reads, writes)
  IN IF old # {} /\ new # {} THEN watch ELSE [watch EXCEPT ![fd] = new]

\* What epoll watches on fd once the events change. libevent counts the events
\* on a descriptor and calls epoll_ctl only for the first and the last of a
\* kind, always with all that is registered; on a closed descriptor it fails.
NewWatch(fd, fdOf, reads, writes) ==
  LET old == Interest(fd, bevFd, evRead, evWrite)
      new == Interest(fd, fdOf, reads, writes)
  IN IF old = new THEN watch ELSE [watch EXCEPT ![fd] = new]

\* event_add and event_del on the write event of b.
AddWrite(b) ==
  /\ evWrite' = evWrite \cup {b}
  /\ watch' = NewWatch(bevFd[b], bevFd, evRead, evWrite \cup {b})

DelWrite(b) ==
  /\ evWrite' = evWrite \ {b}
  /\ watch' = IF socket[bevFd[b]] = Null THEN watch
              ELSE NewWatch(bevFd[b], bevFd, evRead, evWrite \ {b})

\* epoll reports events of fd: every event registered for it becomes active.
\* Their callbacks run next, in an order that depends on the version of
\* libevent, before those of another descriptor or of the listener.
Report(fd) ==
  /\ mainPc = "run"
  /\ active = {}
  /\ \E reported \in SUBSET watch[fd] :
       active' = {e \in ({"read"} \X evRead) \cup ({"write"} \X evWrite) :
                    bevFd[e[2]] = fd /\ e[1] \in reported}
  /\ active' # {}
  /\ UNCHANGED <<mainVars, socket, bevVars, tableVars, workVars, sent, bev>>

\* The callback for event e of b runs.
Dispatch(e, b) ==
  /\ <<e, b>> \in active
  /\ active' = active \ {<<e, b>>}
------------------------------------------------------------------------------
(* The main thread: one action per callback *)

\* Mutant of NextConnId: an identifier that is free is used again.
FreeConnId == CHOOSE c \in Conns : conHandlers[c] = Null

\* m_nConnId ++
NextConnId == nConnId + 1

\* listener_read_cb and addConnection. accept returns the lowest descriptor.
Accept(fd, a) ==
  LET c == NextConnId
      fdOf == [bevFd EXCEPT ![c] = fd]
  IN /\ mainPc = "run"
     /\ active = {}
     /\ nConnId < MaxConns
     /\ socket[fd] = Null /\ \A g \in Fds : socket[g] = Null => fd <= g
     /\ handlers[a] = Null
     /\ socket' = [socket EXCEPT ![fd] = c]
     /\ bevFd' = fdOf
     /\ evRead' = evRead \cup {c}
     /\ watch' = NewWatch(fd, fdOf, evRead \cup {c}, evWrite)
     /\ nConnId' = c
     /\ handlers' = [handlers EXCEPT ![a] = c]
     /\ tcpHandlers' = IF tcpHandlers[fd] # Null THEN tcpHandlers
                       ELSE [tcpHandlers EXCEPT ![fd] = a]
     /\ conHandlers' = [conHandlers EXCEPT ![c] = a]
     /\ bev' = c
     /\ UNCHANGED <<mainPc, evWrite, output, active, workVars, received, sent>>

\* Mutant of EraseTables: the entry in m_mapConHandlers is forgotten.
EraseOneTable(fd) ==
  LET a == tcpHandlers[fd] IN
  /\ tcpHandlers' = [tcpHandlers EXCEPT ![fd] = Null]
  /\ IF a = Null THEN UNCHANGED handlers
     ELSE handlers' = [handlers EXCEPT ![a] = Null]
  /\ UNCHANGED conHandlers

\* The handler found for fd is deleted and removed from both tables.
EraseTables(fd) ==
  LET a == tcpHandlers[fd] IN
  /\ tcpHandlers' = [tcpHandlers EXCEPT ![fd] = Null]
  /\ IF a = Null THEN UNCHANGED <<handlers, conHandlers>>
     ELSE /\ handlers' = [handlers EXCEPT ![a] = Null]
          /\ conHandlers' = [conHandlers EXCEPT ![handlers[a]] = Null]

\* eraseConnection(b): the descriptor is closed, which removes it from epoll,
\* and looked up in the table.
eraseConnection(b) ==
  /\ bev' = b
  /\ socket' = [socket EXCEPT ![bevFd[b]] = Null]
  /\ watch' = [watch EXCEPT ![bevFd[b]] = {}]
  /\ EraseTables(bevFd[b])

\* tcpread_cb(b) with a whole test message in the input buffer of b. The
\* handler of the descriptor reads the input of its own bufferevent. Where two
\* bufferevents share a descriptor, the second finds nothing left to read: the
\* socket is blocking, so its recv waits for the next message or the end.
ReadMessage(b) ==
  LET a == tcpHandlers[bevFd[b]] IN
  /\ Dispatch("read", b)
  /\ socket[bevFd[b]] # Null
  /\ received < MaxMsgs
  /\ received' = received + 1
  /\ bev' = b
  /\ IF a # Null /\ handlers[a] = b
     THEN work' = [work EXCEPT ![WorkerOf(b)] = Append(@, b)]
     ELSE UNCHANGED work
  /\ UNCHANGED <<mainPc, nConnId, socket, bevVars, tableVars, workPc, found, sent>>

\* tcpread_cb(b) with a head that dealReadEvent refuses.
ReadRefused(b) ==
  LET a == tcpHandlers[bevFd[b]] IN
  /\ Dispatch("read", b)
  /\ a # Null /\ handlers[a] = b
  /\ eraseConnection(b)
  /\ UNCHANGED <<mainVars, bevFd, evRead, evWrite, output, workVars, sent>>

\* The end of the stream, or an error on recv (the descriptor may have been
\* closed since it was reported): libevent removes the read event and calls
\* tcperror_cb(b).
ReadEnd(b) ==
  /\ Dispatch("read", b)
  /\ evRead' = evRead \ {b}
  /\ eraseConnection(b)
  /\ UNCHANGED <<mainVars, bevFd, evWrite, output, workVars, sent>>

\* libevent writes the output buffer of b, if it holds any, to the descriptor
\* of b and removes the write event.
WriteOutput(b) ==
  LET d == socket[bevFd[b]] IN
  /\ Dispatch("write", b)
  /\ output[b] # <<>> => d # Null
  /\ bev' = b
  /\ sent' = IF output[b] = <<>> THEN sent ELSE [sent EXCEPT ![d] = @ \o output[b]]
  /\ output' = [output EXCEPT ![b] = <<>>]
  /\ DelWrite(b)
  /\ UNCHANGED <<mainVars, socket, bevFd, evRead, tableVars, workVars>>

\* An error on send: libevent removes the write event and calls tcperror_cb(b).
WriteError(b) ==
  /\ Dispatch("write", b)
  /\ output[b] # <<>>
  /\ evWrite' = evWrite \ {b}
  /\ eraseConnection(b)
  /\ UNCHANGED <<mainVars, bevFd, evRead, output, workVars, sent>>

\* event_base_dispatch returns, on an error of epoll_wait: the listener keeps
\* it from running out of events. release frees the event base.
DispatchReturns ==
  /\ mainPc = "run"
  /\ active = {}
  /\ mainPc' = "delete"
  /\ evRead' = {} /\ evWrite' = {}
  /\ watch' = [fd \in Fds |-> {}]
  /\ UNCHANGED <<nConnId, received, socket, bevFd, output, active, tableVars,
                 workVars, sent, bev>>

\* Mutant of DeleteHandlers: the loop starts at the second descriptor.
DeleteOthers ==
  /\ mainPc = "delete"
  /\ mainPc' = "clear"
  /\ handlers' = [a \in Addrs |->
       IF \E fd \in Fds : tcpHandlers[fd] = a /\ \E g \in Fds : g < fd
       THEN Null ELSE handlers[a]]
  /\ tcpHandlers' = [fd \in Fds |-> Null]
  /\ UNCHANGED <<nConnId, received, socket, bevVars, active, conHandlers,
                 workVars, sent, bev>>

\* release deletes the handlers; m_mapConHandlers keeps their addresses ...
DeleteHandlers ==
  /\ mainPc = "delete"
  /\ mainPc' = "clear"
  /\ handlers' = [a \in Addrs |->
       IF \E fd \in Fds : tcpHandlers[fd] = a THEN Null ELSE handlers[a]]
  /\ tcpHandlers' = [fd \in Fds |-> Null]
  /\ UNCHANGED <<nConnId, received, socket, bevVars, active, conHandlers,
                 workVars, sent, bev>>

\* ... until it is cleared.
ClearTables ==
  /\ mainPc = "clear"
  /\ mainPc' = "released"
  /\ conHandlers' = [c \in Conns |-> Null]
  /\ UNCHANGED <<nConnId, received, socket, bevVars, active, handlers,
                 tcpHandlers, workVars, sent, bev>>

MainStep ==
  \/ \E fd \in Fds : Report(fd) \/ \E a \in Addrs : Accept(fd, a)
  \/ \E b \in Conns : \/ ReadMessage(b) \/ ReadRefused(b) \/ ReadEnd(b)
                      \/ WriteOutput(b) \/ WriteError(b)
  \/ DispatchReturns \/ DeleteHandlers \/ ClearTables
------------------------------------------------------------------------------
(* Worker w, in HandleTestMsg *)

\* Mutant of Lookup: the worker uses the handler it found for another message.
LookupCached(w) ==
  /\ workPc[w] = "idle"
  /\ work[w] # <<>>
  /\ LET a == IF found[w] # Null THEN found[w] ELSE conHandlers[Head(work[w])]
     IN /\ found' = [found EXCEPT ![w] = a]
        /\ IF a = Null
           THEN work' = [work EXCEPT ![w] = Tail(@)] /\ UNCHANGED workPc
           ELSE workPc' = [workPc EXCEPT ![w] = "write"] /\ UNCHANGED work
  /\ UNCHANGED <<mainVars, socket, bevVars, active, tableVars, sent, bev>>

\* getHandlerByConnId. A message whose connection is gone gets no reply.
Lookup(w) ==
  /\ workPc[w] = "idle"
  /\ work[w] # <<>>
  /\ LET a == conHandlers[Head(work[w])]
     IN /\ found' = [found EXCEPT ![w] = a]
        /\ IF a = Null
           THEN work' = [work EXCEPT ![w] = Tail(@)] /\ UNCHANGED workPc
           ELSE workPc' = [workPc EXCEPT ![w] = "write"] /\ UNCHANGED work
  /\ UNCHANGED <<mainVars, socket, bevVars, active, tableVars, sent, bev>>

\* dealWriteEvent: bufferevent_write through the m_pBufferevent of whatever
\* handler is at that address now ...
WriteReply(w) ==
  LET b == handlers[found[w]] IN
  /\ workPc[w] = "write"
  /\ mainPc = "run"
  /\ b # Null
  /\ output' = [output EXCEPT ![b] = Append(@, Head(work[w]))]
  /\ AddWrite(b)
  /\ workPc' = [workPc EXCEPT ![w] = "enable"]
  /\ UNCHANGED <<mainVars, socket, bevFd, evRead, active, tableVars, work, found,
                 sent, bev>>

\* ... and bufferevent_enable.
EnableWrite(w) ==
  LET b == handlers[found[w]] IN
  /\ workPc[w] = "enable"
  /\ mainPc = "run"
  /\ b # Null
  /\ AddWrite(b)
  /\ workPc' = [workPc EXCEPT ![w] = "idle"]
  /\ work' = [work EXCEPT ![w] = Tail(@)]
  /\ UNCHANGED <<mainVars, socket, bevFd, evRead, output, active, tableVars, found,
                 sent, bev>>

\* There is no handler at the address any more: ~TcpHandler has set its
\* m_pBufferevent to null and freed it. Or the bufferevent is there but its
\* event base is freed. The process dies.
UseDeleted(w) ==
  /\ workPc[w] \in {"write", "enable"}
  /\ handlers[found[w]] = Null \/ mainPc # "run"
  /\ workPc' = [workPc EXCEPT ![w] = "fault"]
  /\ UNCHANGED <<mainVars, socket, bevVars, active, tableVars, work, found, sent,
                 bev>>

WorkerStep(w) == Lookup(w) \/ WriteReply(w) \/ EnableWrite(w) \/ UseDeleted(w)

Alive == \A w \in Workers : workPc[w] # "fault"

Next == Alive /\ (MainStep \/ \E w \in Workers : WorkerStep(w))

Spec == Init /\ [][Next]_vars
------------------------------------------------------------------------------
TypeOK ==
  /\ mainPc \in {"run", "delete", "clear", "released"}
  /\ nConnId \in 0..MaxConns
  /\ socket \in [Fds -> Conns \cup {Null}]
  /\ bevFd \in [Conns -> Fds \cup {Null}]
  /\ evRead \subseteq 1..nConnId
  /\ evWrite \subseteq 1..nConnId
  /\ watch \in [Fds -> SUBSET {"read", "write"}]
  /\ active \subseteq {"read", "write"} \X (1..nConnId)
  /\ output \in [Conns -> Seq(Conns)]
  /\ handlers \in [Addrs -> Conns \cup {Null}]
  /\ tcpHandlers \in [Fds -> Addrs \cup {Null}]
  /\ conHandlers \in [Conns -> Addrs \cup {Null}]
  /\ work \in [Workers -> Seq(Conns)]
  /\ workPc \in [Workers -> {"idle", "write", "enable", "fault"}]
  /\ found \in [Workers -> Addrs \cup {Null}]
  /\ \A w \in Workers : workPc[w] \in {"write", "enable"} => found[w] \in Addrs
  /\ received \in 0..MaxMsgs
  /\ sent \in [Conns -> Seq(Conns)]
  /\ bev \in Conns \cup {Null}

\* The tables, the heap and the kernel agree, also when stale bufferevents
\* close descriptors and erase connections: while the server runs an open
\* socket has one handler, which both tables give for it, and there is no
\* other handler.
TablesAgree == mainPc = "run" =>
  /\ \A fd \in Fds :
       IF socket[fd] = Null THEN tcpHandlers[fd] = Null
       ELSE /\ bevFd[socket[fd]] = fd
            /\ tcpHandlers[fd] # Null
            /\ handlers[tcpHandlers[fd]] = socket[fd]
            /\ conHandlers[socket[fd]] = tcpHandlers[fd]
  /\ \A c \in Conns : conHandlers[c] # Null => handlers[conHandlers[c]] = c
  /\ \A a \in Addrs : handlers[a] # Null =>
       /\ conHandlers[handlers[a]] = a
       /\ socket[bevFd[handlers[a]]] = handlers[a]

\* release deletes every handler there is: none has left the table by
\* descriptor alive.
ReleaseDeletesAll ==
  mainPc \in {"clear", "released"} => \A a \in Addrs : handlers[a] = Null

\* A connection that was erased does not come back under its identifier: a
\* worker that looks it up later finds nothing, never another connection.
IdsNotReused ==
  [][\A c \in 1..nConnId : conHandlers[c] = Null => conHandlers'[c] = Null]_vars

\* The pointer a worker holds is that of the connection of its message for as
\* long as that connection is in the tables.
LookupStaysGood ==
  \A w \in Workers : workPc[w] \in {"write", "enable"} =>
    LET c == Head(work[w]) IN conHandlers[c] # Null => found[w] = conHandlers[c]

\* A reply is written to the bufferevent of another connection only when the
\* connection it answers was erased before.
RepliesOfLiveOnes ==
  [][\A b \in Conns : \A i \in 1..Len(output'[b]) :
       i > Len(output[b]) /\ output'[b][i] # b =>
         conHandlers[output'[b][i]] = Null]_vars

\* A bufferevent that outlives its connection may take another one's socket and
\* handler for its own, but the callbacks of a connection that is in the tables
\* never write to the socket of another or remove it from the tables.
OnlyErasedDisturb ==
  [][\A b, c \in Conns :
       mainPc = "run" /\ bev' = b /\ conHandlers[b] # Null /\ c # b =>
         /\ sent'[c] = sent[c]
         /\ conHandlers[c] # Null => conHandlers'[c] = conHandlers[c]]_vars

\* A connection whose input epoll does not report is on a descriptor of which
\* an erased bufferevent still has the read event.
DeafBehindErased ==
  mainPc = "run" =>
    \A fd \in Fds : socket[fd] # Null /\ "read" \notin watch[fd] =>
      \E b \in evRead \ {socket[fd]} : bevFd[b] = fd

\* The comment on the private constructor of TcpHandler: a bufferevent is
\* managed by one TcpHandler only. A callback for a bufferevent would then
\* never delete the handler of another one.
OneHandlerPerBufferevent ==
  [][\A a \in Addrs :
       mainPc = "run" /\ handlers[a] # Null /\ handlers'[a] = Null =>
         bev' = handlers[a]]_vars
==============================================================================
