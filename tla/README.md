# A verification development for smartserver

smartserver is a small TCP server in C++ on libevent. It cuts the byte stream of each
connection into packets, hands the packets to two worker threads, and the workers answer
through the bufferevent of the connection. This directory models it in TLA+. TLC checks the
models on small instances; TLAPS proves the most important properties for every value of the
constants.

Run a check with `tlc -config MCNetWorker.cfg MCNetWorker`, the proofs with `tlapm
NetWorker_proofs.tla`.

## The system

| Part | Code | State | Operations |
|---|---|---|---|
| Reassembly | `NetWorkSystem/tcphandler.*` | the input buffer, `m_listMsgs`, `m_pLastNode` | `dealReadEvent`, `insertNode`, `tcpRead`, `isReceived`, `~TcpHandler` |
| A message's memory | `MsgNode` in `tcphandler.h`, `ConMsgNode` in `networker.h` | `m_pMsg` and the block it owns, `m_nMsgLen`, `m_nOffSet` | constructors, `operator =`, destructor, `getMsgData` |
| Hand-over | `NetWorkSystem/networker.*`, `CLock.*` | `m_msgInStream` (a list and `m_nCount`), the mutex, a worker's local stream, `m_nShutDown` | `pushNodeInStream`, `popMsgFromInStream`, `threadWorkFunc`, `~NetWorker` |
| Connections | `NetWorkSystem/networksystem.*` | `m_mapTcpHandlers` by descriptor, `m_mapConHandlers` by identifier, `m_nConnId`; descriptors, bufferevents and events outside the program | `listener_read_cb`, `addConnection`, `tcpread_cb`, `tcperror_cb`, `eraseConnection`, `getHandlerByConnId`, `release` |
| Messages | `NetWorkSystem/msghandler.*`, `MsgHandler/testmsghandler.cpp` | the static table `m_hHandlers` | `registerMsgs`, `handleMsg`, `HandleTestMsg`, `dealWriteEvent` |
| Content | `ProtoBuf/smart.msg.*`, `google/protobuf` | the fields of `smart.test`, the place of the parser | `ParseFromString`, `ByteSize`, `SerializeToString` |
| Test client | `testfiles/client5.cpp` | the arrays `packethead` and `recvData`, `offset`, `recvCount` | the loop of `recvf` |
| Process | `basethread.*`, `singletonclass.h`, `Linux/main.cpp` | threads, the life of the objects | `startup`, `threadFunc`, `join`, constructors and destructors, `main` |

There are three threads. The main thread runs the event loop: libevent calls the callbacks
of `NetWorkSystem`, which call `TcpHandler` and `pushNodeInStream`. Worker `connId % 2`
empties its in-stream under the mutex, handles the messages without it, and for each looks
the connection up in `m_mapConHandlers`, which the main thread changes, and writes to its
bufferevent. At exit the destructor of the static `NetWorkSystem` destroys the workers and
joins their threads.

What is hard: the cuts of TCP segments, which `m_pLastNode` has to survive; the order of
list, counter and mutex between the threads; pointers that a worker holds while the main
thread deletes; descriptors that the kernel uses again while an old bufferevent, which is
never freed, is still registered for them; threads that outlast the constructors and
destructors around them; writes that wait for a peer on the one thread that serves all; zero
bytes, and integers of several bytes, in a content that is handled as a C string; and a
message that is copied five times by code that manages its memory by hand. `PROJECT.json`
lists each hazard at its line.

What makes each part correct: the messages handed over are the frames of the stream, all of
them and no others; each is handled once, in order, by one worker; the two tables, the heap
and the open sockets agree; a reply goes to the connection that asked; a worker always finds
the handler of a message; the process ends; a content is never read as another; a peer that
keeps reading is served.

## The modules

`Packets` defines heads, frames and messages. A stream is the function from a position to
the head its bytes decode to there, and a payload byte is its position, so that a reader
that loses its place, repeats or skips a byte shows.

`TcpHandler` is one connection on the main thread. One action is one iteration of a loop of
`dealReadEvent` (`EndLoop`, `RejectHead`, `OpenNode`, `tcpRead`) or of `pushNodeInStream`
(`PushNode`, `PushEnd`), and `pc` tells which comes next. `ReadEvent` is a callback with any
number of new bytes, `ErrorEvent` the end of the connection. `m_pLastNode` is null, the back
node of the list, or freed; a test of the freed node has either outcome, and a read into it
ends in `fault`.

`FrameStream` is its abstract specification: deliver the next frame, or close.

`NetWorker` is the main thread, the workers and their mutexes. The callback of `TcpHandler`
is one step here (`ReadCallback`) that completes some messages. The list and the counter
change in different steps, and the counter is loaded in one and stored in the next
(`InsertNode`/`InsertCount`, `TakeNode`/`TakeCount`), so that the mutex has something to do.
`SetShutDown`, `DestroyInStream` and `Join` are the destruction of a worker in the order C++
prescribes: destructor body, members, base class. A worker that uses its in-stream after
`DestroyInStream` either goes on with what the destructor left, an empty list and the
counter 0 (`PopNothing` is the answer of `popMsgFromList` then), or faults (`Fault`).

`WorkQueue` is its abstract specification: a queue per worker.

`NetWorkSystem` has one action per callback, and the lookup and the two calls of libevent in
`dealWriteEvent` as steps of a worker. A bufferevent has the identifier of its connection,
since none is ever freed. `socket` is what the kernel has behind a descriptor and `watch`
what epoll was told; `NewWatch` is libevent's rule that epoll is called only for the first
and the last event of a kind. `Report` makes all events of a descriptor active at once, and
their callbacks run one after the other, so that one of them may erase the connection of the
next. A `TcpHandler` lives at one of a few addresses, which `Accept` may use again.

`Lifecycle` is construction, bind that may fail, exit, and the point at which each thread
begins to run. An object is a `BaseThread` before and after it is a `NetWorker`
(`ConstructBase`, `ClearTable`, `DestroyBase`), which decides what the virtual
`threadWorkFunc` is. The static handler table is cleared and filled
by every `NetWorker` that is constructed.

`EventLoop` is the thread of `run` and the sockets. `Report` collects what epoll has to
report, and a callback takes one event of that round, in any order. `WriteOutput` is
libevent's write of an output buffer: on a socket in blocking mode, which `accept` returns
and nobody changes, it copies what the kernels' buffers hold and then waits (`thread` is the
peer) until the peer reads (`WriteGoesOn`) or gives the connection up (`WriteReturnsShort`).
`link` tells a peer that has closed its socket from one whose connection is reset, as seen
by epoll (`"reset"`) or only by the next write (`"broken"`, `BrokenPipe`).

`EchoService` is its abstract specification: a peer gets one reply per request, after the
request, for as long as it stays.

`MsgNode` is the memory of one message on its way through five copies. A block is the
sequence of its bytes, `heap[h]` the block of the `h`-th object. `CopyTo` is `operator =`,
with the size given to `malloc` wrapped to `UIntMod`, `Free` the destructor. `Construct`
with a failing `malloc` leaves the members at any value, and the node goes on as the others
do. A read or a write outside a block
ends in `"fault"`.

`WireFormat` has the varints and tags of the vendored runtime, `TestMsgHandler` what happens
to the content of a message: cut at its first zero byte, parsed field by field (`ReadTag`,
`ReadName`, `ReadAge`, `ReadEmail`, `SkipField`, `StartGroup`, `EndGroup`, `Malformed`),
kept with its unknown fields, serialized for the reply, and read by the client in the same
way. Integers have their real width.

`ClientEcho` is the loop of `recvf`. One action is one `recv`, which returns any part of
what is asked for, 0 at the end, or -1 once. `head` and `data` are the arrays with what
earlier calls left in them, `lost` (history) the replies whose head came in pieces that do
not leave the cells of its length as they were sent.

The modules `MC...` give the constants of the runs. The modules `..._proofs` hold the
theorems. An operator marked "Mutant of" is a plausible bug, used to see that a property can
fail; no specification uses it.

## What the runs check

| Run | Bounds | Result |
|---|---|---|
| `MCTcpHandler.cfg` | 64 streams of three packets: empty, one byte, longer than a head; identifiers 0, 1, 1024 and 1025; heads of 2 bytes; every segmentation | the properties hold |
| `MCTcpHandlerEmpty.cfg` | the same | `TestsLiveNode` is violated |
| `MCNetWorker.cfg` | 2 workers, 3 connections, 2 messages each, 3 read callbacks | hold |
| `MCNetWorkSystem.cfg` | 3 connections on 2 descriptors and 2 addresses, 2 workers, 2 messages (236,911 states) | hold |
| `MCNetWorkSystemOneHandler.cfg` | the same | `OneHandlerPerBufferevent` is violated |
| `MCLifecycle.cfg` | 2 workers, 3 identifiers, 3 messages | hold |
| `MCLifecycleClient.cfg` | the same | `ClientMsgsHandled` is violated |
| `MCEventLoop.cfg` | 2 peers, one of which may stop reading; buffers for 2 replies; 3 and 2 requests | hold |
| `MCMsgNode.cfg` | unsigned integers of 3 bits: every length; every cut; every set of failing `malloc`s | hold |
| `MCTestMsgHandler.cfg` | 420 serialized messages, 8,421 other payloads | hold |
| `MCTestMsgHandlerZero.cfg` | the same | `LegalAnswered` is violated |
| `MCClientEcho.cfg` | 3 replies with a head of 8 bytes and a payload of 3; every cut, every end of the stream | hold |

The type invariants of `TcpHandler`, `NetWorker`, `NetWorkSystem`, `Lifecycle` and
`EventLoop` are proved and need no run; those of the other modules are invariants of theirs.

**tcphandler.** `Reassembly`: what is handed over is the frames of the stream,
adjacent, complete, each byte once. `Drained`: a callback that returned left
nothing it could have handed over. `FreedAfterEmptyOnly`: the only way to a dangling
`m_pLastNode`. `FramesSpec`: the refinement. `FrameHandedOver`: a frame that has arrived is handed over, so
the callback ends. Three packets are
enough to have a frame before, at and after every cut; a head of two bytes can be
cut, and a payload of three is longer than a head.

**networker.** `InOrder`, `NothingLost`, `CountIsLength`, `NoUseAfterDelete`, the
refinement `QueuesSpec`, and under fairness `EveryMessageHandled` and `ExitEnds`. With
three connections two share a worker and one is alone; three callbacks let one
arrive while an earlier batch is moved and another is handled. `ExitEnds`, `InOrder` and
`QueuesSpec` also cover a worker that goes on with a destroyed in-stream: it comes to its
end and handles nothing twice. A worker that faults on it is excepted.

**networksystem.** `TablesAgree` and `ReleaseDeletesAll` hold although stale
bufferevents erase connections that are not theirs. The other properties bound
the damage. A worker that holds a pointer is right about it until its
connection is erased (`LookupStaysGood`), and a reply goes to another connection
only then (`RepliesOfLiveOnes`, which needs that identifiers are not given twice). A
callback closes, deletes or writes what belongs to another connection only when
its own was erased (`OnlyErasedDisturb`), and epoll keeps silent about a connection
only where an erased bufferevent reads the same descriptor (`DeafBehindErased`). All of
these do happen: the properties are implications whose premises are reached.
Three connections on two descriptors force one to be used again.

**lifecycle.** `TestMsgRegistered` and `ExitEnds`, with threads that cannot be created,
begin late or run while the next worker is constructed. `PureCallOnlyAtExit`: a thread finds
the pure `threadWorkFunc` in one place only, the `~BaseThread` of its own object, while the
threads of the workers destroyed before have ended and the later workers are whole; never
during construction, although every object is a `BaseThread` there too, and never on an
object that is gone.

**eventloop.** `EachAnsweredOnce` and the refinement `ServiceSpec` hold whatever waits.
`NeverWaitsForFew`
bounds what a slow peer can do: it has to send more requests than the kernels
hold replies. Below that bound, and under fairness, `ReadersServed` and
`HangUpNoticed`. Two peers are enough for one to wait behind the other; the reader has
one request more than the buffers hold, so that writes to it do wait.

**msgnode.** `OneOwner` (no block is shared, freed twice or left), `FaultsOnlyThen`
(accesses are inside their block, or the first or the last `malloc` failed, or the length is
the largest), `HandledWholeOrEmpty` (what the worker sees). Both are about every set of
failing `malloc`s: once one has failed, what is handled has length 0, and its identifier is 0
unless the first alone failed; then it may be one that nobody sent. Three bits have every case of the wrap: the length that is the
largest integer, and lengths below it that can be cut.

**testmsghandler.** `NeverAltered`: the server handles the message that was
serialized, and the client reads the one the server handled, unknown fields
included, or they refuse it. `RefusedForZeroOnly`: zero bytes are the only reason for
either side to refuse what comes from a serialized message, and the reply repeats its bytes.
`SizeAgrees`: `ByteSize` is the number of bytes
written. `ReplyReadable`: the client can read every reply without zero bytes.
`ParserReturns`: the parser comes to an end. Names are around the length that needs a
second byte, ages are at each boundary of a varint and at both ends of `int32`, and
other payloads join fields, unknown fields of each wire type, nested groups and
malformed pieces.

**clientecho.** `InStep`: the client stays in step with the replies as long as no head is
cut so that a later piece reaches the length's cells, and the first that is gives it a wrong
length. A payload in two pieces is parsed wrong but harms no other
(`RightIfInOnePiece`); in step, every reply is counted in the end (`EveryReplyCounted`). Three
replies let an error in one meet what another left in the arrays.

The violation runs each check one statement of the code's own comments, data definitions or
clients:

- `TestsLiveNode` (`tcphandler.cpp:25`): after an empty packet at the end of the
  input the test reads a deleted node.
- `OneHandlerPerBufferevent` (`tcphandler.h:156`): the bufferevent of an erased
  connection stays registered. When its descriptor is used again, its callbacks
  delete the new connection's handler.
- `ClientMsgsHandled` (`testfiles/client.cpp:66` and `81`): identifiers 55 and 77 are
  accepted and have no handler.
- `LegalAnswered` (`testmsghandler.cpp:22`): a legal message with a zero byte in its
  serialized form, such as one with the age 0, gets no reply.

What else the modules show of the code, where a passing property describes it rather than a
run that fails:

- A worker's pointer may be to a deleted handler, or to that of the next
  connection (`UseDeleted`, `RepliesOfLiveOnes`); output left in an erased bufferevent is
  written to the next socket, and the next connection may not be read
  (`OnlyErasedDisturb`, `DeafBehindErased`).
- `startup` does not wait for the thread: one that begins during `~BaseThread` calls a
  pure virtual function (`CallWorkFunc`). `PureCallOnlyAtExit` says that it happens nowhere
  else; `ExitEnds` excepts it.
- `~NetWorker` destroys the in-stream before its thread is joined, so a worker may use it
  afterwards (`Fault`, `PopNothing`), and `release` deletes handlers that workers still use
  (`UseDeleted`).
- A peer that leaves more replies unread than the kernels hold stops the server
  (`NeverWaitsForFew` is the bound), and a write to one that has gone kills the process,
  since `SIGPIPE` is not ignored (`BrokenPipe`).
- A node whose `malloc` failed is used all the same; the assertion of `tcpRead` then
  compares members that were never set (`AssertFails`, `FaultsOnlyThen`), and when they
  happen to pass for an empty message it is handled with whatever identifier they hold
  (`HandledWholeOrEmpty`).

Deadlock is not checked where the system may stop: an erased connection, a process that has
ended or died, or a bound that is used up.

### Fairness

Only threads are fair: a thread that can run does. But for `EventLoop`, nothing is assumed
of peers, of the network or of `run` to return. In `NetWorker` the main thread gets the
mutex in the end (strong fairness of `MainLock`), because a worker that finds nothing to do
releases it and sleeps two seconds; a worker gets it because the read callbacks are bounded
by `MaxReads`. In `Lifecycle` no step is fair once the process is dead. In `EventLoop` the
main thread, the workers and the network are fair, and of the peers only `Readers`, one by
one: they are those the property is about, and every other peer may stop at any point. In
`ClientEcho` the one thread is fair; `recv` returns because the stream ends. In
`TestMsgHandler` the handler is fair.

## What is proved

For every value of the constants, from the assumptions named in the modules:

`TcpHandler_proofs`: `TypeCorrect`, `ReassemblyCorrect`, `DrainedCorrect`, `FreedCorrect`
and `Refinement` (`Spec => FramesSpec`): for every stream, head length and segmentation. The
inductive invariant adds to the properties what holds in the middle of a call: every node
but the last in `m_listMsgs` is received; the nodes, after those handed over, are adjacent
frames; `taken` is the end of what the last of them holds; `inputLen` is the length of the
buffer while the loop runs (`ListInv`, `PlaceInv`); what `m_pLastNode` says of the list
(`PointerInv`); and what is left when the loop has ended (`QuietInv`). Without `PlaceInv`
the bytes that `tcpRead` appends could not be placed. `CallbackAdvances`: each step of a
callback makes `StepsLeft` smaller, so that its loops end, also where empty packets take no
bytes out of the buffer.

`NetWorker_proofs`: `IInv` relates each holder of a mutex to the place of the two threads
(`LockInv`), the destruction to the workers that are left (`LifeInv`), and counter and list
at each point of the thread that holds the mutex (`StreamInv`): between the two stores they
differ by one, and the list of a destroyed in-stream is empty. From it: `TypeCorrect` (no counter below zero), `CountCorrect`,
`LockLifetime`, and `Refinement` (`Spec => QueuesSpec`), where `InsertNode` is `Put`,
`HandleMsg` is `Serve`, `DestroyInStream` is `Close`, and everything else is a stutter.
`OrderInv` is about `Arrived(w)`, the handled messages, the batch, the in-stream and what
the callback has still to push, put end to end: it is ordered and, until the in-stream is
destroyed, complete. Every step but two leaves it as it is: `ReadCallback` extends it at the
end, and `DestroyInStream` cuts it there. `OrderCorrect` is about its prefix `handled`, and
`NothingLostCorrect` says that it is complete.

`NetWorkSystem_proofs`: `IInv` joins `TypeOK`, `TablesAgree`, `ReleaseDeletesAll` and
`LookupStaysGood` with three facts: identifiers that are not given yet are in no table,
heap, socket or queue (`Fresh`); a worker between lookup and write has a message (`Busy`); a
handler that is alive is in the table by descriptor until `release` has gone through it
(`Deletable`). Without `Fresh` a new connection could find entries of its own; without
`Deletable` `release` could miss a handler. The action properties `IdsNotReused` (the
identifier of an erased connection finds nothing again), `RepliesOfLiveOnes` and
`OnlyErasedDisturb` follow from `IInv` step by step. `DeafBehindErased` is inductive over
`IInv` once it is known that an open connection has its read event (`Reads`): then all that
libevent tells epoll includes it.

`Lifecycle_proofs`: `TestMsgRegistered` follows from the fact that there are no messages
before the last constructor has returned and that the table is full from then on
(`TableReady`). `PureCallOnlyAtExit` (theorem `PureCallCorrect`) needs how far construction
and destruction have come (`Objects`): which objects are not built, whole or gone, and that
an object has a thread only from `startup` on. A thread that begins then finds a
`BaseThread` only while the main thread is in the `join` of that object (`PureOnlyInJoin`),
and from there the main thread has no step left before the process dies.

`EventLoop_proofs`: `EachAnsweredOnce` counts the requests of the peers that are there, and
`NothingMade` says that those of the others do not become more; from both follows
`NeverWaitsForFew`. `Refinement` maps `Send` to `Ask`, `PeerReads` to `Answer`, `HangUp` to
`Leave` and the rest to stutters. `ErasedCorrect` says when an erased
connection may leave requests that arrived unread: only when it was reset. The end of a
stream and a broken pipe overtake none.

`MsgNode_proofs`: `OwnerCorrect`, `FaultsCorrect` and `HandledCorrect`, for every width of
the unsigned integers. `Place` says that a holder owns its own block or none and that only
the holder the message is with, and during a copy the next one, has a node. `Filled` gives
the bytes of the block while the payload arrives, `Message` what each copy hands on: the
whole message or, once any `malloc` has failed, one of length 0. A first node whose `malloc`
failed is itself no such message and may have any length; a copy of it that does not fault
is one (`Arrives`). `SizeValue` is the only fact about
the wrapping size: it is 0 for the largest length and `len + 1` for every other.

`ClientEcho_proofs`: `TypeCorrect`, `InStepCorrect` and `OnePieceCorrect`, for every width of
an `int` and of a length, every payload and every cut. `IInv` adds where the stream may end
and when `recv` returns nothing (`Ends`), that every reply costs a byte at least and only
heads that were read can be lost (`Progress`), what the cells of the length hold between two
pieces of a head (`LengthKept`), and what the pieces of a payload left in the array
(`DataKept`). `LengthInCells` is what makes `InStep` an equivalence: the length is right
exactly if its lowest cell has the right byte and the others are 0.

`TestMsgHandler_proofs`: the five invariants of the run, for all messages, all payloads and
every limit of nesting, `VarintRoundTrip` about the codec by itself, and `ParserAdvances`,
which bounds the steps of the parser by the length of the string. The proof goes
through what can be read. A string `Reads` to a message if there is a set of places, each a
position with the open groups and the message so far, of which each is the end of the string
or has a field that leads to another place of the set; so the proof needs no recursion over
the string. `SerializedIsRead` finds such a set for a serialized message and `UnknownAdded`
extends one by a field the server keeps. The inductive invariant says that the parser is at
one of the places (`Place`); that what is kept of unknown fields can be read again behind any
message, up to the groups that are open (`Kept`); that the loop is left outside all groups
(`Loop`); whose string and message the variables are (`Roles`); and what the server handled
(`History`). Without `Kept` nothing would be known of the client's parser, since the reply to
a payload that no client made is only known from what was kept. The C string is where it
could go wrong: it is a cut of the payload before a zero byte (`CStringCuts`). A tag has no
zero byte and so is never cut (`TagStays`); a value is found whole or malformed, never as
another value (`ReadsVarint`, `ReadsString`, `ReadsFixed`). `SizeAgreesCorrect` rests on
`SizeOf32` and `SizeOfSignExtended`, which compare the ranges of `ByteSize` with the digits
that are written. `MessagesThatArrive` says which messages have a zero byte, and so are outside of
`RefusedForZeroOnly`: those with the age 0 and those with a text that is empty or has one. The assumptions are that clients serialize messages with their required
fields, an age that is an `int32`, texts with a length that is an `int`, and no unknown
fields (`Legal`), and that other payloads are strings of bytes (`Bounds`).

The library's theorem about a least element (`WFMin`) stands for induction in both modules:
the recursion of `Numbers` and the minima and maxima of sets of positions are reasoned about
through a least counterexample.

Only model-checked are the liveness properties (`FrameHandedOver`, `EveryMessageHandled`,
`ExitEnds`, `ParserReturns`, `ReadersServed`, `HangUpNoticed`, `EveryReplyCounted`): they
rest on fairness, and TLAPS does not reason about `ENABLED`. For two of them the part that is
no fairness, that the thread can take only so many steps, is proved (`CallbackAdvances`,
`ParserAdvances`). Every invariant, action property
and refinement that a run checks is proved.

## What is not modelled

- Races inside `std::map` and inside libevent, whose base has no locks: each
  operation on them is one step. What such a race can return is not bounded by the
  code, and libevent is in the repository as headers only. The findings about
  pointers and descriptors do not depend on it.
- The order of `event_base_free` and `event_free` in `release`: two library calls on one
  thread, and no other step can come between.
- `deregisterMsgs` and `m_msgOutStream`, which the server never uses; `tcpSend`, which is
  empty.
- The Windows branches, and `smartserverprj/main.cpp`, the same program for Visual
  Studio.
- The test clients other than `recvf` of `client5.cpp`; their packets are inputs.
- Nearly all of `src/Include/src/google/protobuf`, which is most of the repository's
  lines: a copy of the protobuf sources with its compiler, its generators for C++, Java
  and Python, reflection, and its unit tests. The server calls none of these. What it
  does call, parsing and serializing one message in a flat buffer, is in `WireFormat` and
  `TestMsgHandler`.
