# Verification of ReMoLON

TLA+ models of ReMoLON, their TLC runs, and TLAPS proofs about them. Paths are
relative to the root of the repository.

## 1. Inventory

ReMoLON has two programs. The **frontend** (`ReMoLON_FrontEnd`) serves users
over HTTP and manages the streaming nodes; each **node** (`ReMoLON`) is a client
of the frontend and forks one streaming process per session. Both use
`ReMoLON_Util` for sockets, threads and packets.

```
 browser --HTTP--> frontend <==TCP==> node --fork--> streaming process
                   SessionTracker     SessionManager <==TCP==+ (SessionInfo,
                   VisualizationNode  StreamingSession        RequestFinish)
                   UserManager
```

| component | state | operations | threads | what makes it correct |
|---|---|---|---|---|
| node session manager | three port lists with flags, table of sessions, pointers to processes' connections | start, close, clear, SessionInfo, signal | client executor, one launch thread per session, inner server workers | ports exclusive; ports of a session marked, of none free; a close reaches its process; every request answered once |
| session tracker | sessions by user and name, with status, node and port | create, close, result of a start, result of a close | HTTP threads, pool workers | no duplicate overwritten; statuses follow the session; creates return |
| visualization nodes | per node: connection, counts, slot of each port | register, reserve, choose | HTTP threads, selector | slots exclusive; count and slots agree |
| users | address -> user, the user's lock and names | log in, look up | HTTP threads, workers | one session per user and name |
| client | active flag, send and receive queues, two mutexes | connect, receive, send, execute, crash, close | three loops, main | answers in the order of their requests; what was parsed is answered; loops end |
| selector, server | connections, poll masks, buffers | add, remove, read, write, accept, shut down | selector, acceptor, workers | a queued packet is written; no freed connection touched; loops end |
| packet pool | bounded queue, list of workers, their count | execute, grow, purge, shut down | workers | accepted tasks run once and in order; count within bounds |
| framing | buffers with a write and a read position | write, read, compact, handle | - | what is read is what was written, however the stream is cut |
| configuration | properties | load, get, get a list | - | the ports offered are those written |
| HTTP pages, XML, xinitrc writer, TLS | - | - | - | presentation, file I/O; TLS is disabled in the build |

What is hard: three kinds of thread per program with partial locking; packets
dropped with a burst or torn; results of starts and closes that cross; nodes
that end and come back; counters kept apart from what they count; statuses set
from two sides. `PROJECT.json` lists every such hazard at its line, with the
properties that watch it, or the reason none does yet.

## 2. Plan

Modelled, in this order: `NodeLink`, `NodeSessions`, `Frontend`, `Deployment`
(which composes them), `PacketPool` over `TaskPool`, `ClientLoops`,
`SelectorServer`, `ByteBuffer`, `Packets` and `Wire`, `Config`. Proved, in this
order: the link, the node, the frontend, the two together, the server, the pool,
the client's loops and their refinement of the link, the configuration, the bytes of
the connection (section 5). What is left is what the prover cannot reach.

## 3. Modules

```
 Config            a node's ports
 NodeSessions ---- implements ----> NodeLink <---- implements ---- ClientLoops
      \                             /   ^
       Deployment  (both ends)     /    | the same losses, byte by byte
      /                           /     |
 Frontend  (nodes as any NodeLink)     Wire --> Packets --> ByteBuffer
      | queue of results
 PacketPool ------ implements ----> TaskPool          SelectorServer
```

**`NodeLink`** is the TCP connection between frontend and node and, with
`LinkSpec`, the abstract specification of what a node promises: one answer to
each request it handles, about the session the request named. A connection is a
pair of a node and one start of its process, for `Client::connect` is called once
per process. `con[n]` is `VisualizationNode::_con`. Readers handle the first
packet they find per receive and forget the rest with the buffer
(`Client::recvLoop`, `SelectorThread::readFromConnection`); a read of `j` packets
removes all `j` and handles the head. A read that receives several times and
handles one packet per receive is several such steps. A packet split over two
reads is lost with the burst it is in (`RequestsLost`, `RepliesLost`). What a side
had queued and not sent is lost when it ends its connection (`UnsentLost`).

**`NodeSessions`** is `SessionManager` and `StreamingSession`. The manager's
mutex covers startNewSession, finishSession, clearSession and finishAllSessions,
so each is one action. startNewSession has its three outcomes as disjuncts, with
the ports it marks before refusing. A session's `proc` follows its launch thread:
fork, waitpid, clearSession. SessionInfo packets take no lock: lookup
(`SessionInfoLookup`) and use (`SetConnection`) are two actions with the pointer
kept in between; clearing a session makes pointers to it dangle (`Orphan`). Using
a dangling pointer, or `_connection` before it is set, is undefined: it has no
effect, or the process ends (`StopNode`). `findAvailablePort` walks a hash map, so
it returns any free port. `InterruptNode` is the signal handler. `AloneSpec` closes
the module with a frontend that asks anything at any time (`AnyFrontend`).

**`Frontend`** is `SessionTracker`, `VisualizationNode(Manager)` and
`UserManager`. tryCreateSession is six steps under the user's lock, for other threads
run between them: it finds a node, reserves a slot, inserts the session and sends. The
reservation is three of the six, all under `_nodeLock` (`NodeLocked`): the counters are
looked at (`CheckSlots`), a slot is marked and the count loaded (`MarkSlot`), and the
count is stored (`CountSlot`). setTotalSlots and setUsedSlots take no lock and may fall
between any two of them; `lost` records that a count was set between the load and the
store, which overwrites it. A NodeInfo is applied field by field (`RegisterNode`,
`SetTotalSlots`, `AddAvailablePort`, `SetUsedSlots`), as `readImpl` runs on the
selector thread while HTTP threads reserve. Results wait in the pool's bounded
queue; a worker looks the user up (`TakeTask`), then runs the result under the
user's lock (`RunStarted`) or none (`RunClosed`). The user of an address is read
anew at every use (`KeyOf`), as the code does, and so tryFinishSession is two steps
under the lock: what it changes (`TryFinishSession`) and what it sends, under the name
the user has by then (`SendClose`). Available slots are an unsigned
difference of two counters that start uninitialised (`Garbage`, `Word`). Nodes
appear here as no more than what `NodeLink` promises.

**`Deployment`** extends both, and puts the frontend and the nodes at the two ends
of the one link.

**`PacketPool`** is `ThreadPool.h`. executeTask holds the queue's mutex and is one
action with its outcomes: refuse, create a worker, purge, enqueue. A worker reads
the stop flags, locks, tests the queue and blocks in steps of their own, since
shutDown changes the flags and notifies without that mutex. purgeIdleThreads walks
the list until the count is down to the minimum (`Visits`); it tells idle workers
to finish and counts them out, again and again until they have ended. Two
undefined behaviours end the process: the walk goes on from the iterator it erased
(`PurgeErased`, before the task is queued), and a worker that outlives shutDown uses its
freed entry (`UseFreed`). **`TaskPool`** is what its users rely on: an accepted
task is started once, in order, and for sure. `PoolKeepsPromise` is the refinement.

**`ClientLoops`** is `Client.cpp` with the send queue of `Connection.cpp`: the
receiving, sending and executing threads, main with the signal handler, both
monitors step by step, and the frontend's one selector thread as the peer, which
reads and writes by turns and blocks in sendBytes. The sender holds `_sendMtx` in
sendBytes and the executor `_execMtx` while it runs a packet, as in the code.
Requests are numbers and an answer has the number of its request. An exception on
any thread ends the process. `KeepsLinkPromise` maps it to one node of `NodeLink`,
with the packets in its queues and hands counted as under way.

**`SelectorServer`** is `Server.cpp`, `SelectorThread.cpp` and
`Connection::sendPacket`/`pollSendablePacket`: acceptor, selector and workers. The
selector holds its mutex for all of an iteration: poll, then for every socket of
the snapshot read, write and error, with the exceptions that skip the rest. A packet
that finds the write buffer full has it sent first (`SendFull`), and sendBytes may block
or throw there as at the end. shutDown clears the server's flag, then the selector's
(`ClearFlag`, `ClearSelectorFlag`), and then notifies. The
poll set's flags (`mask`) are changed by workers and by the selector. The other
ends connect, send, stop reading, close and reset at any time. A freed connection a
worker still points to may end the process (`SendPacketFreed`).

**`ByteBuffer`**, **`Packets`** and **`Wire`** are one direction of the connection
byte by byte. `ByteBuffer` has the buffer's positions and the reads and writes of
chars, shorts, ints and texts; `Packets` has the fields each `writeImpl` writes
and each `readImpl` reads, kept apart so that the two programs may disagree,
`WritePacket` with the header filled in last, and `HandlePacket` with each of its
outcomes; `Wire` has the two senders, a stream that arrives in pieces cut at every
place, and the two readers. To the frontend a reader's buffer grows over a session
of receives; in the client every receive discards what the last one left. The
histories (`sent`, `ends`, `start`, `handed`, `sound`) only serve the properties.

**`Config`** is `Config.cpp` and what `Node::initialize` makes of it: a file is
read line by line, the frontend's port is an int property, and a list is split and
its pieces added as 16-bit ports. The three lists of a node are read alike. `Number`
is std::stoi: white space, a sign, digits, whatever follows, and an exception when
there are no digits or an int does not hold the number (`IntLimit`, 2^31 in the code).

`MC...` modules hold the constants and symmetries of the runs, `...Proofs` modules
the theorems: those of `NodeLink` are in `FrontendProofs`, those of `NodeSessions` in
`DeploymentProofs`, and what all proofs about loops need is in `FoldProofs`. Operators called
"seeded fault" are plausible bugs that the properties are tested against; no
specification uses them.

## 4. Runs

| run | bounds | shows |
|---|---|---|
| `node_sessions` | 1 node, 1 user, 2 names, 2 ports per list, 1 start, 1 packet under way | `NodeTypeOK`, `PortsExclusive`, `PortsMarked`, `SideListsInStep`: the port lists stay sound and the side lists run out together |
| `node_live` | 1 name, 2 ports per list, 2 starts | `FinishedSessionsFreePorts`; `LinkSpec`: the node implements the link's promise, over a restart |
| `frontend` | 1 node, 2 users, 2 addresses of which one may change its user, 1 port, 2 HTTP threads, 2 workers, 2 packets under way, queue of 1 | `FrontTypeOK`, `SlotsExclusive`, `OvercountsOnlyOverLostSet`: whoever a create is checked, inserted and erased for, and wherever the registration's unlocked sets fall |
| `frontend_live` | 1 port, 2 starts, 1 worker, 1 packet under way | `DuplicateCheckHolds`, `CreateReturnsOrPhantom`: over a restart of the node |
| `create_returns` | 1 user, 1 port, 1 thread | violated: a create goes round its loop for ever (`findings` in `PROJECT.json`) |
| `deployment` | 1 node, 2 users, 2 ports per list, 2 threads | `UsedIsTaken`, `NeverRefusedForPort`: what leaks on either side, a node never refuses a start for want of a port; `SlotsExclusive` with two ports; `LinkSpec` |
| `pool` | minimum 1, 3 workers, queue of 3, 6 tasks | `CountWithinBounds`, `CountedGoOn`; `PoolKeepsPromise`: the pool implements `TaskPool`, its liveness included |
| `client` | 4 requests, 2 in the socket to the node, 1 answer in the one back, signals | `AnswersInOrder`; `KeepsLinkPromise`: the loops implement `NodeLink` |
| `client_live` | 6 requests, sockets of 1, no signals | `ParsedIsAnswered`, `LoopsEndUnlessOverslept` |
| `server` | 2 connections, 1 packet from and 2 for each | `MaskFollowsQueue`, `SelectorTouchesOwned`; `ConnectionsServed`, `FirstIsAdded`, `StopEndsLoops` |
| `wire` | every packet of the protocol with texts of at most a letter, 2 to the frontend and 3 to the node, buffers of 14 and 24 bytes | `HeadersDelimit`, `StreamIsEncoded`, `SessionInOrder`, `SessionKeepsPlace`, `GoneOnlyOverCuts` |
| `config` | all files of 2 lines out of 581, ints below 15, ports below 12 | `LastLineCounts`, `PortsAsWritten`, `ServerPortAsWritten` |

Bounds of the sessions. `MaxStarts` bounds process starts, `LinkCap` the packets
under way, `TaskCap` the pool's queue (256 in the code), `Word` the width of an
unsigned int. Two ports, two names or users and two threads are the least at which
sharing, exhaustion and races occur: with two ports both lists run full, and the
queue of one is full at once. `frontend` spends its states on the user who changes
under a create, on two workers and on counts that a set may fall into, and leaves the second port to `deployment`,
where each address keeps its user. The requests a
node sees are any, at any time, so one packet under way lets them meet every state
of the node; the packets under way count the close a thread is about to send; in `deployment` creates are not held back by `LinkCap`, so bursts
occur. Ports, threads, workers and names are symmetric, in `deployment` the users with
their addresses too. Liveness runs use no symmetry.

Bounds of the rest. In `pool` the queue is longer than the pool at its smallest, so
that it grows, then shrinks with workers counted out twice, and is filled up by one
task more; with six tasks a purge also meets a worker that has terminated while
others still run; a purge needs an idle worker, which any worker is at any time. In
`client` two requests make a burst of which one is dropped, a third arrives while
the first is run, and a fourth while its answer blocks; sockets of one packet are
the least at which both ends block. `client_live` needs six requests for both ends
to jam with every buffer full. In `server` one connection fails while the other is
served, and a packet is queued between any two steps in which the selector takes
the other one and lowers the flag. In `wire` some packets fit exactly, some lose their last field, two fill a
write buffer that a third overflows, and a stream is cut inside headers, ints and
texts. Only the sizes differ from the code's 8192 and 65535.

`SlotsExclusive`, `UsedIsTaken` and `NeverRefusedForPort` are about nodes that
start once: a second NodeInfo overwrites slots that sessions still hold
(`AddAvailablePort`), so over restarts they are false. `DuplicateCheckHolds` is
about users with one address each and addresses with one user each.

Fairness. `NodeFairness`: a process told to finish does so, and the launch thread
then clears the session: `waitpid` returns and the mutex is held only briefly by
all others. A node whose signal handler runs on the thread that holds the mutex
hangs; that is not modelled. `FrontFairness`: threads inside tryCreateSession run,
and the selector finishes the packet it began. No packet is assumed to arrive and
no user to ask. In `PacketPool`, `ClientLoops` and `SelectorServer` every thread is
weakly fair: it runs when its next step stays possible, as any scheduler grants. A
mutex that others take again and again is therefore never assumed to be granted,
which is why `FirstIsAdded` speaks of the first connection only. The peer of
`ClientLoops` is never obliged to write, and that of `SelectorServer` to do
anything. Blocking calls that nothing ends are no steps, and the properties name
them: `Jammed`, `Blocked`, `Stuck`. The windows in which a notification is lost
because it is given without the mutex are recorded in `overslept`, and
`LoopsEndUnlessOverslept` and `StopEndsLoops` say that these are the only ones.

Refinements. `NodeSessions` and `Deployment` have `NodeLink`'s own variables, so
that `LinkSpec` is a property of theirs as it stands; `PacketPool` and
`ClientLoops` instantiate the abstract module with expressions of their own.
`Wire` shows what `NodeLink` takes for granted of the bytes and under which
condition: a session of reads that began where a packet begins, with no receive
ending inside a header, hands on what was sent, in order and without a gap
(`SessionInOrder`), and the node's process ends only over a receive that cut a
packet or over a packet that was written short (`GoneOnlyOverCuts`). Outside this
condition bytes are misread, and may be taken for another packet; `NodeLink` has
no such packets.

## 5. Proofs

The theorems hold for every value of the constants that the modules' assumptions
allow: any sets of nodes, users, names, addresses, threads and connections, any
bounds. `PROJECT.json` lists them. Each proof has the same shape: an inductive
invariant, one lemma per action that keeps it, and the theorems as its conjuncts.

**The link and the node** (first parts of `FrontendProofs` and of
`DeploymentProofs`). `NodeInv` is inductive. `PortsExclusive` alone is not: a new
session takes a port whose flag is clear, which is the port of no session only if
flags of open sessions are set (`PortsMarked`). That is in turn kept by
clearSession only because the ports it releases are no other session's. `ValidFound`
keeps `SetConnection` from writing to an entry that is gone. From it follow
`NodeTypeCorrect`, `PortsAreExclusive`, `PortsStayMarked`; `SideListsStayInStep`, by
counting what each outcome of startNewSession adds to the three lists; and
`NodeImplementsLink`, which maps every step of the node to a step of the link or to
nothing, so that all that is checked over `NodeLink` alone holds for real nodes.

**The frontend** (`FrontendProofs`). `FrontInv` adds to the types that a thread
inside tryCreateSession holds the lock of its address, where somebody is logged in,
and that results are run for users who exist. From it:

- `OvercountsOnlyOverLostSetCorrect`, whatever NodeInfo packets and reservations do to
  each other: once a registration is applied, a count above the slots that are taken
  comes from a set that was lost to an increment, and from nothing else. It is
  inductive (`CountInv`) only with three more facts: one thread at a time holds a
  node's lock (`LocksExclusive`); what such a thread has loaded is the count still, of a
  slot that is marked already, unless a set was lost (`LoadedIsCount`); and what was
  registered so far of the node at hand is taken (`AppliedAreTaken`).
- `DuplicateCheckCorrect`, over any number of restarts, under `OneUserEach`: an
  address has one user and a user one address. The lock is per address, the sessions
  are per user; without this the property is false in the code (section 7).
- `SlotsExclusiveCorrect`, for `MaxStarts = 1`: a NodeInfo that comes after another
  frees slots that sessions hold, so it is false over restarts. That a node sends
  one NodeInfo per start is a fact about the link (`RegisteredOnce`); with it
  `SlotInv` says that who claims a slot has it marked, and that no two claim one.
- `FrontendUsesLink`: its own steps at the connections are the link's.

**Both together** (second part of `DeploymentProofs`). `DeploymentImplementsFrontend` shows that
nodes of `NodeSessions` do no more than the nodes `Frontend` assumes, and so carries
over all of the above. What neither side can guarantee alone is `AskedOnce`: a slot
that was reserved is held by one thread, then by one request under way, and then
used, never twice. It gives `UsedIsTakenCorrect`. With it the web port of a request
is free when the node comes to it, and the side lists are exactly as full as the web
list, so that with `EnoughSidePorts` (at least as many socket and RTC ports as web
ports) `NeverRefusedForPortCorrect` follows. Both are for `MaxStarts = 1`, as the
slots they rest on.

**The server** (`SelectorServerProofs`). `ServerInv` says of each connection who
works on it and that this is its owner, and of the selector that the flags of the
socket it is at are struck from its snapshot: it comes to a socket once in an
iteration, which is why a removal cannot leave a freed connection behind
(`SelectorTouchesOwnedCorrect`), and packets are queued only with the write flag up
(`MaskFollowsQueueCorrect`).

**The pool** (`PacketPoolProofs`). `PoolInv` has the order of the queue, what each
worker holds at each of its steps, and the two halves of the count:
`CountWithinBoundsCorrect` and `CountedGoOnCorrect`. Between them it is shown that a
purge, which may count out the same worker again and again, stops in time.
`NoneSleepsOverTasksCorrect` is the safety half of a lost wake-up: nobody sleeps, or
is about to, over a queue that holds something. `PoolImplementsPromise` maps every
step to `TaskPool`. The attempt to prove it corrected the model: a purge that meets a
terminated worker ends the process before the task is queued, while the model had
both in one step, and the five tasks of the run were one too few to tell.

**The client** (`ClientLoopsProofs`). Socket, packet being written, send queue,
packet being run and execute queue are one sequence (`Inside`), and every step moves
its borders, drops from its front or its middle, or adds to its end what is newer
than all of it. `ClientInv` has that with what the mutexes exclude (`Threading`), the
handshake, before which nothing is inside (`Peering`), and the burst at hand, which
is newer than all that is inside (`Bursts`). `AnswersInOrderCorrect` follows for any
number of requests and any size of the sockets. `ClientImplementsLink` needs two more
facts: that the execute queue has no gaps, so that what is on its way to the node is
known from two counters, and that nobody is active on a closed socket (`FlowInv`).
Then a step moves an answer from one queue to the next, which the link does not see;
or it is one of the link's, at the end where it happens: a burst is read and all of it
but its head dropped, an answer is put behind the others, the peer reads from the
front. Closing the socket and ending the process are faults of the link, which lose
what was not sent and leave what was.

**The configuration** (`ConfigProofs`). The code's loops over the characters are folds
and a recursive function here. That the recursion has a solution (`FoldExists` in
`FoldProofs`), and what holds of its values, is shown by induction on a set of numbers (`Induct`), from
the smallest number outside it. It gives what the loops compute of every input:
`NoBlanks` for removeWhiteSpaces, `SplitPieces` for getPropertyList (the pieces are the
parts between commas, each of them and no other), `NumberIs` for std::stoi (the run of
digits that only white space and one sign separate from the start, with that sign, and
no number when an int does not hold it). `ConfigInv` then has the table of
properties as what the lines said so far, and while ports are added, that the ports
added and those of the pieces left are the ports of the list. The four properties of
the run follow for files of any length.

**The bytes** (`WireProofs`), for all packets of the protocol, any number of them and
all sizes of the buffers that `WireAssumption` allows. Three layers:

- Buffers and fields. What a write leaves in a buffer, or leaves out when it does not
  fit, and what a read gets back: chars, shorts and ints byte by byte (`IntDecodes`),
  texts, and `ReadImpl` over all fields of a packet (`ReadImplGets`), `NodeInfo`'s
  list of ports included, whose number is itself a field.
- Packets. `ImageIs`: a buffer a packet was written to begins with its opcode and the
  size of what follows, also when fields were left out, and is the packet's encoding
  when it fits. `HandleWhole` and `HandlePart`: a buffer that holds the encoding and
  anything behind it gives the packet and leaves the rest; one that holds at least
  the header, and not all, gives nothing and keeps what it holds. `HandleType`:
  whatever the bytes are, a buffer is left within its bounds.
- The stream. `WireInv` is inductive. `Streamed` says that the packets lie one behind
  the other in the stream, each as it was written. The fold of `SelectorSends` over the
  queue, with a write buffer that is sent whenever it is full, adds the same bytes as
  the single sends of `ClientSends` (`SelectorStream`, `ClientStream`). `Follows` says
  of a session that the packets it made are those sent from where it began, and that
  its buffer holds the stream from there to the last byte received. A receive that
  does not end inside a header keeps it (`FollowsNext`), and what is sent meanwhile
  does not disturb it (`FollowsGrows`).

The six properties of the run follow. `StreamIsEncoded` and `SessionInOrder` together
say that decoding inverts encoding over any cut of the stream that spares the headers.
The attempt to prove it made two conditions explicit. A packet must be one that the
code can build (`WellFormed`: the fields its `writeImpl` writes, as many ports as it
announces, ints of 32 bits), and `BufferSize` must be at most 65535, for the size in a
header is a short: with the 65535 of the code, whatever fits the buffer fits the size.

Assumptions on constants are named where the constants are declared, and TLC
evaluates them in every run: `MaxStarts`, queues and sockets hold at least one where
the code's do; the port lists are finite, fewer than an unsigned int counts
(`PortsAssumption`), and 0, which means none, is in none of them; `Logins` pairs
addresses with users; the values for "no session", "no entry" and the like are none.
`OneUserEach`, `MaxStarts = 1` and `EnoughSidePorts` are hypotheses of the theorems
that need them, not assumptions.

Only model-checked: liveness, which with fairness is out of the prover's reach
(`FinishedSessionsFreePorts`, `CreateReturnsOrPhantom`, `ParsedIsAnswered`,
`LoopsEndUnlessOverslept`, `ConnectionsServed`, `FirstIsAdded`, `StopEndsLoops`, and of
`PoolKeepsPromise` that accepted tasks are run at all). Every invariant of a run
is a theorem.

## 6. Not modelled

Data races on the hash maps (`_openSessions`, `_nodeList`, `_loggedInUsers`) and
what they corrupt: every access is atomic here. Misread bytes after a torn packet
are in `Wire`, where they may end the node or be handled as some packet, but not in
the modules above the link. PAM, the operating system's ports, streaming processes
that outlive their node. The frontend's end: it keeps nothing, so its restart is a
new behaviour. Dead code (`releaseSlot`, `logOutUser`, `setLoadBalanceEnabled`,
`addAllowedUser`, the fields of type long, float and double) has no action. A
signal handler that interrupts the thread that holds a mutex it takes. Pages and XML,
the xinitrc writer and the TLS variants, for the reasons in `PROJECT.json`.

Four places are simpler than the code. startNewSession refuses a port it does not know
as it refuses one in use (`ReMoLON/src/SessionManager.cpp:90`); requests here name ports
of the node (`PortUnavailable`). `NodeInfo` reads the flags of the ports when the send loop writes
it; `SendNodeInfo` takes them at the request, which a frontend never sends, and
`NodeLink` allows any flags. `ByteBuffer::compact` copies with memcpy what may overlap
(`ReMoLON_Util/src/ByteBuffer.cpp:155`), which is undefined; `Compact` has the outcome
of a copy towards lower addresses that reads before it overwrites, as memmove does. The
two counters that find and findBest subtract are read in one step (`Available`).

## 7. Disagreements seen, without a run

While modelling, the code was found to differ from what it says of itself in these
places. The model follows the code in all of them. One more, the create that never
returns, has the run `create_returns`.

- Slots do not come back. `releaseSlot` (`ReMoLON_FrontEnd/src/VisualizationNode.cpp:96`)
  is never called, so the slot of a closed session stays taken; the page says "There
  are not available resources to create a new streaming session. Try again later."
  (`ReMoLON_FrontEnd/src/httpactions/CreateSessionActionHandler.cpp:88`).
- A count that was set may be lost. `_usedSlots++`
  (`ReMoLON_FrontEnd/src/VisualizationNode.cpp:87`) runs under `_nodeLock`, and
  setUsedSlots (line 71), which the selector thread calls, does not take it. When the
  set falls into the increment, a count from before the registration survives, which
  for a new node was never initialised; it stays until the node registers again.
- Nodes that are gone are not noticed. "We cannot contact the node, delete the
  session history" (`ReMoLON_FrontEnd/src/SessionTracker.cpp:131`) tests whether the
  node is in `_nodeList`, from which nothing is ever removed: the session waits as
  closing and its name stays taken.
- Finished sessions run again. A start result that is run after the close was
  requested overwrites `SESSION_CLOSING` with `SESSION_RUNNING`
  (`ReMoLON_FrontEnd/src/SessionTracker.cpp:116`), which the page shows as "Finished"
  (`client/index.html:93`) before.
- Duplicates pass from two addresses. "Check for duplicateNames"
  (`ReMoLON_FrontEnd/src/SessionTracker.cpp:43`) runs under a lock per client address
  while sessions are kept per user name. The name is read anew at each use, so a
  login that changes the user of the address under a create defeats the check too.
- A close may tell nobody. "Send signal to process"
  (`ReMoLON/src/SessionManager.cpp:155`) needs the `_connection` that the process's
  own SessionInfo sets; before, nothing is sent, and the close is answered
  (`ReMoLON/src/StreamingSession.cpp:178`).
- Refused starts keep ports. A duplicate is refused after its three ports were
  marked (`ReMoLON/src/SessionManager.cpp:101`), and "Release used ports"
  (`ReMoLON/src/SessionManager.cpp:163`) is only run for sessions that exist.
- A pool is not waited for. "Wait for threads to finish current tasks"
  (`ReMoLON_Util/ThreadPool.h:110`) joins what is joinable, and the workers are
  detached: none is.
- A pool has no maximum. `createWorker` is to "attempt" to create a worker
  (`ReMoLON_Util/ThreadPool.h:90`) and never looks at `_maxPoolSize`: the bound that
  holds is the queue's (`CountWithinBounds`).
