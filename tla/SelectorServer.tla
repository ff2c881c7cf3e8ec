--------------------------- MODULE SelectorServer ---------------------------
(***************************************************************************)
(* ReMoLON_Util: Server.cpp, SelectorThread.cpp and Connection.cpp, the    *)
(* side of a connection that accepts.  An acceptor hands connections to    *)
(* one selector thread, which holds its mutex for all of an iteration:     *)
(* poll, then for each socket of the snapshot read, write, error.  Workers *)
(* of the packet pool queue packets on the connections they got packets    *)
(* from, and raise the write flag of the poll set.                         *)
(*                                                                         *)
(* A Connection is freed when the selector removes it; a worker that still *)
(* points to it may end the process.                                       *)
(***************************************************************************)
EXTENDS Naturals, FiniteSets

CONSTANTS
  Cons,    \* connections that may come in, each once
  MaxIn,   \* bound: packets the peer of a connection sends
  MaxOut   \* bound: packets queued for a connection

ASSUME ServerAssumption == MaxIn \in Nat /\ MaxOut \in Nat

None == "none"
ASSUME NoneIsNoConnection == None \notin Cons

VARIABLES
  con,      \* [c]: the connection, see Connection
  known,    \* connections some worker points to
  mtx,      \* whether the selector holds SelectorThread::_mtx across steps
  pc,       \* where the selector is
  ready,    \* [c]: flags the last poll returned, until they are looked at
  work,     \* the connection being processed, its flags, and the packets
            \*   taken from it into _writeBuffer
  apc,      \* where the acceptor is
  taken,    \* the connection it holds
  stop,     \* how far AbstractServer::shutDown has come
  overslept,\* the selector was notified between its test and its wait
  alive     \* the process runs

selVars == <<mtx, pc, ready, work>>
accVars == <<apc, taken>>
endVars == <<stop, overslept, alive>>
vars == <<con, known, selVars, accVars, endVars>>

Flags == {"read", "write", "error"}

\* place: in the backlog, with the acceptor, in _connections, or freed; peer:
\* what the other end does, stalled meaning that its buffers are full; inbox:
\* packets that arrived unread; toCome: packets it may still send; sendQ:
\* length of _sendPackets; toQueue: packets workers may still queue; mask: its
\* flags in _socketProcessSet.
Connection ==
  [place: {"none", "backlog", "taken", "owned", "freed"},
   peer: {"up", "stalled", "eof", "reset"},
   inbox: 0..MaxIn, toCome: 0..MaxIn, sendQ: 0..MaxOut, toQueue: 0..MaxOut,
   mask: {{}, {"read"}, {"read", "write"}}]

Work == [cur: Cons \cup {None}, flags: SUBSET Flags, buffered: 0..MaxOut]
NoWork == [cur |-> None, flags |-> {}, buffered |-> 0]
NoFlags == [c \in Cons |-> {}]

Owned == {c \in Cons : con[c].place = "owned"}

\* The server's flag, and the selector's own.
Active == stop = "no"
SelectorActive == stop \in {"no", "flag"}

ServerTypeOK ==
  /\ con \in [Cons -> Connection]
  /\ known \subseteq Cons
  /\ mtx \in BOOLEAN
  /\ pc \in {"top", "lock", "checked", "wait", "poll", "next", "read", "write",
             "flush", "send", "error", "done"}
  /\ ready \in [Cons -> SUBSET Flags]
  /\ work \in Work
  /\ apc \in {"test", "accept", "count", "add", "done"}
  /\ taken \in Cons \cup {None}
  /\ stop \in {"no", "flag", "flags", "notified", "shut"}
  /\ overslept \in BOOLEAN /\ alive \in BOOLEAN

\* start.
Init ==
  /\ con = [c \in Cons |-> [place |-> "none", peer |-> "up", inbox |-> 0,
              toCome |-> MaxIn, sendQ |-> 0, toQueue |-> MaxOut, mask |-> {}]]
  /\ known = {}
  /\ mtx = FALSE /\ pc = "top" /\ ready = NoFlags /\ work = NoWork
  /\ apc = "test" /\ taken = None
  /\ stop = "no" /\ overslept = FALSE /\ alive = TRUE

-----------------------------------------------------------------------------
(* The other ends.                                                         *)

Connects(c) ==
  con[c].place = "none" /\ con' = [con EXCEPT ![c].place = "backlog"]

Reachable(c) == con[c].place \in {"backlog", "taken", "owned"}

PeerSends(c) ==
  /\ Reachable(c) /\ con[c].peer \in {"up", "stalled"} /\ con[c].toCome > 0
  /\ con' = [con EXCEPT ![c].toCome = @ - 1, ![c].inbox = @ + 1]

\* It stops reading, closes its end, or resets the connection.
PeerFails(c) ==
  /\ Reachable(c) /\ con[c].peer = "up"
  /\ \E p \in {"stalled", "eof", "reset"} : con' = [con EXCEPT ![c].peer = p]

PeerStep(c) ==
  /\ alive
  /\ Connects(c) \/ PeerSends(c) \/ PeerFails(c)
  /\ UNCHANGED <<known, selVars, accVars, endVars>>

-----------------------------------------------------------------------------
(* Connection::sendPacket, by a worker.                                    *)

Queues(c, f) ==
  /\ alive /\ c \in known /\ con[c].place = "owned" /\ con[c].toQueue > 0
  /\ con' = [con EXCEPT ![c].toQueue = @ - 1, ![c].sendQ = @ + 1, ![c].mask = f]
  /\ UNCHANGED <<known, selVars, accVars, endVars>>

\* Seeded fault: the socket is polled for writing alone.
SendPacketWriteOnly(c) == Queues(c, {"write"})

SendPacket(c) == Queues(c, {"read", "write"})

SendPacketFreed(c) ==
  /\ alive /\ c \in known /\ con[c].place = "freed"
  /\ alive' = FALSE
  /\ UNCHANGED <<con, known, selVars, accVars, stop, overslept>>

-----------------------------------------------------------------------------
(* acceptLoop.                                                             *)

AcceptTest ==
  /\ alive /\ apc = "test"
  /\ apc' = IF Active THEN "accept" ELSE "done"
  /\ UNCHANGED <<con, known, selVars, taken, endVars>>

Accept ==
  /\ alive /\ apc = "accept" /\ stop # "shut"
  /\ \E c \in Cons :
       /\ con[c].place = "backlog"
       /\ con' = [con EXCEPT ![c].place = "taken"]
       /\ taken' = c
  /\ apc' = "count"
  /\ UNCHANGED <<known, selVars, endVars>>

\* acceptConnection fails on a socket that was shut down.
AcceptFails ==
  /\ alive /\ apc = "accept" /\ stop = "shut"
  /\ apc' = "test"
  /\ UNCHANGED <<con, known, selVars, taken, endVars>>

\* assignConnectionToWorker: getNumConnections, to choose among one selector.
CountConnections ==
  /\ alive /\ apc = "count" /\ ~mtx
  /\ apc' = "add"
  /\ UNCHANGED <<con, known, selVars, taken, endVars>>

Adds(notifies) ==
  /\ alive /\ apc = "add" /\ ~mtx
  /\ con' = [con EXCEPT ![taken].place = "owned", ![taken].mask = {"read"}]
  /\ pc' = IF pc = "wait" /\ notifies THEN "lock" ELSE pc
  /\ taken' = None
  /\ apc' = "test"
  /\ UNCHANGED <<known, mtx, ready, work, endVars>>

\* Seeded fault: the selector is not notified.
AddSilently == Adds(FALSE)

AddConnection == Adds(TRUE)

AcceptorStep ==
  AcceptTest \/ Accept \/ AcceptFails \/ CountConnections \/ AddConnection

-----------------------------------------------------------------------------
(* selectLoop.                                                             *)

SelectorAt(label) == alive /\ pc = label
Goto(label) == pc' = label

SelectTop ==
  /\ SelectorAt("top")
  /\ Goto(IF SelectorActive THEN "lock" ELSE "done")
  /\ UNCHANGED <<con, known, mtx, ready, work, accVars, endVars>>

\* Seeded fault: the selector polls with nothing to poll.
NeverSleeps == FALSE

Sleeps == SelectorActive /\ Owned = {}

SelectLock ==
  /\ SelectorAt("lock")
  /\ mtx' = TRUE
  /\ Goto(IF Sleeps THEN "checked" ELSE "poll")
  /\ UNCHANGED <<con, known, ready, work, accVars, endVars>>

SelectWaits ==
  /\ SelectorAt("checked")
  /\ mtx' = FALSE
  /\ Goto("wait")
  /\ UNCHANGED <<con, known, ready, work, accVars, endVars>>

\* What a poll may report of c: a reset socket shows as an error, mostly with
\* something to read; a full one may still take a few bytes.
Reported(c) ==
  LET readable == IF con[c].inbox > 0 \/ con[c].peer \in {"eof", "reset"}
                  THEN {"read"} ELSE {}
      polled(S) == con[c].mask \cap S
  IN  IF c \notin Owned THEN {{}}
      ELSE CASE con[c].peer = "stalled" -> {polled(readable), polled(readable \cup {"write"})}
             [] con[c].peer = "reset" -> {polled(Flags) \cup {"error"}, {"error"}}
             [] OTHER -> {polled(readable \cup {"write"})}

PollSockets ==
  /\ SelectorAt("poll")
  /\ ready' \in {r \in [Cons -> SUBSET Flags] : \A c \in Cons : r[c] \in Reported(c)}
  /\ Goto("next")
  /\ UNCHANGED <<con, known, mtx, work, accVars, endVars>>

NextSocket ==
  /\ SelectorAt("next")
  /\ \E c \in Cons :
       /\ ready[c] # {}
       /\ work' = [cur |-> c, flags |-> ready[c], buffered |-> 0]
       /\ ready' = [ready EXCEPT ![c] = {}]
  /\ Goto("read")
  /\ UNCHANGED <<con, known, mtx, accVars, endVars>>

\* The iteration is over, and the mutex free for a moment.
EndIteration ==
  /\ SelectorAt("next") /\ ready = NoFlags
  /\ mtx' = FALSE
  /\ Goto("top")
  /\ UNCHANGED <<con, known, ready, work, accVars, endVars>>

LeaveSocket ==
  /\ work' = NoWork
  /\ Goto("next")
  /\ UNCHANGED <<known, mtx, ready, accVars, endVars>>

\* The selector stays with its socket.
SocketFrame == UNCHANGED <<mtx, ready, accVars, endVars>>

cur == work.cur
Asked(flag) == flag \in work.flags

-----------------------------------------------------------------------------
(* readFromConnection: it goes on while something comes within 10 ms.      *)

\* The first packet of what was received goes to the pool; the worker that
\* runs it gets to know the connection.
ReceiveBytes ==
  /\ SelectorAt("read") /\ Asked("read")
  /\ \E j \in 1..con[cur].inbox : con' = [con EXCEPT ![cur].inbox = @ - j]
  /\ known' = known \cup {cur}
  /\ UNCHANGED <<pc, work>> /\ SocketFrame

ReadEnds(leaves) ==
  /\ SelectorAt("read")
  /\ Asked("read") => con[cur].inbox = 0 /\ con[cur].peer # "reset"
  /\ con' = [con EXCEPT ![cur].place =
       IF Asked("read") /\ con[cur].peer = "eof" THEN leaves ELSE @]
  /\ Goto("write")
  /\ UNCHANGED <<known, work>> /\ SocketFrame

\* Seeded fault: what receives nothing is removed at once.
EofRemoves == ReadEnds("freed")

\* Nothing came in time, or receiveBytes returned 0: removeConnection stands
\* where total is always positive, and is never reached.
ReadDone == ReadEnds("owned")

\* A reset throws past the other branches, and shows once.
ReadThrows ==
  /\ SelectorAt("read") /\ Asked("read") /\ con[cur].peer = "reset"
  /\ con' = [con EXCEPT ![cur].peer = "eof", ![cur].inbox = 0]
  /\ LeaveSocket

-----------------------------------------------------------------------------
(* writeToConnection.                                                      *)

Polls(f) ==
  /\ SelectorAt("write") /\ Asked("write") /\ con[cur].sendQ > 0
  /\ con' = [con EXCEPT ![cur].sendQ = @ - 1, ![cur].mask = f]
  /\ work' = [work EXCEPT !.buffered = @ + 1]
  /\ pc' \in {"write"} \cup (IF work.buffered > 0 THEN {"flush"} ELSE {})
  /\ UNCHANGED known /\ SocketFrame

\* The next packet of the queue, which may find _writeBuffer full.
\* Seeded fault: every packet taken lowers the write flag.
PollLowersFlag == Polls({"read"})

PollSendablePacket == Polls(con[cur].mask)

\* An empty queue lowers the write flag.
PollEmpty ==
  /\ SelectorAt("write") /\ Asked("write") /\ con[cur].sendQ = 0
  /\ con' = [con EXCEPT ![cur].mask = {"read"}]
  /\ Goto(IF work.buffered > 0 THEN "send" ELSE "error")
  /\ UNCHANGED <<known, work>> /\ SocketFrame

NothingToWrite ==
  /\ SelectorAt("write") /\ ~Asked("write")
  /\ Goto("error")
  /\ UNCHANGED <<con, known, work>> /\ SocketFrame

\* sendBytes blocks when the peer does not read.  A full buffer is sent first,
\* and then holds the packet that it had no room for.
SendFull ==
  /\ SelectorAt("flush") /\ con[cur].peer # "stalled"
  /\ work' = [work EXCEPT !.buffered = 1]
  /\ Goto("write")
  /\ UNCHANGED <<con, known>> /\ SocketFrame

SendBytes ==
  /\ SelectorAt("send") /\ con[cur].peer # "stalled"
  /\ work' = [work EXCEPT !.buffered = 0]
  /\ Goto("error")
  /\ UNCHANGED <<con, known>> /\ SocketFrame

SendThrows ==
  /\ SelectorAt("flush") \/ SelectorAt("send")
  /\ con[cur].peer \in {"eof", "reset"}
  /\ LeaveSocket /\ UNCHANGED con

-----------------------------------------------------------------------------
(* handleConnectionCrash.                                                  *)

NoError ==
  /\ SelectorAt("error") /\ ~Asked("error")
  /\ LeaveSocket /\ UNCHANGED con

\* removeConnection, unless peerAddress throws first, as it may on a socket
\* that is not connected any more.
RemoveConnection ==
  /\ SelectorAt("error") /\ Asked("error")
  /\ \/ con' = [con EXCEPT ![cur].place = "freed", ![cur].mask = {}, ![cur].sendQ = 0]
     \/ UNCHANGED con
  /\ LeaveSocket

SelectorStep ==
  \/ SelectTop \/ SelectLock \/ SelectWaits \/ PollSockets
  \/ NextSocket \/ EndIteration
  \/ ReceiveBytes \/ ReadDone \/ ReadThrows
  \/ PollSendablePacket \/ PollEmpty \/ NothingToWrite
  \/ SendFull \/ SendBytes \/ SendThrows
  \/ NoError \/ RemoveConnection

-----------------------------------------------------------------------------
(* shutDown, with SelectorThread::shutDown.                                *)

ClearFlag ==
  /\ alive /\ stop = "no"
  /\ stop' = "flag"
  /\ UNCHANGED <<con, known, selVars, accVars, overslept, alive>>

ClearSelectorFlag ==
  /\ alive /\ stop = "flag"
  /\ stop' = "flags"
  /\ UNCHANGED <<con, known, selVars, accVars, overslept, alive>>

\* Without the mutex.
Notifies(woken) ==
  /\ alive /\ stop = "flags"
  /\ stop' = "notified"
  /\ pc' = IF pc = "wait" THEN woken ELSE pc
  /\ overslept' = (pc = "checked")
  /\ UNCHANGED <<con, known, mtx, ready, work, accVars, alive>>

\* Seeded fault: the selector sleeps on.
NotifyNobody == Notifies("wait")

NotifySelector == Notifies("lock")

ShutSocket ==
  /\ alive /\ stop = "notified"
  /\ stop' = "shut"
  /\ UNCHANGED <<con, known, selVars, accVars, overslept, alive>>

-----------------------------------------------------------------------------
Next ==
  \/ \E c \in Cons : PeerStep(c) \/ SendPacket(c) \/ SendPacketFreed(c)
  \/ AcceptorStep \/ SelectorStep
  \/ ClearFlag \/ ClearSelectorFlag \/ NotifySelector \/ ShutSocket

Spec == Init /\ [][Next]_vars

\* Both threads run when they can, and a shutdown that has begun goes on.
\* Nothing better can be said of the mutex: the selector takes it again as
\* soon as it has let it go.
FairSpec ==
  /\ Spec
  /\ WF_vars(AcceptorStep) /\ WF_vars(SelectorStep)
  /\ WF_vars(ClearSelectorFlag) /\ WF_vars(NotifySelector) /\ WF_vars(ShutSocket)

-----------------------------------------------------------------------------
(* Properties.                                                             *)

\* A queued packet keeps the write flag up, however workers and the selector
\* interleave: otherwise it would wait for the next packet to be queued.
MaskFollowsQueue == \A c \in Owned : con[c].sendQ > 0 => "write" \in con[c].mask

\* The selector touches no connection it has freed: the snapshot of a poll
\* outlives the removals made on its way through it.
SelectorTouchesOwned ==
  /\ cur # None => cur \in Owned
  /\ \A c \in Cons : ready[c] # {} => c \in Owned

Stuck == pc \in {"flush", "send"} /\ con[cur].peer = "stalled"
Pending(c) == con[c].inbox > 0 \/ con[c].sendQ > 0

\* Once the workers and the other ends have sent what they wanted, all that
\* arrived has been read and all that was queued has been taken to be sent, as
\* far as its peer is up and no other peer has stopped reading.
ConnectionsServed ==
  <>[](\/ ~Active
       \/ ~alive
       \/ Stuck
       \/ \A c \in Owned : Pending(c) => con[c].peer # "up")

\* The acceptor does not hold the first connection for ever: the selector
\* sleeps on its monitor as long as there is none.  (A later one has to find
\* the mutex free.)
FirstIsAdded == <>[](~Active \/ ~alive \/ taken = None \/ Owned # {})

\* A shutdown ends both loops, unless its notification fell between the
\* selector's test and its wait, or the selector is blocked in sendBytes.
StopEndsLoops ==
  <>[](\/ Active
       \/ ~alive
       \/ Stuck
       \/ apc = "done" /\ (pc = "done" \/ overslept))
=============================================================================
