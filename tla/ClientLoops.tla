----------------------------- MODULE ClientLoops -----------------------------
(***************************************************************************)
(* ReMoLON_Util/Client.cpp: the node's end of its connection, as the three *)
(* threads and two mutexes it is made of, with Connection.cpp's send queue *)
(* behind it and the frontend's one selector thread as the peer.           *)
(*                                                                         *)
(* Requests are numbered as the peer writes them and an answer has the     *)
(* number of its request; 0 is the NodeInfo main sends.  What recvLoop     *)
(* takes in one receive is a burst of consecutive requests: only the first *)
(* is parsed, and a torn one leaves a nullptr in _execQueue.               *)
(*                                                                         *)
(* An exception on any thread ends the process.  The module is checked to  *)
(* keep the promise of NodeLink.                                           *)
(***************************************************************************)
EXTENDS Naturals, Sequences

CONSTANTS
  MaxRequests, \* bound: requests the peer ever writes
  InCap,       \* requests the socket buffers hold on the way to the node
  OutCap,      \* answers they hold on the way back
  Signals      \* whether the node may be interrupted by a signal

ASSUME ClientAssumption ==
  /\ MaxRequests \in Nat /\ InCap \in Nat \ {0} /\ OutCap \in Nat \ {0}
  /\ Signals \in BOOLEAN

Requests == 1..MaxRequests
Answers == 0..MaxRequests
Loops == {"send", "exec"}
Threads == Loops \cup {"main", "recv"}
Nobody == "nobody"

VARIABLES
  active,    \* _active
  open,      \* the socket is not closed
  alive,     \* the process runs
  pc,        \* [t]: where a thread is
  sendMtx, execMtx,    \* the thread that holds Client::_sendMtx, _execMtx
  received,  \* requests taken from the socket so far
  burst,     \* the burst recvLoop has parsed the head of
  execQ,     \* _execQueue
  popped,    \* the last request of the last burst taken out of it
  job,       \* the request being run, while pc.exec = "run"
  sendQ,     \* Connection::_sendPackets
  writing,   \* the packet handed to sendBytes, if any
  outbound,  \* answers in the socket
  peer,      \* the frontend's end
  overslept  \* loops notified between their test and their wait

conVars == <<active, open, alive>>
execVars == <<execMtx, execQ, popped, job>>
sendVars == <<sendMtx, sendQ, writing>>
recvVars == <<received, burst>>
peerVars == <<outbound, peer>>
vars == <<conVars, pc, execVars, sendVars, recvVars, peerVars, overslept>>

Burst == [first: Requests, last: Requests, torn: BOOLEAN]
NoBurst == [first |-> 0, last |-> 0, torn |-> TRUE]

\* con: the frontend has run NodeInfo, and knows the connection; written:
\* requests written so far; busy: it is in sendBytes.
Peer == [up: BOOLEAN, con: BOOLEAN, written: 0..MaxRequests, busy: BOOLEAN]

Inbound == peer.written - received

ClientTypeOK ==
  /\ active \in BOOLEAN /\ open \in BOOLEAN /\ alive \in BOOLEAN
  /\ pc \in [Threads -> {"start", "info", "serve", "top", "recv", "push", "out",
                         "lock", "checked", "wait", "write", "run",
                         "flag", "end", "notify", "done"}]
  /\ sendMtx \in {Nobody, "send"} /\ execMtx \in {Nobody, "exec"}
  /\ received \in 0..MaxRequests /\ Inbound \in 0..InCap
  /\ burst \in Burst \cup {NoBurst}
  /\ execQ \in Seq(Burst)
  /\ popped \in 0..received
  /\ job \in Answers
  /\ sendQ \in Seq(Answers)
  /\ writing \in Seq(Answers) /\ Len(writing) <= 1
  /\ outbound \in Seq(Answers) /\ Len(outbound) <= OutCap
  /\ peer \in Peer
  /\ overslept \subseteq Loops

Init ==
  /\ active = FALSE /\ open = FALSE /\ alive = TRUE
  /\ pc = [t \in Threads |-> IF t = "main" THEN "start" ELSE "done"]
  /\ sendMtx = Nobody /\ execMtx = Nobody
  /\ received = 0 /\ burst = NoBurst
  /\ execQ = <<>> /\ popped = 0 /\ job = 0
  /\ sendQ = <<>> /\ writing = <<>> /\ outbound = <<>>
  /\ peer = [up |-> TRUE, con |-> FALSE, written |-> 0, busy |-> FALSE]
  /\ overslept = {}

At(t, label) == alive /\ pc[t] = label
Goto(t, label) == pc' = [pc EXCEPT ![t] = label]

\* t goes on, and those of the loops in woken that wait wake up.
GotoAndNotify(t, label, woken) ==
  pc' = [u \in Threads |-> IF u = t THEN label
                          ELSE IF u \in woken /\ pc[u] = "wait" THEN "lock" ELSE pc[u]]

Dies ==
  /\ alive' = FALSE
  /\ UNCHANGED <<active, open, pc, execVars, sendVars, recvVars, peerVars, overslept>>

-----------------------------------------------------------------------------
(* Starting, and the main thread.                                          *)

Connect ==
  /\ At("main", "start")
  /\ active' = TRUE /\ open' = TRUE
  /\ pc' = [t \in Threads |-> IF t = "main" THEN "info" ELSE "top"]
  /\ UNCHANGED <<alive, execVars, sendVars, recvVars, peerVars, overslept>>

\* sendPacket, called by the executor or by main.
Sends(t, label, a, woken) ==
  /\ sendMtx = Nobody
  /\ sendQ' = Append(sendQ, a)
  /\ GotoAndNotify(t, label, woken)

\* Seeded fault: sendPacket does not notify.
SendPacketSilently(t, label, a) == Sends(t, label, a, {})

SendPacket(t, label, a) == Sends(t, label, a, {"send"})

SendNodeInfo ==
  /\ At("main", "info")
  /\ SendPacket("main", "serve", 0)
  /\ UNCHANGED <<conVars, execVars, sendMtx, writing, recvVars, peerVars, overslept>>

\* The signal handler calls close, and main returns when its server stops.
Interrupted ==
  /\ Signals /\ At("main", "serve")
  /\ Goto("main", "flag")
  /\ UNCHANGED <<conVars, execVars, sendVars, recvVars, peerVars, overslept>>

MainReturns == At("main", "done") /\ Dies

-----------------------------------------------------------------------------
(* recvLoop.                                                               *)

RecvTop ==
  /\ At("recv", "top")
  /\ Goto("recv", IF active THEN "recv" ELSE "out")
  /\ UNCHANGED <<conVars, execVars, sendVars, recvVars, peerVars, overslept>>

\* One receive, one handlePacket; the rest of the buffer is reset.  A thread
\* that is in receiveBytes when the socket is closed under it still receives.
Received(extra) ==
  /\ At("recv", "recv")
  /\ \E j \in 1..Inbound, torn \in BOOLEAN :
       /\ received' = received + j + extra
       /\ burst' = [first |-> received + 1, last |-> received', torn |-> torn]
  /\ Goto("recv", "push")
  /\ UNCHANGED <<conVars, execVars, sendVars, peerVars, overslept>>

\* Seeded fault: the buffer's write position is set past what was received.
ReceiveOneMore == Received(1)

Receive == Received(0)

ReceiveNothing ==
  /\ At("recv", "recv")
  /\ ~peer.up /\ Inbound = 0
  /\ Goto("recv", "out")
  /\ UNCHANGED <<conVars, execVars, sendVars, recvVars, peerVars, overslept>>

\* receiveBytes throws on a reset or closed socket, handlePacket on a torn
\* header.
RecvThrows ==
  /\ At("recv", "recv")
  /\ ~open \/ ~peer.up \/ Inbound > 0
  /\ Dies

Push ==
  /\ At("recv", "push") /\ execMtx = Nobody
  /\ execQ' = Append(execQ, burst)
  /\ burst' = NoBurst
  /\ GotoAndNotify("recv", "top", {"exec"})
  /\ UNCHANGED <<conVars, execMtx, popped, job, sendVars, received, peerVars,
                 overslept>>

\* Out of the loop with _active still set is a crash.
RecvOut ==
  /\ At("recv", "out")
  /\ Goto("recv", IF active THEN "flag" ELSE "done")
  /\ UNCHANGED <<conVars, execVars, sendVars, recvVars, peerVars, overslept>>

RecvStep == RecvTop \/ Receive \/ ReceiveNothing \/ Push \/ RecvOut

-----------------------------------------------------------------------------
(* sendLoop: it holds _sendMtx while it is in sendBytes.                   *)

SendTop ==
  /\ At("send", "top")
  /\ Goto("send", IF active THEN "lock" ELSE "done")
  /\ UNCHANGED <<conVars, execVars, sendVars, recvVars, peerVars, overslept>>

\* What is left in the queue when its head goes to sendBytes.
Polled(left) ==
  /\ At("send", "lock") /\ sendMtx = Nobody
  /\ sendQ # <<>> /\ open
  /\ writing' = <<Head(sendQ)>>
  /\ sendQ' = left
  /\ sendMtx' = "send"
  /\ Goto("send", "write")
  /\ UNCHANGED <<conVars, execVars, recvVars, peerVars, overslept>>

\* Seeded fault: the packet is not popped.
PollAndKeep == Polled(sendQ)

Poll == Polled(Tail(sendQ))

PollNothing ==
  /\ At("send", "lock") /\ sendMtx = Nobody
  /\ sendQ = <<>>
  /\ IF active THEN sendMtx' = "send" /\ Goto("send", "checked")
               ELSE UNCHANGED sendMtx /\ Goto("send", "top")
  /\ UNCHANGED <<conVars, execVars, sendQ, writing, recvVars, peerVars, overslept>>

SendWaits ==
  /\ At("send", "checked")
  /\ sendMtx' = Nobody
  /\ Goto("send", "wait")
  /\ UNCHANGED <<conVars, execVars, sendQ, writing, recvVars, peerVars, overslept>>

\* sendBytes blocks while the socket is full.
SendBytes ==
  /\ At("send", "write")
  /\ Len(outbound) < OutCap
  /\ outbound' = outbound \o writing
  /\ writing' = <<>>
  /\ sendMtx' = Nobody
  /\ Goto("send", "top")
  /\ UNCHANGED <<conVars, execVars, sendQ, recvVars, peer, overslept>>

\* sendBytes throws on a socket that was closed before the call; a call under
\* way when it is closed, or reset, may throw or go on.
PollClosed ==
  /\ At("send", "lock") /\ sendMtx = Nobody
  /\ sendQ # <<>> /\ ~open
  /\ Dies

SendThrows ==
  /\ At("send", "write")
  /\ ~open \/ ~peer.up
  /\ Dies

SendStep == SendTop \/ Poll \/ PollNothing \/ PollClosed \/ SendWaits \/ SendBytes

-----------------------------------------------------------------------------
(* execLoop: it holds _execMtx while it runs a packet.                     *)

ExecTop ==
  /\ At("exec", "top")
  /\ Goto("exec", IF active THEN "lock" ELSE "done")
  /\ UNCHANGED <<conVars, execVars, sendVars, recvVars, peerVars, overslept>>

\* The executor takes the first burst and runs one packet of it; a nullptr is
\* skipped.
Takes(request) ==
  /\ At("exec", "lock") /\ execMtx = Nobody
  /\ active /\ execQ # <<>>
  /\ execQ' = Tail(execQ)
  /\ popped' = Head(execQ).last
  /\ IF Head(execQ).torn
     THEN UNCHANGED <<execMtx, job>> /\ Goto("exec", "top")
     ELSE job' = request /\ execMtx' = "exec" /\ Goto("exec", "run")
  /\ UNCHANGED <<conVars, sendVars, recvVars, peerVars, overslept>>

\* Seeded fault: the newest packet of the buffer is run, and not the oldest.
PopNewest == Takes(Head(execQ).last)

Pop == Takes(Head(execQ).first)

PopNothing ==
  /\ At("exec", "lock") /\ execMtx = Nobody
  /\ \/ active /\ execQ = <<>> /\ execMtx' = "exec" /\ Goto("exec", "checked")
     \/ ~active /\ UNCHANGED execMtx /\ Goto("exec", "top")
  /\ UNCHANGED <<conVars, execQ, popped, job, sendVars, recvVars, peerVars, overslept>>

ExecWaits ==
  /\ At("exec", "checked")
  /\ execMtx' = Nobody
  /\ Goto("exec", "wait")
  /\ UNCHANGED <<conVars, execQ, popped, job, sendVars, recvVars, peerVars, overslept>>

\* The packet's run ends in Client::sendPacket.
Run ==
  /\ At("exec", "run")
  /\ SendPacket("exec", "top", job)
  /\ execMtx' = Nobody
  /\ job' = 0
  /\ UNCHANGED <<conVars, execQ, popped, sendMtx, writing, recvVars, peerVars, overslept>>

ExecStep == ExecTop \/ Pop \/ PopNothing \/ ExecWaits \/ Run

-----------------------------------------------------------------------------
(* close and handleCrash, on main or on the receiving thread.              *)

Closers == {"main", "recv"}

ClearActive(t) ==
  /\ At(t, "flag")
  /\ active' = FALSE
  /\ Goto(t, "end")
  /\ UNCHANGED <<open, alive, execVars, sendVars, recvVars, peerVars, overslept>>

EndConnection(t) ==
  /\ At(t, "end")
  /\ open' = FALSE
  /\ sendQ' = <<>>
  /\ Goto(t, "notify")
  /\ UNCHANGED <<active, alive, execVars, sendMtx, writing, recvVars, peerVars, overslept>>

\* Neither notification holds the mutex of its condition variable: a loop that
\* has tested _active but does not wait yet misses its own.
NotifyLoops(t, woken) ==
  /\ At(t, "notify")
  /\ GotoAndNotify(t, "done", woken)
  /\ overslept' = overslept \cup {l \in woken : pc[l] = "checked"}
  /\ UNCHANGED <<conVars, execVars, sendVars, recvVars, peerVars>>

\* Seeded fault: only the sender is notified.
NotifySender(t) == NotifyLoops(t, {"send"})

Notify(t) == NotifyLoops(t, Loops)

CloseStep(t) == ClearActive(t) \/ EndConnection(t) \/ Notify(t)

-----------------------------------------------------------------------------
(* The peer: one thread that reads and writes by turns, and blocks in      *)
(* sendBytes (SelectorThread.cpp).                                         *)

PeerReads ==
  /\ alive /\ peer.up /\ ~peer.busy
  /\ \E j \in 1..Len(outbound) :
       /\ outbound' = SubSeq(outbound, j + 1, Len(outbound))
       /\ peer' = [peer EXCEPT !.con = @ \/ outbound[1] = 0]
  /\ UNCHANGED <<conVars, pc, execVars, sendVars, recvVars, overslept>>

PeerTakesUp ==
  /\ alive /\ peer.up /\ peer.con /\ ~peer.busy /\ peer.written < MaxRequests
  /\ peer' = [peer EXCEPT !.busy = TRUE]
  /\ UNCHANGED <<conVars, pc, execVars, sendVars, recvVars, outbound, overslept>>

PeerWrites ==
  /\ alive /\ peer.up /\ peer.busy /\ Inbound < InCap
  /\ peer' = [peer EXCEPT !.busy = FALSE, !.written = @ + 1]
  /\ UNCHANGED <<conVars, pc, execVars, sendVars, recvVars, outbound, overslept>>

PeerBreaks ==
  /\ alive /\ peer.up /\ pc["main"] # "start"
  /\ peer' = [peer EXCEPT !.up = FALSE]
  /\ UNCHANGED <<conVars, pc, execVars, sendVars, recvVars, outbound, overslept>>

-----------------------------------------------------------------------------
Next ==
  \/ Connect \/ SendNodeInfo \/ Interrupted \/ MainReturns
  \/ RecvStep \/ SendStep \/ ExecStep
  \/ RecvThrows \/ SendThrows
  \/ \E t \in Closers : CloseStep(t)
  \/ PeerReads \/ PeerTakesUp \/ PeerWrites \/ PeerBreaks

Spec == Init /\ [][Next]_vars

\* Every thread runs when it can, and so does the peer's selector, which is
\* never told to write: it may always choose to read instead.
FairSpec ==
  /\ Spec
  /\ WF_vars(Connect) /\ WF_vars(SendNodeInfo)
  /\ WF_vars(RecvStep) /\ WF_vars(SendStep) /\ WF_vars(ExecStep)
  /\ \A t \in Closers : WF_vars(CloseStep(t))
  /\ WF_vars(PeerReads) /\ WF_vars(PeerWrites)

-----------------------------------------------------------------------------
(* Properties.                                                             *)

Pending == IF pc["exec"] = "run" THEN <<job>> ELSE <<>>

\* From the wire back to the socket: whatever is dropped on the way, answers
\* leave in the order their requests came, none twice, and none without a
\* request that was received.
AnswersInOrder ==
  LET inside == outbound \o writing \o sendQ \o Pending
                  \o [i \in 1..Len(execQ) |-> execQ[i].first]
  IN  /\ \A i, j \in 1..Len(inside) : i < j => inside[i] < inside[j]
      /\ \A i \in 1..Len(inside) : inside[i] <= received

\* Everybody waits on everybody: the peer in sendBytes for the node to
\* receive, recvLoop for _execMtx, the executor for _sendMtx, and sendLoop for
\* the peer to read.
Jammed ==
  /\ peer.busy /\ Inbound = InCap
  /\ pc["recv"] = "push" /\ pc["exec"] = "run"
  /\ pc["send"] = "write" /\ Len(outbound) = OutCap

Down == ~active \/ ~alive \/ ~peer.up
Idle == burst = NoBurst /\ execQ = <<>> /\ Pending = <<>> /\ sendQ = <<>> /\ writing = <<>>

\* When the peer has asked what it wanted, every request that was parsed gets
\* its answer through to the socket, unless the connection goes down or the
\* two ends jam each other: while it stands the loops lose no wake-up.
ParsedIsAnswered == <>[](Idle \/ Down \/ Jammed)

\* The sender holds _sendMtx in a sendBytes that nothing ends.
Blocked == pc["send"] = "write" /\ Len(outbound) = OutCap

\* Once the connection is given up both loops come to their end, unless one
\* was notified between its test of _active and its wait, or the sender is
\* blocked in sendBytes.
LoopsEndUnlessOverslept ==
  <>[](active \/ ~alive \/ Blocked
        \/ \A l \in Loops : pc[l] = "done" \/ l \in overslept)

-----------------------------------------------------------------------------
(* The promise of NodeLink, for one start of one node.                     *)

KeyOfRequest(i) == <<"user", i>>

\* What the socket and the executor's queue hold for the node, and what has
\* left it or still will: endConnection drops what is not yet in sendBytes.
ToNode ==
  IF ~open \/ ~alive THEN <<>>
  ELSE [i \in 1..(peer.written - popped) |->
          [type |-> "close", key |-> KeyOfRequest(popped + i)]]

Unsent == sendQ \o Pending \o (IF pc["main"] = "info" THEN <<0>> ELSE <<>>)

Sent == outbound \o (IF alive THEN writing ELSE <<>>)
                 \o (IF alive /\ open THEN Unsent ELSE <<>>)

Reply(a) == IF a = 0 THEN [type |-> "info", used |-> {}]
            ELSE [type |-> "closed", key |-> KeyOfRequest(a)]

ToFrontend == [i \in 1..Len(Sent) |-> Reply(Sent[i])]

L == INSTANCE NodeLink WITH
       Nodes <- {"node"}, Users <- {"user"}, Names <- Requests,
       Ports <- {}, NoPort <- 0, MaxStarts <- 1, LinkCap <- MaxRequests,
       toNode <- [n \in {"node"} |-> ToNode],
       toFrontend <- [l \in {"node"} \X {1} |-> ToFrontend],
       up <- [n \in {"node"} |-> alive /\ pc["main"] # "start"],
       wired <- [n \in {"node"} |-> alive /\ open],
       starts <- [n \in {"node"} |-> IF pc["main"] = "start" THEN 0 ELSE 1],
       con <- [n \in {"node"} |-> IF peer.con THEN 1 ELSE 0]

\* For all their interleavings, the three loops and the two ways to close do
\* no more to the packets than NodeLink says.
KeepsLinkPromise == L!LinkSpec
==============================================================================
