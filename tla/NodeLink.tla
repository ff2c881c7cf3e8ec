------------------------------ MODULE NodeLink ------------------------------
(***************************************************************************)
(* The wire between the ReMoLON frontend and its streaming nodes, and what *)
(* a node promises over it.                                                *)
(*                                                                         *)
(* Each start of a node process opens one TCP connection to the frontend   *)
(* (Client::connect is called once and never again), so a connection is a  *)
(* pair <<node, start>>.  TCP delivers bytes in order, but neither side    *)
(* reads packets in a loop: a reader hands the first packets of a burst on *)
(* and forgets the rest with its buffer.  A read therefore removes a       *)
(* prefix of the queue of which only the head is handled, and a torn read  *)
(* removes a prefix of which nothing is.                                   *)
(*                                                                         *)
(* LinkSpec says what the frontend may rely on, whatever the node does     *)
(* inside: NodeSessions and Deployment are checked to implement it, and    *)
(* Frontend is checked against it.                                         *)
(***************************************************************************)
EXTENDS Naturals, Sequences

CONSTANTS
  Nodes,      \* the hosts that run a streaming node
  Users,      \* unix users
  Names,      \* session names a user can choose
  Ports,      \* the web ports of a node's configuration
  NoPort,     \* port 0, which stands for none
  MaxStarts,  \* bound: how often one node process may be started
  LinkCap     \* bound: packets under way between the frontend and a node

ASSUME MaxStartsAssumption == MaxStarts \in Nat \ {0}
ASSUME NoPortAssumption == NoPort \notin Ports

VARIABLES
  toNode,     \* toNode[n]: requests sent to the node's running process
  toFrontend, \* toFrontend[<<n, i>>]: what the i-th process of n has sent
  up,         \* up[n]: the node process runs
  wired,      \* wired[n]: its connection to the frontend is intact
  starts,     \* starts[n]: how often the process of n was started
  con         \* con[n]: the start whose Connection the frontend's
              \*   VisualizationNode::_con points to, 0 for nullptr

linkVars == <<toNode, toFrontend, up, wired, starts, con>>

Keys == Users \X Names
Links == Nodes \X (1..MaxStarts)

-----------------------------------------------------------------------------
(* Packets, without the fields no property tells apart.                    *)

LaunchStatus == {"ok", "duplicate", "unavailable", "crashed"}

StartRequest(k, p) == [type |-> "start", key |-> k, port |-> p]
CloseRequest(k) == [type |-> "close", key |-> k]
InfoRequest == [type |-> "nodeinfo"]

NodeInfo(used) == [type |-> "info", used |-> used]
StartResult(k, s) == [type |-> "started", key |-> k, status |-> s]
CloseResult(k) == [type |-> "closed", key |-> k]

Requests == [type: {"start"}, key: Keys, port: Ports]
              \cup [type: {"close"}, key: Keys] \cup {InfoRequest}
Replies == [type: {"info"}, used: SUBSET Ports]
              \cup [type: {"started"}, key: Keys, status: LaunchStatus]
              \cup [type: {"closed"}, key: Keys]

LinkTypeOK ==
  /\ toNode \in [Nodes -> Seq(Requests)]
  /\ toFrontend \in [Links -> Seq(Replies)]
  /\ up \in [Nodes -> BOOLEAN]
  /\ wired \in [Nodes -> BOOLEAN]
  /\ starts \in [Nodes -> 0..MaxStarts]
  /\ con \in [Nodes -> 0..MaxStarts]

-----------------------------------------------------------------------------
(* Moving packets.                                                         *)

\* What is left of q after a read that took its first j packets.
AfterRead(q, j) == SubSeq(q, j + 1, Len(q))

\* The node's recvLoop takes a burst of j requests whose head is m, and runs
\* that one: Client::recvLoop calls handlePacket once per receive.
NodeReads(n, j, m) ==
  /\ up[n] /\ wired[n]
  /\ j \in 1..Len(toNode[n])
  /\ m = Head(toNode[n])
  /\ toNode' = [toNode EXCEPT ![n] = AfterRead(@, j)]

\* The running process of n queues packet r for the frontend.
NodeSends(n, r) ==
  toFrontend' = [toFrontend EXCEPT ![<<n, starts[n]>>] = Append(@, r)]

\* A request reaches the node only over the connection of its live process.
Linked(n) == up[n] /\ wired[n] /\ con[n] = starts[n]

\* VisualizationNode::sendPacket: without a connection, or into one whose
\* peer is gone, the packet is lost.
FrontendSends(n, m) ==
  /\ toNode' = [toNode EXCEPT ![n] = IF Linked(n) THEN Append(@, m) ELSE @]
  /\ UNCHANGED <<toFrontend, up, wired, starts, con>>

\* The selector thread reads j packets of connection l, and hands the first
\* one, r, on.  NodeInfo (re)points the VisualizationNode at its connection.
FrontendReads(l, j, r) ==
  /\ j \in 1..Len(toFrontend[l])
  /\ r = Head(toFrontend[l])
  /\ toFrontend' = [toFrontend EXCEPT ![l] = AfterRead(@, j)]
  /\ con' = IF r.type = "info" THEN [con EXCEPT ![l[1]] = l[2]] ELSE con
  /\ UNCHANGED <<toNode, up, wired, starts>>

\* A packet split over two receives is not put together again: the burst it
\* is part of goes unhandled.
RequestsLost(n, j) ==
  /\ j \in 1..Len(toNode[n])
  /\ toNode' = [toNode EXCEPT ![n] = AfterRead(@, j)]
  /\ UNCHANGED <<toFrontend, up, wired, starts, con>>

RepliesLost(l, j) ==
  /\ j \in 1..Len(toFrontend[l])
  /\ toFrontend' = [toFrontend EXCEPT ![l] = AfterRead(@, j)]
  /\ UNCHANGED <<toNode, up, wired, starts, con>>

\* Of what the running process of n has sent, only what left its send queue
\* still arrives: endConnection drops the rest.
UnsentLost(n) ==
  \E j \in 0..Len(toFrontend[<<n, starts[n]>>]) :
    toFrontend' = [toFrontend EXCEPT ![<<n, starts[n]>>] = SubSeq(@, 1, j)]

\* The connection breaks: the client stops for good (handleCrash) and drops
\* what it has not executed; the process lives on.
LinkBreaks(n) ==
  /\ up[n] /\ wired[n]
  /\ wired' = [wired EXCEPT ![n] = FALSE]
  /\ toNode' = [toNode EXCEPT ![n] = <<>>]
  /\ UnsentLost(n)
  /\ UNCHANGED <<up, starts, con>>

\* The process starts: it connects, and reports its ports, all of them free.
NodeStarts(n) ==
  /\ ~up[n]
  /\ starts[n] < MaxStarts
  /\ up' = [up EXCEPT ![n] = TRUE]
  /\ wired' = [wired EXCEPT ![n] = TRUE]
  /\ starts' = [starts EXCEPT ![n] = @ + 1]
  /\ toFrontend' = [toFrontend EXCEPT ![<<n, starts[n] + 1>>] = <<NodeInfo({})>>]
  /\ UNCHANGED <<toNode, con>>

\* The process ends, by a signal, an uncaught exception or a wild pointer.
NodeStops(n) ==
  /\ up[n]
  /\ up' = [up EXCEPT ![n] = FALSE]
  /\ wired' = [wired EXCEPT ![n] = FALSE]
  /\ toNode' = [toNode EXCEPT ![n] = <<>>]
  /\ UnsentLost(n)
  /\ UNCHANGED <<starts, con>>

-----------------------------------------------------------------------------
(* What a node promises: one answer to each request it handles, about the  *)
(* session the request named, and no packet nobody asked for but the       *)
(* NodeInfo of its start.                                                  *)

AnswersTo(m) ==
  CASE m.type = "start" -> {StartResult(m.key, s) : s \in LaunchStatus}
    [] m.type = "close" -> {CloseResult(m.key)}
    [] m.type = "nodeinfo" -> {NodeInfo(used) : used \in SUBSET Ports}

NodeAnswers(n) ==
  \E j \in 1..Len(toNode[n]) :
    \E r \in AnswersTo(Head(toNode[n])) :
      /\ NodeReads(n, j, Head(toNode[n]))
      /\ NodeSends(n, r)
      /\ UNCHANGED <<up, wired, starts, con>>

LinkInit ==
  /\ toNode = [n \in Nodes |-> <<>>]
  /\ toFrontend = [l \in Links |-> <<>>]
  /\ up = [n \in Nodes |-> FALSE]
  /\ wired = [n \in Nodes |-> FALSE]
  /\ starts = [n \in Nodes |-> 0]
  /\ con = [n \in Nodes |-> 0]

LinkFaults(n) ==
  \/ LinkBreaks(n)
  \/ \E j \in 1..Len(toNode[n]) : RequestsLost(n, j)
  \/ \E i \in 1..MaxStarts : \E j \in 1..Len(toFrontend[<<n, i>>]) :
       RepliesLost(<<n, i>>, j)

LinkNext ==
  \E n \in Nodes :
    \/ NodeStarts(n)
    \/ NodeStops(n)
    \/ NodeAnswers(n)
    \/ LinkFaults(n)
    \/ \E m \in Requests : FrontendSends(n, m)
    \/ \E i \in 1..MaxStarts : \E j \in 1..Len(toFrontend[<<n, i>>]) :
         FrontendReads(<<n, i>>, j, Head(toFrontend[<<n, i>>]))

LinkSpec == LinkInit /\ [][LinkNext]_linkVars
=============================================================================
