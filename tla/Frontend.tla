------------------------------ MODULE Frontend ------------------------------
(***************************************************************************)
(* The session server of ReMoLON_FrontEnd: SessionTracker, UserManager and *)
(* the VisualizationNodes, with the HTTP handlers and the packets that     *)
(* drive them.                                                             *)
(*                                                                         *)
(* HTTP threads run tryCreateSession and tryFinishSession, holding the     *)
(* mutex of one User, that is of one client address; one selector thread   *)
(* applies NodeInfo packets field by field and queues the results of start *)
(* and close requests; the workers of the thread pool run those results,   *)
(* the close results without any lock.                                     *)
(*                                                                         *)
(* The end of the frontend process ends the behaviour, which is a prefix   *)
(* of one that goes on: it has no action.                                  *)
(***************************************************************************)
EXTENDS NodeLink, FiniteSets

CONSTANTS
  Addrs,       \* client addresses, the keys of _loggedInUsers
  Logins,      \* the <<address, user>> pairs whose login PAM accepts
  Threads,     \* threads of the HTTP server
  Workers,     \* threads of the packet pool
  NoUser, NoThread, NoNode, NoJob, NoEntry, NoTask, NoReg,
  Word,        \* 2^w, w the width of an unsigned int
  Garbage,     \* what an uninitialised counter may hold
  TaskCap,     \* _maxQueueSize of the pool
  LoadBalance  \* _enableLoadBalance: FALSE, as no code ever sets it

ASSUME LoginsAssumption == Logins \subseteq Addrs \X Users
ASSUME WordAssumption == /\ Word \in Nat \ {0}
                         /\ Garbage \subseteq 0..(Word - 1) /\ Garbage # {}
\* A list of ports is counted in an int.
ASSUME PortsAssumption == IsFiniteSet(Ports) /\ Cardinality(Ports) < Word
ASSUME TaskCapAssumption == TaskCap \in Nat
ASSUME NoThreadAssumption == NoThread \notin Threads
ASSUME LoadBalanceAssumption == LoadBalance \in BOOLEAN

VARIABLES
  loggedIn,       \* [a]: user name of the User at address a
  userLock,       \* [a]: the HTTP thread that holds getUserLock()
  activeSessions, \* [a]: User::_activeSessions
  openSessions,   \* [k]: SessionTracker::_openSessions
  nodeList,       \* [n]: VisualizationNodeManager::_nodeList
  reg,            \* the NodeInfo the selector thread is applying
  pc, job,        \* [t]: where an HTTP thread is, and its request
  tasks,          \* the queue of the thread pool
  running         \* [w]: the result a worker is running

frontVars == <<loggedIn, userLock, activeSessions, openSessions, nodeList,
               reg, pc, job, tasks, running>>

Status == {"creating", "running", "closing", "crashed"}
Entry == [node: Nodes, port: Ports, status: Status]

\* known: the node is in _nodeList.  slots is _slotTracker, "none" where it
\* has no entry.  lost is history, not code: the last set of used
\* fell into an increment, which overwrote it.
VisNode == [known: BOOLEAN, total: 0..(Word - 1), used: 0..(Word - 1),
            slots: [Ports -> {"none", "free", "taken"}], lost: BOOLEAN]

\* Where an HTTP thread is: in tryCreateSession, or with "close" in
\* tryFinishSession.
Labels == {"idle", "find", "reserve", "mark", "count", "insert", "send", "close"}

\* count is the value of used that an increment has loaded, 0 outside one.
Job == [addr: Addrs, name: Names, node: Nodes \cup {NoNode},
        port: Ports \cup {NoPort}, count: 0..(Word - 1)]
Registration == [node: Nodes, step: {"total", "ports"}, todo: SUBSET Ports,
                 flags: SUBSET Ports]
Results == {r \in Replies : r.type # "info"}
Task == [result: Results, addr: Addrs]

\* What stands for nothing is none of the things it is told from.
ASSUME NothingAssumption ==
  /\ NoUser \notin Users /\ NoEntry \notin Entry /\ NoJob \notin Job
  /\ NoReg \notin Registration /\ NoTask \notin Task

FrontTypeOK ==
  /\ LinkTypeOK
  /\ loggedIn \in [Addrs -> Users \cup {NoUser}]
  /\ userLock \in [Addrs -> Threads \cup {NoThread}]
  /\ activeSessions \in [Addrs -> SUBSET Names]
  /\ openSessions \in [Keys -> Entry \cup {NoEntry}]
  /\ nodeList \in [Nodes -> VisNode]
  /\ reg \in Registration \cup {NoReg}
  /\ pc \in [Threads -> Labels]
  /\ job \in [Threads -> Job \cup {NoJob}]
  /\ tasks \in Seq(Results) /\ Len(tasks) <= TaskCap
  /\ running \in [Workers -> Task \cup {NoTask}]

FrontInit ==
  /\ loggedIn = [a \in Addrs |-> NoUser]
  /\ userLock = [a \in Addrs |-> NoThread]
  /\ activeSessions = [a \in Addrs |-> {}]
  /\ openSessions = [k \in Keys |-> NoEntry]
  /\ nodeList = [n \in Nodes |->
       [known |-> FALSE, total |-> 0, used |-> 0,
        slots |-> [p \in Ports |-> "none"], lost |-> FALSE]]
  /\ reg = NoReg
  /\ pc = [t \in Threads |-> "idle"]
  /\ job = [t \in Threads |-> NoJob]
  /\ tasks = <<>>
  /\ running = [w \in Workers |-> NoTask]

-----------------------------------------------------------------------------
(* Users.                                                                  *)

\* The key under which the User at address a keeps a session called s: the
\* name is read anew at each use, without the user's lock.
KeyOf(a, s) == <<loggedIn[a], s>>

\* isUserLoggedIn.
LoggedIn(a) == loggedIn[a] # NoUser

\* A login PAM accepts (re)names the User of the address under the manager's
\* mutex alone.
TryAuthUser(a, u) ==
  /\ <<a, u>> \in Logins
  /\ loggedIn' = [loggedIn EXCEPT ![a] = u]

LogIn(a, u) ==
  /\ \E t \in Threads : pc[t] = "idle"
  /\ TryAuthUser(a, u)
  /\ UNCHANGED <<linkVars, userLock, activeSessions, openSessions, nodeList,
                 reg, pc, job, tasks, running>>

\* Seeded fault: the user's mutex keeps nobody out.
NoLock(a) == TRUE

LockFree(a) == userLock[a] = NoThread

AddSession(a, s) ==
  activeSessions' = [activeSessions EXCEPT ![a] = @ \cup {s}]

RemoveSession(a, s) ==
  activeSessions' = [activeSessions EXCEPT ![a] = @ \ {s}]

-----------------------------------------------------------------------------
(* Slots of a node.                                                        *)

\* getAvailableStreamSlotsCount, in unsigned arithmetic.
Available(n) == (nodeList[n].total + Word - nodeList[n].used) % Word

FreeSlots(n) == {p \in Ports : nodeList[n].slots[p] = "free"}
TakenSlots(n) == {p \in Ports : nodeList[n].slots[p] = "taken"}

\* Seeded fault: find() accepts a node that has nothing available.
FullNodesToo == {n \in Nodes : nodeList[n].known /\ Available(n) >= 0}

\* What find() or findBest() may return: _nodeList is a hash map, so the
\* first candidate is any candidate.
Candidates ==
  LET open == {n \in Nodes : nodeList[n].known /\ Available(n) > 0} IN
  IF LoadBalance
  THEN {n \in open : \A o \in open : Available(n) >= Available(o)}
  ELSE open

\* Seeded fault: the slot is counted but not marked.
TakeUnmarked(n, p) == UNCHANGED nodeList

Take(n, p) == nodeList' = [nodeList EXCEPT ![n].slots[p] = "taken"]

\* A thread at this label holds the node's _nodeLock.
InSlots(t) == pc[t] \in {"mark", "count"}

NodeLocked(n) == \E t \in Threads : InSlots(t) /\ job[t].node = n

\* A thread has loaded the node's count and not yet stored it back.
Counting(n) == \E t \in Threads : pc[t] = "count" /\ job[t].node = n

-----------------------------------------------------------------------------
(* tryCreateSession: one HTTP thread under the lock of one User.           *)

Goto(t, label) == pc' = [pc EXCEPT ![t] = label]

\* The function returns: the lock is released with it.
Return(t) ==
  /\ Goto(t, "idle")
  /\ userLock' = [userLock EXCEPT ![job[t].addr] = NoThread]
  /\ job' = [job EXCEPT ![t] = NoJob]

\* Lock, and go on unless the name is a duplicate (then nothing changes).
CreateSession(t, a, s) ==
  /\ pc[t] = "idle"
  /\ LoggedIn(a)
  /\ LockFree(a)
  /\ openSessions[KeyOf(a, s)] = NoEntry
  /\ userLock' = [userLock EXCEPT ![a] = t]
  /\ Goto(t, "find")
  /\ job' = [job EXCEPT ![t] = [addr |-> a, name |-> s, node |-> NoNode, port |-> NoPort, count |-> 0]]
  /\ UNCHANGED <<linkVars, loggedIn, activeSessions, openSessions, nodeList,
                 reg, tasks, running>>

\* findBestNode; without a candidate the create fails.
FindNode(t) ==
  /\ pc[t] = "find"
  /\ \/ /\ Candidates = {}
        /\ Return(t)
     \/ \E n \in Candidates :
          /\ job' = [job EXCEPT ![t].node = n]
          /\ Goto(t, "reserve")
          /\ UNCHANGED userLock
  /\ UNCHANGED <<linkVars, loggedIn, activeSessions, openSessions, nodeList,
                 reg, tasks, running>>

\* tryReserveSlot fails: the loop goes round, its attempts uncounted.
TryAgain(t) ==
  /\ job' = [job EXCEPT ![t].node = NoNode]
  /\ Goto(t, "find")

\* Seeded fault: a failed reservation is counted.
CountFailedReservation(t) ==
  /\ pc[t] = "reserve"
  /\ LET n == job[t].node IN
     /\ ~NodeLocked(n)
     /\ IF Available(n) > 0
        THEN Goto(t, "mark") /\ UNCHANGED <<job, nodeList>>
        ELSE /\ TryAgain(t)
             /\ nodeList' = [nodeList EXCEPT ![n].used = (@ + 1) % Word]
  /\ UNCHANGED <<linkVars, loggedIn, userLock, activeSessions, openSessions,
                 reg, tasks, running>>

\* tryReserveSlot takes the node's lock, and goes on if the counters leave a slot.
CheckSlots(t) ==
  /\ pc[t] = "reserve"
  /\ ~NodeLocked(job[t].node)
  /\ IF Available(job[t].node) > 0 THEN Goto(t, "mark") /\ UNCHANGED job
     ELSE TryAgain(t)
  /\ UNCHANGED <<linkVars, loggedIn, userLock, activeSessions, openSessions,
                 nodeList, reg, tasks, running>>

\* It marks some free slot, and loads the count to increment it.
MarkSlot(t) ==
  /\ pc[t] = "mark"
  /\ LET n == job[t].node IN
     \/ \E p \in FreeSlots(n) :
          /\ Take(n, p)
          /\ job' = [job EXCEPT ![t].port = p, ![t].count = nodeList[n].used]
          /\ Goto(t, "count")
     \/ FreeSlots(n) = {} /\ TryAgain(t) /\ UNCHANGED nodeList
  /\ UNCHANGED <<linkVars, loggedIn, userLock, activeSessions, openSessions,
                 reg, tasks, running>>

\* It stores the count and unlocks.  The setters of the counters take no lock:
\* what SetUsedSlots wrote since the load is overwritten.
CountSlot(t) ==
  /\ pc[t] = "count"
  /\ nodeList' = [nodeList EXCEPT ![job[t].node].used = (job[t].count + 1) % Word]
  /\ job' = [job EXCEPT ![t].count = 0]
  /\ Goto(t, "insert")
  /\ UNCHANGED <<linkVars, loggedIn, userLock, activeSessions, openSessions,
                 reg, tasks, running>>

InsertSession(t) ==
  /\ pc[t] = "insert"
  /\ LET k == KeyOf(job[t].addr, job[t].name) IN
     openSessions' = [openSessions EXCEPT ![k] =
       [node |-> job[t].node, port |-> job[t].port, status |-> "creating"]]
  /\ Goto(t, "send")
  /\ UNCHANGED <<linkVars, loggedIn, userLock, activeSessions, nodeList, reg,
                 job, tasks, running>>

SendStart(t) ==
  /\ pc[t] = "send"
  /\ LET a == job[t].addr  s == job[t].name IN
     /\ FrontendSends(job[t].node, StartRequest(KeyOf(a, s), job[t].port))
     /\ AddSession(a, s)
  /\ Return(t)
  /\ UNCHANGED <<loggedIn, openSessions, nodeList, reg, tasks, running>>

-----------------------------------------------------------------------------
(* Closing a session.                                                      *)

\* SessionTracker::finishSession, for the User at address a.
Erase(a, s) ==
  LET k == KeyOf(a, s) IN
  /\ openSessions' = [openSessions EXCEPT ![k] = NoEntry]
  /\ IF openSessions[k] = NoEntry THEN UNCHANGED activeSessions
     ELSE RemoveSession(a, s)

\* Packets and results under way for node n, with the closes that a thread is
\* about to send.
UnderWay(n) ==
  Len(toNode[n]) + Len(toFrontend[<<n, starts[n]>>]) + Len(tasks)
    + Cardinality({t \in Threads : pc[t] = "close" /\ job[t].node = n})

\* tryFinishSession, which holds the user's lock until SendClose.  A bound:
\* clients do not ask for a close while LinkCap packets are under way.
TryFinishSession(t, a, s) ==
  LET k == KeyOf(a, s)  e == openSessions[k] IN
  /\ LockFree(a)
  /\ e # NoEntry
  /\ starts[e.node] > 0 /\ UnderWay(e.node) < LinkCap
  /\ openSessions' = [openSessions EXCEPT ![k].status = "closing"]
  /\ userLock' = [userLock EXCEPT ![a] = t]
  /\ job' = [job EXCEPT ![t] =
       [addr |-> a, name |-> s, port |-> NoPort, count |-> 0,
        node |-> IF nodeList[e.node].known THEN e.node ELSE NoNode]]

\* DestroySessionActionHandler.
DestroySession(t, a, s) ==
  /\ pc[t] = "idle"
  /\ LoggedIn(a)
  /\ TryFinishSession(t, a, s)
  /\ Goto(t, "close")
  /\ UNCHANGED <<linkVars, loggedIn, activeSessions, nodeList, reg, tasks, running>>

\* The rest of tryFinishSession, under the name the User has by now.
SendClose(t) ==
  /\ pc[t] = "close"
  /\ LET a == job[t].addr  s == job[t].name IN
     IF job[t].node = NoNode THEN Erase(a, s) /\ UNCHANGED linkVars
     ELSE /\ FrontendSends(job[t].node, CloseRequest(KeyOf(a, s)))
          /\ UNCHANGED <<activeSessions, openSessions>>
  /\ Return(t)
  /\ UNCHANGED <<loggedIn, nodeList, reg, tasks, running>>

-----------------------------------------------------------------------------
(* The selector thread.  It takes no other packet while it applies one.    *)

\* clientpackets::NodeInfo::readImpl, begun: registerOrGetNode.  A new
\* VisualizationNode does not initialise its counters.
RegisterNode(l, j, r) ==
  LET n == l[1] IN
  /\ reg = NoReg
  /\ r.type = "info"
  /\ FrontendReads(l, j, r)
  /\ reg' = [node |-> n, step |-> "total", todo |-> Ports, flags |-> r.used]
  /\ IF nodeList[n].known THEN UNCHANGED nodeList
     ELSE \E total, used \in Garbage :
            nodeList' = [nodeList EXCEPT ![n] =
              [@ EXCEPT !.known = TRUE, !.total = total, !.used = used]]
  /\ UNCHANGED <<loggedIn, userLock, activeSessions, openSessions, pc, job,
                 tasks, running>>

SetTotalSlots ==
  /\ reg # NoReg /\ reg.step = "total"
  /\ nodeList' = [nodeList EXCEPT ![reg.node].total = Cardinality(Ports)]
  /\ reg' = [reg EXCEPT !.step = "ports"]
  /\ UNCHANGED <<linkVars, loggedIn, userLock, activeSessions, openSessions,
                 pc, job, tasks, running>>

\* One addAvailablePort of the loop, the one setter that takes the node's lock;
\* it overwrites what the slot held.
AddAvailablePort(p) ==
  /\ reg # NoReg /\ reg.step = "ports" /\ p \in reg.todo
  /\ ~NodeLocked(reg.node)
  /\ nodeList' = [nodeList EXCEPT ![reg.node].slots[p] =
                    IF p \in reg.flags THEN "taken" ELSE "free"]
  /\ reg' = [reg EXCEPT !.todo = @ \ {p}]
  /\ UNCHANGED <<linkVars, loggedIn, userLock, activeSessions, openSessions,
                 pc, job, tasks, running>>

SetUsedSlots ==
  /\ reg # NoReg /\ reg.step = "ports" /\ reg.todo = {}
  /\ nodeList' = [nodeList EXCEPT ![reg.node].used = Cardinality(reg.flags),
                                  ![reg.node].lost = Counting(reg.node)]
  /\ reg' = NoReg
  /\ UNCHANGED <<linkVars, loggedIn, userLock, activeSessions, openSessions,
                 pc, job, tasks, running>>

ApplyNodeInfo == SetTotalSlots \/ SetUsedSlots \/ \E p \in Ports : AddAvailablePort(p)

\* executeTask of a result; a full queue throws and the result is lost.
DeliverReply(l, j, r) ==
  /\ reg = NoReg
  /\ r.type # "info"
  /\ FrontendReads(l, j, r)
  /\ tasks' = IF Len(tasks) < TaskCap THEN Append(tasks, r) ELSE tasks
  /\ UNCHANGED <<loggedIn, userLock, activeSessions, openSessions, nodeList,
                 reg, pc, job, running>>

-----------------------------------------------------------------------------
(* The workers of the pool.                                                *)

\* Take the next result and look its user up: getUserByName returns the first
\* address of a hash map where that user is logged in, so any.
TakeTask(w) ==
  /\ running[w] = NoTask
  /\ tasks # <<>>
  /\ tasks' = Tail(tasks)
  /\ LET r == Head(tasks)
         at == {a \in Addrs : loggedIn[a] = r.key[1]} IN
     IF at = {} THEN UNCHANGED running
     ELSE \E a \in at : running' = [running EXCEPT ![w] = [result |-> r, addr |-> a]]
  /\ UNCHANGED <<linkVars, loggedIn, userLock, activeSessions, openSessions,
                 nodeList, reg, pc, job>>

\* Seeded fault: the launch status is stored as it came.
RawStatus(r) == r.status

NewStatus(r) == IF r.status = "ok" THEN "running" ELSE "crashed"

\* StartStreamingSessionResult -> createSession, under that User's lock.
RunStarted(w) ==
  /\ running[w] # NoTask
  /\ LET r == running[w].result
         k == KeyOf(running[w].addr, r.key[2]) IN
     /\ r.type = "started"
     /\ LockFree(running[w].addr)
     /\ openSessions' = IF openSessions[k] = NoEntry THEN openSessions
                        ELSE [openSessions EXCEPT ![k].status = NewStatus(r)]
  /\ running' = [running EXCEPT ![w] = NoTask]
  /\ UNCHANGED <<linkVars, loggedIn, userLock, activeSessions, nodeList, reg,
                 pc, job, tasks>>

\* CloseSessionResult -> finishSession, under no lock.
RunClosed(w) ==
  /\ running[w] # NoTask
  /\ running[w].result.type = "closed"
  /\ Erase(running[w].addr, running[w].result.key[2])
  /\ running' = [running EXCEPT ![w] = NoTask]
  /\ UNCHANGED <<linkVars, loggedIn, userLock, nodeList, reg, pc, job, tasks>>

-----------------------------------------------------------------------------
Creating(t) ==
  \/ FindNode(t)
  \/ CheckSlots(t) \/ MarkSlot(t) \/ CountSlot(t)
  \/ InsertSession(t)
  \/ SendStart(t)

FrontNext ==
  \/ \E a \in Addrs :
       \/ \E u \in Users : LogIn(a, u)
       \/ \E s \in Names : \E t \in Threads : DestroySession(t, a, s) \/ CreateSession(t, a, s)
  \/ \E t \in Threads : Creating(t) \/ SendClose(t)
  \/ ApplyNodeInfo
  \/ \E l \in Links : \E j \in 1..Len(toFrontend[l]) :
       \/ RegisterNode(l, j, Head(toFrontend[l]))
       \/ DeliverReply(l, j, Head(toFrontend[l]))
  \/ \E w \in Workers : TakeTask(w) \/ RunStarted(w) \/ RunClosed(w)

\* The nodes, as no more than NodeLink promises of them.
AnyNode(n) == NodeStarts(n) \/ NodeStops(n) \/ NodeAnswers(n) \/ LinkFaults(n)

Next == FrontNext \/ (\E n \in Nodes : AnyNode(n) /\ UNCHANGED frontVars)

vars == <<linkVars, frontVars>>

Init == LinkInit /\ FrontInit

Spec == Init /\ [][Next]_vars

\* Threads of the frontend run, and its selector finishes what it began.
FrontFairness ==
  /\ \A t \in Threads : WF_vars(Creating(t) \/ SendClose(t))
  /\ WF_vars(ApplyNodeInfo)

FairSpec == Spec /\ FrontFairness

-----------------------------------------------------------------------------
(* Properties.                                                             *)

\* A slot is claimed by a tracked session, or by a thread between marking the
\* slot and the insertion of the session.
SlotClaims ==
  {<<k, openSessions[k].node, openSessions[k].port>> :
     k \in {l \in Keys : openSessions[l] # NoEntry}}
  \cup {<<t, job[t].node, job[t].port>> : t \in {u \in Threads : pc[u] \in {"count", "insert"}}}

\* No port of a node is given to two sessions, however the creates of several
\* users interleave with each other and with the node's registration.
SlotsExclusive ==
  \A c, d \in SlotClaims : c # d => <<c[2], c[3]>> # <<d[2], d[3]>>

\* The count, kept apart from the slots it counts and set without their lock,
\* errs on one side alone once a registration is applied: a node is thought
\* fuller than it is only over a set that fell into a reservation's increment.
OvercountsOnlyOverLostSet ==
  \A n \in Nodes :
    nodeList[n].known /\ ~nodeList[n].lost /\ (reg = NoReg \/ reg.node # n)
      => nodeList[n].used <= Cardinality(TakenSlots(n))

\* Between the check and the insertion.
Checked == {"find", "reserve", "mark", "count", "insert"}

\* The duplicate-name check of tryCreateSession still holds when the session
\* is inserted, many steps later: no tracked session is overwritten.
DuplicateCheckHolds ==
  \A t \in Threads :
    pc[t] \in Checked
      => openSessions[KeyOf(job[t].addr, job[t].name)] = NoEntry

\* A phantom slot: counted as available where no slot is free.
Phantom(n) == nodeList[n].known /\ Available(n) > 0 /\ FreeSlots(n) = {}

\* A create or a close returns, unless some node shows a phantom slot.
CreateReturnsOrPhantom ==
  \A t \in Threads :
    (pc[t] # "idle") ~> (pc[t] = "idle" \/ \E n \in Nodes : Phantom(n))

\* "Try to find a suitable node (max 20 attempts)" (SessionTracker.cpp:55):
\* a create always returns.
CreateReturns == \A t \in Threads : (pc[t] # "idle") ~> (pc[t] = "idle")
=============================================================================
