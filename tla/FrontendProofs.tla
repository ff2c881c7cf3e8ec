--------------------------- MODULE FrontendProofs ---------------------------
(***************************************************************************)
(* The link between the frontend and a node, and the session server that   *)
(* uses it, for every number of users, addresses, nodes, ports, HTTP       *)
(* threads and workers.                                                    *)
(***************************************************************************)
EXTENDS Frontend, SequenceTheorems, FiniteSetTheorems, TLAPS

-----------------------------------------------------------------------------
(* Every action of NodeLink keeps LinkTypeOK: the lemmas the proofs about    *)
(* the frontend and the nodes rest on, and the theorem about LinkSpec.       *)

\* What a read leaves of a queue is a queue of the same packets.
LEMMA AfterReadType ==
  ASSUME NEW S, NEW q \in Seq(S), NEW j \in 1..Len(q)
  PROVE  AfterRead(q, j) \in Seq(S)
<1>1. Len(q) \in Nat /\ j \in Nat
  BY LenProperties
<1>2. j + 1 \in Int /\ Len(q) \in Int /\ j + 1 >= 1
  BY <1>1
<1>3. \A i \in (j + 1)..Len(q) : q[i] \in S
  BY <1>1, ElementOfSeq
<1>. QED BY <1>2, <1>3, SubSeqProperties DEF AfterRead

\* A read takes the first j packets off a queue.
LEMMA AfterReadElements ==
  ASSUME NEW S, NEW q \in Seq(S), NEW j \in 1..Len(q)
  PROVE  /\ Len(q) \in Nat /\ j \in Nat /\ j >= 1 /\ j <= Len(q)
         /\ Len(AfterRead(q, j)) = Len(q) - j
         /\ Len(AfterRead(q, j)) \in Nat
         /\ \A i \in 1..Len(AfterRead(q, j)) :
              /\ j + i \in 1..Len(q) /\ j + i # 1
              /\ AfterRead(q, j)[i] = q[j + i]
<1> DEFINE r == AfterRead(q, j)
<1>1. Len(q) \in Nat /\ j \in Nat /\ j >= 1 /\ j <= Len(q)
  BY LenProperties
<1>2. \A i \in (j + 1)..Len(q) : q[i] \in S
  BY <1>1, ElementOfSeq
<1>3. /\ Len(r) = IF j + 1 <= Len(q) THEN Len(q) - (j + 1) + 1 ELSE 0
      /\ \A i \in 1..(Len(q) - (j + 1) + 1) : r[i] = q[(j + 1) + i - 1]
  BY <1>1, <1>2, SubSeqProperties DEF AfterRead
<1> HIDE DEF r
<1>4. Len(r) = Len(q) - j
  BY <1>1, <1>3
<1>5. ASSUME NEW i \in 1..Len(r)
      PROVE  j + i \in 1..Len(q) /\ j + i # 1 /\ r[i] = q[j + i]
  <2>1. i \in Nat /\ i >= 1 /\ i \in 1..(Len(q) - (j + 1) + 1) /\ (j + 1) + i - 1 = j + i
    BY <1>1, <1>4
  <2>. QED BY <1>1, <1>3, <1>4, <2>1
<1>. QED BY <1>1, <1>4, <1>5 DEF r

\* The head of a non-empty queue is one of its packets.
LEMMA HeadType ==
  ASSUME NEW S, NEW q \in Seq(S), NEW j \in 1..Len(q)
  PROVE  Head(q) \in S
<1>1. q # <<>>
  BY SMT
<1>. QED BY <1>1, HeadTailProperties

-----------------------------------------------------------------------------
(* The parts node actions are made of.                                     *)

\* A handler reads one of the request packets.
LEMMA NodeReadsType ==
  ASSUME LinkTypeOK, NEW n \in Nodes, NEW j, NEW m, NodeReads(n, j, m)
  PROVE  m \in Requests /\ toNode' \in [Nodes -> Seq(Requests)]
<1>1. toNode[n] \in Seq(Requests) /\ j \in 1..Len(toNode[n])
  BY DEF LinkTypeOK, NodeReads
<1>2. m \in Requests
  BY <1>1, HeadType DEF NodeReads
<1>3. AfterRead(toNode[n], j) \in Seq(Requests)
  BY <1>1, AfterReadType
<1>. QED BY <1>2, <1>3 DEF LinkTypeOK, NodeReads

\* A reply packet keeps the connections' type.
LEMMA NodeSendsType ==
  ASSUME LinkTypeOK, NEW n \in Nodes, NEW r \in Replies, NodeSends(n, r)
  PROVE  toFrontend' \in [Links -> Seq(Replies)]
<1>1. \A l \in Links : Append(toFrontend[l], r) \in Seq(Replies)
  BY AppendProperties DEF LinkTypeOK
<1>. QED BY <1>1 DEF LinkTypeOK, NodeSends

\* The answers to a request are reply packets.
LEMMA AnswersType ==
  ASSUME NEW m \in Requests
  PROVE  AnswersTo(m) \subseteq Replies
<1>1. CASE m \in [type: {"start"}, key: Keys, port: Ports]
  BY <1>1 DEF AnswersTo, Replies, StartResult
<1>2. CASE m \in [type: {"close"}, key: Keys]
  BY <1>2 DEF AnswersTo, Replies, CloseResult
<1>3. CASE m = InfoRequest
  <2>1. m.type = "nodeinfo"
    BY <1>3 DEF InfoRequest
  <2>2. \A used \in SUBSET Ports : NodeInfo(used) \in Replies
    BY DEF NodeInfo, Replies
  <2>. QED BY <2>1, <2>2 DEF AnswersTo
<1>. QED BY <1>1, <1>2, <1>3 DEF Requests

-----------------------------------------------------------------------------
(* Whole actions.                                                          *)

\* A step that leaves the wire alone keeps its type.
LEMMA LinkUnchanged ==
  ASSUME LinkTypeOK, UNCHANGED linkVars
  PROVE  LinkTypeOK'
BY DEF LinkTypeOK, linkVars

LEMMA FrontendSendsType ==
  ASSUME LinkTypeOK, NEW n \in Nodes, NEW m \in Requests, FrontendSends(n, m)
  PROVE  LinkTypeOK'
<1>1. Append(toNode[n], m) \in Seq(Requests)
  BY AppendProperties DEF LinkTypeOK
<1>2. toNode' \in [Nodes -> Seq(Requests)]
  BY <1>1 DEF LinkTypeOK, FrontendSends
<1>. QED BY <1>2 DEF LinkTypeOK, FrontendSends

LEMMA FrontendReadsType ==
  ASSUME LinkTypeOK, NEW l \in Links, NEW j, NEW r, FrontendReads(l, j, r)
  PROVE  LinkTypeOK' /\ r \in Replies
<1>1. toFrontend[l] \in Seq(Replies) /\ j \in 1..Len(toFrontend[l])
  BY DEF LinkTypeOK, FrontendReads
<1>2. r \in Replies
  BY <1>1, HeadType DEF FrontendReads
<1>3. AfterRead(toFrontend[l], j) \in Seq(Replies)
  BY <1>1, AfterReadType
<1>4. toFrontend' \in [Links -> Seq(Replies)]
  BY <1>3 DEF LinkTypeOK, FrontendReads
<1>5. con' \in [Nodes -> 0..MaxStarts]
  <2>1. l[2] \in 0..MaxStarts
    BY MaxStartsAssumption DEF Links
  <2>. QED BY <2>1 DEF LinkTypeOK, FrontendReads
<1>. QED BY <1>2, <1>4, <1>5 DEF LinkTypeOK, FrontendReads

\* Dropping the end of what a process has sent leaves a queue of replies.
LEMMA UnsentLostType ==
  ASSUME LinkTypeOK, NEW n \in Nodes, UnsentLost(n)
  PROVE  toFrontend' \in [Links -> Seq(Replies)]
<1>. DEFINE l == <<n, starts[n]>>
<1>1. PICK j \in 0..Len(toFrontend[l]) :
        toFrontend' = [toFrontend EXCEPT ![l] = SubSeq(@, 1, j)]
  BY DEF UnsentLost
<1>2. CASE l \in Links
  <2>1. toFrontend[l] \in Seq(Replies)
    BY <1>2 DEF LinkTypeOK
  <2>2. Len(toFrontend[l]) \in Nat
    BY <2>1, LenProperties
  <2>3. \A i \in 1..j : toFrontend[l][i] \in Replies
    BY <2>1, <2>2, ElementOfSeq
  <2>4. SubSeq(toFrontend[l], 1, j) \in Seq(Replies)
    BY <2>2, <2>3, SubSeqProperties
  <2>. QED BY <1>1, <1>2, <2>4 DEF LinkTypeOK
<1>3. CASE l \notin Links
  BY <1>1, <1>3 DEF LinkTypeOK
<1>. QED BY <1>2, <1>3

LEMMA LinkFaultsType ==
  ASSUME LinkTypeOK, NEW n \in Nodes, LinkFaults(n)
  PROVE  LinkTypeOK'
<1>1. CASE LinkBreaks(n)
  <2>1. <<>> \in Seq(Requests)
    BY EmptySeq
  <2>2. toFrontend' \in [Links -> Seq(Replies)]
    BY <1>1, UnsentLostType DEF LinkBreaks
  <2>. QED BY <1>1, <2>1, <2>2 DEF LinkTypeOK, LinkBreaks
<1>2. ASSUME NEW j \in 1..Len(toNode[n]), RequestsLost(n, j)
      PROVE  LinkTypeOK'
  <2>1. AfterRead(toNode[n], j) \in Seq(Requests)
    BY AfterReadType DEF LinkTypeOK
  <2>. QED BY <1>2, <2>1 DEF LinkTypeOK, RequestsLost
<1>3. ASSUME NEW i \in 1..MaxStarts, NEW j \in 1..Len(toFrontend[<<n, i>>]),
             RepliesLost(<<n, i>>, j)
      PROVE  LinkTypeOK'
  <2>1. <<n, i>> \in Links
    BY DEF Links
  <2>2. AfterRead(toFrontend[<<n, i>>], j) \in Seq(Replies)
    BY <2>1, AfterReadType DEF LinkTypeOK
  <2>. QED BY <1>3, <2>2 DEF LinkTypeOK, RepliesLost
<1>. QED BY <1>1, <1>2, <1>3 DEF LinkFaults

LEMMA NodeStartsType ==
  ASSUME LinkTypeOK, NEW n \in Nodes, NodeStarts(n)
  PROVE  LinkTypeOK'
<1>1. NodeInfo({}) \in Replies
  BY DEF NodeInfo, Replies
<1>2. <<NodeInfo({})>> \in Seq(Replies)
  BY <1>1
<1>3. toFrontend' \in [Links -> Seq(Replies)]
  BY <1>2 DEF LinkTypeOK, NodeStarts
<1>4. starts' \in [Nodes -> 0..MaxStarts]
  BY MaxStartsAssumption DEF LinkTypeOK, NodeStarts
<1>. QED BY <1>3, <1>4 DEF LinkTypeOK, NodeStarts

LEMMA NodeStopsType ==
  ASSUME LinkTypeOK, NEW n \in Nodes, NodeStops(n)
  PROVE  LinkTypeOK'
<1>1. <<>> \in Seq(Requests)
  BY EmptySeq
<1>2. toFrontend' \in [Links -> Seq(Replies)]
  BY UnsentLostType DEF NodeStops
<1>. QED BY <1>1, <1>2 DEF LinkTypeOK, NodeStops

LEMMA NodeAnswersType ==
  ASSUME LinkTypeOK, NEW n \in Nodes, NodeAnswers(n)
  PROVE  LinkTypeOK'
<1>1. PICK j \in 1..Len(toNode[n]) : \E r \in AnswersTo(Head(toNode[n])) :
        /\ NodeReads(n, j, Head(toNode[n]))
        /\ NodeSends(n, r)
        /\ UNCHANGED <<up, wired, starts, con>>
  BY DEF NodeAnswers
<1>2. Head(toNode[n]) \in Requests /\ toNode' \in [Nodes -> Seq(Requests)]
  BY <1>1, NodeReadsType
<1>3. toFrontend' \in [Links -> Seq(Replies)]
  BY <1>1, <1>2, AnswersType, NodeSendsType
<1>. QED BY <1>1, <1>2, <1>3 DEF LinkTypeOK

LEMMA LinkInitType == LinkInit => LinkTypeOK
<1>1. <<>> \in Seq(Requests) /\ <<>> \in Seq(Replies)
  BY EmptySeq
<1>. QED BY <1>1, MaxStartsAssumption DEF LinkInit, LinkTypeOK

\* Whatever the two sides do, the wire carries requests one way and replies
\* the other, and con points at nullptr or at some start of the node.
THEOREM LinkTypeCorrect == LinkSpec => []LinkTypeOK
<1>1. ASSUME LinkTypeOK, [LinkNext]_linkVars
      PROVE  LinkTypeOK'
  <2>1. CASE UNCHANGED linkVars
    BY <1>1, <2>1 DEF linkVars, LinkTypeOK
  <2>2. ASSUME NEW n \in Nodes, NEW m \in Requests, FrontendSends(n, m)
        PROVE  LinkTypeOK'
    BY <1>1, <2>2, FrontendSendsType
  <2>3. ASSUME NEW n \in Nodes, NEW i \in 1..MaxStarts,
               NEW j \in 1..Len(toFrontend[<<n, i>>]),
               FrontendReads(<<n, i>>, j, Head(toFrontend[<<n, i>>]))
        PROVE  LinkTypeOK'
    <3>1. <<n, i>> \in Links
      BY DEF Links
    <3>. QED BY <1>1, <2>3, <3>1, FrontendReadsType
  <2>4. ASSUME NEW n \in Nodes,
               NodeStarts(n) \/ NodeStops(n) \/ NodeAnswers(n) \/ LinkFaults(n)
        PROVE  LinkTypeOK'
    BY <1>1, <2>4, NodeStartsType, NodeStopsType, NodeAnswersType, LinkFaultsType
  <2>. QED BY <1>1, <2>1, <2>2, <2>3, <2>4 DEF LinkNext
<1>. QED BY <1>1, LinkInitType, PTL DEF LinkSpec

-----------------------------------------------------------------------------
(* The frontend.                                                             *)

\* The frontend's own part of FrontTypeOK.
TrackerType ==
  /\ loggedIn \in [Addrs -> Users \cup {NoUser}]
  /\ userLock \in [Addrs -> Threads \cup {NoThread}]
  /\ activeSessions \in [Addrs -> SUBSET Names]
  /\ openSessions \in [Keys -> Entry \cup {NoEntry}]
  /\ nodeList \in [Nodes -> VisNode]
  /\ reg \in Registration \cup {NoReg}
  /\ pc \in [Threads -> Labels]
  /\ job \in [Threads -> Job \cup {NoJob}]
  /\ tasks \in Seq(Results) /\ Len(tasks) <= TaskCap
  /\ running \in [Workers -> Task \cup {NoTask}]

\* A thread inside tryCreateSession or tryFinishSession has a job, for an address
\* where somebody is logged in, and holds that address's lock: so no two threads
\* serve one address.
CreatesLocked ==
  \A t \in Threads :
    /\ pc[t] # "idle" =>
         /\ job[t] \in Job
         /\ loggedIn[job[t].addr] # NoUser
         /\ userLock[job[t].addr] = t
    /\ pc[t] \in {"reserve", "mark", "count", "insert", "send"} => job[t].node \in Nodes
    /\ pc[t] \in {"count", "insert", "send"} => job[t].port \in Ports

\* The user a result was looked up for is still logged in, if perhaps renamed.
ResultsHaveUsers ==
  \A w \in Workers : running[w] # NoTask => loggedIn[running[w].addr] # NoUser

FrontInv == LinkTypeOK /\ TrackerType /\ CreatesLocked /\ ResultsHaveUsers

-----------------------------------------------------------------------------
(* The parts actions are made of.                                          *)

\* A key made of a logged-in user's name and a session's name.
LEMMA KeyType ==
  ASSUME TrackerType, NEW a \in Addrs, loggedIn[a] # NoUser, NEW s \in Names
  PROVE  KeyOf(a, s) \in Keys
BY DEF TrackerType, KeyOf, Keys

\* Counters modulo Word are unsigned ints.
LEMMA ModWord ==
  ASSUME NEW i \in Nat
  PROVE  i % Word \in 0..(Word - 1) /\ i % Word <= i
BY WordAssumption

\* A step of the wire, or one that only queues results.
LEMMA OthersUnchanged ==
  ASSUME TrackerType, CreatesLocked, ResultsHaveUsers,
         UNCHANGED <<loggedIn, userLock, pc, job>>,
         \A w \in Workers : running'[w] # NoTask => running'[w] = running[w]
  PROVE  CreatesLocked' /\ ResultsHaveUsers'
BY DEF CreatesLocked, ResultsHaveUsers

LEMMA LogInKeeps ==
  ASSUME FrontInv, NEW a \in Addrs, NEW u \in Users, LogIn(a, u)
  PROVE  FrontInv'
<1>. USE DEF FrontInv
<1>1. /\ loggedIn' = [loggedIn EXCEPT ![a] = u]
      /\ UNCHANGED linkVars
      /\ UNCHANGED <<userLock, activeSessions, openSessions, nodeList, reg, pc,
                     job, tasks, running>>
  BY DEF LogIn, TryAuthUser
<1>2. TrackerType'
  BY <1>1 DEF TrackerType
<1>3. \A b \in Addrs : loggedIn[b] # NoUser => loggedIn'[b] # NoUser
  BY <1>1, NothingAssumption DEF TrackerType
<1>4. CreatesLocked'
  BY <1>1, <1>3 DEF CreatesLocked, Job
<1>5. ResultsHaveUsers'
  <2>1. \A w \in Workers : running[w] # NoTask => running[w].addr \in Addrs
    BY DEF TrackerType, Task
  <2>. QED BY <1>1, <1>3, <2>1 DEF ResultsHaveUsers
<1>. QED BY <1>1, <1>2, <1>4, <1>5, LinkUnchanged

\* A thread that has a lock is the only one to serve its address, so what changes of its own pc and job concerns no other.
LEMMA ThreadMoves ==
  ASSUME FrontInv, NEW t \in Threads, UNCHANGED <<loggedIn, running, userLock>>,
         NEW l \in {"find", "reserve", "mark", "count", "insert", "send"},
         NEW j \in Job,
         pc[t] # "idle", j.addr = job[t].addr,
         pc' = [pc EXCEPT ![t] = l], job' = [job EXCEPT ![t] = j],
         l # "find" => j.node \in Nodes,
         l \in {"count", "insert", "send"} => j.port \in Ports
  PROVE  /\ CreatesLocked' /\ ResultsHaveUsers'
         /\ pc' \in [Threads -> Labels]
         /\ job' \in [Threads -> Job \cup {NoJob}]
<1>. USE DEF FrontInv
<1>1. CreatesLocked'
  <2> SUFFICES ASSUME NEW v \in Threads, pc'[v] # "idle"
               PROVE  /\ job'[v] \in Job
                      /\ loggedIn'[job'[v].addr] # NoUser
                      /\ userLock'[job'[v].addr] = v
                      /\ pc'[v] \in {"reserve", "mark", "count", "insert", "send"}
                           => job'[v].node \in Nodes
                      /\ pc'[v] \in {"count", "insert", "send"} => job'[v].port \in Ports
    BY DEF CreatesLocked
  <2>1. CASE v = t
    <3>1. pc'[v] = l /\ job'[v] = j
      BY <2>1 DEF TrackerType
    <3>. QED BY <2>1, <3>1 DEF CreatesLocked
  <2>2. CASE v # t
    <3>1. pc'[v] = pc[v] /\ job'[v] = job[v]
      BY <2>2 DEF TrackerType
    <3>. QED BY <3>1 DEF CreatesLocked
  <2>. QED BY <2>1, <2>2
<1>2. pc' \in [Threads -> Labels] /\ job' \in [Threads -> Job \cup {NoJob}]
  BY DEF TrackerType, Labels
<1>. QED BY <1>1, <1>2 DEF ResultsHaveUsers

LEMMA ReturnKeeps ==
  ASSUME FrontInv, NEW t \in Threads, pc[t] # "idle", Return(t),
         UNCHANGED <<loggedIn, running>>
  PROVE  CreatesLocked' /\ ResultsHaveUsers'
         /\ userLock' \in [Addrs -> Threads \cup {NoThread}]
         /\ pc' \in [Threads -> Labels]
         /\ job' \in [Threads -> Job \cup {NoJob}]
<1>. USE DEF FrontInv
<1>1. /\ pc' = [pc EXCEPT ![t] = "idle"]
      /\ userLock' = [userLock EXCEPT ![job[t].addr] = NoThread]
      /\ job' = [job EXCEPT ![t] = NoJob]
  BY DEF Return, Goto
<1>2. /\ userLock' \in [Addrs -> Threads \cup {NoThread}]
      /\ pc' \in [Threads -> Labels]
      /\ job' \in [Threads -> Job \cup {NoJob}]
  BY <1>1 DEF TrackerType, Labels
<1>3. CreatesLocked'
  <2> SUFFICES ASSUME NEW v \in Threads, pc'[v] # "idle"
               PROVE  /\ job'[v] = job[v] /\ pc'[v] = pc[v]
                      /\ userLock'[job[v].addr] = userLock[job[v].addr]
    BY DEF CreatesLocked
  <2>1. v # t
    BY <1>1 DEF TrackerType
  <2>2. job'[v] = job[v] /\ pc'[v] = pc[v]
    BY <1>1, <2>1 DEF TrackerType
  <2>3. userLock[job[v].addr] = v /\ userLock[job[t].addr] = t
    BY <2>2 DEF CreatesLocked
  <2>4. job[v].addr \in Addrs
    BY <2>2 DEF CreatesLocked, Job
  <2>5. job[v].addr # job[t].addr
    BY <2>1, <2>3
  <2>. QED BY <1>1, <2>2, <2>4, <2>5 DEF TrackerType
<1>4. ResultsHaveUsers'
  BY DEF ResultsHaveUsers
<1>. QED BY <1>2, <1>3, <1>4

-----------------------------------------------------------------------------
(* tryCreateSession.                                                       *)

\* A thread takes the lock of an address, for a create or for a close.
LEMMA ThreadEnters ==
  ASSUME FrontInv, NEW t \in Threads, NEW a \in Addrs, NEW l \in {"find", "close"},
         NEW j \in Job, j.addr = a,
         pc[t] = "idle", loggedIn[a] # NoUser, userLock[a] = NoThread,
         userLock' = [userLock EXCEPT ![a] = t],
         pc' = [pc EXCEPT ![t] = l], job' = [job EXCEPT ![t] = j],
         UNCHANGED <<loggedIn, running>>
  PROVE  /\ CreatesLocked' /\ ResultsHaveUsers'
         /\ userLock' \in [Addrs -> Threads \cup {NoThread}]
         /\ pc' \in [Threads -> Labels]
         /\ job' \in [Threads -> Job \cup {NoJob}]
<1>. USE DEF FrontInv
<1>1. CreatesLocked'
  <2> SUFFICES ASSUME NEW v \in Threads, v # t, pc'[v] # "idle"
               PROVE  /\ job'[v] = job[v] /\ pc'[v] = pc[v]
                      /\ userLock'[job[v].addr] = userLock[job[v].addr]
    <3>1. pc'[t] = l /\ job'[t] = j /\ userLock'[a] = t
      BY DEF TrackerType
    <3>. QED BY <3>1 DEF CreatesLocked
  <2>1. job'[v] = job[v] /\ pc'[v] = pc[v]
    BY DEF TrackerType
  <2>2. userLock[job[v].addr] = v /\ job[v].addr \in Addrs
    BY <2>1 DEF CreatesLocked, Job
  <2>3. job[v].addr # a
    BY <2>2, NoThreadAssumption
  <2>. QED BY <2>1, <2>2, <2>3 DEF TrackerType
<1>2. /\ userLock' \in [Addrs -> Threads \cup {NoThread}]
      /\ pc' \in [Threads -> Labels]
      /\ job' \in [Threads -> Job \cup {NoJob}]
  BY DEF TrackerType, Labels
<1>. QED BY <1>1, <1>2 DEF ResultsHaveUsers

LEMMA CreateSessionKeeps ==
  ASSUME FrontInv, NEW t \in Threads, NEW a \in Addrs, NEW s \in Names,
         CreateSession(t, a, s)
  PROVE  FrontInv'
<1>. USE DEF FrontInv
<1> DEFINE j == [addr |-> a, name |-> s, node |-> NoNode, port |-> NoPort, count |-> 0]
<1>1. /\ pc[t] = "idle" /\ loggedIn[a] # NoUser /\ userLock[a] = NoThread
      /\ userLock' = [userLock EXCEPT ![a] = t]
      /\ pc' = [pc EXCEPT ![t] = "find"]
      /\ job' = [job EXCEPT ![t] = j]
      /\ UNCHANGED linkVars
      /\ UNCHANGED <<loggedIn, activeSessions, openSessions, nodeList, reg,
                     tasks, running>>
  BY DEF CreateSession, Goto, LoggedIn, LockFree
<1>2. j \in Job /\ j.addr = a
  BY WordAssumption DEF Job
<1> HIDE DEF j
<1>3. /\ CreatesLocked' /\ ResultsHaveUsers'
      /\ userLock' \in [Addrs -> Threads \cup {NoThread}]
      /\ pc' \in [Threads -> Labels]
      /\ job' \in [Threads -> Job \cup {NoJob}]
  BY <1>1, <1>2, ThreadEnters
<1>4. TrackerType'
  BY <1>1, <1>3 DEF TrackerType
<1>. QED BY <1>1, <1>3, <1>4, LinkUnchanged

LEMMA FindNodeKeeps ==
  ASSUME FrontInv, NEW t \in Threads, FindNode(t)
  PROVE  FrontInv'
<1>. USE DEF FrontInv
<1>1. /\ pc[t] = "find"
      /\ UNCHANGED linkVars
      /\ UNCHANGED <<loggedIn, activeSessions, openSessions, nodeList, reg,
                     tasks, running>>
  BY DEF FindNode
<1>2. CASE Return(t)
  <2>1. TrackerType'
    BY <1>1, <1>2, ReturnKeeps DEF TrackerType
  <2>. QED BY <1>1, <1>2, <2>1, ReturnKeeps, LinkUnchanged
<1>3. ASSUME NEW n \in Candidates, job' = [job EXCEPT ![t].node = n],
             pc' = [pc EXCEPT ![t] = "reserve"], UNCHANGED userLock
      PROVE  FrontInv'
  <2> DEFINE j == [job[t] EXCEPT !.node = n]
  <2>1. n \in Nodes
    BY DEF Candidates
  <2>2. job[t] \in Job
    BY <1>1 DEF CreatesLocked
  <2>3. j \in Job /\ j.addr = job[t].addr /\ j.node = n
    BY <2>1, <2>2 DEF Job
  <2>4. job' = [job EXCEPT ![t] = j]
    BY <1>3
  <2> HIDE DEF j
  <2>5. TrackerType'
    BY <1>1, <1>3, <2>3, <2>4 DEF TrackerType, Labels
  <2>6. CreatesLocked' /\ ResultsHaveUsers'
    BY <1>1, <1>3, <2>1, <2>3, <2>4, ThreadMoves
  <2>. QED BY <1>1, <2>5, <2>6, LinkUnchanged
<1>. QED BY <1>2, <1>3 DEF FindNode, Goto

\* Marking a slot keeps a node's slots well-formed.
LEMMA TakeType ==
  ASSUME TrackerType, NEW n \in Nodes, NEW p \in Ports, Take(n, p)
  PROVE  nodeList' \in [Nodes -> VisNode]
<1>1. nodeList[n] \in VisNode
  BY DEF TrackerType
<1> DEFINE v == [nodeList[n] EXCEPT !.slots[p] = "taken"]
<1>2. v \in VisNode
  BY <1>1 DEF VisNode
<1>3. nodeList' = [nodeList EXCEPT ![n] = v]
  BY DEF Take
<1> HIDE DEF v
<1>. QED BY <1>2, <1>3 DEF TrackerType

LEMMA TryAgainKeeps ==
  ASSUME FrontInv, NEW t \in Threads, pc[t] # "idle", TryAgain(t),
         UNCHANGED <<loggedIn, userLock, running>>
  PROVE  /\ CreatesLocked' /\ ResultsHaveUsers'
         /\ pc' \in [Threads -> Labels]
         /\ job' \in [Threads -> Job \cup {NoJob}]
<1> DEFINE j == [job[t] EXCEPT !.node = NoNode]
<1>1. job[t] \in Job
  BY DEF FrontInv, CreatesLocked
<1>2. j \in Job /\ j.addr = job[t].addr
  BY <1>1 DEF Job
<1>3. job' = [job EXCEPT ![t] = j] /\ pc' = [pc EXCEPT ![t] = "find"]
  BY DEF TryAgain, Goto
<1> HIDE DEF j
<1>. QED BY <1>2, <1>3, ThreadMoves

LEMMA CheckSlotsKeeps ==
  ASSUME FrontInv, NEW t \in Threads, CheckSlots(t)
  PROVE  FrontInv'
<1>. USE DEF FrontInv
<1>1. /\ pc[t] = "reserve"
      /\ UNCHANGED linkVars
      /\ UNCHANGED <<loggedIn, userLock, activeSessions, openSessions, nodeList,
                     reg, tasks, running>>
      /\ \/ pc' = [pc EXCEPT ![t] = "mark"] /\ UNCHANGED job
         \/ TryAgain(t)
  BY DEF CheckSlots, Goto
<1>2. CASE pc' = [pc EXCEPT ![t] = "mark"] /\ UNCHANGED job
  <2>1. job[t] \in Job /\ job[t].node \in Nodes
    BY <1>1 DEF CreatesLocked
  <2>2. job' = [job EXCEPT ![t] = job[t]]
    BY <1>2 DEF TrackerType
  <2>3. CreatesLocked' /\ ResultsHaveUsers' /\ pc' \in [Threads -> Labels]
    BY <1>1, <1>2, <2>1, <2>2, ThreadMoves
  <2>4. TrackerType'
    BY <1>1, <1>2, <2>3 DEF TrackerType
  <2>. QED BY <1>1, <2>3, <2>4, LinkUnchanged
<1>3. CASE TryAgain(t)
  <2>1. TrackerType'
    BY <1>1, <1>3, TryAgainKeeps DEF TrackerType
  <2>. QED BY <1>1, <1>3, <2>1, TryAgainKeeps, LinkUnchanged
<1>. QED BY <1>1, <1>2, <1>3

LEMMA MarkSlotKeeps ==
  ASSUME FrontInv, NEW t \in Threads, MarkSlot(t)
  PROVE  FrontInv'
<1>. USE DEF FrontInv
<1>1. /\ pc[t] = "mark"
      /\ UNCHANGED linkVars
      /\ UNCHANGED <<loggedIn, userLock, activeSessions, openSessions, reg,
                     tasks, running>>
  BY DEF MarkSlot
<1>2. job[t] \in Job /\ job[t].node \in Nodes
  BY <1>1 DEF CreatesLocked
<1>3. ASSUME NEW p \in FreeSlots(job[t].node), Take(job[t].node, p),
             job' = [job EXCEPT ![t].port = p, ![t].count = nodeList[job[t].node].used],
             pc' = [pc EXCEPT ![t] = "count"]
      PROVE  FrontInv'
  <2> DEFINE j == [job[t] EXCEPT !.port = p, !.count = nodeList[job[t].node].used]
  <2>1. p \in Ports
    BY DEF FreeSlots
  <2>2. nodeList[job[t].node].used \in 0..(Word - 1)
    BY <1>2 DEF TrackerType, VisNode
  <2>3. j \in Job /\ j.addr = job[t].addr /\ j.node = job[t].node /\ j.port = p
    BY <1>2, <2>1, <2>2 DEF Job
  <2>4. job' = [job EXCEPT ![t] = j]
    BY <1>2, <1>3 DEF TrackerType
  <2> HIDE DEF j
  <2>5. nodeList' \in [Nodes -> VisNode]
    BY <1>2, <1>3, <2>1, TakeType
  <2>6. /\ CreatesLocked' /\ ResultsHaveUsers'
        /\ pc' \in [Threads -> Labels]
        /\ job' \in [Threads -> Job \cup {NoJob}]
    BY <1>1, <1>2, <1>3, <2>1, <2>3, <2>4, ThreadMoves
  <2>7. TrackerType'
    BY <1>1, <2>5, <2>6 DEF TrackerType
  <2>. QED BY <1>1, <2>6, <2>7, LinkUnchanged
<1>4. ASSUME TryAgain(t), UNCHANGED nodeList
      PROVE  FrontInv'
  <2>1. TrackerType'
    BY <1>1, <1>4, TryAgainKeeps DEF TrackerType
  <2>. QED BY <1>1, <1>4, <2>1, TryAgainKeeps, LinkUnchanged
<1>. QED BY <1>3, <1>4 DEF MarkSlot, Goto

\* A node whose count alone is replaced, by an unsigned int, is well-formed.
LEMMA UsedUpdateType ==
  ASSUME TrackerType, NEW n \in Nodes, NEW c \in 0..(Word - 1),
         nodeList' = [nodeList EXCEPT ![n].used = c]
  PROVE  nodeList' \in [Nodes -> VisNode]
<1> DEFINE v == [nodeList[n] EXCEPT !.used = c]
<1>1. nodeList[n] \in VisNode
  BY DEF TrackerType
<1>2. v \in VisNode
  BY <1>1 DEF VisNode
<1>3. nodeList' = [nodeList EXCEPT ![n] = v]
  OBVIOUS
<1> HIDE DEF v
<1>. QED BY <1>2, <1>3 DEF TrackerType

LEMMA CountSlotKeeps ==
  ASSUME FrontInv, NEW t \in Threads, CountSlot(t)
  PROVE  FrontInv'
<1>. USE DEF FrontInv
<1> DEFINE j == [job[t] EXCEPT !.count = 0]
           c == (job[t].count + 1) % Word
<1>1. /\ pc[t] = "count"
      /\ nodeList' = [nodeList EXCEPT ![job[t].node].used = c]
      /\ job' = [job EXCEPT ![t] = j]
      /\ pc' = [pc EXCEPT ![t] = "insert"]
      /\ UNCHANGED linkVars
      /\ UNCHANGED <<loggedIn, userLock, activeSessions, openSessions, reg,
                     tasks, running>>
  BY DEF CountSlot, Goto
<1>2. job[t] \in Job /\ job[t].node \in Nodes /\ job[t].port \in Ports
  BY <1>1 DEF CreatesLocked
<1>3. /\ j \in Job /\ j.addr = job[t].addr
      /\ j.node \in Nodes /\ j.port \in Ports
  BY <1>2, WordAssumption DEF Job
<1>4. c \in 0..(Word - 1)
  <2>1. job[t].count + 1 \in Nat
    BY <1>2, WordAssumption DEF Job
  <2>. QED BY <2>1, ModWord
<1> HIDE DEF j, c
<1>5. nodeList' \in [Nodes -> VisNode]
  BY <1>1, <1>2, <1>4, UsedUpdateType
<1>6. /\ CreatesLocked' /\ ResultsHaveUsers'
      /\ pc' \in [Threads -> Labels]
      /\ job' \in [Threads -> Job \cup {NoJob}]
  BY <1>1, <1>3, ThreadMoves
<1>7. TrackerType'
  BY <1>1, <1>5, <1>6 DEF TrackerType
<1>. QED BY <1>1, <1>6, <1>7, LinkUnchanged

\* The key a thread inserts its session under.
LEMMA JobKeyType ==
  ASSUME FrontInv, NEW t \in Threads, pc[t] # "idle"
  PROVE  /\ job[t].addr \in Addrs /\ job[t].name \in Names
         /\ KeyOf(job[t].addr, job[t].name) \in Keys
<1>1. job[t] \in Job /\ loggedIn[job[t].addr] # NoUser
  BY DEF FrontInv, CreatesLocked
<1>2. job[t].addr \in Addrs /\ job[t].name \in Names
  BY <1>1 DEF Job
<1>. QED BY <1>1, <1>2, KeyType DEF FrontInv

LEMMA InsertSessionKeeps ==
  ASSUME FrontInv, NEW t \in Threads, InsertSession(t)
  PROVE  FrontInv'
<1>. USE DEF FrontInv
<1> DEFINE k == KeyOf(job[t].addr, job[t].name)
           e == [node |-> job[t].node, port |-> job[t].port, status |-> "creating"]
<1>1. /\ pc[t] = "insert"
      /\ openSessions' = [openSessions EXCEPT ![k] = e]
      /\ pc' = [pc EXCEPT ![t] = "send"]
      /\ UNCHANGED linkVars
      /\ UNCHANGED <<loggedIn, userLock, activeSessions, nodeList, reg, job,
                     tasks, running>>
  BY DEF InsertSession, Goto
<1>2. job[t] \in Job /\ job[t].node \in Nodes /\ job[t].port \in Ports
  BY <1>1 DEF CreatesLocked
<1>3. e \in Entry
  BY <1>2 DEF Entry, Status
<1>4. k \in Keys
  BY <1>1, JobKeyType
<1> HIDE DEF k, e
<1>5. TrackerType'
  BY <1>1, <1>3, <1>4 DEF TrackerType, Labels
<1>6. job' = [job EXCEPT ![t] = job[t]]
  BY <1>1 DEF TrackerType
<1>7. CreatesLocked' /\ ResultsHaveUsers' /\ pc' \in [Threads -> Labels]
  BY <1>1, <1>2, <1>6, ThreadMoves
<1>. QED BY <1>1, <1>5, <1>7, LinkUnchanged

LEMMA StartRequestIsRequest ==
  ASSUME NEW k \in Keys, NEW p \in Ports
  PROVE  StartRequest(k, p) \in Requests
BY DEF StartRequest, Requests

LEMMA CloseRequestIsRequest ==
  ASSUME NEW k \in Keys
  PROVE  CloseRequest(k) \in Requests
BY DEF CloseRequest, Requests

LEMMA SendStartKeeps ==
  ASSUME FrontInv, NEW t \in Threads, SendStart(t)
  PROVE  FrontInv'
<1>. USE DEF FrontInv
<1> DEFINE a == job[t].addr  s == job[t].name
           m == StartRequest(KeyOf(a, s), job[t].port)
<1>1. /\ pc[t] = "send"
      /\ FrontendSends(job[t].node, m)
      /\ activeSessions' = [activeSessions EXCEPT ![a] = @ \cup {s}]
      /\ Return(t)
      /\ UNCHANGED <<loggedIn, openSessions, nodeList, reg, tasks, running>>
  BY DEF SendStart, AddSession
<1>2. job[t].node \in Nodes /\ job[t].port \in Ports
  BY <1>1 DEF CreatesLocked
<1>3. a \in Addrs /\ s \in Names /\ m \in Requests
  BY <1>1, <1>2, JobKeyType, StartRequestIsRequest
<1> HIDE DEF a, s, m
<1>4. LinkTypeOK'
  BY <1>1, <1>2, <1>3, FrontendSendsType
<1>5. activeSessions' \in [Addrs -> SUBSET Names]
  BY <1>1, <1>3 DEF TrackerType
<1>6. TrackerType'
  BY <1>1, <1>5, ReturnKeeps DEF TrackerType
<1>. QED BY <1>1, <1>4, <1>6, ReturnKeeps

-----------------------------------------------------------------------------
(* Closing a session.                                                      *)

LEMMA EraseType ==
  ASSUME TrackerType, NEW a \in Addrs, NEW s \in Names, Erase(a, s)
  PROVE  /\ openSessions' \in [Keys -> Entry \cup {NoEntry}]
         /\ activeSessions' \in [Addrs -> SUBSET Names]
BY DEF TrackerType, Erase, RemoveSession

LEMMA StatusType ==
  ASSUME TrackerType, NEW k \in Keys, openSessions[k] # NoEntry, NEW st \in Status,
         openSessions' = [openSessions EXCEPT ![k].status = st]
  PROVE  openSessions' \in [Keys -> Entry \cup {NoEntry}]
<1> DEFINE e == [openSessions[k] EXCEPT !.status = st]
<1>1. openSessions[k] \in Entry
  BY DEF TrackerType
<1>2. e \in Entry
  BY <1>1 DEF Entry
<1>3. openSessions' = [openSessions EXCEPT ![k] = e]
  OBVIOUS
<1> HIDE DEF e
<1>. QED BY <1>2, <1>3 DEF TrackerType

LEMMA DestroySessionKeeps ==
  ASSUME FrontInv, NEW t \in Threads, NEW a \in Addrs, NEW s \in Names,
         DestroySession(t, a, s)
  PROVE  FrontInv'
<1>. USE DEF FrontInv
<1> DEFINE k == KeyOf(a, s)  e == openSessions[k]
           j == [addr |-> a, name |-> s, port |-> NoPort, count |-> 0,
                 node |-> IF nodeList[e.node].known THEN e.node ELSE NoNode]
<1>1. /\ pc[t] = "idle" /\ loggedIn[a] # NoUser /\ userLock[a] = NoThread
      /\ e # NoEntry
      /\ openSessions' = [openSessions EXCEPT ![k].status = "closing"]
      /\ userLock' = [userLock EXCEPT ![a] = t]
      /\ pc' = [pc EXCEPT ![t] = "close"]
      /\ job' = [job EXCEPT ![t] = j]
      /\ UNCHANGED linkVars
      /\ UNCHANGED <<loggedIn, activeSessions, nodeList, reg, tasks, running>>
  BY DEF DestroySession, TryFinishSession, Goto, LoggedIn, LockFree
<1>2. k \in Keys
  BY <1>1, KeyType
<1>3. e \in Entry /\ e.node \in Nodes
  BY <1>1, <1>2 DEF TrackerType, Entry
<1>4. j \in Job /\ j.addr = a
  BY <1>3, WordAssumption DEF Job
<1> HIDE DEF j
<1>5. /\ CreatesLocked' /\ ResultsHaveUsers'
      /\ userLock' \in [Addrs -> Threads \cup {NoThread}]
      /\ pc' \in [Threads -> Labels]
      /\ job' \in [Threads -> Job \cup {NoJob}]
  BY <1>1, <1>4, ThreadEnters
<1> HIDE DEF k
<1>6. openSessions' \in [Keys -> Entry \cup {NoEntry}]
  BY <1>1, <1>2, StatusType DEF Status
<1>7. TrackerType'
  BY <1>1, <1>5, <1>6 DEF TrackerType
<1>. QED BY <1>1, <1>5, <1>7, LinkUnchanged

\* The request that ends a close, if it sends one.
LEMMA SendCloseKeeps ==
  ASSUME FrontInv, NEW t \in Threads, SendClose(t)
  PROVE  FrontInv'
<1>. USE DEF FrontInv
<1> DEFINE a == job[t].addr  s == job[t].name  m == CloseRequest(KeyOf(a, s))
<1>1. /\ pc[t] = "close"
      /\ \/ Erase(a, s) /\ UNCHANGED linkVars
         \/ /\ job[t].node # NoNode
            /\ FrontendSends(job[t].node, m)
            /\ UNCHANGED <<activeSessions, openSessions>>
      /\ Return(t)
      /\ UNCHANGED <<loggedIn, nodeList, reg, tasks, running>>
  BY DEF SendClose
<1>2. job[t] \in Job
  BY <1>1 DEF CreatesLocked
<1>3. a \in Addrs /\ s \in Names /\ m \in Requests
  BY <1>1, JobKeyType, CloseRequestIsRequest
<1>4. job[t].node # NoNode => job[t].node \in Nodes
  BY <1>2 DEF Job
<1> HIDE DEF a, s, m
<1>5. LinkTypeOK'
  BY <1>1, <1>3, <1>4, FrontendSendsType, LinkUnchanged
<1>6. /\ openSessions' \in [Keys -> Entry \cup {NoEntry}]
      /\ activeSessions' \in [Addrs -> SUBSET Names]
  <2>1. CASE Erase(a, s)
    BY <1>3, <2>1, EraseType
  <2>2. CASE UNCHANGED <<activeSessions, openSessions>>
    BY <2>2 DEF TrackerType
  <2>. QED BY <1>1, <2>1, <2>2
<1>7. TrackerType'
  BY <1>1, <1>6, ReturnKeeps DEF TrackerType
<1>. QED BY <1>1, <1>5, <1>7, ReturnKeeps

-----------------------------------------------------------------------------
(* The selector thread.                                                    *)

\* A step that only changes what is known of nodes, and what is being applied.
LEMMA SelectorKeeps ==
  ASSUME FrontInv, LinkTypeOK',
         nodeList' \in [Nodes -> VisNode],
         reg' \in Registration \cup {NoReg},
         tasks' \in Seq(Results) /\ Len(tasks') <= TaskCap,
         UNCHANGED <<loggedIn, userLock, activeSessions, openSessions, pc, job, running>>
  PROVE  FrontInv'
<1>1. TrackerType'
  BY DEF FrontInv, TrackerType
<1>. QED BY <1>1, OthersUnchanged DEF FrontInv

\* A node whose fields are replaced by well-formed ones is well-formed.
LEMMA NodeUpdateType ==
  ASSUME TrackerType, NEW n \in Nodes, NEW v \in VisNode,
         nodeList' = [nodeList EXCEPT ![n] = v]
  PROVE  nodeList' \in [Nodes -> VisNode]
BY DEF TrackerType

LEMMA InfoFlagsType ==
  ASSUME NEW r \in Replies, r.type = "info"
  PROVE  r.used \subseteq Ports
BY DEF Replies

LEMMA RegisterNodeKeeps ==
  ASSUME FrontInv, NEW l \in Links, NEW j, NEW r, RegisterNode(l, j, r)
  PROVE  FrontInv'
<1>. USE DEF FrontInv
<1>1. /\ r.type = "info"
      /\ FrontendReads(l, j, r)
      /\ reg' = [node |-> l[1], step |-> "total", todo |-> Ports, flags |-> r.used]
      /\ UNCHANGED <<loggedIn, userLock, activeSessions, openSessions, pc, job,
                     tasks, running>>
  BY DEF RegisterNode
<1>2. l[1] \in Nodes
  BY DEF Links
<1>3. LinkTypeOK' /\ r \in Replies
  BY <1>1, FrontendReadsType
<1>4. reg' \in Registration
  BY <1>1, <1>2, <1>3, InfoFlagsType DEF Registration
<1>5. nodeList' \in [Nodes -> VisNode]
  <2>1. CASE UNCHANGED nodeList
    BY <2>1 DEF TrackerType
  <2>2. ASSUME NEW total \in Garbage, NEW used \in Garbage,
               nodeList' = [nodeList EXCEPT ![l[1]] =
                 [@ EXCEPT !.known = TRUE, !.total = total, !.used = used]]
        PROVE  nodeList' \in [Nodes -> VisNode]
    <3> DEFINE v == [nodeList[l[1]] EXCEPT !.known = TRUE, !.total = total, !.used = used]
    <3>1. nodeList[l[1]] \in VisNode
      BY <1>2 DEF TrackerType
    <3>2. v \in VisNode
      BY <3>1, WordAssumption DEF VisNode
    <3>3. nodeList' = [nodeList EXCEPT ![l[1]] = v]
      BY <2>2
    <3> HIDE DEF v
    <3>. QED BY <1>2, <3>2, <3>3, NodeUpdateType
  <2>. QED BY <2>1, <2>2 DEF RegisterNode
<1>. QED BY <1>1, <1>3, <1>4, <1>5, SelectorKeeps DEF TrackerType

LEMMA PortsCount ==
  ASSUME NEW S \in SUBSET Ports
  PROVE  IsFiniteSet(S) /\ Cardinality(S) \in 0..(Word - 1)
<1>1. IsFiniteSet(S) /\ Cardinality(S) <= Cardinality(Ports)
  BY PortsAssumption, FS_Subset
<1>2. Cardinality(S) \in Nat /\ Cardinality(Ports) \in Nat
  BY <1>1, PortsAssumption, FS_CardinalityType
<1>. QED BY <1>1, <1>2, PortsAssumption, WordAssumption

LEMMA SetTotalSlotsKeeps ==
  ASSUME FrontInv, SetTotalSlots
  PROVE  FrontInv'
<1>. USE DEF FrontInv
<1> DEFINE v == [nodeList[reg.node] EXCEPT !.total = Cardinality(Ports)]
<1>1. reg \in Registration
  BY DEF SetTotalSlots, TrackerType
<1>2. reg.node \in Nodes /\ reg' \in Registration
  BY <1>1 DEF SetTotalSlots, Registration
<1>3. nodeList[reg.node] \in VisNode
  BY <1>2 DEF TrackerType
<1>4. v \in VisNode
  BY <1>3, PortsCount DEF VisNode
<1>5. nodeList' = [nodeList EXCEPT ![reg.node] = v]
  BY DEF SetTotalSlots
<1> HIDE DEF v
<1>6. nodeList' \in [Nodes -> VisNode]
  BY <1>2, <1>4, <1>5, NodeUpdateType
<1>. QED BY <1>2, <1>6, SelectorKeeps, LinkUnchanged DEF SetTotalSlots, TrackerType

LEMMA AddAvailablePortKeeps ==
  ASSUME FrontInv, NEW p \in Ports, AddAvailablePort(p)
  PROVE  FrontInv'
<1>. USE DEF FrontInv
<1> DEFINE x == IF p \in reg.flags THEN "taken" ELSE "free"
           v == [nodeList[reg.node] EXCEPT !.slots[p] = x]
<1>1. reg \in Registration
  BY DEF AddAvailablePort, TrackerType
<1>2. reg.node \in Nodes /\ reg' \in Registration
  BY <1>1 DEF AddAvailablePort, Registration
<1>3. nodeList[reg.node] \in VisNode
  BY <1>2 DEF TrackerType
<1>4. v \in VisNode
  BY <1>3 DEF VisNode
<1>5. nodeList' = [nodeList EXCEPT ![reg.node] = v]
  BY DEF AddAvailablePort
<1> HIDE DEF v
<1>6. nodeList' \in [Nodes -> VisNode]
  BY <1>2, <1>4, <1>5, NodeUpdateType
<1>. QED BY <1>2, <1>6, SelectorKeeps, LinkUnchanged DEF AddAvailablePort, TrackerType

LEMMA SetUsedSlotsKeeps ==
  ASSUME FrontInv, SetUsedSlots
  PROVE  FrontInv'
<1>. USE DEF FrontInv
<1> DEFINE v == [nodeList[reg.node] EXCEPT !.used = Cardinality(reg.flags),
                                            !.lost = Counting(reg.node)]
<1>1. reg \in Registration
  BY DEF SetUsedSlots, TrackerType
<1>2. reg.node \in Nodes /\ reg.flags \in SUBSET Ports
  BY <1>1 DEF Registration
<1>3. nodeList[reg.node] \in VisNode
  BY <1>2 DEF TrackerType
<1>4. v \in VisNode
  BY <1>2, <1>3, PortsCount DEF VisNode, Counting
<1>5. nodeList' = [nodeList EXCEPT ![reg.node] = v]
  BY <1>2 DEF SetUsedSlots, TrackerType
<1> HIDE DEF v
<1>6. nodeList' \in [Nodes -> VisNode]
  BY <1>2, <1>4, <1>5, NodeUpdateType
<1>. QED BY <1>6, SelectorKeeps, LinkUnchanged DEF SetUsedSlots, TrackerType

LEMMA DeliverReplyKeeps ==
  ASSUME FrontInv, NEW l \in Links, NEW j, NEW r, DeliverReply(l, j, r)
  PROVE  FrontInv'
<1>. USE DEF FrontInv
<1>1. /\ r.type # "info"
      /\ FrontendReads(l, j, r)
      /\ tasks' = IF Len(tasks) < TaskCap THEN Append(tasks, r) ELSE tasks
      /\ UNCHANGED <<loggedIn, userLock, activeSessions, openSessions, nodeList,
                     reg, pc, job, running>>
  BY DEF DeliverReply
<1>2. LinkTypeOK' /\ r \in Results
  BY <1>1, FrontendReadsType DEF Results
<1>3. Append(tasks, r) \in Seq(Results) /\ Len(Append(tasks, r)) = Len(tasks) + 1
      /\ Len(tasks) \in Nat
  BY <1>2, AppendProperties, LenProperties DEF TrackerType
<1>4. tasks' \in Seq(Results) /\ Len(tasks') <= TaskCap
  BY <1>1, <1>3, TaskCapAssumption DEF TrackerType
<1>. QED BY <1>1, <1>2, <1>4, SelectorKeeps DEF TrackerType

-----------------------------------------------------------------------------
(* The workers.                                                            *)

\* A worker that takes a result or is done with it.
LEMMA TakeTaskKeeps ==
  ASSUME FrontInv, NEW w \in Workers, TakeTask(w)
  PROVE  FrontInv'
<1>. USE DEF FrontInv
<1> DEFINE r == Head(tasks)
<1>1. /\ tasks # <<>> /\ tasks' = Tail(tasks)
      /\ UNCHANGED linkVars
      /\ UNCHANGED <<loggedIn, userLock, activeSessions, openSessions, nodeList,
                     reg, pc, job>>
  BY DEF TakeTask
<1>2. /\ r \in Results /\ tasks' \in Seq(Results)
      /\ Len(tasks') = Len(tasks) - 1 /\ Len(tasks) \in Nat
  BY <1>1, HeadTailProperties, LenProperties DEF TrackerType
<1>3. Len(tasks') <= TaskCap
  BY <1>2, TaskCapAssumption DEF TrackerType
<1>4. r.key[1] \in Users
  BY <1>2 DEF Results, Replies, Keys
<1>5. CASE UNCHANGED running
  <2>1. TrackerType'
    BY <1>1, <1>2, <1>3, <1>5 DEF TrackerType
  <2>. QED BY <1>1, <1>5, <2>1, OthersUnchanged, LinkUnchanged
<1>6. ASSUME NEW a \in Addrs, loggedIn[a] = r.key[1],
             running' = [running EXCEPT ![w] = [result |-> r, addr |-> a]]
      PROVE  FrontInv'
  <2>1. [result |-> r, addr |-> a] \in Task
    BY <1>2 DEF Task
  <2>2. TrackerType'
    BY <1>1, <1>2, <1>3, <1>6, <2>1 DEF TrackerType
  <2>3. loggedIn[a] # NoUser
    BY <1>4, <1>6, NothingAssumption
  <2>4. ResultsHaveUsers'
    BY <1>1, <1>6, <2>3 DEF ResultsHaveUsers, TrackerType
  <2>5. CreatesLocked'
    BY <1>1 DEF CreatesLocked
  <2>. QED BY <1>1, <2>2, <2>4, <2>5, LinkUnchanged
<1>. QED BY <1>5, <1>6 DEF TakeTask

\* The key of a result's session.
LEMMA ResultKeyType ==
  ASSUME FrontInv, NEW w \in Workers, running[w] # NoTask
  PROVE  /\ running[w].addr \in Addrs /\ running[w].result.key[2] \in Names
         /\ KeyOf(running[w].addr, running[w].result.key[2]) \in Keys
<1>1. running[w] \in Task
  BY DEF FrontInv, TrackerType
<1>2. running[w].result \in Results /\ running[w].addr \in Addrs
  BY <1>1 DEF Task
<1>3. running[w].result.key[2] \in Names
  BY <1>2 DEF Results, Replies, Keys
<1>4. loggedIn[running[w].addr] # NoUser
  BY DEF FrontInv, ResultsHaveUsers
<1>. QED BY <1>2, <1>3, <1>4, KeyType DEF FrontInv

LEMMA RunStartedKeeps ==
  ASSUME FrontInv, NEW w \in Workers, RunStarted(w)
  PROVE  FrontInv'
<1>. USE DEF FrontInv
<1> DEFINE r == running[w].result
           k == KeyOf(running[w].addr, r.key[2])
<1>1. /\ running[w] # NoTask
      /\ openSessions' = IF openSessions[k] = NoEntry THEN openSessions
                         ELSE [openSessions EXCEPT ![k].status = NewStatus(r)]
      /\ running' = [running EXCEPT ![w] = NoTask]
      /\ UNCHANGED linkVars
      /\ UNCHANGED <<loggedIn, userLock, activeSessions, nodeList, reg, pc, job, tasks>>
  BY DEF RunStarted
<1>2. k \in Keys
  BY <1>1, ResultKeyType
<1>3. NewStatus(r) \in Status
  BY DEF NewStatus, Status
<1> HIDE DEF k, r
<1>4. openSessions' \in [Keys -> Entry \cup {NoEntry}]
  BY <1>1, <1>2, <1>3, StatusType DEF TrackerType
<1>5. TrackerType'
  BY <1>1, <1>4 DEF TrackerType
<1>. QED BY <1>1, <1>5, OthersUnchanged, LinkUnchanged DEF TrackerType

LEMMA RunClosedKeeps ==
  ASSUME FrontInv, NEW w \in Workers, RunClosed(w)
  PROVE  FrontInv'
<1>. USE DEF FrontInv
<1>1. /\ running[w] # NoTask
      /\ Erase(running[w].addr, running[w].result.key[2])
      /\ running' = [running EXCEPT ![w] = NoTask]
      /\ UNCHANGED linkVars
      /\ UNCHANGED <<loggedIn, userLock, nodeList, reg, pc, job, tasks>>
  BY DEF RunClosed
<1>2. /\ openSessions' \in [Keys -> Entry \cup {NoEntry}]
      /\ activeSessions' \in [Addrs -> SUBSET Names]
  BY <1>1, ResultKeyType, EraseType
<1>3. TrackerType'
  BY <1>1, <1>2 DEF TrackerType
<1>. QED BY <1>1, <1>3, OthersUnchanged, LinkUnchanged DEF TrackerType

-----------------------------------------------------------------------------
(* The whole.                                                              *)

LEMMA FrontUnchangedKeeps ==
  ASSUME FrontInv, LinkTypeOK', UNCHANGED frontVars
  PROVE  FrontInv'
BY DEF FrontInv, frontVars, TrackerType, CreatesLocked, ResultsHaveUsers

LEMMA AnyNodeType ==
  ASSUME LinkTypeOK, NEW n \in Nodes, AnyNode(n)
  PROVE  LinkTypeOK'
BY NodeStartsType, NodeStopsType, NodeAnswersType, LinkFaultsType DEF AnyNode

LEMMA FrontInvInit == Init => FrontInv
<1> SUFFICES ASSUME Init
             PROVE  FrontInv
  OBVIOUS
<1>1. LinkTypeOK
  BY LinkInitType DEF Init
<1>2. \A n \in Nodes : nodeList[n] \in VisNode
  <2> DEFINE v == [known |-> FALSE, total |-> 0, used |-> 0,
                   slots |-> [p \in Ports |-> "none"], lost |-> FALSE]
  <2>1. v \in VisNode
    <3>1. 0 \in 0..(Word - 1)
      BY WordAssumption
    <3>. QED BY <3>1 DEF VisNode
  <2>2. nodeList = [n \in Nodes |-> v]
    BY DEF Init, FrontInit
  <2> HIDE DEF v
  <2>. QED BY <2>1, <2>2
<1>3. <<>> \in Seq(Results) /\ Len(<<>>) <= TaskCap
  BY EmptySeq, TaskCapAssumption
<1>4. TrackerType
  BY <1>2, <1>3 DEF Init, FrontInit, TrackerType, Labels
<1>. QED BY <1>1, <1>4 DEF FrontInv, Init, FrontInit, CreatesLocked, ResultsHaveUsers

LEMMA FrontNextKeeps ==
  ASSUME FrontInv, FrontNext
  PROVE  FrontInv'
<1>1. ASSUME NEW a \in Addrs, NEW u \in Users, LogIn(a, u)
      PROVE  FrontInv'
  BY <1>1, LogInKeeps
<1>2. ASSUME NEW a \in Addrs, NEW s \in Names, NEW t \in Threads, DestroySession(t, a, s)
      PROVE  FrontInv'
  BY <1>2, DestroySessionKeeps
<1>3. ASSUME NEW a \in Addrs, NEW s \in Names, NEW t \in Threads, CreateSession(t, a, s)
      PROVE  FrontInv'
  BY <1>3, CreateSessionKeeps
<1>4. ASSUME NEW t \in Threads, Creating(t) \/ SendClose(t)
      PROVE  FrontInv'
  BY <1>4, FindNodeKeeps, CheckSlotsKeeps, MarkSlotKeeps, CountSlotKeeps,
     InsertSessionKeeps, SendStartKeeps, SendCloseKeeps DEF Creating
<1>5. CASE ApplyNodeInfo
  BY <1>5, SetTotalSlotsKeeps, SetUsedSlotsKeeps, AddAvailablePortKeeps DEF ApplyNodeInfo
<1>6. ASSUME NEW l \in Links, NEW j, NEW r, RegisterNode(l, j, r) \/ DeliverReply(l, j, r)
      PROVE  FrontInv'
  BY <1>6, RegisterNodeKeeps, DeliverReplyKeeps
<1>7. ASSUME NEW w \in Workers, TakeTask(w) \/ RunStarted(w) \/ RunClosed(w)
      PROVE  FrontInv'
  BY <1>7, TakeTaskKeeps, RunStartedKeeps, RunClosedKeeps
<1>. QED BY <1>1, <1>2, <1>3, <1>4, <1>5, <1>6, <1>7 DEF FrontNext

LEMMA FrontInvStep ==
  ASSUME FrontInv, [Next]_vars
  PROVE  FrontInv'
<1>1. CASE UNCHANGED vars
  <2>1. UNCHANGED linkVars /\ UNCHANGED frontVars
    BY <1>1 DEF vars
  <2>. QED BY <2>1, LinkUnchanged, FrontUnchangedKeeps DEF FrontInv
<1>2. CASE FrontNext
  BY <1>2, FrontNextKeeps
<1>3. ASSUME NEW n \in Nodes, AnyNode(n), UNCHANGED frontVars
      PROVE  FrontInv'
  BY <1>3, AnyNodeType, FrontUnchangedKeeps DEF FrontInv
<1>. QED BY <1>1, <1>2, <1>3 DEF Next

\* FrontInv is an inductive invariant of the session server, whatever nodes
\* do within the promise of NodeLink: the lock of an address is held by the
\* one thread that creates a session for it, from its check to its start packet.
THEOREM FrontInvariant == Spec => []FrontInv
BY FrontInvStep, FrontInvInit, PTL DEF Spec

\* The session server's tables stay well-formed: its unsigned counters, the
\* sessions it tracks, its bounded queue of results.
THEOREM FrontTypeCorrect == Spec => []FrontTypeOK
<1>1. FrontInv => FrontTypeOK
  BY DEF FrontInv, FrontTypeOK, TrackerType
<1>. QED BY <1>1, FrontInvariant, PTL

-----------------------------------------------------------------------------
(* The count of used slots.                                                *)
(*                                                                         *)
(* The property says nothing of a node whose registration is being applied *)
(* or whose last set of the count was overwritten.  It comes back with the *)
(* last step of a registration only because the ports applied before are   *)
(* still marked, although creates went on reserving slots of the node      *)
(* between any two of them; and it outlives an increment because the one   *)
(* thread that has the node's lock stores one more than the count still    *)
(* is, of a slot it has marked before.                                     *)

\* The nodes the property is about.
Settled(n) ==
  nodeList[n].known /\ ~nodeList[n].lost /\ (reg = NoReg \/ reg.node # n)

\* The ports reported in use that were applied are marked.
AppliedAreTaken ==
  reg # NoReg =>
    \A p \in reg.flags \ reg.todo : nodeList[reg.node].slots[p] = "taken"

\* A node's lock keeps the others out.
LocksExclusive ==
  \A t, v \in Threads :
    InSlots(t) /\ InSlots(v) /\ job[t].node = job[v].node => t = v

\* What a thread has loaded is the count still, and its slot is marked already.
LoadedIsCount ==
  \A t \in Threads, n \in Nodes :
    pc[t] = "count" /\ job[t].node = n /\ Settled(n) =>
      /\ job[t].count = nodeList[n].used
      /\ job[t].count + 1 <= Cardinality(TakenSlots(n))

CountInv ==
  OvercountsOnlyOverLostSet /\ AppliedAreTaken /\ LocksExclusive /\ LoadedIsCount

\* A step that reserves nothing, and after which a thread that has a node's
\* lock had it before and has done nothing with it.
LEMMA QuietCounts ==
  ASSUME CountInv, UNCHANGED <<nodeList, reg>>,
         \A t \in Threads : InSlots(t)' => pc'[t] = pc[t] /\ job'[t] = job[t]
  PROVE  CountInv'
<1>1. OvercountsOnlyOverLostSet' /\ AppliedAreTaken'
  BY DEF CountInv, OvercountsOnlyOverLostSet, AppliedAreTaken, TakenSlots
<1>2. LocksExclusive'
  BY DEF CountInv, LocksExclusive, InSlots
<1>3. LoadedIsCount'
  <2> SUFFICES ASSUME NEW t \in Threads, NEW n \in Nodes, pc'[t] = "count",
                      job'[t].node = n, Settled(n)'
               PROVE  /\ job'[t].count = nodeList'[n].used
                      /\ job'[t].count + 1 <= Cardinality(TakenSlots(n)')
    BY DEF LoadedIsCount
  <2>1. pc[t] = "count" /\ job'[t] = job[t] /\ Settled(n)
    BY DEF InSlots, Settled
  <2>. QED BY <2>1 DEF CountInv, LoadedIsCount, TakenSlots
<1>. QED BY <1>1, <1>2, <1>3 DEF CountInv

\* One thread moves, and not into a node's lock.
LEMMA OutsideCounts ==
  ASSUME FrontInv, CountInv, UNCHANGED <<nodeList, reg>>, NEW t \in Threads,
         NEW l, l \notin {"mark", "count"}, NEW j,
         pc' = [pc EXCEPT ![t] = l], job' = [job EXCEPT ![t] = j]
  PROVE  CountInv'
<1>1. \A v \in Threads : InSlots(v)' => pc'[v] = pc[v] /\ job'[v] = job[v]
  BY DEF FrontInv, TrackerType, InSlots
<1>. QED BY <1>1, QuietCounts

LEMMA TryAgainCounts ==
  ASSUME FrontInv, CountInv, UNCHANGED <<nodeList, reg>>, NEW t \in Threads, TryAgain(t)
  PROVE  CountInv'
<1> DEFINE j == [job[t] EXCEPT !.node = NoNode]
<1>1. pc' = [pc EXCEPT ![t] = "find"] /\ job' = [job EXCEPT ![t] = j]
  BY DEF TryAgain, Goto
<1> HIDE DEF j
<1>. QED BY <1>1, OutsideCounts

\* A thread takes the lock only where nobody has it.
LEMMA CheckSlotsCounts ==
  ASSUME FrontInv, CountInv, NEW t \in Threads, CheckSlots(t)
  PROVE  CountInv'
<1>1. UNCHANGED <<nodeList, reg>> /\ ~NodeLocked(job[t].node)
  BY DEF CheckSlots
<1>2. CASE TryAgain(t)
  BY <1>1, <1>2, TryAgainCounts
<1>3. CASE pc' = [pc EXCEPT ![t] = "mark"] /\ UNCHANGED job
  <2>1. \A v \in Threads : v # t => pc'[v] = pc[v]
    BY <1>3 DEF FrontInv, TrackerType
  <2>2. pc'[t] = "mark"
    BY <1>3 DEF FrontInv, TrackerType
  <2>3. LocksExclusive'
    BY <1>1, <1>3, <2>1, <2>2 DEF CountInv, LocksExclusive, InSlots, NodeLocked
  <2>4. OvercountsOnlyOverLostSet' /\ AppliedAreTaken'
    BY <1>1 DEF CountInv, OvercountsOnlyOverLostSet, AppliedAreTaken, TakenSlots
  <2>5. LoadedIsCount'
    <3> SUFFICES ASSUME NEW v \in Threads, NEW n \in Nodes, pc'[v] = "count",
                        job[v].node = n, Settled(n)'
                 PROVE  /\ job[v].count = nodeList'[n].used
                        /\ job[v].count + 1 <= Cardinality(TakenSlots(n)')
      BY <1>3 DEF LoadedIsCount
    <3>1. pc[v] = "count" /\ Settled(n)
      BY <1>1, <2>1, <2>2 DEF Settled
    <3>. QED BY <1>1, <3>1 DEF CountInv, LoadedIsCount, TakenSlots
  <2>. QED BY <2>3, <2>4, <2>5 DEF CountInv
<1>. QED BY <1>2, <1>3 DEF CheckSlots, Goto

\* A free slot that is taken is one more.
LEMMA TakeCounts ==
  ASSUME FrontInv, NEW n \in Nodes, NEW p \in FreeSlots(n), Take(n, p)
  PROVE  /\ \A m \in Nodes : m # n => nodeList'[m] = nodeList[m]
         /\ nodeList'[n].known = nodeList[n].known
         /\ nodeList'[n].used = nodeList[n].used
         /\ nodeList'[n].lost = nodeList[n].lost
         /\ TakenSlots(n)' = TakenSlots(n) \cup {p}
         /\ Cardinality(TakenSlots(n)) \in Nat
         /\ Cardinality(TakenSlots(n)') = Cardinality(TakenSlots(n)) + 1
<1>1. TrackerType /\ p \in Ports /\ nodeList[n].slots[p] = "free"
  BY DEF FrontInv, FreeSlots
<1>2. nodeList[n] \in VisNode /\ nodeList'[n] \in VisNode
  BY <1>1, TakeType DEF TrackerType
<1>3. \A m \in Nodes : m # n => nodeList'[m] = nodeList[m]
  BY <1>1 DEF TrackerType, Take
<1>4. /\ nodeList'[n].known = nodeList[n].known
      /\ nodeList'[n].used = nodeList[n].used
      /\ nodeList'[n].lost = nodeList[n].lost
      /\ nodeList'[n].slots = [nodeList[n].slots EXCEPT ![p] = "taken"]
  BY <1>1, <1>2 DEF TrackerType, Take, VisNode
<1>5. TakenSlots(n)' = TakenSlots(n) \cup {p} /\ p \notin TakenSlots(n)
  BY <1>1, <1>2, <1>4 DEF TakenSlots, VisNode
<1>6. IsFiniteSet(TakenSlots(n)) /\ Cardinality(TakenSlots(n)) \in Nat
  BY PortsCount, FS_CardinalityType DEF TakenSlots
<1>7. Cardinality(TakenSlots(n)') = Cardinality(TakenSlots(n)) + 1
  BY <1>5, <1>6, FS_AddElement
<1>. QED BY <1>3, <1>4, <1>5, <1>6, <1>7

\* The slot is marked before the count is raised: the count lags behind.
LEMMA MarkedCounts ==
  ASSUME FrontInv, CountInv, NEW t \in Threads, pc[t] = "mark", UNCHANGED reg,
         NEW n \in Nodes, n = job[t].node, NEW p \in FreeSlots(n), Take(n, p),
         job' = [job EXCEPT ![t].port = p, ![t].count = nodeList[n].used],
         pc' = [pc EXCEPT ![t] = "count"]
  PROVE  CountInv'
<1>1. TrackerType /\ job[t] \in Job /\ nodeList[n] \in VisNode /\ p \in Ports
  BY DEF FrontInv, TrackerType, CreatesLocked, FreeSlots
<1>2. /\ pc'[t] = "count" /\ job'[t].node = n /\ job'[t].count = nodeList[n].used
      /\ \A v \in Threads : v # t => pc'[v] = pc[v] /\ job'[v] = job[v]
  BY <1>1 DEF TrackerType, Job
<1>3. \A m \in Nodes : Settled(m)' = Settled(m)
  BY TakeCounts DEF Settled
<1>4. PICK u \in Nat : u = nodeList[n].used
  BY <1>1, WordAssumption DEF VisNode
<1>5. PICK c \in Nat : c = Cardinality(TakenSlots(n))
  BY TakeCounts
<1>6. Cardinality(TakenSlots(n)') = c + 1 /\ nodeList'[n].used = u
  BY <1>4, <1>5, TakeCounts
<1>7. Settled(n) => u <= c
  BY <1>4, <1>5 DEF CountInv, OvercountsOnlyOverLostSet, Settled
<1>8. \A m \in Nodes : m # n => /\ nodeList'[m] = nodeList[m]
                               /\ TakenSlots(m)' = TakenSlots(m)
  BY TakeCounts DEF TakenSlots
<1>9. OvercountsOnlyOverLostSet'
  <2> SUFFICES ASSUME NEW m \in Nodes, Settled(m)'
               PROVE  nodeList'[m].used <= Cardinality(TakenSlots(m)')
    BY DEF OvercountsOnlyOverLostSet, Settled
  <2>1. CASE m # n
    BY <1>3, <1>8, <2>1 DEF CountInv, OvercountsOnlyOverLostSet, Settled
  <2>2. CASE m = n
    <3>1. u <= c + 1
      BY <1>3, <1>7, <2>2
    <3>. QED BY <1>6, <2>2, <3>1
  <2>. QED BY <2>1, <2>2
<1>10. AppliedAreTaken'
  <2> SUFFICES ASSUME reg # NoReg, NEW q \in reg.flags \ reg.todo
               PROVE  nodeList'[reg.node].slots[q] = "taken"
    BY DEF AppliedAreTaken
  <2>1. nodeList[reg.node].slots[q] = "taken"
    BY DEF CountInv, AppliedAreTaken
  <2>2. reg.node \in Nodes /\ q \in Ports
    BY <1>1 DEF TrackerType, Registration
  <2>3. q \in TakenSlots(reg.node)
    BY <2>1, <2>2 DEF TakenSlots
  <2>4. q \in TakenSlots(reg.node)'
    BY <1>8, <2>2, <2>3, TakeCounts
  <2>. QED BY <2>4 DEF TakenSlots
<1>11. LocksExclusive'
  <2>1. \A v \in Threads : job'[v].node = job[v].node
    BY <1>2
  <2>2. \A v \in Threads : InSlots(v)' => InSlots(v)
    BY <1>2 DEF InSlots
  <2>. QED BY <2>1, <2>2 DEF CountInv, LocksExclusive
<1>12. LoadedIsCount'
  <2> SUFFICES ASSUME NEW v \in Threads, NEW m \in Nodes, pc'[v] = "count",
                      job'[v].node = m, Settled(m)'
               PROVE  /\ job'[v].count = nodeList'[m].used
                      /\ job'[v].count + 1 <= Cardinality(TakenSlots(m)')
    BY DEF LoadedIsCount
  <2>1. CASE v = t
    <3>1. m = n /\ job'[v].count = u
      BY <1>2, <1>4, <2>1
    <3>2. u + 1 <= c + 1
      BY <1>3, <1>7, <3>1
    <3>. QED BY <1>6, <3>1, <3>2
  <2>2. CASE v # t
    <3>1. pc[v] = "count" /\ job'[v] = job[v]
      BY <1>2, <2>2
    <3>2. m # n
      BY <2>2, <3>1 DEF CountInv, LocksExclusive, InSlots
    <3>3. Settled(m)
      BY <1>3
    <3>. QED BY <1>8, <3>1, <3>2, <3>3 DEF CountInv, LoadedIsCount
  <2>. QED BY <2>1, <2>2
<1>. QED BY <1>9, <1>10, <1>11, <1>12 DEF CountInv

LEMMA MarkSlotCounts ==
  ASSUME FrontInv, CountInv, NEW t \in Threads, MarkSlot(t)
  PROVE  CountInv'
<1>1. pc[t] = "mark" /\ UNCHANGED reg /\ job[t].node \in Nodes
  BY DEF MarkSlot, FrontInv, CreatesLocked
<1>2. ASSUME NEW p \in FreeSlots(job[t].node), Take(job[t].node, p),
             job' = [job EXCEPT ![t].port = p, ![t].count = nodeList[job[t].node].used],
             pc' = [pc EXCEPT ![t] = "count"]
      PROVE  CountInv'
  BY <1>1, <1>2, MarkedCounts
<1>3. ASSUME TryAgain(t), UNCHANGED nodeList
      PROVE  CountInv'
  BY <1>1, <1>3, TryAgainCounts
<1>. QED BY <1>2, <1>3 DEF MarkSlot, Goto

\* What is stored is one more than the count, unless a set came in between.
LEMMA CountSlotCounts ==
  ASSUME FrontInv, CountInv, NEW t \in Threads, CountSlot(t)
  PROVE  CountInv'
<1>1. /\ pc[t] = "count"
      /\ nodeList' = [nodeList EXCEPT ![job[t].node].used = (job[t].count + 1) % Word]
      /\ job' = [job EXCEPT ![t].count = 0]
      /\ pc' = [pc EXCEPT ![t] = "insert"]
      /\ UNCHANGED reg
  BY DEF CountSlot, Goto
<1>2. PICK n \in Nodes : n = job[t].node
  BY <1>1 DEF FrontInv, CreatesLocked
<1>3. job[t] \in Job /\ nodeList[n] \in VisNode
  BY <1>1 DEF FrontInv, CreatesLocked, TrackerType
<1>4. PICK c \in Nat : c = job[t].count
  BY <1>3, WordAssumption DEF Job
<1>5. /\ nodeList'[n].known = nodeList[n].known
      /\ nodeList'[n].lost = nodeList[n].lost
      /\ nodeList'[n].slots = nodeList[n].slots
      /\ nodeList'[n].used = (c + 1) % Word
      /\ \A m \in Nodes : m # n => nodeList'[m] = nodeList[m]
  BY <1>1, <1>2, <1>3, <1>4 DEF FrontInv, TrackerType, VisNode
<1>6. \A m \in Nodes : /\ Settled(m)' = Settled(m)
                       /\ TakenSlots(m)' = TakenSlots(m)
                       /\ nodeList'[m].slots = nodeList[m].slots
  BY <1>1, <1>5 DEF Settled, TakenSlots
<1>7. (c + 1) % Word \in Nat /\ (c + 1) % Word <= c + 1
  BY ModWord, WordAssumption
<1>8. PICK k \in Nat : k = Cardinality(TakenSlots(n))
  BY PortsCount, FS_CardinalityType DEF TakenSlots
<1>9. Settled(n) => c + 1 <= k
  BY <1>1, <1>2, <1>4, <1>8 DEF CountInv, LoadedIsCount
<1>10. OvercountsOnlyOverLostSet'
  <2> SUFFICES ASSUME NEW m \in Nodes, Settled(m)'
               PROVE  nodeList'[m].used <= Cardinality(TakenSlots(m)')
    BY DEF OvercountsOnlyOverLostSet, Settled
  <2>1. CASE m # n
    BY <1>5, <1>6, <2>1 DEF CountInv, OvercountsOnlyOverLostSet, Settled
  <2>2. CASE m = n
    <3>1. (c + 1) % Word <= k
      BY <1>6, <1>7, <1>9, <2>2
    <3>. QED BY <1>5, <1>6, <1>8, <2>2, <3>1
  <2>. QED BY <2>1, <2>2
<1>11. AppliedAreTaken'
  <2>1. reg # NoReg => reg.node \in Nodes
    BY DEF FrontInv, TrackerType, Registration
  <2>. QED BY <1>1, <1>6, <2>1 DEF CountInv, AppliedAreTaken
<1>12. /\ pc'[t] = "insert"
       /\ \A v \in Threads : v # t => pc'[v] = pc[v] /\ job'[v] = job[v]
  BY <1>1 DEF FrontInv, TrackerType
<1>13. LocksExclusive'
  BY <1>12 DEF CountInv, LocksExclusive, InSlots
<1>14. LoadedIsCount'
  <2> SUFFICES ASSUME NEW v \in Threads, NEW m \in Nodes, pc'[v] = "count",
                      job'[v].node = m, Settled(m)'
               PROVE  /\ job'[v].count = nodeList'[m].used
                      /\ job'[v].count + 1 <= Cardinality(TakenSlots(m)')
    BY DEF LoadedIsCount
  <2>1. v # t /\ pc[v] = "count" /\ job'[v] = job[v]
    BY <1>12
  <2>2. m # n
    BY <1>1, <1>2, <2>1 DEF CountInv, LocksExclusive, InSlots
  <2>. QED BY <1>5, <1>6, <2>1, <2>2 DEF CountInv, LoadedIsCount
<1>. QED BY <1>10, <1>11, <1>13, <1>14 DEF CountInv

-----------------------------------------------------------------------------
(* The selector's steps move no thread.                                     *)

\* What is applied to one node changes the counts of no other node, and the
\* property asks nothing of that one while a registration is applied to it.
LEMMA ApplyOthersCount ==
  ASSUME FrontInv, CountInv, UNCHANGED <<pc, job>>, NEW n \in Nodes,
         reg = NoReg \/ reg.node = n, reg' # NoReg, reg'.node = n,
         \A m \in Nodes : m # n => nodeList'[m] = nodeList[m]
  PROVE  OvercountsOnlyOverLostSet' /\ LocksExclusive' /\ LoadedIsCount'
<1>1. \A m \in Nodes : Settled(m)' => /\ Settled(m) /\ nodeList'[m] = nodeList[m]
                                      /\ TakenSlots(m)' = TakenSlots(m)
  BY DEF Settled, TakenSlots
<1>2. OvercountsOnlyOverLostSet'
  <2> SUFFICES ASSUME NEW m \in Nodes, Settled(m)'
               PROVE  nodeList'[m].used <= Cardinality(TakenSlots(m)')
    BY DEF OvercountsOnlyOverLostSet, Settled
  <2>. QED BY <1>1 DEF CountInv, OvercountsOnlyOverLostSet, Settled
<1>3. LocksExclusive'
  BY DEF CountInv, LocksExclusive, InSlots
<1>4. LoadedIsCount'
  <2> SUFFICES ASSUME NEW v \in Threads, NEW m \in Nodes, pc[v] = "count",
                      job[v].node = m, Settled(m)'
               PROVE  /\ job[v].count = nodeList'[m].used
                      /\ job[v].count + 1 <= Cardinality(TakenSlots(m)')
    BY DEF LoadedIsCount
  <2>. QED BY <1>1 DEF CountInv, LoadedIsCount
<1>. QED BY <1>2, <1>3, <1>4

LEMMA RegisterNodeCounts ==
  ASSUME FrontInv, CountInv, NEW l \in Links, NEW j, NEW r, RegisterNode(l, j, r)
  PROVE  CountInv'
<1>1. /\ reg = NoReg /\ r.type = "info"
      /\ FrontendReads(l, j, r)
      /\ reg' = [node |-> l[1], step |-> "total", todo |-> Ports, flags |-> r.used]
      /\ \A m \in Nodes : m # l[1] => nodeList'[m] = nodeList[m]
      /\ UNCHANGED <<pc, job>>
  BY DEF RegisterNode, FrontInv, TrackerType
<1>2. r.used \subseteq Ports
  BY <1>1, FrontendReadsType, InfoFlagsType DEF FrontInv
<1>3. reg' # NoReg
  <2>1. reg' \in Registration
    BY <1>1, <1>2 DEF Registration, Links
  <2>. QED BY <2>1, NothingAssumption
<1>4. AppliedAreTaken'
  BY <1>1, <1>2 DEF AppliedAreTaken
<1>5. OvercountsOnlyOverLostSet' /\ LocksExclusive' /\ LoadedIsCount'
  <2>1. l[1] \in Nodes /\ reg'.node = l[1]
    BY <1>1 DEF Links
  <2>. QED BY <1>1, <1>3, <2>1, ApplyOthersCount
<1>. QED BY <1>4, <1>5 DEF CountInv

LEMMA SetTotalSlotsCounts ==
  ASSUME FrontInv, CountInv, SetTotalSlots
  PROVE  CountInv'
<1>1. TrackerType /\ reg \in Registration /\ reg.node \in Nodes
  BY DEF FrontInv, TrackerType, SetTotalSlots, Registration
<1>2. /\ reg # NoReg /\ reg' = [reg EXCEPT !.step = "ports"]
      /\ nodeList' = [nodeList EXCEPT ![reg.node].total = Cardinality(Ports)]
      /\ UNCHANGED <<pc, job>>
  BY DEF SetTotalSlots
<1>3. reg' \in Registration /\ reg'.node = reg.node /\ reg'.flags = reg.flags
      /\ reg'.todo = reg.todo
  BY <1>1, <1>2 DEF Registration
<1>4. \A m \in Nodes : /\ m # reg.node => nodeList'[m] = nodeList[m]
                       /\ nodeList'[m].slots = nodeList[m].slots
  BY <1>1, <1>2 DEF TrackerType, VisNode
<1>5. OvercountsOnlyOverLostSet' /\ LocksExclusive' /\ LoadedIsCount'
  BY <1>1, <1>2, <1>3, <1>4, ApplyOthersCount, NothingAssumption
<1>6. AppliedAreTaken'
  BY <1>1, <1>2, <1>3, <1>4 DEF CountInv, AppliedAreTaken
<1>. QED BY <1>5, <1>6 DEF CountInv

LEMMA AddAvailablePortCounts ==
  ASSUME FrontInv, CountInv, NEW p \in Ports, AddAvailablePort(p)
  PROVE  CountInv'
<1> DEFINE x == IF p \in reg.flags THEN "taken" ELSE "free"
<1>1. TrackerType /\ reg \in Registration /\ reg.node \in Nodes /\ reg.flags \subseteq Ports
  BY DEF FrontInv, TrackerType, AddAvailablePort, Registration
<1>2. /\ reg # NoReg /\ reg' = [reg EXCEPT !.todo = @ \ {p}]
      /\ nodeList' = [nodeList EXCEPT ![reg.node].slots[p] = x]
      /\ UNCHANGED <<pc, job>>
  BY DEF AddAvailablePort
<1>3. reg' \in Registration /\ reg'.node = reg.node /\ reg'.flags = reg.flags
      /\ reg'.todo = reg.todo \ {p}
  BY <1>1, <1>2 DEF Registration
<1>4. /\ \A m \in Nodes : m # reg.node => nodeList'[m] = nodeList[m]
      /\ nodeList[reg.node] \in VisNode
      /\ nodeList'[reg.node].slots = [nodeList[reg.node].slots EXCEPT ![p] = x]
  BY <1>1, <1>2 DEF TrackerType, VisNode
<1>5. OvercountsOnlyOverLostSet' /\ LocksExclusive' /\ LoadedIsCount'
  BY <1>1, <1>2, <1>3, <1>4, ApplyOthersCount, NothingAssumption
<1>6. AppliedAreTaken'
  <2> SUFFICES ASSUME NEW q \in reg'.flags \ reg'.todo
               PROVE  nodeList'[reg'.node].slots[q] = "taken"
    BY DEF AppliedAreTaken
  <2>1. q \in reg.flags /\ q \in Ports /\ (q = p \/ q \in reg.flags \ reg.todo)
    BY <1>1, <1>3
  <2>2. q # p => nodeList[reg.node].slots[q] = "taken"
    BY <1>2, <2>1 DEF CountInv, AppliedAreTaken
  <2>. QED BY <1>3, <1>4, <2>1, <2>2 DEF VisNode
<1>. QED BY <1>5, <1>6 DEF CountInv

\* With the last step of a registration the node is settled, unless a thread
\* has loaded its count; then that thread overwrites the set.
LEMMA SetUsedSlotsCounts ==
  ASSUME FrontInv, CountInv, SetUsedSlots
  PROVE  CountInv'
<1>1. TrackerType /\ reg \in Registration
  BY DEF FrontInv, TrackerType, SetUsedSlots
<1>2. PICK n \in Nodes : n = reg.node
  BY <1>1 DEF Registration
<1>3. /\ reg # NoReg /\ reg.todo = {} /\ reg' = NoReg /\ reg.flags \subseteq Ports
      /\ nodeList' = [nodeList EXCEPT ![n].used = Cardinality(reg.flags),
                                      ![n].lost = Counting(n)]
      /\ UNCHANGED <<pc, job>>
  BY <1>1, <1>2 DEF SetUsedSlots, Registration
<1>4. nodeList[n] \in VisNode
  BY <1>1 DEF TrackerType
<1>5. /\ \A m \in Nodes : m # n => nodeList'[m] = nodeList[m]
      /\ nodeList'[n].slots = nodeList[n].slots
      /\ nodeList'[n].used = Cardinality(reg.flags)
      /\ nodeList'[n].lost = Counting(n)
  BY <1>1, <1>3, <1>4 DEF TrackerType, VisNode
<1>6. \A m \in Nodes : m # n /\ Settled(m)' =>
        Settled(m) /\ nodeList'[m] = nodeList[m] /\ TakenSlots(m)' = TakenSlots(m)
  BY <1>2, <1>5 DEF Settled, TakenSlots
<1>7. reg.flags \subseteq TakenSlots(n)'
  BY <1>2, <1>3, <1>5 DEF CountInv, AppliedAreTaken, TakenSlots
<1>8. Cardinality(reg.flags) <= Cardinality(TakenSlots(n)')
  <2>1. IsFiniteSet(TakenSlots(n)')
    BY PortsCount DEF TakenSlots
  <2>. QED BY <1>7, <2>1, FS_Subset
<1>9. OvercountsOnlyOverLostSet'
  <2> SUFFICES ASSUME NEW m \in Nodes, Settled(m)'
               PROVE  nodeList'[m].used <= Cardinality(TakenSlots(m)')
    BY DEF OvercountsOnlyOverLostSet, Settled
  <2>1. CASE m # n
    BY <1>6, <2>1 DEF CountInv, OvercountsOnlyOverLostSet, Settled
  <2>2. CASE m = n
    BY <1>5, <1>8, <2>2
  <2>. QED BY <2>1, <2>2
<1>10. LoadedIsCount'
  <2> SUFFICES ASSUME NEW v \in Threads, NEW m \in Nodes, pc[v] = "count",
                      job[v].node = m, Settled(m)'
               PROVE  /\ job[v].count = nodeList'[m].used
                      /\ job[v].count + 1 <= Cardinality(TakenSlots(m)')
    BY <1>3 DEF LoadedIsCount
  <2>1. m # n
    BY <1>5 DEF Settled, Counting
  <2>. QED BY <1>6, <2>1 DEF CountInv, LoadedIsCount
<1>11. LocksExclusive'
  BY <1>3 DEF CountInv, LocksExclusive, InSlots
<1>. QED BY <1>3, <1>9, <1>10, <1>11 DEF CountInv, AppliedAreTaken

\* A thread of the HTTP server, at any of its steps.
LEMMA ThreadCounts ==
  ASSUME FrontInv, CountInv, NEW t \in Threads,
         \/ Creating(t) \/ SendClose(t)
         \/ \E a \in Addrs : \E s \in Names : DestroySession(t, a, s) \/ CreateSession(t, a, s)
  PROVE  CountInv'
<1>1. CASE CheckSlots(t) \/ MarkSlot(t) \/ CountSlot(t)
  BY <1>1, CheckSlotsCounts, MarkSlotCounts, CountSlotCounts
<1>2. CASE Return(t) /\ UNCHANGED <<nodeList, reg>>
  BY <1>2, OutsideCounts DEF Return, Goto
<1>3. ASSUME NEW n, job' = [job EXCEPT ![t].node = n], pc' = [pc EXCEPT ![t] = "reserve"],
             UNCHANGED <<nodeList, reg>>
      PROVE  CountInv'
  <2> DEFINE j == [job[t] EXCEPT !.node = n]
  <2>1. job' = [job EXCEPT ![t] = j]
    BY <1>3
  <2> HIDE DEF j
  <2>. QED BY <1>3, <2>1, OutsideCounts
<1>4. CASE FindNode(t)
  BY <1>2, <1>3, <1>4 DEF FindNode, Goto
<1>5. CASE InsertSession(t)
  <2>1. pc' = [pc EXCEPT ![t] = "send"] /\ UNCHANGED <<job, nodeList, reg>>
    BY <1>5 DEF InsertSession, Goto
  <2>2. job' = [job EXCEPT ![t] = job[t]]
    BY <2>1 DEF FrontInv, TrackerType
  <2>. QED BY <2>1, <2>2, OutsideCounts
<1>6. CASE SendStart(t) \/ SendClose(t)
  BY <1>2, <1>6 DEF SendStart, SendClose
<1>7. ASSUME NEW a \in Addrs, NEW s \in Names, CreateSession(t, a, s)
      PROVE  CountInv'
  BY <1>7, OutsideCounts DEF CreateSession, Goto
<1>8. ASSUME NEW a \in Addrs, NEW s \in Names, DestroySession(t, a, s)
      PROVE  CountInv'
  BY <1>8, OutsideCounts DEF DestroySession, TryFinishSession, Goto
<1>. QED BY <1>1, <1>4, <1>5, <1>6, <1>7, <1>8 DEF Creating

\* The count of used slots, which the frontend keeps apart from the slots and
\* which a registration sets without the lock that a reservation increments it
\* under, exceeds the slots in use only during a registration of the node, or
\* after an increment has overwritten what the registration set.
THEOREM OvercountsOnlyOverLostSetCorrect == Spec => []OvercountsOnlyOverLostSet
<1>1. Init => CountInv
  <2> SUFFICES ASSUME Init
               PROVE  CountInv
    OBVIOUS
  <2>1. \A n \in Nodes : ~nodeList[n].known
    BY DEF Init, FrontInit
  <2>. QED BY <2>1 DEF Init, FrontInit, CountInv, OvercountsOnlyOverLostSet,
          AppliedAreTaken, LocksExclusive, LoadedIsCount, InSlots
<1>2. ASSUME FrontInv, CountInv, [Next]_vars
      PROVE  CountInv'
  <2>1. CASE UNCHANGED <<nodeList, reg, pc, job>>
    BY <1>2, <2>1, QuietCounts
  <2>2. ASSUME NEW t \in Threads, Creating(t) \/ SendClose(t)
        PROVE  CountInv'
    BY <1>2, <2>2, ThreadCounts
  <2>3. CASE ApplyNodeInfo
    BY <1>2, <2>3, SetTotalSlotsCounts, SetUsedSlotsCounts, AddAvailablePortCounts
       DEF ApplyNodeInfo
  <2>4. ASSUME NEW l \in Links, NEW j, NEW r, RegisterNode(l, j, r)
        PROVE  CountInv'
    BY <1>2, <2>4, RegisterNodeCounts
  <2>5. ASSUME NEW t \in Threads, NEW a \in Addrs, NEW s \in Names,
               DestroySession(t, a, s) \/ CreateSession(t, a, s)
        PROVE  CountInv'
    BY <1>2, <2>5, ThreadCounts
  <2>6. CASE FrontNext
    BY <2>1, <2>2, <2>3, <2>4, <2>5, <2>6 DEF FrontNext, LogIn, DeliverReply,
       TakeTask, RunStarted, RunClosed
  <2>7. CASE UNCHANGED frontVars
    BY <2>1, <2>7 DEF frontVars
  <2>. QED BY <1>2, <2>6, <2>7 DEF Next, vars
<1>3. CountInv => OvercountsOnlyOverLostSet
  BY DEF CountInv
<1>. QED BY <1>1, <1>2, <1>3, FrontInvariant, PTL DEF Spec

-----------------------------------------------------------------------------
(* The duplicate-name check.                                               *)
(*                                                                         *)
(* tryCreateSession looks a name up under the lock of a client address,    *)
(* while sessions are kept by user.  The lock makes the check hold until   *)
(* the insertion if, and only as long as, a user is an address.            *)

OneUserEach == \A l, m \in Logins : l[1] = m[1] <=> l[2] = m[2]

LogInsAccepted ==
  \A a \in Addrs : loggedIn[a] # NoUser => <<a, loggedIn[a]>> \in Logins

DuplicateInv == LogInsAccepted /\ DuplicateCheckHolds

\* A step that adds no session, and by which no thread enters tryCreateSession
\* or gets another job there.
NothingInserted ==
  /\ UNCHANGED loggedIn
  /\ \A k \in Keys : openSessions[k] = NoEntry => openSessions'[k] = NoEntry
  /\ \A t \in Threads :
       pc'[t] \in Checked =>
         /\ pc[t] \in Checked
         /\ job'[t].addr = job[t].addr /\ job'[t].name = job[t].name

LEMMA NothingInsertedKeeps ==
  ASSUME FrontInv, DuplicateInv, NothingInserted
  PROVE  DuplicateInv'
<1>1. \A t \in Threads : pc[t] \in Checked =>
        KeyOf(job[t].addr, job[t].name) \in Keys
  BY JobKeyType DEF Checked
<1>. QED BY <1>1 DEF DuplicateInv, LogInsAccepted, DuplicateCheckHolds, NothingInserted, KeyOf

\* A login renames nobody.
LEMMA LogInDuplicate ==
  ASSUME OneUserEach, FrontInv, DuplicateInv, NEW a \in Addrs, NEW u \in Users, LogIn(a, u)
  PROVE  DuplicateInv'
<1>1. /\ <<a, u>> \in Logins /\ loggedIn' = [loggedIn EXCEPT ![a] = u]
      /\ UNCHANGED <<openSessions, pc, job>>
  BY DEF LogIn, TryAuthUser
<1>2. \A b \in Addrs : loggedIn[b] # NoUser => loggedIn'[b] = loggedIn[b]
  BY <1>1 DEF FrontInv, TrackerType, DuplicateInv, LogInsAccepted, OneUserEach
<1>3. LogInsAccepted'
  BY <1>1 DEF FrontInv, TrackerType, DuplicateInv, LogInsAccepted
<1>4. DuplicateCheckHolds'
  <2> SUFFICES ASSUME NEW t \in Threads, pc[t] \in Checked
               PROVE  loggedIn'[job[t].addr] = loggedIn[job[t].addr]
    BY <1>1 DEF DuplicateInv, DuplicateCheckHolds, KeyOf
  <2>1. job[t].addr \in Addrs /\ loggedIn[job[t].addr] # NoUser
    BY DEF FrontInv, CreatesLocked, Job, Checked
  <2>. QED BY <1>2, <2>1
<1>. QED BY <1>3, <1>4 DEF DuplicateInv

LEMMA CreateSessionDuplicate ==
  ASSUME FrontInv, DuplicateInv, NEW t \in Threads, NEW a \in Addrs, NEW s \in Names,
         CreateSession(t, a, s)
  PROVE  DuplicateInv'
<1>1. /\ openSessions[KeyOf(a, s)] = NoEntry
      /\ job' = [job EXCEPT ![t] = [addr |-> a, name |-> s, node |-> NoNode,
                                    port |-> NoPort, count |-> 0]]
      /\ pc' = [pc EXCEPT ![t] = "find"]
      /\ UNCHANGED <<loggedIn, openSessions>>
  BY DEF CreateSession, Goto
<1>2. DuplicateCheckHolds'
  <2> SUFFICES ASSUME NEW v \in Threads, pc'[v] \in Checked
               PROVE  openSessions[<<loggedIn[job'[v].addr], job'[v].name>>] = NoEntry
    BY <1>1 DEF DuplicateCheckHolds, KeyOf
  <2>1. CASE v = t
    BY <1>1, <2>1 DEF FrontInv, TrackerType, KeyOf
  <2>2. CASE v # t
    <3>1. pc'[v] = pc[v] /\ job'[v] = job[v]
      BY <1>1, <2>2 DEF FrontInv, TrackerType
    <3>. QED BY <3>1 DEF DuplicateInv, DuplicateCheckHolds, KeyOf
  <2>. QED BY <2>1, <2>2
<1>. QED BY <1>1, <1>2 DEF DuplicateInv, LogInsAccepted

\* Two threads with one key have one address, and so one lock: they are one.
LEMMA InsertSessionDuplicate ==
  ASSUME OneUserEach, FrontInv, DuplicateInv, NEW t \in Threads, InsertSession(t)
  PROVE  DuplicateInv'
<1> DEFINE k == KeyOf(job[t].addr, job[t].name)
           e == [node |-> job[t].node, port |-> job[t].port, status |-> "creating"]
<1>1. /\ pc[t] = "insert" /\ pc' = [pc EXCEPT ![t] = "send"]
      /\ openSessions' = [openSessions EXCEPT ![k] = e]
      /\ UNCHANGED <<loggedIn, job>>
  BY DEF InsertSession, Goto
<1>2. job[t].addr \in Addrs /\ loggedIn[job[t].addr] # NoUser /\ userLock[job[t].addr] = t
  BY <1>1 DEF FrontInv, CreatesLocked, Job
<1>3. DuplicateCheckHolds'
  <2> SUFFICES ASSUME NEW v \in Threads, pc'[v] \in Checked
               PROVE  openSessions'[KeyOf(job[v].addr, job[v].name)] = NoEntry
    BY <1>1 DEF DuplicateCheckHolds, KeyOf
  <2>1. v # t /\ pc[v] \in Checked
    BY <1>1 DEF FrontInv, TrackerType, Checked
  <2>2. job[v].addr \in Addrs /\ loggedIn[job[v].addr] # NoUser /\ userLock[job[v].addr] = v
    BY <2>1 DEF FrontInv, CreatesLocked, Job, Checked
  <2>3. job[v].addr # job[t].addr
    BY <1>2, <2>1, <2>2
  <2>4. loggedIn[job[v].addr] # loggedIn[job[t].addr]
    BY <1>2, <2>2, <2>3 DEF DuplicateInv, LogInsAccepted, OneUserEach
  <2>5. KeyOf(job[v].addr, job[v].name) # k /\ KeyOf(job[v].addr, job[v].name) \in Keys
    BY <2>1, <2>4, JobKeyType DEF KeyOf, Checked
  <2> HIDE DEF k, e
  <2>. QED BY <1>1, <2>1, <2>5 DEF DuplicateInv, DuplicateCheckHolds, FrontInv, TrackerType
<1>. QED BY <1>1, <1>3 DEF DuplicateInv, LogInsAccepted

\* A session whose status changes was there before.
LEMMA StatusInsertsNothing ==
  ASSUME FrontInv, NEW k, openSessions[k] # NoEntry, NEW st,
         openSessions' = [openSessions EXCEPT ![k].status = st]
  PROVE  \A l \in Keys : openSessions[l] = NoEntry => openSessions'[l] = NoEntry
BY DEF FrontInv, TrackerType

LEMMA EraseInsertsNothing ==
  ASSUME FrontInv, NEW a, NEW s, Erase(a, s)
  PROVE  \A l \in Keys : openSessions[l] = NoEntry => openSessions'[l] = NoEntry
BY DEF FrontInv, TrackerType, Erase

LEMMA CreatingDuplicate ==
  ASSUME OneUserEach, FrontInv, DuplicateInv, NEW t \in Threads, Creating(t)
  PROVE  DuplicateInv'
<1>. USE DEF FrontInv
<1>1. CASE InsertSession(t)
  BY <1>1, InsertSessionDuplicate
<1>2. ASSUME pc[t] # "idle", Return(t), UNCHANGED <<loggedIn, openSessions>>
      PROVE  DuplicateInv'
  <2>1. NothingInserted
    BY <1>2 DEF NothingInserted, Return, Goto, TrackerType, Checked
  <2>. QED BY <2>1, NothingInsertedKeeps
<1>3. ASSUME pc[t] \in Checked, NEW l, pc' = [pc EXCEPT ![t] = l],
             NEW j, job' = [job EXCEPT ![t] = j],
             j.addr = job[t].addr, j.name = job[t].name,
             UNCHANGED <<loggedIn, openSessions>>
      PROVE  DuplicateInv'
  <2>1. NothingInserted
    BY <1>3 DEF NothingInserted, TrackerType
  <2>. QED BY <2>1, NothingInsertedKeeps
<1>4. ASSUME pc[t] \in Checked, NEW l, pc' = [pc EXCEPT ![t] = l],
             UNCHANGED <<loggedIn, openSessions>>,
             \/ UNCHANGED job
             \/ \E n : job' = [job EXCEPT ![t].node = n]
             \/ \E q, c : job' = [job EXCEPT ![t].port = q, ![t].count = c]
             \/ \E c : job' = [job EXCEPT ![t].count = c]
      PROVE  DuplicateInv'
  <2>1. job[t] \in Job
    BY <1>4 DEF CreatesLocked, Checked
  <2>2. job' = [job EXCEPT ![t] = job'[t]]
    BY <1>4 DEF TrackerType
  <2>3. job'[t].addr = job[t].addr /\ job'[t].name = job[t].name
    BY <1>4, <2>1 DEF TrackerType, Job
  <2>. QED BY <1>3, <1>4, <2>2, <2>3
<1>5. CASE FindNode(t) \/ CheckSlots(t) \/ MarkSlot(t) \/ CountSlot(t)
  BY <1>2, <1>4, <1>5 DEF FindNode, CheckSlots, MarkSlot, CountSlot, TryAgain, Goto, Checked
<1>6. CASE SendStart(t)
  BY <1>2, <1>6 DEF SendStart
<1>. QED BY <1>1, <1>5, <1>6 DEF Creating

\* A thread that closes a session is not between a check and an insertion.
LEMMA ClosingDuplicate ==
  ASSUME FrontInv, DuplicateInv, NEW t \in Threads,
         \/ SendClose(t)
         \/ \E a \in Addrs : \E s \in Names : DestroySession(t, a, s)
  PROVE  DuplicateInv'
<1>. USE DEF FrontInv
<1>1. ASSUME NEW l, l \notin Checked, NEW j, UNCHANGED loggedIn,
             pc' = [pc EXCEPT ![t] = l], job' = [job EXCEPT ![t] = j],
             \A k \in Keys : openSessions[k] = NoEntry => openSessions'[k] = NoEntry
      PROVE  DuplicateInv'
  <2>1. NothingInserted
    BY <1>1 DEF NothingInserted, TrackerType
  <2>. QED BY <2>1, NothingInsertedKeeps
<1>2. CASE SendClose(t)
  <2>1. pc[t] = "close" /\ Return(t) /\ UNCHANGED loggedIn
    BY <1>2 DEF SendClose
  <2>2. \A k \in Keys : openSessions[k] = NoEntry => openSessions'[k] = NoEntry
    BY <1>2, EraseInsertsNothing DEF SendClose
  <2>. QED BY <1>1, <2>1, <2>2 DEF Return, Goto, Checked
<1>3. ASSUME NEW a \in Addrs, NEW s \in Names, DestroySession(t, a, s)
      PROVE  DuplicateInv'
  <2>1. \A k \in Keys : openSessions[k] = NoEntry => openSessions'[k] = NoEntry
    BY <1>3, StatusInsertsNothing DEF DestroySession, TryFinishSession
  <2>. QED BY <1>1, <1>3, <2>1 DEF DestroySession, TryFinishSession, Goto, Checked
<1>. QED BY <1>2, <1>3

\* With one user at each address and one address for each user, no create
\* ever inserts a session over another one, however creates, closes, results
\* and logins interleave.
THEOREM DuplicateCheckCorrect == OneUserEach /\ Spec => []DuplicateCheckHolds
<1> SUFFICES ASSUME OneUserEach
             PROVE  Spec => []DuplicateCheckHolds
  OBVIOUS
<1>1. Init => DuplicateInv
  BY DEF Init, FrontInit, DuplicateInv, LogInsAccepted, DuplicateCheckHolds, Checked
<1>2. ASSUME FrontInv, DuplicateInv, [Next]_vars
      PROVE  DuplicateInv'
  <2>1. ASSUME UNCHANGED <<loggedIn, pc, job>>,
               \A k \in Keys : openSessions[k] = NoEntry => openSessions'[k] = NoEntry
        PROVE  DuplicateInv'
    BY <1>2, <2>1, NothingInsertedKeeps DEF NothingInserted
  <2>2. ASSUME NEW t \in Threads,
               \/ SendClose(t)
               \/ \E a \in Addrs : \E s \in Names : DestroySession(t, a, s)
        PROVE  DuplicateInv'
    BY <1>2, <2>2, ClosingDuplicate
  <2>3. ASSUME NEW w \in Workers, RunStarted(w) \/ RunClosed(w)
        PROVE  DuplicateInv'
    BY <1>2, <2>1, <2>3, StatusInsertsNothing, EraseInsertsNothing
       DEF RunStarted, RunClosed
  <2>4. CASE UNCHANGED <<loggedIn, pc, job, openSessions>>
    BY <2>1, <2>4
  <2>5. CASE FrontNext
    BY <1>2, <2>2, <2>3, <2>4, <2>5, LogInDuplicate, CreateSessionDuplicate, CreatingDuplicate
       DEF FrontNext, ApplyNodeInfo, SetTotalSlots, SetUsedSlots, AddAvailablePort,
           RegisterNode, DeliverReply, TakeTask
  <2>6. CASE UNCHANGED frontVars
    BY <2>4, <2>6 DEF frontVars
  <2>. QED BY <1>2, <2>5, <2>6 DEF Next, vars
<1>3. DuplicateInv => DuplicateCheckHolds
  BY DEF DuplicateInv
<1>. QED BY <1>1, <1>2, <1>3, FrontInvariant, PTL DEF Spec

-----------------------------------------------------------------------------
(* Exclusive slots.                                                        *)
(*                                                                         *)
(* Two sessions could be given one slot if a NodeInfo freed a slot that is *)
(* claimed.  A node that is started once sends one NodeInfo, before which  *)
(* none of its slots is known: nodes answer only what they are asked, and  *)
(* the frontend sends no RequestNodeInfo.                                  *)

NoInfo(q) == \A i \in 1..Len(q) : q[i].type # "info"
OneInfo(q) == \A i, j \in 1..Len(q) : q[i].type = "info" /\ q[j].type = "info" => i = j

\* Of the process of n: it is asked for no NodeInfo, at most the one of its
\* start is under way, and that one neither before nor once the node is known.
InfoOfStart(n) ==
  /\ \A i \in 1..Len(toNode[n]) : toNode[n][i].type # "nodeinfo"
  /\ OneInfo(toFrontend[<<n, 1>>])
  /\ nodeList[n].known \/ starts[n] = 0 => NoInfo(toFrontend[<<n, 1>>])
  /\ nodeList[n].known => starts[n] > 0

RegisteredOnce == \A n \in Nodes : InfoOfStart(n)

\* Slots appear when they are registered.
SlotsAppear ==
  /\ \A n \in Nodes : ~nodeList[n].known => \A p \in Ports : nodeList[n].slots[p] = "none"
  /\ reg # NoReg => nodeList[reg.node].known
  /\ reg # NoReg => \A p \in reg.todo : nodeList[reg.node].slots[p] = "none"

Claimed(k) == openSessions[k] # NoEntry
SlotOf(k) == <<openSessions[k].node, openSessions[k].port>>
Claiming(t) == pc[t] \in {"count", "insert"}
SlotFor(t) == <<job[t].node, job[t].port>>

\* Who claims a slot has it marked.
ClaimsMarked ==
  /\ \A k \in Keys : Claimed(k) =>
       nodeList[openSessions[k].node].slots[openSessions[k].port] = "taken"
  /\ \A t \in Threads : Claiming(t) =>
       nodeList[job[t].node].slots[job[t].port] = "taken"

ClaimsExclusive ==
  /\ \A k, l \in Keys : Claimed(k) /\ Claimed(l) /\ k # l => SlotOf(k) # SlotOf(l)
  /\ \A k \in Keys, t \in Threads : Claimed(k) /\ Claiming(t) => SlotOf(k) # SlotFor(t)
  /\ \A t, u \in Threads : Claiming(t) /\ Claiming(u) /\ t # u => SlotFor(t) # SlotFor(u)

SlotInv == SlotsAppear /\ ClaimsMarked /\ ClaimsExclusive

-----------------------------------------------------------------------------
(* One NodeInfo for each node.                                             *)

LEMMA AfterReadInfo ==
  ASSUME NEW q \in Seq(Replies), NEW j \in 1..Len(q), OneInfo(q)
  PROVE  /\ OneInfo(AfterRead(q, j))
         /\ NoInfo(q) \/ Head(q).type = "info" => NoInfo(AfterRead(q, j))
<1> DEFINE r == AfterRead(q, j)
<1>1. /\ Len(q) \in Nat /\ j \in Nat /\ j >= 1 /\ j <= Len(q)
      /\ \A i \in 1..Len(r) : j + i \in 1..Len(q) /\ j + i # 1 /\ r[i] = q[j + i]
      /\ Len(r) \in Nat
  BY AfterReadElements
<1> HIDE DEF r
<1>2. OneInfo(r)
  <2> SUFFICES ASSUME NEW i \in 1..Len(r), NEW k \in 1..Len(r),
                      r[i].type = "info", r[k].type = "info"
               PROVE  i = k
    BY DEF OneInfo
  <2>1. j + i = j + k
    BY <1>1 DEF OneInfo
  <2>. QED BY <1>1, <2>1
<1>3. NoInfo(q) => NoInfo(r)
  BY <1>1 DEF NoInfo
<1>4. ASSUME Head(q).type = "info"
      PROVE  NoInfo(r)
  <2>1. Head(q) = q[1] /\ 1 \in 1..Len(q)
    BY <1>1
  <2> SUFFICES ASSUME NEW i \in 1..Len(r), r[i].type = "info"
               PROVE  FALSE
    BY DEF NoInfo
  <2>2. j + i = 1
    BY <1>1, <1>4, <2>1 DEF OneInfo
  <2>. QED BY <1>1, <2>2
<1>. QED BY <1>2, <1>3, <1>4 DEF r

LEMMA PrefixInfo ==
  ASSUME NEW q \in Seq(Replies), NEW j \in 0..Len(q), OneInfo(q)
  PROVE  OneInfo(SubSeq(q, 1, j)) /\ (NoInfo(q) => NoInfo(SubSeq(q, 1, j)))
<1> DEFINE r == SubSeq(q, 1, j)
<1>1. Len(q) \in Nat /\ j \in Nat /\ j <= Len(q)
  BY LenProperties
<1>2. \A i \in 1..j : q[i] \in Replies
  BY <1>1, ElementOfSeq
<1>3. /\ Len(r) = j
      /\ \A i \in 1..Len(r) : r[i] = q[i]
  <2>1. /\ Len(r) = IF 1 <= j THEN j - 1 + 1 ELSE 0
        /\ \A i \in 1..(j - 1 + 1) : r[i] = q[1 + i - 1]
    BY <1>1, <1>2, SubSeqProperties
  <2>. QED BY <1>1, <2>1
<1> HIDE DEF r
<1>4. OneInfo(r) /\ (NoInfo(q) => NoInfo(r))
  BY <1>1, <1>3 DEF OneInfo, NoInfo
<1>. QED BY <1>4 DEF r

LEMMA AppendInfo ==
  ASSUME NEW q \in Seq(Replies), NEW r \in Replies, r.type # "info", OneInfo(q)
  PROVE  OneInfo(Append(q, r)) /\ (NoInfo(q) => NoInfo(Append(q, r)))
<1>1. /\ Len(q) \in Nat /\ Len(Append(q, r)) = Len(q) + 1
      /\ \A i \in 1..(Len(q) + 1) : Append(q, r)[i] = IF i = Len(q) + 1 THEN r ELSE q[i]
  BY LenProperties, AppendProperties
<1>. QED BY <1>1 DEF OneInfo, NoInfo

\* The requests under way name no NodeInfo: reading and losing some keeps this.
LEMMA AfterReadRequests ==
  ASSUME NEW q \in Seq(Requests), NEW j \in 1..Len(q),
         \A i \in 1..Len(q) : q[i].type # "nodeinfo"
  PROVE  \A i \in 1..Len(AfterRead(q, j)) : AfterRead(q, j)[i].type # "nodeinfo"
BY AfterReadElements

\* With one start, every node has one connection.
LEMMA OneLink ==
  ASSUME MaxStarts = 1
  PROVE  Links = {<<n, 1>> : n \in Nodes}
<1>1. 1..MaxStarts = {1}
  BY SMT
<1>. QED BY <1>1 DEF Links

LEMMA StartsOnce ==
  ASSUME MaxStarts = 1, LinkTypeOK, NEW n \in Nodes
  PROVE  /\ starts[n] \in {0, 1}
         /\ <<n, 1>> \in Links /\ toFrontend[<<n, 1>>] \in Seq(Replies)
         /\ toNode[n] \in Seq(Requests)
<1>1. starts[n] \in 0..1
  BY DEF LinkTypeOK
<1>. QED BY <1>1, OneLink DEF LinkTypeOK

\* What a step does not touch of n.
LEMMA InfoUntouched ==
  ASSUME NEW n, InfoOfStart(n), toNode'[n] = toNode[n],
         toFrontend'[<<n, 1>>] = toFrontend[<<n, 1>>], starts'[n] = starts[n],
         nodeList'[n].known = nodeList[n].known
  PROVE  InfoOfStart(n)'
BY DEF InfoOfStart, OneInfo, NoInfo

LEMMA EndsInfo ==
  ASSUME MaxStarts = 1, LinkTypeOK, NEW n \in Nodes, InfoOfStart(n), UnsentLost(n),
         toNode' = [toNode EXCEPT ![n] = <<>>],
         UNCHANGED <<starts, nodeList>>
  PROVE  InfoOfStart(n)'
<1>1. PICK j \in 0..Len(toFrontend[<<n, starts[n]>>]) :
        toFrontend' = [toFrontend EXCEPT ![<<n, starts[n]>>] = SubSeq(@, 1, j)]
  BY DEF UnsentLost
<1>2. toNode'[n] = <<>> /\ Len(toNode'[n]) = 0
  BY DEF LinkTypeOK
<1>3. CASE starts[n] = 0
  <2>1. toFrontend'[<<n, 1>>] = toFrontend[<<n, 1>>]
    BY <1>1, <1>3, StartsOnce DEF LinkTypeOK
  <2>. QED BY <1>2, <2>1 DEF InfoOfStart, OneInfo, NoInfo
<1>4. CASE starts[n] = 1
  <2>1. toFrontend'[<<n, 1>>] = SubSeq(toFrontend[<<n, 1>>], 1, j)
    BY <1>1, <1>4, StartsOnce DEF LinkTypeOK
  <2>2. OneInfo(toFrontend'[<<n, 1>>])
        /\ (NoInfo(toFrontend[<<n, 1>>]) => NoInfo(toFrontend'[<<n, 1>>]))
    BY <1>1, <1>4, <2>1, StartsOnce, PrefixInfo DEF InfoOfStart
  <2>3. \A i \in 1..Len(toNode'[n]) : toNode'[n][i].type # "nodeinfo"
    BY <1>2
  <2>4. starts'[n] = starts[n] /\ nodeList'[n].known = nodeList[n].known
    OBVIOUS
  <2>. QED BY <2>2, <2>3, <2>4 DEF InfoOfStart, OneInfo, NoInfo
<1>. QED BY <1>3, <1>4, StartsOnce

\* The one NodeInfo of the start: the node was not known before.
LEMMA NodeStartsInfo ==
  ASSUME MaxStarts = 1, LinkTypeOK, NEW n \in Nodes, InfoOfStart(n), NodeStarts(n),
         UNCHANGED nodeList
  PROVE  InfoOfStart(n)'
<1>1. starts[n] = 0
  <2>1. starts[n] < 1
    BY DEF NodeStarts
  <2>2. starts[n] \in {0, 1}
    BY StartsOnce
  <2>. QED BY <2>1, <2>2
<1>2. ~nodeList[n].known
  BY <1>1 DEF InfoOfStart
<1>3. /\ toFrontend'[<<n, 1>>] = <<NodeInfo({})>> /\ toNode' = toNode
      /\ starts'[n] = 1
  BY <1>1, StartsOnce DEF NodeStarts, LinkTypeOK
<1>4. OneInfo(toFrontend'[<<n, 1>>])
  <2>1. \A i \in 1..Len(toFrontend'[<<n, 1>>]) : i = 1
    BY <1>3
  <2>. QED BY <2>1 DEF OneInfo
<1>. QED BY <1>2, <1>3, <1>4 DEF InfoOfStart, OneInfo, NoInfo

LEMMA NodeAnswersInfo ==
  ASSUME MaxStarts = 1, LinkTypeOK, NEW n \in Nodes, InfoOfStart(n), NodeAnswers(n),
         UNCHANGED nodeList
  PROVE  InfoOfStart(n)'
<1>1. PICK j \in 1..Len(toNode[n]), r \in AnswersTo(Head(toNode[n])) :
        /\ toNode' = [toNode EXCEPT ![n] = AfterRead(@, j)]
        /\ toFrontend' = [toFrontend EXCEPT ![<<n, starts[n]>>] = Append(@, r)]
        /\ UNCHANGED starts
  BY DEF NodeAnswers, NodeReads, NodeSends
<1>2. toNode'[n] = AfterRead(toNode[n], j)
  BY <1>1 DEF LinkTypeOK
<1>3. \A i \in 1..Len(toNode'[n]) : toNode'[n][i].type # "nodeinfo"
  BY <1>1, <1>2, StartsOnce, AfterReadRequests DEF InfoOfStart
<1>4. r \in Replies /\ r.type # "info"
  <2>1. Head(toNode[n]) = toNode[n][1] /\ 1 \in 1..Len(toNode[n])
    BY <1>1, StartsOnce, AfterReadElements
  <2>2. Head(toNode[n]) \in Requests /\ Head(toNode[n]).type # "nodeinfo"
    BY <1>1, <2>1, StartsOnce, HeadType DEF InfoOfStart
  <2>3. Head(toNode[n]).type \in {"start", "close"}
    BY <2>2 DEF Requests, InfoRequest
  <2>4. r.type # "info"
    BY <1>1, <2>3 DEF AnswersTo, StartResult, CloseResult
  <2>. QED BY <1>1, <2>2, <2>4, AnswersType
<1>5. \/ toFrontend'[<<n, 1>>] = toFrontend[<<n, 1>>]
      \/ toFrontend'[<<n, 1>>] = Append(toFrontend[<<n, 1>>], r)
  BY <1>1, StartsOnce DEF LinkTypeOK
<1>6. OneInfo(toFrontend'[<<n, 1>>])
      /\ (NoInfo(toFrontend[<<n, 1>>]) => NoInfo(toFrontend'[<<n, 1>>]))
  BY <1>4, <1>5, StartsOnce, AppendInfo DEF InfoOfStart
<1>. QED BY <1>1, <1>3, <1>6 DEF InfoOfStart, OneInfo, NoInfo

\* A read of replies, or the loss of some: if the head is the NodeInfo, none
\* is left.
LEMMA RepliesReadInfo ==
  ASSUME MaxStarts = 1, LinkTypeOK, NEW n \in Nodes, InfoOfStart(n),
         NEW j \in 1..Len(toFrontend[<<n, 1>>]),
         toFrontend' = [toFrontend EXCEPT ![<<n, 1>>] = AfterRead(@, j)],
         UNCHANGED <<toNode, starts>>,
         \/ nodeList'[n].known = nodeList[n].known
         \/ Head(toFrontend[<<n, 1>>]).type = "info"
  PROVE  InfoOfStart(n)'
<1>1. toFrontend'[<<n, 1>>] = AfterRead(toFrontend[<<n, 1>>], j)
  BY StartsOnce DEF LinkTypeOK
<1>2. /\ OneInfo(toFrontend'[<<n, 1>>])
      /\ NoInfo(toFrontend[<<n, 1>>]) \/ Head(toFrontend[<<n, 1>>]).type = "info"
           => NoInfo(toFrontend'[<<n, 1>>])
  BY <1>1, StartsOnce, AfterReadInfo DEF InfoOfStart
<1>3. ASSUME Head(toFrontend[<<n, 1>>]).type = "info"
      PROVE  starts[n] > 0
  <2>1. Head(toFrontend[<<n, 1>>]) = toFrontend[<<n, 1>>][1] /\ 1 \in 1..Len(toFrontend[<<n, 1>>])
    BY StartsOnce, AfterReadElements
  <2>2. starts[n] # 0
    BY <1>3, <2>1 DEF InfoOfStart, NoInfo
  <2>. QED BY <2>2, StartsOnce
<1>. QED BY <1>2, <1>3 DEF InfoOfStart, OneInfo, NoInfo

LEMMA LinkFaultsInfo ==
  ASSUME MaxStarts = 1, LinkTypeOK, NEW n \in Nodes, InfoOfStart(n), LinkFaults(n),
         UNCHANGED nodeList
  PROVE  InfoOfStart(n)'
<1>1. CASE LinkBreaks(n)
  BY <1>1, EndsInfo DEF LinkBreaks
<1>2. ASSUME NEW j \in 1..Len(toNode[n]), RequestsLost(n, j)
      PROVE  InfoOfStart(n)'
  <2>1. toNode'[n] = AfterRead(toNode[n], j) /\ UNCHANGED <<toFrontend, starts>>
    BY <1>2 DEF RequestsLost, LinkTypeOK
  <2>2. \A i \in 1..Len(toNode'[n]) : toNode'[n][i].type # "nodeinfo"
    BY <2>1, StartsOnce, AfterReadRequests DEF InfoOfStart
  <2>. QED BY <2>1, <2>2 DEF InfoOfStart, OneInfo, NoInfo
<1>3. ASSUME NEW i \in 1..MaxStarts, NEW j \in 1..Len(toFrontend[<<n, i>>]),
             RepliesLost(<<n, i>>, j)
      PROVE  InfoOfStart(n)'
  <2>1. i = 1
    BY SMT
  <2>. QED BY <1>3, <2>1, RepliesReadInfo DEF RepliesLost
<1>. QED BY <1>1, <1>2, <1>3 DEF LinkFaults

\* A node's step touches no other node's connection.
LEMMA AnyNodeInfo ==
  ASSUME MaxStarts = 1, LinkTypeOK, RegisteredOnce, NEW n \in Nodes, AnyNode(n),
         UNCHANGED nodeList
  PROVE  RegisteredOnce'
<1>1. InfoOfStart(n)'
  <2>1. CASE NodeStops(n)
    BY <2>1, EndsInfo DEF RegisteredOnce, NodeStops
  <2>. QED BY <2>1, NodeStartsInfo, NodeAnswersInfo, LinkFaultsInfo
           DEF RegisteredOnce, AnyNode
<1>2. ASSUME NEW m \in Nodes, m # n
      PROVE  InfoOfStart(m)'
  <2>1. toNode'[m] = toNode[m] /\ starts'[m] = starts[m]
    BY <1>2 DEF LinkTypeOK, AnyNode, NodeStarts, NodeStops, NodeAnswers, NodeReads,
       LinkFaults, LinkBreaks, RequestsLost, RepliesLost
  <2>2. toFrontend'[<<m, 1>>] = toFrontend[<<m, 1>>]
    BY <1>2, OneLink DEF LinkTypeOK, AnyNode, NodeStarts, NodeStops, NodeAnswers, NodeSends,
       UnsentLost, LinkFaults, LinkBreaks, RequestsLost, RepliesLost
  <2>. QED BY <2>1, <2>2, InfoUntouched DEF RegisteredOnce
<1>. QED BY <1>1, <1>2 DEF RegisteredOnce

LEMMA QuietInfo ==
  ASSUME RegisteredOnce, UNCHANGED linkVars,
         \A m \in Nodes : nodeList'[m].known = nodeList[m].known
  PROVE  RegisteredOnce'
BY InfoUntouched DEF RegisteredOnce, linkVars

LEMMA FrontendSendsInfo ==
  ASSUME MaxStarts = 1, LinkTypeOK, RegisteredOnce, NEW n \in Nodes, NEW m \in Requests,
         m.type # "nodeinfo", FrontendSends(n, m), UNCHANGED nodeList
  PROVE  RegisteredOnce'
<1>1. \/ toNode'[n] = toNode[n]
      \/ toNode'[n] = Append(toNode[n], m)
  BY DEF FrontendSends, LinkTypeOK
<1>2. \A o \in Nodes : o # n => toNode'[o] = toNode[o]
  BY DEF FrontendSends, LinkTypeOK
<1>3. /\ Len(toNode[n]) \in Nat /\ Len(Append(toNode[n], m)) = Len(toNode[n]) + 1
      /\ \A i \in 1..(Len(toNode[n]) + 1) :
           Append(toNode[n], m)[i] = IF i = Len(toNode[n]) + 1 THEN m ELSE toNode[n][i]
  BY StartsOnce, LenProperties, AppendProperties
<1>4. \A i \in 1..Len(toNode'[n]) : toNode'[n][i].type # "nodeinfo"
  <2>1. \A i \in 1..Len(toNode[n]) : toNode[n][i].type # "nodeinfo"
    BY DEF RegisteredOnce, InfoOfStart
  <2>2. CASE toNode'[n] = toNode[n]
    BY <2>1, <2>2
  <2>3. CASE toNode'[n] = Append(toNode[n], m)
    <3>1. \A i \in 1..(Len(toNode[n]) + 1) : Append(toNode[n], m)[i].type # "nodeinfo"
      BY <1>3, <2>1
    <3>. QED BY <1>3, <2>3, <3>1
  <2>. QED BY <1>1, <2>2, <2>3
<1>5. InfoOfStart(n)'
  BY <1>4 DEF FrontendSends, RegisteredOnce, InfoOfStart, OneInfo, NoInfo
<1>6. ASSUME NEW o \in Nodes, o # n
      PROVE  InfoOfStart(o)'
  BY <1>2, <1>6, InfoUntouched DEF FrontendSends, RegisteredOnce
<1>. QED BY <1>5, <1>6 DEF RegisteredOnce

LEMMA FrontendReadsInfo ==
  ASSUME MaxStarts = 1, LinkTypeOK, RegisteredOnce, NEW l \in Links, NEW j, NEW r,
         FrontendReads(l, j, r),
         \A m \in Nodes : \/ nodeList'[m].known = nodeList[m].known
                          \/ m = l[1] /\ r.type = "info"
  PROVE  RegisteredOnce'
<1>1. PICK n \in Nodes : l = <<n, 1>>
  BY OneLink
<1>2. /\ j \in 1..Len(toFrontend[<<n, 1>>]) /\ r = Head(toFrontend[<<n, 1>>])
      /\ toFrontend' = [toFrontend EXCEPT ![<<n, 1>>] = AfterRead(@, j)]
      /\ UNCHANGED <<toNode, starts>>
  BY <1>1 DEF FrontendReads
<1>3. InfoOfStart(n)'
  BY <1>1, <1>2, RepliesReadInfo DEF RegisteredOnce
<1>4. ASSUME NEW m \in Nodes, m # n
      PROVE  InfoOfStart(m)'
  <2>1. toFrontend'[<<m, 1>>] = toFrontend[<<m, 1>>]
    BY <1>2, <1>4, OneLink DEF LinkTypeOK
  <2>. QED BY <1>1, <1>2, <1>4, <2>1, InfoUntouched DEF RegisteredOnce
<1>. QED BY <1>3, <1>4 DEF RegisteredOnce

\* Nothing makes a node unknown, and only its NodeInfo makes it known.
LEMMA KnownNodes ==
  ASSUME FrontInv, FrontNext
  PROVE  \/ \A m \in Nodes : nodeList'[m].known = nodeList[m].known
         \/ \E l \in Links : \E j, r : RegisterNode(l, j, r)
<1>1. \A m \in Nodes : nodeList[m] \in VisNode
  BY DEF FrontInv, TrackerType
<1>2. nodeList \in [Nodes -> VisNode]
  BY DEF FrontInv, TrackerType
<1>3. ASSUME NEW n, NEW p, Take(n, p)
      PROVE  \A m \in Nodes : nodeList'[m].known = nodeList[m].known
  BY <1>1, <1>2, <1>3 DEF Take, VisNode
<1>4. ASSUME NEW t \in Threads, Creating(t) \/ SendClose(t)
      PROVE  \A m \in Nodes : nodeList'[m].known = nodeList[m].known
  <2>1. CASE CountSlot(t)
    BY <1>1, <1>2, <2>1 DEF CountSlot, VisNode
  <2>2. CASE MarkSlot(t)
    BY <1>3, <2>2 DEF MarkSlot
  <2>. QED BY <1>4, <2>1, <2>2 DEF Creating, FindNode, CheckSlots, InsertSession, SendStart,
           SendClose
<1>5. CASE SetTotalSlots
  BY <1>1, <1>2, <1>5 DEF SetTotalSlots, VisNode
<1>6. CASE SetUsedSlots
  BY <1>1, <1>2, <1>6 DEF SetUsedSlots, VisNode
<1>7. ASSUME NEW p \in Ports, AddAvailablePort(p)
      PROVE  \A m \in Nodes : nodeList'[m].known = nodeList[m].known
  BY <1>1, <1>2, <1>7 DEF AddAvailablePort, VisNode
<1>8. CASE ApplyNodeInfo
  BY <1>5, <1>6, <1>7, <1>8 DEF ApplyNodeInfo
<1>9. CASE UNCHANGED nodeList
  BY <1>9
<1>. QED BY <1>4, <1>8, <1>9 DEF FrontNext, LogIn, DestroySession, CreateSession,
         DeliverReply, TakeTask, RunStarted, RunClosed

LEMMA RegisteredOnceStep ==
  ASSUME MaxStarts = 1, FrontInv, RegisteredOnce, [Next]_vars
  PROVE  RegisteredOnce'
<1>. USE DEF FrontInv
<1>1. ASSUME NEW t \in Threads, SendStart(t)
      PROVE  RegisteredOnce'
  <2> DEFINE m == StartRequest(KeyOf(job[t].addr, job[t].name), job[t].port)
  <2>1. FrontendSends(job[t].node, m) /\ UNCHANGED nodeList /\ pc[t] = "send"
    BY <1>1 DEF SendStart
  <2>2. job[t].node \in Nodes /\ job[t].port \in Ports
    BY <2>1 DEF CreatesLocked
  <2>3. m \in Requests /\ m.type # "nodeinfo"
    BY <2>1, <2>2, JobKeyType, StartRequestIsRequest DEF StartRequest
  <2> HIDE DEF m
  <2>. QED BY <2>1, <2>2, <2>3, FrontendSendsInfo
<1>2. ASSUME NEW t \in Threads, SendClose(t)
      PROVE  RegisteredOnce'
  <2> DEFINE m == CloseRequest(KeyOf(job[t].addr, job[t].name))
  <2>1. /\ pc[t] = "close" /\ UNCHANGED nodeList
        /\ \/ job[t].node # NoNode /\ FrontendSends(job[t].node, m)
           \/ UNCHANGED linkVars
    BY <1>2 DEF SendClose
  <2>2. job[t].node # NoNode => job[t].node \in Nodes
    BY <2>1 DEF CreatesLocked, Job
  <2>3. m \in Requests /\ m.type # "nodeinfo"
    BY <2>1, JobKeyType, CloseRequestIsRequest DEF CloseRequest
  <2> HIDE DEF m
  <2>. QED BY <2>1, <2>2, <2>3, FrontendSendsInfo, QuietInfo
<1>3. ASSUME NEW l \in Links, NEW j, NEW r, RegisterNode(l, j, r)
      PROVE  RegisteredOnce'
  <2>1. FrontendReads(l, j, r) /\ r.type = "info"
    BY <1>3 DEF RegisterNode
  <2>2. \A m \in Nodes : m # l[1] => nodeList'[m] = nodeList[m]
    BY <1>3 DEF RegisterNode, TrackerType
  <2>. QED BY <2>1, <2>2, FrontendReadsInfo
<1>4. ASSUME NEW l \in Links, NEW j, NEW r, DeliverReply(l, j, r)
      PROVE  RegisteredOnce'
  BY <1>4, FrontendReadsInfo DEF DeliverReply
<1>5. CASE UNCHANGED linkVars /\ \A m \in Nodes : nodeList'[m].known = nodeList[m].known
  BY <1>5, QuietInfo
<1>6. CASE FrontNext
  <2>1. ASSUME NEW t \in Threads, Creating(t)
        PROVE  RegisteredOnce'
    BY <1>1, <1>3, <1>5, <1>6, <2>1, KnownNodes
       DEF Creating, FindNode, CheckSlots, MarkSlot, CountSlot, InsertSession
  <2>2. CASE ApplyNodeInfo
    BY <1>3, <1>5, <1>6, <2>2, KnownNodes
       DEF ApplyNodeInfo, SetTotalSlots, SetUsedSlots, AddAvailablePort
  <2>. QED BY <1>2, <1>3, <1>4, <1>5, <1>6, <2>1, <2>2 DEF FrontNext, LogIn, CreateSession,
           DestroySession, TakeTask, RunStarted, RunClosed
<1>7. ASSUME NEW n \in Nodes, AnyNode(n), UNCHANGED frontVars
      PROVE  RegisteredOnce'
  BY <1>7, AnyNodeInfo DEF frontVars
<1>8. CASE UNCHANGED vars
  BY <1>5, <1>8 DEF vars, frontVars
<1>. QED BY <1>6, <1>7, <1>8 DEF Next

LEMMA RegisteredOnceInit ==
  ASSUME MaxStarts = 1, Init
  PROVE  RegisteredOnce
<1>1. \A n \in Nodes : /\ toNode[n] = <<>> /\ toFrontend[<<n, 1>>] = <<>>
                       /\ ~nodeList[n].known
  BY OneLink DEF Init, LinkInit, FrontInit
<1>2. 1..Len(<<>>) = {}
  BY SMT
<1>. QED BY <1>1, <1>2 DEF RegisteredOnce, InfoOfStart, OneInfo, NoInfo

-----------------------------------------------------------------------------
(* Who claims which slot.                                                  *)

\* A step that gives no session and no thread a slot.
NoNewClaims ==
  /\ \A k \in Keys : Claimed(k)' => Claimed(k) /\ SlotOf(k)' = SlotOf(k)
  /\ \A t \in Threads : Claiming(t)' => Claiming(t) /\ SlotFor(t)' = SlotFor(t)

TakenStaysTaken ==
  \A n \in Nodes, p \in Ports :
    nodeList[n].slots[p] = "taken" => nodeList'[n].slots[p] = "taken"

\* A claim is to a port of a node.
LEMMA ClaimTypes ==
  ASSUME FrontInv
  PROVE  /\ \A k \in Keys : Claimed(k) => openSessions[k].node \in Nodes
                                          /\ openSessions[k].port \in Ports
         /\ \A t \in Threads : Claiming(t) => job[t].node \in Nodes /\ job[t].port \in Ports
BY DEF FrontInv, TrackerType, CreatesLocked, Claimed, Claiming, Entry

LEMMA ClaimsKept ==
  ASSUME FrontInv, SlotInv, NoNewClaims, TakenStaysTaken
  PROVE  ClaimsMarked' /\ ClaimsExclusive'
<1>1. ClaimsMarked'
  <2>1. ASSUME NEW k \in Keys, Claimed(k)'
        PROVE  nodeList'[openSessions'[k].node].slots[openSessions'[k].port] = "taken"
    <3>1. Claimed(k) /\ openSessions'[k].node = openSessions[k].node
          /\ openSessions'[k].port = openSessions[k].port
      BY <2>1 DEF NoNewClaims, SlotOf
    <3>. QED BY <3>1, ClaimTypes DEF SlotInv, ClaimsMarked, TakenStaysTaken
  <2>2. ASSUME NEW t \in Threads, Claiming(t)'
        PROVE  nodeList'[job'[t].node].slots[job'[t].port] = "taken"
    <3>1. Claiming(t) /\ job'[t].node = job[t].node /\ job'[t].port = job[t].port
      BY <2>2 DEF NoNewClaims, SlotFor
    <3>. QED BY <3>1, ClaimTypes DEF SlotInv, ClaimsMarked, TakenStaysTaken
  <2>. QED BY <2>1, <2>2 DEF ClaimsMarked
<1>2. ClaimsExclusive'
  BY DEF SlotInv, ClaimsExclusive, NoNewClaims
<1>. QED BY <1>1, <1>2

\* Nothing claimed, nothing registered.
LEMMA SlotsUntouched ==
  ASSUME FrontInv, SlotInv, NoNewClaims, UNCHANGED <<nodeList, reg>>
  PROVE  SlotInv'
<1>1. SlotsAppear'
  BY DEF SlotInv, SlotsAppear
<1>2. TakenStaysTaken
  BY DEF TakenStaysTaken
<1>. QED BY <1>1, <1>2, ClaimsKept DEF SlotInv

\* A slot that is free is claimed by nobody, and its node is registered.
LEMMA TakeSlots ==
  ASSUME FrontInv, SlotInv, NEW n \in Nodes, NEW p \in FreeSlots(n), Take(n, p), UNCHANGED reg
  PROVE  /\ SlotsAppear' /\ TakenStaysTaken
         /\ nodeList'[n].slots[p] = "taken"
<1>1. TrackerType /\ p \in Ports /\ nodeList[n].slots[p] = "free"
  BY DEF FrontInv, FreeSlots
<1>2. \A m \in Nodes : nodeList[m] \in VisNode
  BY <1>1 DEF TrackerType
<1>3. /\ \A m \in Nodes : m # n => nodeList'[m] = nodeList[m]
      /\ nodeList'[n].known = nodeList[n].known
      /\ nodeList'[n].slots = [nodeList[n].slots EXCEPT ![p] = "taken"]
  BY <1>1, <1>2 DEF TrackerType, Take, VisNode
<1>4. nodeList[n].known
  BY <1>1 DEF SlotInv, SlotsAppear
<1>5. \A m \in Nodes : nodeList'[m].known = nodeList[m].known
  BY <1>3
<1>6. ASSUME NEW m \in Nodes, NEW q \in Ports, nodeList[m].slots[q] # "free"
      PROVE  nodeList'[m].slots[q] = nodeList[m].slots[q]
  BY <1>1, <1>2, <1>3, <1>6 DEF VisNode
<1>7. SlotsAppear'
  <2>1. ASSUME NEW m \in Nodes, ~nodeList'[m].known, NEW q \in Ports
        PROVE  nodeList'[m].slots[q] = "none"
    BY <1>5, <1>6, <2>1 DEF SlotInv, SlotsAppear
  <2>2. reg # NoReg => reg.node \in Nodes /\ reg.todo \subseteq Ports
    BY <1>1 DEF TrackerType, Registration
  <2>3. ASSUME reg # NoReg
        PROVE  nodeList'[reg.node].known
               /\ \A q \in reg.todo : nodeList'[reg.node].slots[q] = "none"
    <3>1. nodeList[reg.node].known
          /\ \A q \in reg.todo : nodeList[reg.node].slots[q] = "none"
      BY <2>3 DEF SlotInv, SlotsAppear
    <3>. QED BY <1>5, <1>6, <2>2, <2>3, <3>1
  <2>. QED BY <2>1, <2>3 DEF SlotsAppear
<1>8. TakenStaysTaken
  BY <1>6 DEF TakenStaysTaken
<1>9. nodeList'[n].slots[p] = "taken"
  BY <1>1, <1>2, <1>3 DEF VisNode
<1>. QED BY <1>7, <1>8, <1>9

\* The slot a create reserves was free, so no other has it.
LEMMA MarkSlotClaims ==
  ASSUME FrontInv, SlotInv, NEW t \in Threads, MarkSlot(t)
  PROVE  SlotInv'
<1>. USE DEF FrontInv
<1>1. /\ pc[t] = "mark" /\ UNCHANGED <<openSessions, reg>>
      /\ job[t] \in Job /\ job[t].node \in Nodes
  BY DEF MarkSlot, CreatesLocked
<1>2. ASSUME TryAgain(t), UNCHANGED nodeList
      PROVE  SlotInv'
  <2>1. NoNewClaims
    BY <1>1, <1>2 DEF NoNewClaims, TryAgain, Goto, TrackerType, Claimed, SlotOf, Claiming,
       SlotFor
  <2>. QED BY <1>1, <1>2, <2>1, SlotsUntouched
<1>3. ASSUME NEW p \in FreeSlots(job[t].node), Take(job[t].node, p),
             NEW c, job' = [job EXCEPT ![t].port = p, ![t].count = c],
             pc' = [pc EXCEPT ![t] = "count"]
      PROVE  SlotInv'
  <2>1. PICK n \in Nodes : n = job[t].node
    BY <1>1
  <2>2. p \in Ports /\ nodeList[n].slots[p] = "free"
    BY <2>1 DEF FreeSlots
  <2>3. SlotsAppear' /\ TakenStaysTaken /\ nodeList'[n].slots[p] = "taken"
    BY <1>1, <1>3, <2>1, TakeSlots
  <2>4. /\ Claiming(t)' /\ SlotFor(t)' = <<n, p>>
        /\ job'[t].node = n /\ job'[t].port = p
    BY <1>1, <1>3, <2>1 DEF TrackerType, Claiming, SlotFor, Job
  <2>5. \A k \in Keys : Claimed(k)' = Claimed(k) /\ SlotOf(k)' = SlotOf(k)
    BY <1>1 DEF Claimed, SlotOf
  <2>6. \A u \in Threads : u # t => /\ Claiming(u)' = Claiming(u)
                                    /\ job'[u] = job[u]
                                    /\ SlotFor(u)' = SlotFor(u)
    BY <1>3 DEF TrackerType, Claiming, SlotFor
  <2>7. \A k \in Keys : Claimed(k) => SlotOf(k) # <<n, p>>
    BY <2>2 DEF SlotInv, ClaimsMarked, SlotOf
  <2>8. \A u \in Threads : Claiming(u) => SlotFor(u) # <<n, p>>
    BY <2>2 DEF SlotInv, ClaimsMarked, SlotFor
  <2>9. ClaimsExclusive'
    <3>1. ASSUME NEW k \in Keys, NEW l \in Keys, Claimed(k)', Claimed(l)', k # l
          PROVE  SlotOf(k)' # SlotOf(l)'
      BY <2>5, <3>1 DEF SlotInv, ClaimsExclusive
    <3>2. ASSUME NEW k \in Keys, NEW u \in Threads, Claimed(k)', Claiming(u)'
          PROVE  SlotOf(k)' # SlotFor(u)'
      BY <2>4, <2>5, <2>6, <2>7, <3>2 DEF SlotInv, ClaimsExclusive
    <3>3. ASSUME NEW u \in Threads, NEW v \in Threads, Claiming(u)', Claiming(v)', u # v
          PROVE  SlotFor(u)' # SlotFor(v)'
      BY <2>4, <2>6, <2>8, <3>3 DEF SlotInv, ClaimsExclusive
    <3>. QED BY <3>1, <3>2, <3>3 DEF ClaimsExclusive
  <2>10. ClaimsMarked'
    <3>1. ASSUME NEW k \in Keys, Claimed(k)'
          PROVE  nodeList'[openSessions[k].node].slots[openSessions[k].port] = "taken"
      BY <2>3, <2>5, <3>1, ClaimTypes DEF SlotInv, ClaimsMarked, TakenStaysTaken
    <3>2. ASSUME NEW u \in Threads, Claiming(u)'
          PROVE  nodeList'[job'[u].node].slots[job'[u].port] = "taken"
      BY <2>3, <2>4, <2>6, <3>2, ClaimTypes DEF SlotInv, ClaimsMarked, TakenStaysTaken
    <3>. QED BY <1>1, <3>1, <3>2 DEF ClaimsMarked
  <2>. QED BY <2>3, <2>9, <2>10 DEF SlotInv
<1>. QED BY <1>2, <1>3 DEF MarkSlot, Goto

\* Counting the slot leaves it claimed and marked.
LEMMA CountSlotClaims ==
  ASSUME FrontInv, SlotInv, NEW t \in Threads, CountSlot(t)
  PROVE  SlotInv'
<1>. USE DEF FrontInv
<1>1. /\ pc[t] = "count" /\ pc' = [pc EXCEPT ![t] = "insert"]
      /\ job' = [job EXCEPT ![t].count = 0]
      /\ UNCHANGED <<openSessions, reg>>
  BY DEF CountSlot, Goto
<1>2. job[t] \in Job
  BY <1>1 DEF CreatesLocked
<1>3. \A m \in Nodes : /\ nodeList'[m].known = nodeList[m].known
                       /\ nodeList'[m].slots = nodeList[m].slots
  <2>1. \A m \in Nodes : nodeList[m] \in VisNode
    BY DEF TrackerType
  <2>. QED BY <2>1 DEF CountSlot, TrackerType, VisNode
<1>4. NoNewClaims
  <2>1. \A v \in Threads : Claiming(v)' => Claiming(v) /\ SlotFor(v)' = SlotFor(v)
    BY <1>1, <1>2 DEF TrackerType, Claiming, SlotFor, Job
  <2>. QED BY <1>1, <2>1 DEF NoNewClaims, Claimed, SlotOf
<1>5. TakenStaysTaken
  BY <1>3 DEF TakenStaysTaken
<1>6. SlotsAppear'
  <2>1. reg # NoReg => reg.node \in Nodes
    BY DEF TrackerType, Registration
  <2>. QED BY <1>1, <1>3, <2>1 DEF SlotInv, SlotsAppear
<1>. QED BY <1>4, <1>5, <1>6, ClaimsKept DEF SlotInv

\* The claim goes from the thread to its session; if there was another session
\* under that name, its claim is forgotten.
LEMMA InsertSessionClaims ==
  ASSUME FrontInv, SlotInv, NEW t \in Threads, InsertSession(t)
  PROVE  SlotInv'
<1>. USE DEF FrontInv
<1> DEFINE e == [node |-> job[t].node, port |-> job[t].port, status |-> "creating"]
<1>1. /\ pc[t] = "insert" /\ pc' = [pc EXCEPT ![t] = "send"]
      /\ openSessions' = [openSessions EXCEPT ![KeyOf(job[t].addr, job[t].name)] = e]
      /\ UNCHANGED <<job, nodeList, reg>>
  BY DEF InsertSession, Goto
<1>2. PICK k \in Keys : k = KeyOf(job[t].addr, job[t].name)
  BY <1>1, JobKeyType
<1>3. e # NoEntry
  <2>1. job[t].node \in Nodes /\ job[t].port \in Ports
    BY <1>1 DEF CreatesLocked
  <2>2. e \in Entry
    BY <2>1 DEF Entry, Status
  <2>. QED BY <2>2, NothingAssumption
<1>4. e.node = job[t].node /\ e.port = job[t].port
  OBVIOUS
<1> HIDE DEF e
<1>5. /\ openSessions'[k] = e
      /\ Claimed(k)' /\ SlotOf(k)' = SlotFor(t) /\ Claiming(t)
  BY <1>1, <1>2, <1>3, <1>4 DEF TrackerType, Claimed, SlotOf, SlotFor, Claiming
<1>6. \A l \in Keys : l # k => /\ openSessions'[l] = openSessions[l]
                               /\ Claimed(l)' = Claimed(l) /\ SlotOf(l)' = SlotOf(l)
  BY <1>1, <1>2 DEF TrackerType, Claimed, SlotOf
<1>7. \A u \in Threads : /\ Claiming(u)' => Claiming(u) /\ u # t
                         /\ SlotFor(u)' = SlotFor(u)
  BY <1>1 DEF TrackerType, Claiming, SlotFor
<1>8. SlotsAppear'
  BY <1>1 DEF SlotInv, SlotsAppear
<1>9. ClaimsMarked'
  BY <1>1, <1>4, <1>5, <1>6, <1>7 DEF SlotInv, ClaimsMarked
<1>10. ClaimsExclusive'
  <2>1. ASSUME NEW l \in Keys, NEW m \in Keys, Claimed(l)', Claimed(m)', l # m
        PROVE  SlotOf(l)' # SlotOf(m)'
    BY <1>5, <1>6, <2>1 DEF SlotInv, ClaimsExclusive
  <2>2. ASSUME NEW l \in Keys, NEW u \in Threads, Claimed(l)', Claiming(u)'
        PROVE  SlotOf(l)' # SlotFor(u)'
    BY <1>5, <1>6, <1>7, <2>2 DEF SlotInv, ClaimsExclusive
  <2>3. ASSUME NEW u \in Threads, NEW v \in Threads, Claiming(u)', Claiming(v)', u # v
        PROVE  SlotFor(u)' # SlotFor(v)'
    BY <1>7, <2>3 DEF SlotInv, ClaimsExclusive
  <2>. QED BY <2>1, <2>2, <2>3 DEF ClaimsExclusive
<1>. QED BY <1>8, <1>9, <1>10 DEF SlotInv

LEMMA CreatingClaims ==
  ASSUME FrontInv, SlotInv, NEW t \in Threads, Creating(t)
  PROVE  SlotInv'
<1>1. ASSUME NEW l \in {"idle", "find", "reserve", "mark"}, pc' = [pc EXCEPT ![t] = l],
             UNCHANGED <<openSessions, nodeList, reg>>,
             \A u \in Threads : u # t => job'[u] = job[u]
      PROVE  SlotInv'
  <2>1. NoNewClaims
    BY <1>1 DEF FrontInv, TrackerType, NoNewClaims, Claimed, SlotOf, Claiming, SlotFor
  <2>. QED BY <1>1, <2>1, SlotsUntouched
<1>2. job \in [Threads -> Job \cup {NoJob}]
  BY DEF FrontInv, TrackerType
<1>3. CASE FindNode(t)
  BY <1>1, <1>2, <1>3 DEF FindNode, Return, Goto
<1>4. CASE CheckSlots(t)
  BY <1>1, <1>2, <1>4 DEF CheckSlots, TryAgain, Goto
<1>5. CASE SendStart(t)
  BY <1>1, <1>2, <1>5 DEF SendStart, Return, Goto
<1>. QED BY <1>3, <1>4, <1>5, MarkSlotClaims, CountSlotClaims, InsertSessionClaims DEF Creating

\* A session that is erased, or only changes its status, while no thread gets
\* a slot.
LEMMA TrackedClaims ==
  ASSUME FrontInv, SlotInv, UNCHANGED <<nodeList, reg>>, NEW k \in Keys,
         \A t \in Threads : Claiming(t)' => Claiming(t) /\ SlotFor(t)' = SlotFor(t),
         \/ UNCHANGED openSessions
         \/ openSessions' = [openSessions EXCEPT ![k] = NoEntry]
         \/ \E st \in Status : openSessions[k] # NoEntry
              /\ openSessions' = [openSessions EXCEPT ![k].status = st]
  PROVE  SlotInv'
<1>1. ASSUME NEW st \in Status, openSessions[k] # NoEntry,
             openSessions' = [openSessions EXCEPT ![k].status = st]
      PROVE  \A l \in Keys : Claimed(l)' => Claimed(l) /\ SlotOf(l)' = SlotOf(l)
  <2>1. openSessions[k] \in Entry
    BY <1>1 DEF FrontInv, TrackerType
  <2>2. /\ openSessions'[k].node = openSessions[k].node
        /\ openSessions'[k].port = openSessions[k].port
        /\ \A l \in Keys : l # k => openSessions'[l] = openSessions[l]
    BY <1>1, <2>1 DEF FrontInv, TrackerType, Entry
  <2>. QED BY <1>1, <2>2 DEF Claimed, SlotOf
<1>2. CASE openSessions' = [openSessions EXCEPT ![k] = NoEntry]
  <2>1. NoNewClaims
    BY <1>2 DEF FrontInv, TrackerType, NoNewClaims, Claimed, SlotOf
  <2>. QED BY <2>1, SlotsUntouched
<1>3. CASE UNCHANGED openSessions
  BY <1>3, SlotsUntouched DEF NoNewClaims, Claimed, SlotOf
<1>4. CASE \E st \in Status : openSessions[k] # NoEntry
             /\ openSessions' = [openSessions EXCEPT ![k].status = st]
  BY <1>1, <1>4, SlotsUntouched DEF NoNewClaims
<1>. QED BY <1>2, <1>3, <1>4

\* A thread that closes a session claims no slot.
LEMMA ClosingClaims ==
  ASSUME FrontInv, SlotInv, NEW t \in Threads,
         \/ SendClose(t)
         \/ \E a \in Addrs : \E s \in Names : DestroySession(t, a, s)
  PROVE  SlotInv'
<1>. USE DEF FrontInv
<1>1. ASSUME NEW l, l \notin {"count", "insert"}, NEW j,
             pc' = [pc EXCEPT ![t] = l], job' = [job EXCEPT ![t] = j]
      PROVE  \A u \in Threads : Claiming(u)' => Claiming(u) /\ SlotFor(u)' = SlotFor(u)
  BY <1>1 DEF TrackerType, Claiming, SlotFor
<1>2. CASE SendClose(t)
  <2>1. pc[t] = "close" /\ UNCHANGED <<nodeList, reg>> /\ Return(t)
    BY <1>2 DEF SendClose
  <2>2. \A u \in Threads : Claiming(u)' => Claiming(u) /\ SlotFor(u)' = SlotFor(u)
    BY <1>1, <2>1 DEF Return, Goto
  <2>3. PICK k \in Keys : k = KeyOf(job[t].addr, job[t].name)
    BY <2>1, JobKeyType
  <2>4. UNCHANGED openSessions \/ openSessions' = [openSessions EXCEPT ![k] = NoEntry]
    BY <1>2, <2>3 DEF SendClose, Erase
  <2>. QED BY <2>1, <2>2, <2>4, TrackedClaims
<1>3. ASSUME NEW a \in Addrs, NEW s \in Names, DestroySession(t, a, s)
      PROVE  SlotInv'
  <2>1. PICK k \in Keys : k = KeyOf(a, s)
    BY <1>3, KeyType DEF DestroySession, LoggedIn
  <2>2. \A u \in Threads : Claiming(u)' => Claiming(u) /\ SlotFor(u)' = SlotFor(u)
    BY <1>1, <1>3 DEF DestroySession, TryFinishSession, Goto
  <2>3. openSessions[k] # NoEntry /\ "closing" \in Status
        /\ openSessions' = [openSessions EXCEPT ![k].status = "closing"]
    BY <1>3, <2>1 DEF DestroySession, TryFinishSession, Status
  <2>4. UNCHANGED <<nodeList, reg>>
    BY <1>3 DEF DestroySession
  <2>. QED BY <2>2, <2>3, <2>4, TrackedClaims
<1>. QED BY <1>2, <1>3

\* The NodeInfo of a node nobody knew.
LEMMA RegisterNodeClaims ==
  ASSUME MaxStarts = 1, FrontInv, RegisteredOnce, SlotInv,
         NEW l \in Links, NEW j, NEW r, RegisterNode(l, j, r)
  PROVE  SlotInv'
<1>. USE DEF FrontInv
<1>1. PICK n \in Nodes : l = <<n, 1>>
  BY OneLink
<1>2. /\ r.type = "info" /\ j \in 1..Len(toFrontend[<<n, 1>>])
      /\ r = Head(toFrontend[<<n, 1>>])
      /\ reg' = [node |-> n, step |-> "total", todo |-> Ports, flags |-> r.used]
      /\ UNCHANGED <<openSessions, pc, job>>
  BY <1>1 DEF RegisterNode, FrontendReads
<1>3. ~nodeList[n].known
  <2>1. Head(toFrontend[<<n, 1>>]) = toFrontend[<<n, 1>>][1]
        /\ 1 \in 1..Len(toFrontend[<<n, 1>>])
    BY <1>2, StartsOnce, AfterReadElements
  <2>. QED BY <1>2, <2>1 DEF RegisteredOnce, InfoOfStart, NoInfo
<1>4. /\ \A m \in Nodes : m # n => nodeList'[m] = nodeList[m]
      /\ \A m \in Nodes : nodeList'[m].slots = nodeList[m].slots
      /\ nodeList'[n].known
  <2>1. PICK total \in Garbage, used \in Garbage :
          nodeList' = [nodeList EXCEPT ![n] =
            [@ EXCEPT !.known = TRUE, !.total = total, !.used = used]]
    BY <1>1, <1>3 DEF RegisterNode
  <2>2. nodeList[n] \in VisNode
    BY DEF TrackerType
  <2>. QED BY <2>1, <2>2 DEF TrackerType, VisNode
<1>5. reg'.node = n /\ reg'.todo = Ports
  BY <1>2
<1>6. SlotsAppear'
  BY <1>3, <1>4, <1>5 DEF SlotInv, SlotsAppear
<1>7. NoNewClaims /\ TakenStaysTaken
  BY <1>2, <1>4 DEF NoNewClaims, TakenStaysTaken, Claimed, SlotOf, Claiming, SlotFor
<1>. QED BY <1>6, <1>7, ClaimsKept DEF SlotInv

LEMMA ApplyClaims ==
  ASSUME FrontInv, SlotInv, ApplyNodeInfo
  PROVE  SlotInv'
<1>. USE DEF FrontInv
<1>1. reg # NoReg /\ reg \in Registration
  BY DEF ApplyNodeInfo, SetTotalSlots, SetUsedSlots, AddAvailablePort, TrackerType
<1>2. PICK n \in Nodes : n = reg.node
  BY <1>1 DEF Registration
<1>3. UNCHANGED <<openSessions, pc, job>>
  BY DEF ApplyNodeInfo, SetTotalSlots, SetUsedSlots, AddAvailablePort
<1>4. NoNewClaims
  BY <1>3 DEF NoNewClaims, Claimed, SlotOf, Claiming, SlotFor
<1>5. nodeList \in [Nodes -> VisNode] /\ nodeList[n] \in VisNode
  BY DEF TrackerType
<1>6. ASSUME \A m \in Nodes : /\ nodeList'[m].known = nodeList[m].known
                              /\ nodeList'[m].slots = nodeList[m].slots,
             \/ reg' = NoReg
             \/ reg'.node = n /\ reg'.todo = reg.todo
      PROVE  SlotInv'
  <2>1. TakenStaysTaken
    BY <1>6 DEF TakenStaysTaken
  <2>2. SlotsAppear'
    BY <1>1, <1>2, <1>6 DEF SlotInv, SlotsAppear
  <2>. QED BY <1>4, <2>1, <2>2, ClaimsKept DEF SlotInv
<1>7. CASE SetTotalSlots
  <2>1. \A m \in Nodes : /\ nodeList'[m].known = nodeList[m].known
                         /\ nodeList'[m].slots = nodeList[m].slots
    BY <1>2, <1>5, <1>7 DEF SetTotalSlots, VisNode
  <2>2. reg'.node = n /\ reg'.todo = reg.todo
    BY <1>1, <1>2, <1>7 DEF SetTotalSlots, Registration
  <2>. QED BY <1>6, <2>1, <2>2
<1>8. CASE SetUsedSlots
  <2>1. \A m \in Nodes : /\ nodeList'[m].known = nodeList[m].known
                         /\ nodeList'[m].slots = nodeList[m].slots
    BY <1>2, <1>5, <1>8 DEF SetUsedSlots, VisNode
  <2>2. reg' = NoReg
    BY <1>8 DEF SetUsedSlots
  <2>. QED BY <1>6, <2>1, <2>2
<1>9. ASSUME NEW p \in Ports, AddAvailablePort(p)
      PROVE  SlotInv'
  <2> DEFINE x == IF p \in reg.flags THEN "taken" ELSE "free"
  <2>1. /\ p \in reg.todo
        /\ nodeList' = [nodeList EXCEPT ![n].slots[p] = x]
        /\ reg'.node = n /\ reg'.todo = reg.todo \ {p}
    BY <1>1, <1>2, <1>9 DEF AddAvailablePort, Registration
  <2>2. /\ \A m \in Nodes : m # n => nodeList'[m] = nodeList[m]
        /\ nodeList'[n].known = nodeList[n].known
        /\ nodeList'[n].slots = [nodeList[n].slots EXCEPT ![p] = x]
    BY <1>5, <2>1 DEF VisNode
  <2>3. nodeList[n].known /\ \A q \in reg.todo : nodeList[n].slots[q] = "none"
    BY <1>1, <1>2 DEF SlotInv, SlotsAppear
  <2> HIDE DEF x
  <2>4. \A m \in Nodes, q \in Ports :
          m # n \/ q # p => nodeList'[m].slots[q] = nodeList[m].slots[q]
    BY <1>5, <2>2 DEF VisNode
  <2>5. TakenStaysTaken
    BY <2>1, <2>3, <2>4 DEF TakenStaysTaken
  <2>6. reg.todo \subseteq Ports
    BY <1>1 DEF Registration
  <2>7. SlotsAppear'
    <3>1. ASSUME NEW m \in Nodes, ~nodeList'[m].known, NEW q \in Ports
          PROVE  nodeList'[m].slots[q] = "none"
      <4>1. nodeList'[m] = nodeList[m] /\ ~nodeList[m].known
        BY <2>2, <2>3, <3>1
      <4>. QED BY <4>1 DEF SlotInv, SlotsAppear
    <3>2. nodeList'[n].known /\ \A q \in reg'.todo : nodeList'[n].slots[q] = "none"
      BY <2>1, <2>2, <2>3, <2>4, <2>6
    <3>. QED BY <2>1, <3>1, <3>2 DEF SlotsAppear
  <2>. QED BY <1>4, <2>5, <2>7, ClaimsKept DEF SlotInv
<1>. QED BY <1>7, <1>8, <1>9 DEF ApplyNodeInfo

\* What claims the slots is an invariant of the session server, for nodes that
\* are started once.
THEOREM SlotInvariant == MaxStarts = 1 /\ Spec => []SlotInv
<1> SUFFICES ASSUME MaxStarts = 1
             PROVE  Spec => []SlotInv
  OBVIOUS
<1>1. Init => RegisteredOnce /\ SlotInv
  <2> SUFFICES ASSUME Init
               PROVE  RegisteredOnce /\ SlotInv
    OBVIOUS
  <2>1. SlotInv
    BY DEF Init, FrontInit, SlotInv, SlotsAppear, ClaimsMarked, ClaimsExclusive, Claimed,
       Claiming
  <2>. QED BY <2>1, RegisteredOnceInit
<1>2. ASSUME FrontInv, RegisteredOnce, SlotInv, [Next]_vars
      PROVE  SlotInv'
  <2>1. ASSUME UNCHANGED <<pc, job, nodeList, reg, openSessions>>
        PROVE  SlotInv'
    BY <1>2, <2>1, SlotsUntouched DEF NoNewClaims, Claimed, SlotOf, Claiming, SlotFor
  <2>2. ASSUME NEW a \in Addrs, NEW s \in Names, NEW t \in Threads, CreateSession(t, a, s)
        PROVE  SlotInv'
    <3>1. NoNewClaims /\ UNCHANGED <<nodeList, reg>>
      BY <1>2, <2>2 DEF CreateSession, Goto, FrontInv, TrackerType, NoNewClaims, Claimed,
         SlotOf, Claiming, SlotFor
    <3>. QED BY <1>2, <3>1, SlotsUntouched
  <2>3. ASSUME NEW t \in Threads,
               \/ SendClose(t)
               \/ \E a \in Addrs : \E s \in Names : DestroySession(t, a, s)
        PROVE  SlotInv'
    BY <1>2, <2>3, ClosingClaims
  <2>4. ASSUME NEW w \in Workers, RunStarted(w)
        PROVE  SlotInv'
    <3>1. NewStatus(running[w].result) \in Status
      BY DEF NewStatus, Status
    <3>. QED BY <1>2, <2>4, <3>1, ResultKeyType, TrackedClaims DEF RunStarted, Claiming, SlotFor
  <2>5. ASSUME NEW w \in Workers, RunClosed(w)
        PROVE  SlotInv'
    BY <1>2, <2>5, ResultKeyType, TrackedClaims DEF RunClosed, Erase, Claiming, SlotFor
  <2>6. CASE FrontNext
    BY <1>2, <2>1, <2>2, <2>3, <2>4, <2>5, <2>6, CreatingClaims, RegisterNodeClaims,
       ApplyClaims DEF FrontNext, LogIn, DeliverReply, TakeTask
  <2>7. CASE UNCHANGED frontVars
    BY <2>1, <2>7 DEF frontVars
  <2>. QED BY <1>2, <2>6, <2>7 DEF Next, vars
<1>3. ASSUME FrontInv, RegisteredOnce, [Next]_vars
      PROVE  RegisteredOnce'
  BY <1>3, RegisteredOnceStep
<1>. QED BY <1>1, <1>2, <1>3, FrontInvariant, PTL DEF Spec

\* A node that is started once never has one of its ports given to two
\* sessions, although creates of several users choose and reserve slots of it
\* in separate steps, and its registration marks its ports one by one.
THEOREM SlotsExclusiveCorrect == MaxStarts = 1 /\ Spec => []SlotsExclusive
<1>1. SlotInv => SlotsExclusive
  <2> SUFFICES ASSUME SlotInv, NEW c \in SlotClaims, NEW d \in SlotClaims, c # d
               PROVE  <<c[2], c[3]>> # <<d[2], d[3]>>
    BY DEF SlotsExclusive
  <2>1. \A b \in SlotClaims :
          \/ \E k \in Keys : Claimed(k) /\ b[1] = k /\ <<b[2], b[3]>> = SlotOf(k)
                             /\ b = <<k, b[2], b[3]>>
          \/ \E t \in Threads : Claiming(t) /\ b[1] = t /\ <<b[2], b[3]>> = SlotFor(t)
                             /\ b = <<t, b[2], b[3]>>
    BY DEF SlotClaims, Claimed, Claiming, SlotOf, SlotFor
  <2>. QED BY <2>1 DEF SlotInv, ClaimsExclusive
<1>. QED BY <1>1, SlotInvariant, PTL

\* The frontend never frees a slot: none that is taken is offered again.
LEMMA TakenKept ==
  ASSUME FrontInv, SlotInv, FrontNext
  PROVE  TakenStaysTaken
<1>. USE DEF FrontInv
<1>1. nodeList \in [Nodes -> VisNode] /\ \A m \in Nodes : nodeList[m] \in VisNode
  BY DEF TrackerType
<1>2. CASE UNCHANGED nodeList
  BY <1>2 DEF TakenStaysTaken
<1>3. ASSUME NEW t \in Threads, MarkSlot(t) \/ CountSlot(t)
      PROVE  TakenStaysTaken
  <2>1. job[t].node \in Nodes
    BY <1>3 DEF MarkSlot, CountSlot, CreatesLocked
  <2>2. CASE MarkSlot(t)
    BY <1>2, <2>1, <2>2, TakeSlots DEF MarkSlot
  <2>3. CASE CountSlot(t)
    <3>1. \A m \in Nodes : nodeList'[m].slots = nodeList[m].slots
      BY <1>1, <2>3 DEF CountSlot, VisNode
    <3>. QED BY <3>1 DEF TakenStaysTaken
  <2>. QED BY <1>3, <2>2, <2>3
<1>4. ASSUME NEW l \in Links, NEW j, NEW r, RegisterNode(l, j, r)
      PROVE  TakenStaysTaken
  <2>1. l[1] \in Nodes
    BY DEF Links
  <2>2. \A m \in Nodes : nodeList'[m].slots = nodeList[m].slots
    <3>1. PICK n \in Nodes : n = l[1]
      BY <2>1
    <3>2. CASE UNCHANGED nodeList
      BY <3>2
    <3>3. ASSUME NEW total, NEW used, nodeList' = [nodeList EXCEPT ![n] =
                   [@ EXCEPT !.known = TRUE, !.total = total, !.used = used]]
          PROVE  \A m \in Nodes : nodeList'[m].slots = nodeList[m].slots
      BY <1>1, <3>3 DEF VisNode
    <3>. QED BY <1>4, <3>1, <3>2, <3>3 DEF RegisterNode
  <2>. QED BY <2>2 DEF TakenStaysTaken
<1>5. ASSUME SetTotalSlots \/ SetUsedSlots
      PROVE  TakenStaysTaken
  <2>1. reg.node \in Nodes
    BY <1>5 DEF SetTotalSlots, SetUsedSlots, TrackerType, Registration
  <2>2. \A m \in Nodes : nodeList'[m].slots = nodeList[m].slots
    BY <1>1, <1>5, <2>1 DEF SetTotalSlots, SetUsedSlots, VisNode
  <2>. QED BY <2>2 DEF TakenStaysTaken
<1>6. ASSUME NEW p \in Ports, AddAvailablePort(p)
      PROVE  TakenStaysTaken
  <2>1. reg.node \in Nodes /\ nodeList[reg.node].slots[p] = "none"
    BY <1>6 DEF AddAvailablePort, TrackerType, Registration, SlotInv, SlotsAppear
  <2>2. \A m \in Nodes, q \in Ports :
          m # reg.node \/ q # p => nodeList'[m].slots[q] = nodeList[m].slots[q]
    BY <1>1, <1>6, <2>1 DEF AddAvailablePort, VisNode
  <2>. QED BY <2>1, <2>2 DEF TakenStaysTaken
<1>. QED BY <1>2, <1>3, <1>4, <1>5, <1>6 DEF FrontNext, LogIn, DestroySession, CreateSession,
         Creating, FindNode, CheckSlots, InsertSession, SendStart, SendClose, ApplyNodeInfo,
         DeliverReply, TakeTask, RunStarted, RunClosed

-----------------------------------------------------------------------------
(* The frontend's end of the wire.                                         *)

\* All the frontend does to the wire is to send a request and to read replies.
LEMMA FrontStepOnLink ==
  ASSUME FrontInv, FrontNext
  PROVE  LinkNext \/ UNCHANGED linkVars
<1>. USE DEF FrontInv
<1>1. ASSUME NEW n \in Nodes, NEW m \in Requests, FrontendSends(n, m)
      PROVE  LinkNext
  BY <1>1 DEF LinkNext
<1>2. ASSUME NEW l \in Links, NEW j \in 1..Len(toFrontend[l]),
             FrontendReads(l, j, Head(toFrontend[l]))
      PROVE  LinkNext
  <2>1. PICK n \in Nodes, i \in 1..MaxStarts : l = <<n, i>>
    BY DEF Links
  <2>. QED BY <1>2, <2>1 DEF LinkNext
<1>3. ASSUME NEW t \in Threads, SendStart(t)
      PROVE  LinkNext
  <2> DEFINE m == StartRequest(KeyOf(job[t].addr, job[t].name), job[t].port)
  <2>1. FrontendSends(job[t].node, m) /\ pc[t] = "send"
    BY <1>3 DEF SendStart
  <2>2. job[t].node \in Nodes /\ job[t].port \in Ports
    BY <2>1 DEF CreatesLocked
  <2>3. m \in Requests
    BY <2>1, <2>2, JobKeyType, StartRequestIsRequest
  <2>. QED BY <1>1, <2>1, <2>2, <2>3
<1>4. ASSUME NEW t \in Threads, SendClose(t)
      PROVE  LinkNext \/ UNCHANGED linkVars
  <2> DEFINE m == CloseRequest(KeyOf(job[t].addr, job[t].name))
  <2>1. /\ pc[t] = "close"
        /\ \/ job[t].node # NoNode /\ FrontendSends(job[t].node, m)
           \/ UNCHANGED linkVars
    BY <1>4 DEF SendClose
  <2>2. job[t].node # NoNode => job[t].node \in Nodes
    BY <2>1 DEF CreatesLocked, Job
  <2>3. m \in Requests
    BY <2>1, JobKeyType, CloseRequestIsRequest
  <2>. QED BY <1>1, <2>1, <2>2, <2>3
<1>5. ASSUME NEW t \in Threads, Creating(t)
      PROVE  LinkNext \/ UNCHANGED linkVars
  BY <1>3, <1>5 DEF Creating, FindNode, CheckSlots, MarkSlot, CountSlot, InsertSession
<1>6. CASE ApplyNodeInfo
  BY <1>6 DEF ApplyNodeInfo, SetTotalSlots, SetUsedSlots, AddAvailablePort
<1>. QED BY <1>2, <1>4, <1>5, <1>6 DEF FrontNext, LogIn, CreateSession, DestroySession,
         RegisterNode, DeliverReply, TakeTask, RunStarted, RunClosed

\* The frontend is on its side of the wire what NodeLink says of it: with any
\* node that keeps the promise, LinkSpec holds.
THEOREM FrontendUsesLink == Spec => LinkSpec
<1>1. Init => LinkInit
  BY DEF Init
<1>2. ASSUME FrontInv, [Next]_vars
      PROVE  [LinkNext]_linkVars
  <2>1. CASE UNCHANGED vars
    BY <2>1 DEF vars
  <2>2. ASSUME NEW n \in Nodes, AnyNode(n)
        PROVE  LinkNext
    BY <2>2 DEF AnyNode, LinkNext
  <2>. QED BY <1>2, <2>1, <2>2, FrontStepOnLink DEF Next
<1>. QED BY <1>1, <1>2, FrontInvariant, PTL DEF Spec, LinkSpec
=============================================================================
