-------------------------- MODULE DeploymentProofs --------------------------
(***************************************************************************)
(* The nodes, and the whole deployment.                                    *)
(*                                                                         *)
(* The port lists of a node are sound for every configuration, every       *)
(* interleaving of executor, launch threads and workers, and every request *)
(* a frontend may send: sessions never share a port, and no port of an     *)
(* open session is ever released.  PortsExclusive alone is not inductive:  *)
(* a new session could be given the port of one whose mark was lost.       *)
(* PortsMarked rules that out, and is in turn kept by clearSession only    *)
(* because ports are exclusive.                                            *)
(*                                                                         *)
(* Such nodes can stand where Frontend has a node that only keeps          *)
(* NodeLink's promise; the last part is what neither side can guarantee    *)
(* alone.                                                                  *)
(***************************************************************************)
EXTENDS Deployment, FrontendProofs

-----------------------------------------------------------------------------
(* The nodes.                                                                *)

\* A pointer not yet known to dangle leads to an open session.
ValidFound ==
  \A n \in Nodes : \A i \in infos[n] : i.found = "valid" => Open(n, i.key)

NodeInv == NodeTypeOK /\ PortsMarked /\ PortsExclusive /\ ValidFound

\* What the node's own variables must be for NodeTypeOK.
TableType ==
  /\ usedWeb \in [Nodes -> SUBSET Ports]
  /\ usedSock \in [Nodes -> SUBSET Socks]
  /\ usedRtc \in [Nodes -> SUBSET Rtcs]
  /\ sessions \in [Nodes -> [Keys -> Session \cup {NoSession}]]
  /\ infos \in [Nodes -> SUBSET SessionInfo]

-----------------------------------------------------------------------------
(* Facts about the port lists.                                             *)

\* findAvailablePort returns a port that is not in use, or none.
LEMMA FoundPortIsFree ==
  ASSUME NEW all, NEW used, NEW p \in FindAvailablePort(all, used), p # NoPort
  PROVE  p \in all /\ p \notin used
BY DEF FindAvailablePort

\* What it returns when it returns something else is no port.
LEMMA FoundPortType ==
  ASSUME NEW all, NEW used, NEW p \in FindAvailablePort(all, used)
  PROVE  p \in all \cup {NoPort}
BY DEF FindAvailablePort

LEMMA MarkType ==
  ASSUME NEW all, NEW used \in SUBSET all, NEW p \in all \cup {NoPort}
  PROVE  Mark(used, p) \in SUBSET all
BY DEF Mark

LEMMA ReleaseType ==
  ASSUME NEW all, NEW used \in SUBSET all, NEW p
  PROVE  Release(used, p) \in SUBSET all
BY DEF Release

\* An open session is a Session.
LEMMA OpenIsSession ==
  ASSUME TableType, NEW n \in Nodes, NEW k \in Keys, Open(n, k)
  PROVE  sessions[n][k] \in Session
BY DEF TableType, Open

\* A step that opens no session, and changes neither marks nor the ports of a
\* session, keeps both invariants.
SamePorts ==
  /\ UNCHANGED <<usedWeb, usedSock, usedRtc>>
  /\ \A n \in Nodes : \A k \in Keys :
       sessions'[n][k] # NoSession =>
         /\ sessions[n][k] # NoSession
         /\ sessions'[n][k].web = sessions[n][k].web
         /\ sessions'[n][k].sock = sessions[n][k].sock
         /\ sessions'[n][k].rtc = sessions[n][k].rtc

\* A step that closes no session and makes no pointer valid.
OpenKept ==
  /\ \A n \in Nodes : \A k \in Keys : Open(n, k) => Open(n, k)'
  /\ \A n \in Nodes : \A i \in infos'[n] : i.found = "valid" => i \in infos[n]

LEMMA OpenKeptKeeps ==
  ASSUME TableType, ValidFound, OpenKept
  PROVE  ValidFound'
<1>1. \A n \in Nodes : \A i \in infos[n] : i.key \in Keys
  BY DEF TableType, SessionInfo
<1>. QED BY <1>1 DEF ValidFound, OpenKept

LEMMA SamePortsKeeps ==
  ASSUME PortsMarked, PortsExclusive, SamePorts
  PROVE  PortsMarked' /\ PortsExclusive'
<1>1. PortsMarked'
  BY DEF PortsMarked, SamePorts, Open
<1>2. PortsExclusive'
  BY DEF PortsExclusive, SamePorts, Open
<1>. QED BY <1>1, <1>2

\* A step that replaces one open session by one with the same ports.
LEMMA UpdateSession ==
  ASSUME TableType, NEW n \in Nodes, NEW k \in Keys, Open(n, k),
         NEW s \in Session,
         s.web = sessions[n][k].web, s.sock = sessions[n][k].sock,
         s.rtc = sessions[n][k].rtc,
         sessions' = [sessions EXCEPT ![n][k] = s],
         UNCHANGED <<usedWeb, usedSock, usedRtc>>
  PROVE  /\ SamePorts
         /\ sessions' \in [Nodes -> [Keys -> Session \cup {NoSession}]]
         /\ \A i \in Nodes : \A l \in Keys : Open(i, l) => Open(i, l)'
<1>1. SamePorts
  BY DEF SamePorts, TableType, Open
<1>2. sessions' \in [Nodes -> [Keys -> Session \cup {NoSession}]]
  BY DEF TableType
<1>3. \A i \in Nodes : \A l \in Keys : Open(i, l) => Open(i, l)'
  BY NoSessionAssumption DEF TableType, Open
<1>. QED BY <1>1, <1>2, <1>3

-----------------------------------------------------------------------------
(* The handlers of requests.                                               *)

\* The wire's part of a handler that answers.
LEMMA HandlerLink ==
  ASSUME LinkTypeOK, NEW n \in Nodes, NEW j, NEW m, NodeReads(n, j, m),
         NEW r \in Replies, NodeSends(n, r), UNCHANGED <<up, wired, starts, con>>
  PROVE  LinkTypeOK'
<1>1. toNode' \in [Nodes -> Seq(Requests)]
  BY NodeReadsType
<1>2. toFrontend' \in [Links -> Seq(Replies)]
  BY NodeSendsType
<1>. QED BY <1>1, <1>2 DEF LinkTypeOK

\* A start request names a key and a port.
LEMMA StartRequestType ==
  ASSUME LinkTypeOK, NEW n \in Nodes, NEW j, NEW m, NodeReads(n, j, m), m.type = "start"
  PROVE  m.key \in Keys /\ m.port \in Ports
<1>1. m \in Requests
  BY NodeReadsType
<1>. QED BY <1>1 DEF Requests, InfoRequest

LEMMA CloseRequestType ==
  ASSUME LinkTypeOK, NEW n \in Nodes, NEW j, NEW m, NodeReads(n, j, m), m.type = "close"
  PROVE  m.key \in Keys
<1>1. m \in Requests
  BY NodeReadsType
<1>. QED BY <1>1 DEF Requests, InfoRequest

\* Marking more ports and opening no session keeps the invariants.
LEMMA MarkingKeeps ==
  ASSUME PortsMarked, PortsExclusive, UNCHANGED sessions,
         \A i \in Nodes : /\ usedWeb[i] \subseteq usedWeb'[i]
                          /\ usedSock[i] \subseteq usedSock'[i]
                          /\ usedRtc[i] \subseteq usedRtc'[i]
  PROVE  PortsMarked' /\ PortsExclusive'
BY DEF PortsMarked, PortsExclusive, Open

\* startNewSession: refused, it only marks; otherwise the ports it marks for
\* the new session were nobody's.
LEMMA StartNewSessionKeeps ==
  ASSUME NodeInv, NEW n \in Nodes, NEW j, NEW m, StartNewSession(n, j, m)
  PROVE  NodeInv'
<1>. USE DEF NodeInv
<1>1. LinkTypeOK /\ TableType /\ m.type = "start" /\ NodeReads(n, j, m)
  BY DEF NodeTypeOK, TableType, StartNewSession
<1>2. m.key \in Keys /\ m.port \in Ports
  BY <1>1, StartRequestType
<1>3. \A s \in LaunchStatus : StartResult(m.key, s) \in Replies
  BY <1>2 DEF Replies, StartResult
<1>4. PICK sock \in FindAvailablePort(Socks, usedSock[n]),
           rtc \in FindAvailablePort(Rtcs, usedRtc[n]) :
        /\ usedSock' = [usedSock EXCEPT ![n] = Mark(@, sock)]
        /\ usedRtc' = [usedRtc EXCEPT ![n] = Mark(@, rtc)]
        /\ \/ PortUnavailable(n, m, sock, rtc)
           \/ DuplicateName(n, m, sock, rtc)
           \/ Launch(n, m, sock, rtc)
  BY DEF StartNewSession
<1>5. UNCHANGED <<up, wired, starts, con, infos>>
  BY DEF StartNewSession
<1>6. usedSock' \in [Nodes -> SUBSET Socks]
  <2>1. sock \in Socks \cup {NoPort}
    BY FoundPortType
  <2>2. Mark(usedSock[n], sock) \in SUBSET Socks
    BY <1>1, <2>1, MarkType DEF TableType
  <2>. QED BY <1>1, <1>4, <2>2 DEF TableType
<1>7. usedRtc' \in [Nodes -> SUBSET Rtcs]
  <2>1. rtc \in Rtcs \cup {NoPort}
    BY FoundPortType
  <2>2. Mark(usedRtc[n], rtc) \in SUBSET Rtcs
    BY <1>1, <2>1, MarkType DEF TableType
  <2>. QED BY <1>1, <1>4, <2>2 DEF TableType
<1>8. Mark(usedWeb[n], m.port) \in SUBSET Ports
  BY <1>1, <1>2, MarkType DEF TableType
<1>9. \A i \in Nodes : /\ usedSock[i] \subseteq usedSock'[i]
                       /\ usedRtc[i] \subseteq usedRtc'[i]
  BY <1>1, <1>4 DEF TableType, Mark
<1>13. ASSUME \A i \in Nodes : \A k \in Keys : Open(i, k) => Open(i, k)'
       PROVE  ValidFound'
  BY <1>1, <1>5, <1>13, OpenKeptKeeps DEF OpenKept
<1>10. CASE PortUnavailable(n, m, sock, rtc)
  <2>1. LinkTypeOK'
    BY <1>1, <1>3, <1>5, <1>10, HandlerLink DEF PortUnavailable, LaunchStatus
  <2>2. NodeTypeOK'
    BY <1>1, <1>5, <1>6, <1>7, <1>10, <2>1 DEF NodeTypeOK, TableType, PortUnavailable
  <2>3. PortsMarked' /\ PortsExclusive'
    BY <1>9, <1>10, MarkingKeeps DEF PortUnavailable
  <2>4. ValidFound'
    BY <1>10, <1>13 DEF PortUnavailable, Open
  <2>. QED BY <2>2, <2>3, <2>4
<1>11. CASE DuplicateName(n, m, sock, rtc)
  <2>1. LinkTypeOK'
    BY <1>1, <1>3, <1>5, <1>11, HandlerLink DEF DuplicateName, LaunchStatus
  <2>2. usedWeb' \in [Nodes -> SUBSET Ports]
    BY <1>1, <1>8, <1>11 DEF TableType, DuplicateName
  <2>3. NodeTypeOK'
    BY <1>1, <1>5, <1>6, <1>7, <1>11, <2>1, <2>2 DEF NodeTypeOK, TableType, DuplicateName
  <2>4. \A i \in Nodes : usedWeb[i] \subseteq usedWeb'[i]
    BY <1>1, <1>11 DEF TableType, DuplicateName, Mark
  <2>5. PortsMarked' /\ PortsExclusive'
    BY <1>9, <1>11, <2>4, MarkingKeeps DEF DuplicateName
  <2>6. ValidFound'
    BY <1>11, <1>13 DEF DuplicateName, Open
  <2>. QED BY <2>3, <2>5, <2>6
<1>12. CASE Launch(n, m, sock, rtc)
  <2>1. PICK launched \in BOOLEAN :
          /\ sessions' = [sessions EXCEPT ![n][m.key] =
               NewSession(m.port, sock, rtc, IF launched THEN "launching" ELSE "stuck")]
          /\ NodeSends(n, StartResult(m.key, IF launched THEN "ok" ELSE "crashed"))
    BY <1>12 DEF Launch
  <2> DEFINE s == NewSession(m.port, sock, rtc, IF launched THEN "launching" ELSE "stuck")
  <2>2. /\ m.port \notin usedWeb[n] /\ ~Open(n, m.key)
        /\ usedWeb' = [usedWeb EXCEPT ![n] = Mark(@, m.port)]
    BY <1>12 DEF Launch
  <2>3. sock \in Socks /\ sock \notin usedSock[n] /\ rtc \in Rtcs /\ rtc \notin usedRtc[n]
    BY <1>12, FoundPortIsFree DEF Launch
  <2>4. s \in Session /\ s.web = m.port /\ s.sock = sock /\ s.rtc = rtc
    BY <1>2, <2>3 DEF Session, NewSession
  <2>5. s # NoSession
    BY <2>4, NoSessionAssumption
  <2>6. LinkTypeOK'
    BY <1>1, <1>3, <1>5, <2>1, HandlerLink DEF LaunchStatus
  <2>7. usedWeb' \in [Nodes -> SUBSET Ports]
    BY <1>1, <1>8, <2>2 DEF TableType
  <2>8. sessions' \in [Nodes -> [Keys -> Session \cup {NoSession}]]
    BY <1>1, <1>2, <2>1, <2>4 DEF TableType
  <2>9. NodeTypeOK'
    BY <1>1, <1>5, <1>6, <1>7, <2>6, <2>7, <2>8 DEF NodeTypeOK, TableType
  <2>10. sessions'[n][m.key] = s
    BY <1>1, <1>2, <2>1 DEF TableType
  <2>11. \A i \in Nodes : \A k \in Keys :
           <<i, k>> # <<n, m.key>> => sessions'[i][k] = sessions[i][k]
    BY <1>1, <2>1 DEF TableType
  <2>12. /\ m.port \in usedWeb'[n] /\ sock \in usedSock'[n] /\ rtc \in usedRtc'[n]
         /\ \A i \in Nodes : usedWeb[i] \subseteq usedWeb'[i]
    BY <1>1, <1>2, <1>4, <2>2, <2>3, NoPortAssumption, NoSidePortAssumption
       DEF TableType, Mark
  <2> HIDE DEF s
  <2>13. PortsMarked'
    BY <1>9, <2>4, <2>10, <2>11, <2>12 DEF PortsMarked, Open
  <2>14. PortsExclusive'
    <3> SUFFICES ASSUME NEW i \in Nodes, NEW k \in Keys, NEW l \in Keys, k # l,
                        Open(i, k)', Open(i, l)'
                 PROVE  /\ sessions'[i][k].web # sessions'[i][l].web
                        /\ sessions'[i][k].sock # sessions'[i][l].sock
                        /\ sessions'[i][k].rtc # sessions'[i][l].rtc
      BY DEF PortsExclusive
    <3>1. CASE <<i, k>> = <<n, m.key>>
      <4>1. sessions'[i][l] = sessions[i][l] /\ Open(i, l)
        BY <2>11, <3>1 DEF Open
      <4>. QED BY <2>2, <2>3, <2>4, <2>10, <3>1, <4>1 DEF PortsMarked
    <3>2. CASE <<i, l>> = <<n, m.key>>
      <4>1. sessions'[i][k] = sessions[i][k] /\ Open(i, k)
        BY <2>11, <3>2 DEF Open
      <4>. QED BY <2>2, <2>3, <2>4, <2>10, <3>2, <4>1 DEF PortsMarked
    <3>3. CASE <<i, k>> # <<n, m.key>> /\ <<i, l>> # <<n, m.key>>
      BY <2>11, <3>3 DEF PortsExclusive, Open
    <3>. QED BY <3>1, <3>2, <3>3
  <2>15. ValidFound'
    BY <1>13, <2>2, <2>11, <2>10, <2>5 DEF Open
  <2>. QED BY <2>9, <2>13, <2>14, <2>15
<1>. QED BY <1>4, <1>10, <1>11, <1>12

\* finishSession changes nothing of a session but that its process was told.
LEMMA CloseUserSessionKeeps ==
  ASSUME NodeInv, NEW n \in Nodes, NEW j, NEW m, CloseUserSession(n, j, m)
  PROVE  NodeInv'
<1>. USE DEF NodeInv
<1>1. LinkTypeOK /\ TableType /\ m.type = "close" /\ NodeReads(n, j, m)
  BY DEF NodeTypeOK, TableType, CloseUserSession
<1>2. m.key \in Keys
  BY <1>1, CloseRequestType
<1>3. LinkTypeOK'
  <2>1. CloseResult(m.key) \in Replies
    BY <1>2 DEF Replies, CloseResult
  <2>. QED BY <1>1, <2>1, HandlerLink DEF CloseUserSession
<1>4. /\ SamePorts /\ sessions' \in [Nodes -> [Keys -> Session \cup {NoSession}]]
      /\ \A i \in Nodes : \A l \in Keys : Open(i, l) => Open(i, l)'
  <2>1. CASE Open(n, m.key)
    <3> DEFINE s == Finish(sessions[n][m.key])
    <3>1. sessions[n][m.key] \in Session
      BY <1>1, <1>2, <2>1, OpenIsSession
    <3>2. /\ s \in Session
          /\ s.web = sessions[n][m.key].web /\ s.sock = sessions[n][m.key].sock
          /\ s.rtc = sessions[n][m.key].rtc
      BY <3>1 DEF Session, Finish
    <3>3. sessions' = [sessions EXCEPT ![n][m.key] = s]
      BY <2>1 DEF CloseUserSession, FinishSession
    <3>4. UNCHANGED <<usedWeb, usedSock, usedRtc>>
      BY DEF CloseUserSession
    <3> HIDE DEF s
    <3>. QED BY <1>1, <1>2, <2>1, <3>2, <3>3, <3>4, UpdateSession
  <2>2. CASE ~Open(n, m.key)
    BY <1>1, <2>2 DEF CloseUserSession, FinishSession, SamePorts, TableType, Open
  <2>. QED BY <2>1, <2>2
<1>5. NodeTypeOK'
  BY <1>1, <1>3, <1>4 DEF NodeTypeOK, TableType, CloseUserSession
<1>6. ValidFound'
  BY <1>1, <1>4, OpenKeptKeeps DEF OpenKept, CloseUserSession
<1>. QED BY <1>4, <1>5, <1>6, SamePortsKeeps

LEMMA SendNodeInfoKeeps ==
  ASSUME NodeInv, NEW n \in Nodes, NEW j, NEW m, SendNodeInfo(n, j, m)
  PROVE  NodeInv'
<1>. USE DEF NodeInv
<1>1. LinkTypeOK /\ TableType /\ NodeReads(n, j, m)
  BY DEF NodeTypeOK, TableType, SendNodeInfo
<1>2. NodeInfo(usedWeb[n]) \in Replies
  BY <1>1 DEF Replies, NodeInfo, TableType
<1>3. LinkTypeOK'
  BY <1>1, <1>2, HandlerLink DEF SendNodeInfo
<1>4. SamePorts
  BY DEF SendNodeInfo, nodeVars, SamePorts
<1>5. NodeTypeOK'
  BY <1>1, <1>3 DEF NodeTypeOK, TableType, SendNodeInfo, nodeVars
<1>6. ValidFound'
  BY <1>1, OpenKeptKeeps DEF OpenKept, SendNodeInfo, nodeVars, Open
<1>. QED BY <1>4, <1>5, <1>6, SamePortsKeeps

-----------------------------------------------------------------------------
(* The launch threads, the processes and the inner server.                 *)

\* A change of what a session's process does keeps the invariants.
LEMMA SetProcKeeps ==
  ASSUME NodeInv, NEW n \in Nodes, NEW k \in Keys, Open(n, k),
         NEW p \in {"launching", "running", "announced", "exited", "stuck"},
         SetProc(n, k, p), infos' \in [Nodes -> SUBSET SessionInfo],
         \A i \in Nodes : \A x \in infos'[i] : x.found = "valid" => x \in infos[i]
  PROVE  NodeInv'
<1>. USE DEF NodeInv
<1>1. LinkTypeOK /\ TableType
  BY DEF NodeTypeOK, TableType
<1> DEFINE s == [sessions[n][k] EXCEPT !.proc = p]
<1>2. sessions[n][k] \in Session
  BY <1>1, OpenIsSession
<1>3. /\ s \in Session
      /\ s.web = sessions[n][k].web /\ s.sock = sessions[n][k].sock
      /\ s.rtc = sessions[n][k].rtc
  BY <1>2 DEF Session
<1>4. sessions' = [sessions EXCEPT ![n][k] = s]
  BY <1>1 DEF SetProc, TableType
<1>5. UNCHANGED <<usedWeb, usedSock, usedRtc>> /\ UNCHANGED linkVars
  BY DEF SetProc
<1> HIDE DEF s
<1>6. /\ SamePorts /\ sessions' \in [Nodes -> [Keys -> Session \cup {NoSession}]]
      /\ \A i \in Nodes : \A l \in Keys : Open(i, l) => Open(i, l)'
  BY <1>1, <1>3, <1>4, <1>5, UpdateSession
<1>7. NodeTypeOK'
  BY <1>1, <1>5, <1>6, LinkUnchanged DEF NodeTypeOK, TableType
<1>8. ValidFound'
  BY <1>1, <1>6, OpenKeptKeeps DEF OpenKept
<1>. QED BY <1>6, <1>7, <1>8, SamePortsKeeps

LEMMA ForkKeeps ==
  ASSUME NodeInv, NEW n \in Nodes, NEW k \in Keys, Fork(n, k)
  PROVE  NodeInv'
BY SetProcKeeps DEF Fork, In, NodeInv, NodeTypeOK

LEMMA ProcessAnnouncesKeeps ==
  ASSUME NodeInv, NEW n \in Nodes, NEW k \in Keys, ProcessAnnounces(n, k)
  PROVE  NodeInv'
<1>1. infos \in [Nodes -> SUBSET SessionInfo]
  BY DEF NodeInv, NodeTypeOK
<1>2. [key |-> k, found |-> "none", own |-> TRUE] \in SessionInfo
  BY DEF SessionInfo
<1>3. infos' \in [Nodes -> SUBSET SessionInfo]
  BY <1>1, <1>2 DEF ProcessAnnounces
<1>4. \A i \in Nodes : \A x \in infos'[i] : x.found = "valid" => x \in infos[i]
  BY <1>1 DEF ProcessAnnounces
<1>. QED BY <1>3, <1>4, SetProcKeeps DEF ProcessAnnounces, In

LEMMA ProcessEndsKeeps ==
  ASSUME NodeInv, NEW n \in Nodes, NEW k \in Keys, ProcessEnds(n, k)
  PROVE  NodeInv'
BY SetProcKeeps DEF ProcessEnds, In, NodeInv, NodeTypeOK

\* clearSession releases ports of its own session only, because no other open
\* session has them.
LEMMA ClearSessionKeeps ==
  ASSUME NodeInv, NEW n \in Nodes, NEW k \in Keys, ClearSession(n, k)
  PROVE  NodeInv'
<1>. USE DEF NodeInv
<1>1. LinkTypeOK /\ TableType /\ Open(n, k)
  BY DEF NodeTypeOK, TableType, ClearSession, In
<1> DEFINE s == sessions[n][k]
<1>2. /\ usedWeb' = [usedWeb EXCEPT ![n] = Release(@, s.web)]
      /\ usedSock' = [usedSock EXCEPT ![n] = Release(@, s.sock)]
      /\ usedRtc' = [usedRtc EXCEPT ![n] = Release(@, s.rtc)]
      /\ sessions' = [sessions EXCEPT ![n][k] = NoSession]
      /\ infos' = [infos EXCEPT ![n] = {Orphan(i, k) : i \in @}]
      /\ UNCHANGED linkVars
  BY DEF ClearSession
<1>3. infos' \in [Nodes -> SUBSET SessionInfo]
  <2>1. \A i \in SessionInfo : Orphan(i, k) \in SessionInfo
    BY DEF SessionInfo, Orphan
  <2>. QED BY <1>1, <1>2, <2>1 DEF TableType
<1>4. sessions' \in [Nodes -> [Keys -> Session \cup {NoSession}]]
  BY <1>1, <1>2 DEF TableType
<1>5. /\ usedWeb' \in [Nodes -> SUBSET Ports]
      /\ usedSock' \in [Nodes -> SUBSET Socks]
      /\ usedRtc' \in [Nodes -> SUBSET Rtcs]
  BY <1>1, <1>2 DEF TableType, Release
<1>6. NodeTypeOK'
  BY <1>1, <1>2, <1>3, <1>4, <1>5, LinkUnchanged DEF NodeTypeOK
<1>7. \A i \in Nodes : \A l \in Keys :
        Open(i, l)' => <<i, l>> # <<n, k>> /\ Open(i, l) /\ sessions'[i][l] = sessions[i][l]
  BY <1>1, <1>2 DEF TableType, Open
<1>8. PortsExclusive'
  BY <1>7 DEF PortsExclusive
<1>9. PortsMarked'
  <2> SUFFICES ASSUME NEW i \in Nodes, NEW l \in Keys, Open(i, l)'
               PROVE  /\ sessions[i][l].web \in usedWeb'[i]
                      /\ sessions[i][l].sock \in usedSock'[i]
                      /\ sessions[i][l].rtc \in usedRtc'[i]
    BY <1>7 DEF PortsMarked
  <2>1. Open(i, l) /\ <<i, l>> # <<n, k>>
    BY <1>7
  <2>2. CASE i # n
    BY <1>1, <1>2, <2>1, <2>2 DEF PortsMarked, TableType
  <2>3. CASE i = n
    <3>1. /\ sessions[n][l].web # s.web /\ sessions[n][l].sock # s.sock
          /\ sessions[n][l].rtc # s.rtc
      BY <1>1, <2>1, <2>3 DEF PortsExclusive
    <3>. QED BY <1>1, <1>2, <2>1, <2>3, <3>1 DEF PortsMarked, TableType, Release
  <2>. QED BY <2>2, <2>3
<1>10. ValidFound'
  <2> SUFFICES ASSUME NEW i \in Nodes, NEW x \in infos'[i], x.found = "valid"
               PROVE  Open(i, x.key)'
    BY DEF ValidFound
  <2>1. CASE i # n
    <3>1. x \in infos[i] /\ x.key \in Keys
      BY <1>1, <1>2, <2>1 DEF TableType, SessionInfo
    <3>. QED BY <1>1, <1>2, <2>1, <3>1 DEF ValidFound, TableType, Open
  <2>2. CASE i = n
    <3>1. PICK y \in infos[n] : x = Orphan(y, k)
      BY <1>1, <1>2, <2>2 DEF TableType
    <3>2. y \in SessionInfo
      BY <1>1 DEF TableType
    <3>3. y.key # k /\ x = y
      BY <3>1, <3>2 DEF Orphan, SessionInfo
    <3>4. y.key \in Keys /\ Open(n, y.key)
      BY <3>2, <3>3 DEF ValidFound, SessionInfo
    <3>. QED BY <1>1, <1>2, <2>2, <3>3, <3>4 DEF TableType, Open
  <2>. QED BY <2>1, <2>2
<1>. QED BY <1>6, <1>8, <1>9, <1>10

LEMMA SessionInfoLookupKeeps ==
  ASSUME NodeInv, NEW n \in Nodes, NEW i \in infos[n], SessionInfoLookup(n, i)
  PROVE  NodeInv'
<1>. USE DEF NodeInv
<1>1. LinkTypeOK /\ TableType /\ i \in SessionInfo
  BY DEF NodeTypeOK, TableType
<1>3. UNCHANGED linkVars /\ SamePorts /\ UNCHANGED sessions
  BY DEF SessionInfoLookup, SamePorts
<1> DEFINE y == [i EXCEPT !.found = "valid"]
<1>4. y \in SessionInfo /\ y.key = i.key
  BY <1>1 DEF SessionInfo
<1>5. /\ infos' \in [Nodes -> SUBSET SessionInfo]
      /\ \A m \in Nodes : \A x \in infos'[m] :
           x \in infos[m] \/ (m = n /\ x = y /\ Open(n, i.key))
  <2>1. CASE Open(n, i.key)
    <3>1. infos' = [infos EXCEPT ![n] = (@ \ {i}) \cup {y}]
      BY <2>1 DEF SessionInfoLookup
    <3> HIDE DEF y
    <3>. QED BY <1>1, <1>4, <2>1, <3>1 DEF TableType
  <2>2. CASE ~Open(n, i.key)
    <3>1. infos' = [infos EXCEPT ![n] = @ \ {i}]
      BY <2>2 DEF SessionInfoLookup, Drop
    <3>. QED BY <1>1, <3>1 DEF TableType
  <2>. QED BY <2>1, <2>2
<1>6. ValidFound'
  <2> SUFFICES ASSUME NEW m \in Nodes, NEW x \in infos'[m], x.found = "valid"
               PROVE  Open(m, x.key)'
    BY DEF ValidFound
  <2>1. Open(m, x.key)
    BY <1>4, <1>5 DEF ValidFound
  <2>. QED BY <1>3, <2>1 DEF Open
<1>7. NodeTypeOK'
  BY <1>1, <1>3, <1>5, LinkUnchanged DEF NodeTypeOK, TableType, SessionInfoLookup
<1>. QED BY <1>3, <1>6, <1>7, SamePortsKeeps

LEMMA SetConnectionKeeps ==
  ASSUME NodeInv, NEW n \in Nodes, NEW i \in infos[n], SetConnection(n, i)
  PROVE  NodeInv'
<1>. USE DEF NodeInv
<1>1. LinkTypeOK /\ TableType /\ i \in SessionInfo /\ i.key \in Keys
  BY DEF NodeTypeOK, TableType, SessionInfo
<1>2. /\ UNCHANGED linkVars /\ UNCHANGED <<usedWeb, usedSock, usedRtc>>
      /\ infos' = [infos EXCEPT ![n] = @ \ {i}]
  BY DEF SetConnection, Drop
<1>3. infos' \in [Nodes -> SUBSET SessionInfo]
  BY <1>1, <1>2 DEF TableType
<1>4. /\ SamePorts /\ sessions' \in [Nodes -> [Keys -> Session \cup {NoSession}]]
      /\ \A x \in Nodes : \A l \in Keys : Open(x, l) => Open(x, l)'
  <2>1. CASE i.found = "valid"
    <3> DEFINE s == [sessions[n][i.key] EXCEPT !.conn = IF i.own THEN "live" ELSE "gone"]
    <3>1. Open(n, i.key) /\ sessions[n][i.key] \in Session
      BY <1>1, <2>1, OpenIsSession DEF ValidFound
    <3>2. /\ s \in Session
          /\ s.web = sessions[n][i.key].web /\ s.sock = sessions[n][i.key].sock
          /\ s.rtc = sessions[n][i.key].rtc
      BY <3>1 DEF Session
    <3>3. sessions' = [sessions EXCEPT ![n][i.key] = s]
      BY <1>1, <2>1 DEF SetConnection, TableType
    <3> HIDE DEF s
    <3>. QED BY <1>1, <1>2, <3>1, <3>2, <3>3, UpdateSession
  <2>2. CASE i.found # "valid"
    BY <1>1, <1>2, <2>2 DEF SetConnection, SamePorts, TableType, Open
  <2>. QED BY <2>1, <2>2
<1>5. NodeTypeOK'
  BY <1>1, <1>2, <1>3, <1>4, LinkUnchanged DEF NodeTypeOK, TableType
<1>6. \A x \in Nodes : infos'[x] \subseteq infos[x]
  BY <1>1, <1>2 DEF TableType
<1>7. ValidFound'
  BY <1>1, <1>4, <1>6, OpenKeptKeeps DEF OpenKept
<1>. QED BY <1>4, <1>5, <1>7, SamePortsKeeps

LEMMA ProcessLinkBreaksKeeps ==
  ASSUME NodeInv, NEW n \in Nodes, NEW k \in Keys, ProcessLinkBreaks(n, k)
  PROVE  NodeInv'
<1>. USE DEF NodeInv
<1>1. LinkTypeOK /\ TableType /\ Open(n, k)
  BY DEF NodeTypeOK, TableType, ProcessLinkBreaks
<1> DEFINE s == [sessions[n][k] EXCEPT !.conn = "gone"]
<1>2. sessions[n][k] \in Session
  BY <1>1, OpenIsSession
<1>3. /\ s \in Session
      /\ s.web = sessions[n][k].web /\ s.sock = sessions[n][k].sock
      /\ s.rtc = sessions[n][k].rtc
  BY <1>2 DEF Session
<1>4. sessions' = [sessions EXCEPT ![n][k] = s]
  BY <1>1 DEF ProcessLinkBreaks, TableType
<1>5. UNCHANGED <<usedWeb, usedSock, usedRtc>> /\ UNCHANGED linkVars
  BY DEF ProcessLinkBreaks
<1> HIDE DEF s
<1>6. /\ SamePorts /\ sessions' \in [Nodes -> [Keys -> Session \cup {NoSession}]]
      /\ \A i \in Nodes : \A l \in Keys : Open(i, l) => Open(i, l)'
  BY <1>1, <1>3, <1>4, <1>5, UpdateSession
<1>7. NodeTypeOK'
  BY <1>1, <1>5, <1>6, LinkUnchanged DEF NodeTypeOK, TableType, ProcessLinkBreaks
<1>8. ValidFound'
  BY <1>1, <1>6, OpenKeptKeeps DEF OpenKept, ProcessLinkBreaks
<1>. QED BY <1>6, <1>7, <1>8, SamePortsKeeps

-----------------------------------------------------------------------------
(* The node process as a whole.                                            *)

\* A step of the wire that leaves the node's own variables alone.
LEMMA NodeUnchangedKeeps ==
  ASSUME NodeInv, LinkTypeOK', UNCHANGED nodeVars
  PROVE  NodeInv'
<1>1. NodeTypeOK'
  BY DEF NodeInv, NodeTypeOK, nodeVars
<1>2. SamePorts
  BY DEF nodeVars, SamePorts
<1>3. ValidFound'
  BY DEF NodeInv, ValidFound, nodeVars, Open
<1>. QED BY <1>1, <1>2, <1>3, SamePortsKeeps DEF NodeInv

LEMMA StopNodeKeeps ==
  ASSUME NodeInv, NEW n \in Nodes, StopNode(n)
  PROVE  NodeInv'
<1>. USE DEF NodeInv
<1>1. LinkTypeOK /\ TableType
  BY DEF NodeTypeOK, TableType
<1>2. LinkTypeOK'
  BY <1>1, NodeStopsType DEF StopNode
<1>3. NodeTypeOK'
  BY <1>1, <1>2 DEF NodeTypeOK, TableType, StopNode, Forget
<1>4. \A i \in Nodes : \A k \in Keys :
        /\ Open(i, k)' => i # n /\ Open(i, k) /\ sessions'[i][k] = sessions[i][k]
        /\ i # n => /\ usedWeb'[i] = usedWeb[i] /\ usedSock'[i] = usedSock[i]
                    /\ usedRtc'[i] = usedRtc[i]
  BY <1>1 DEF TableType, StopNode, Forget, Open
<1>5. PortsMarked'
  BY <1>4 DEF PortsMarked
<1>6. PortsExclusive'
  BY <1>4 DEF PortsExclusive
<1>7. ValidFound'
  BY <1>1 DEF ValidFound, TableType, StopNode, Forget, Open
<1>. QED BY <1>3, <1>5, <1>6, <1>7

LEMMA InterruptNodeKeeps ==
  ASSUME NodeInv, NEW n \in Nodes, InterruptNode(n)
  PROVE  NodeInv'
<1>. USE DEF NodeInv
<1>1. LinkTypeOK /\ TableType
  BY DEF NodeTypeOK, TableType
<1>2. LinkTypeOK'
  <2>1. CASE wired[n]
    BY <1>1, <2>1, LinkFaultsType DEF InterruptNode, LinkFaults
  <2>2. CASE ~wired[n]
    BY <1>1, <2>2, LinkUnchanged DEF InterruptNode
  <2>. QED BY <2>1, <2>2
<1>3. PICK reached \in SUBSET {k \in Keys : Open(n, k) /\ Reachable(sessions[n][k])} :
        sessions' = [sessions EXCEPT ![n] =
          [k \in Keys |-> IF k \in reached THEN Finish(@[k]) ELSE @[k]]]
  BY DEF InterruptNode, FinishAllSessions
<1>4. \A i \in Nodes : \A k \in Keys :
        \/ sessions'[i][k] = sessions[i][k]
        \/ Open(i, k) /\ sessions'[i][k] = Finish(sessions[i][k])
  BY <1>1, <1>3 DEF TableType
<1>5. \A s \in Session :
        /\ Finish(s) \in Session
        /\ Finish(s).web = s.web /\ Finish(s).sock = s.sock /\ Finish(s).rtc = s.rtc
  BY DEF Session, Finish
<1>6. \A i \in Nodes : \A k \in Keys :
        /\ sessions'[i][k] \in Session \cup {NoSession}
        /\ Open(i, k) <=> Open(i, k)'
        /\ Open(i, k) => /\ sessions'[i][k].web = sessions[i][k].web
                         /\ sessions'[i][k].sock = sessions[i][k].sock
                         /\ sessions'[i][k].rtc = sessions[i][k].rtc
  <2> SUFFICES ASSUME NEW i \in Nodes, NEW k \in Keys
               PROVE  /\ sessions'[i][k] \in Session \cup {NoSession}
                      /\ Open(i, k) <=> Open(i, k)'
                      /\ Open(i, k) => /\ sessions'[i][k].web = sessions[i][k].web
                                       /\ sessions'[i][k].sock = sessions[i][k].sock
                                       /\ sessions'[i][k].rtc = sessions[i][k].rtc
    OBVIOUS
  <2>1. CASE sessions'[i][k] = sessions[i][k]
    BY <1>1, <2>1 DEF TableType, Open
  <2>2. CASE Open(i, k) /\ sessions'[i][k] = Finish(sessions[i][k])
    BY <1>1, <1>5, <2>2, OpenIsSession, NoSessionAssumption DEF Open
  <2>. QED BY <1>4, <2>1, <2>2
<1>7. sessions' \in [Nodes -> [Keys -> Session \cup {NoSession}]]
  <2>1. DOMAIN sessions' = Nodes /\ \A i \in Nodes : sessions'[i] \in [Keys -> Session \cup {NoSession}]
    <3> SUFFICES ASSUME NEW i \in Nodes
                 PROVE  sessions'[i] \in [Keys -> Session \cup {NoSession}]
      BY <1>1, <1>3 DEF TableType
    <3>1. CASE i = n
      <4> DEFINE f == [k \in Keys |-> IF k \in reached THEN Finish(sessions[n][k])
                                      ELSE sessions[n][k]]
      <4>1. sessions'[i] = f
        BY <1>1, <1>3, <3>1 DEF TableType
      <4>2. \A k \in Keys : f[k] \in Session \cup {NoSession}
        BY <1>6, <4>1
      <4>3. f \in [Keys -> Session \cup {NoSession}]
        BY <4>2
      <4>. QED BY <4>1, <4>3
    <3>2. CASE i # n
      BY <1>1, <1>3, <3>2 DEF TableType
    <3>. QED BY <3>1, <3>2
  <2>. QED BY <1>1, <1>3, <2>1 DEF TableType
<1>8. SamePorts
  BY <1>6 DEF SamePorts, InterruptNode, Open
<1>9. ValidFound'
  BY <1>1, <1>6, OpenKeptKeeps DEF OpenKept, InterruptNode
<1>10. NodeTypeOK'
  BY <1>1, <1>2, <1>7 DEF NodeTypeOK, TableType, InterruptNode
<1>. QED BY <1>8, <1>9, <1>10, SamePortsKeeps

-----------------------------------------------------------------------------
(* All of it.                                                              *)

LEMMA NodeInvInit == LinkInit /\ NodeInit => NodeInv
<1>1. ASSUME LinkInit, NodeInit
      PROVE  NodeInv
  <2>1. LinkTypeOK
    BY <1>1, LinkInitType
  <2>2. NodeTypeOK
    BY <1>1, <2>1 DEF NodeInit, NodeTypeOK
  <2>3. PortsMarked /\ PortsExclusive /\ ValidFound
    BY <1>1 DEF NodeInit, PortsMarked, PortsExclusive, ValidFound, Open
  <2>. QED BY <2>2, <2>3 DEF NodeInv
<1>. QED BY <1>1

LEMMA NodeNextKeeps ==
  ASSUME NodeInv, NEW n \in Nodes, NodeNext(n)
  PROVE  NodeInv'
<1>1. LinkTypeOK
  BY DEF NodeInv, NodeTypeOK
<1>2. CASE StartNode(n)
  BY <1>1, <1>2, NodeStartsType, NodeUnchangedKeeps DEF StartNode
<1>3. CASE StopNode(n)
  BY <1>3, StopNodeKeeps
<1>4. CASE InterruptNode(n) \/ (LinkFaults(n) /\ UNCHANGED nodeVars)
  BY <1>1, <1>4, InterruptNodeKeeps, LinkFaultsType, NodeUnchangedKeeps
<1>5. CASE Request(n)
  BY <1>5, StartNewSessionKeeps, CloseUserSessionKeeps, SendNodeInfoKeeps DEF Request
<1>6. ASSUME NEW k \in Keys,
             \/ Fork(n, k) \/ ProcessAnnounces(n, k) \/ ProcessEnds(n, k)
             \/ ClearSession(n, k) \/ ProcessLinkBreaks(n, k)
      PROVE  NodeInv'
  BY <1>6, ForkKeeps, ProcessAnnouncesKeeps, ProcessEndsKeeps, ClearSessionKeeps,
     ProcessLinkBreaksKeeps
<1>7. ASSUME NEW i \in infos[n], SessionInfoLookup(n, i) \/ SetConnection(n, i)
      PROVE  NodeInv'
  BY <1>7, SessionInfoLookupKeeps, SetConnectionKeeps
<1>. QED BY <1>2, <1>3, <1>4, <1>5, <1>6, <1>7 DEF NodeNext

-----------------------------------------------------------------------------
(* The three lists.                                                        *)

SidesInStep(n) ==
  /\ Cardinality(usedSock[n]) = Cardinality(usedRtc[n])
  /\ Cardinality(usedWeb[n]) <= Cardinality(usedSock[n])

\* A list of ports has as many ports as it has room for, or one is free.
LEMMA FullList ==
  ASSUME NEW all, IsFiniteSet(all), NEW used \in SUBSET all
  PROVE  /\ IsFiniteSet(used) /\ Cardinality(used) \in Nat
         /\ Cardinality(used) <= Cardinality(all) /\ Cardinality(all) \in Nat
         /\ all \subseteq used <=> Cardinality(used) = Cardinality(all)
<1>1. /\ IsFiniteSet(used) /\ Cardinality(used) <= Cardinality(all)
      /\ Cardinality(all) = Cardinality(used) => all = used
  BY FS_Subset
<1>2. Cardinality(used) \in Nat /\ Cardinality(all) \in Nat
  BY <1>1, FS_CardinalityType
<1>3. all \subseteq used => all = used
  OBVIOUS
<1>. QED BY <1>1, <1>2, <1>3

\* findAvailablePort and the mark of what it found: one port more, unless the
\* list was full.
LEMMA FindAndMarkCount ==
  ASSUME NEW all, IsFiniteSet(all), NoPort \notin all, NEW used \in SUBSET all,
         NEW p \in FindAvailablePort(all, used)
  PROVE  /\ p = NoPort <=> Cardinality(used) = Cardinality(all)
         /\ Cardinality(Mark(used, p)) =
              IF p = NoPort THEN Cardinality(used) ELSE Cardinality(used) + 1
<1>1. /\ IsFiniteSet(used)
      /\ all \subseteq used <=> Cardinality(used) = Cardinality(all)
  BY FullList
<1>2. p = NoPort <=> all \subseteq used
  BY DEF FindAvailablePort
<1>3. CASE p = NoPort
  <2>1. Mark(used, p) = used
    BY <1>3 DEF Mark
  <2>. QED BY <1>1, <1>2, <1>3, <2>1
<1>4. CASE p # NoPort
  <2>1. Mark(used, p) = used \cup {p} /\ p \notin used
    BY <1>4, FoundPortIsFree DEF Mark
  <2>2. Cardinality(used \cup {p}) = Cardinality(used) + 1
    BY <1>1, <2>1, FS_AddElement
  <2>. QED BY <1>1, <1>2, <1>4, <2>1, <2>2
<1>. QED BY <1>3, <1>4

\* The web port of a request that is not refused for it.
LEMMA MarkWebCount ==
  ASSUME NEW used, IsFiniteSet(used), NEW p, p \notin used, p # NoPort
  PROVE  Cardinality(Mark(used, p)) = Cardinality(used) + 1
<1>1. Mark(used, p) = used \cup {p}
  BY DEF Mark
<1>. QED BY <1>1, FS_AddElement

LEMMA StartNewSessionSides ==
  ASSUME NodeInv, Cardinality(Socks) = Cardinality(Rtcs),
         NEW n \in Nodes, SidesInStep(n), NEW j, NEW m, StartNewSession(n, j, m)
  PROVE  SidesInStep(n)'
<1>1. TableType /\ LinkTypeOK
  BY DEF NodeInv, NodeTypeOK, TableType
<1>2. PICK sock \in FindAvailablePort(Socks, usedSock[n]),
           rtc \in FindAvailablePort(Rtcs, usedRtc[n]) :
        /\ usedSock' = [usedSock EXCEPT ![n] = Mark(@, sock)]
        /\ usedRtc' = [usedRtc EXCEPT ![n] = Mark(@, rtc)]
        /\ \/ PortUnavailable(n, m, sock, rtc)
           \/ DuplicateName(n, m, sock, rtc)
           \/ Launch(n, m, sock, rtc)
  BY DEF StartNewSession
<1>3. /\ sock = NoPort <=> Cardinality(usedSock[n]) = Cardinality(Socks)
      /\ Cardinality(usedSock'[n]) =
           IF sock = NoPort THEN Cardinality(usedSock[n]) ELSE Cardinality(usedSock[n]) + 1
  <2>1. usedSock[n] \in SUBSET Socks /\ usedSock'[n] = Mark(usedSock[n], sock)
    BY <1>1, <1>2 DEF TableType
  <2>. QED BY <1>2, <2>1, FindAndMarkCount, ListsAssumption, NoSidePortAssumption
<1>4. /\ rtc = NoPort <=> Cardinality(usedRtc[n]) = Cardinality(Rtcs)
      /\ Cardinality(usedRtc'[n]) =
           IF rtc = NoPort THEN Cardinality(usedRtc[n]) ELSE Cardinality(usedRtc[n]) + 1
  <2>1. usedRtc[n] \in SUBSET Rtcs /\ usedRtc'[n] = Mark(usedRtc[n], rtc)
    BY <1>1, <1>2 DEF TableType
  <2>. QED BY <1>2, <2>1, FindAndMarkCount, ListsAssumption, NoSidePortAssumption
<1>5. /\ Cardinality(usedWeb[n]) \in Nat /\ IsFiniteSet(usedWeb[n])
      /\ Cardinality(usedSock[n]) \in Nat /\ Cardinality(usedRtc[n]) \in Nat
  BY <1>1, FullList, ListsAssumption DEF TableType
<1>6. CASE PortUnavailable(n, m, sock, rtc)
  <2>1. usedWeb' = usedWeb
    BY <1>6 DEF PortUnavailable
  <2>. QED BY <1>3, <1>4, <1>5, <2>1 DEF SidesInStep
<1>7. CASE DuplicateName(n, m, sock, rtc) \/ Launch(n, m, sock, rtc)
  <2>1. /\ m.port \notin usedWeb[n] /\ sock # NoPort /\ rtc # NoPort
        /\ usedWeb' = [usedWeb EXCEPT ![n] = Mark(@, m.port)]
    BY <1>7 DEF DuplicateName, Launch
  <2>2. m.port # NoPort
    BY <1>1, StartRequestType, NoPortAssumption DEF StartNewSession
  <2>3. Cardinality(usedWeb'[n]) = Cardinality(usedWeb[n]) + 1
    BY <1>1, <1>5, <2>1, <2>2, MarkWebCount DEF TableType
  <2>. QED BY <1>3, <1>4, <1>5, <2>1, <2>3 DEF SidesInStep
<1>. QED BY <1>2, <1>6, <1>7

\* clearSession gives one port back to each list: all three were marked.
LEMMA ClearSessionCounts ==
  ASSUME NodeInv, NEW n \in Nodes, NEW k \in Keys, ClearSession(n, k)
  PROVE  /\ Cardinality(usedWeb'[n]) = Cardinality(usedWeb[n]) - 1
         /\ Cardinality(usedSock'[n]) = Cardinality(usedSock[n]) - 1
         /\ Cardinality(usedRtc'[n]) = Cardinality(usedRtc[n]) - 1
<1>1. TableType /\ Open(n, k)
  BY DEF NodeInv, NodeTypeOK, TableType, ClearSession, In
<1>2. /\ usedWeb'[n] = usedWeb[n] \ {sessions[n][k].web}
      /\ usedSock'[n] = usedSock[n] \ {sessions[n][k].sock}
      /\ usedRtc'[n] = usedRtc[n] \ {sessions[n][k].rtc}
  BY <1>1 DEF ClearSession, TableType, Release
<1>3. /\ sessions[n][k].web \in usedWeb[n]
      /\ sessions[n][k].sock \in usedSock[n]
      /\ sessions[n][k].rtc \in usedRtc[n]
  BY <1>1 DEF NodeInv, PortsMarked
<1>4. IsFiniteSet(usedWeb[n]) /\ IsFiniteSet(usedSock[n]) /\ IsFiniteSet(usedRtc[n])
  BY <1>1, FullList, ListsAssumption DEF TableType
<1>5. \A S, x : IsFiniteSet(S) /\ x \in S => Cardinality(S \ {x}) = Cardinality(S) - 1
  BY FS_RemoveElement
<1>. QED BY <1>2, <1>3, <1>4, <1>5

\* A node's step changes the lists of no other node.
LEMMA ListsOfOthers ==
  ASSUME NodeInv, NEW n \in Nodes, NodeNext(n), NEW m \in Nodes, m # n
  PROVE  usedWeb'[m] = usedWeb[m] /\ usedSock'[m] = usedSock[m] /\ usedRtc'[m] = usedRtc[m]
BY DEF NodeInv, NodeTypeOK, NodeNext, StartNode, InterruptNode, StopNode, Forget, Request,
   StartNewSession, PortUnavailable, DuplicateName, Launch, CloseUserSession, SendNodeInfo,
   Fork, ProcessAnnounces, ProcessEnds, SetProc, ClearSession, ProcessLinkBreaks,
   SessionInfoLookup, SetConnection, nodeVars

LEMMA NodeNextSides ==
  ASSUME NodeInv, Cardinality(Socks) = Cardinality(Rtcs),
         NEW n \in Nodes, SidesInStep(n), NodeNext(n)
  PROVE  SidesInStep(n)'
<1>1. TableType
  BY DEF NodeInv, NodeTypeOK, TableType
<1>2. ASSUME NEW j, NEW m, StartNewSession(n, j, m)
      PROVE  SidesInStep(n)'
  BY <1>2, StartNewSessionSides
<1>3. ASSUME NEW k \in Keys, ClearSession(n, k)
      PROVE  SidesInStep(n)'
  <2>1. /\ Cardinality(usedWeb[n]) \in Nat
        /\ Cardinality(usedSock[n]) \in Nat /\ Cardinality(usedRtc[n]) \in Nat
    BY <1>1, FullList, ListsAssumption DEF TableType
  <2>. QED BY <1>3, <2>1, ClearSessionCounts DEF SidesInStep
<1>4. CASE StopNode(n)
  <2>1. usedWeb'[n] = {} /\ usedSock'[n] = {} /\ usedRtc'[n] = {}
    BY <1>1, <1>4 DEF StopNode, Forget, TableType
  <2>. QED BY <2>1, FS_EmptySet DEF SidesInStep
<1>5. CASE UNCHANGED <<usedWeb, usedSock, usedRtc>>
  BY <1>5 DEF SidesInStep
<1>. QED BY <1>2, <1>3, <1>4, <1>5
     DEF NodeNext, StartNode, InterruptNode, Request, CloseUserSession, SendNodeInfo, Fork,
         ProcessAnnounces, ProcessEnds, SetProc, ProcessLinkBreaks, SessionInfoLookup,
         SetConnection, nodeVars

-----------------------------------------------------------------------------
(* What a node promises the frontend.                                      *)

\* A handler answers the one request it read, and about that one.
LEMMA RequestAnswers ==
  ASSUME NodeInv, NEW n \in Nodes, Request(n)
  PROVE  NodeAnswers(n)
<1>1. PICK j \in 1..Len(toNode[n]) :
        \/ StartNewSession(n, j, Head(toNode[n]))
        \/ CloseUserSession(n, j, Head(toNode[n]))
        \/ SendNodeInfo(n, j, Head(toNode[n]))
  BY DEF Request
<1> DEFINE m == Head(toNode[n])
<1>2. ASSUME NodeReads(n, j, m), NEW r \in AnswersTo(m), NodeSends(n, r),
             UNCHANGED <<up, wired, starts, con>>
      PROVE  NodeAnswers(n)
  BY <1>2 DEF NodeAnswers
<1>3. CASE StartNewSession(n, j, m)
  <2>1. m.type = "start" /\ NodeReads(n, j, m) /\ UNCHANGED <<up, wired, starts, con>>
    BY <1>3 DEF StartNewSession
  <2>2. \A s \in LaunchStatus : StartResult(m.key, s) \in AnswersTo(m)
    BY <2>1 DEF AnswersTo
  <2>3. \E s \in LaunchStatus : NodeSends(n, StartResult(m.key, s))
    BY <1>3 DEF StartNewSession, PortUnavailable, DuplicateName, Launch, LaunchStatus
  <2>. QED BY <1>2, <2>1, <2>2, <2>3
<1>4. CASE CloseUserSession(n, j, m)
  <2>1. CloseResult(m.key) \in AnswersTo(m)
    BY <1>4 DEF CloseUserSession, AnswersTo
  <2>. QED BY <1>2, <1>4, <2>1 DEF CloseUserSession
<1>5. CASE SendNodeInfo(n, j, m)
  <2>1. usedWeb[n] \in SUBSET Ports
    BY DEF NodeInv, NodeTypeOK
  <2>2. NodeInfo(usedWeb[n]) \in AnswersTo(m)
    BY <1>5, <2>1 DEF SendNodeInfo, AnswersTo
  <2>. QED BY <1>2, <1>5, <2>2 DEF SendNodeInfo
<1>. QED BY <1>1, <1>3, <1>4, <1>5

\* Every step of a node is one NodeLink allows it, or does not touch the wire.
LEMMA NodeStepOnLink ==
  ASSUME NodeInv, NEW n \in Nodes, NodeNext(n)
  PROVE  \/ NodeStarts(n) \/ NodeStops(n) \/ NodeAnswers(n) \/ LinkFaults(n)
         \/ UNCHANGED linkVars
<1>1. CASE Request(n)
  BY <1>1, RequestAnswers
<1>2. CASE InterruptNode(n)
  BY <1>2 DEF InterruptNode, LinkFaults
<1>3. CASE StartNode(n) \/ StopNode(n) \/ (LinkFaults(n) /\ UNCHANGED nodeVars)
  BY <1>3 DEF StartNode, StopNode
<1>4. ASSUME NEW k, \/ Fork(n, k) \/ ProcessAnnounces(n, k) \/ ProcessEnds(n, k)
                   \/ ClearSession(n, k) \/ ProcessLinkBreaks(n, k)
      PROVE  UNCHANGED linkVars
  BY <1>4 DEF Fork, ProcessAnnounces, ProcessEnds, SetProc, ClearSession, ProcessLinkBreaks
<1>5. ASSUME NEW i, SessionInfoLookup(n, i) \/ SetConnection(n, i)
      PROVE  UNCHANGED linkVars
  BY <1>5 DEF SessionInfoLookup, SetConnection
<1>. QED BY <1>1, <1>2, <1>3, <1>4, <1>5 DEF NodeNext

-----------------------------------------------------------------------------
(* What the lemmas come to for a node under any frontend: its port lists   *)
(* are sound, and it keeps NodeLink's promise.                             *)

\* The frontend's packets and its reads.
LEMMA AnyFrontendKeeps ==
  ASSUME NodeInv, NEW n \in Nodes, AnyFrontend(n), UNCHANGED nodeVars
  PROVE  NodeInv'
<1>1. LinkTypeOK
  BY DEF NodeInv, NodeTypeOK
<1>2. ASSUME NEW m \in Requests, FrontendSends(n, m)
      PROVE  LinkTypeOK'
  BY <1>1, <1>2, FrontendSendsType
<1>3. ASSUME NEW i \in 1..MaxStarts, NEW j \in 1..Len(toFrontend[<<n, i>>]),
             FrontendReads(<<n, i>>, j, Head(toFrontend[<<n, i>>]))
      PROVE  LinkTypeOK'
  <2>1. <<n, i>> \in Links
    BY DEF Links
  <2>. QED BY <1>1, <1>3, <2>1, FrontendReadsType
<1>4. LinkTypeOK'
  BY <1>2, <1>3 DEF AnyFrontend
<1>. QED BY <1>4, NodeUnchangedKeeps

\* NodeInv is an inductive invariant of the node under any frontend.
THEOREM NodeInvariant == AloneSpec => []NodeInv
<1>1. ASSUME NodeInv, [AloneNext]_aloneVars
      PROVE  NodeInv'
  <2>1. CASE UNCHANGED aloneVars
    <3>1. LinkTypeOK' /\ UNCHANGED nodeVars
      BY <1>1, <2>1, LinkUnchanged DEF aloneVars, NodeInv, NodeTypeOK
    <3>. QED BY <1>1, <3>1, NodeUnchangedKeeps
  <2>2. ASSUME NEW n \in Nodes, NodeNext(n)
        PROVE  NodeInv'
    BY <1>1, <2>2, NodeNextKeeps
  <2>3. ASSUME NEW n \in Nodes, AnyFrontend(n), UNCHANGED nodeVars
        PROVE  NodeInv'
    BY <1>1, <2>3, AnyFrontendKeeps
  <2>. QED BY <1>1, <2>1, <2>2, <2>3 DEF AloneNext
<1>2. AloneInit => NodeInv
  BY NodeInvInit DEF AloneInit
<1>. QED BY <1>1, <1>2, PTL DEF AloneSpec

\* The state of every node, and of its connections, stays well-formed.
THEOREM NodeTypeCorrect == AloneSpec => []NodeTypeOK
<1>1. NodeInv => NodeTypeOK
  BY DEF NodeInv
<1>. QED BY <1>1, NodeInvariant, PTL

\* No two open sessions of a node share a web, socket or RTC port.
THEOREM PortsAreExclusive == AloneSpec => []PortsExclusive
<1>1. NodeInv => PortsExclusive
  BY DEF NodeInv
<1>. QED BY <1>1, NodeInvariant, PTL

\* No port of an open session is handed back to the lists.
THEOREM PortsStayMarked == AloneSpec => []PortsMarked
<1>1. NodeInv => PortsMarked
  BY DEF NodeInv
<1>. QED BY <1>1, NodeInvariant, PTL

\* With socket and RTC lists of one length, the two never differ in how many
\* of their ports are in use, and both are always ahead of the web ports.
THEOREM SideListsStayInStep == AloneSpec => []SideListsInStep
<1> DEFINE Sides == Cardinality(Socks) = Cardinality(Rtcs) => \A n \in Nodes : SidesInStep(n)
<1>1. AloneInit => Sides
  <2> SUFFICES ASSUME AloneInit, NEW n \in Nodes
               PROVE  SidesInStep(n)
    OBVIOUS
  <2>1. usedWeb[n] = {} /\ usedSock[n] = {} /\ usedRtc[n] = {}
    BY DEF AloneInit, NodeInit
  <2>. QED BY <2>1, FS_EmptySet DEF SidesInStep
<1>2. ASSUME NodeInv, Sides, [AloneNext]_aloneVars
      PROVE  Sides'
  <2> SUFFICES ASSUME Cardinality(Socks) = Cardinality(Rtcs), NEW m \in Nodes
               PROVE  SidesInStep(m)'
    OBVIOUS
  <2>1. CASE UNCHANGED nodeVars
    BY <1>2, <2>1 DEF nodeVars, SidesInStep
  <2>2. ASSUME NEW n \in Nodes, NodeNext(n)
        PROVE  SidesInStep(m)'
    <3>1. CASE m = n
      BY <1>2, <2>2, <3>1, NodeNextSides
    <3>2. CASE m # n
      <4>1. /\ usedWeb'[m] = usedWeb[m] /\ usedSock'[m] = usedSock[m]
            /\ usedRtc'[m] = usedRtc[m]
        BY <1>2, <2>2, <3>2, ListsOfOthers
      <4>. QED BY <1>2, <4>1 DEF SidesInStep
    <3>. QED BY <3>1, <3>2
  <2>. QED BY <1>2, <2>1, <2>2 DEF AloneNext, aloneVars
<1>3. Sides <=> SideListsInStep
  BY DEF SidesInStep, SideListsInStep
<1>4. AloneSpec => []Sides
  <2> HIDE DEF Sides
  <2>. QED BY <1>1, <1>2, NodeInvariant, PTL DEF AloneSpec
<1>. QED BY <1>3, <1>4, PTL

\* The node implements NodeLink: whatever its threads do, the frontend sees
\* one answer for each request that was handled, about the session it named,
\* and nothing it did not ask for but the NodeInfo of a start.
THEOREM NodeImplementsLink == AloneSpec => LinkSpec
<1>1. AloneInit => LinkInit
  BY DEF AloneInit
<1>2. ASSUME NodeInv, [AloneNext]_aloneVars
      PROVE  [LinkNext]_linkVars
  <2>1. CASE UNCHANGED aloneVars
    BY <2>1 DEF aloneVars
  <2>2. ASSUME NEW n \in Nodes, NodeNext(n)
        PROVE  [LinkNext]_linkVars
    BY <1>2, <2>2, NodeStepOnLink DEF LinkNext
  <2>3. ASSUME NEW n \in Nodes, AnyFrontend(n)
        PROVE  LinkNext
    BY <2>3 DEF AnyFrontend, LinkNext
  <2>. QED BY <1>2, <2>1, <2>2, <2>3 DEF AloneNext
<1>. QED BY <1>1, <1>2, NodeInvariant, PTL DEF AloneSpec, LinkSpec

-----------------------------------------------------------------------------
(* The deployment.                                                           *)

\* Both sides' invariants, of the one wire they share.
SidesInv == FrontInv /\ NodeInv

LEMMA SidesInit ==
  ASSUME DeploymentInit
  PROVE  SidesInv
BY FrontInvInit, NodeInvInit DEF DeploymentInit, Init, SidesInv

\* A node's step is, for the frontend, a step of a node that promises no more
\* than NodeLink does, or nothing.
LEMMA NodeStepForFrontend ==
  ASSUME NodeInv, NEW n \in Nodes, NodeNext(n), UNCHANGED frontVars
  PROVE  Next \/ UNCHANGED vars
BY NodeStepOnLink DEF Next, AnyNode, vars

LEMMA StepForFrontend ==
  ASSUME SidesInv, [DeploymentNext]_allVars
  PROVE  [Next]_vars
BY NodeStepForFrontend DEF SidesInv, DeploymentNext, allVars, Next

LEMMA SidesStep ==
  ASSUME SidesInv, [DeploymentNext]_allVars
  PROVE  SidesInv'
<1>1. FrontInv'
  BY StepForFrontend, FrontInvStep DEF SidesInv
<1>2. ASSUME NEW n \in Nodes, NodeNext(n)
      PROVE  NodeInv'
  BY <1>2, NodeNextKeeps DEF SidesInv
<1>3. CASE UNCHANGED nodeVars
  BY <1>1, <1>3, NodeUnchangedKeeps DEF SidesInv, FrontInv
<1>. QED BY <1>1, <1>2, <1>3 DEF SidesInv, DeploymentNext, allVars

\* What is known of the frontend and of the nodes is true of the composition.
THEOREM SidesInvariant == DeploymentSpec => []SidesInv
BY SidesInit, SidesStep, PTL DEF DeploymentSpec

\* The frontend behaves, with real nodes, as Frontend says it does with any
\* node that keeps the promise: what is proved of Frontend holds here.
THEOREM DeploymentImplementsFrontend == DeploymentSpec => Spec
<1>1. DeploymentInit => Init
  BY DEF DeploymentInit
<1>. QED BY <1>1, StepForFrontend, SidesInvariant, PTL DEF DeploymentSpec, Spec

\* The wire of the deployment is NodeLink's.
THEOREM DeploymentImplementsLink == DeploymentSpec => LinkSpec
BY DeploymentImplementsFrontend, FrontendUsesLink, PTL

\* No port of a node is given to two sessions of the deployment.
THEOREM DeployedSlotsExclusive == MaxStarts = 1 /\ DeploymentSpec => []SlotsExclusive
BY DeploymentImplementsFrontend, SlotsExclusiveCorrect, PTL

-----------------------------------------------------------------------------
(* Each port of a node is asked for at most once.  A slot that was reserved *)
(* is never free again; between its reservation and its use it is held by   *)
(* one thread, then by one request; and a start marks no other web port     *)
(* than the one its request named.                                          *)

\* A thread has reserved a slot and not yet sent the request.
Held(t) == pc[t] \in {"count", "insert", "send"}
SlotsHeldApart == \A t, u \in Threads : Held(t) /\ Held(u) /\ t # u => SlotFor(t) # SlotFor(u)

StartAt(n, i) == toNode[n][i].type = "start"
PortAt(n, i) == toNode[n][i].port

\* A port that is reserved and not yet in use.
Promised(n, p) == p \in TakenSlots(n) /\ p \notin usedWeb[n]

RequestsPromised(n) ==
  /\ \A i \in 1..Len(toNode[n]) : StartAt(n, i) => Promised(n, PortAt(n, i))
  /\ \A i, j \in 1..Len(toNode[n]) :
       StartAt(n, i) /\ StartAt(n, j) /\ PortAt(n, i) = PortAt(n, j) => i = j

HoldersPromised(n) ==
  \A t \in Threads : Held(t) /\ job[t].node = n =>
    /\ Promised(n, job[t].port)
    /\ \A i \in 1..Len(toNode[n]) : StartAt(n, i) => PortAt(n, i) # job[t].port

PortsAskedOnce(n) ==
  usedWeb[n] \subseteq TakenSlots(n) /\ RequestsPromised(n) /\ HoldersPromised(n)

AskedOnce == SlotsHeldApart /\ \A n \in Nodes : PortsAskedOnce(n)

\* What both sides are known to be.
Known == SidesInv /\ SlotInv

-----------------------------------------------------------------------------
(* The frontend's steps.                                                   *)

LEMMA TakenGrows ==
  ASSUME TakenStaysTaken, NEW n \in Nodes
  PROVE  TakenSlots(n) \subseteq TakenSlots(n)'
BY DEF TakenStaysTaken, TakenSlots

\* Nobody reserves and nothing is asked.
NoNewHolders == \A t \in Threads : Held(t)' => Held(t) /\ SlotFor(t)' = SlotFor(t)

LEMMA HoldersKeep ==
  ASSUME AskedOnce, TakenStaysTaken, NoNewHolders, UNCHANGED <<toNode, usedWeb>>
  PROVE  AskedOnce'
<1>1. SlotsHeldApart'
  BY DEF AskedOnce, SlotsHeldApart, NoNewHolders
<1>2. ASSUME NEW n \in Nodes
      PROVE  PortsAskedOnce(n)'
  <2>1. PortsAskedOnce(n) /\ TakenSlots(n) \subseteq TakenSlots(n)'
    BY TakenGrows DEF AskedOnce
  <2>2. RequestsPromised(n)'
    BY <2>1 DEF PortsAskedOnce, RequestsPromised, StartAt, PortAt, Promised
  <2>3. HoldersPromised(n)'
    BY <2>1 DEF PortsAskedOnce, HoldersPromised, NoNewHolders, SlotFor, StartAt, PortAt, Promised
  <2>. QED BY <2>1, <2>2, <2>3 DEF PortsAskedOnce
<1>. QED BY <1>1, <1>2 DEF AskedOnce

\* The port a create reserves was free, so nobody has asked for it.
LEMMA MarkSlotAsks ==
  ASSUME Known, AskedOnce, NEW t \in Threads, MarkSlot(t), TakenStaysTaken,
         UNCHANGED usedWeb
  PROVE  AskedOnce'
<1>. USE DEF Known, SidesInv, FrontInv
<1>1. /\ pc[t] = "mark" /\ UNCHANGED <<toNode, reg>>
      /\ job[t] \in Job /\ job[t].node \in Nodes
  BY DEF MarkSlot, CreatesLocked, linkVars
<1>2. ASSUME job' = [job EXCEPT ![t].node = NoNode], pc' = [pc EXCEPT ![t] = "find"]
      PROVE  AskedOnce'
  <2>1. NoNewHolders
    BY <1>1, <1>2 DEF TrackerType, NoNewHolders, Held, SlotFor
  <2>. QED BY <1>1, <2>1, HoldersKeep
<1>3. ASSUME NEW p \in FreeSlots(job[t].node), Take(job[t].node, p),
             job' = [job EXCEPT ![t].port = p, ![t].count = nodeList[job[t].node].used],
             pc' = [pc EXCEPT ![t] = "count"]
      PROVE  AskedOnce'
  <2>1. PICK n \in Nodes : n = job[t].node
    BY <1>1
  <2>2. p \in Ports /\ p \notin TakenSlots(n)
    BY <2>1 DEF FreeSlots, TakenSlots
  <2>3. p \in TakenSlots(n)'
    BY <1>1, <1>3, <2>1, <2>2, TakeSlots DEF TakenSlots
  <2>4. SlotFor(t)' = <<n, p>> /\ job'[t].node = n /\ job'[t].port = p
    BY <1>1, <1>3, <2>1 DEF TrackerType, SlotFor, Job
  <2>5. \A u \in Threads : u # t => /\ Held(u)' = Held(u) /\ job'[u] = job[u]
                                    /\ SlotFor(u)' = SlotFor(u)
    BY <1>3 DEF TrackerType, Held, SlotFor
  <2>6. \A m \in Nodes : PortsAskedOnce(m) /\ TakenSlots(m) \subseteq TakenSlots(m)'
    BY TakenGrows DEF AskedOnce
  <2>7. \A u \in Threads : Held(u) => SlotFor(u) # <<n, p>>
    BY <2>2, <2>6 DEF PortsAskedOnce, HoldersPromised, Promised, SlotFor
  <2>8. SlotsHeldApart'
    BY <2>4, <2>5, <2>7 DEF AskedOnce, SlotsHeldApart
  <2>9. ASSUME NEW m \in Nodes
        PROVE  PortsAskedOnce(m)'
    <3>1. RequestsPromised(m)'
      BY <1>1, <2>6 DEF PortsAskedOnce, RequestsPromised, StartAt, PortAt, Promised
    <3>2. ASSUME NEW u \in Threads, Held(u)', job'[u].node = m
          PROVE  /\ job'[u].port \in TakenSlots(m)' /\ job'[u].port \notin usedWeb[m]
                 /\ \A i \in 1..Len(toNode[m]) : StartAt(m, i) => PortAt(m, i) # job'[u].port
      <4>1. CASE u = t
        BY <2>2, <2>3, <2>4, <2>6, <3>2, <4>1
           DEF PortsAskedOnce, RequestsPromised, Promised
      <4>2. CASE u # t
        BY <2>5, <2>6, <3>2, <4>2 DEF PortsAskedOnce, HoldersPromised, Promised
      <4>. QED BY <4>1, <4>2
    <3>3. HoldersPromised(m)'
      BY <1>1, <3>2 DEF HoldersPromised, Promised, StartAt, PortAt
    <3>. QED BY <2>6, <3>1, <3>3 DEF PortsAskedOnce
  <2>. QED BY <2>8, <2>9 DEF AskedOnce
<1>. QED BY <1>2, <1>3 DEF MarkSlot, TryAgain, Goto

\* A request is queued, or lost for want of a connection.
LEMMA RequestSentAsks ==
  ASSUME Known, AskedOnce, NEW n \in Nodes, NEW m \in Requests, FrontendSends(n, m),
         TakenStaysTaken, NoNewHolders, UNCHANGED usedWeb,
         m.type = "start" =>
           /\ Promised(n, m.port)
           /\ \A i \in 1..Len(toNode[n]) : StartAt(n, i) => PortAt(n, i) # m.port
           /\ \A u \in Threads : Held(u)' => SlotFor(u) # <<n, m.port>>
  PROVE  AskedOnce'
<1>1. CASE UNCHANGED toNode
  BY <1>1, HoldersKeep
<1>2. CASE toNode' = [toNode EXCEPT ![n] = Append(@, m)]
  <2> DEFINE q == toNode[n]
  <2>1. /\ toNode'[n] = Append(q, m) /\ q \in Seq(Requests)
        /\ \A o \in Nodes : o # n => toNode'[o] = toNode[o]
    BY <1>2 DEF Known, SidesInv, FrontInv, LinkTypeOK
  <2>2. /\ Len(q) \in Nat /\ Len(Append(q, m)) = Len(q) + 1
        /\ \A i \in 1..(Len(q) + 1) : Append(q, m)[i] = IF i = Len(q) + 1 THEN m ELSE q[i]
    BY <2>1, LenProperties, AppendProperties
  <2>3. /\ Len(toNode'[n]) = Len(q) + 1
        /\ \A i \in 1..Len(toNode'[n]) :
             \/ i \in 1..Len(q) /\ toNode'[n][i] = q[i]
             \/ i = Len(q) + 1 /\ toNode'[n][i] = m
    BY <2>1, <2>2
  <2> HIDE DEF q
  <2>4. \A o \in Nodes : PortsAskedOnce(o) /\ TakenSlots(o) \subseteq TakenSlots(o)'
    BY TakenGrows DEF AskedOnce
  <2>5. SlotsHeldApart'
    BY DEF AskedOnce, SlotsHeldApart, NoNewHolders
  <2>6. ASSUME NEW o \in Nodes
        PROVE  PortsAskedOnce(o)'
    <3>1. CASE o # n
      <4>1. toNode'[o] = toNode[o]
        BY <2>1, <3>1
      <4>2. RequestsPromised(o)'
        BY <2>4, <4>1 DEF PortsAskedOnce, RequestsPromised, StartAt, PortAt, Promised
      <4>3. HoldersPromised(o)'
        BY <2>4, <4>1 DEF PortsAskedOnce, HoldersPromised, NoNewHolders, SlotFor, StartAt,
           PortAt, Promised
      <4>. QED BY <2>4, <4>2, <4>3 DEF PortsAskedOnce
    <3>2. CASE o = n
      <4>1. ASSUME NEW i \in 1..Len(toNode'[n]), StartAt(n, i)'
            PROVE  toNode'[n][i].port \in TakenSlots(n)' /\ toNode'[n][i].port \notin usedWeb[n]
        BY <2>3, <2>4, <4>1
           DEF q, PortsAskedOnce, RequestsPromised, StartAt, PortAt, Promised
      <4>2. ASSUME NEW i \in 1..Len(toNode'[n]), NEW j \in 1..Len(toNode'[n]),
                   StartAt(n, i)', StartAt(n, j)', toNode'[n][i].port = toNode'[n][j].port
            PROVE  i = j
        BY <2>3, <2>4, <4>2 DEF q, PortsAskedOnce, RequestsPromised, StartAt, PortAt
      <4>3. RequestsPromised(n)'
        BY <4>1, <4>2 DEF RequestsPromised, Promised, PortAt
      <4>4. ASSUME NEW u \in Threads, Held(u)', job'[u].node = n,
                   NEW i \in 1..Len(toNode'[n]), StartAt(n, i)'
            PROVE  toNode'[n][i].port # job'[u].port
        <5>1. Held(u) /\ job[u].node = n /\ job[u].port = job'[u].port
          BY <4>4 DEF NoNewHolders, SlotFor
        <5>. QED BY <2>3, <2>4, <4>4, <5>1
                 DEF q, PortsAskedOnce, HoldersPromised, StartAt, PortAt, SlotFor
      <4>5. ASSUME NEW u \in Threads, Held(u)', job'[u].node = n
            PROVE  job'[u].port \in TakenSlots(n)' /\ job'[u].port \notin usedWeb[n]
        BY <2>4, <4>5 DEF PortsAskedOnce, HoldersPromised, NoNewHolders, SlotFor, Promised
      <4>6. HoldersPromised(n)'
        BY <4>4, <4>5 DEF HoldersPromised, Promised, PortAt
      <4>. QED BY <2>4, <3>2, <4>3, <4>6 DEF PortsAskedOnce
    <3>. QED BY <3>1, <3>2
  <2>. QED BY <2>5, <2>6 DEF AskedOnce
<1>3. toNode' = [toNode EXCEPT ![n] = @] => UNCHANGED toNode
  BY DEF Known, SidesInv, FrontInv, LinkTypeOK
<1>. QED BY <1>1, <1>2, <1>3 DEF FrontendSends

LEMMA SendStartAsks ==
  ASSUME Known, AskedOnce, NEW t \in Threads, SendStart(t), TakenStaysTaken,
         UNCHANGED usedWeb
  PROVE  AskedOnce'
<1>. USE DEF Known, SidesInv, FrontInv
<1> DEFINE m == StartRequest(KeyOf(job[t].addr, job[t].name), job[t].port)
<1>1. /\ pc[t] = "send" /\ FrontendSends(job[t].node, m)
      /\ pc' = [pc EXCEPT ![t] = "idle"] /\ job' = [job EXCEPT ![t] = NoJob]
  BY DEF SendStart, Return, Goto
<1>2. job[t].node \in Nodes /\ job[t].port \in Ports
  BY <1>1 DEF CreatesLocked
<1>3. m \in Requests /\ m.type = "start" /\ m.port = job[t].port
  BY <1>1, <1>2, JobKeyType, StartRequestIsRequest DEF StartRequest
<1> HIDE DEF m
<1>4. PICK n \in Nodes : n = job[t].node
  BY <1>2
<1>5. Held(t) /\ SlotFor(t) = <<n, m.port>>
  BY <1>1, <1>3, <1>4 DEF Held, SlotFor
<1>6. \A u \in Threads : Held(u)' => u # t /\ Held(u) /\ SlotFor(u)' = SlotFor(u)
  BY <1>1 DEF TrackerType, Held, SlotFor
<1>7. /\ Promised(n, m.port)
      /\ \A i \in 1..Len(toNode[n]) : StartAt(n, i) => PortAt(n, i) # m.port
  BY <1>3, <1>4, <1>5 DEF AskedOnce, PortsAskedOnce, HoldersPromised
<1>8. \A u \in Threads : Held(u)' => SlotFor(u) # <<n, m.port>>
  BY <1>5, <1>6 DEF AskedOnce, SlotsHeldApart
<1>9. NoNewHolders
  BY <1>6 DEF NoNewHolders
<1>. QED BY <1>1, <1>3, <1>4, <1>7, <1>8, <1>9, RequestSentAsks

LEMMA SendCloseAsks ==
  ASSUME Known, AskedOnce, NEW t \in Threads, SendClose(t), TakenStaysTaken,
         UNCHANGED usedWeb
  PROVE  AskedOnce'
<1>. USE DEF Known, SidesInv, FrontInv
<1> DEFINE k == KeyOf(job[t].addr, job[t].name)
<1>1. /\ pc[t] = "close" /\ pc' = [pc EXCEPT ![t] = "idle"]
      /\ job' = [job EXCEPT ![t] = NoJob]
      /\ \/ UNCHANGED linkVars
         \/ job[t].node # NoNode /\ FrontendSends(job[t].node, CloseRequest(k))
  BY DEF SendClose, Return, Goto
<1>2. k \in Keys /\ job[t] \in Job
  BY <1>1, JobKeyType DEF CreatesLocked
<1>3. job[t].node # NoNode => job[t].node \in Nodes
  BY <1>2 DEF Job
<1>4. CloseRequest(k) \in Requests /\ CloseRequest(k).type # "start"
  BY <1>2, CloseRequestIsRequest DEF CloseRequest
<1>5. NoNewHolders
  BY <1>1 DEF TrackerType, NoNewHolders, Held, SlotFor
<1>6. CASE UNCHANGED linkVars
  BY <1>5, <1>6, HoldersKeep DEF linkVars
<1> HIDE DEF k
<1>. QED BY <1>1, <1>3, <1>4, <1>5, <1>6, RequestSentAsks

LEMMA FrontNextAsks ==
  ASSUME Known, AskedOnce, FrontNext, UNCHANGED nodeVars
  PROVE  AskedOnce'
<1>. USE DEF Known, SidesInv, FrontInv, nodeVars
<1>1. TakenStaysTaken
  BY TakenKept
<1>2. ASSUME NEW t \in Threads, NEW l \in {"idle", "find", "reserve", "mark", "close"},
             pc' = [pc EXCEPT ![t] = l], UNCHANGED toNode,
             \A u \in Threads : u # t => job'[u] = job[u]
      PROVE  AskedOnce'
  <2>1. NoNewHolders
    BY <1>2 DEF TrackerType, NoNewHolders, Held, SlotFor
  <2>. QED BY <1>1, <1>2, <2>1, HoldersKeep
<1>3. CASE UNCHANGED <<pc, job, toNode>>
  <2>1. NoNewHolders
    BY <1>3 DEF NoNewHolders, Held, SlotFor
  <2>. QED BY <1>1, <1>3, <2>1, HoldersKeep
<1>4. ASSUME NEW t \in Threads, NEW a \in Addrs, NEW s \in Names, CreateSession(t, a, s)
      PROVE  AskedOnce'
  BY <1>2, <1>4 DEF CreateSession, Goto, TrackerType, linkVars
<1>5. ASSUME NEW t \in Threads, FindNode(t)
      PROVE  AskedOnce'
  BY <1>2, <1>5 DEF FindNode, Return, Goto, TrackerType, linkVars
<1>6. ASSUME NEW t \in Threads, CountSlot(t) \/ InsertSession(t)
      PROVE  AskedOnce'
  <2>1. /\ pc[t] \in {"count", "insert"} /\ job[t] \in Job /\ UNCHANGED toNode
        /\ \E l \in {"insert", "send"} : pc' = [pc EXCEPT ![t] = l]
        /\ job' = job \/ job' = [job EXCEPT ![t].count = 0]
    BY <1>6 DEF CountSlot, InsertSession, Goto, CreatesLocked, linkVars
  <2>2. \A u \in Threads : job'[u].node = job[u].node /\ job'[u].port = job[u].port
    BY <2>1 DEF TrackerType, Job
  <2>3. \A u \in Threads : Held(u)' => Held(u)
    BY <2>1 DEF TrackerType, Held
  <2>4. NoNewHolders
    BY <2>2, <2>3 DEF NoNewHolders, SlotFor
  <2>. QED BY <1>1, <2>1, <2>4, HoldersKeep
<1>7. CASE \E a \in Addrs : \E u \in Users : LogIn(a, u)
  BY <1>3, <1>7 DEF LogIn, linkVars
<1>8. CASE ApplyNodeInfo
  BY <1>3, <1>8 DEF ApplyNodeInfo, SetTotalSlots, SetUsedSlots, AddAvailablePort, linkVars
<1>9. ASSUME NEW l \in Links, NEW j, NEW r, RegisterNode(l, j, r) \/ DeliverReply(l, j, r)
      PROVE  AskedOnce'
  BY <1>3, <1>9 DEF RegisterNode, DeliverReply, FrontendReads
<1>10. ASSUME NEW w \in Workers, TakeTask(w) \/ RunStarted(w) \/ RunClosed(w)
       PROVE  AskedOnce'
  BY <1>3, <1>10 DEF TakeTask, RunStarted, RunClosed, linkVars
<1>11. ASSUME NEW t \in Threads, CheckSlots(t)
       PROVE  AskedOnce'
  BY <1>2, <1>11 DEF CheckSlots, TryAgain, Goto, TrackerType, linkVars
<1>12. ASSUME NEW t \in Threads, NEW a \in Addrs, NEW s \in Names, DestroySession(t, a, s)
       PROVE  AskedOnce'
  BY <1>2, <1>12 DEF DestroySession, TryFinishSession, Goto, TrackerType, linkVars
<1>. QED BY <1>1, <1>4, <1>5, <1>6, <1>7, <1>8, <1>9, <1>10, <1>11, <1>12, MarkSlotAsks,
         SendStartAsks, SendCloseAsks DEF FrontNext, Creating

-----------------------------------------------------------------------------
(* The nodes' steps.                                                       *)

\* A node drops d requests, and uses no new port but that of the first.
LEMMA RequestsTaken ==
  ASSUME NEW n \in Nodes, PortsAskedOnce(n), UNCHANGED <<nodeList, pc, job>>, NEW d \in Nat,
         \A i \in 1..Len(toNode'[n]) :
           d + i \in 1..Len(toNode[n]) /\ toNode'[n][i] = toNode[n][d + i],
         \A p \in usedWeb'[n] :
           \/ p \in usedWeb[n]
           \/ /\ d >= 1 /\ 1 \in 1..Len(toNode[n])
              /\ StartAt(n, 1) /\ p = PortAt(n, 1)
  PROVE  PortsAskedOnce(n)'
<1>1. TakenSlots(n)' = TakenSlots(n)
  BY DEF TakenSlots
<1>2. ASSUME NEW p \in usedWeb'[n]
      PROVE  p \in TakenSlots(n)
  BY <1>2 DEF PortsAskedOnce, RequestsPromised, Promised
<1>3. \A i \in 1..Len(toNode'[n]) : /\ d + i \in 1..Len(toNode[n])
                                    /\ StartAt(n, i)' = StartAt(n, d + i)
                                    /\ PortAt(n, i)' = PortAt(n, d + i)
  BY DEF StartAt, PortAt
<1>4. ASSUME NEW i \in 1..Len(toNode'[n]), StartAt(n, i)'
      PROVE  PortAt(n, i)' \in TakenSlots(n) /\ PortAt(n, i)' \notin usedWeb'[n]
  <2>1. /\ d + i \in 1..Len(toNode[n])
        /\ StartAt(n, d + i) /\ PortAt(n, i)' = PortAt(n, d + i)
    BY <1>3, <1>4
  <2>2. PortAt(n, d + i) \in TakenSlots(n) /\ PortAt(n, d + i) \notin usedWeb[n]
    BY <2>1 DEF PortsAskedOnce, RequestsPromised, Promised
  <2>3. d >= 1 => d + i # 1
    OBVIOUS
  <2>4. ASSUME d >= 1, 1 \in 1..Len(toNode[n]), StartAt(n, 1)
        PROVE  PortAt(n, d + i) # PortAt(n, 1)
    BY <2>1, <2>3, <2>4 DEF PortsAskedOnce, RequestsPromised
  <2>. QED BY <2>1, <2>2, <2>4
<1>5. ASSUME NEW i \in 1..Len(toNode'[n]), NEW j \in 1..Len(toNode'[n]),
             StartAt(n, i)', StartAt(n, j)', PortAt(n, i)' = PortAt(n, j)'
      PROVE  i = j
  <2>1. d + i = d + j
    BY <1>3, <1>5 DEF PortsAskedOnce, RequestsPromised
  <2>. QED BY <2>1
<1>6. RequestsPromised(n)'
  BY <1>1, <1>4, <1>5 DEF RequestsPromised, Promised
<1>7. ASSUME NEW t \in Threads, Held(t), job[t].node = n
      PROVE  /\ job[t].port \in TakenSlots(n) /\ job[t].port \notin usedWeb'[n]
             /\ \A i \in 1..Len(toNode'[n]) : StartAt(n, i)' => PortAt(n, i)' # job[t].port
  <2>1. /\ job[t].port \in TakenSlots(n) /\ job[t].port \notin usedWeb[n]
        /\ \A i \in 1..Len(toNode[n]) : StartAt(n, i) => PortAt(n, i) # job[t].port
    BY <1>7 DEF PortsAskedOnce, HoldersPromised, Promised
  <2>. QED BY <1>3, <2>1
<1>8. HoldersPromised(n)'
  BY <1>1, <1>7 DEF HoldersPromised, Promised, Held
<1>. QED BY <1>1, <1>2, <1>6, <1>8 DEF PortsAskedOnce

\* The same, for what becomes of the queue of requests.
LEMMA QueueDropped ==
  ASSUME NEW n \in Nodes, PortsAskedOnce(n), LinkTypeOK, UNCHANGED <<nodeList, pc, job>>,
         \/ toNode'[n] = toNode[n]
         \/ toNode'[n] = <<>>
         \/ \E j \in 1..Len(toNode[n]) : toNode'[n] = AfterRead(toNode[n], j),
         usedWeb'[n] \subseteq usedWeb[n]
  PROVE  PortsAskedOnce(n)'
<1>1. toNode[n] \in Seq(Requests)
  BY DEF LinkTypeOK
<1>2. CASE toNode'[n] = toNode[n]
  <2>1. \A i \in 1..Len(toNode'[n]) :
          0 + i \in 1..Len(toNode[n]) /\ toNode'[n][i] = toNode[n][0 + i]
    BY <1>2
  <2>. QED BY <2>1, RequestsTaken
<1>3. CASE toNode'[n] = <<>>
  <2>1. 1..Len(toNode'[n]) = {}
    BY <1>3, SMT
  <2>. QED BY <2>1, RequestsTaken
<1>4. ASSUME NEW j \in 1..Len(toNode[n]), toNode'[n] = AfterRead(toNode[n], j)
      PROVE  PortsAskedOnce(n)'
  <2>1. /\ j \in Nat
        /\ \A i \in 1..Len(AfterRead(toNode[n], j)) :
             /\ j + i \in 1..Len(toNode[n])
             /\ AfterRead(toNode[n], j)[i] = toNode[n][j + i]
    BY <1>1, AfterReadElements
  <2>2. \A i \in 1..Len(toNode'[n]) :
          j + i \in 1..Len(toNode[n]) /\ toNode'[n][i] = toNode[n][j + i]
    BY <1>4, <2>1, Zenon
  <2>. QED BY <2>1, <2>2, RequestsTaken
<1>. QED BY <1>2, <1>3, <1>4

\* A start marks no web port but the one the request named.
LEMMA StartNewSessionAsks ==
  ASSUME NodeInv, NEW n \in Nodes, PortsAskedOnce(n), UNCHANGED <<nodeList, pc, job>>,
         NEW j, StartNewSession(n, j, Head(toNode[n]))
  PROVE  PortsAskedOnce(n)'
<1>. USE DEF NodeInv, NodeTypeOK
<1>1. /\ j \in 1..Len(toNode[n]) /\ Head(toNode[n]).type = "start"
      /\ toNode'[n] = AfterRead(toNode[n], j)
  BY DEF StartNewSession, NodeReads, LinkTypeOK
<1>2. toNode[n] \in Seq(Requests)
  BY DEF LinkTypeOK
<1>3. /\ j \in Nat /\ j >= 1 /\ j <= Len(toNode[n]) /\ Len(toNode[n]) \in Nat
      /\ \A i \in 1..Len(toNode'[n]) :
           j + i \in 1..Len(toNode[n]) /\ toNode'[n][i] = toNode[n][j + i]
  BY <1>1, <1>2, AfterReadElements
<1>4. 1 \in 1..Len(toNode[n])
  BY <1>3
<1>5. Head(toNode[n]) = toNode[n][1]
  BY <1>2, <1>4
<1>6. StartAt(n, 1) /\ PortAt(n, 1) = Head(toNode[n]).port
  BY <1>1, <1>5 DEF StartAt, PortAt
<1>7. usedWeb'[n] \subseteq usedWeb[n] \cup {PortAt(n, 1)}
  BY <1>6 DEF StartNewSession, PortUnavailable, DuplicateName, Launch, Mark
<1>. QED BY <1>3, <1>4, <1>6, <1>7, RequestsTaken

LEMMA RequestAsks ==
  ASSUME NodeInv, NEW n \in Nodes, PortsAskedOnce(n), UNCHANGED <<nodeList, pc, job>>, Request(n)
  PROVE  PortsAskedOnce(n)'
<1>1. PICK j \in 1..Len(toNode[n]) :
        \/ StartNewSession(n, j, Head(toNode[n]))
        \/ CloseUserSession(n, j, Head(toNode[n]))
        \/ SendNodeInfo(n, j, Head(toNode[n]))
  BY DEF Request
<1>2. ASSUME CloseUserSession(n, j, Head(toNode[n])) \/ SendNodeInfo(n, j, Head(toNode[n]))
      PROVE  PortsAskedOnce(n)'
  <2>1. toNode'[n] = AfterRead(toNode[n], j) /\ usedWeb'[n] = usedWeb[n]
    BY <1>2 DEF CloseUserSession, SendNodeInfo, NodeReads, NodeInv, NodeTypeOK, LinkTypeOK,
       nodeVars
  <2>. QED BY <2>1, QueueDropped DEF NodeInv, NodeTypeOK
<1>. QED BY <1>1, <1>2, StartNewSessionAsks

LEMMA NodeNextAsks ==
  ASSUME Known, AskedOnce, NEW n \in Nodes, NodeNext(n), UNCHANGED frontVars
  PROVE  AskedOnce'
<1>. USE DEF Known, SidesInv, FrontInv, NodeInv, NodeTypeOK
<1>1. UNCHANGED <<nodeList, pc, job>>
  BY DEF frontVars
<1>2. \A m \in Nodes : PortsAskedOnce(m)
  BY DEF AskedOnce
<1>3. PortsAskedOnce(n)'
  <2>1. ASSUME LinkBreaks(n) \/ UNCHANGED linkVars, UNCHANGED usedWeb
        PROVE  PortsAskedOnce(n)'
    <3>1. toNode'[n] = toNode[n] \/ toNode'[n] = <<>>
      BY <2>1 DEF LinkBreaks, LinkTypeOK, linkVars
    <3>. QED BY <1>1, <1>2, <2>1, <3>1, QueueDropped
  <2>2. CASE StartNode(n)
    <3>1. UNCHANGED <<toNode, usedWeb>>
      BY <2>2 DEF StartNode, NodeStarts, nodeVars
    <3>. QED BY <1>1, <1>2, <3>1, QueueDropped
  <2>3. CASE InterruptNode(n)
    BY <2>1, <2>3 DEF InterruptNode
  <2>4. CASE StopNode(n)
    <3>1. toNode'[n] = <<>> /\ usedWeb'[n] = {}
      BY <2>4 DEF StopNode, NodeStops, Forget, LinkTypeOK
    <3>. QED BY <1>1, <1>2, <3>1, QueueDropped
  <2>5. CASE LinkFaults(n) /\ UNCHANGED nodeVars
    <3>1. usedWeb'[n] = usedWeb[n]
      BY <2>5 DEF nodeVars
    <3>2. \/ toNode'[n] = toNode[n] \/ toNode'[n] = <<>>
          \/ \E j \in 1..Len(toNode[n]) : toNode'[n] = AfterRead(toNode[n], j)
      BY <2>5 DEF LinkFaults, LinkBreaks, RequestsLost, RepliesLost, LinkTypeOK
    <3>. QED BY <1>1, <1>2, <3>1, <3>2, QueueDropped
  <2>6. CASE Request(n)
    BY <1>1, <1>2, <2>6, RequestAsks
  <2>7. ASSUME NEW k \in Keys, Fork(n, k) \/ ProcessAnnounces(n, k) \/ ProcessEnds(n, k)
                               \/ ProcessLinkBreaks(n, k)
        PROVE  PortsAskedOnce(n)'
    BY <2>1, <2>7 DEF Fork, ProcessAnnounces, ProcessEnds, ProcessLinkBreaks, SetProc
  <2>8. ASSUME NEW k \in Keys, ClearSession(n, k)
        PROVE  PortsAskedOnce(n)'
    <3>1. toNode'[n] = toNode[n] /\ usedWeb'[n] \subseteq usedWeb[n]
      BY <2>8 DEF ClearSession, Release, linkVars
    <3>. QED BY <1>1, <1>2, <3>1, QueueDropped
  <2>9. ASSUME NEW i \in infos[n], SessionInfoLookup(n, i) \/ SetConnection(n, i)
        PROVE  PortsAskedOnce(n)'
    BY <2>1, <2>9 DEF SessionInfoLookup, SetConnection
  <2>. QED BY <2>2, <2>3, <2>4, <2>5, <2>6, <2>7, <2>8, <2>9 DEF NodeNext
<1>4. ASSUME NEW m \in Nodes, m # n
      PROVE  PortsAskedOnce(m)'
  <2>1. usedWeb'[m] = usedWeb[m]
    BY <1>4, ListsOfOthers
  <2>2. toNode'[m] = toNode[m]
    BY <1>4, NodeStepOnLink DEF LinkTypeOK, NodeStarts, NodeStops, NodeAnswers, NodeReads,
       LinkFaults, LinkBreaks, RequestsLost, RepliesLost, linkVars
  <2>. QED BY <1>1, <1>2, <2>1, <2>2, QueueDropped
<1>5. SlotsHeldApart'
  BY <1>1 DEF AskedOnce, SlotsHeldApart, Held, SlotFor
<1>. QED BY <1>3, <1>4, <1>5 DEF AskedOnce

\* The same of one step of the whole.
LEMMA AskedOnceStep ==
  ASSUME Known, AskedOnce, [DeploymentNext]_allVars
  PROVE  AskedOnce'
<1>1. CASE UNCHANGED allVars
  <2>1. TakenStaysTaken /\ NoNewHolders /\ UNCHANGED <<toNode, usedWeb>>
    BY <1>1 DEF allVars, vars, linkVars, frontVars, nodeVars, TakenStaysTaken, NoNewHolders,
       Held, SlotFor
  <2>. QED BY <2>1, HoldersKeep
<1>. QED BY <1>1, FrontNextAsks, NodeNextAsks DEF DeploymentNext

LEMMA AskedOnceInit ==
  ASSUME DeploymentInit
  PROVE  AskedOnce
<1>1. \A n \in Nodes : toNode[n] = <<>> /\ usedWeb[n] = {}
  BY DEF DeploymentInit, Init, LinkInit, NodeInit
<1>2. \A t \in Threads : ~Held(t)
  BY DEF DeploymentInit, Init, FrontInit, Held
<1>3. 1..Len(<<>>) = {}
  BY SMT
<1>. QED BY <1>1, <1>2, <1>3
         DEF AskedOnce, SlotsHeldApart, PortsAskedOnce, RequestsPromised, HoldersPromised

\* With nodes that are started once, a port of a node is asked for at most
\* once, from the reservation of its slot to the end of the deployment.
THEOREM PortsAskedOnceOnly == MaxStarts = 1 /\ DeploymentSpec => []AskedOnce
<1> SUFFICES ASSUME MaxStarts = 1
             PROVE  DeploymentSpec => []AskedOnce
  OBVIOUS
<1>1. DeploymentSpec => []SlotInv
  BY DeploymentImplementsFrontend, SlotInvariant, PTL
<1>2. Known /\ AskedOnce /\ [DeploymentNext]_allVars => AskedOnce'
  BY AskedOnceStep
<1>3. SidesInv /\ SlotInv => Known
  BY DEF Known
<1>. QED BY <1>1, <1>2, <1>3, AskedOnceInit, SidesInvariant, PTL DEF DeploymentSpec

\* Every port a node has in use is one the frontend counts as taken, so that
\* it offers it to nobody else: the two processes never agree on this by a
\* message, each keeps its own list.
THEOREM UsedIsTakenCorrect == MaxStarts = 1 /\ DeploymentSpec => []UsedIsTaken
<1>1. AskedOnce => UsedIsTaken
  BY DEF AskedOnce, PortsAskedOnce, UsedIsTaken
<1>. QED BY <1>1, PortsAskedOnceOnly, PTL

-----------------------------------------------------------------------------
(* No start is refused for want of a port.  The web port of a request is    *)
(* free when the node handles it, and the two side lists run exactly as     *)
(* full as the web list, so that they have a port left too.                 *)

\* The configuration gives at least as many socket and RTC ports as web ports.
EnoughSidePorts ==
  Cardinality(Ports) <= Cardinality(Socks) /\ Cardinality(Ports) <= Cardinality(Rtcs)

ListsLevel(n) ==
  /\ Cardinality(usedSock[n]) = Cardinality(usedWeb[n])
  /\ Cardinality(usedRtc[n]) = Cardinality(usedWeb[n])

NotRefused(r) == r.type = "started" => r.status # "unavailable"
NoRefusal(q) == \A i \in 1..Len(q) : NotRefused(q[i])

\* A start whose port was promised to it finds a side port of each kind.
LEMMA PromisedStartServed ==
  ASSUME EnoughSidePorts, NodeInv, NEW n \in Nodes, PortsAskedOnce(n), ListsLevel(n),
         NEW j, StartNewSession(n, j, Head(toNode[n]))
  PROVE  /\ ListsLevel(n)'
         /\ \E r \in Replies : NotRefused(r) /\ NodeSends(n, r)
<1>. USE DEF NodeInv, NodeTypeOK
<1> DEFINE m == Head(toNode[n])
<1>1. /\ j \in 1..Len(toNode[n]) /\ m.type = "start"
      /\ NodeReads(n, j, m)
  BY DEF StartNewSession, NodeReads
<1>2. m.key \in Keys /\ m.port \in Ports
  BY <1>1, StartRequestType
<1>3. m.port \notin usedWeb[n]
  <2>1. toNode[n] \in Seq(Requests)
    BY DEF LinkTypeOK
  <2>2. Len(toNode[n]) \in Nat /\ j >= 1 /\ j <= Len(toNode[n]) /\ j \in Nat
    BY <1>1, <2>1, AfterReadElements
  <2>3. 1 \in 1..Len(toNode[n])
    BY <2>2
  <2>4. m = toNode[n][1]
    BY <2>1, <2>3
  <2>. QED BY <1>1, <2>3, <2>4
           DEF PortsAskedOnce, RequestsPromised, Promised, StartAt, PortAt
<1>4. PICK sock \in FindAvailablePort(Socks, usedSock[n]),
           rtc \in FindAvailablePort(Rtcs, usedRtc[n]) :
        /\ usedSock' = [usedSock EXCEPT ![n] = Mark(@, sock)]
        /\ usedRtc' = [usedRtc EXCEPT ![n] = Mark(@, rtc)]
        /\ \/ PortUnavailable(n, m, sock, rtc)
           \/ DuplicateName(n, m, sock, rtc)
           \/ Launch(n, m, sock, rtc)
  BY DEF StartNewSession
<1> HIDE DEF m
<1>5. /\ usedWeb[n] \in SUBSET Ports /\ usedSock[n] \in SUBSET Socks
      /\ usedRtc[n] \in SUBSET Rtcs
  OBVIOUS
<1>6. Cardinality(usedWeb[n]) < Cardinality(Ports)
  <2>1. /\ IsFiniteSet(usedWeb[n]) /\ Cardinality(usedWeb[n]) \in Nat
        /\ Cardinality(usedWeb[n]) <= Cardinality(Ports) /\ Cardinality(Ports) \in Nat
        /\ Ports \subseteq usedWeb[n] <=> Cardinality(usedWeb[n]) = Cardinality(Ports)
    BY <1>5, FullList, ListsAssumption
  <2>2. ~(Ports \subseteq usedWeb[n])
    BY <1>2, <1>3
  <2>3. Cardinality(usedWeb[n]) # Cardinality(Ports)
    BY <2>1, <2>2, Zenon
  <2>4. /\ Cardinality(usedWeb[n]) \in Nat /\ Cardinality(Ports) \in Nat
        /\ Cardinality(usedWeb[n]) <= Cardinality(Ports)
    BY <2>1, Zenon
  <2>5. \A a, b \in Nat : a <= b /\ a # b => a < b
    OBVIOUS
  <2>. QED BY <2>3, <2>4, <2>5, Zenon
<1>7. /\ sock = NoPort <=> Cardinality(usedSock[n]) = Cardinality(Socks)
      /\ Cardinality(Mark(usedSock[n], sock)) =
           IF sock = NoPort THEN Cardinality(usedSock[n]) ELSE Cardinality(usedSock[n]) + 1
      /\ rtc = NoPort <=> Cardinality(usedRtc[n]) = Cardinality(Rtcs)
      /\ Cardinality(Mark(usedRtc[n], rtc)) =
           IF rtc = NoPort THEN Cardinality(usedRtc[n]) ELSE Cardinality(usedRtc[n]) + 1
  BY <1>4, <1>5, FindAndMarkCount, ListsAssumption, NoSidePortAssumption
<1>8. /\ Cardinality(Ports) \in Nat /\ Cardinality(Socks) \in Nat
      /\ Cardinality(Rtcs) \in Nat /\ Cardinality(usedWeb[n]) \in Nat
  BY <1>5, FullList, ListsAssumption
<1>9. sock # NoPort /\ rtc # NoPort
  BY <1>6, <1>7, <1>8 DEF EnoughSidePorts, ListsLevel
<1>10. /\ DuplicateName(n, m, sock, rtc) \/ Launch(n, m, sock, rtc)
  BY <1>3, <1>4, <1>9 DEF PortUnavailable
<1>11. usedWeb'[n] = Mark(usedWeb[n], m.port)
  BY <1>10 DEF DuplicateName, Launch
<1>12. Cardinality(usedWeb'[n]) = Cardinality(usedWeb[n]) + 1
  <2>1. IsFiniteSet(usedWeb[n]) /\ m.port # NoPort
    BY <1>2, <1>5, FullList, ListsAssumption, NoPortAssumption
  <2>. QED BY <1>3, <1>11, <2>1, MarkWebCount
<1>13. usedSock'[n] = Mark(usedSock[n], sock) /\ usedRtc'[n] = Mark(usedRtc[n], rtc)
  BY <1>4
<1>14. ListsLevel(n)'
  BY <1>7, <1>9, <1>12, <1>13 DEF ListsLevel
<1>15. \E s \in {"ok", "duplicate", "crashed"} : NodeSends(n, StartResult(m.key, s))
  BY <1>10 DEF DuplicateName, Launch
<1>16. \A s \in {"ok", "duplicate", "crashed"} :
         StartResult(m.key, s) \in Replies /\ NotRefused(StartResult(m.key, s))
  BY <1>2 DEF StartResult, Replies, LaunchStatus, NotRefused
<1>. QED BY <1>14, <1>15, <1>16

\* The replies under way stay such when some are dropped from either end, or
\* when one more of them is sent.
LEMMA NoRefusalKept ==
  ASSUME NEW q \in Seq(Replies), NoRefusal(q)
  PROVE  /\ \A j \in 1..Len(q) : NoRefusal(AfterRead(q, j))
         /\ \A j \in 0..Len(q) : NoRefusal(SubSeq(q, 1, j))
         /\ \A r \in Replies : NotRefused(r) => NoRefusal(Append(q, r))
<1>1. ASSUME NEW j \in 1..Len(q)
      PROVE  NoRefusal(AfterRead(q, j))
  BY AfterReadElements DEF NoRefusal
<1>2. ASSUME NEW j \in 0..Len(q)
      PROVE  NoRefusal(SubSeq(q, 1, j))
  <2> DEFINE r == SubSeq(q, 1, j)
  <2>1. Len(q) \in Nat /\ j \in Nat /\ j <= Len(q)
    BY LenProperties
  <2>2. \A i \in 1..j : q[i] \in Replies
    BY <2>1, ElementOfSeq
  <2>3. /\ Len(r) = j
        /\ \A i \in 1..Len(r) : r[i] = q[i]
    <3>1. /\ Len(r) = IF 1 <= j THEN j - 1 + 1 ELSE 0
          /\ \A i \in 1..(j - 1 + 1) : r[i] = q[1 + i - 1]
      BY <2>1, <2>2, SubSeqProperties
    <3>. QED BY <2>1, <3>1
  <2> HIDE DEF r
  <2>4. NoRefusal(r)
    BY <2>1, <2>3 DEF NoRefusal
  <2>. QED BY <2>4 DEF r
<1>3. ASSUME NEW r \in Replies, NotRefused(r)
      PROVE  NoRefusal(Append(q, r))
  <2>1. /\ Len(q) \in Nat /\ Len(Append(q, r)) = Len(q) + 1
        /\ \A i \in 1..(Len(q) + 1) : Append(q, r)[i] = IF i = Len(q) + 1 THEN r ELSE q[i]
    BY LenProperties, AppendProperties
  <2>. QED BY <1>3, <2>1 DEF NoRefusal
<1>. QED BY <1>1, <1>2, <1>3

\* What a step may do to the replies under way from n.
RepliesOf(n) ==
  \A i \in 1..MaxStarts :
    LET l == <<n, i>> IN
    \/ toFrontend'[l] = toFrontend[l]
    \/ \E j \in 1..Len(toFrontend[l]) : toFrontend'[l] = AfterRead(toFrontend[l], j)
    \/ \E j \in 0..Len(toFrontend[l]) : toFrontend'[l] = SubSeq(toFrontend[l], 1, j)
    \/ \E r \in Replies : NotRefused(r) /\ toFrontend'[l] = Append(toFrontend[l], r)
    \/ toFrontend'[l] = <<NodeInfo({})>>

NoneRefused(n) == \A i \in 1..MaxStarts : NoRefusal(toFrontend[<<n, i>>])

LEMMA RepliesKeep ==
  ASSUME LinkTypeOK, NEW n \in Nodes, NoneRefused(n), RepliesOf(n)
  PROVE  NoneRefused(n)'
<1> SUFFICES ASSUME NEW i \in 1..MaxStarts
             PROVE  NoRefusal(toFrontend'[<<n, i>>])
  BY DEF NoneRefused
<1> DEFINE l == <<n, i>>
<1>1. toFrontend[l] \in Seq(Replies) /\ NoRefusal(toFrontend[l])
  BY DEF LinkTypeOK, Links, NoneRefused
<1>2. NoRefusal(<<NodeInfo({})>>)
  BY DEF NoRefusal, NotRefused, NodeInfo
<1>3. \/ toFrontend'[l] = toFrontend[l]
      \/ \E j \in 1..Len(toFrontend[l]) : toFrontend'[l] = AfterRead(toFrontend[l], j)
      \/ \E j \in 0..Len(toFrontend[l]) : toFrontend'[l] = SubSeq(toFrontend[l], 1, j)
      \/ \E r \in Replies : NotRefused(r) /\ toFrontend'[l] = Append(toFrontend[l], r)
      \/ toFrontend'[l] = <<NodeInfo({})>>
  BY DEF RepliesOf
<1> HIDE DEF l
<1>4. NoRefusal(toFrontend'[l])
  BY <1>1, <1>2, <1>3, NoRefusalKept
<1>. QED BY <1>4 DEF l

\* The frontend only takes replies.
LEMMA FrontNextReplies ==
  ASSUME FrontInv, FrontNext, NEW n \in Nodes
  PROVE  RepliesOf(n)
<1>. USE DEF FrontInv
<1>1. CASE UNCHANGED toFrontend
  BY <1>1 DEF RepliesOf
<1>2. ASSUME NEW k \in Links, NEW j, NEW r, FrontendReads(k, j, r)
      PROVE  RepliesOf(n)
  <2>1. ASSUME NEW i \in 1..MaxStarts
        PROVE  \/ toFrontend'[<<n, i>>] = toFrontend[<<n, i>>]
               \/ \E x \in 1..Len(toFrontend[<<n, i>>]) :
                    toFrontend'[<<n, i>>] = AfterRead(toFrontend[<<n, i>>], x)
    BY <1>2 DEF FrontendReads, LinkTypeOK, Links
  <2>. QED BY <2>1 DEF RepliesOf
<1>3. ASSUME NEW t \in Threads, SendClose(t)
      PROVE  UNCHANGED toFrontend
  BY <1>3 DEF SendClose, FrontendSends, linkVars
<1>4. ASSUME NEW t \in Threads, Creating(t)
      PROVE  UNCHANGED toFrontend
  BY <1>4 DEF Creating, FindNode, CheckSlots, MarkSlot, CountSlot, InsertSession, SendStart,
     FrontendSends, linkVars
<1>. QED BY <1>1, <1>2, <1>3, <1>4 DEF FrontNext, LogIn, CreateSession, DestroySession,
         ApplyNodeInfo, SetTotalSlots, SetUsedSlots, AddAvailablePort, RegisterNode, DeliverReply, TakeTask,
         RunStarted, RunClosed, linkVars

LEMMA UnsentReplies ==
  ASSUME LinkTypeOK, NEW n \in Nodes, UnsentLost(n)
  PROVE  RepliesOf(n)
<1>1. PICK j \in 0..Len(toFrontend[<<n, starts[n]>>]) :
        toFrontend' = [toFrontend EXCEPT ![<<n, starts[n]>>] = SubSeq(@, 1, j)]
  BY DEF UnsentLost
<1>2. ASSUME NEW i \in 1..MaxStarts
      PROVE  \/ toFrontend'[<<n, i>>] = toFrontend[<<n, i>>]
             \/ \E x \in 0..Len(toFrontend[<<n, i>>]) :
                  toFrontend'[<<n, i>>] = SubSeq(toFrontend[<<n, i>>], 1, x)
  BY <1>1 DEF LinkTypeOK, Links
<1>. QED BY <1>2 DEF RepliesOf

LEMMA SentReplies ==
  ASSUME LinkTypeOK, NEW n \in Nodes, NEW r \in Replies, NotRefused(r), NodeSends(n, r)
  PROVE  RepliesOf(n)
<1>1. ASSUME NEW i \in 1..MaxStarts
      PROVE  \/ toFrontend'[<<n, i>>] = toFrontend[<<n, i>>]
             \/ toFrontend'[<<n, i>>] = Append(toFrontend[<<n, i>>], r)
  BY DEF NodeSends, LinkTypeOK, Links
<1>. QED BY <1>1 DEF RepliesOf

\* The node's requests but starts.
LEMMA OtherRequestsServed ==
  ASSUME NodeInv, NEW n \in Nodes, ListsLevel(n), NEW j, NEW m,
         CloseUserSession(n, j, m) \/ SendNodeInfo(n, j, m)
  PROVE  ListsLevel(n)' /\ RepliesOf(n)
<1>. USE DEF NodeInv, NodeTypeOK
<1>1. UNCHANGED <<usedWeb, usedSock, usedRtc>>
  BY DEF CloseUserSession, SendNodeInfo, nodeVars
<1>2. CASE CloseUserSession(n, j, m)
  <2>1. CloseResult(m.key) \in Replies /\ NotRefused(CloseResult(m.key))
    BY <1>2, CloseRequestType DEF CloseUserSession, CloseResult, Replies, NotRefused
  <2>. QED BY <1>1, <1>2, <2>1, SentReplies DEF CloseUserSession, ListsLevel
<1>3. CASE SendNodeInfo(n, j, m)
  <2>1. NodeInfo(usedWeb[n]) \in Replies /\ NotRefused(NodeInfo(usedWeb[n]))
    BY DEF NodeInfo, Replies, NotRefused
  <2>. QED BY <1>1, <1>3, <2>1, SentReplies DEF SendNodeInfo, ListsLevel
<1>. QED BY <1>2, <1>3

LEMMA NodeNextServed ==
  ASSUME EnoughSidePorts, NodeInv, NEW n \in Nodes, PortsAskedOnce(n), ListsLevel(n),
         NodeNext(n)
  PROVE  ListsLevel(n)' /\ RepliesOf(n)
<1>. USE DEF NodeInv, NodeTypeOK
<1>1. ASSUME UNCHANGED <<usedWeb, usedSock, usedRtc>>
      PROVE  ListsLevel(n)'
  BY <1>1 DEF ListsLevel
<1>2. ASSUME UNCHANGED toFrontend
      PROVE  RepliesOf(n)
  BY <1>2 DEF RepliesOf
<1>3. ASSUME LinkBreaks(n)
      PROVE  RepliesOf(n)
  BY <1>3, UnsentReplies DEF LinkBreaks
<1>4. CASE StartNode(n)
  <2>1. ASSUME NEW i \in 1..MaxStarts
        PROVE  \/ toFrontend'[<<n, i>>] = toFrontend[<<n, i>>]
               \/ toFrontend'[<<n, i>>] = <<NodeInfo({})>>
    BY <1>4 DEF StartNode, NodeStarts, LinkTypeOK, Links
  <2>. QED BY <1>1, <1>4, <2>1 DEF RepliesOf, StartNode, nodeVars
<1>5. CASE InterruptNode(n)
  BY <1>1, <1>2, <1>3, <1>5 DEF InterruptNode, linkVars
<1>6. CASE StopNode(n)
  <2>1. /\ usedWeb'[n] = {} /\ usedSock'[n] = {} /\ usedRtc'[n] = {}
    BY <1>6 DEF StopNode, Forget
  <2>. QED BY <1>6, <2>1, UnsentReplies DEF StopNode, NodeStops, ListsLevel
<1>7. CASE LinkFaults(n) /\ UNCHANGED nodeVars
  <2>1. ASSUME NEW k \in 1..MaxStarts, NEW j \in 1..Len(toFrontend[<<n, k>>]),
               RepliesLost(<<n, k>>, j)
        PROVE  RepliesOf(n)
    <3>1. ASSUME NEW i \in 1..MaxStarts
          PROVE  \/ toFrontend'[<<n, i>>] = toFrontend[<<n, i>>]
                 \/ \E x \in 1..Len(toFrontend[<<n, i>>]) :
                      toFrontend'[<<n, i>>] = AfterRead(toFrontend[<<n, i>>], x)
      BY <2>1 DEF RepliesLost, LinkTypeOK, Links
    <3>. QED BY <3>1 DEF RepliesOf
  <2>. QED BY <1>1, <1>2, <1>3, <1>7, <2>1 DEF LinkFaults, RequestsLost, nodeVars
<1>8. CASE Request(n)
  <2>1. ASSUME NEW j \in 1..Len(toNode[n]), StartNewSession(n, j, Head(toNode[n]))
        PROVE  ListsLevel(n)' /\ RepliesOf(n)
    BY <2>1, PromisedStartServed, SentReplies
  <2>. QED BY <1>8, <2>1, OtherRequestsServed DEF Request
<1>9. ASSUME NEW k \in Keys, Fork(n, k) \/ ProcessAnnounces(n, k) \/ ProcessEnds(n, k)
                             \/ ProcessLinkBreaks(n, k)
      PROVE  ListsLevel(n)' /\ RepliesOf(n)
  BY <1>1, <1>2, <1>9
     DEF Fork, ProcessAnnounces, ProcessEnds, ProcessLinkBreaks, SetProc, linkVars
<1>10. ASSUME NEW k \in Keys, ClearSession(n, k)
       PROVE  ListsLevel(n)' /\ RepliesOf(n)
  <2>1. ListsLevel(n)'
    BY <1>10, ClearSessionCounts DEF ListsLevel
  <2>. QED BY <1>2, <1>10, <2>1 DEF ClearSession, linkVars
<1>11. ASSUME NEW i \in infos[n], SessionInfoLookup(n, i) \/ SetConnection(n, i)
       PROVE  ListsLevel(n)' /\ RepliesOf(n)
  BY <1>1, <1>2, <1>11 DEF SessionInfoLookup, SetConnection, linkVars
<1>. QED BY <1>4, <1>5, <1>6, <1>7, <1>8, <1>9, <1>10, <1>11 DEF NodeNext

Served == \A n \in Nodes : ListsLevel(n) /\ NoneRefused(n)

LEMMA ServedStep ==
  ASSUME EnoughSidePorts, Known, AskedOnce, Served, [DeploymentNext]_allVars
  PROVE  Served'
<1>. USE DEF Known, SidesInv, FrontInv
<1>1. CASE UNCHANGED allVars
  BY <1>1 DEF allVars, vars, linkVars, nodeVars, Served, ListsLevel, NoneRefused
<1>2. CASE FrontNext /\ UNCHANGED nodeVars
  BY <1>2, FrontNextReplies, RepliesKeep DEF nodeVars, Served, ListsLevel
<1>3. ASSUME NEW n \in Nodes, NodeNext(n)
      PROVE  Served'
  <2>1. ListsLevel(n)' /\ NoneRefused(n)'
    BY <1>3, NodeNextServed, RepliesKeep DEF Served, AskedOnce
  <2>2. ASSUME NEW m \in Nodes, m # n
        PROVE  ListsLevel(m)' /\ NoneRefused(m)'
    <3>1. ListsLevel(m)'
      BY <1>3, <2>2, ListsOfOthers DEF Served, ListsLevel
    <3>2. \A i \in 1..MaxStarts : toFrontend'[<<m, i>>] = toFrontend[<<m, i>>]
      <4> SUFFICES ASSUME NEW i \in 1..MaxStarts
                   PROVE  toFrontend'[<<m, i>>] = toFrontend[<<m, i>>]
        OBVIOUS
      <4>1. <<m, i>> \in Links /\ toFrontend \in [Links -> Seq(Replies)]
        BY DEF Links, LinkTypeOK
      <4>2. \A k, v : toFrontend' = [toFrontend EXCEPT ![<<n, k>>] = v]
                        => toFrontend'[<<m, i>>] = toFrontend[<<m, i>>]
        BY <2>2, <4>1
      <4>3. CASE NodeStarts(n)
        BY <4>2, <4>3 DEF NodeStarts
      <4>4. CASE NodeStops(n) \/ LinkBreaks(n)
        BY <4>2, <4>4 DEF NodeStops, LinkBreaks, UnsentLost
      <4>5. CASE NodeAnswers(n)
        BY <4>2, <4>5 DEF NodeAnswers, NodeSends
      <4>6. CASE LinkFaults(n)
        BY <4>2, <4>4, <4>6 DEF LinkFaults, RequestsLost, RepliesLost
      <4>. QED BY <1>3, <4>3, <4>4, <4>5, <4>6, NodeStepOnLink DEF linkVars
    <3>. QED BY <3>1, <3>2 DEF Served, NoneRefused
  <2>. QED BY <2>1, <2>2 DEF Served
<1>. QED BY <1>1, <1>2, <1>3 DEF DeploymentNext

LEMMA ServedInit ==
  ASSUME DeploymentInit
  PROVE  Served
<1>1. \A n \in Nodes : /\ usedWeb[n] = {} /\ usedSock[n] = {} /\ usedRtc[n] = {}
                       /\ \A i \in 1..MaxStarts : toFrontend[<<n, i>>] = <<>>
  BY DEF DeploymentInit, Init, LinkInit, NodeInit, Links
<1>2. 1..Len(<<>>) = {}
  BY SMT
<1>. QED BY <1>1, <1>2 DEF Served, ListsLevel, NoneRefused, NoRefusal

\* With nodes that are started once, and side lists at least as long as the
\* web list, no start is answered "unavailable": what refused duplicates leak
\* on the node they leak on the frontend too.
THEOREM NeverRefusedForPortCorrect ==
  MaxStarts = 1 /\ EnoughSidePorts /\ DeploymentSpec => []NeverRefusedForPort
<1> SUFFICES ASSUME MaxStarts = 1, EnoughSidePorts
             PROVE  DeploymentSpec => []NeverRefusedForPort
  OBVIOUS
<1>1. Known /\ AskedOnce /\ Served /\ [DeploymentNext]_allVars => Served'
  BY ServedStep
<1>2. SidesInv /\ SlotInv => Known
  BY DEF Known
<1>3. DeploymentSpec => []SlotInv
  BY DeploymentImplementsFrontend, SlotInvariant, PTL
<1>4. DeploymentSpec => []AskedOnce
  BY PortsAskedOnceOnly, PTL
<1>5. Served => NeverRefusedForPort
  <2> SUFFICES ASSUME Served, NEW l \in Links, NEW i \in 1..Len(toFrontend[l]),
                      toFrontend[l][i].type = "started"
               PROVE  toFrontend[l][i].status # "unavailable"
    BY DEF NeverRefusedForPort
  <2>1. PICK n \in Nodes, k \in 1..MaxStarts : l = <<n, k>>
    BY DEF Links
  <2>. QED BY <2>1 DEF Served, NoneRefused, NoRefusal, NotRefused
<1>. QED BY <1>1, <1>2, <1>3, <1>4, <1>5, ServedInit, SidesInvariant, PTL DEF DeploymentSpec
=============================================================================
