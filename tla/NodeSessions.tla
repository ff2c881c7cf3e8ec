---------------------------- MODULE NodeSessions ----------------------------
(***************************************************************************)
(* The streaming node: ReMoLON/src/SessionManager.cpp and                  *)
(* StreamingSession.cpp with the packets that drive them.                  *)
(*                                                                         *)
(* Three kinds of thread share the SessionManager of a node: the client's  *)
(* executor runs the frontend's requests, one launch thread per session    *)
(* forks the streaming process, waits for it and clears the session, and   *)
(* the inner server's workers run the SessionInfo packets the streaming    *)
(* processes send.  The first two hold the manager's mutex for a whole     *)
(* operation, so each is one action; SessionInfo takes no lock and keeps a *)
(* pointer to the session between its lookup and its use.                  *)
(*                                                                         *)
(* Calling through a pointer that is unset or dangling is undefined        *)
(* behaviour: it has no effect here, or the process ends (NodeStops).      *)
(***************************************************************************)
EXTENDS NodeLink, FiniteSets

CONSTANTS
  Socks,      \* the configured socket ports
  Rtcs,       \* the configured RTC ports
  NoSession   \* no entry in _streamSessions

ASSUME NoSidePortAssumption == NoPort \notin Socks \cup Rtcs
ASSUME ListsAssumption == IsFiniteSet(Ports) /\ IsFiniteSet(Socks) /\ IsFiniteSet(Rtcs)

VARIABLES
  usedWeb, usedSock, usedRtc, \* [n]: ports whose flag is set in the lists
  sessions,                   \* [n][k]: _streamSessions
  infos                       \* [n]: SessionInfo packets not yet executed

nodeVars == <<usedWeb, usedSock, usedRtc, sessions, infos>>

\* proc follows the launch thread: "launching" until it forked, "running",
\* "announced" once the process sent its SessionInfo, "exited" between
\* waitpid and clearSession, and "stuck" when no thread is left to clear it.
\* conn is _connection: "unset" before setConnection, "live" when it leads to
\* the session's own process, "gone" when it leads nowhere.
Session ==
  [web: Ports, sock: Socks, rtc: Rtcs,
   proc: {"launching", "running", "announced", "exited", "stuck"},
   conn: {"unset", "live", "gone"},
   told: BOOLEAN]   \* RequestFinishSession was sent to the live process

ASSUME NoSessionAssumption == NoSession \notin Session

\* found is the pointer getStreamSession gave the packet; own says that the
\* process that sent it is the one of the session now under that key.
SessionInfo ==
  [key: Keys, found: {"none", "valid", "dangling"}, own: BOOLEAN]

NodeTypeOK ==
  /\ LinkTypeOK
  /\ usedWeb \in [Nodes -> SUBSET Ports]
  /\ usedSock \in [Nodes -> SUBSET Socks]
  /\ usedRtc \in [Nodes -> SUBSET Rtcs]
  /\ sessions \in [Nodes -> [Keys -> Session \cup {NoSession}]]
  /\ infos \in [Nodes -> SUBSET SessionInfo]

Open(n, k) == sessions[n][k] # NoSession
In(n, k, procs) == Open(n, k) /\ sessions[n][k].proc \in procs

NodeInit ==
  /\ usedWeb = [n \in Nodes |-> {}]
  /\ usedSock = [n \in Nodes |-> {}]
  /\ usedRtc = [n \in Nodes |-> {}]
  /\ sessions = [n \in Nodes |-> [k \in Keys |-> NoSession]]
  /\ infos = [n \in Nodes |-> {}]

-----------------------------------------------------------------------------
(* Port lists.                                                             *)

\* Seeded faults: any port is handed out; 0 is marked; nothing is marked;
\* nothing is released.
AnyPort(all, used) == all
MarkWithout0Check(used, p) == used \cup {p}
MarkForgotten(used, p) == used
ReleaseForgotten(used, p) == used

\* What findAvailablePort may return: the list is a hash map, so its first
\* free port is any free port.
FindAvailablePort(all, used) ==
  IF all \subseteq used THEN {NoPort} ELSE all \ used

Mark(used, p) == used \cup ({p} \ {NoPort})
Release(used, p) == used \ {p}

-----------------------------------------------------------------------------
(* Requests of the frontend, run by the client's executor thread.          *)

NewSession(web, sock, rtc, proc) ==
  [web |-> web, sock |-> sock, rtc |-> rtc, proc |-> proc,
   conn |-> "unset", told |-> FALSE]

\* startNewSession's three ways out.  The side ports were already marked when
\* the request is refused, and stay so; on a duplicate so does the web port.
PortUnavailable(n, m, sock, rtc) ==
  /\ m.port \in usedWeb[n] \/ sock = NoPort \/ rtc = NoPort
  /\ NodeSends(n, StartResult(m.key, "unavailable"))
  /\ UNCHANGED <<usedWeb, sessions>>

DuplicateName(n, m, sock, rtc) ==
  /\ m.port \notin usedWeb[n] /\ sock # NoPort /\ rtc # NoPort
  /\ Open(n, m.key)
  /\ usedWeb' = [usedWeb EXCEPT ![n] = Mark(@, m.port)]
  /\ NodeSends(n, StartResult(m.key, "duplicate"))
  /\ UNCHANGED sessions

\* tryLaunchSession fails when std::thread throws: the entry stays, with no
\* thread to clear it.
Launch(n, m, sock, rtc) ==
  /\ m.port \notin usedWeb[n] /\ sock # NoPort /\ rtc # NoPort
  /\ ~Open(n, m.key)
  /\ usedWeb' = [usedWeb EXCEPT ![n] = Mark(@, m.port)]
  /\ \E launched \in BOOLEAN :
       /\ sessions' = [sessions EXCEPT ![n][m.key] =
            NewSession(m.port, sock, rtc, IF launched THEN "launching" ELSE "stuck")]
       /\ NodeSends(n, StartResult(m.key, IF launched THEN "ok" ELSE "crashed"))

StartNewSession(n, j, m) ==
  /\ m.type = "start"
  /\ NodeReads(n, j, m)
  /\ \E sock \in FindAvailablePort(Socks, usedSock[n]) :
     \E rtc \in FindAvailablePort(Rtcs, usedRtc[n]) :
       /\ usedSock' = [usedSock EXCEPT ![n] = Mark(@, sock)]
       /\ usedRtc' = [usedRtc EXCEPT ![n] = Mark(@, rtc)]
       /\ \/ PortUnavailable(n, m, sock, rtc)
          \/ DuplicateName(n, m, sock, rtc)
          \/ Launch(n, m, sock, rtc)
  /\ UNCHANGED <<up, wired, starts, con, infos>>

\* StreamingSession::finishSession sends through _connection: only a live one
\* leads to a process.
Reachable(s) == s.conn = "live" /\ s.proc = "announced"
Finish(s) == IF Reachable(s) THEN [s EXCEPT !.told = TRUE] ELSE s

\* SessionManager::finishSession.
FinishSession(n, k) ==
  sessions' = IF Open(n, k) THEN [sessions EXCEPT ![n][k] = Finish(@)] ELSE sessions

\* Seeded fault: the request is answered twice.
CloseAnsweredTwice(n, j, m) ==
  /\ m.type = "close"
  /\ NodeReads(n, j, m)
  /\ toFrontend' = [toFrontend EXCEPT ![<<n, starts[n]>>] =
       @ \o <<CloseResult(m.key), CloseResult(m.key)>>]
  /\ UNCHANGED <<up, wired, starts, con, nodeVars>>

\* Whether or not there was a session to finish, the result is sent, and at
\* once: it does not wait for the process.
CloseUserSession(n, j, m) ==
  /\ m.type = "close"
  /\ NodeReads(n, j, m)
  /\ FinishSession(n, m.key)
  /\ NodeSends(n, CloseResult(m.key))
  /\ UNCHANGED <<up, wired, starts, con, usedWeb, usedSock, usedRtc, infos>>

\* NodeInfo::writeImpl copies the web port list with its flags.
SendNodeInfo(n, j, m) ==
  /\ m.type = "nodeinfo"
  /\ NodeReads(n, j, m)
  /\ NodeSends(n, NodeInfo(usedWeb[n]))
  /\ UNCHANGED <<up, wired, starts, con, nodeVars>>

Request(n) ==
  \E j \in 1..Len(toNode[n]) :
    LET m == Head(toNode[n]) IN
      \/ StartNewSession(n, j, m)
      \/ CloseUserSession(n, j, m)
      \/ SendNodeInfo(n, j, m)

-----------------------------------------------------------------------------
(* The launch thread of a session, and the process it waits for.           *)

SetProc(n, k, p) ==
  /\ sessions' = [sessions EXCEPT ![n][k].proc = p]
  /\ UNCHANGED <<linkVars, usedWeb, usedSock, usedRtc>>

\* fork: the parent waits for the child; when fork fails the thread returns.
Fork(n, k) ==
  /\ up[n] /\ In(n, k, {"launching"})
  /\ \E p \in {"running", "stuck"} : SetProc(n, k, p)
  /\ UNCHANGED infos

\* The streaming process (external) connects to the inner server and says
\* which session it is; at any time it may end, told to or not.
ProcessAnnounces(n, k) ==
  /\ up[n] /\ In(n, k, {"running"})
  /\ SetProc(n, k, "announced")
  /\ infos' = [infos EXCEPT ![n] = @ \cup {[key |-> k, found |-> "none", own |-> TRUE]}]

ProcessEnds(n, k) ==
  /\ up[n] /\ In(n, k, {"running", "announced"})
  /\ SetProc(n, k, "exited")
  /\ UNCHANGED infos

\* Erasing a session leaves the pointers to it dangling, and its packets
\* those of a process that is no more.
Orphan(i, k) ==
  IF i.key # k THEN i
  ELSE [i EXCEPT !.own = FALSE, !.found = IF @ = "valid" THEN "dangling" ELSE @]

\* Seeded fault: clearSession forgets the RTC port.
ClearSessionKeepsRtc(n, k) ==
  /\ up[n] /\ In(n, k, {"exited"})
  /\ LET s == sessions[n][k] IN
       /\ usedWeb' = [usedWeb EXCEPT ![n] = Release(@, s.web)]
       /\ usedSock' = [usedSock EXCEPT ![n] = Release(@, s.sock)]
  /\ sessions' = [sessions EXCEPT ![n][k] = NoSession]
  /\ infos' = [infos EXCEPT ![n] = {Orphan(i, k) : i \in @}]
  /\ UNCHANGED <<linkVars, usedRtc>>

ClearSession(n, k) ==
  /\ up[n] /\ In(n, k, {"exited"})
  /\ LET s == sessions[n][k] IN
       /\ usedWeb' = [usedWeb EXCEPT ![n] = Release(@, s.web)]
       /\ usedSock' = [usedSock EXCEPT ![n] = Release(@, s.sock)]
       /\ usedRtc' = [usedRtc EXCEPT ![n] = Release(@, s.rtc)]
  /\ sessions' = [sessions EXCEPT ![n][k] = NoSession]
  /\ infos' = [infos EXCEPT ![n] = {Orphan(i, k) : i \in @}]
  /\ UNCHANGED linkVars

-----------------------------------------------------------------------------
(* SessionInfo packets, run by the inner server's workers without a lock.  *)

Drop(n, i) == infos' = [infos EXCEPT ![n] = @ \ {i}]

\* getStreamSession, then, perhaps after others moved, setConnection.
SessionInfoLookup(n, i) ==
  /\ up[n] /\ i.found = "none"
  /\ IF Open(n, i.key)
     THEN infos' = [infos EXCEPT ![n] = (@ \ {i}) \cup {[i EXCEPT !.found = "valid"]}]
     ELSE Drop(n, i)
  /\ UNCHANGED <<linkVars, usedWeb, usedSock, usedRtc, sessions>>

SetConnection(n, i) ==
  /\ up[n] /\ i.found # "none"
  /\ sessions' = IF i.found = "valid"
                 THEN [sessions EXCEPT ![n][i.key].conn = IF i.own THEN "live" ELSE "gone"]
                 ELSE sessions
  /\ Drop(n, i)
  /\ UNCHANGED <<linkVars, usedWeb, usedSock, usedRtc>>

\* The inner server loses the connection and frees it under the pointer.
ProcessLinkBreaks(n, k) ==
  /\ up[n] /\ Open(n, k) /\ sessions[n][k].conn = "live"
  /\ sessions' = [sessions EXCEPT ![n][k].conn = "gone"]
  /\ UNCHANGED <<linkVars, usedWeb, usedSock, usedRtc, infos>>

-----------------------------------------------------------------------------
(* The node process as a whole.                                            *)

\* main: read the port lists, connect, send NodeInfo.
StartNode(n) == NodeStarts(n) /\ UNCHANGED nodeVars

\* All of the manager is lost with the process.
Forget(n) ==
  /\ usedWeb' = [usedWeb EXCEPT ![n] = {}]
  /\ usedSock' = [usedSock EXCEPT ![n] = {}]
  /\ usedRtc' = [usedRtc EXCEPT ![n] = {}]
  /\ sessions' = [sessions EXCEPT ![n] = [k \in Keys |-> NoSession]]
  /\ infos' = [infos EXCEPT ![n] = {}]

StopNode(n) == NodeStops(n) /\ Forget(n)

\* The selector may be shut down before it wrote a RequestFinishSession, so only
\* some processes are reached.
FinishAllSessions(n) ==
  \E reached \in SUBSET {k \in Keys : Open(n, k) /\ Reachable(sessions[n][k])} :
    sessions' = [sessions EXCEPT ![n] =
      [k \in Keys |-> IF k \in reached THEN Finish(@[k]) ELSE @[k]]]

\* signalHandler: finish all sessions, then shut the client and the server
\* down; the launch threads go on until the node stops.
InterruptNode(n) ==
  /\ up[n]
  /\ FinishAllSessions(n)
  /\ IF wired[n] THEN LinkBreaks(n) ELSE UNCHANGED linkVars
  /\ UNCHANGED <<usedWeb, usedSock, usedRtc, infos>>

\* Everything a node does.
NodeNext(n) ==
  \/ StartNode(n)
  \/ InterruptNode(n)
  \/ StopNode(n)
  \/ LinkFaults(n) /\ UNCHANGED nodeVars
  \/ Request(n)
  \/ \E k \in Keys :
       \/ Fork(n, k)
       \/ ProcessAnnounces(n, k)
       \/ ProcessEnds(n, k)
       \/ ClearSession(n, k)
       \/ ProcessLinkBreaks(n, k)
  \/ \E i \in infos[n] : SessionInfoLookup(n, i) \/ SetConnection(n, i)

-----------------------------------------------------------------------------
(* A node alone, with a frontend that asks anything, in any order, and     *)
(* reads the answers at will: what holds here, holds for every frontend.   *)
(* LinkCap bounds the packets under way between the two.                   *)

AnyFrontend(n) ==
  \/ /\ starts[n] > 0
     /\ Len(toNode[n]) + Len(toFrontend[<<n, starts[n]>>]) < LinkCap
     /\ \E m \in Requests : FrontendSends(n, m)
  \/ \E i \in 1..MaxStarts : \E j \in 1..Len(toFrontend[<<n, i>>]) :
       FrontendReads(<<n, i>>, j, Head(toFrontend[<<n, i>>]))

aloneVars == <<linkVars, nodeVars>>

AloneInit == LinkInit /\ NodeInit

AloneNext == \E n \in Nodes : NodeNext(n) \/ (AnyFrontend(n) /\ UNCHANGED nodeVars)

AloneSpec == AloneInit /\ [][AloneNext]_aloneVars

\* A process told to finish does so, and the launch thread then runs: nothing
\* else is scheduled for sure.
ToldProcessEnds(n, k) == ProcessEnds(n, k) /\ sessions[n][k].told

FairAloneSpec ==
  /\ AloneSpec
  /\ \A n \in Nodes, k \in Keys :
       WF_aloneVars(ToldProcessEnds(n, k)) /\ WF_aloneVars(ClearSession(n, k))

-----------------------------------------------------------------------------
(* Properties.                                                             *)

\* Two sessions of one node never share a web, socket or RTC port: the
\* executor and the launch threads mark and release them in any order.
PortsExclusive ==
  \A n \in Nodes : \A k, l \in Keys :
    k # l /\ Open(n, k) /\ Open(n, l) =>
      /\ sessions[n][k].web # sessions[n][l].web
      /\ sessions[n][k].sock # sessions[n][l].sock
      /\ sessions[n][k].rtc # sessions[n][l].rtc

\* The ports of a session stay marked as long as it is in the table, so that
\* no clearSession of another one can have released them.
PortsMarked ==
  \A n \in Nodes : \A k \in Keys :
    Open(n, k) =>
      /\ sessions[n][k].web \in usedWeb[n]
      /\ sessions[n][k].sock \in usedSock[n]
      /\ sessions[n][k].rtc \in usedRtc[n]

\* With lists of one length, as the configuration file asks, socket and RTC
\* ports run out together, and never after the web ports: the leak of a
\* refused start takes from the two side lists alike.
SideListsInStep ==
  Cardinality(Socks) = Cardinality(Rtcs) =>
    \A n \in Nodes :
      /\ Cardinality(usedSock[n]) = Cardinality(usedRtc[n])
      /\ Cardinality(usedWeb[n]) <= Cardinality(usedSock[n])

\* A session whose process was told to finish gives its web port back.
FinishedSessionsFreePorts ==
  \A n \in Nodes : \A k \in Keys : \A p \in Ports :
    (Open(n, k) /\ sessions[n][k].told /\ sessions[n][k].web = p)
      ~> p \notin usedWeb[n]
=============================================================================
