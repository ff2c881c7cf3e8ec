----------------------------- MODULE Deployment -----------------------------
(***************************************************************************)
(* The whole: the session server of Frontend with the nodes of             *)
(* NodeSessions at the other end of NodeLink's connections, in the place   *)
(* of the node that only promises to answer.                               *)
(***************************************************************************)
EXTENDS Frontend, NodeSessions

allVars == <<vars, nodeVars>>

DeploymentInit == Init /\ NodeInit

\* FrontNext takes requests to the wire and answers from it; a node's steps
\* leave the frontend's own state alone.
DeploymentNext ==
  \/ FrontNext /\ UNCHANGED nodeVars
  \/ \E n \in Nodes : NodeNext(n) /\ UNCHANGED frontVars

DeploymentSpec == DeploymentInit /\ [][DeploymentNext]_allVars

-----------------------------------------------------------------------------
(* Properties that neither side can state alone.  They are about nodes that *)
(* are not started twice: a second NodeInfo forgets what was reserved.      *)

\* A port a node has in use is a slot the frontend counts as taken, so that it
\* is offered to nobody else.
UsedIsTaken ==
  \A n \in Nodes : usedWeb[n] \subseteq TakenSlots(n)

\* A node never has to refuse a start for want of a port: the slots that the
\* frontend hands out and the three port lists of the node agree, whatever is
\* leaked on either side.
NeverRefusedForPort ==
  \A l \in Links : \A i \in 1..Len(toFrontend[l]) :
    LET r == toFrontend[l][i] IN
    r.type = "started" => r.status # "unavailable"
=============================================================================
