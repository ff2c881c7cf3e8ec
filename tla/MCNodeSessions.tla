--------------------------- MODULE MCNodeSessions ---------------------------
(* Instances of NodeSessions: one node alone, one user with two session    *)
(* names.                                                                  *)
EXTENDS NodeSessions, TLC

\* Ports are told apart only by the list they are in.
PortSymmetry ==
  Permutations(Ports) \cup Permutations(Socks) \cup Permutations(Rtcs)
    \cup Permutations(Names)
=============================================================================
