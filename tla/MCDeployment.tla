---------------------------- MODULE MCDeployment ----------------------------
(* Instances of Deployment. *)
EXTENDS Deployment, TLC

CONSTANTS u1, u2, a1, a2

OneEach == {<<a1, u1>>, <<a2, u2>>}
Alone == {<<a1, u1>>}

\* Users sit at addresses of their own, so they are swapped with them.
UserSwap == u1 :> u2 @@ u2 :> u1 @@ a1 :> a2 @@ a2 :> a1

DeploymentSymmetry ==
  Permutations(Ports) \cup Permutations(Socks) \cup Permutations(Rtcs)
    \cup Permutations(Threads) \cup Permutations(Workers) \cup {UserSwap}
=============================================================================
