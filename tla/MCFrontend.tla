----------------------------- MODULE MCFrontend -----------------------------
(* Instances of Frontend.  A login is a client address and a user.           *)
EXTENDS Frontend, TLC

CONSTANTS u1, u2, a1, a2, n1, n2, p1, p2, t1, t2

\* u1 and u2 sit at addresses of their own.
OneEach == {<<a1, u1>>, <<a2, u2>>}

\* The user of a1 may change, also while a create from a1 is under way, and
\* u2 may sit at both addresses.
AnyLogin == OneEach \cup {<<a1, u2>>}

Alone == {<<a1, u1>>}

\* Ports, threads and workers are interchangeable.  Users and addresses are not:
\* AnyLogin tells them apart.
FrontSymmetry ==
  Permutations(Ports) \cup Permutations(Threads) \cup Permutations(Workers)
=============================================================================
