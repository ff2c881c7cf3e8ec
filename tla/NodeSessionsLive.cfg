\* Liveness and refinement, without symmetry, over two starts of the process.
SPECIFICATION FairAloneSpec
CONSTANTS
  Nodes = {n1}
  Users = {u1}
  Names = {a}
  Ports = {p1, p2}
  Socks = {s1, s2}
  Rtcs = {r1, r2}
  MaxStarts = 2
  LinkCap = 1
  NoPort = NoPort
  NoSession = NoSession
PROPERTIES FinishedSessionsFreePorts LinkSpec
