\* Safety of a node and the two sessions of a user, over one start.
SPECIFICATION AloneSpec
CONSTANTS
  Nodes = {n1}
  Users = {u1}
  Names = {a, b}
  Ports = {p1, p2}
  Socks = {s1, s2}
  Rtcs = {r1, r2}
  MaxStarts = 1
  LinkCap = 1
  NoPort = NoPort
  NoSession = NoSession
SYMMETRY PortSymmetry
INVARIANTS NodeTypeOK PortsExclusive PortsMarked SideListsInStep
