SPECIFICATION DeploymentSpec
CONSTANTS
  u1 = u1
  u2 = u2
  a1 = a1
  a2 = a2
  Socks = {k1, k2}
  Rtcs = {r1, r2}
  NoSession = NoSession
  Nodes = {n1}
  Users = {u1, u2}
  Addrs = {a1, a2}
  Logins <- OneEach
  Names = {s}
  Ports = {p1, p2}
  Threads = {t1, t2}
  Workers = {w1}
  MaxStarts = 1
  LinkCap = 1
  TaskCap = 1
  Garbage = {0}
  Word = 8
  LoadBalance = FALSE
  NoPort = NoPort
  NoUser = NoUser
  NoThread = NoThread
  NoNode = NoNode
  NoJob = NoJob
  NoEntry = NoEntry
  NoTask = NoTask
  NoReg = NoReg
SYMMETRY DeploymentSymmetry
INVARIANTS UsedIsTaken NeverRefusedForPort SlotsExclusive
PROPERTIES LinkSpec
