SPECIFICATION Spec
CONSTANTS
  u1 = u1
  u2 = u2
  a1 = a1
  a2 = a2
  n1 = n1
  n2 = n2
  p1 = p1
  p2 = p2
  t1 = t1
  t2 = t2
  Nodes = {n1}
  Users = {u1, u2}
  Addrs = {a1, a2}
  Logins <- AnyLogin
  Names = {s}
  Ports = {p1}
  Threads = {t1, t2}
  Workers = {w1, w2}
  MaxStarts = 1
  LinkCap = 2
  TaskCap = 1
  Garbage = {0, 3}
  Word = 8
  LoadBalance = FALSE
  NoPort = NoPort
  NoUser = NoUser
  NoThread = NoThread
  NoNode = NoNode
  NoJob = NoJob
  NoEntry = NoEntry
  NoTask = NoTask
  NoReg = NoReg
SYMMETRY FrontSymmetry
INVARIANTS FrontTypeOK SlotsExclusive OvercountsOnlyOverLostSet
