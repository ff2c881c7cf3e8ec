SPECIFICATION FairSpec
CONSTANTS
  u1 = u1
  u2 = u2
  a1 = a1
  a2 = a2
  n1 = n1
  n2 = n2
  p1 = p1
  p2 = p2
  t1 = t1
  t2 = t2
  Nodes = {n1}
  Users = {u1}
  Addrs = {a1}
  Logins <- Alone
  Names = {s}
  Ports = {p1}
  Threads = {t1}
  Workers = {w1}
  MaxStarts = 1
  LinkCap = 1
  TaskCap = 1
  Garbage = {0, 1}
  Word = 8
  LoadBalance = FALSE
  NoPort = NoPort
  NoUser = NoUser
  NoThread = NoThread
  NoNode = NoNode
  NoJob = NoJob
  NoEntry = NoEntry
  NoTask = NoTask
  NoReg = NoReg
PROPERTIES CreateReturns
