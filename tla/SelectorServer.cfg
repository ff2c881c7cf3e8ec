SPECIFICATION FairSpec
CONSTANTS
  Cons = {c1, c2}
  MaxIn = 1
  MaxOut = 2
INVARIANTS ServerTypeOK MaskFollowsQueue SelectorTouchesOwned
PROPERTIES ConnectionsServed FirstIsAdded StopEndsLoops
\* Nothing is left to do once the server is shut down or the process has ended.
CHECK_DEADLOCK FALSE
