SPECIFICATION FairSpec
CONSTANTS
  MinSize = 1
  QueueCap = 3
  MaxWorkers = 3
  MaxTasks = 6
INVARIANTS PoolTypeOK CountWithinBounds CountedGoOn
PROPERTIES PoolKeepsPromise
\* Nothing is left to do once the pool is shut down or the process has ended.
CHECK_DEADLOCK FALSE
