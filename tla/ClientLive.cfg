SPECIFICATION FairSpec
CONSTANTS
  MaxRequests = 6
  InCap = 1
  OutCap = 1
  Signals = FALSE
PROPERTIES ParsedIsAnswered LoopsEndUnlessOverslept
\* The two ends may jam each other, and the process may end.
CHECK_DEADLOCK FALSE
