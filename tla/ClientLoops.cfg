SPECIFICATION Spec
CONSTANTS
  MaxRequests = 4
  InCap = 2
  OutCap = 1
  Signals = TRUE
INVARIANTS ClientTypeOK AnswersInOrder
PROPERTIES KeepsLinkPromise
\* The process may end.
CHECK_DEADLOCK FALSE
