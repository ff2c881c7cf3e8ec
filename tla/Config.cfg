SPECIFICATION Spec
CONSTANTS
  Lines <- MCLines
  MaxLines = 2
  ListKey <- MCListKey
  ServerKey <- MCServerKey
  PortValues = 12
  IntLimit = 15
INVARIANTS ConfigTypeOK LastLineCounts PortsAsWritten ServerPortAsWritten
\* A program that has read its configuration does no more here.
CHECK_DEADLOCK FALSE
