SPECIFICATION Spec
CONSTANTS
  Messages <- MCMessages
  MaxPackets <- MCMaxPackets
  HelperSize = 14
  BufferSize = 24
INVARIANTS WireTypeOK HeadersDelimit StreamIsEncoded SessionInOrder SessionKeepsPlace GoneOnlyOverCuts
CHECK_DEADLOCK FALSE
