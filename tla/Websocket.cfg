SPECIFICATION WsSpec
CONSTANTS
  NULL = NULL
  NORMAL = NORMAL
  PROTOCOL_ERR = PROTOCOL_ERR
  h1 = h1
  h2 = h2
  big = big
  Handles <- MCHandles
  Data <- MCData
  Long <- MCLong
  Outgoing <- MCOutgoing
  Replies <- MCReplies
  AllocMayFail = TRUE
  SplitHeaders = TRUE
  MaxWire = 2
  MaxServed = 2
SYMMETRY Symmetry
\* the caller stops for good when it has deleted the object
CHECK_DEADLOCK FALSE
INVARIANTS
  ConnectionHeld
  CloseIsLast
PROPERTY
  OnlyCurrentTouched
