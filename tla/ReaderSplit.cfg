SPECIFICATION Spec
CONSTANTS
  NULL = NULL
  NORMAL = NORMAL
  PROTOCOL_ERR = PROTOCOL_ERR
  conn = conn
  tiny = tiny
  mid = mid
  big = big
  Data <- MCData
  Long <- MCLong
  Nothing <- MCNothing
  Replies <- FewKinds
  HeaderLen <- MCHeaderLen
  PayloadLen <- MCPayloadLen
  Refused <- MCRefused
  Large <- MCLarge
  AllocMayFail = TRUE
  SplitHeaders = TRUE
  MaxServed = 2
  MaxNeeded = 12
PROPERTIES
  WholeFrameKept
  ImplementsRecv
  CallReturns
