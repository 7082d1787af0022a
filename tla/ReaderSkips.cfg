SPECIFICATION Spec
CONSTANTS
  NULL = NULL
  NORMAL = NORMAL
  PROTOCOL_ERR = PROTOCOL_ERR
  conn = conn
  tiny = tiny
  mid = mid
  big = big
  Data <- MCData
  Long <- MCLong
  Nothing <- MCNothing
  Replies <- ThreeKinds
  HeaderLen <- MCHeaderLen
  PayloadLen <- MCPayloadLen
  Refused <- MCRefused
  Large <- MCLarge
  AllocMayFail = FALSE
  SplitHeaders = TRUE
  MaxServed = 2
  MaxNeeded = 12
PROPERTY
  NoFrameLost
