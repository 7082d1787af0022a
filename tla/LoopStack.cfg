SPECIFICATION Spec
CONSTANTS
  NULL = NULL
  NORMAL = NORMAL
  PROTOCOL_ERR = PROTOCOL_ERR
  h1 = h1
  h2 = h2
  auth = auth
  d1 = d1
  d2 = d2
  big = big
  Handles <- OneHandle
  Data <- MCData
  Long <- MCLong
  Outgoing <- MCOutgoing
  Replies <- AllReplies
  AUTH = auth
  AppOps = {"TEXT"}
  Slots = {}
  TxSize = 128
  MaxMsgs = 6
  MaxRuns = 1
  AllocMayFail = FALSE
  SplitHeaders = FALSE
  MaxWire = 12
  MaxServed = 1
INVARIANT
  StackFits
