SPECIFICATION Spec
CONSTANTS
  NULL = NULL
  NORMAL = NORMAL
  PROTOCOL_ERR = PROTOCOL_ERR
  h1 = h1
  h2 = h2
  auth = auth
  d1 = d1
  d2 = d2
  big = big
  Handles <- TwoHandles
  Data <- MCData
  Long <- MCLong
  Outgoing <- MCOutgoing
  Replies <- CommonReplies
  AUTH = auth
  AppOps = {"TEXT"}
  Slots = {"str", "close"}
  TxSize = 2
  MaxMsgs = 3
  MaxRuns = 1
  AllocMayFail = FALSE
  SplitHeaders = FALSE
  MaxWire = 8
  MaxServed = 1
INVARIANT
  TypeOK
PROPERTIES
  StopHonoured
  KeepsSending
  CloseEndsRun
