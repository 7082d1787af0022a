SPECIFICATION Spec
CONSTANTS
  NULL = NULL
  NORMAL = NORMAL
  PROTOCOL_ERR = PROTOCOL_ERR
  h1 = h1
  h2 = h2
  auth = auth
  d1 = d1
  d2 = d2
  big = big
  Handles <- OneHandle
  Data <- MCData
  Long <- MCLong
  Outgoing <- MCOutgoing
  Replies <- TwoPings
  AUTH = auth
  AppOps = {"TEXT"}
  Slots = {"ping"}
  TxSize = 2
  MaxMsgs = 2
  MaxRuns = 2
  AllocMayFail = TRUE
  SplitHeaders = FALSE
  MaxWire = 6
  MaxServed = 2
INVARIANTS
  PongsAnswerPings
  AtMostOnce
PROPERTY
  ImplementsOutbox
