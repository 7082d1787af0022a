SPECIFICATION Spec
CONSTANTS
  NULL = NULL
  NORMAL = NORMAL
  PROTOCOL_ERR = PROTOCOL_ERR
  h1 = h1
  h2 = h2
  auth = auth
  d1 = d1
  d2 = d2
  big = big
  Handles <- TwoHandles
  Data <- MCData
  Long <- MCLong
  Outgoing <- MCOutgoing
  Replies <- AllReplies
  AUTH = auth
  AppOps = {"TEXT"}
  Slots = {"str"}
  TxSize = 1
  MaxMsgs = 1
  MaxRuns = 2
  AllocMayFail = FALSE
  SplitHeaders = FALSE
  MaxWire = 8
  MaxServed = 1
SYMMETRY Symmetry
INVARIANTS
  AuthBeforeTraffic
  AuthOncePerRun
  PartialFrameEnds
  LostAcrossRunsOnly
  DeleteReleases
PROPERTY
  UsesWebsocket
