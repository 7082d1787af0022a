SPECIFICATION Session
CONSTANTS
  NULL = NULL
  NORMAL = NORMAL
  PROTOCOL_ERR = PROTOCOL_ERR
  conn = conn
  Answers <- MCAnswers
  Early <- MCEarly
  Outgoing <- MCOutgoing
  FirstNeeded = 6
  FirstSize = 12
  PayloadMax = 2147483647
  AllocMayFail = TRUE
  NoMemory = TRUE
  MaxNeeded = 20
  MaxSent = 1
INVARIANTS
  NothingSwallowed
  UpgradedBehindAnswer
  RequestNamesUrl
  PeerReadsFrame
  PartIsInsufficient
  ShortFrameStaysInside
PROPERTIES
  ConnectReturns
  ImplementsWebsocket
CHECK_DEADLOCK FALSE
