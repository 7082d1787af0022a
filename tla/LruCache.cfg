SPECIFICATION Spec
CONSTANTS
  NULL = NULL
  k1 = k1
  k2 = k2
  k3 = k3
  v1 = v1
  v2 = v2
  n1 = n1
  n2 = n2
  n3 = n3
  n4 = n4
  Keys <- MCKeys
  Values <- MCValues
  Nodes <- MCNodes
  MinCapacity = 2
  Sizes = {0}
  AllocMayFail = TRUE
  MaxFailed = 1
SYMMETRY Symmetry
\* nothing is called after delete
CHECK_DEADLOCK FALSE
INVARIANTS
  WellLinked
  NoDangling
  LatestFound
  SizeBounded
PROPERTY
  ImplementsRecentlyUsed
