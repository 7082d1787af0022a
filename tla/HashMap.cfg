SPECIFICATION Spec
CONSTANTS
  NULL = NULL
  a = a
  b = b
  c = c
  Keys <- MCKeys
  Hash <- MCHash
  MinBuckets = 2
  DoublesUpTo = 2
  HalvesUpTo = 3
  Sizes = {0, 1, 4}
  AllocMayFail = TRUE
  MaxInserts = 4
  MaxBuckets = 5
\* nothing is called after delete
CHECK_DEADLOCK FALSE
INVARIANTS
  FindsKey
  LoadBounded
PROPERTY
  ImplementsDictionary
