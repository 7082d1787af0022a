SPECIFICATION FetchSpec
CONSTANTS
  Documents <- MCDocuments
  MaxFailures = 2
  MaxChunks = 2
  MostRelations = 2
  MaxI64 = 7
INVARIANTS
  NothingDangles
  UnwrittenOnlyUnparsed
  NothingElseLeaks
  ReadsDocument
PROPERTY
  ImplementsCursor
CHECK_DEADLOCK FALSE
