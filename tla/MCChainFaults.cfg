SPECIFICATION FairSpec
CONSTANTS
  StartSeq = 0
  MaxSegmentSize = 100
  MaxDiskSize = 300
  MaxSegments = 2
  SyncOnAppend = TRUE
  Lengths = {20}
  MaxBatch = 2
  Batches <- MCBatches
  TruncateSeqs <- MCTruncateSeqs
  Ops = {"append", "truncateBefore", "truncateAfter", "sync", "close"}
  Faulty = {"close", "remove", "create", "writeHeader", "syncHeader", "syncDir", "writing", "syncAppend", "trim", "trimSync", "setRead", "setReadSync", "truncate", "truncateSync", "sync"}
  MaxFaults = 1
  MaxRecords = 3
  MaxFiles = 3
INVARIANTS
  TypeOK
  Contiguous
  RetentionBounds
  Accounting
PROPERTIES
  HandlersReturn
  SyncReturns
CHECK_DEADLOCK FALSE
