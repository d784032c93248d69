SPECIFICATION LogSpec
CONSTANTS
  StartSeq = 1
  MaxSegmentSize = 120
  MaxDiskSize = 264
  MaxSegments = 3
  SyncOnAppend = TRUE
  Lengths = {1, 20}
  MaxBatch = 2
  Batches <- MCBatches
  TruncateSeqs <- MCTruncateSeqs
  Ops = {"append", "truncateBefore", "truncateAfter"}
  Faulty = {"writing", "syncAppend"}
  MaxFaults = 1
  MaxRecords = 4
  MaxFiles = 5
  Crashes = {}
  MaxCrashes = 0
INVARIANTS
  RetainedBytes
  AckedReadable
  NothingElseReadable
  ReapingMakesRoom
  ChainAfterCrash
  FatalCrashes
