SPECIFICATION Spec
CONSTANTS
  StartSeq = 1
  MaxSegmentSize = 120
  MaxDiskSize = 264
  MaxSegments = 3
  SyncOnAppend = TRUE
  Lengths = {1}
  MaxBatch = 2
  Batches <- MCBatches
  TruncateSeqs <- MCTruncateSeqs
  Ops = {"append", "truncateBefore", "truncateAfter"}
  Faulty = {"truncateSync"}
  MaxFaults = 1
  MaxRecords = 4
  MaxFiles = 5
INVARIANTS
  AckedReadable
