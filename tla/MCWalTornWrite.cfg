SPECIFICATION RSpec
CONSTANTS
  StartSeq = 0
  MaxSegmentSize = 110
  MaxDiskSize = 0
  MaxSegments = 1
  SyncOnAppend = FALSE
  Lengths = {1}
  MaxBatch = 2
  Batches <- MCBatches
  TruncateSeqs <- MCTruncateSeqs
  Ops = {"append", "sync"}
  Faulty = {}
  MaxFaults = 0
  MaxRecords = 2
  MaxFiles = 5
  Crashes = {"process"}
  MaxCrashes = 1
INVARIANTS
  TornTailTrimmed
