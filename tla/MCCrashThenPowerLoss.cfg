SPECIFICATION RSpec
CONSTANTS
  StartSeq = 0
  MaxSegmentSize = 100
  MaxDiskSize = 300
  MaxSegments = 3
  SyncOnAppend = TRUE
  Lengths = {20}
  MaxBatch = 2
  Batches <- MCBatches
  TruncateSeqs <- MCTruncateSeqs
  Ops = {"append"}
  Faulty = {}
  MaxFaults = 0
  MaxRecords = 4
  MaxFiles = 5
  Crashes = {"process", "power"}
  MaxCrashes = 2
INVARIANTS
  AckedReadable
