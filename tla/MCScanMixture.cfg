SPECIFICATION LSpec
CONSTANTS
  StartSeq = 1
  MaxSegmentSize = 100
  MaxDiskSize = 0
  MaxSegments = 2
  SyncOnAppend = FALSE
  Lengths = {1, 20}
  MaxBatch = 2
  Batches <- MCBatches
  TruncateSeqs <- MCTruncateSeqs
  Ops = {"append"}
  Faulty = {"writing"}
  MaxFaults = 1
  MaxRecords = 3
  MaxFiles = 4
  Crashes = {}
  MaxCrashes = 0
  Froms = {0}
  Stops = {0}
  Uses = {"range"}
  MaxCalls = 1
PROPERTIES
  OnlyWholeFrames
