SPECIFICATION LSpec
CONSTANTS
  StartSeq = 0
  MaxSegmentSize = 140
  MaxDiskSize = 0
  MaxSegments = 1
  SyncOnAppend = FALSE
  Lengths = {1}
  MaxBatch = 2
  Batches <- MCBatches
  TruncateSeqs <- MCTruncateSeqs
  Ops = {"append", "truncateBefore"}
  Faulty = {"writing"}
  MaxFaults = 1
  MaxRecords = 4
  MaxFiles = 4
  Crashes = {}
  MaxCrashes = 0
  Froms = {0}
  Stops = {}
  Uses = {"consume"}
  MaxCalls = 1
PROPERTIES
  ConsumeKeepsUnread
