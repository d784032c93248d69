SPECIFICATION ReadersSpec
CONSTANTS
  StartSeq = 1
  MaxSegmentSize = 100
  MaxDiskSize = 0
  MaxSegments = 2
  SyncOnAppend = FALSE
  Lengths = {1}
  MaxBatch = 2
  Batches <- MCBatches
  TruncateSeqs = {2, 4}
  Ops = {"append", "truncateBefore"}
  Faulty = {"writing"}
  MaxFaults = 1
  MaxRecords = 4
  MaxFiles = 4
  Crashes = {}
  MaxCrashes = 0
  Froms = {2}
  Stops = {0, 3}
  Uses = {"range", "first", "last"}
  MaxCalls = 1
INVARIANTS
  AckedReadable
  BoundsHeld
PROPERTIES
  ConsumedOnce
  ConsumeKeepsUnread
  HandsOutAppended
  ScanErrorsExplained
  NothingSkipped
