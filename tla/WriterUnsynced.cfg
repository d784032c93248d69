SPECIFICATION Spec
CONSTANTS
  Clients = {a, b}
  StartSeq = 1
  MaxLength = 2
  MaxSize = 2
  Sizes = {1, 2}
  SyncOnAppend = FALSE
  MaxRequests = 3
  MaxForeign = 1
  MaxFailures = 1
INVARIANTS
  AckedSynced
CHECK_DEADLOCK FALSE
