SPECIFICATION FairSpec
CONSTANTS
  Clients = {a, b}
  StartSeq = 1
  MaxLength = 2
  MaxSize = 2
  Sizes = {1, 2}
  SyncOnAppend = TRUE
  MaxRequests = 3
  MaxForeign = 1
  MaxFailures = 1
INVARIANTS
  TypeOK
  AckedSynced
  ResponseMatchesLog
  OrderedAssignment
  BatchBounded
  TimerGuardsBatch
PROPERTIES
  Answered
  CallsReturn
  ShutsDown
  ImplementsAppender
CHECK_DEADLOCK FALSE
