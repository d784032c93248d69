SPECIFICATION Spec
CONSTANTS
  Gens = 8
  Offsets = {64, 81, 98}
  HeaderSize = 64
  Crashes = {"process", "power"}
  MaxCrashes = 2
INVARIANTS
  LoadsCommitted
  StaysReadable
  UsesNewest
CHECK_DEADLOCK FALSE
