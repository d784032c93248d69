SPECIFICATION Spec
CONSTANTS
  Stride = 3
  HeaderSize = 3
  Sizes = {1, 2}
  MaxBatch = 4
  MaxFrames = 6
INVARIANTS
  CheckpointsExact
  LookupsExact
  ShortWalks
