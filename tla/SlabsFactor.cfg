CONSTANTS
  SmallestChunk = 2
  item_size_max = 17
  FactorNum = 5
  FactorDen = 4
  ChunkAlign = 2
  POWER_LARGEST = 10
  power_largest <- LargestClass
  Size <- ClassSize
  Perslab <- ClassPerslab
  mem_limit = 35
  Align = 2
  FirstArray = 1
  Requests = {2, 3}
  MayFail = FALSE
  MaySteal = TRUE
  MaxItems = 3
  MaxLost = 0
  MaxDrift = 1
SPECIFICATION Spec
INVARIANTS Snug
CHECK_DEADLOCK FALSE
