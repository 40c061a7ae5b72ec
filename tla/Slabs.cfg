CONSTANTS
  SmallestChunk = 2
  item_size_max = 17
  FactorNum = 2
  FactorDen = 1
  ChunkAlign = 2
  POWER_LARGEST = 10
  power_largest <- LargestClass
  Size <- ClassSize
  Perslab <- ClassPerslab
  mem_limit = 35
  Align = 2
  FirstArray = 1
  Requests = {3, 4, 9}
  MayFail = TRUE
  MaySteal = TRUE
  MaxItems = 3
  MaxLost = 1
  MaxDrift = 0
SPECIFICATION Spec
INVARIANTS NoOverlap InsideMemory ChunksConserved WithinLimit
PROPERTIES ImplementsChunks
CHECK_DEADLOCK FALSE
