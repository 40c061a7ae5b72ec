SPECIFICATION Spec
CONSTANTS
  i1 = i1 i2 = i2 i3 = i3 k1 = k1 k2 = k2 c1 = c1 c2 = c2
  NULL = NULL
  Items = {i1, i2}
  Keys = {k1, k2}
  Conns = {c1, c2}
  Wrap = 100
  MaxDigits = 2
  MaxBytes = 2
  SearchTries = 50
  EvictToFree = TRUE
  UpdateInterval = 4
  TailRepairTime = 0
  Cmds = {"set", "get", "incr", "flush_all"}
  SetVals = {9}
  Exptimes = {0}
  Deltas = {1}
  Delays = {0}
  NoMemory = TRUE
  MaxGets = 2
  MaxRefs = 2
  RefWrap = 20
  StartTime = 2
  MaxTime = 4
  MaxCas = 2
SYMMETRY Symmetry
INVARIANTS NoChunkLost RefcountsMatch HeldNotFreed LruSorted
 
VIEW WithoutIcurr
CONSTRAINTS FewLost Counted
CHECK_DEADLOCK FALSE
