SPECIFICATION Spec
CONSTANTS
  i1 = i1 i2 = i2 i3 = i3 k1 = k1 k2 = k2 c1 = c1 c2 = c2
  NULL = NULL
  Items = {i1, i2, i3}
  Keys = {k1, k2}
  Conns = {c1, c2}
  Wrap = 1000
  MaxDigits = 3
  MaxBytes = 2
  SearchTries = 50
  EvictToFree = TRUE
  UpdateInterval = 1
  TailRepairTime = 10
  Cmds = {"set", "add", "replace", "append", "prepend", "cas", "delete", "incr", "decr", "flush_all"}
  SetVals = {1, 100}
  Exptimes = {1}
  Deltas = {2}
  Delays = {0}
  NoMemory = FALSE
  MaxGets = 1
  MaxRefs = 3
  RefWrap = 20
  StartTime = 2
  MaxTime = 4
  MaxCas = 2
SYMMETRY Symmetry
INVARIANTS StructuresAgree NoAssertFails
PROPERTIES ImplementsKVStore ValueChangeIsNewCas
CHECK_DEADLOCK FALSE
