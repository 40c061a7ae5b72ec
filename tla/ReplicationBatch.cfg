SPECIFICATION Spec
CONSTANTS
  Node = {a, b}
  Key = {k1, k2}
  Batch = 2
  QMax = 3
  Window = 1
  Commands = {"set", "delete"}
  BackupEvicts = FALSE
  MaxOps = 3
  MaxFaults = 0
INVARIANTS Converged
CHECK_DEADLOCK FALSE
