SPECIFICATION FairSpec
CONSTANTS
  Node = {a, b}
  Key = {k1, k2}
  Batch = 3
  QMax = 3
  Window = 1
  Commands = {"set", "get", "delete", "flush", "evict"}
  BackupEvicts = TRUE
  MaxOps = 3
  MaxFaults = 2
INVARIANTS TypeOK NoStaleBackup BackupFollows QueueConserved
PROPERTIES ExitLosesNothing Settles
CHECK_DEADLOCK FALSE
