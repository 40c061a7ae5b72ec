SPECIFICATION FairSpec
CONSTANTS
  Keys <- MCKeys
  Hash <- MCHash
  HashSize <- MCHashSize
  InitPower = 0
  MaxPower = 3
  BulkMove = 1
INVARIANTS KeysWhereSought ItemsCounted NoSleepWhileExpanding
PROPERTIES ImplementsKeySet ExpansionEnds
