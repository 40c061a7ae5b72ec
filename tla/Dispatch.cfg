SPECIFICATION FairSpec
CONSTANTS
  a = a b = b d = d
  Clients = {a, b, d}
  NumThreads = 2
  MaxFds = 2
  MayFail = TRUE
INVARIANTS OneOwner NotifiedOfEach
PROPERTIES Attended
CHECK_DEADLOCK FALSE
