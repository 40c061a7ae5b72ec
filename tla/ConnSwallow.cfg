SPECIFICATION Spec
CONSTANTS
  Kinds = {"get", "touch", "quiet", "set", "setq", "quit", "junk"}
  MaxRequests = 3
  MaxUnits = 8
  Window = 2
  ReqsPerEvent = 1
  Failures = {"setq"}
INVARIANTS DataNeverCommand
CHECK_DEADLOCK FALSE
