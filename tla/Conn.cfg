SPECIFICATION FairSpec
CONSTANTS
  Kinds = {"get", "touch", "quiet", "set", "setq", "quit", "junk", "noop", "bget", "bgetq", "bset", "bsetq", "bdel", "bdelq", "bquit", "bquitq", "unknown", "bad", "magic"}
  MaxRequests = 3
  MaxUnits = 7
  Window = 1
  ReqsPerEvent = 1
  Failures = {"set", "bset", "bsetq", "rbuf", "event", "yield"}
INVARIANTS DataNeverCommand RepliesInOrder NoLineForgotten QuitIsLast ItemsGivenBack
PROPERTIES Answered
CHECK_DEADLOCK FALSE
