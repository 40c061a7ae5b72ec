SPECIFICATION FairSpec
CONSTANTS
  r = r t = t s = s ev_signal = ev_signal
  Event = {r, t, s}
  Reads = {r}
  Signals = {s}
  Persist = {r, s}
  NQueues = 2
  Pri <- MCPri
  Durations = {1}
  Times = {2}
  LoopFlags = {}
  Calls = {"add", "del", "active", "break", "exit"}
  MayFail = TRUE
  SetBack = TRUE
  MaxCalls = 3
  MaxSignals = 1
  MaxTime = 2
INVARIANTS QueuesAgree NeverStuck
PROPERTIES NotCalledIfDeleted Heard
CHECK_DEADLOCK FALSE
