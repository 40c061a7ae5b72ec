----------------------------- MODULE MCEventLoop -----------------------------
EXTENDS EventLoop

CONSTANTS r, t, s

MCPri == [e \in Event |-> IF e = t THEN 1 ELSE 0]
=============================================================================
