------------------------------- MODULE MCDelta -------------------------------
(* Every incr and decr of every value, with integers of eight bits.  "done" is *)
(* the operation last carried out.                                             *)
EXTENDS Delta

VARIABLES value, done

Init == value \in UInt64 /\ done = [op |-> "none", of |-> value, delta |-> 0]

IncrStep(d) ==
  /\ value' = Incr(value, d)
  /\ done' = [op |-> "incr", of |-> value, delta |-> d]

DecrStep(d) ==
  /\ value' = Decr(value, d)
  /\ done' = [op |-> "decr", of |-> value, delta |-> d]

Next == done.op = "none" /\ \E d \in UInt64 : IncrStep(d) \/ DecrStep(d)

Spec == Init /\ [][Next]_<<value, done>>

\* "if a client tries to decrease the value below 0, the new value will be 0"
\* (protocol.txt:309), and otherwise the difference.
UnderflowCaught ==
  done.op = "decr" =>
    value = IF done.delta > done.of THEN 0 ELSE done.of - done.delta
=============================================================================
