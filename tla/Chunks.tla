-------------------------------- MODULE Chunks --------------------------------
(***************************************************************************)
(* What the slab allocator promises its caller: memory of the size asked   *)
(* for, which is nobody else's until it is given back.  items.c relies on  *)
(* no more than this.                                                      *)
(***************************************************************************)
EXTENDS Integers

VARIABLE held     \* the chunks in use: [at |-> address, len |-> bytes, n |-> bytes asked for]

Apart(a, b) == a.at + a.len <= b.at \/ b.at + b.len <= a.at

Init == held = {}

Alloc == \E b \in held' \ held :
  /\ held' = held \cup {b}
  /\ b.n <= b.len
  /\ \A other \in held : Apart(b, other)

Free == \E b \in held : held' = held \ {b}

\* The holder asks for something else in the memory it has.
Reuse == \E b \in held, c \in held' :
  /\ c.at = b.at /\ c.len = b.len /\ c.n <= c.len
  /\ held' = (held \ {b}) \cup {c}

Next == Alloc \/ Free \/ Reuse

Spec == Init /\ [][Next]_held
===============================================================================
