------------------------------- MODULE MCServer -------------------------------
(* Small instances of Server for TLC.  Values are decimal numbers of at most  *)
(* two digits: uint64_t wraps at 100 here, so an incr of 9 needs more room    *)
(* and an incr of 99 wraps.                                                   *)
EXTENDS Server, TLC

CONSTANTS i1, i2, i3, k1, k2, c1, c2

\* Chunks are alike, and so are connections and keys.
Symmetry == Permutations(Items) \cup Permutations(Conns) \cup Permutations(Keys)

\* Where in c->ilist a connection stopped does not matter once all of it is given
\* back: icurr is only read while ileft is not 0, and set before ileft is.
WithoutIcurr ==
  <<cache, timevars, pc, cmd, slot, got, [c \in Conns |-> IF ileft[c] = 0 THEN 1 ELSE icurr[c]],
    ileft, reply, history>>

Lost == {i \in Items : leaked[i] > 0}

\* Bound: no more than one reference is lost, and a run that has lost it goes on for
\* no more than the first second, and up to a flush.
FewLost ==
  /\ Cardinality(Lost) <= 1 /\ \A i \in Lost : leaked[i] = 1
  /\ Lost # {} => oldest_live = 0 /\ current_time <= StartTime + 1

\* Bound: a run ends where references are no longer counted.
Counted == ~cache.uncounted
=============================================================================
