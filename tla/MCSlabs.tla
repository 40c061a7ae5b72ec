-------------------------------- MODULE MCSlabs --------------------------------
(***************************************************************************)
(* Slabs with the classes that slabs_init makes of a few small settings.   *)
(***************************************************************************)
EXTENDS Slabs, SlabClasses

\* A chunk in use is not much larger than its item: where the smallest class
\* will not do, the next class up is at most the growth factor larger, or twice that
\* for the last class, which is as large as an item may be.
Snug == \A b \in held : b.len > Size[1] =>
  b.len * FactorDen * FactorDen <= RoundUp(b.n) * FactorNum * FactorNum
===============================================================================
