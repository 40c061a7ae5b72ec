------------------------------ MODULE SlabClasses ------------------------------
(***************************************************************************)
(* The slab classes of memcached 1.4.5: the table slabs_init computes from *)
(* the settings at start.  The growth factor is the fraction               *)
(* FactorNum / FactorDen.                                                  *)
(***************************************************************************)
EXTENDS Integers

CONSTANTS
  SmallestChunk,        \* sizeof(item) + settings.chunk_size
  item_size_max,
  FactorNum, FactorDen, \* settings.factor, -f
  ChunkAlign,           \* CHUNK_ALIGN_BYTES
  POWER_LARGEST

ASSUME ClassesAssumption ==
  /\ SmallestChunk \in Nat \ {0} /\ item_size_max \in Nat \ {0} /\ SmallestChunk <= item_size_max
  /\ FactorDen \in Nat \ {0} /\ FactorNum \in Nat /\ FactorNum > FactorDen
  /\ ChunkAlign \in Nat \ {0} /\ POWER_LARGEST \in Nat \ {0}

RoundUp(n) == ((n + ChunkAlign - 1) \div ChunkAlign) * ChunkAlign

\* What the loop multiplies by: the factor is cast to an unsigned int first.
Step == FactorNum \div FactorDen

\* The variable size as the loop comes to class i: not yet rounded up.
size[i \in 1 .. POWER_LARGEST] == IF i = 1 THEN SmallestChunk ELSE RoundUp(size[i - 1]) * Step

\* The loop ends at the last class, or when the next would be too large.
LoopEnds(i) == i = POWER_LARGEST \/ size[i] * FactorNum > item_size_max * FactorDen

LargestClass == CHOOSE i \in 1 .. POWER_LARGEST :
  LoopEnds(i) /\ \A j \in 1 .. i - 1 : ~LoopEnds(j)

ClassSize == [i \in 1 .. LargestClass |->
  IF i = LargestClass THEN item_size_max ELSE RoundUp(size[i])]

ClassPerslab == [i \in 1 .. LargestClass |-> item_size_max \div ClassSize[i]]
===============================================================================
