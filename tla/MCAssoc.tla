------------------------------- MODULE MCAssoc -------------------------------
(* A small hash table for TLC: growth from 1 to 4 buckets, five keys that    *)
(* collide in the small tables.                                              *)
EXTENDS Assoc

MCKeys == {"a", "b", "c", "d", "e"}
MCHash == [k \in MCKeys |->
             CASE k = "a" -> 0 [] k = "b" -> 5 [] k = "c" -> 2
               [] k = "d" -> 7 [] k = "e" -> 6]
MCHashSize == [n \in 0 .. 3 |-> 2^n]
=============================================================================
