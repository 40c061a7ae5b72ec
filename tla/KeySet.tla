------------------------------- MODULE KeySet -------------------------------
(***************************************************************************)
(* What a hash table promises its callers: a set of keys that changes only *)
(* when a key is inserted or deleted.  Growing the table and moving its    *)
(* buckets is invisible here: those steps leave "keys" unchanged.          *)
(***************************************************************************)
CONSTANT Keys

VARIABLE keys

Init == keys = {}

Insert(k) == k \notin keys /\ keys' = keys \cup {k}

Delete(k) == k \in keys /\ keys' = keys \ {k}

Next == \E k \in Keys : Insert(k) \/ Delete(k)

Spec == Init /\ [][Next]_keys
=============================================================================
