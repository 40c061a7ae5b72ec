----------------------------- MODULE AssocProofs -----------------------------
(***************************************************************************)
(* For every set of keys, every hash function, every table size and every  *)
(* bulk-move setting: the hash table never loses a key, its count is       *)
(* right, no wake-up of the maintenance thread is lost, and the table      *)
(* implements a set of keys.                                               *)
(***************************************************************************)
EXTENDS Assoc, FiniteSetTheorems, TLAPS

USE AssocAssumption DEF AssocAssumption

\* The inductive invariant: nothing needs to be added to the invariants the
\* runs check, but they only hold together.  Deletion keeps hash_items from
\* going below zero because of ItemsCounted; the sought chain stays the right
\* one during a move because the maintenance thread knows, by TypeOK, which
\* buckets are left.
IInv == TypeOK /\ KeysWhereSought /\ ItemsCounted /\ NoSleepWhileExpanding

\* The number of buckets of a power in use is positive, and every bucket index
\* a lookup computes lies in its table.
LEMMA BucketInTable ==
  ASSUME NEW k \in Keys, NEW n \in 0 .. MaxPower
  PROVE  Bucket(k, n) \in 0 .. hashsize(n) - 1
  BY DEF Bucket, hashsize

\* The chain assoc_find looks at exists.
LEMMA ChainExists ==
  ASSUME TypeOK, NEW k \in Keys
  PROVE  /\ Bucket(k, hashpower) \in DOMAIN primary_hashtable
         /\ InOld(k) => Bucket(k, hashpower - 1) \in DOMAIN old_hashtable
<1>1. hashpower \in 0 .. MaxPower
  BY DEF TypeOK
<1>2. Bucket(k, hashpower) \in DOMAIN primary_hashtable
  BY <1>1, BucketInTable DEF TypeOK
<1>3. ASSUME InOld(k) PROVE Bucket(k, hashpower - 1) \in DOMAIN old_hashtable
  <2>1. expanding /\ hashpower - 1 \in 0 .. MaxPower
    BY <1>3 DEF TypeOK, InOld
  <2>2. DOMAIN old_hashtable = 0 .. hashsize(hashpower - 1) - 1
    BY <2>1 DEF TypeOK
  <2> QED BY <2>1, <2>2, BucketInTable
<1> QED BY <1>2, <1>3

\* With every chain where it is sought, a key is findable exactly when it is in
\* some chain.
LEMMA FindableIsStored ==
  ASSUME TypeOK, KeysWhereSought
  PROVE  Findable =
           (UNION {primary_hashtable[b] : b \in DOMAIN primary_hashtable})
           \cup (UNION {old_hashtable[b] : b \in DOMAIN old_hashtable})
<1> DEFINE P == UNION {primary_hashtable[b] : b \in DOMAIN primary_hashtable}
           O == UNION {old_hashtable[b] : b \in DOMAIN old_hashtable}
<1>1. ASSUME NEW k \in Keys, assoc_find(k) PROVE k \in P \cup O
  <2>1. CASE InOld(k)
    <3>1. Bucket(k, hashpower - 1) \in DOMAIN old_hashtable
      BY <2>1, ChainExists
    <3> QED BY <1>1, <2>1, <3>1 DEF assoc_find
  <2>2. CASE ~InOld(k)
    <3>1. Bucket(k, hashpower) \in DOMAIN primary_hashtable
      BY BucketInTable DEF TypeOK
    <3> QED BY <1>1, <2>2, <3>1 DEF assoc_find
  <2> QED BY <2>1, <2>2
<1>2. ASSUME NEW k \in P PROVE k \in Findable
  <2>1. PICK b \in DOMAIN primary_hashtable : k \in primary_hashtable[b]
    BY <1>2
  <2>2. k \in Keys BY <2>1 DEF TypeOK
  <2> QED BY <2>1, <2>2 DEF KeysWhereSought, Findable, assoc_find
<1>3. ASSUME NEW k \in O PROVE k \in Findable
  <2>1. PICK b \in DOMAIN old_hashtable : k \in old_hashtable[b]
    BY <1>3
  <2>2. k \in Keys BY <2>1 DEF TypeOK
  <2> QED BY <2>1, <2>2 DEF KeysWhereSought, Findable, assoc_find
<1> QED BY <1>1, <1>2, <1>3 DEF Findable

LEMMA FindableFinite == IsFiniteSet(Findable)
  BY FS_Subset DEF Findable

LEMMA InitIInv == Init => IInv
<1> SUFFICES ASSUME Init PROVE IInv
  OBVIOUS
<1>1. TypeOK
  <2>1. /\ primary_hashtable \in [0 .. hashsize(hashpower) - 1 -> SUBSET Keys]
        /\ hashpower \in 0 .. MaxPower
    BY DEF Init, EmptyTable, hashsize
  <2>2. old_hashtable \in [{} -> SUBSET Keys]
    BY DEF Init, NoTable
  <2>3. ~expanding /\ expanding \in BOOLEAN /\ do_run \in BOOLEAN
    BY DEF Init
  <2>4. hashpower \in InitPower .. MaxPower /\ hash_items \in Nat /\ expand_bucket \in Nat
    BY DEF Init
  <2>5. maint \in {"test", "lock", "waiting", "woken", "exited"}
        /\ main \in {"event_loop", "joining", "stopped"}
    BY DEF Init
  <2> QED BY ONLY <2>1, <2>2, <2>3, <2>4, <2>5 DEF TypeOK
<1>2. KeysWhereSought
  BY DEF Init, KeysWhereSought, EmptyTable, NoTable
<1>3. Findable = {}
  BY <1>1, BucketInTable
  DEF Init, Findable, assoc_find, InOld, EmptyTable, TypeOK
<1>4. ItemsCounted
  BY <1>3, FS_EmptySet DEF Init, ItemsCounted
<1> QED BY <1>1, <1>2, <1>4 DEF IInv, NoSleepWhileExpanding, Init

-----------------------------------------------------------------------------
\* assoc_insert in place adds its key and nothing else.
LEMMA InsertInPlaceStep ==
  ASSUME IInv, NEW k \in Keys, InsertInPlace(k)
  PROVE  IInv' /\ k \notin Findable /\ Findable' = Findable \cup {k}
<1> USE DEF InsertInPlace, LinkKey, InOld, hashsize
<1> USE DEF IInv
<1>1. /\ Bucket(k, hashpower) \in DOMAIN primary_hashtable
      /\ InOld(k) => Bucket(k, hashpower - 1) \in DOMAIN old_hashtable
  BY ChainExists
<1>2. TypeOK'
  <2>1. CASE InOld(k)
    <3>1. old_hashtable \in [0 .. hashsize(hashpower - 1) - 1 -> SUBSET Keys]
      BY <2>1 DEF TypeOK
    <3> QED BY <1>1, <2>1, <3>1 DEF TypeOK
  <2>2. CASE ~InOld(k)
    <3>1. /\ old_hashtable' = old_hashtable
          /\ primary_hashtable' =
               [primary_hashtable EXCEPT ![Bucket(k, hashpower)] = @ \cup {k}]
      BY <2>2
    <3>2. primary_hashtable' \in [0 .. hashsize(hashpower) - 1 -> SUBSET Keys]
      <4> HIDE DEF InsertInPlace
      <4> QED BY <3>1 DEF TypeOK
    <3>3. old_hashtable' \in IF expanding
                             THEN [0 .. hashsize(hashpower - 1) - 1 -> SUBSET Keys]
                             ELSE [{} -> SUBSET Keys]
      BY <3>1 DEF TypeOK
    <3> QED BY <3>2, <3>3 DEF TypeOK
  <2> QED BY <2>1, <2>2
<1>3. \A j \in Keys : \A n : Bucket(j, n)' = Bucket(j, n)
  BY DEF Bucket
<1>4. KeysWhereSought'
  BY <1>1, <1>3 DEF KeysWhereSought, TypeOK, Bucket
<1>5. Findable' = Findable \cup {k}
  <2>1. ASSUME NEW j \in Keys PROVE assoc_find(j)' <=> assoc_find(j) \/ j = k
    <3>1. /\ Bucket(j, hashpower) \in DOMAIN primary_hashtable
          /\ InOld(j) => Bucket(j, hashpower - 1) \in DOMAIN old_hashtable
      BY ChainExists
    <3> DEFINE o == Bucket(j, hashpower - 1)
               p == Bucket(j, hashpower)
    <3>2. /\ assoc_find(j) <=> IF InOld(j) THEN j \in old_hashtable[o] ELSE j \in primary_hashtable[p]
          /\ assoc_find(j)' <=> IF InOld(j) THEN j \in old_hashtable'[o] ELSE j \in primary_hashtable'[p]
      BY DEF assoc_find, Bucket
    <3>3. /\ InOld(j) => (j \in old_hashtable'[o] <=> j \in old_hashtable[o] \/ j = k)
          /\ ~InOld(j) => (j \in primary_hashtable'[p] <=> j \in primary_hashtable[p] \/ j = k)
      <4>1. CASE InOld(k)
        <5>1. /\ primary_hashtable' = primary_hashtable
              /\ old_hashtable' = [old_hashtable EXCEPT ![Bucket(k, hashpower - 1)] = @ \cup {k}]
          BY <4>1
        <5> HIDE DEF InOld, InsertInPlace, o
        <5>2. InOld(j) => (j \in old_hashtable'[o] <=> j \in old_hashtable[o] \/ j = k)
          <6>1. CASE j = k
            BY <3>1, <5>1, <6>1 DEF o
          <6>2. CASE j # k
            BY <3>1, <5>1, <6>2
          <6> QED BY <6>1, <6>2
        <5>3. ~InOld(j) => j # k
          BY <4>1
        <5> QED BY <5>1, <5>2, <5>3
      <4>2. CASE ~InOld(k)
        <5>1. /\ old_hashtable' = old_hashtable
              /\ primary_hashtable' = [primary_hashtable EXCEPT ![Bucket(k, hashpower)] = @ \cup {k}]
          BY <4>2
        <5> HIDE DEF InOld, InsertInPlace, p
        <5>2. ~InOld(j) => (j \in primary_hashtable'[p] <=> j \in primary_hashtable[p] \/ j = k)
          <6>1. CASE j = k
            BY <3>1, <5>1, <6>1 DEF p
          <6>2. CASE j # k
            BY <3>1, <5>1, <6>2 DEF p
          <6> QED BY <6>1, <6>2
        <5>3. InOld(j) => j # k
          BY <4>2
        <5> QED BY <5>1, <5>2, <5>3
      <4> QED BY <4>1, <4>2
    <3> HIDE DEF InOld, o, p
    <3> QED BY <3>2, <3>3
  <2> QED BY <2>1 DEF Findable
<1>6. k \notin Findable
  BY DEF Findable
<1>7. ItemsCounted'
  BY <1>5, <1>6, FindableFinite, FS_AddElement DEF ItemsCounted
<1>8. NoSleepWhileExpanding'
  BY DEF NoSleepWhileExpanding
<1> QED BY <1>2, <1>4, <1>5, <1>6, <1>7, <1>8

\* assoc_insert that grows the table adds its key and nothing else.
LEMMA InsertAndExpandStep ==
  ASSUME IInv, NEW k \in Keys, InsertAndExpand(k)
  PROVE  IInv' /\ k \notin Findable /\ Findable' = Findable \cup {k}
<1> USE DEF InsertAndExpand, LinkKey, MustExpand, InOld, hashsize, EmptyTable
<1> USE DEF IInv
<1>0. ~expanding /\ hashpower + 1 \in 0 .. MaxPower /\ hashpower \in 0 .. MaxPower
  BY DEF TypeOK
<1>1. Bucket(k, hashpower) \in DOMAIN primary_hashtable
  BY <1>0, BucketInTable DEF TypeOK
<1>2. TypeOK'
  <2>1. old_hashtable' \in [0 .. hashsize(hashpower) - 1 -> SUBSET Keys]
    <3>1. old_hashtable' = [primary_hashtable EXCEPT ![Bucket(k, hashpower)] = @ \cup {k}]
      BY <1>0
    <3>2. primary_hashtable \in [0 .. hashsize(hashpower) - 1 -> SUBSET Keys]
      BY DEF TypeOK
    <3> QED BY ONLY <1>1, <3>1, <3>2, k \in Keys
  <2>2. primary_hashtable' \in [0 .. hashsize(hashpower + 1) - 1 -> SUBSET Keys]
    OBVIOUS
  <2>3. /\ hashpower' \in InitPower .. MaxPower /\ hashpower' > InitPower
        /\ hashpower' = hashpower + 1 /\ hashpower' - 1 = hashpower
    BY <1>0 DEF TypeOK
  <2>4. hash_items' \in Nat /\ expand_bucket' = 0 /\ expanding' = TRUE /\ hashsize(hashpower) > 0
    BY <1>0 DEF TypeOK
  <2>5. maint' \in {"test", "lock", "waiting", "woken", "exited"}
    BY DEF TypeOK, Signal
  <2>6. do_run' \in BOOLEAN /\ main' \in {"event_loop", "joining", "stopped"}
    BY DEF TypeOK
  <2>7. hashsize(hashpower') = hashsize(hashpower + 1) /\ hashsize(hashpower' - 1) = hashsize(hashpower)
    BY <2>3
  <2>8. old_hashtable' \in IF expanding' THEN [0 .. hashsize(hashpower' - 1) - 1 -> SUBSET Keys]
                                        ELSE [{} -> SUBSET Keys]
    BY ONLY <2>1, <2>4, <2>7
  <2>9. primary_hashtable' \in [0 .. hashsize(hashpower') - 1 -> SUBSET Keys]
    BY ONLY <2>2, <2>7
  <2>a. expanding' => expand_bucket' < hashsize(hashpower' - 1)
    BY ONLY <2>4, <2>7
  <2> QED BY ONLY <2>3, <2>4, <2>5, <2>6, <2>8, <2>9, <2>a DEF TypeOK, hashsize
<1>3. KeysWhereSought'
  <2>1. ASSUME NEW b \in DOMAIN old_hashtable', NEW j \in old_hashtable'[b]
        PROVE  InOld(j)' /\ Bucket(j, hashpower - 1)' = b
    <3>0. ~InOld(k) /\ old_hashtable' =
             [primary_hashtable EXCEPT ![Bucket(k, hashpower)] = @ \cup {k}]
      BY <1>0
    <3>1. b \in DOMAIN primary_hashtable /\ b >= 0 /\ j \in Keys
      <4>1. DOMAIN old_hashtable' = DOMAIN primary_hashtable
        BY <3>0
      <4>2. b \in DOMAIN primary_hashtable /\ b >= 0
        BY <4>1 DEF TypeOK
      <4>3. old_hashtable'[b] \subseteq Keys
        <5> HIDE DEF InsertAndExpand, IInv
        <5>1. primary_hashtable[b] \subseteq Keys
          BY <4>2 DEF TypeOK, IInv
        <5> QED BY <3>0, <4>2, <5>1
      <4> QED BY <4>2, <4>3
    <3>2. j = k \/ j \in primary_hashtable[b]
      BY <1>0, <1>1, <3>1 DEF TypeOK
    <3>3. Bucket(j, hashpower) = b
      BY <1>0, <1>1, <3>1, <3>2 DEF TypeOK, KeysWhereSought
    <3> QED BY <1>0, <3>1, <3>3 DEF Bucket, TypeOK
  <2> QED BY <2>1 DEF KeysWhereSought
<1>4. Findable' = Findable \cup {k}
  <2>1. ASSUME NEW j \in Keys PROVE assoc_find(j)' <=> assoc_find(j) \/ j = k
    <3>1. Bucket(j, hashpower) \in DOMAIN primary_hashtable
      BY <1>0, BucketInTable DEF TypeOK
    <3>2. Bucket(j, hashpower) >= 0
      BY <1>0, BucketInTable
    <3>3. InOld(j)' /\ Bucket(j, hashpower - 1)' = Bucket(j, hashpower)
      BY <1>0, <3>2 DEF Bucket, TypeOK
    <3> QED BY <1>0, <1>1, <3>1, <3>3 DEF assoc_find, TypeOK
  <2> QED BY <2>1 DEF Findable
<1>5. k \notin Findable
  BY DEF Findable
<1>6. ItemsCounted'
  BY <1>4, <1>5, FindableFinite, FS_AddElement DEF ItemsCounted
<1>7. NoSleepWhileExpanding'
  BY DEF NoSleepWhileExpanding, Signal
<1> QED BY <1>2, <1>3, <1>4, <1>5, <1>6, <1>7

\* assoc_delete removes its key and nothing else.
LEMMA DeleteStep ==
  ASSUME IInv, NEW k \in Keys, Delete(k)
  PROVE  IInv' /\ k \in Findable /\ Findable' = Findable \ {k}
<1> USE DEF Delete, InOld, hashsize
<1> USE DEF IInv
<1>1. /\ Bucket(k, hashpower) \in DOMAIN primary_hashtable
      /\ InOld(k) => Bucket(k, hashpower - 1) \in DOMAIN old_hashtable
  BY ChainExists
<1>2. k \in Findable
  BY DEF Findable
<1>3. Cardinality(Findable) \in Nat /\ Cardinality(Findable) # 0
  BY <1>2, FindableFinite, FS_CardinalityType, FS_EmptySet
<1>4. Cardinality(Findable \ {k}) = hash_items - 1
  BY <1>2, FindableFinite, FS_RemoveElement DEF ItemsCounted
<1>5. TypeOK'
  <2>1. hash_items' \in Nat
    BY <1>3 DEF ItemsCounted
  <2>2. CASE InOld(k)
    <3>1. old_hashtable \in [0 .. hashsize(hashpower - 1) - 1 -> SUBSET Keys]
      BY <2>2 DEF TypeOK
    <3>2. /\ primary_hashtable' = primary_hashtable
          /\ old_hashtable' = [old_hashtable EXCEPT ![Bucket(k, hashpower - 1)] = @ \ {k}]
      BY <2>2
    <3>3. old_hashtable' \in [0 .. hashsize(hashpower - 1) - 1 -> SUBSET Keys]
      BY ONLY <3>1, <3>2
    <3> QED BY <2>1, <2>2, <3>2, <3>3 DEF TypeOK
  <2>3. CASE ~InOld(k)
    <3>1. primary_hashtable \in [0 .. hashsize(hashpower) - 1 -> SUBSET Keys]
      BY DEF TypeOK
    <3>2. /\ old_hashtable' = old_hashtable
          /\ primary_hashtable' = [primary_hashtable EXCEPT ![Bucket(k, hashpower)] = @ \ {k}]
      BY <2>3
    <3>3. primary_hashtable' \in [0 .. hashsize(hashpower) - 1 -> SUBSET Keys]
      BY ONLY <3>1, <3>2
    <3> QED BY <2>1, <3>2, <3>3 DEF TypeOK
  <2> QED BY <2>2, <2>3
<1>6. KeysWhereSought'
  <2>1. /\ DOMAIN old_hashtable' = DOMAIN old_hashtable
        /\ \A b \in DOMAIN old_hashtable :
             old_hashtable'[b] \subseteq old_hashtable[b]
    BY <1>1 DEF TypeOK
  <2>2. /\ DOMAIN primary_hashtable' = DOMAIN primary_hashtable
        /\ \A b \in DOMAIN primary_hashtable :
             primary_hashtable'[b] \subseteq primary_hashtable[b]
    BY <1>1 DEF TypeOK
  <2> QED BY <2>1, <2>2 DEF KeysWhereSought, Bucket
<1>7. Findable' = Findable \ {k}
  <2>1. ASSUME NEW j \in Keys PROVE assoc_find(j)' <=> assoc_find(j) /\ j # k
    <3>1. /\ Bucket(j, hashpower) \in DOMAIN primary_hashtable
          /\ InOld(j) => Bucket(j, hashpower - 1) \in DOMAIN old_hashtable
      BY ChainExists
    <3> DEFINE o == Bucket(j, hashpower - 1)
               p == Bucket(j, hashpower)
    <3>2. /\ assoc_find(j) <=> IF InOld(j) THEN j \in old_hashtable[o] ELSE j \in primary_hashtable[p]
          /\ assoc_find(j)' <=> IF InOld(j) THEN j \in old_hashtable'[o] ELSE j \in primary_hashtable'[p]
      BY DEF assoc_find, Bucket
    <3>3. /\ InOld(j) => (j \in old_hashtable'[o] <=> j \in old_hashtable[o] /\ j # k)
          /\ ~InOld(j) => (j \in primary_hashtable'[p] <=> j \in primary_hashtable[p] /\ j # k)
      <4>1. CASE InOld(k)
        <5>1. /\ primary_hashtable' = primary_hashtable
              /\ old_hashtable' = [old_hashtable EXCEPT ![Bucket(k, hashpower - 1)] = @ \ {k}]
          BY <4>1
        <5> HIDE DEF InOld, Delete, o
        <5>2. InOld(j) => (j \in old_hashtable'[o] <=> j \in old_hashtable[o] /\ j # k)
          <6>1. CASE j = k
            BY <3>1, <5>1, <6>1 DEF o
          <6>2. CASE j # k
            BY <3>1, <5>1, <6>2
          <6> QED BY <6>1, <6>2
        <5>3. ~InOld(j) => j # k
          BY <4>1
        <5> QED BY <5>1, <5>2, <5>3
      <4>2. CASE ~InOld(k)
        <5>1. /\ old_hashtable' = old_hashtable
              /\ primary_hashtable' = [primary_hashtable EXCEPT ![Bucket(k, hashpower)] = @ \ {k}]
          BY <4>2
        <5> HIDE DEF InOld, Delete, p
        <5>2. ~InOld(j) => (j \in primary_hashtable'[p] <=> j \in primary_hashtable[p] /\ j # k)
          <6>1. CASE j = k
            BY <3>1, <5>1, <6>1 DEF p
          <6>2. CASE j # k
            BY <3>1, <5>1, <6>2 DEF p
          <6> QED BY <6>1, <6>2
        <5>3. InOld(j) => j # k
          BY <4>2
        <5> QED BY <5>1, <5>2, <5>3
      <4> QED BY <4>1, <4>2
    <3> HIDE DEF InOld, o, p
    <3> QED BY <3>2, <3>3
  <2> QED BY <2>1 DEF Findable
<1>8. ItemsCounted' /\ NoSleepWhileExpanding'
  BY <1>4, <1>7 DEF ItemsCounted, NoSleepWhileExpanding
<1> QED BY <1>2, <1>5, <1>6, <1>7, <1>8
\* A move of buckets loses no key, duplicates none, and ends with the old
\* table empty before it is freed.
LEMMA MaintMoveStep ==
  ASSUME IInv, MaintMove
  PROVE  IInv' /\ Findable' = Findable
<1> DEFINE half == hashsize(hashpower - 1)
<1>0. /\ hashpower \in 0 .. MaxPower /\ hashpower - 1 \in 0 .. MaxPower
      /\ half \in Nat \ {0} /\ expand_bucket \in 0 .. half - 1
      /\ expanding
      /\ primary_hashtable \in [0 .. hashsize(hashpower) - 1 -> SUBSET Keys]
      /\ old_hashtable \in [0 .. half - 1 -> SUBSET Keys]
  BY DEF IInv, TypeOK, MaintMove, hashsize
<1>1. /\ MoveLimit \in expand_bucket + 1 .. half
      /\ expanding' <=> MoveLimit # half
  <2>1. MoveLimit \in expand_bucket + 1 .. half
    BY <1>0 DEF MoveLimit
  <2>2. expanding' <=> MoveLimit # half
    BY DEF MaintMove
  <2> QED BY <2>1, <2>2
<1>2. Moved \subseteq Keys
  BY <1>0, <1>1 DEF Moved
<1>3. primary_hashtable' \in [0 .. hashsize(hashpower) - 1 -> SUBSET Keys]
  BY <1>0, <1>2 DEF MaintMove
<1>4. old_hashtable' \in IF expanding' THEN [0 .. half - 1 -> SUBSET Keys]
                                       ELSE [{} -> SUBSET Keys]
  BY <1>0 DEF MaintMove, NoTable
<1>5. TypeOK'
  <2>1. /\ hashpower' = hashpower /\ hash_items' = hash_items
        /\ do_run' = do_run /\ main' = main
        /\ expand_bucket' = MoveLimit
        /\ maint' \in {"test", "waiting"} /\ expanding' \in BOOLEAN
        /\ hashsize(hashpower)' = hashsize(hashpower)
        /\ hashsize(hashpower - 1)' = half
    BY DEF MaintMove, hashsize
  <2> HIDE DEF half
  <2>2. expanding' => MoveLimit < half
    BY <1>0, <1>1
  <2>3. MoveLimit \in Nat
    BY <1>0, <1>1
  <2> QED BY <1>0, <1>1, <1>3, <1>4, <2>1, <2>2, <2>3 DEF TypeOK, IInv
<1>6. ASSUME NEW k \in Keys
      PROVE  /\ k \in Moved <=> /\ k \in old_hashtable[Bucket(k, hashpower - 1)]
                                /\ InOld(k) /\ Bucket(k, hashpower - 1) < MoveLimit
             /\ InOld(k)' <=> InOld(k) /\ Bucket(k, hashpower - 1) >= MoveLimit
             /\ Bucket(k, hashpower - 1) \in 0 .. half - 1
             /\ Bucket(k, hashpower) \in 0 .. hashsize(hashpower) - 1
             /\ Bucket(k, hashpower - 1)' = Bucket(k, hashpower - 1)
             /\ Bucket(k, hashpower)' = Bucket(k, hashpower)
  <2>1. /\ Bucket(k, hashpower - 1) \in 0 .. half - 1
        /\ Bucket(k, hashpower) \in 0 .. hashsize(hashpower) - 1
    BY <1>0, BucketInTable
  <2>2. /\ Bucket(k, hashpower - 1)' = Bucket(k, hashpower - 1)
        /\ Bucket(k, hashpower)' = Bucket(k, hashpower)
    BY DEF MaintMove, Bucket, hashsize
  <2>3. InOld(k)' <=> InOld(k) /\ Bucket(k, hashpower - 1) >= MoveLimit
    <3>1. InOld(k) <=> Bucket(k, hashpower - 1) >= expand_bucket
      BY <1>0 DEF InOld
    <3>2. InOld(k)' <=> MoveLimit # half /\ Bucket(k, hashpower - 1) >= MoveLimit
      BY <1>1, <2>2 DEF InOld, MaintMove
    <3> HIDE DEF half
    <3> QED BY <1>0, <1>1, <2>1, <3>1, <3>2
  <2>4. \A b \in 0 .. half - 1 : k \in old_hashtable[b] =>
           InOld(k) /\ Bucket(k, hashpower - 1) = b
    BY <1>0 DEF IInv, KeysWhereSought
  <2>5. k \in Moved <=> \E b \in expand_bucket .. MoveLimit - 1 :
                            k \in old_hashtable[b]
    BY DEF Moved
  <2>6. k \in Moved <=> /\ k \in old_hashtable[Bucket(k, hashpower - 1)]
                        /\ InOld(k) /\ Bucket(k, hashpower - 1) < MoveLimit
    BY <1>0, <1>1, <2>1, <2>4, <2>5 DEF InOld
  <2> QED BY <2>1, <2>2, <2>3, <2>6
<1>7. \A b \in 0 .. hashsize(hashpower) - 1 : \A k \in Keys :
        k \in primary_hashtable'[b] <=>
          k \in primary_hashtable[b] \/ (k \in Moved /\ Bucket(k, hashpower) = b)
  BY <1>0, <1>2 DEF MaintMove
<1>8. ASSUME expanding'
      PROVE  \A b \in 0 .. half - 1 : old_hashtable'[b] =
               IF b \in expand_bucket .. MoveLimit - 1 THEN {} ELSE old_hashtable[b]
  BY <1>0, <1>8 DEF MaintMove
<1>9. KeysWhereSought'
  <2>1. ASSUME NEW b \in DOMAIN primary_hashtable', NEW k \in primary_hashtable'[b]
        PROVE  ~InOld(k)' /\ Bucket(k, hashpower)' = b
    <3>1. k \in Keys /\ b \in 0 .. hashsize(hashpower) - 1
      BY <1>3
    <3>2. CASE k \in primary_hashtable[b]
      BY <1>0, <1>6, <3>1, <3>2 DEF IInv, KeysWhereSought
    <3>3. CASE k \in Moved /\ Bucket(k, hashpower) = b
      BY <1>1, <1>6, <3>1, <3>3
    <3> QED BY <1>7, <3>1, <3>2, <3>3
  <2>2. ASSUME NEW b \in DOMAIN old_hashtable', NEW k \in old_hashtable'[b]
        PROVE  InOld(k)' /\ Bucket(k, hashpower - 1)' = b
    <3>1. expanding' /\ b \in 0 .. half - 1
      BY <1>4, <2>2
    <3>2. b \notin expand_bucket .. MoveLimit - 1 /\ k \in old_hashtable[b]
      BY <1>8, <2>2, <3>1
    <3>3. k \in Keys /\ InOld(k) /\ Bucket(k, hashpower - 1) = b
      BY <1>0, <3>1, <3>2 DEF IInv, KeysWhereSought
    <3>4. b >= expand_bucket
      BY <3>3 DEF InOld
    <3> QED BY <1>0, <1>1, <1>6, <3>1, <3>2, <3>3, <3>4
  <2> QED BY <2>1, <2>2 DEF KeysWhereSought
<1>10. Findable' = Findable
  <2>1. ASSUME NEW k \in Keys PROVE assoc_find(k)' <=> assoc_find(k)
    <3>1. CASE InOld(k) /\ InOld(k)'
      <4>1. expanding' /\ Bucket(k, hashpower - 1) >= MoveLimit
        BY <1>6, <3>1 DEF InOld
      <4>2. /\ assoc_find(k) <=> k \in old_hashtable[Bucket(k, hashpower - 1)]
            /\ assoc_find(k)' <=> k \in old_hashtable'[Bucket(k, hashpower - 1)]
        BY <1>6, <3>1 DEF assoc_find
      <4>3. Bucket(k, hashpower - 1) \notin expand_bucket .. MoveLimit - 1
        BY <1>0, <1>1, <1>6, <4>1
      <4> HIDE DEF half
      <4> QED BY <1>6, <1>8, <4>1, <4>2, <4>3
    <3>2. CASE InOld(k) /\ ~InOld(k)'
      <4>1. \A b \in 0 .. hashsize(hashpower) - 1 : k \notin primary_hashtable[b]
        BY <1>0, <3>2 DEF IInv, KeysWhereSought
      <4>2. /\ assoc_find(k) <=> k \in old_hashtable[Bucket(k, hashpower - 1)]
            /\ assoc_find(k)' <=> k \in primary_hashtable'[Bucket(k, hashpower)]
        BY <1>6, <3>2 DEF assoc_find
      <4>3. assoc_find(k)' <=> k \in Moved
        BY <1>6, <1>7, <4>1, <4>2
      <4>4. Bucket(k, hashpower - 1) < MoveLimit
        BY <1>0, <1>1, <1>6, <3>2
      <4> QED BY <1>6, <3>2, <4>2, <4>3, <4>4
    <3>3. CASE ~InOld(k)
      BY <1>6, <1>7, <3>3 DEF assoc_find
    <3> QED BY <3>1, <3>2, <3>3
  <2> QED BY <2>1 DEF Findable
<1>11. ItemsCounted' /\ NoSleepWhileExpanding'
  BY <1>10 DEF IInv, ItemsCounted, NoSleepWhileExpanding, MaintMove
<1> QED BY <1>5, <1>9, <1>10, <1>11 DEF IInv

\* The other steps leave the tables alone.
LEMMA OtherStep ==
  ASSUME IInv, UNCHANGED table,
         \/ MaintTest \/ MaintWait \/ MaintWoken \/ MaintSpurious \/ Stop
         \/ UNCHANGED vars
  PROVE  IInv' /\ Findable' = Findable
<1>1. TypeOK'
  BY DEF IInv, TypeOK, table, vars, MaintTest, MaintWait, MaintWoken,
         MaintSpurious, Stop, StopRequest, StopJoined, Signal, hashsize
<1>2. Findable' = Findable /\ KeysWhereSought'
  BY DEF IInv, table, Findable, assoc_find, InOld, Bucket, hashsize,
         KeysWhereSought
<1>3. ItemsCounted'
  BY <1>2 DEF IInv, ItemsCounted, table
<1>4. NoSleepWhileExpanding'
  BY DEF IInv, NoSleepWhileExpanding, table, vars, MaintTest, MaintWait,
         MaintWoken, MaintSpurious, Stop, StopRequest, StopJoined, Signal
<1> QED BY <1>1, <1>2, <1>3, <1>4 DEF IInv

\* Every step keeps the invariant, and is an insertion, a deletion or nothing at
\* all of the abstract set.
LEMMA NextStep ==
  ASSUME IInv, [Next]_vars
  PROVE  IInv' /\ [Set!Next]_Findable
<1>1. ASSUME NEW k \in Keys, InsertInPlace(k)
      PROVE  IInv' /\ [Set!Next]_Findable
  BY <1>1, InsertInPlaceStep DEF Set!Next, Set!Insert
<1>2. ASSUME NEW k \in Keys, InsertAndExpand(k)
      PROVE  IInv' /\ [Set!Next]_Findable
  BY <1>2, InsertAndExpandStep DEF Set!Next, Set!Insert
<1>3. ASSUME NEW k \in Keys, Delete(k)
      PROVE  IInv' /\ [Set!Next]_Findable
  BY <1>3, DeleteStep DEF Set!Next, Set!Delete
<1>4. CASE MaintMove
  BY <1>4, MaintMoveStep
<1>5. CASE MaintTest \/ MaintWait \/ MaintWoken \/ MaintSpurious \/ Stop
           \/ UNCHANGED vars
  BY <1>5, OtherStep
  DEF MaintTest, MaintWait, MaintWoken, MaintSpurious, Stop, StopRequest,
      StopJoined, vars
<1> QED BY <1>1, <1>2, <1>3, <1>4, <1>5 DEF Next, Client, Maintenance

-----------------------------------------------------------------------------
\* The invariant of assoc.c: the tables are well formed, every key is in the
\* chain in which assoc_find looks for it, hash_items is right and the
\* maintenance thread does not sleep while there are buckets to move.
THEOREM AssocInvariant == Spec => []IInv
<1>1. IInv /\ [Next]_vars => IInv'
  BY NextStep
<1> QED BY InitIInv, <1>1, PTL DEF Spec

\* No key is lost, duplicated or left behind by a growth of the table
\* (assoc_insert, assoc_expand, assoc_maintenance_thread).
THEOREM NoKeyLost == Spec => []KeysWhereSought
<1>1. IInv => KeysWhereSought
  BY DEF IInv
<1> QED BY AssocInvariant, <1>1, PTL

\* assoc_expand's signal to the maintenance thread is not lost.
THEOREM NoLostWakeup == Spec => []NoSleepWhileExpanding
<1>1. IInv => NoSleepWhileExpanding
  BY DEF IInv
<1> QED BY AssocInvariant, <1>1, PTL

\* hash_items counts the keys that can be found.
THEOREM CountIsRight == Spec => []ItemsCounted
<1>1. IInv => ItemsCounted
  BY DEF IInv
<1> QED BY AssocInvariant, <1>1, PTL

\* For its callers the hash table is a set of keys.
THEOREM TableImplementsSet == Spec => ImplementsKeySet
<1>1. Init => Set!Init
  <2> SUFFICES ASSUME Init PROVE Findable = {}
    BY DEF Set!Init
  <2>1. TypeOK
    BY InitIInv DEF IInv
  <2> QED BY <2>1, ChainExists
          DEF Init, Findable, assoc_find, InOld, EmptyTable, TypeOK
<1>2. IInv /\ [Next]_vars => [Set!Next]_Findable
  BY NextStep
<1> QED BY <1>1, <1>2, AssocInvariant, PTL DEF Spec, ImplementsKeySet, Set!Spec
=============================================================================
