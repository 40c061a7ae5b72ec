---------------------------- MODULE CacheProofs ----------------------------
(***************************************************************************)
(* Lemmas about the operators of Cache: what each call of items.c and each *)
(* locked operation of memcached.c makes of a sound cache, for any number  *)
(* of items and keys.                                                      *)
(*                                                                         *)
(* Each operator has a lemma about its fields, <Op>Fields, which expands   *)
(* its definition, and one about what it keeps, <Op>Step: a Good cache     *)
(* becomes a Good one, and values and CAS ids evolve (Step).  Operations   *)
(* that allocate or retrieve return more than a cache; <Op>Outcome says    *)
(* what.  The module is in the order of Cache: queues first, then linking, *)
(* unlinking, reference counts, allocation, lookup, flush, store, delta.   *)
(* The last part is about what clients are shown: <Op>Quiet says that an   *)
(* operation stores nothing and changes no item that stays, <Op>Stores     *)
(* that it stores one, and <Op>View what a retrieval returns then.         *)
(***************************************************************************)
EXTENDS Cache, TLAPS, FiniteSetTheorems, WellFoundedInduction

\* A set of natural numbers has a smallest element.
LEMMA SmallestNumber ==
  ASSUME NEW S \in SUBSET Nat, S # {}
  PROVE  \E n \in S : \A m \in S : n <= m
<1>1. PICK n \in S : \A m \in S : ~(<<m, n>> \in OpToRel(<, Nat))
  BY NatLessThanWellFounded, WFMin
<1>2. \A m \in S : ~(m < n)
  BY <1>1 DEF OpToRel
<1> QED BY <1>2

Queue == Seq(Items)

\* The positions of a queue.
LEMMA Positions ==
  ASSUME NEW q \in Queue
  PROVE  Len(q) \in Nat /\ DOMAIN q = 1 .. Len(q) /\ \A j \in DOMAIN q : q[j] \in Items
  BY DEF Queue

\* r is q without some of its elements.
Sub(r, q) ==
  \A j, m \in DOMAIN r : j < m =>
    \E a, b \in DOMAIN q : a < b /\ r[j] = q[a] /\ r[m] = q[b]

\* The elements of a sequence.
Has(q, x) == \E j \in DOMAIN q : q[j] = x

\* No element is there twice.
Distinct(q) == \A j, m \in DOMAIN q : q[j] = q[m] => j = m

LEMMA SubDistinct ==
  ASSUME NEW q \in Queue, NEW r \in Queue, Sub(r, q), Distinct(q)
  PROVE  Distinct(r)
<1>1. DOMAIN r \subseteq Int /\ DOMAIN q \subseteq Int
  BY Positions
<1>2. \A j, m \in DOMAIN r : j < m => r[j] # r[m]
  <2> SUFFICES ASSUME NEW j \in DOMAIN r, NEW m \in DOMAIN r, j < m PROVE r[j] # r[m]
    OBVIOUS
  <2>1. PICK a, b \in DOMAIN q : a < b /\ r[j] = q[a] /\ r[m] = q[b]
    BY DEF Sub
  <2> QED BY ONLY <1>1, <2>1, Distinct(q) DEF Distinct
<1> QED BY ONLY <1>1, <1>2 DEF Distinct

\* The queue with one more item at its head.
Push(i, q) == <<i>> \o q

LEMMA Pushed ==
  ASSUME NEW i \in Items, NEW q \in Queue
  PROVE  LET r == Push(i, q) IN
         /\ r \in Queue /\ r[1] = i /\ Len(r) = Len(q) + 1
         /\ DOMAIN r = 1 .. Len(q) + 1
         /\ \A j \in DOMAIN r : j # 1 => j - 1 \in DOMAIN q /\ r[j] = q[j - 1]
         /\ \A j \in DOMAIN q : j + 1 \in DOMAIN r /\ r[j + 1] = q[j]
         /\ \A x : Has(r, x) <=> x = i \/ Has(q, x)
<1> DEFINE r == Push(i, q)
<1>1. r \in Queue /\ Len(r) = Len(q) + 1 /\ Len(q) \in Nat /\ DOMAIN q = 1 .. Len(q)
  BY DEF Push, Queue
<1>2. DOMAIN r = 1 .. Len(q) + 1
  BY <1>1
<1>3. \A j \in 1 .. Len(q) + 1 : r[j] = IF j = 1 THEN i ELSE q[j - 1]
  BY <1>1 DEF Push
<1> HIDE DEF r
<1>4. /\ r[1] = i
      /\ \A j \in DOMAIN r : j # 1 => j - 1 \in DOMAIN q /\ r[j] = q[j - 1]
      /\ \A j \in DOMAIN q : j + 1 \in DOMAIN r /\ r[j + 1] = q[j]
  BY ONLY <1>1, <1>2, <1>3
<1>5. \A x : Has(r, x) <=> x = i \/ Has(q, x)
  <2> SUFFICES ASSUME NEW x PROVE Has(r, x) <=> x = i \/ Has(q, x)
    OBVIOUS
  <2>1. ASSUME Has(r, x) PROVE x = i \/ Has(q, x)
    BY ONLY <1>4, <2>1 DEF Has
  <2>2. ASSUME x = i PROVE Has(r, x)
    <3>1. 1 \in DOMAIN r
      BY ONLY <1>1, <1>2
    <3> QED BY ONLY <1>4, <2>2, <3>1 DEF Has
  <2>3. ASSUME Has(q, x) PROVE Has(r, x)
    BY ONLY <1>4, <2>3 DEF Has
  <2> QED BY <2>1, <2>2, <2>3
<1> QED BY <1>1, <1>2, <1>4, <1>5 DEF r

\* item_unlink_q keeps a queue of items, whatever is taken off it.
LEMMA UnqueuedTyped ==
  ASSUME NEW q \in Queue, NEW i
  PROVE  Unqueued(q, i) \in Queue
<1> DEFINE p == CHOOSE j \in DOMAIN q : q[j] = i
           n == Len(q) - 1
           r == [j \in 1 .. n |-> IF j < p THEN q[j] ELSE q[j + 1]]
<1>1. Unqueued(q, i) = r
  BY DEF Unqueued
<1>2. Len(q) \in Nat /\ DOMAIN q = 1 .. Len(q) /\ \A j \in 1 .. Len(q) : q[j] \in Items
  BY Positions
<1> HIDE DEF p
<1>3. CASE Len(q) = 0
  <2>1. 1 .. n = 1 .. 0
    BY ONLY <1>2, <1>3
  <2>2. r \in [1 .. 0 -> Items]
    BY ONLY <2>1
  <2> HIDE DEF r
  <2> QED BY <1>1, <2>2 DEF Queue
<1>4. CASE Len(q) > 0
  <2>1. \A j \in 1 .. n : q[j] \in Items /\ q[j + 1] \in Items
    BY ONLY <1>2, <1>4
  <2>2. r \in [1 .. n -> Items]
    BY ONLY <2>1
  <2>3. n \in Nat
    BY ONLY <1>2, <1>4
  <2> HIDE DEF r, n
  <2> QED BY <1>1, <2>2, <2>3 DEF Queue
<1> QED BY <1>2, <1>3, <1>4

\* It takes the item off the queue, and leaves the others in their order.
LEMMA UnqueuedOne ==
  ASSUME NEW q \in Queue, NEW i, Has(q, i), Distinct(q)
  PROVE  LET r == Unqueued(q, i) IN
         /\ r \in Queue /\ Sub(r, q)
         /\ \A x : Has(r, x) <=> x # i /\ Has(q, x)
<1> DEFINE p == CHOOSE j \in DOMAIN q : q[j] = i
           n == Len(q) - 1
           r == Unqueued(q, i)
<1>1. p \in DOMAIN q /\ q[p] = i
  BY DEF Has
<1>2. r = [j \in 1 .. n |-> IF j < p THEN q[j] ELSE q[j + 1]]
  BY DEF Unqueued
<1>3. Len(q) \in Nat /\ DOMAIN q = 1 .. Len(q)
  OBVIOUS
<1>t. r \in Queue
  BY UnqueuedTyped
<1> HIDE DEF p, r
<1>4. DOMAIN r = 1 .. n /\ \A j \in 1 .. n : r[j] = IF j < p THEN q[j] ELSE q[j + 1]
  BY ONLY <1>2
<1>5. p \in Int /\ n \in Int /\ DOMAIN q = 1 .. n + 1
  BY ONLY <1>1, <1>3
<1>6. Sub(r, q)
  <2> SUFFICES ASSUME NEW j \in DOMAIN r, NEW m \in DOMAIN r, j < m
               PROVE  \E a, b \in DOMAIN q : a < b /\ r[j] = q[a] /\ r[m] = q[b]
    BY DEF Sub
  <2> DEFINE a == IF j < p THEN j ELSE j + 1
             b == IF m < p THEN m ELSE m + 1
  <2>1. a \in DOMAIN q /\ b \in DOMAIN q /\ a < b
    BY ONLY <1>4, <1>5, j \in DOMAIN r, m \in DOMAIN r, j < m
  <2>2. r[j] = q[a] /\ r[m] = q[b]
    BY ONLY <1>4
  <2> HIDE DEF a, b
  <2> QED BY ONLY <2>1, <2>2
<1>7. ASSUME NEW x, Has(r, x) PROVE x # i /\ Has(q, x)
  <2>1. PICK j \in DOMAIN r : r[j] = x
    BY <1>7 DEF Has
  <2> DEFINE a == IF j < p THEN j ELSE j + 1
  <2>2. a \in DOMAIN q /\ q[a] = x /\ a # p
    BY ONLY <1>4, <1>5, <2>1
  <2> HIDE DEF a
  <2> QED BY ONLY <1>1, <2>2, Distinct(q) DEF Distinct, Has
<1>8. ASSUME NEW x, x # i, Has(q, x) PROVE Has(r, x)
  <2>1. PICK a \in DOMAIN q : q[a] = x
    BY <1>8 DEF Has
  <2>2. a # p
    BY ONLY <1>1, <1>8, <2>1
  <2> DEFINE j == IF a < p THEN a ELSE a - 1
  <2>3. j \in DOMAIN r /\ r[j] = x
    BY ONLY <1>1, <1>4, <1>5, <2>1, <2>2
  <2> HIDE DEF j
  <2> QED BY ONLY <2>3 DEF Has
<1> QED BY <1>t, <1>6, <1>7, <1>8 DEF r

\* The queue without the n items at its head.
LEMMA Dropped ==
  ASSUME NEW q \in Queue, NEW n \in 0 .. Len(q)
  PROVE  LET r == [j \in 1 .. Len(q) - n |-> q[j + n]] IN
         /\ r \in Queue /\ Sub(r, q)
         /\ \A x : Has(r, x) => Has(q, x)
         /\ \A j \in DOMAIN q : j > n => Has(r, q[j])
         /\ Distinct(q) => \A j \in 1 .. n : ~Has(r, q[j])
<1> DEFINE l == Len(q) - n
           r == [j \in 1 .. l |-> q[j + n]]
<1>1. Len(q) \in Nat /\ DOMAIN q = 1 .. Len(q) /\ l \in Nat /\ n \in Nat
  OBVIOUS
<1>2. DOMAIN r = 1 .. l /\ \A j \in 1 .. l : r[j] = q[j + n]
  OBVIOUS
<1>3. \A j \in 1 .. l : j + n \in DOMAIN q
  BY ONLY <1>1
<1>4. \A j \in DOMAIN q : q[j] \in Items
  BY Positions
<1>5. r \in [1 .. l -> Items]
  BY ONLY <1>3, <1>4
<1> HIDE DEF r
<1>6. r \in Queue
  <2> HIDE DEF l
  <2> QED BY ONLY <1>1, <1>5 DEF Queue
<1>7. Sub(r, q)
  <2> SUFFICES ASSUME NEW j \in DOMAIN r, NEW m \in DOMAIN r, j < m
               PROVE  \E a, b \in DOMAIN q : a < b /\ r[j] = q[a] /\ r[m] = q[b]
    BY DEF Sub
  <2>1. j + n < m + n
    BY ONLY <1>1, <1>2, j \in DOMAIN r, m \in DOMAIN r, j < m
  <2> QED BY ONLY <1>2, <1>3, <2>1, j \in DOMAIN r, m \in DOMAIN r
<1>8. \A x : Has(r, x) => Has(q, x)
  BY ONLY <1>2, <1>3 DEF Has
<1>9. ASSUME NEW j \in DOMAIN q, j > n PROVE Has(r, q[j])
  <2>1. j - n \in DOMAIN r /\ r[j - n] = q[j]
    BY ONLY <1>1, <1>2, <1>9
  <2> QED BY ONLY <2>1 DEF Has
<1>10. ASSUME Distinct(q), NEW j \in 1 .. n PROVE ~Has(r, q[j])
  <2> SUFFICES ASSUME NEW m \in DOMAIN r, r[m] = q[j] PROVE FALSE
    BY DEF Has
  <2>1. j \in DOMAIN q /\ m + n \in DOMAIN q /\ q[m + n] = q[j] /\ m + n # j
    BY <1>1, <1>2, <1>3
  <2> QED BY ONLY <1>10, <2>1 DEF Distinct
<1> QED BY <1>6, <1>7, <1>8, <1>9, <1>10 DEF r

LEMMA PushDistinct ==
  ASSUME NEW i \in Items, NEW q \in Queue, ~Has(q, i), Distinct(q)
  PROVE  Distinct(Push(i, q))
<1> DEFINE r == Push(i, q)
<1>1. /\ r[1] = i /\ DOMAIN r = 1 .. Len(q) + 1
      /\ \A j \in DOMAIN r : j # 1 => j - 1 \in DOMAIN q /\ r[j] = q[j - 1]
  BY Pushed
<1>2. DOMAIN q = 1 .. Len(q) /\ Len(q) \in Nat
  BY Positions
<1> HIDE DEF r
<1>3. Distinct(r)
  BY ONLY <1>1, <1>2, ~Has(q, i), Distinct(q) DEF Distinct, Has
<1> QED BY <1>3 DEF r

\* The items of q, by the times T: the most recently used first.
SortedBy(q, T) == \A j, m \in DOMAIN q : j < m => T[q[j]] >= T[q[m]]

LEMMA SubSorted ==
  ASSUME NEW q \in Queue, NEW r \in Queue, Sub(r, q), NEW T, SortedBy(q, T)
  PROVE  SortedBy(r, T)
<1> SUFFICES ASSUME NEW j \in DOMAIN r, NEW m \in DOMAIN r, j < m PROVE T[r[j]] >= T[r[m]]
  BY DEF SortedBy
<1>1. PICK a, b \in DOMAIN q : a < b /\ r[j] = q[a] /\ r[m] = q[b]
  BY DEF Sub
<1>2. T[q[a]] >= T[q[b]]
  BY <1>1 DEF SortedBy
<1> QED BY ONLY <1>1, <1>2

\* The same times for the items of a queue, except for one that is not in it.
LEMMA TouchSorted ==
  ASSUME NEW q \in Queue, NEW T, SortedBy(q, T), NEW U, NEW i, ~Has(q, i),
         \A x \in Items : x # i => U[x] = T[x]
  PROVE  SortedBy(q, U)
<1>1. \A j \in DOMAIN q : U[q[j]] = T[q[j]]
  BY Positions DEF Has
<1> QED BY ONLY <1>1, SortedBy(q, T) DEF SortedBy

\* An item with the latest time goes to the head.
LEMMA PushSorted ==
  ASSUME NEW i \in Items, NEW q \in Queue, NEW T, SortedBy(q, T), NEW now \in Nat,
         T[i] = now, \A x \in Items : T[x] \in Nat, \A x \in Items : Has(q, x) => T[x] <= now
  PROVE  SortedBy(Push(i, q), T)
<1> DEFINE r == Push(i, q)
<1>1. /\ r[1] = i /\ DOMAIN r = 1 .. Len(q) + 1
      /\ \A j \in DOMAIN r : j # 1 => j - 1 \in DOMAIN q /\ r[j] = q[j - 1]
  BY Pushed
<1>2. DOMAIN q = 1 .. Len(q) /\ Len(q) \in Nat /\ \A j \in DOMAIN q : q[j] \in Items
  BY Positions
<1>3. \A j \in DOMAIN q : T[q[j]] <= now /\ T[q[j]] \in Nat
  BY <1>2 DEF Has
<1> HIDE DEF r
<1>4. ASSUME NEW j \in DOMAIN r, NEW m \in DOMAIN r, j < m PROVE T[r[j]] >= T[r[m]]
  <2>1. m # 1 /\ m - 1 \in DOMAIN q /\ r[m] = q[m - 1]
    BY ONLY <1>1, <1>2, <1>4
  <2>2. CASE j = 1
    BY ONLY <1>1, <1>3, <2>1, <2>2, T[i] = now, now \in Nat
  <2>3. CASE j # 1
    <3>1. j - 1 \in DOMAIN q /\ r[j] = q[j - 1] /\ j - 1 < m - 1
      BY ONLY <1>1, <1>2, <1>4, <2>3
    <3>2. T[q[j - 1]] >= T[q[m - 1]]
      BY ONLY <2>1, <3>1, SortedBy(q, T) DEF SortedBy
    <3> QED BY ONLY <2>1, <3>1, <3>2
  <2> QED BY <2>2, <2>3
<1> QED BY <1>4 DEF SortedBy, r

-----------------------------------------------------------------------------
(* What holds of a cache between two calls, as named parts. *)

\* The hash table finds the linked items under their keys, and nothing else.
Tabled(h) ==
  /\ \A i \in Items : h.linked[i] => h.key[i] \in Keys /\ h.assoc[h.key[i]] = i
  /\ \A k \in Keys : h.assoc[k] # NULL => h.linked[h.assoc[k]] /\ h.key[h.assoc[k]] = k

\* The LRU holds the linked items, once.
InQueue(h) ==
  /\ \A i \in Items : h.linked[i] <=> Has(h.lru, i)
  /\ Distinct(h.lru)

\* A free chunk is not in use; one that is not has a key.
FreeUnused(h) ==
  /\ \A i \in h.free : ~h.linked[i] /\ h.refcount[i] = 0
  /\ \A i \in Items \ h.free : h.key[i] \in Keys

\* The most recently used first, and none from the future.
Sorted(h, now) ==
  /\ SortedBy(h.lru, h.time)
  /\ \A i \in Items : h.linked[i] => h.time[i] <= now

Numbered(h) ==
  /\ \A i \in Items : h.linked[i] => h.cas[i] <= h.cas_id
  /\ \A i, j \in Items : h.linked[i] /\ h.linked[j] /\ h.cas[i] = h.cas[j] => i = j

Sound(h, now) ==
  h \in CacheType /\ Tabled(h) /\ InQueue(h) /\ FreeUnused(h) /\ Sorted(h, now) /\ Numbered(h)

Needed(h, i) == i \in h.free \/ h.linked[i] \/ h.refcount[i] > 0

Good(h, now) == Sound(h, now) /\ \A i \in Items : Needed(h, i)

\* The values of a reference count.
Counts == 0 .. RefWrap - 1

LEMMA SmallCounts ==
  /\ Counts \subseteq Nat /\ 0 \in Counts /\ 1 \in Counts
  /\ \A n \in Counts \ {0} : n - 1 \in Counts
  /\ \A n \in Counts : (n + 1) % RefWrap \in Counts /\ (n + 1 = RefWrap \/ (n + 1) % RefWrap = n + 1)
  BY CacheAssumption DEF Counts

LEMMA FieldTypes ==
  ASSUME NEW h \in CacheType
  PROVE  /\ h.linked \in [Items -> BOOLEAN]
         /\ h.refcount \in [Items -> Nat] /\ h.refcount \in [Items -> Counts]
         /\ h.time \in [Items -> Nat] /\ h.cas \in [Items -> Nat] /\ h.cas_id \in Nat
         /\ h.assoc \in [Keys -> Items \cup {NULL}] /\ h.key \in [Items -> Keys \cup {NULL}]
         /\ h.val \in [Items -> Int] /\ h.nbytes \in [Items -> Nat] /\ h.exptime \in [Items -> Nat]
         /\ h.lru \in Queue /\ h.free \in SUBSET Items
         /\ h.uncounted \in BOOLEAN /\ h.aborted \in BOOLEAN
<1>1. /\ h.linked \in [Items -> BOOLEAN] /\ h.refcount \in [Items -> Counts]
      /\ h.time \in [Items -> Nat] /\ h.cas \in [Items -> Nat] /\ h.cas_id \in Nat
      /\ h.assoc \in [Keys -> Items \cup {NULL}] /\ h.key \in [Items -> Keys \cup {NULL}]
      /\ h.val \in [Items -> Int] /\ h.nbytes \in [Items -> Nat] /\ h.exptime \in [Items -> Nat]
      /\ h.lru \in Queue /\ h.free \in SUBSET Items
      /\ h.uncounted \in BOOLEAN /\ h.aborted \in BOOLEAN
  BY DEF CacheType, Queue, Counts
<1>2. h.refcount \in [Items -> Nat]
  BY ONLY <1>1, SmallCounts
<1> QED BY <1>1, <1>2

\* A key is left with the item it had, unchanged, with none, or with a new CAS id.
Evolves(h, c) ==
  /\ c.cas_id >= h.cas_id
  /\ \A k \in Keys :
       \/ c.assoc[k] = NULL
       \/ c.cas[c.assoc[k]] > h.cas_id
       \/ /\ c.assoc[k] = h.assoc[k]
          /\ c.cas[c.assoc[k]] = h.cas[h.assoc[k]] /\ c.val[c.assoc[k]] = h.val[h.assoc[k]]

LEMMA EvolvesOn ==
  ASSUME NEW g \in CacheType, NEW h \in CacheType, NEW c \in CacheType, Evolves(g, h), Evolves(h, c)
  PROVE  Evolves(g, c)
<1>1. /\ g.cas_id \in Nat /\ h.cas_id \in Nat /\ c.cas_id \in Nat
      /\ \A i \in Items : g.cas[i] \in Nat /\ h.cas[i] \in Nat /\ c.cas[i] \in Nat
      /\ \A k \in Keys : c.assoc[k] \in Items \cup {NULL} /\ h.assoc[k] \in Items \cup {NULL}
  BY FieldTypes
<1>2. c.cas_id >= g.cas_id
  BY <1>1 DEF Evolves
<1>3. ASSUME NEW k \in Keys
      PROVE  \/ c.assoc[k] = NULL
             \/ c.cas[c.assoc[k]] > g.cas_id
             \/ /\ c.assoc[k] = g.assoc[k]
                /\ c.cas[c.assoc[k]] = g.cas[g.assoc[k]] /\ c.val[c.assoc[k]] = g.val[g.assoc[k]]
  BY <1>1, <1>3 DEF Evolves
<1> QED BY <1>2, <1>3 DEF Evolves

\* What every call keeps: a good cache, from a good one.
Step(h, c, now) ==
  /\ Good(c, now) /\ Evolves(h, c)
  /\ h.aborted => c.aborted
  /\ h.uncounted => c.uncounted

LEMMA StepOn ==
  ASSUME NEW g, NEW h, NEW c, NEW now, Good(g, now), Step(g, h, now), Step(h, c, now)
  PROVE  Step(g, c, now)
<1>1. g \in CacheType /\ h \in CacheType /\ c \in CacheType
  BY DEF Step, Good, Sound
<1> QED BY <1>1, EvolvesOn DEF Step

LEMMA StepNone ==
  ASSUME NEW h, NEW now, Good(h, now)
  PROVE  Step(h, h, now)
<1>1. h.cas_id >= h.cas_id
  BY FieldTypes DEF Good, Sound
<1> QED BY <1>1 DEF Step, Evolves

(* A failed assertion *)

Abort(h) == [h EXCEPT !.aborted = TRUE]

LEMMA AbortFields ==
  ASSUME NEW h \in CacheType
  PROVE  LET c == Abort(h) IN
         /\ c \in CacheType /\ c.aborted
         /\ c.linked = h.linked /\ c.time = h.time /\ c.assoc = h.assoc /\ c.cas_id = h.cas_id
         /\ c.cas = h.cas /\ c.lru = h.lru /\ c.free = h.free /\ c.refcount = h.refcount
         /\ c.key = h.key /\ c.val = h.val /\ c.uncounted = h.uncounted
  BY DEF CacheType, Abort

LEMMA AbortStep ==
  ASSUME NEW h, NEW now, Good(h, now)
  PROVE  LET c == Abort(h) IN
         /\ Step(h, c, now) /\ c.aborted /\ c.uncounted = h.uncounted
         /\ c.linked = h.linked /\ c.free = h.free /\ c.refcount = h.refcount
         /\ c.key = h.key /\ c.assoc = h.assoc
<1> DEFINE c == Abort(h)
<1>1. h \in CacheType
  BY DEF Good, Sound
<1>2. /\ c \in CacheType /\ c.aborted
      /\ c.linked = h.linked /\ c.time = h.time /\ c.assoc = h.assoc /\ c.cas_id = h.cas_id
      /\ c.cas = h.cas /\ c.lru = h.lru /\ c.free = h.free /\ c.refcount = h.refcount
      /\ c.key = h.key /\ c.val = h.val /\ c.uncounted = h.uncounted
  BY ONLY <1>1, AbortFields
<1> HIDE DEF c
<1>3. Good(c, now)
  BY ONLY <1>2, Good(h, now)
     DEF Good, Sound, Tabled, InQueue, FreeUnused, Sorted, Numbered, Needed
<1>4. Evolves(h, c)
  <2>1. Evolves(h, h)
    BY StepNone DEF Step
  <2> QED BY ONLY <1>2, <2>1 DEF Evolves
<1> QED BY <1>2, <1>3, <1>4 DEF Step, c

(* do_item_link *)

\* What do_item_link makes of the cache when its assertions hold.
Linked(h, i, now) ==
  [h EXCEPT !.linked[i] = TRUE, !.time[i] = now, !.assoc[h.key[i]] = i,
            !.cas_id = @ + 1, !.cas[i] = h.cas_id + 1, !.lru = <<i>> \o @]

LEMMA LinkFields ==
  ASSUME NEW h \in CacheType, NEW i \in Items, NEW now \in Nat
  PROVE  LET c == Linked(h, i, now) IN
         /\ c \in CacheType
         /\ c.linked[i] /\ \A x \in Items : x # i => (c.linked[x] <=> h.linked[x])
         /\ c.time[i] = now /\ \A x \in Items : x # i => c.time[x] = h.time[x]
         /\ c.cas[i] = h.cas_id + 1 /\ \A x \in Items : x # i => c.cas[x] = h.cas[x]
         /\ h.key[i] \in Keys => c.assoc[h.key[i]] = i
         /\ \A k \in Keys : k # h.key[i] => c.assoc[k] = h.assoc[k]
         /\ c.cas_id = h.cas_id + 1 /\ c.lru = Push(i, h.lru)
         /\ c.free = h.free /\ c.refcount = h.refcount /\ c.key = h.key /\ c.val = h.val
         /\ c.uncounted = h.uncounted /\ c.aborted = h.aborted
<1> DEFINE L == [h.linked EXCEPT ![i] = TRUE]
           T == [h.time EXCEPT ![i] = now]
           A == [h.assoc EXCEPT ![h.key[i]] = i]
           n == h.cas_id + 1
           C == [h.cas EXCEPT ![i] = h.cas_id + 1]
           Q == Push(i, h.lru)
           c == Linked(h, i, now)
<1>1. L \in [Items -> BOOLEAN] /\ T \in [Items -> Nat] /\ C \in [Items -> Nat] /\ n \in Nat
  BY DEF CacheType
<1>2. A \in [Keys -> Items \cup {NULL}]
  BY DEF CacheType
<1>3. Q \in Queue
  <2>1. h.lru \in Queue
    BY DEF CacheType, Queue
  <2> QED BY <2>1, Pushed
<1>4. c = [h EXCEPT !.linked = L, !.time = T, !.assoc = A, !.cas_id = n, !.cas = C, !.lru = Q]
  BY DEF Linked, Push
<1> HIDE DEF L, T, A, n, C, Q, c
<1>5. /\ c \in CacheType
      /\ c.linked = L /\ c.time = T /\ c.assoc = A /\ c.cas_id = n /\ c.cas = C /\ c.lru = Q
  BY ONLY <1>1, <1>2, <1>3, <1>4, h \in CacheType DEF CacheType, Queue
<1>6. /\ c.free = h.free /\ c.refcount = h.refcount /\ c.key = h.key /\ c.val = h.val
      /\ c.uncounted = h.uncounted /\ c.aborted = h.aborted
  BY ONLY <1>4, h \in CacheType DEF CacheType
<1>7. /\ L[i] /\ \A x \in Items : x # i => (L[x] <=> h.linked[x])
      /\ T[i] = now /\ \A x \in Items : x # i => T[x] = h.time[x]
      /\ C[i] = h.cas_id + 1 /\ \A x \in Items : x # i => C[x] = h.cas[x]
      /\ h.key[i] \in Keys => A[h.key[i]] = i
      /\ \A k \in Keys : k # h.key[i] => A[k] = h.assoc[k]
  BY DEF CacheType, L, T, A, C
<1>8. n = h.cas_id + 1 /\ Q = Push(i, h.lru)
  BY DEF n, Q
<1> QED BY ONLY <1>5, <1>6, <1>7, <1>8 DEF c

LEMMA LinkedStep ==
  ASSUME NEW h, NEW i \in Items, NEW now \in Nat, Good(h, now),
         ~h.linked[i], i \notin h.free, h.assoc[h.key[i]] = NULL
  PROVE  Step(h, Linked(h, i, now), now)
<1> DEFINE c == Linked(h, i, now)
<1>0. h \in CacheType
  BY DEF Good, Sound
<1>1. /\ c \in CacheType
      /\ c.linked[i] /\ \A x \in Items : x # i => (c.linked[x] <=> h.linked[x])
      /\ c.time[i] = now /\ \A x \in Items : x # i => c.time[x] = h.time[x]
      /\ c.cas[i] = h.cas_id + 1 /\ \A x \in Items : x # i => c.cas[x] = h.cas[x]
      /\ h.key[i] \in Keys => c.assoc[h.key[i]] = i
      /\ \A k \in Keys : k # h.key[i] => c.assoc[k] = h.assoc[k]
      /\ c.cas_id = h.cas_id + 1 /\ c.lru = Push(i, h.lru)
      /\ c.free = h.free /\ c.refcount = h.refcount /\ c.key = h.key /\ c.val = h.val
      /\ c.uncounted = h.uncounted /\ c.aborted = h.aborted
  BY ONLY <1>0, LinkFields, i \in Items, now \in Nat
<1> HIDE DEF c
<1>2. /\ h.linked \in [Items -> BOOLEAN] /\ h.time \in [Items -> Nat] /\ h.cas \in [Items -> Nat]
      /\ h.assoc \in [Keys -> Items \cup {NULL}] /\ h.cas_id \in Nat /\ h.lru \in Queue
      /\ h.free \in SUBSET Items
  BY <1>0, FieldTypes
<1>t. c.time \in [Items -> Nat]
  BY <1>1, FieldTypes
<1>3. h.key[i] \in Keys
  BY DEF Good, Sound, FreeUnused
<1>5. NULL \notin Items
  BY CacheAssumption
<1>i. InQueue(h) /\ Sorted(h, now)
  BY DEF Good, Sound
<1>q. ~Has(h.lru, i) /\ Distinct(h.lru) /\ \A x : Has(c.lru, x) <=> x = i \/ Has(h.lru, x)
  <2>1. \A x : Has(Push(i, h.lru), x) <=> x = i \/ Has(h.lru, x)
    BY ONLY <1>2, i \in Items, Pushed
  <2> QED BY ONLY <1>1, <1>i, <2>1, i \in Items, ~h.linked[i] DEF InQueue
<1>6. Tabled(c)
  <2>1. Tabled(h)
    BY DEF Good, Sound
  <2>2. c.key = h.key
    BY <1>1
  <2>3. ASSUME NEW x \in Items, c.linked[x] PROVE c.key[x] \in Keys /\ c.assoc[c.key[x]] = x
    <3>1. CASE x = i
      BY ONLY <1>3, <1>1, <2>2, <3>1
    <3>2. CASE x # i
      <4>1. h.key[x] \in Keys /\ h.assoc[h.key[x]] = x
        BY ONLY <1>1, <2>1, <2>3, <3>2 DEF Tabled
      <4>2. h.key[x] # h.key[i]
        BY ONLY <1>5, <4>1, h.assoc[h.key[i]] = NULL, x \in Items
      <4> QED BY ONLY <1>1, <2>2, <4>1, <4>2
    <3> QED BY <3>1, <3>2
  <2>4. ASSUME NEW k \in Keys, c.assoc[k] # NULL PROVE c.linked[c.assoc[k]] /\ c.key[c.assoc[k]] = k
    <3>1. CASE k = h.key[i]
      BY ONLY <1>1, <2>2, <3>1, <2>4
    <3>2. CASE k # h.key[i]
      <4>1. c.assoc[k] = h.assoc[k] /\ h.linked[h.assoc[k]] /\ h.key[h.assoc[k]] = k
        BY ONLY <1>1, <2>1, <2>4, <3>2 DEF Tabled
      <4>2. h.assoc[k] \in Items /\ h.assoc[k] # i
        BY <1>2, <2>4, <4>1
      <4> QED BY ONLY <1>1, <2>2, <4>1, <4>2
    <3> QED BY <3>1, <3>2
  <2> QED BY <2>3, <2>4 DEF Tabled
<1>7. InQueue(c)
  <2>1. Distinct(c.lru)
    <3>1. Distinct(Push(i, h.lru))
      BY ONLY <1>2, <1>q, i \in Items, PushDistinct
    <3> QED BY <3>1, <1>1
  <2>2. \A x \in Items : c.linked[x] <=> Has(c.lru, x)
    BY ONLY <1>1, <1>i, <1>q DEF InQueue
  <2> QED BY <2>1, <2>2 DEF InQueue
<1>8. FreeUnused(c) /\ \A x \in Items : Needed(c, x)
  <2>1. FreeUnused(h) /\ \A x \in Items : Needed(h, x)
    BY DEF Good, Sound
  <2> QED BY ONLY <1>1, <1>2, <2>1, i \in Items, i \notin h.free DEF FreeUnused, Needed
<1>9. Sorted(c, now)
  <2>1. \A x \in Items : Has(h.lru, x) => c.time[x] <= now
    BY ONLY <1>1, <1>i, <1>q DEF InQueue, Sorted
  <2>2. SortedBy(h.lru, c.time)
    BY ONLY <1>1, <1>2, <1>i, <1>q, TouchSorted DEF Sorted
  <2>3. SortedBy(Push(i, h.lru), c.time)
    BY ONLY <1>1, <1>2, <1>t, <2>1, <2>2, PushSorted, i \in Items, now \in Nat
  <2>4. \A x \in Items : c.linked[x] => c.time[x] <= now
    BY ONLY <1>1, <1>i, now \in Nat DEF Sorted
  <2>5. SortedBy(c.lru, c.time)
    BY ONLY <1>1, <2>3
  <2> QED BY <2>4, <2>5 DEF Sorted
<1>10. Numbered(c)
  <2>1. /\ \A x \in Items : h.linked[x] => h.cas[x] <= h.cas_id
        /\ \A x, j \in Items : h.linked[x] /\ h.linked[j] /\ h.cas[x] = h.cas[j] => x = j
        /\ \A x \in Items : h.cas[x] \in Nat
    BY <1>2 DEF Good, Sound, Numbered
  <2> QED BY ONLY <1>1, <1>2, <2>1, i \in Items DEF Numbered
<1>11. Evolves(h, c)
  <2>2. \A k \in Keys : h.assoc[k] \in Items \cup {NULL} /\ h.assoc[k] # i
    BY <1>2, <1>5 DEF Good, Sound, Tabled
  <2> QED BY ONLY <1>1, <1>2, <2>2 DEF Evolves
<1>12. Good(c, now)
  BY <1>1, <1>6, <1>7, <1>8, <1>9, <1>10 DEF Good, Sound
<1> QED BY <1>1, <1>11, <1>12 DEF Step, c

LEMMA LinkStep ==
  ASSUME NEW h, NEW i \in Items, NEW now \in Nat, Good(h, now)
  PROVE  LET c == do_item_link(h, i, now) IN
         /\ Step(h, c, now)
         /\ c.refcount = h.refcount /\ c.free = h.free /\ c.uncounted = h.uncounted
         /\ c.key = h.key
         /\ \A x \in Items : x # i => (c.linked[x] <=> h.linked[x])
         /\ ~c.aborted => c.linked[i]
         /\ ~h.linked[i] /\ i \notin h.free /\ h.assoc[h.key[i]] = NULL /\ ~h.aborted => ~c.aborted
<1> DEFINE ok == ~h.linked[i] /\ i \notin h.free /\ h.assoc[h.key[i]] = NULL
           c == do_item_link(h, i, now)
<1>0. h \in CacheType
  BY DEF Good, Sound
<1>1. c = IF ok THEN Linked(h, i, now) ELSE Abort(h)
  BY DEF do_item_link, Asserted, Linked, Abort
<1>2. ASSUME ok
      PROVE  LET l == Linked(h, i, now) IN
             /\ Step(h, l, now)
             /\ l.refcount = h.refcount /\ l.free = h.free /\ l.uncounted = h.uncounted
             /\ l.key = h.key /\ l.aborted = h.aborted
             /\ \A x \in Items : x # i => (l.linked[x] <=> h.linked[x])
             /\ l.linked[i]
  <2>1. Step(h, Linked(h, i, now), now)
    BY <1>2, LinkedStep
  <2> QED BY ONLY <1>0, <2>1, LinkFields, i \in Items, now \in Nat
<1>3. LET l == Abort(h) IN
      /\ Step(h, l, now) /\ l.aborted /\ l.uncounted = h.uncounted
      /\ l.linked = h.linked /\ l.free = h.free /\ l.refcount = h.refcount /\ l.key = h.key
  BY ONLY Good(h, now), AbortStep
<1> HIDE DEF c
<1>4. CASE ok
  <2>1. c = Linked(h, i, now)
    BY <1>1, <1>4
  <2> QED BY ONLY <1>2, <1>4, <2>1 DEF c
<1>5. CASE ~ok
  <2>1. c = Abort(h)
    BY <1>1, <1>5
  <2> QED BY ONLY <1>3, <1>5, <2>1 DEF c
<1> QED BY <1>4, <1>5

(* slabs_free *)

\* An item taken out of the hash table and the LRU.
Unlinked(h, i) ==
  [h EXCEPT !.linked[i] = FALSE, !.assoc[h.key[i]] = NULL, !.lru = Unqueued(@, i)]

LEMMA UnlinkFields ==
  ASSUME NEW h \in CacheType, NEW i \in Items
  PROVE  LET c == Unlinked(h, i) IN
         /\ c \in CacheType
         /\ ~c.linked[i] /\ \A x \in Items : x # i => (c.linked[x] <=> h.linked[x])
         /\ h.key[i] \in Keys => c.assoc[h.key[i]] = NULL
         /\ \A k \in Keys : k # h.key[i] => c.assoc[k] = h.assoc[k]
         /\ c.lru = Unqueued(h.lru, i)
         /\ c.free = h.free /\ c.refcount = h.refcount /\ c.key = h.key /\ c.val = h.val
         /\ c.time = h.time /\ c.cas = h.cas /\ c.cas_id = h.cas_id
         /\ c.uncounted = h.uncounted /\ c.aborted = h.aborted
<1> DEFINE L == [h.linked EXCEPT ![i] = FALSE]
           A == [h.assoc EXCEPT ![h.key[i]] = NULL]
           Q == Unqueued(h.lru, i)
           c == Unlinked(h, i)
<1>1. L \in [Items -> BOOLEAN] /\ A \in [Keys -> Items \cup {NULL}]
  BY DEF CacheType
<1>2. Q \in Queue
  BY FieldTypes, UnqueuedTyped
<1>3. c = [h EXCEPT !.linked = L, !.assoc = A, !.lru = Q]
  BY DEF Unlinked
<1>4. /\ ~L[i] /\ \A x \in Items : x # i => (L[x] <=> h.linked[x])
      /\ h.key[i] \in Keys => A[h.key[i]] = NULL
      /\ \A k \in Keys : k # h.key[i] => A[k] = h.assoc[k]
  BY DEF CacheType
<1> HIDE DEF L, A, Q, c
<1>5. c \in CacheType /\ c.linked = L /\ c.assoc = A /\ c.lru = Q
  BY ONLY <1>1, <1>2, <1>3, h \in CacheType DEF CacheType, Queue
<1>6. /\ c.free = h.free /\ c.refcount = h.refcount /\ c.key = h.key /\ c.val = h.val
      /\ c.time = h.time /\ c.cas = h.cas /\ c.cas_id = h.cas_id
      /\ c.uncounted = h.uncounted /\ c.aborted = h.aborted
  BY ONLY <1>3, h \in CacheType DEF CacheType
<1> QED BY ONLY <1>4, <1>5, <1>6 DEF c, Q

LEMMA FreeFields ==
  ASSUME NEW h \in CacheType, NEW S \in SUBSET Items
  PROVE  LET c == FreeItems(h, S) IN
         /\ c \in CacheType
         /\ \A i \in Items : i \in c.free <=> i \in h.free \/ i \in S
         /\ \A i \in Items : i \notin S => /\ c.key[i] = h.key[i] /\ c.val[i] = h.val[i]
                                           /\ c.time[i] = h.time[i] /\ c.cas[i] = h.cas[i]
         /\ c.linked = h.linked /\ c.refcount = h.refcount /\ c.assoc = h.assoc
         /\ c.lru = h.lru /\ c.cas_id = h.cas_id
         /\ c.uncounted = h.uncounted /\ c.aborted = h.aborted
<1> DEFINE Clear(f, v) == [i \in Items |-> IF i \in S THEN v ELSE f[i]]
           F == h.free \cup S
           K == Clear(h.key, NULL)
           V == Clear(h.val, 0)
           N == Clear(h.nbytes, 0)
           T == Clear(h.time, 0)
           E == Clear(h.exptime, 0)
           C == Clear(h.cas, 0)
           c == FreeItems(h, S)
<1>1. K \in [Items -> Keys \cup {NULL}] /\ V \in [Items -> Int] /\ F \in SUBSET Items
  BY FieldTypes
<1>2. N \in [Items -> Nat] /\ T \in [Items -> Nat] /\ E \in [Items -> Nat] /\ C \in [Items -> Nat]
  BY FieldTypes
<1>3. c = [h EXCEPT !.free = F, !.key = K, !.val = V, !.nbytes = N, !.time = T,
                    !.exptime = E, !.cas = C]
  BY DEF FreeItems
<1>4. \A i \in Items : i \notin S => /\ K[i] = h.key[i] /\ V[i] = h.val[i]
                                     /\ T[i] = h.time[i] /\ C[i] = h.cas[i]
  OBVIOUS
<1>5. \A i \in Items : i \in F <=> i \in h.free \/ i \in S
  OBVIOUS
<1> HIDE DEF F, K, V, N, T, E, C, c
<1>6. c \in CacheType /\ c.free = F /\ c.key = K /\ c.val = V /\ c.time = T /\ c.cas = C
  BY ONLY <1>1, <1>2, <1>3, h \in CacheType DEF CacheType
<1>7. /\ c.linked = h.linked /\ c.refcount = h.refcount /\ c.assoc = h.assoc
      /\ c.lru = h.lru /\ c.cas_id = h.cas_id
      /\ c.uncounted = h.uncounted /\ c.aborted = h.aborted
  BY ONLY <1>3, h \in CacheType DEF CacheType
<1> QED BY ONLY <1>4, <1>5, <1>6, <1>7 DEF c

\* Chunks that nothing needs may be freed.
LEMMA FreeSound ==
  ASSUME NEW h, NEW now \in Nat, Sound(h, now), NEW S \in SUBSET Items,
         \A i \in S : ~h.linked[i] /\ h.refcount[i] = 0
  PROVE  LET c == FreeItems(h, S) IN
         /\ Sound(c, now) /\ Evolves(h, c)
         /\ \A i \in Items : Needed(c, i) <=> Needed(h, i) \/ i \in S
<1> DEFINE c == FreeItems(h, S)
<1>0. h \in CacheType
  BY DEF Sound
<1>1. /\ c \in CacheType
      /\ \A i \in Items : i \in c.free <=> i \in h.free \/ i \in S
      /\ \A i \in Items : i \notin S => /\ c.key[i] = h.key[i] /\ c.val[i] = h.val[i]
                                        /\ c.time[i] = h.time[i] /\ c.cas[i] = h.cas[i]
      /\ c.linked = h.linked /\ c.refcount = h.refcount /\ c.assoc = h.assoc
      /\ c.lru = h.lru /\ c.cas_id = h.cas_id
      /\ c.uncounted = h.uncounted /\ c.aborted = h.aborted
  BY ONLY <1>0, FreeFields, S \in SUBSET Items
<1> HIDE DEF c
<1>2. /\ h.assoc \in [Keys -> Items \cup {NULL}] /\ h.cas_id \in Nat /\ h.lru \in Queue
      /\ h.free \in SUBSET Items /\ c.free \in SUBSET Items
  BY <1>0, <1>1, FieldTypes
<1>3. \A i \in Items : h.linked[i] => i \notin S
  OBVIOUS
<1>4. \A i \in Items : h.linked[i] => /\ c.key[i] = h.key[i] /\ c.val[i] = h.val[i]
                                      /\ c.time[i] = h.time[i] /\ c.cas[i] = h.cas[i]
  BY ONLY <1>1, <1>3
<1>5. Tabled(h) /\ InQueue(h) /\ FreeUnused(h) /\ Sorted(h, now) /\ Numbered(h)
  BY DEF Sound
<1>6. \A k \in Keys : h.assoc[k] # NULL => h.assoc[k] \in Items /\ h.linked[h.assoc[k]]
  BY ONLY <1>2, <1>5 DEF Tabled
<1>7. Tabled(c)
  BY ONLY <1>1, <1>4, <1>5, <1>6 DEF Tabled
<1>8. InQueue(c)
  BY ONLY <1>1, <1>5 DEF InQueue
<1>9. FreeUnused(c)
  <2>1. ASSUME NEW i \in c.free PROVE ~c.linked[i] /\ c.refcount[i] = 0
    BY <1>1, <1>2, <1>5, <2>1 DEF FreeUnused
  <2>2. ASSUME NEW i \in Items \ c.free PROVE c.key[i] \in Keys
    BY ONLY <1>1, <1>5, <2>2 DEF FreeUnused
  <2> QED BY <2>1, <2>2 DEF FreeUnused
<1>10. Sorted(c, now)
  <2>1. \A j \in DOMAIN h.lru : h.lru[j] \in Items /\ h.linked[h.lru[j]]
    BY <1>2, <1>5, Positions DEF InQueue, Has
  <2>2. \A j \in DOMAIN h.lru : c.time[h.lru[j]] = h.time[h.lru[j]]
    BY ONLY <1>4, <2>1
  <2>3. SortedBy(h.lru, c.time)
    BY ONLY <1>5, <2>2 DEF Sorted, SortedBy
  <2> QED BY ONLY <1>1, <1>4, <1>5, <2>3 DEF Sorted
<1>11. Numbered(c)
  BY ONLY <1>1, <1>4, <1>5 DEF Numbered
<1>12. Evolves(h, c)
  BY ONLY <1>1, <1>2, <1>4, <1>6 DEF Evolves
<1>13. \A i \in Items : Needed(c, i) <=> Needed(h, i) \/ i \in S
  BY ONLY <1>1 DEF Needed
<1> QED BY <1>1, <1>7, <1>8, <1>9, <1>10, <1>11, <1>12, <1>13 DEF Sound, c

(* Reference counts *)

SetRef(h, i, n, u) == [h EXCEPT !.refcount[i] = n, !.uncounted = u]

LEMMA RefFields ==
  ASSUME NEW h \in CacheType, NEW i \in Items, NEW n \in Counts, NEW u \in BOOLEAN
  PROVE  LET c == SetRef(h, i, n, u) IN
         /\ c \in CacheType
         /\ c.refcount[i] = n /\ \A x \in Items : x # i => c.refcount[x] = h.refcount[x]
         /\ c.linked = h.linked /\ c.time = h.time /\ c.assoc = h.assoc /\ c.cas_id = h.cas_id
         /\ c.cas = h.cas /\ c.lru = h.lru /\ c.free = h.free
         /\ c.key = h.key /\ c.val = h.val /\ c.uncounted = u /\ c.aborted = h.aborted
<1> DEFINE R == [h.refcount EXCEPT ![i] = n]
           c == SetRef(h, i, n, u)
<1>1. R \in [Items -> Counts] /\ R[i] = n /\ \A x \in Items : x # i => R[x] = h.refcount[x]
  BY FieldTypes
<1>2. c = [h EXCEPT !.refcount = R, !.uncounted = u]
  BY DEF SetRef
<1> HIDE DEF R, c
<1>3. c \in CacheType /\ c.refcount = R /\ c.uncounted = u
  BY ONLY <1>1, <1>2, h \in CacheType, u \in BOOLEAN DEF CacheType, Counts
<1>4. /\ c.linked = h.linked /\ c.time = h.time /\ c.assoc = h.assoc /\ c.cas_id = h.cas_id
      /\ c.cas = h.cas /\ c.lru = h.lru /\ c.free = h.free
      /\ c.key = h.key /\ c.val = h.val /\ c.aborted = h.aborted
  BY ONLY <1>2, h \in CacheType DEF CacheType
<1> QED BY ONLY <1>1, <1>3, <1>4 DEF c

\* The count alone, as the code writes it.
LEMMA RefOnly ==
  ASSUME NEW h \in CacheType, NEW i \in Items, NEW n
  PROVE  [h EXCEPT !.refcount[i] = n] = SetRef(h, i, n, h.uncounted)
<1> DEFINE R == [h.refcount EXCEPT ![i] = n]
<1> HIDE DEF R
<1>1. [h EXCEPT !.refcount = R] = [h EXCEPT !.refcount = R, !.uncounted = h.uncounted]
  BY DEF CacheType
<1> QED BY <1>1 DEF SetRef, R

\* Only a chunk that is not free gets a count.
LEMMA RefSound ==
  ASSUME NEW h, NEW now, Sound(h, now), NEW i \in Items, NEW n \in Counts, NEW u \in BOOLEAN,
         i \notin h.free \/ n = 0
  PROVE  LET c == SetRef(h, i, n, u) IN
         /\ Sound(c, now) /\ Evolves(h, c)
         /\ \A x \in Items : x # i => (Needed(c, x) <=> Needed(h, x))
         /\ Needed(c, i) <=> i \in h.free \/ h.linked[i] \/ n > 0
<1> DEFINE c == SetRef(h, i, n, u)
<1>0. h \in CacheType
  BY DEF Sound
<1>1. /\ c \in CacheType
      /\ c.refcount[i] = n /\ \A x \in Items : x # i => c.refcount[x] = h.refcount[x]
      /\ c.linked = h.linked /\ c.time = h.time /\ c.assoc = h.assoc /\ c.cas_id = h.cas_id
      /\ c.cas = h.cas /\ c.lru = h.lru /\ c.free = h.free
      /\ c.key = h.key /\ c.val = h.val /\ c.uncounted = u /\ c.aborted = h.aborted
  BY ONLY <1>0, RefFields, i \in Items, n \in Counts, u \in BOOLEAN
<1> HIDE DEF c
<1>2. h.cas_id \in Nat /\ h.free \in SUBSET Items
  BY <1>0, FieldTypes
<1>3. Tabled(h) /\ InQueue(h) /\ FreeUnused(h) /\ Sorted(h, now) /\ Numbered(h)
  BY DEF Sound
<1>4. Tabled(c) /\ InQueue(c) /\ Sorted(c, now) /\ Numbered(c)
  BY ONLY <1>1, <1>3 DEF Tabled, InQueue, Sorted, Numbered
<1>5. FreeUnused(c)
  BY ONLY <1>1, <1>2, <1>3, i \notin h.free \/ n = 0 DEF FreeUnused
<1>6. Evolves(h, c)
  BY ONLY <1>1, <1>2 DEF Evolves
<1>7. /\ \A x \in Items : x # i => (Needed(c, x) <=> Needed(h, x))
      /\ Needed(c, i) <=> i \in h.free \/ h.linked[i] \/ n > 0
  BY ONLY <1>1 DEF Needed
<1> QED BY <1>1, <1>4, <1>5, <1>6, <1>7 DEF Sound, c

(* do_item_unlink *)

LEMMA UnlinkedSound ==
  ASSUME NEW h, NEW now, Sound(h, now), NEW i \in Items, h.linked[i]
  PROVE  LET c == Unlinked(h, i) IN
         /\ Sound(c, now) /\ Evolves(h, c)
         /\ \A x \in Items : x # i => (Needed(c, x) <=> Needed(h, x))
<1> DEFINE c == Unlinked(h, i)
<1>0. h \in CacheType
  BY DEF Sound
<1>1. /\ c \in CacheType
      /\ ~c.linked[i] /\ \A x \in Items : x # i => (c.linked[x] <=> h.linked[x])
      /\ h.key[i] \in Keys => c.assoc[h.key[i]] = NULL
      /\ \A k \in Keys : k # h.key[i] => c.assoc[k] = h.assoc[k]
      /\ c.lru = Unqueued(h.lru, i)
      /\ c.free = h.free /\ c.refcount = h.refcount /\ c.key = h.key /\ c.val = h.val
      /\ c.time = h.time /\ c.cas = h.cas /\ c.cas_id = h.cas_id
      /\ c.uncounted = h.uncounted /\ c.aborted = h.aborted
  BY ONLY <1>0, UnlinkFields, i \in Items
<1> HIDE DEF c
<1>2. /\ h.assoc \in [Keys -> Items \cup {NULL}] /\ h.cas_id \in Nat /\ h.lru \in Queue
      /\ h.free \in SUBSET Items
  BY <1>0, FieldTypes
<1>3. Tabled(h) /\ InQueue(h) /\ FreeUnused(h) /\ Sorted(h, now) /\ Numbered(h)
  BY DEF Sound
<1>4. h.key[i] \in Keys /\ h.assoc[h.key[i]] = i
  BY <1>3 DEF Tabled
<1>5. \A x \in Items : c.linked[x] => x # i /\ h.linked[x]
  BY ONLY <1>1
<1>6. NULL \notin Items
  BY CacheAssumption
<1>7. Tabled(c)
  <2>1. ASSUME NEW x \in Items, c.linked[x] PROVE c.key[x] \in Keys /\ c.assoc[c.key[x]] = x
    <3>1. h.key[x] \in Keys /\ h.assoc[h.key[x]] = x /\ x # i
      BY ONLY <1>3, <1>5, <2>1 DEF Tabled
    <3>2. h.key[x] # h.key[i]
      BY ONLY <1>4, <3>1
    <3> QED BY ONLY <1>1, <3>1, <3>2
  <2>2. ASSUME NEW k \in Keys, c.assoc[k] # NULL PROVE c.linked[c.assoc[k]] /\ c.key[c.assoc[k]] = k
    <3>1. k # h.key[i] /\ c.assoc[k] = h.assoc[k]
      BY ONLY <1>1, <1>4, <2>2
    <3>2. h.linked[h.assoc[k]] /\ h.key[h.assoc[k]] = k /\ h.assoc[k] \in Items
      BY ONLY <1>2, <1>3, <2>2, <3>1 DEF Tabled
    <3> QED BY ONLY <1>1, <3>1, <3>2
  <2> QED BY <2>1, <2>2 DEF Tabled
<1>8. Has(h.lru, i) /\ Distinct(h.lru)
  BY ONLY <1>3, i \in Items, h.linked[i] DEF InQueue
<1>9. c.lru \in Queue /\ Sub(c.lru, h.lru) /\ \A x : Has(c.lru, x) <=> x # i /\ Has(h.lru, x)
  BY ONLY <1>1, <1>2, <1>8, UnqueuedOne
<1>10. InQueue(c)
  <2>1. Distinct(c.lru)
    BY ONLY <1>2, <1>8, <1>9, SubDistinct
  <2> QED BY ONLY <1>1, <1>3, <1>9, <2>1 DEF InQueue
<1>11. FreeUnused(c)
  BY ONLY <1>1, <1>2, <1>3 DEF FreeUnused
<1>12. Sorted(c, now)
  <2>1. SortedBy(h.lru, h.time)
    BY <1>3 DEF Sorted
  <2>2. SortedBy(c.lru, h.time)
    BY ONLY <1>2, <1>9, <2>1, SubSorted
  <2> QED BY ONLY <1>1, <1>3, <1>5, <2>2 DEF Sorted
<1>13. Numbered(c)
  BY ONLY <1>1, <1>3, <1>5 DEF Numbered
<1>14. Evolves(h, c)
  BY ONLY <1>1, <1>2, <1>4 DEF Evolves
<1>15. \A x \in Items : x # i => (Needed(c, x) <=> Needed(h, x))
  BY ONLY <1>1 DEF Needed
<1> QED BY <1>1, <1>7, <1>10, <1>11, <1>12, <1>13, <1>14, <1>15 DEF Sound, c

\* In use by a connection only: with nothing in it that others can find.
Aside(h, x) == x \notin h.free /\ ~h.linked[x]

\* Items that are aside stay so, but for i.
Spares(h, c, i) ==
  \A x \in Items : x # i /\ Aside(h, x) => Aside(c, x) /\ c.key[x] = h.key[x]

LEMMA SparesOn ==
  ASSUME NEW g, NEW h, NEW c, NEW i, Spares(g, h, i), Spares(h, c, i)
  PROVE  Spares(g, c, i)
  BY DEF Spares

LEMMA UnlinkStep ==
  ASSUME NEW h, NEW now \in Nat, Good(h, now), NEW i \in Items
  PROVE  LET c == do_item_unlink(h, i) IN
         /\ Step(h, c, now)
         /\ c.refcount = h.refcount /\ c.uncounted = h.uncounted /\ c.aborted = h.aborted
         /\ ~c.linked[i] /\ \A x \in Items : x # i => (c.linked[x] <=> h.linked[x])
         /\ \A x \in Items : x \in c.free <=> x \in h.free \/ (x = i /\ h.linked[i] /\ h.refcount[i] = 0)
         /\ \A x \in Items : x \notin c.free => c.key[x] = h.key[x]
         /\ h.linked[i] => c.assoc[h.key[i]] = NULL
         /\ \A k \in Keys : c.assoc[k] # NULL => c.assoc[k] = h.assoc[k]
<1> DEFINE c == do_item_unlink(h, i)
<1>0. h \in CacheType /\ Sound(h, now) /\ \A x \in Items : Needed(h, x)
  BY DEF Good, Sound
<1>1. CASE ~h.linked[i]
  <2>1. c = h
    BY <1>1 DEF do_item_unlink
  <2>2. Step(h, h, now)
    BY StepNone
  <2> HIDE DEF c
  <2>3. /\ Step(h, c, now)
        /\ c.refcount = h.refcount /\ c.uncounted = h.uncounted /\ c.aborted = h.aborted
        /\ ~c.linked[i] /\ \A x \in Items : x # i => (c.linked[x] <=> h.linked[x])
        /\ \A x \in Items : x \in c.free <=> x \in h.free \/ (x = i /\ h.linked[i] /\ h.refcount[i] = 0)
        /\ \A x \in Items : x \notin c.free => c.key[x] = h.key[x]
        /\ h.linked[i] => c.assoc[h.key[i]] = NULL
        /\ \A k \in Keys : c.assoc[k] # NULL => c.assoc[k] = h.assoc[k]
    BY ONLY <1>1, <2>1, <2>2
  <2> QED BY <2>3 DEF c
<1>2. CASE h.linked[i]
  <2> DEFINE g == Unlinked(h, i)
  <2>1. /\ g \in CacheType
        /\ ~g.linked[i] /\ \A x \in Items : x # i => (g.linked[x] <=> h.linked[x])
        /\ h.key[i] \in Keys => g.assoc[h.key[i]] = NULL
        /\ \A k \in Keys : k # h.key[i] => g.assoc[k] = h.assoc[k]
        /\ g.free = h.free /\ g.refcount = h.refcount /\ g.key = h.key
        /\ g.uncounted = h.uncounted /\ g.aborted = h.aborted
    BY ONLY <1>0, UnlinkFields, i \in Items
  <2>2. /\ Sound(g, now) /\ Evolves(h, g)
        /\ \A x \in Items : x # i => (Needed(g, x) <=> Needed(h, x))
    BY ONLY <1>0, <1>2, UnlinkedSound, i \in Items
  <2>3. c = IF h.refcount[i] = 0 THEN FreeItems(g, {i}) ELSE g
    BY <1>2 DEF do_item_unlink, item_free, Unlinked
  <2> HIDE DEF g
  <2>4. h.key[i] \in Keys
    BY <1>0, <1>2 DEF Sound, Tabled
  <2>5. CASE h.refcount[i] = 0
    <3> DEFINE S == {i}
    <3>1. c = FreeItems(g, S) /\ S \in SUBSET Items
      BY <2>3, <2>5
    <3>s. \A x : x \in S <=> x = i
      OBVIOUS
    <3> HIDE DEF S, c
    <3>2. \A x \in S : ~g.linked[x] /\ g.refcount[x] = 0
      BY ONLY <2>1, <2>5, <3>s
    <3>3. /\ Sound(c, now) /\ Evolves(g, c)
          /\ \A x \in Items : Needed(c, x) <=> Needed(g, x) \/ x \in S
      BY ONLY <2>2, <3>1, <3>2, now \in Nat, FreeSound
    <3>4. /\ c \in CacheType
          /\ \A x \in Items : x \in c.free <=> x \in g.free \/ x \in S
          /\ \A x \in Items : x \notin S => c.key[x] = g.key[x]
          /\ c.linked = g.linked /\ c.refcount = g.refcount /\ c.assoc = g.assoc
          /\ c.uncounted = g.uncounted /\ c.aborted = g.aborted
      BY ONLY <2>1, <3>1, FreeFields
    <3>5. Evolves(h, c)
      BY ONLY <1>0, <2>1, <2>2, <3>3, <3>4, EvolvesOn
    <3>6. Good(c, now)
      BY ONLY <1>0, <2>2, <3>3, <3>s DEF Good
    <3>7. Step(h, c, now)
      BY ONLY <2>1, <3>4, <3>5, <3>6 DEF Step
    <3>8. \A x \in Items : x \notin c.free => c.key[x] = h.key[x]
      BY ONLY <2>1, <3>4
    <3>9. /\ c.refcount = h.refcount /\ c.uncounted = h.uncounted /\ c.aborted = h.aborted
          /\ ~c.linked[i] /\ \A x \in Items : x # i => (c.linked[x] <=> h.linked[x])
          /\ h.linked[i] => c.assoc[h.key[i]] = NULL
          /\ \A k \in Keys : c.assoc[k] # NULL => c.assoc[k] = h.assoc[k]
      BY ONLY <2>1, <2>4, <3>4
    <3>10. \A x \in Items : x \in c.free <=> x \in h.free \/ (x = i /\ h.linked[i] /\ h.refcount[i] = 0)
      BY ONLY <1>2, <2>1, <2>5, <3>4, <3>s
    <3> QED BY ONLY <3>7, <3>8, <3>9, <3>10 DEF c
  <2>6. CASE h.refcount[i] # 0
    <3>1. c = g
      BY <2>3, <2>6
    <3>2. h.refcount[i] > 0
      BY <1>0, <2>6, FieldTypes
    <3> HIDE DEF c
    <3>3. Good(c, now)
      BY ONLY <1>0, <2>1, <2>2, <3>1, <3>2 DEF Good, Needed
    <3>4. Step(h, c, now)
      BY ONLY <2>1, <2>2, <3>1, <3>3 DEF Step
    <3>9. /\ c.refcount = h.refcount /\ c.uncounted = h.uncounted /\ c.aborted = h.aborted
          /\ ~c.linked[i] /\ \A x \in Items : x # i => (c.linked[x] <=> h.linked[x])
          /\ \A x \in Items : x \notin c.free => c.key[x] = h.key[x]
          /\ h.linked[i] => c.assoc[h.key[i]] = NULL
          /\ \A k \in Keys : c.assoc[k] # NULL => c.assoc[k] = h.assoc[k]
      BY ONLY <2>1, <2>4, <3>1
    <3>10. \A x \in Items : x \in c.free <=> x \in h.free \/ (x = i /\ h.linked[i] /\ h.refcount[i] = 0)
      BY ONLY <2>1, <2>6, <3>1
    <3> QED BY ONLY <3>4, <3>9, <3>10 DEF c
  <2> QED BY <2>5, <2>6
<1> QED BY <1>1, <1>2

(* do_item_remove *)

LEMMA RemoveStep ==
  ASSUME NEW h, NEW now \in Nat, Good(h, now), NEW i \in Items
  PROVE  LET c == do_item_remove(h, i) IN
         /\ Step(h, c, now)
         /\ c.uncounted = h.uncounted /\ c.linked = h.linked /\ c.assoc = h.assoc
         /\ c.aborted <=> h.aborted \/ i \in h.free
         /\ \A x \in Items : x # i => c.refcount[x] = h.refcount[x]
         /\ h.refcount[i] = 0 => c.refcount[i] = 0
         /\ i \notin h.free /\ h.refcount[i] # 0 => c.refcount[i] = h.refcount[i] - 1
         /\ \A x \in Items : x \in h.free => x \in c.free
         /\ \A x \in Items : x \in c.free => x \in h.free \/ (x = i /\ ~h.linked[i] /\ c.refcount[i] = 0)
         /\ \A x \in Items : x \notin c.free => c.key[x] = h.key[x]
<1> DEFINE c == do_item_remove(h, i)
           n == IF h.refcount[i] = 0 THEN 0 ELSE h.refcount[i] - 1
           g == SetRef(h, i, n, h.uncounted)
<1>0. h \in CacheType /\ Sound(h, now) /\ \A x \in Items : Needed(h, x)
  BY DEF Good, Sound
<1>n. n \in Counts /\ n \in Nat /\ h.refcount[i] \in Nat /\ h.uncounted \in BOOLEAN
  BY <1>0, FieldTypes, SmallCounts
<1>m. (h.refcount[i] = 0 => n = 0) /\ (h.refcount[i] # 0 => n = h.refcount[i] - 1)
  OBVIOUS
<1>1. c = IF i \notin h.free THEN IF n = 0 /\ ~h.linked[i] THEN FreeItems(g, {i}) ELSE g
          ELSE Abort(h)
  <2>1. [h EXCEPT !.refcount[i] = n] = g
    <3> HIDE DEF n
    <3> QED BY <1>0, RefOnly
  <2> HIDE DEF g
  <2>2. c = Asserted(h, i \notin h.free, IF n = 0 /\ ~h.linked[i] THEN FreeItems(g, {i}) ELSE g)
    BY <2>1 DEF do_item_remove, item_free
  <2> QED BY <2>2 DEF Asserted, Abort
<1>2. /\ g \in CacheType
      /\ g.refcount[i] = n /\ \A x \in Items : x # i => g.refcount[x] = h.refcount[x]
      /\ g.linked = h.linked /\ g.assoc = h.assoc /\ g.free = h.free
      /\ g.key = h.key /\ g.uncounted = h.uncounted /\ g.aborted = h.aborted
  <2> HIDE DEF n
  <2> QED BY ONLY <1>0, <1>n, RefFields, i \in Items
<1> HIDE DEF n
<1>f. FreeUnused(h) /\ h.free \in SUBSET Items
  BY <1>0, FieldTypes DEF Sound
<1>3. CASE i \in h.free
  <2>1. c = Abort(h)
    BY <1>1, <1>3
  <2>2. /\ Step(h, Abort(h), now) /\ Abort(h).aborted /\ Abort(h).uncounted = h.uncounted
        /\ Abort(h).linked = h.linked /\ Abort(h).free = h.free /\ Abort(h).refcount = h.refcount
        /\ Abort(h).key = h.key /\ Abort(h).assoc = h.assoc
    BY ONLY Good(h, now), AbortStep
  <2> HIDE DEF c
  <2> QED BY ONLY <1>3, <2>1, <2>2 DEF c
<1>4. CASE i \notin h.free
  <2>1. /\ Sound(g, now) /\ Evolves(h, g)
        /\ \A x \in Items : x # i => (Needed(g, x) <=> Needed(h, x))
        /\ Needed(g, i) <=> i \in h.free \/ h.linked[i] \/ n > 0
    BY ONLY <1>0, <1>4, <1>n, RefSound, i \in Items
  <2> HIDE DEF g
  <2>2. CASE n = 0 /\ ~h.linked[i]
    <3> DEFINE S == {i}
    <3>1. c = FreeItems(g, S) /\ S \in SUBSET Items
      BY <1>1, <1>4, <2>2
    <3>s. \A x : x \in S <=> x = i
      OBVIOUS
    <3> HIDE DEF S, c
    <3>2. \A x \in S : ~g.linked[x] /\ g.refcount[x] = 0
      BY ONLY <1>2, <2>2, <3>s
    <3>3. /\ Sound(c, now) /\ Evolves(g, c)
          /\ \A x \in Items : Needed(c, x) <=> Needed(g, x) \/ x \in S
      BY ONLY <2>1, <3>1, <3>2, now \in Nat, FreeSound
    <3>4. /\ c \in CacheType
          /\ \A x \in Items : x \in c.free <=> x \in g.free \/ x \in S
          /\ \A x \in Items : x \notin S => c.key[x] = g.key[x]
          /\ c.linked = g.linked /\ c.refcount = g.refcount /\ c.assoc = g.assoc
          /\ c.uncounted = g.uncounted /\ c.aborted = g.aborted
      BY ONLY <1>2, <3>1, FreeFields
    <3>5. Evolves(h, c)
      BY ONLY <1>0, <1>2, <2>1, <3>3, <3>4, EvolvesOn
    <3>6. Good(c, now)
      BY ONLY <1>0, <2>1, <3>3, <3>s DEF Good
    <3>7. Step(h, c, now)
      BY ONLY <1>2, <3>4, <3>5, <3>6 DEF Step
    <3>8. \A x \in Items : x \notin c.free => c.key[x] = h.key[x]
      BY ONLY <1>2, <3>4
    <3>9. /\ c.uncounted = h.uncounted /\ c.linked = h.linked /\ c.assoc = h.assoc
          /\ c.aborted = h.aborted
          /\ \A x \in Items : x # i => c.refcount[x] = h.refcount[x]
          /\ c.refcount[i] = n
      BY ONLY <1>2, <3>4
    <3>10. /\ \A x \in Items : x \in h.free => x \in c.free
           /\ \A x \in Items : x \in c.free => x \in h.free \/ (x = i /\ ~h.linked[i] /\ c.refcount[i] = 0)
      BY ONLY <1>2, <2>2, <3>4, <3>s
    <3> QED BY ONLY <1>4, <1>m, <3>7, <3>8, <3>9, <3>10 DEF c
  <2>3. CASE n # 0 \/ h.linked[i]
    <3>1. c = g
      BY <1>1, <1>4, <2>3
    <3> HIDE DEF c
    <3>2. Good(c, now)
      BY ONLY <1>0, <1>n, <2>1, <2>3, <3>1 DEF Good
    <3>3. Step(h, c, now)
      BY ONLY <1>2, <2>1, <3>1, <3>2 DEF Step
    <3>4. /\ c.uncounted = h.uncounted /\ c.linked = h.linked /\ c.assoc = h.assoc
          /\ c.aborted = h.aborted /\ c.free = h.free /\ c.key = h.key
          /\ \A x \in Items : x # i => c.refcount[x] = h.refcount[x]
          /\ c.refcount[i] = n
      BY ONLY <1>2, <3>1
    <3> QED BY ONLY <1>4, <1>m, <3>3, <3>4 DEF c
  <2> QED BY <2>2, <2>3
<1> QED BY <1>3, <1>4

(* do_item_update *)

\* An item moved to the head of the LRU.
Touched(h, i, now) == [h EXCEPT !.time[i] = now, !.lru = Push(i, Unqueued(@, i))]

LEMMA TouchFields ==
  ASSUME NEW h \in CacheType, NEW i \in Items, NEW now \in Nat
  PROVE  LET c == Touched(h, i, now) IN
         /\ c \in CacheType
         /\ c.time[i] = now /\ \A x \in Items : x # i => c.time[x] = h.time[x]
         /\ c.lru = Push(i, Unqueued(h.lru, i))
         /\ c.linked = h.linked /\ c.assoc = h.assoc /\ c.cas_id = h.cas_id /\ c.cas = h.cas
         /\ c.free = h.free /\ c.refcount = h.refcount /\ c.key = h.key /\ c.val = h.val
         /\ c.uncounted = h.uncounted /\ c.aborted = h.aborted
<1> DEFINE T == [h.time EXCEPT ![i] = now]
           Q == Push(i, Unqueued(h.lru, i))
           c == Touched(h, i, now)
<1>1. T \in [Items -> Nat] /\ T[i] = now /\ \A x \in Items : x # i => T[x] = h.time[x]
  BY DEF CacheType
<1>2. Q \in Queue
  <2>1. Unqueued(h.lru, i) \in Queue
    BY FieldTypes, UnqueuedTyped
  <2> QED BY <2>1, Pushed
<1>3. c = [h EXCEPT !.time = T, !.lru = Q]
  BY DEF Touched
<1> HIDE DEF T, Q, c
<1>4. c \in CacheType /\ c.time = T /\ c.lru = Q
  BY ONLY <1>1, <1>2, <1>3, h \in CacheType DEF CacheType, Queue
<1>5. /\ c.linked = h.linked /\ c.assoc = h.assoc /\ c.cas_id = h.cas_id /\ c.cas = h.cas
      /\ c.free = h.free /\ c.refcount = h.refcount /\ c.key = h.key /\ c.val = h.val
      /\ c.uncounted = h.uncounted /\ c.aborted = h.aborted
  BY ONLY <1>3, h \in CacheType DEF CacheType
<1> QED BY ONLY <1>1, <1>4, <1>5 DEF c, Q

LEMMA TouchedStep ==
  ASSUME NEW h, NEW now \in Nat, Good(h, now), NEW i \in Items, h.linked[i]
  PROVE  Step(h, Touched(h, i, now), now)
<1> DEFINE c == Touched(h, i, now)
           r == Unqueued(h.lru, i)
<1>0. h \in CacheType
  BY DEF Good, Sound
<1>1. /\ c \in CacheType
      /\ c.time[i] = now /\ \A x \in Items : x # i => c.time[x] = h.time[x]
      /\ c.lru = Push(i, r)
      /\ c.linked = h.linked /\ c.assoc = h.assoc /\ c.cas_id = h.cas_id /\ c.cas = h.cas
      /\ c.free = h.free /\ c.refcount = h.refcount /\ c.key = h.key /\ c.val = h.val
      /\ c.uncounted = h.uncounted /\ c.aborted = h.aborted
  BY ONLY <1>0, TouchFields, i \in Items, now \in Nat
<1> HIDE DEF c
<1>2. h.lru \in Queue /\ h.cas_id \in Nat /\ h.time \in [Items -> Nat] /\ c.time \in [Items -> Nat]
  BY <1>0, <1>1, FieldTypes
<1>3. /\ Tabled(h) /\ InQueue(h) /\ FreeUnused(h) /\ Sorted(h, now) /\ Numbered(h)
      /\ \A x \in Items : Needed(h, x)
  BY DEF Good, Sound
<1>4. Has(h.lru, i) /\ Distinct(h.lru)
  BY ONLY <1>3, i \in Items, h.linked[i] DEF InQueue
<1>5. r \in Queue /\ Sub(r, h.lru) /\ \A x : Has(r, x) <=> x # i /\ Has(h.lru, x)
  BY ONLY <1>2, <1>4, UnqueuedOne
<1>6. Distinct(r) /\ ~Has(r, i)
  BY ONLY <1>2, <1>4, <1>5, SubDistinct
<1>7. \A x : Has(Push(i, r), x) <=> x = i \/ Has(r, x)
  BY ONLY <1>5, i \in Items, Pushed
<1>8. Distinct(Push(i, r))
  BY ONLY <1>5, <1>6, i \in Items, PushDistinct
<1>9. InQueue(c)
  <2>1. \A x \in Items : c.linked[x] <=> Has(c.lru, x)
    BY ONLY <1>1, <1>3, <1>4, <1>5, <1>7 DEF InQueue
  <2>2. Distinct(c.lru)
    BY ONLY <1>1, <1>8
  <2> QED BY <2>1, <2>2 DEF InQueue
<1>10. Sorted(c, now)
  <2>1. SortedBy(h.lru, h.time)
    BY <1>3 DEF Sorted
  <2>2. SortedBy(r, h.time)
    BY ONLY <1>2, <1>5, <2>1, SubSorted
  <2>3. SortedBy(r, c.time)
    BY ONLY <1>1, <1>5, <1>6, <2>2, TouchSorted
  <2>4. \A x \in Items : c.linked[x] => c.time[x] <= now
    BY ONLY <1>1, <1>3, now \in Nat DEF Sorted
  <2>5. \A x \in Items : Has(r, x) => c.time[x] <= now
    BY ONLY <1>1, <1>3, <1>5, <2>4 DEF InQueue
  <2>6. SortedBy(Push(i, r), c.time)
    BY ONLY <1>1, <1>2, <1>5, <2>3, <2>5, i \in Items, now \in Nat, PushSorted
  <2>7. SortedBy(c.lru, c.time)
    BY ONLY <1>1, <2>6
  <2> QED BY <2>4, <2>7 DEF Sorted
<1>11. Tabled(c) /\ FreeUnused(c) /\ Numbered(c) /\ \A x \in Items : Needed(c, x)
  BY ONLY <1>1, <1>3 DEF Tabled, FreeUnused, Numbered, Needed
<1>12. Evolves(h, c)
  BY ONLY <1>1, <1>2 DEF Evolves
<1>13. Good(c, now)
  BY ONLY <1>1, <1>9, <1>10, <1>11 DEF Good, Sound
<1> QED BY ONLY <1>1, <1>12, <1>13 DEF Step, c

LEMMA UpdateStep ==
  ASSUME NEW h, NEW now \in Nat, Good(h, now), NEW i \in Items
  PROVE  LET c == do_item_update(h, i, now) IN
         /\ Step(h, c, now)
         /\ c.refcount = h.refcount /\ c.free = h.free /\ c.uncounted = h.uncounted
         /\ c.linked = h.linked /\ c.key = h.key /\ c.assoc = h.assoc
         /\ i \notin h.free => c.aborted = h.aborted
<1> DEFINE c == do_item_update(h, i, now)
<1>0. h \in CacheType
  BY DEF Good, Sound
<1>1. \/ c = h
      \/ c = Abort(h) /\ i \in h.free
      \/ c = Touched(h, i, now) /\ h.linked[i]
  BY DEF do_item_update, Asserted, Abort, Touched, Push
<1>2. Step(h, h, now)
  BY StepNone
<1>3. /\ Step(h, Abort(h), now) /\ Abort(h).aborted /\ Abort(h).uncounted = h.uncounted
      /\ Abort(h).linked = h.linked /\ Abort(h).free = h.free /\ Abort(h).refcount = h.refcount
      /\ Abort(h).key = h.key /\ Abort(h).assoc = h.assoc
  BY ONLY Good(h, now), AbortStep
<1> HIDE DEF c
<1>4. CASE c = h
  BY ONLY <1>2, <1>4 DEF c
<1>5. CASE c = Abort(h) /\ i \in h.free
  BY ONLY <1>3, <1>5 DEF c
<1>6. CASE c = Touched(h, i, now) /\ h.linked[i]
  <2>1. Step(h, Touched(h, i, now), now)
    BY <1>6, TouchedStep
  <2>2. /\ c.linked = h.linked /\ c.assoc = h.assoc
        /\ c.free = h.free /\ c.refcount = h.refcount /\ c.key = h.key
        /\ c.uncounted = h.uncounted /\ c.aborted = h.aborted
    BY ONLY <1>0, <1>6, TouchFields, i \in Items, now \in Nat
  <2> QED BY ONLY <1>6, <2>1, <2>2 DEF c
<1> QED BY <1>1, <1>4, <1>5, <1>6

(* do_item_replace *)

LEMMA ReplaceStep ==
  ASSUME NEW h, NEW now \in Nat, Good(h, now), NEW i \in Items, NEW n \in Items
  PROVE  LET c == do_item_replace(h, i, n, now) IN
         /\ Step(h, c, now) /\ Spares(h, c, n)
         /\ c.refcount = h.refcount /\ c.uncounted = h.uncounted
         /\ \A x \in Items : x \in h.free => x \in c.free
         /\ \A x \in Items : x \in c.free => x \in h.free \/ (x = i /\ h.refcount[i] = 0)
         /\ \A x \in Items : x \notin c.free => c.key[x] = h.key[x]
         /\ ~c.aborted => c.linked[n] /\ i \notin h.free
         /\ ~h.aborted /\ h.linked[i] /\ n # i /\ Aside(h, n) /\ h.key[n] = h.key[i] => ~c.aborted
<1> DEFINE c == do_item_replace(h, i, n, now)
           g == do_item_unlink(h, i)
           l == do_item_link(g, n, now)
<1>1. c = IF i \notin h.free THEN l ELSE Abort(h)
  BY DEF do_item_replace, Asserted, Abort
<1>0. FreeUnused(h)
  BY DEF Good, Sound
<1>2. CASE i \in h.free
  <2>1. c = Abort(h)
    BY <1>1, <1>2
  <2>2. /\ Step(h, Abort(h), now) /\ Abort(h).aborted /\ Abort(h).uncounted = h.uncounted
        /\ Abort(h).linked = h.linked /\ Abort(h).free = h.free /\ Abort(h).refcount = h.refcount
        /\ Abort(h).key = h.key
    BY ONLY Good(h, now), AbortStep
  <2>3. ~h.linked[i]
    BY <1>0, <1>2 DEF FreeUnused
  <2> HIDE DEF c
  <2>4. Spares(h, c, n)
    BY ONLY <2>1, <2>2 DEF Spares, Aside
  <2> QED BY ONLY <2>1, <2>2, <2>3, <2>4 DEF c
<1>3. CASE i \notin h.free
  <2>1. /\ Step(h, g, now)
        /\ g.refcount = h.refcount /\ g.uncounted = h.uncounted /\ g.aborted = h.aborted
        /\ ~g.linked[i] /\ \A x \in Items : x # i => (g.linked[x] <=> h.linked[x])
        /\ \A x \in Items : x \in g.free <=> x \in h.free \/ (x = i /\ h.linked[i] /\ h.refcount[i] = 0)
        /\ \A x \in Items : x \notin g.free => g.key[x] = h.key[x]
        /\ h.linked[i] => g.assoc[h.key[i]] = NULL
    BY ONLY Good(h, now), i \in Items, now \in Nat, UnlinkStep
  <2> HIDE DEF g
  <2>2. Good(g, now)
    BY <2>1 DEF Step
  <2>3. /\ Step(g, l, now)
        /\ l.refcount = g.refcount /\ l.free = g.free /\ l.uncounted = g.uncounted
        /\ l.key = g.key
        /\ \A x \in Items : x # n => (l.linked[x] <=> g.linked[x])
        /\ ~l.aborted => l.linked[n]
        /\ ~g.linked[n] /\ n \notin g.free /\ g.assoc[g.key[n]] = NULL /\ ~g.aborted => ~l.aborted
    BY ONLY <2>2, n \in Items, now \in Nat, LinkStep
  <2>4. c = l
    BY <1>1, <1>3
  <2> HIDE DEF l, c
  <2>5. Step(h, c, now)
    BY ONLY Good(h, now), <2>1, <2>3, <2>4, StepOn
  <2>6. Spares(h, c, n)
    BY ONLY <2>1, <2>3, <2>4 DEF Spares, Aside
  <2>7. /\ c.refcount = h.refcount /\ c.uncounted = h.uncounted
        /\ \A x \in Items : x \in h.free => x \in c.free
        /\ \A x \in Items : x \in c.free => x \in h.free \/ (x = i /\ h.refcount[i] = 0)
        /\ \A x \in Items : x \notin c.free => c.key[x] = h.key[x]
        /\ ~c.aborted => c.linked[n] /\ i \notin h.free
    BY ONLY <1>3, <2>1, <2>3, <2>4
  <2>8. ASSUME ~h.aborted, h.linked[i], n # i, Aside(h, n), h.key[n] = h.key[i]
        PROVE  ~c.aborted
    BY ONLY <2>1, <2>3, <2>4, <2>8, n \in Items DEF Aside
  <2> QED BY ONLY <2>5, <2>6, <2>7, <2>8 DEF c
<1> QED BY <1>2, <1>3

(* do_item_alloc *)

\* The item a search from the tail finds is one of those it looks for.
LEMMA FromTailFound ==
  ASSUME NEW h \in CacheType, NEW S \in SUBSET (DOMAIN h.lru), FromTail(h, S) # NULL
  PROVE  \E j \in S : FromTail(h, S) = h.lru[j]
<1> DEFINE near == {j \in S : j > Len(h.lru) - SearchTries}
           N == {Len(h.lru) - j : j \in near}
<1>0. DOMAIN h.lru = 1 .. Len(h.lru) /\ Len(h.lru) \in Nat
  BY FieldTypes, Positions
<1>1. near # {}
  BY DEF FromTail
<1>2. N \in SUBSET Nat /\ N # {}
  <2>1. \A j \in near : j \in 1 .. Len(h.lru)
    BY <1>0
  <2>2. \A j \in near : Len(h.lru) - j \in Nat
    BY ONLY <1>0, <2>1
  <2> HIDE DEF near
  <2> QED BY ONLY <1>1, <2>2
<1>3. PICK n \in N : \A m \in N : n <= m
  <2> HIDE DEF N
  <2> QED BY <1>2, SmallestNumber
<1>4. PICK j \in near : n = Len(h.lru) - j
  OBVIOUS
<1>5. \A m \in near : m <= j
  <2> SUFFICES ASSUME NEW m \in near PROVE m <= j
    OBVIOUS
  <2>1. Len(h.lru) - m \in N
    OBVIOUS
  <2>2. Len(h.lru) - j <= Len(h.lru) - m
    BY <1>3, <1>4, <2>1
  <2>3. m \in Int /\ j \in Int
    BY <1>0
  <2> HIDE DEF near
  <2> QED BY ONLY <1>0, <2>2, <2>3
<1>6. FromTail(h, S) = h.lru[CHOOSE k \in near : \A m \in near : m <= k]
  BY <1>1 DEF FromTail
<1> HIDE DEF near
<1>7. (CHOOSE k \in near : \A m \in near : m <= k) \in near
  BY <1>5
<1>8. near \subseteq S
  BY DEF near
<1> QED BY <1>6, <1>7, <1>8

LEMMA Searches ==
  ASSUME NEW h, NEW now, Sound(h, now)
  PROVE  /\ Expired(h, now) # NULL =>
              LET i == Expired(h, now) IN i \in Items /\ h.linked[i] /\ h.refcount[i] = 0
         /\ Unreferenced(h) # NULL =>
              LET i == Unreferenced(h) IN i \in Items /\ h.linked[i] /\ h.refcount[i] = 0
         /\ HeldTooLong(h, now) # NULL =>
              LET i == HeldTooLong(h, now) IN i \in Items /\ h.linked[i]
<1> DEFINE E == {j \in DOMAIN h.lru :
                   /\ h.refcount[h.lru[j]] = 0
                   /\ h.exptime[h.lru[j]] # 0 /\ h.exptime[h.lru[j]] < now}
           U == {j \in DOMAIN h.lru : h.refcount[h.lru[j]] = 0}
           T == {j \in DOMAIN h.lru : /\ h.refcount[h.lru[j]] # 0
                                      /\ h.time[h.lru[j]] + TailRepairTime < now}
<1>1. h \in CacheType /\ InQueue(h)
  BY DEF Sound
<1>2. \A j \in DOMAIN h.lru : h.lru[j] \in Items /\ h.linked[h.lru[j]]
  BY <1>1, FieldTypes, Positions DEF InQueue, Has
<1>3. Expired(h, now) = FromTail(h, E) /\ Unreferenced(h) = FromTail(h, U)
      /\ HeldTooLong(h, now) = FromTail(h, T)
  BY DEF Expired, Unreferenced, HeldTooLong
<1>4. E \in SUBSET (DOMAIN h.lru) /\ U \in SUBSET (DOMAIN h.lru) /\ T \in SUBSET (DOMAIN h.lru)
  OBVIOUS
<1>5. \A j \in E \cup U : h.refcount[h.lru[j]] = 0
  OBVIOUS
<1> HIDE DEF E, U, T
<1>6. ASSUME Expired(h, now) # NULL
      PROVE  LET i == Expired(h, now) IN i \in Items /\ h.linked[i] /\ h.refcount[i] = 0
  <2>1. PICK j \in E : FromTail(h, E) = h.lru[j]
    BY ONLY <1>1, <1>3, <1>4, <1>6, FromTailFound
  <2> QED BY ONLY <1>2, <1>3, <1>4, <1>5, <2>1
<1>7. ASSUME Unreferenced(h) # NULL
      PROVE  LET i == Unreferenced(h) IN i \in Items /\ h.linked[i] /\ h.refcount[i] = 0
  <2>1. PICK j \in U : FromTail(h, U) = h.lru[j]
    BY ONLY <1>1, <1>3, <1>4, <1>7, FromTailFound
  <2> QED BY ONLY <1>2, <1>3, <1>4, <1>5, <2>1
<1>8. ASSUME HeldTooLong(h, now) # NULL
      PROVE  LET i == HeldTooLong(h, now) IN i \in Items /\ h.linked[i]
  <2>1. PICK j \in T : FromTail(h, T) = h.lru[j]
    BY ONLY <1>1, <1>3, <1>4, <1>8, FromTailFound
  <2> QED BY ONLY <1>2, <1>3, <1>4, <2>1
<1> QED BY <1>6, <1>7, <1>8

\* What a search for a chunk may do to the items it does not find.
Room(h, c, now) ==
  /\ Step(h, c, now) /\ c.aborted = h.aborted
  /\ \A x \in Items : Aside(h, x) => Aside(c, x)
  /\ \A x \in Items : x \notin c.free => c.key[x] = h.key[x]
  /\ \A x \in Items : x \in h.free => x \in c.free
  /\ \A x \in Items : x \in c.free => x \in h.free \/ h.linked[x]
  /\ ~c.uncounted =>
       /\ c.refcount = h.refcount
       /\ \A x \in Items : h.refcount[x] > 0 =>
            (c.linked[x] <=> h.linked[x]) /\ (x \in c.free <=> x \in h.free)

LEMMA RoomNone ==
  ASSUME NEW h, NEW now, Good(h, now)
  PROVE  Room(h, h, now)
  BY StepNone DEF Room

LEMMA RoomOn ==
  ASSUME NEW g, NEW h, NEW c, NEW now, Good(g, now), Room(g, h, now), Room(h, c, now)
  PROVE  Room(g, c, now)
<1>1. Step(g, c, now)
  BY StepOn DEF Room
<1>2. ~c.uncounted => ~h.uncounted
  BY DEF Room, Step
<1>3. \A x \in Items : x \in c.free => x \in g.free \/ g.linked[x]
  BY DEF Room, Aside
<1> QED BY <1>1, <1>2, <1>3 DEF Room

LEMMA EvictRoom ==
  ASSUME NEW h, NEW now \in Nat, Good(h, now)
  PROVE  Room(h, Evict(h), now)
<1> DEFINE i == Unreferenced(h)
           c == do_item_unlink(h, i)
<1>1. CASE i = NULL
  BY <1>1, RoomNone DEF Evict
<1>2. CASE i # NULL
  <2>1. i \in Items /\ h.linked[i] /\ h.refcount[i] = 0
    BY <1>2, Searches DEF Good
  <2>2. Evict(h) = c
    BY <1>2 DEF Evict
  <2> HIDE DEF i
  <2>3. /\ Step(h, c, now)
        /\ c.refcount = h.refcount /\ c.uncounted = h.uncounted /\ c.aborted = h.aborted
        /\ ~c.linked[i] /\ \A x \in Items : x # i => (c.linked[x] <=> h.linked[x])
        /\ \A x \in Items : x \in c.free <=> x \in h.free \/ (x = i /\ h.linked[i] /\ h.refcount[i] = 0)
        /\ \A x \in Items : x \notin c.free => c.key[x] = h.key[x]
    BY ONLY Good(h, now), now \in Nat, <2>1, UnlinkStep
  <2> HIDE DEF c
  <2>4. \A x \in Items : h.refcount[x] > 0 => x # i
    BY ONLY <2>1
  <2>5. Room(h, c, now)
    BY ONLY <2>1, <2>3, <2>4 DEF Room, Aside
  <2> QED BY <2>2, <2>5
<1> QED BY <1>1, <1>2

LEMMA RepairRoom ==
  ASSUME NEW h, NEW now \in Nat, Good(h, now)
  PROVE  Room(h, TailRepair(h, now), now)
<1> DEFINE i == HeldTooLong(h, now)
           z == 0
           yes == TRUE
           g == SetRef(h, i, z, yes)
           c == do_item_unlink(g, i)
<1>1. CASE i = NULL
  BY <1>1, RoomNone DEF TailRepair
<1>2. CASE i # NULL
  <2>0. h \in CacheType /\ Sound(h, now) /\ \A x \in Items : Needed(h, x)
    BY DEF Good, Sound
  <2>1. i \in Items /\ h.linked[i]
    BY <1>2, Searches DEF Good
  <2>2. TailRepair(h, now) = c
    BY <1>2 DEF TailRepair, SetRef
  <2>y. yes
    OBVIOUS
  <2>z. z \in Counts /\ z = 0 /\ yes \in BOOLEAN /\ (i \notin h.free \/ z = 0)
    BY SmallCounts
  <2> HIDE DEF i, z, yes
  <2>3. /\ Sound(g, now) /\ Evolves(h, g)
        /\ \A x \in Items : x # i => (Needed(g, x) <=> Needed(h, x))
        /\ Needed(g, i) <=> i \in h.free \/ h.linked[i] \/ z > 0
    BY ONLY <2>0, <2>1, <2>z, RefSound
  <2>4. /\ g.linked = h.linked /\ g.free = h.free
        /\ g.key = h.key /\ g.uncounted = yes /\ g.aborted = h.aborted
    BY ONLY <2>0, <2>1, <2>z, RefFields
  <2> HIDE DEF g
  <2>5. Good(g, now)
    BY ONLY <2>0, <2>1, <2>3 DEF Good
  <2>6. Step(h, g, now)
    BY ONLY <2>3, <2>4, <2>5, <2>y DEF Step
  <2>7. /\ Step(g, c, now)
        /\ c.uncounted = g.uncounted /\ c.aborted = g.aborted
        /\ ~c.linked[i] /\ \A x \in Items : x # i => (c.linked[x] <=> g.linked[x])
        /\ \A x \in Items : x \in c.free <=> x \in g.free \/ (x = i /\ g.linked[i] /\ g.refcount[i] = 0)
        /\ \A x \in Items : x \notin c.free => c.key[x] = g.key[x]
    BY ONLY <2>5, now \in Nat, <2>1, UnlinkStep
  <2> HIDE DEF c
  <2>8. Step(h, c, now)
    BY ONLY Good(h, now), <2>6, <2>7, StepOn
  <2>9. Room(h, c, now)
    BY ONLY <2>1, <2>4, <2>7, <2>8, <2>y DEF Room, Aside
  <2> QED BY <2>2, <2>9
<1> QED BY <1>1, <1>2

LEMMA MadeRoomRoom ==
  ASSUME NEW h, NEW now \in Nat, Good(h, now)
  PROVE  Room(h, MadeRoom(h, now), now)
<1>1. Room(h, h, now)
  BY RoomNone
<1>2. Room(h, Evict(h), now)
  BY EvictRoom
<1>3. Good(Evict(h), now)
  BY <1>2 DEF Room, Step
<1>4. Room(Evict(h), TailRepair(Evict(h), now), now)
  BY ONLY <1>3, now \in Nat, RepairRoom
<1>5. Room(h, TailRepair(Evict(h), now), now)
  BY ONLY Good(h, now), <1>2, <1>4, RoomOn
<1>6. MadeRoom(h, now) \in {h, Evict(h), TailRepair(Evict(h), now)}
  BY DEF MadeRoom
<1> QED BY ONLY <1>1, <1>2, <1>5, <1>6

\* The expired item, taken out of the cache but not freed.
LEMMA StealSound ==
  ASSUME NEW h, NEW now \in Nat, Good(h, now), NEW i \in Items, h.linked[i], h.refcount[i] = 0
  PROVE  LET c == Steal(h, i) IN
         /\ Sound(c, now) /\ Evolves(h, c)
         /\ \A x \in Items : x # i => Needed(c, x)
         /\ ~c.linked[i] /\ \A x \in Items : x # i => (c.linked[x] <=> h.linked[x])
         /\ \A x \in Items : x # i => c.refcount[x] = h.refcount[x]
         /\ \A x \in Items : x \in c.free <=> x \in h.free
         /\ \A x \in Items : x \notin c.free => c.key[x] = h.key[x]
         /\ c.uncounted = h.uncounted /\ c.aborted = h.aborted
<1> DEFINE one == 1
           none == 0
           g == SetRef(h, i, one, h.uncounted)
           f == do_item_unlink(g, i)
           c == SetRef(f, i, none, f.uncounted)
<1>0. h \in CacheType /\ Sound(h, now) /\ \A x \in Items : Needed(h, x)
  BY DEF Good, Sound
<1>1. h.uncounted \in BOOLEAN /\ one \in Counts /\ none \in Counts /\ none = 0 /\ one > 0
  BY <1>0, FieldTypes, SmallCounts
<1>2. i \notin h.free
  BY <1>0 DEF Sound, FreeUnused
<1>3. [h EXCEPT !.refcount[i] = 1] = g
  BY <1>0, RefOnly
<1>c. Steal(h, i) = [f EXCEPT !.refcount[i] = 0]
  BY <1>3 DEF Steal
<1> HIDE DEF one, none
<1>4. /\ Sound(g, now) /\ Evolves(h, g)
      /\ \A x \in Items : x # i => (Needed(g, x) <=> Needed(h, x))
      /\ Needed(g, i) <=> i \in h.free \/ h.linked[i] \/ one > 0
  BY ONLY <1>0, <1>1, <1>2, i \in Items, RefSound
<1>5. /\ g.refcount[i] = one /\ \A x \in Items : x # i => g.refcount[x] = h.refcount[x]
      /\ g.linked = h.linked /\ g.free = h.free
      /\ g.key = h.key /\ g.uncounted = h.uncounted /\ g.aborted = h.aborted
  BY ONLY <1>0, <1>1, i \in Items, RefFields
<1> HIDE DEF g
<1>6. Good(g, now)
  BY ONLY <1>0, <1>1, <1>4 DEF Good
<1>7. Step(h, g, now)
  BY ONLY <1>4, <1>5, <1>6 DEF Step
<1>8. /\ Step(g, f, now)
      /\ f.refcount = g.refcount /\ f.uncounted = g.uncounted /\ f.aborted = g.aborted
      /\ ~f.linked[i] /\ \A x \in Items : x # i => (f.linked[x] <=> g.linked[x])
      /\ \A x \in Items : x \in f.free <=> x \in g.free \/ (x = i /\ g.linked[i] /\ g.refcount[i] = 0)
      /\ \A x \in Items : x \notin f.free => f.key[x] = g.key[x]
  BY ONLY <1>6, now \in Nat, i \in Items, UnlinkStep
<1> HIDE DEF f
<1>9. Step(h, f, now)
  BY ONLY Good(h, now), <1>7, <1>8, StepOn
<1>10. f \in CacheType /\ Sound(f, now) /\ Evolves(h, f) /\ \A x \in Items : Needed(f, x)
  BY <1>9 DEF Step, Good, Sound
<1>11. f.uncounted \in BOOLEAN
  BY <1>10, FieldTypes
<1>12. /\ Sound(c, now) /\ Evolves(f, c)
       /\ \A x \in Items : x # i => (Needed(c, x) <=> Needed(f, x))
  BY ONLY <1>1, <1>10, <1>11, i \in Items, RefSound
<1>13. /\ \A x \in Items : x # i => c.refcount[x] = f.refcount[x]
       /\ c.linked = f.linked /\ c.free = f.free
       /\ c.key = f.key /\ c.uncounted = f.uncounted /\ c.aborted = f.aborted
  BY ONLY <1>1, <1>10, <1>11, i \in Items, RefFields
<1>14. Steal(h, i) = c
  BY <1>10, <1>c, RefOnly DEF none
<1> HIDE DEF c
<1>15. Evolves(h, c)
  <2>1. c \in CacheType
    BY <1>12 DEF Sound
  <2> QED BY ONLY <1>0, <1>10, <1>12, <2>1, EvolvesOn
<1>16. /\ Sound(c, now)
       /\ \A x \in Items : x # i => Needed(c, x)
       /\ ~c.linked[i] /\ \A x \in Items : x # i => (c.linked[x] <=> h.linked[x])
       /\ \A x \in Items : x # i => c.refcount[x] = h.refcount[x]
       /\ c.uncounted = h.uncounted /\ c.aborted = h.aborted
  BY ONLY <1>5, <1>8, <1>10, <1>12, <1>13
<1>17. /\ \A x \in Items : x \in c.free <=> x \in h.free
       /\ \A x \in Items : x \notin c.free => c.key[x] = h.key[x]
  BY ONLY <1>1, <1>5, <1>8, <1>13
<1> QED BY ONLY <1>14, <1>15, <1>16, <1>17

\* c is h but for item i, which is in use and has key k.
Renewed(h, c, i, k) ==
  /\ c \in CacheType
  /\ \A x \in Items : x \in c.free <=> x \in h.free /\ x # i
  /\ c.refcount[i] = 1 /\ \A x \in Items : x # i => c.refcount[x] = h.refcount[x]
  /\ ~c.linked[i] /\ \A x \in Items : x # i => (c.linked[x] <=> h.linked[x])
  /\ c.key[i] = k /\ \A x \in Items : x # i => c.key[x] = h.key[x]
  /\ \A x \in Items : x # i => /\ c.val[x] = h.val[x] /\ c.time[x] = h.time[x]
                               /\ c.cas[x] = h.cas[x]
  /\ c.assoc = h.assoc /\ c.lru = h.lru /\ c.cas_id = h.cas_id
  /\ c.uncounted = h.uncounted /\ c.aborted = h.aborted

LEMMA FreshFields ==
  ASSUME NEW h \in CacheType, NEW i \in Items, NEW k \in Keys, NEW v \in Int,
         NEW e \in Nat, NEW nb \in Nat
  PROVE  Renewed(h, Fresh(h, i, k, v, e, nb), i, k)
<1> DEFINE F == h.free \ {i}
           R == [h.refcount EXCEPT ![i] = 1]
           L == [h.linked EXCEPT ![i] = FALSE]
           K == [h.key EXCEPT ![i] = k]
           V == [h.val EXCEPT ![i] = v]
           N == [h.nbytes EXCEPT ![i] = nb]
           E == [h.exptime EXCEPT ![i] = e]
           T == [h.time EXCEPT ![i] = 0]
           C == [h.cas EXCEPT ![i] = 0]
           c == Fresh(h, i, k, v, e, nb)
<1>1. /\ F \in SUBSET Items /\ R \in [Items -> Counts] /\ L \in [Items -> BOOLEAN]
      /\ K \in [Items -> Keys \cup {NULL}] /\ V \in [Items -> Int]
  BY FieldTypes, SmallCounts
<1>2. N \in [Items -> Nat] /\ E \in [Items -> Nat] /\ T \in [Items -> Nat] /\ C \in [Items -> Nat]
  BY FieldTypes
<1>3. c = [h EXCEPT !.free = F, !.refcount = R, !.linked = L, !.key = K, !.val = V, !.nbytes = N,
                    !.exptime = E, !.time = T, !.cas = C]
  BY DEF Fresh
<1>4. /\ \A x \in Items : x \in F <=> x \in h.free /\ x # i
      /\ R[i] = 1 /\ \A x \in Items : x # i => R[x] = h.refcount[x]
      /\ ~L[i] /\ \A x \in Items : x # i => (L[x] <=> h.linked[x])
      /\ K[i] = k /\ \A x \in Items : x # i => K[x] = h.key[x]
  BY FieldTypes
<1>5. \A x \in Items : x # i => V[x] = h.val[x] /\ T[x] = h.time[x] /\ C[x] = h.cas[x]
  BY FieldTypes
<1> HIDE DEF F, R, L, K, V, N, E, T, C, c
<1>6. /\ c \in CacheType /\ c.free = F /\ c.refcount = R /\ c.linked = L /\ c.key = K /\ c.val = V
      /\ c.time = T /\ c.cas = C
  BY ONLY <1>1, <1>2, <1>3, h \in CacheType DEF CacheType, Counts
<1>7. /\ c.assoc = h.assoc /\ c.lru = h.lru /\ c.cas_id = h.cas_id
      /\ c.uncounted = h.uncounted /\ c.aborted = h.aborted
  BY ONLY <1>3, h \in CacheType DEF CacheType
<1>8. Renewed(h, c, i, k)
  BY ONLY <1>4, <1>5, <1>6, <1>7 DEF Renewed
<1> QED BY <1>8 DEF c

\* A chunk that is not linked becomes a new item with one reference.
LEMMA FreshGood ==
  ASSUME NEW h, NEW now \in Nat, Sound(h, now), NEW i \in Items, ~h.linked[i],
         \A x \in Items : x # i => Needed(h, x),
         NEW k \in Keys, NEW v \in Int, NEW e \in Nat, NEW nb \in Nat
  PROVE  LET c == Fresh(h, i, k, v, e, nb) IN Good(c, now) /\ Evolves(h, c)
<1> DEFINE c == Fresh(h, i, k, v, e, nb)
<1>0. h \in CacheType
  BY DEF Sound
<1>1. /\ c \in CacheType
      /\ \A x \in Items : x \in c.free <=> x \in h.free /\ x # i
      /\ c.refcount[i] = 1 /\ \A x \in Items : x # i => c.refcount[x] = h.refcount[x]
      /\ ~c.linked[i] /\ \A x \in Items : x # i => (c.linked[x] <=> h.linked[x])
      /\ c.key[i] = k /\ \A x \in Items : x # i => c.key[x] = h.key[x]
      /\ \A x \in Items : x # i => /\ c.val[x] = h.val[x] /\ c.time[x] = h.time[x]
                                   /\ c.cas[x] = h.cas[x]
      /\ c.assoc = h.assoc /\ c.lru = h.lru /\ c.cas_id = h.cas_id
      /\ c.uncounted = h.uncounted /\ c.aborted = h.aborted
  <2>1. Renewed(h, c, i, k)
    BY ONLY <1>0, FreshFields, i \in Items, k \in Keys, v \in Int, e \in Nat, nb \in Nat
  <2> HIDE DEF c
  <2> QED BY ONLY <2>1 DEF Renewed
<1> HIDE DEF c
<1>2. /\ h.assoc \in [Keys -> Items \cup {NULL}] /\ h.cas_id \in Nat /\ h.lru \in Queue
      /\ c.free \in SUBSET Items /\ h.free \in SUBSET Items
  BY <1>0, <1>1, FieldTypes
<1>3. Tabled(h) /\ InQueue(h) /\ FreeUnused(h) /\ Sorted(h, now) /\ Numbered(h)
  BY DEF Sound
<1>4. \A x \in Items : c.linked[x] <=> h.linked[x]
  BY ONLY <1>1, ~h.linked[i]
<1>5. \A x \in Items : h.linked[x] =>
        c.key[x] = h.key[x] /\ c.val[x] = h.val[x] /\ c.time[x] = h.time[x] /\ c.cas[x] = h.cas[x]
  BY ONLY <1>1, ~h.linked[i]
<1>6. \A y \in Keys : h.assoc[y] # NULL => h.assoc[y] \in Items /\ h.linked[h.assoc[y]]
  BY ONLY <1>2, <1>3 DEF Tabled
<1>7. Tabled(c)
  BY ONLY <1>1, <1>3, <1>4, <1>5, <1>6 DEF Tabled
<1>8. InQueue(c)
  BY ONLY <1>1, <1>3, <1>4 DEF InQueue
<1>9. FreeUnused(c)
  <2>1. ASSUME NEW x \in c.free PROVE ~c.linked[x] /\ c.refcount[x] = 0
    BY ONLY <1>1, <1>2, <1>3, <2>1 DEF FreeUnused
  <2>2. ASSUME NEW x \in Items \ c.free PROVE c.key[x] \in Keys
    BY ONLY <1>1, <1>3, <2>2, k \in Keys DEF FreeUnused
  <2> QED BY <2>1, <2>2 DEF FreeUnused
<1>10. Sorted(c, now)
  <2>1. \A j \in DOMAIN h.lru : h.lru[j] \in Items /\ h.linked[h.lru[j]]
    BY <1>2, <1>3, Positions DEF InQueue, Has
  <2>2. \A j \in DOMAIN h.lru : c.time[h.lru[j]] = h.time[h.lru[j]]
    BY ONLY <1>5, <2>1
  <2>3. SortedBy(h.lru, c.time)
    BY ONLY <1>3, <2>2 DEF Sorted, SortedBy
  <2> QED BY ONLY <1>1, <1>3, <1>4, <1>5, <2>3 DEF Sorted
<1>11. Numbered(c)
  BY ONLY <1>1, <1>3, <1>4, <1>5 DEF Numbered
<1>12. Evolves(h, c)
  BY ONLY <1>1, <1>2, <1>5, <1>6 DEF Evolves
<1>13. \A x \in Items : Needed(c, x)
  <2>1. 1 > 0
    OBVIOUS
  <2> QED BY ONLY <1>1, <2>1, \A x \in Items : x # i => Needed(h, x) DEF Needed
<1> QED BY ONLY <1>1, <1>7, <1>8, <1>9, <1>10, <1>11, <1>12, <1>13 DEF Good, Sound, c

\* What an outcome of do_item_alloc is, for an item with key k.
Allocated(h, c, it, k, now) ==
  /\ Step(h, c, now) /\ c.aborted = h.aborted
  /\ \A x \in Items : Aside(h, x) => Aside(c, x) /\ x # it /\ c.key[x] = h.key[x]
  /\ it # NULL => /\ it \in Items /\ Aside(c, it) /\ c.refcount[it] = 1 /\ c.key[it] = k
                  /\ it \in h.free \/ h.linked[it]
  /\ ~c.uncounted =>
       /\ it # NULL => h.refcount[it] = 0
       /\ \A x \in Items : x # it => c.refcount[x] = h.refcount[x]
       /\ \A x \in Items : h.refcount[x] > 0 =>
            /\ c.linked[x] <=> h.linked[x]
            /\ x \notin h.free => x \notin c.free /\ c.key[x] = h.key[x]

LEMMA FailedAllocated ==
  ASSUME NEW h, NEW c, NEW now, Room(h, c, now), NEW k
  PROVE  Allocated(h, c, NULL, k, now)
<1>1. NULL \notin Items
  BY CacheAssumption
<1> QED BY <1>1 DEF Room, Allocated, Aside

LEMMA ExpiredAllocated ==
  ASSUME NEW h, NEW now \in Nat, Good(h, now), NEW i \in Items, h.linked[i], h.refcount[i] = 0,
         NEW k \in Keys, NEW v \in Int, NEW e \in Nat, NEW nb \in Nat
  PROVE  Allocated(h, Fresh(Steal(h, i), i, k, v, e, nb), i, k, now)
<1> DEFINE g == Steal(h, i)
           c == Fresh(g, i, k, v, e, nb)
<1>0. h \in CacheType /\ FreeUnused(h)
  BY DEF Good, Sound
<1>1. /\ Sound(g, now) /\ Evolves(h, g)
      /\ \A x \in Items : x # i => Needed(g, x)
      /\ ~g.linked[i] /\ \A x \in Items : x # i => (g.linked[x] <=> h.linked[x])
      /\ \A x \in Items : x # i => g.refcount[x] = h.refcount[x]
      /\ \A x \in Items : x \in g.free <=> x \in h.free
      /\ \A x \in Items : x \notin g.free => g.key[x] = h.key[x]
      /\ g.uncounted = h.uncounted /\ g.aborted = h.aborted
  BY ONLY Good(h, now), now \in Nat, i \in Items, h.linked[i], h.refcount[i] = 0, StealSound
<1> HIDE DEF g
<1>2. g \in CacheType
  BY <1>1 DEF Sound
<1>3. Good(c, now) /\ Evolves(g, c)
  BY ONLY <1>1, now \in Nat, i \in Items, k \in Keys, v \in Int, e \in Nat, nb \in Nat, FreshGood
<1>4. /\ c \in CacheType
      /\ \A x \in Items : x \in c.free <=> x \in g.free /\ x # i
      /\ c.refcount[i] = 1 /\ \A x \in Items : x # i => c.refcount[x] = g.refcount[x]
      /\ ~c.linked[i] /\ \A x \in Items : x # i => (c.linked[x] <=> g.linked[x])
      /\ c.key[i] = k /\ \A x \in Items : x # i => c.key[x] = g.key[x]
      /\ \A x \in Items : x # i => /\ c.val[x] = g.val[x] /\ c.time[x] = g.time[x]
                                   /\ c.cas[x] = g.cas[x]
      /\ c.assoc = g.assoc /\ c.lru = g.lru /\ c.cas_id = g.cas_id
      /\ c.uncounted = g.uncounted /\ c.aborted = g.aborted
  <2>1. Renewed(g, c, i, k)
    BY ONLY <1>2, i \in Items, k \in Keys, v \in Int, e \in Nat, nb \in Nat, FreshFields
  <2> HIDE DEF c
  <2> QED BY ONLY <2>1 DEF Renewed
<1> HIDE DEF c
<1>5. Evolves(h, c)
  <2>1. c \in CacheType
    BY <1>3 DEF Good, Sound
  <2> QED BY ONLY <1>0, <1>1, <1>2, <1>3, <2>1, EvolvesOn
<1>6. Step(h, c, now) /\ c.aborted = h.aborted
  BY ONLY <1>1, <1>3, <1>4, <1>5 DEF Step
<1>7. \A x \in Items : Aside(h, x) => Aside(c, x) /\ x # i /\ c.key[x] = h.key[x]
  BY ONLY <1>1, <1>4, h.linked[i] DEF Aside
<1>8. i # NULL => /\ i \in Items /\ Aside(c, i) /\ c.refcount[i] = 1 /\ c.key[i] = k
                  /\ i \in h.free \/ h.linked[i]
  BY ONLY <1>4, i \in Items, h.linked[i] DEF Aside
<1>9. \A x \in Items : x # i => c.refcount[x] = h.refcount[x]
  BY ONLY <1>1, <1>4
<1>10. \A x \in Items : h.refcount[x] > 0 => x # i
  BY ONLY h.refcount[i] = 0
<1>11. \A x \in Items : h.refcount[x] > 0 =>
            /\ c.linked[x] <=> h.linked[x]
            /\ x \notin h.free => x \notin c.free /\ c.key[x] = h.key[x]
  BY ONLY <1>1, <1>4, <1>10
<1>12. c = Fresh(Steal(h, i), i, k, v, e, nb)
  BY DEF c, g
<1> QED BY ONLY <1>6, <1>7, <1>8, <1>9, <1>11, <1>12, h.refcount[i] = 0 DEF Allocated

LEMMA FreeAllocated ==
  ASSUME NEW h, NEW now \in Nat, Good(h, now), NEW g, Room(h, g, now), NEW i \in g.free,
         NEW k \in Keys, NEW v \in Int, NEW e \in Nat, NEW nb \in Nat
  PROVE  Allocated(h, Fresh(g, i, k, v, e, nb), i, k, now)
<1> DEFINE c == Fresh(g, i, k, v, e, nb)
<1>0. /\ Step(h, g, now) /\ Good(g, now) /\ Sound(g, now) /\ g \in CacheType /\ FreeUnused(g)
      /\ \A x \in Items : Needed(g, x)
  BY DEF Room, Step, Good, Sound
<1>1. i \in Items /\ ~g.linked[i] /\ g.refcount[i] = 0
  BY <1>0, FieldTypes DEF FreeUnused
<1>2. g \in CacheType /\ i \in Items
  BY <1>0, <1>1
<1>3. Good(c, now) /\ Evolves(g, c)
  BY ONLY <1>0, <1>1, now \in Nat, k \in Keys, v \in Int, e \in Nat, nb \in Nat, FreshGood
<1>4. /\ c \in CacheType
      /\ \A x \in Items : x \in c.free <=> x \in g.free /\ x # i
      /\ c.refcount[i] = 1 /\ \A x \in Items : x # i => c.refcount[x] = g.refcount[x]
      /\ ~c.linked[i] /\ \A x \in Items : x # i => (c.linked[x] <=> g.linked[x])
      /\ c.key[i] = k /\ \A x \in Items : x # i => c.key[x] = g.key[x]
      /\ \A x \in Items : x # i => /\ c.val[x] = g.val[x] /\ c.time[x] = g.time[x]
                                   /\ c.cas[x] = g.cas[x]
      /\ c.assoc = g.assoc /\ c.lru = g.lru /\ c.cas_id = g.cas_id
      /\ c.uncounted = g.uncounted /\ c.aborted = g.aborted
  <2>1. Renewed(g, c, i, k)
    BY ONLY <1>2, k \in Keys, v \in Int, e \in Nat, nb \in Nat, FreshFields
  <2> HIDE DEF c
  <2> QED BY ONLY <2>1 DEF Renewed
<1> HIDE DEF c
<1>5. Step(g, c, now)
  BY ONLY <1>3, <1>4 DEF Step
<1>6. Step(h, c, now)
  BY ONLY Good(h, now), <1>0, <1>5, StepOn
<1>7. /\ g.aborted = h.aborted
      /\ \A x \in Items : Aside(h, x) => Aside(g, x)
      /\ \A x \in Items : x \notin g.free => g.key[x] = h.key[x]
      /\ \A x \in Items : x \in g.free => x \in h.free \/ h.linked[x]
      /\ ~g.uncounted =>
           /\ g.refcount = h.refcount
           /\ \A x \in Items : h.refcount[x] > 0 =>
                (g.linked[x] <=> h.linked[x]) /\ (x \in g.free <=> x \in h.free)
  BY DEF Room
<1>8. \A x \in Items : Aside(h, x) => Aside(c, x) /\ x # i /\ c.key[x] = h.key[x]
  BY ONLY <1>4, <1>7, i \in g.free DEF Aside
<1>9. i # NULL => /\ i \in Items /\ Aside(c, i) /\ c.refcount[i] = 1 /\ c.key[i] = k
                  /\ i \in h.free \/ h.linked[i]
  BY ONLY <1>1, <1>4, <1>7, i \in g.free DEF Aside
<1>10. ASSUME ~c.uncounted
       PROVE  /\ h.refcount[i] = 0
              /\ \A x \in Items : x # i => c.refcount[x] = h.refcount[x]
              /\ \A x \in Items : h.refcount[x] > 0 =>
                   /\ c.linked[x] <=> h.linked[x]
                   /\ x \notin h.free => x \notin c.free /\ c.key[x] = h.key[x]
  <2>1. /\ g.refcount = h.refcount
        /\ \A x \in Items : h.refcount[x] > 0 =>
             (g.linked[x] <=> h.linked[x]) /\ (x \in g.free <=> x \in h.free)
    BY ONLY <1>4, <1>7, <1>10
  <2>2. h.refcount[i] = 0
    BY ONLY <1>1, <2>1
  <2>3. \A x \in Items : h.refcount[x] > 0 => x # i
    BY ONLY <2>2
  <2>4. \A x \in Items : x # i => c.refcount[x] = h.refcount[x]
    BY ONLY <1>4, <2>1
  <2>5. \A x \in Items : h.refcount[x] > 0 =>
                   /\ c.linked[x] <=> h.linked[x]
                   /\ x \notin h.free => x \notin c.free /\ c.key[x] = h.key[x]
    BY ONLY <1>4, <1>7, <2>1, <2>3
  <2> QED BY ONLY <2>2, <2>4, <2>5
<1>11. c.aborted = h.aborted
  BY ONLY <1>4, <1>7
<1>12. Allocated(h, c, i, k, now)
  BY ONLY <1>6, <1>8, <1>9, <1>10, <1>11 DEF Allocated
<1> QED BY <1>12 DEF c

LEMMA AllocOutcome ==
  ASSUME NEW h, NEW now \in Nat, Good(h, now),
         NEW k \in Keys, NEW v \in Int, NEW e \in Nat, NEW nb \in Nat,
         NEW a \in do_item_alloc(h, k, v, e, nb, now)
  PROVE  Allocated(h, a.h, a.it, k, now)
<1> DEFINE i == Expired(h, now)
           g == MadeRoom(h, now)
<1>1. CASE nb > MaxBytes
  <2>1. a.h = h /\ a.it = NULL
    BY <1>1 DEF do_item_alloc
  <2>2. Allocated(h, h, NULL, k, now)
    BY RoomNone, FailedAllocated
  <2> QED BY ONLY <2>1, <2>2
<1>2. CASE ~(nb > MaxBytes) /\ i # NULL
  <2>1. a.h = Fresh(Steal(h, i), i, k, v, e, nb) /\ a.it = i
    BY <1>2 DEF do_item_alloc
  <2>2. i \in Items /\ h.linked[i] /\ h.refcount[i] = 0
    BY <1>2, Searches DEF Good
  <2> HIDE DEF i
  <2>3. Allocated(h, Fresh(Steal(h, i), i, k, v, e, nb), i, k, now)
    BY ONLY <2>2, Good(h, now), now \in Nat, k \in Keys, v \in Int, e \in Nat, nb \in Nat, ExpiredAllocated
  <2> QED BY ONLY <2>1, <2>3
<1>3. CASE ~(nb > MaxBytes) /\ i = NULL
  <2>1. Room(h, g, now)
    BY MadeRoomRoom
  <2>2. CASE g.free = {}
    <3>1. a.h = g /\ a.it = NULL
      BY <1>3, <2>2 DEF do_item_alloc
    <3>2. Allocated(h, g, NULL, k, now)
      BY ONLY <2>1, FailedAllocated
    <3> QED BY ONLY <3>1, <3>2
  <2>3. CASE g.free # {}
    <3>1. PICK j \in g.free : a = [h |-> Fresh(g, j, k, v, e, nb), it |-> j]
      BY <1>3, <2>3 DEF do_item_alloc
    <3>2. a.h = Fresh(g, j, k, v, e, nb) /\ a.it = j
      BY <3>1
    <3> HIDE DEF g
    <3>3. Allocated(h, Fresh(g, j, k, v, e, nb), j, k, now)
      BY ONLY <2>1, j \in g.free, Good(h, now), now \in Nat, k \in Keys, v \in Int, e \in Nat, nb \in Nat,
              FreeAllocated
    <3> QED BY ONLY <3>2, <3>3
  <2> QED BY <2>2, <2>3
<1> QED BY <1>1, <1>2, <1>3

(* do_item_get *)

LEMMA AddRefStep ==
  ASSUME NEW h, NEW now, Good(h, now), NEW i \in Items, h.linked[i]
  PROVE  LET c == AddRef(h, i) IN
         /\ Step(h, c, now)
         /\ c.linked = h.linked /\ c.free = h.free /\ c.key = h.key /\ c.assoc = h.assoc
         /\ c.aborted = h.aborted
         /\ \A x \in Items : x # i => c.refcount[x] = h.refcount[x]
         /\ ~c.uncounted => c.refcount[i] = h.refcount[i] + 1
<1> DEFINE m == h.refcount[i]
           n == (m + 1) % RefWrap
           w == h.uncounted \/ m + 1 = RefWrap
           c == SetRef(h, i, n, w)
<1>0. h \in CacheType /\ Sound(h, now) /\ \A x \in Items : Needed(h, x)
  BY DEF Good, Sound
<1>1. m \in Counts /\ h.uncounted \in BOOLEAN
  BY <1>0, FieldTypes
<1>2. AddRef(h, i) = c
  BY DEF AddRef, SetRef
<1>3. n \in Counts /\ (m + 1 = RefWrap \/ n = m + 1)
  <2> HIDE DEF m
  <2> QED BY <1>1, SmallCounts
<1>4. w \in BOOLEAN
  OBVIOUS
<1>5. (h.uncounted => w) /\ (~w => n = m + 1)
  BY <1>3
<1>6. i \notin h.free
  BY <1>0 DEF Sound, FreeUnused
<1> HIDE DEF n, w
<1>7. /\ Sound(c, now) /\ Evolves(h, c)
      /\ \A x \in Items : x # i => (Needed(c, x) <=> Needed(h, x))
      /\ Needed(c, i) <=> i \in h.free \/ h.linked[i] \/ n > 0
  BY ONLY <1>0, <1>3, <1>4, <1>6, i \in Items, RefSound
<1>8. /\ c.refcount[i] = n /\ \A x \in Items : x # i => c.refcount[x] = h.refcount[x]
      /\ c.linked = h.linked /\ c.free = h.free /\ c.assoc = h.assoc
      /\ c.key = h.key /\ c.uncounted = w /\ c.aborted = h.aborted
  BY ONLY <1>0, <1>3, <1>4, i \in Items, RefFields
<1> HIDE DEF c, m
<1>9. Good(c, now)
  BY ONLY <1>0, <1>7, h.linked[i] DEF Good
<1>10. h.uncounted => c.uncounted
  BY ONLY <1>5, <1>8
<1>11. Step(h, c, now)
  BY ONLY <1>7, <1>8, <1>9, <1>10 DEF Step
<1>12. ~c.uncounted => c.refcount[i] = h.refcount[i] + 1
  BY ONLY <1>5, <1>8 DEF m
<1> QED BY ONLY <1>2, <1>8, <1>11, <1>12

\* What do_item_get does to the cache, and what it returns.
Got(h, c, it, k, now) ==
  /\ Step(h, c, now) /\ c.aborted = h.aborted
  /\ \A x \in Items : Aside(h, x) => Aside(c, x) /\ x # it /\ c.key[x] = h.key[x]
  /\ it = NULL => c.refcount = h.refcount /\ c.uncounted = h.uncounted /\ c.assoc[k] = NULL
  /\ it # NULL => /\ it \in Items /\ c.linked[it] /\ it \notin c.free /\ c.key[it] = k
                  /\ \A x \in Items : x # it => c.refcount[x] = h.refcount[x]
                  /\ ~c.uncounted => c.refcount[it] = h.refcount[it] + 1

LEMMA GetOutcome ==
  ASSUME NEW h, NEW now \in Nat, Good(h, now), NEW k \in Keys, NEW live
  PROVE  LET r == do_item_get(h, k, now, live) IN Got(h, r.h, r.it, k, now)
<1> DEFINE i == h.assoc[k]
           r == do_item_get(h, k, now, live)
           u == do_item_unlink(h, i)
           g == AddRef(h, i)
<1>0. h \in CacheType /\ Tabled(h) /\ FreeUnused(h)
  BY DEF Good, Sound
<1>n. NULL \notin Items
  BY CacheAssumption
<1>1. CASE i = NULL
  <2>1. r.h = h /\ r.it = NULL
    BY <1>1 DEF do_item_get
  <2>2. Step(h, h, now)
    BY StepNone
  <2> HIDE DEF r
  <2>3. Got(h, h, NULL, k, now)
    BY ONLY <1>1, <1>n, <2>2 DEF Got
  <2> QED BY ONLY <2>1, <2>3 DEF r
<1>2. CASE i # NULL
  <2>1. i \in Items /\ h.linked[i] /\ h.key[i] = k
    BY <1>0, <1>2, FieldTypes DEF Tabled
  <2>2. \/ r = [h |-> u, it |-> NULL]
        \/ r = [h |-> g, it |-> i]
    BY <1>2 DEF do_item_get
  <2>3. CASE r = [h |-> u, it |-> NULL]
    <3>1. r.h = u /\ r.it = NULL
      BY <2>3
    <3> HIDE DEF i, r
    <3>2. /\ Step(h, u, now)
          /\ u.refcount = h.refcount /\ u.uncounted = h.uncounted /\ u.aborted = h.aborted
          /\ ~u.linked[i] /\ \A x \in Items : x # i => (u.linked[x] <=> h.linked[x])
          /\ \A x \in Items : x \in u.free <=> x \in h.free \/ (x = i /\ h.linked[i] /\ h.refcount[i] = 0)
          /\ \A x \in Items : x \notin u.free => u.key[x] = h.key[x]
          /\ h.linked[i] => u.assoc[h.key[i]] = NULL
      BY ONLY Good(h, now), now \in Nat, <2>1, UnlinkStep
    <3> HIDE DEF u
    <3>3. \A x \in Items : Aside(h, x) => Aside(u, x) /\ x # NULL /\ u.key[x] = h.key[x]
      BY ONLY <1>n, <2>1, <3>2 DEF Aside
    <3>4. Got(h, u, NULL, k, now)
      BY ONLY <2>1, <3>2, <3>3 DEF Got
    <3> QED BY ONLY <3>1, <3>4 DEF r
  <2>4. CASE r = [h |-> g, it |-> i]
    <3>1. r.h = g /\ r.it = i
      BY <2>4
    <3>n. i \notin h.free
      BY <1>0, <2>1 DEF FreeUnused
    <3>m. i # NULL
      BY <1>2
    <3> HIDE DEF i, r
    <3>2. /\ Step(h, g, now)
          /\ g.linked = h.linked /\ g.free = h.free /\ g.key = h.key /\ g.assoc = h.assoc
          /\ g.aborted = h.aborted
          /\ \A x \in Items : x # i => g.refcount[x] = h.refcount[x]
          /\ ~g.uncounted => g.refcount[i] = h.refcount[i] + 1
      BY ONLY Good(h, now), <2>1, AddRefStep
    <3> HIDE DEF g
    <3>3. \A x \in Items : Aside(h, x) => Aside(g, x) /\ x # i /\ g.key[x] = h.key[x]
      BY ONLY <2>1, <3>2 DEF Aside
    <3>4. Got(h, g, i, k, now)
      BY ONLY <2>1, <3>2, <3>3, <3>n, <3>m DEF Got
    <3> QED BY ONLY <3>1, <3>4 DEF r
  <2> QED BY <2>2, <2>3, <2>4
<1> QED BY <1>1, <1>2

(* do_item_flush_expired *)

LEMMA FlushReachRange ==
  ASSUME NEW h \in CacheType, NEW live \in Nat
  PROVE  FlushReach(h, live) \in 0 .. Len(h.lru)
<1> DEFINE P(n) == /\ \A j \in 1 .. n : h.time[h.lru[j]] >= live
                   /\ n < Len(h.lru) => h.time[h.lru[n + 1]] < live
           S == {n \in 0 .. Len(h.lru) : n < Len(h.lru) => h.time[h.lru[n + 1]] < live}
<1>0. DOMAIN h.lru = 1 .. Len(h.lru) /\ Len(h.lru) \in Nat
      /\ \A j \in 1 .. Len(h.lru) : h.time[h.lru[j]] \in Nat
  <2>1. DOMAIN h.lru = 1 .. Len(h.lru) /\ Len(h.lru) \in Nat
        /\ \A j \in 1 .. Len(h.lru) : h.lru[j] \in Items
    BY FieldTypes, Positions
  <2> QED BY <2>1, FieldTypes
<1>1. S \in SUBSET Nat /\ Len(h.lru) \in S
  BY <1>0
<1>2. PICK n \in S : \A m \in S : n <= m
  <2> HIDE DEF S
  <2>1. S # {}
    BY <1>1
  <2> QED BY <1>1, <2>1, SmallestNumber
<1>3. n \in 0 .. Len(h.lru) /\ (n < Len(h.lru) => h.time[h.lru[n + 1]] < live)
  OBVIOUS
<1>4. ASSUME NEW j \in 1 .. n PROVE h.time[h.lru[j]] >= live
  <2>1. j - 1 \in 0 .. Len(h.lru) /\ j - 1 < n /\ j - 1 < Len(h.lru) /\ j - 1 + 1 = j /\ j \in 1 .. Len(h.lru)
    BY ONLY <1>0, <1>3, <1>4
  <2>2. j - 1 \notin S
    BY ONLY <1>1, <1>2, <2>1
  <2>3. ~(h.time[h.lru[j - 1 + 1]] < live)
    BY <2>1, <2>2
  <2>4. ~(h.time[h.lru[j]] < live) /\ h.time[h.lru[j]] \in Nat
    BY ONLY <1>0, <2>1, <2>3
  <2> DEFINE t == h.time[h.lru[j]]
  <2> HIDE DEF t
  <2>5. ~(t < live) /\ t \in Nat
    BY ONLY <2>4 DEF t
  <2>6. t >= live
    BY ONLY <2>5, live \in Nat
  <2> QED BY <2>6 DEF t
<1>5. n \in 0 .. Len(h.lru) /\ P(n)
  BY <1>3, <1>4
<1> HIDE DEF P
<1>6. (CHOOSE m \in 0 .. Len(h.lru) : P(m)) \in 0 .. Len(h.lru)
  BY <1>5
<1> QED BY <1>6 DEF FlushReach, P

\* The queue after its first n items.
DropFirst(q, n) == [j \in 1 .. Len(q) - n |-> q[j + n]]

\* The cache without the linked items of S, which are gone from the queue.
Cut(h, Q, S) ==
  [h EXCEPT !.lru = Q, !.linked = [i \in Items |-> @[i] /\ i \notin S],
            !.assoc = [k \in Keys |-> IF @[k] \in S THEN NULL ELSE @[k]]]

LEMMA CutFields ==
  ASSUME NEW h \in CacheType, NEW Q \in Queue, NEW S
  PROVE  LET c == Cut(h, Q, S) IN
         /\ c \in CacheType /\ c.lru = Q
         /\ \A x \in Items : c.linked[x] <=> h.linked[x] /\ x \notin S
         /\ \A k \in Keys : h.assoc[k] \in S => c.assoc[k] = NULL
         /\ \A k \in Keys : h.assoc[k] \notin S => c.assoc[k] = h.assoc[k]
         /\ c.free = h.free /\ c.refcount = h.refcount /\ c.key = h.key /\ c.val = h.val
         /\ c.time = h.time /\ c.cas = h.cas /\ c.cas_id = h.cas_id
         /\ c.uncounted = h.uncounted /\ c.aborted = h.aborted
<1> DEFINE L == [i \in Items |-> h.linked[i] /\ i \notin S]
           A == [k \in Keys |-> IF h.assoc[k] \in S THEN NULL ELSE h.assoc[k]]
           c == Cut(h, Q, S)
<1>1. L \in [Items -> BOOLEAN] /\ A \in [Keys -> Items \cup {NULL}]
  BY FieldTypes
<1>2. /\ \A x \in Items : L[x] <=> h.linked[x] /\ x \notin S
      /\ \A k \in Keys : h.assoc[k] \in S => A[k] = NULL
      /\ \A k \in Keys : h.assoc[k] \notin S => A[k] = h.assoc[k]
  OBVIOUS
<1>3. c = [h EXCEPT !.lru = Q, !.linked = L, !.assoc = A]
  BY DEF Cut
<1> HIDE DEF L, A, c
<1>4. c \in CacheType /\ c.linked = L /\ c.assoc = A /\ c.lru = Q
  BY ONLY <1>1, <1>3, h \in CacheType, Q \in Queue DEF CacheType, Queue
<1>5. /\ c.free = h.free /\ c.refcount = h.refcount /\ c.key = h.key /\ c.val = h.val
      /\ c.time = h.time /\ c.cas = h.cas /\ c.cas_id = h.cas_id
      /\ c.uncounted = h.uncounted /\ c.aborted = h.aborted
  BY ONLY <1>3, h \in CacheType DEF CacheType
<1> QED BY ONLY <1>2, <1>4, <1>5 DEF c

LEMMA CutSound ==
  ASSUME NEW h, NEW now, Sound(h, now), NEW Q \in Queue, NEW S, Sub(Q, h.lru),
         \A x \in Items : Has(Q, x) <=> Has(h.lru, x) /\ x \notin S
  PROVE  LET c == Cut(h, Q, S) IN
         /\ Sound(c, now) /\ Evolves(h, c)
         /\ \A x \in Items : Needed(h, x) => Needed(c, x) \/ (x \in S /\ c.refcount[x] = 0)
<1> DEFINE c == Cut(h, Q, S)
<1>0. h \in CacheType
  BY DEF Sound
<1>1. /\ c \in CacheType /\ c.lru = Q
      /\ \A x \in Items : c.linked[x] <=> h.linked[x] /\ x \notin S
      /\ \A k \in Keys : h.assoc[k] \in S => c.assoc[k] = NULL
      /\ \A k \in Keys : h.assoc[k] \notin S => c.assoc[k] = h.assoc[k]
      /\ c.free = h.free /\ c.refcount = h.refcount /\ c.key = h.key /\ c.val = h.val
      /\ c.time = h.time /\ c.cas = h.cas /\ c.cas_id = h.cas_id
      /\ c.uncounted = h.uncounted /\ c.aborted = h.aborted
  BY ONLY <1>0, Q \in Queue, CutFields
<1> HIDE DEF c
<1>2. /\ h.assoc \in [Keys -> Items \cup {NULL}] /\ h.cas_id \in Nat /\ h.lru \in Queue
      /\ h.free \in SUBSET Items /\ h.refcount \in [Items -> Nat]
  BY <1>0, FieldTypes
<1>3. Tabled(h) /\ InQueue(h) /\ FreeUnused(h) /\ Sorted(h, now) /\ Numbered(h)
  BY DEF Sound
<1>4. Tabled(c)
  <2>1. ASSUME NEW x \in Items, c.linked[x] PROVE c.key[x] \in Keys /\ c.assoc[c.key[x]] = x
    <3>1. h.key[x] \in Keys /\ h.assoc[h.key[x]] = x /\ x \notin S
      BY ONLY <1>1, <1>3, <2>1 DEF Tabled
    <3> QED BY ONLY <1>1, <3>1
  <2>2. ASSUME NEW k \in Keys, c.assoc[k] # NULL PROVE c.linked[c.assoc[k]] /\ c.key[c.assoc[k]] = k
    <3>1. h.assoc[k] \notin S /\ c.assoc[k] = h.assoc[k]
      BY ONLY <1>1, <2>2
    <3>2. h.linked[h.assoc[k]] /\ h.key[h.assoc[k]] = k /\ h.assoc[k] \in Items
      BY ONLY <1>2, <1>3, <2>2, <3>1 DEF Tabled
    <3> QED BY ONLY <1>1, <3>1, <3>2
  <2> QED BY <2>1, <2>2 DEF Tabled
<1>5. InQueue(c)
  <2>1. Distinct(Q)
    BY ONLY <1>2, <1>3, Q \in Queue, Sub(Q, h.lru), SubDistinct DEF InQueue
  <2> QED BY ONLY <1>1, <1>3, <2>1, \A x \in Items : Has(Q, x) <=> Has(h.lru, x) /\ x \notin S DEF InQueue
<1>6. FreeUnused(c)
  BY ONLY <1>1, <1>2, <1>3 DEF FreeUnused
<1>7. Sorted(c, now)
  <2>1. SortedBy(Q, h.time)
    BY ONLY <1>2, <1>3, Q \in Queue, Sub(Q, h.lru), SubSorted DEF Sorted
  <2> QED BY ONLY <1>1, <1>3, <2>1 DEF Sorted
<1>8. Numbered(c)
  BY ONLY <1>1, <1>3 DEF Numbered
<1>9. Evolves(h, c)
  BY ONLY <1>1, <1>2 DEF Evolves
<1>10. \A x \in Items : Needed(h, x) => Needed(c, x) \/ (x \in S /\ c.refcount[x] = 0)
  BY ONLY <1>1, <1>2 DEF Needed
<1> QED BY ONLY <1>1, <1>4, <1>5, <1>6, <1>7, <1>8, <1>9, <1>10 DEF Sound, c

LEMMA FlushStep ==
  ASSUME NEW h, NEW now \in Nat, Good(h, now), NEW live \in Nat
  PROVE  LET c == do_item_flush_expired(h, live) IN
         /\ Step(h, c, now)
         /\ c.refcount = h.refcount /\ c.uncounted = h.uncounted /\ c.aborted = h.aborted
         /\ \A x \in Items : Aside(h, x) => Aside(c, x)
         /\ \A x \in Items : x \notin h.free /\ h.refcount[x] > 0 => x \notin c.free
<1> DEFINE c == do_item_flush_expired(h, live)
           n == FlushReach(h, live)
           Q == DropFirst(h.lru, n)
           S == {h.lru[j] : j \in 1 .. n}
           g == Cut(h, Q, S)
           Z == {i \in S : h.refcount[i] = 0}
<1>0. h \in CacheType /\ Sound(h, now) /\ InQueue(h) /\ \A x \in Items : Needed(h, x)
  BY DEF Good, Sound
<1>1. CASE live = 0
  <2>1. c = h
    BY <1>1 DEF do_item_flush_expired
  <2>2. Step(h, h, now)
    BY StepNone
  <2> HIDE DEF c
  <2> QED BY ONLY <2>1, <2>2 DEF c
<1>2. CASE live # 0
  <2>1. c = FreeItems(g, Z)
    BY <1>2 DEF do_item_flush_expired, Cut, DropFirst
  <2>2. n \in 0 .. Len(h.lru) /\ h.lru \in Queue /\ Distinct(h.lru)
    BY <1>0, FieldTypes, FlushReachRange DEF InQueue
  <2> HIDE DEF n
  <2>3. /\ Q \in Queue /\ Sub(Q, h.lru)
        /\ \A x : Has(Q, x) => Has(h.lru, x)
        /\ \A j \in DOMAIN h.lru : j > n => Has(Q, h.lru[j])
        /\ \A j \in 1 .. n : ~Has(Q, h.lru[j])
    BY <2>2, Dropped DEF DropFirst
  <2>4. Len(h.lru) \in Nat /\ DOMAIN h.lru = 1 .. Len(h.lru) /\ \A j \in DOMAIN h.lru : h.lru[j] \in Items
    BY <2>2, Positions
  <2>5. \A j \in DOMAIN h.lru : j \in 1 .. n \/ j > n
    BY ONLY <2>2, <2>4
  <2>6. \A x \in Items : Has(Q, x) <=> Has(h.lru, x) /\ x \notin S
    <3> HIDE DEF Q
    <3>1. ASSUME NEW x \in Items, Has(Q, x) PROVE Has(h.lru, x) /\ x \notin S
      BY <2>3, <3>1
    <3>2. ASSUME NEW x \in Items, Has(h.lru, x), x \notin S PROVE Has(Q, x)
      <4>1. PICK j \in DOMAIN h.lru : h.lru[j] = x
        BY <3>2 DEF Has
      <4>2. j \notin 1 .. n
        BY <3>2, <4>1
      <4> QED BY ONLY <2>3, <2>5, <4>1, <4>2
    <3> QED BY <3>1, <3>2
  <2>7. S \subseteq Items /\ \A x \in S : h.linked[x]
    <3>1. \A j \in 1 .. n : j \in DOMAIN h.lru
      BY ONLY <2>2, <2>4
    <3>2. \A j \in 1 .. n : h.lru[j] \in Items /\ Has(h.lru, h.lru[j])
      BY <2>4, <3>1 DEF Has
    <3> QED BY <1>0, <3>2 DEF InQueue
  <2>8. Z \in SUBSET Items /\ (\A x \in Items : x \in Z <=> x \in S /\ h.refcount[x] = 0) /\ \A x \in Z : x \in S
    BY <2>7
  <2> HIDE DEF Q, S, Z
  <2>9. /\ Sound(g, now) /\ Evolves(h, g)
        /\ \A x \in Items : Needed(h, x) => Needed(g, x) \/ (x \in S /\ g.refcount[x] = 0)
    BY ONLY <1>0, <2>3, <2>6, CutSound
  <2>10. /\ g \in CacheType
         /\ \A x \in Items : g.linked[x] <=> h.linked[x] /\ x \notin S
         /\ g.free = h.free /\ g.refcount = h.refcount
         /\ g.uncounted = h.uncounted /\ g.aborted = h.aborted
    BY ONLY <1>0, <2>3, CutFields
  <2> HIDE DEF g, c
  <2>11. \A x \in Z : ~g.linked[x] /\ g.refcount[x] = 0
    BY ONLY <2>8, <2>10
  <2>12. /\ Sound(c, now) /\ Evolves(g, c)
         /\ \A x \in Items : Needed(c, x) <=> Needed(g, x) \/ x \in Z
    BY ONLY <2>1, <2>8, <2>9, <2>11, now \in Nat, FreeSound
  <2>13. /\ \A x \in Items : x \in c.free <=> x \in g.free \/ x \in Z
         /\ c.linked = g.linked /\ c.refcount = g.refcount /\ c \in CacheType
         /\ c.uncounted = g.uncounted /\ c.aborted = g.aborted
    BY ONLY <2>1, <2>8, <2>10, FreeFields
  <2>14. Good(c, now)
    BY ONLY <1>0, <2>8, <2>9, <2>10, <2>12 DEF Good
  <2>15. Evolves(h, c)
    BY ONLY <1>0, <2>9, <2>10, <2>12, <2>13, EvolvesOn
  <2>16. Step(h, c, now)
    BY ONLY <2>10, <2>13, <2>14, <2>15 DEF Step
  <2>17. \A x \in Items : Aside(h, x) => Aside(c, x)
    BY ONLY <2>7, <2>8, <2>10, <2>13 DEF Aside
  <2>18. \A x \in Items : x \notin h.free /\ h.refcount[x] > 0 => x \notin c.free
    BY ONLY <2>8, <2>10, <2>13
  <2> QED BY ONLY <2>10, <2>13, <2>16, <2>17, <2>18 DEF c
<1> QED BY <1>1, <1>2


(* Storing *)

\* process_update_command writes the CAS id the client sent into its new item.
SetCas(h, i, u) == [h EXCEPT !.cas[i] = u]

LEMMA CasStep ==
  ASSUME NEW h, NEW now, Good(h, now), NEW i \in Items, ~h.linked[i], NEW u \in Nat
  PROVE  LET c == SetCas(h, i, u) IN
         /\ Step(h, c, now)
         /\ c.linked = h.linked /\ c.free = h.free /\ c.refcount = h.refcount
         /\ c.key = h.key /\ c.uncounted = h.uncounted /\ c.aborted = h.aborted
<1> DEFINE C == [h.cas EXCEPT ![i] = u]
           c == SetCas(h, i, u)
<1>0. h \in CacheType /\ Sound(h, now) /\ \A x \in Items : Needed(h, x)
  BY DEF Good, Sound
<1>1. C \in [Items -> Nat] /\ \A x \in Items : x # i => C[x] = h.cas[x]
  BY <1>0, FieldTypes
<1>2. c = [h EXCEPT !.cas = C]
  BY DEF SetCas
<1> HIDE DEF C, c
<1>3. c \in CacheType /\ c.cas = C
  BY ONLY <1>0, <1>1, <1>2 DEF CacheType
<1>4. /\ c.linked = h.linked /\ c.time = h.time /\ c.assoc = h.assoc /\ c.cas_id = h.cas_id
      /\ c.lru = h.lru /\ c.free = h.free /\ c.refcount = h.refcount
      /\ c.key = h.key /\ c.val = h.val /\ c.uncounted = h.uncounted /\ c.aborted = h.aborted
  BY ONLY <1>0, <1>2 DEF CacheType
<1>5. Tabled(h) /\ InQueue(h) /\ FreeUnused(h) /\ Sorted(h, now) /\ Numbered(h)
  BY <1>0 DEF Sound
<1>6. Tabled(c) /\ InQueue(c) /\ FreeUnused(c) /\ Sorted(c, now)
  BY ONLY <1>4, <1>5 DEF Tabled, InQueue, FreeUnused, Sorted
<1>7. Numbered(c)
  BY ONLY <1>1, <1>3, <1>4, <1>5, ~h.linked[i] DEF Numbered
<1>8. Evolves(h, c)
  <2>1. \A k \in Keys : h.assoc[k] # NULL => h.assoc[k] \in Items /\ h.assoc[k] # i
    BY <1>0, <1>5, FieldTypes DEF Tabled
  <2>2. h.cas_id \in Nat
    BY <1>0, FieldTypes
  <2> QED BY ONLY <1>1, <1>3, <1>4, <2>1, <2>2 DEF Evolves
<1>9. \A x \in Items : Needed(c, x)
  BY ONLY <1>0, <1>4 DEF Needed
<1>10. Good(c, now)
  BY ONLY <1>3, <1>6, <1>7, <1>9 DEF Good, Sound
<1>11. Step(h, c, now)
  BY ONLY <1>4, <1>8, <1>10 DEF Step
<1> QED BY ONLY <1>4, <1>11 DEF c

\* A number has at least one digit.
LEMMA WidthNat ==
  ASSUME NEW v
  PROVE  Width(v) \in Nat
<1> DEFINE D == {w \in 1 .. MaxDigits - 1 : v >= 10 ^ w}
           last == MaxDigits - 1
           one == 1
<1>1. last \in Int /\ one \in Int
  BY DeltaAssumption
<1>2. IsFiniteSet(one .. last)
  <2> HIDE DEF last, one
  <2> QED BY <1>1, FS_Interval
<1>3. IsFiniteSet(D)
  <2>1. D \subseteq one .. last
    OBVIOUS
  <2> HIDE DEF D, last, one
  <2> QED BY <1>2, <2>1, FS_Subset
<1>4. Cardinality(D) \in Nat
  <2> HIDE DEF D
  <2> QED BY <1>3, FS_CardinalityType
<1>5. Width(v) = 1 + Cardinality(D)
  BY DEF Width
<1> HIDE DEF D
<1> QED BY ONLY <1>4, <1>5

\* Two values one after the other are a value.
LEMMA JoinedInt ==
  ASSUME NEW h \in CacheType, NEW i \in Items, NEW j \in Items
  PROVE  Joined(h, i, j) \in Int
<1> DEFINE n == Width(h.val[j])
           p == 10 ^ n
           v == h.val[i]
           w == h.val[j]
<1>1. v \in Int /\ w \in Int
  BY FieldTypes
<1>2. n \in Nat
  BY WidthNat
<1>3. p \in Int
  <2> HIDE DEF n
  <2> QED BY <1>2
<1>4. Joined(h, i, j) = v \/ Joined(h, i, j) = v * p + w
  BY DEF Joined
<1> HIDE DEF v, p, w
<1> QED BY ONLY <1>1, <1>3, <1>4

(* do_store_item *)

\* What an outcome of do_store_item is, for an item that is aside.
Stored(h, c, new, now) ==
  /\ Step(h, c, now) /\ Spares(h, c, new)
  /\ ~h.aborted /\ ~c.uncounted => ~c.aborted
  /\ ~c.aborted /\ ~c.uncounted => \A x \in Items : c.refcount[x] = h.refcount[x]

LEMMA StepParts ==
  ASSUME NEW h, NEW c, NEW now, Step(h, c, now)
  PROVE  /\ Good(c, now) /\ (h.aborted => c.aborted) /\ (h.uncounted => c.uncounted)
         /\ \A i \in Items : c.refcount[i] \in Nat
<1>1. Good(c, now) /\ (h.aborted => c.aborted) /\ (h.uncounted => c.uncounted)
  BY DEF Step
<1>2. c \in CacheType
  BY <1>1 DEF Good, Sound
<1> QED BY <1>1, <1>2, FieldTypes

LEMMA RemoveSpares ==
  ASSUME NEW h, NEW c, NEW i, NEW n, c.linked = h.linked,
         \A x \in Items : x \in c.free => x \in h.free \/ (x = i /\ ~h.linked[i]),
         \A x \in Items : x \notin c.free => c.key[x] = h.key[x],
         h.linked[i] \/ i = n
  PROVE  Spares(h, c, n)
BY DEF Spares, Aside

\* The reference do_item_get took on the old item is given back.
LEMMA GiveBack ==
  ASSUME NEW h, NEW g, NEW d, NEW now \in Nat, Good(h, now), NEW old \in Items, NEW k,
         NEW new \in Items, Got(h, g, old, k, now), old # NULL,
         Step(g, d, now), Spares(g, d, new),
         ~d.uncounted => \A x \in Items : d.refcount[x] = g.refcount[x],
         ~g.aborted /\ ~d.uncounted => ~d.aborted /\ old \notin d.free
  PROVE  Stored(h, do_item_remove(d, old), new, now)
<1> DEFINE c == do_item_remove(d, old)
<1>1. /\ Step(h, g, now) /\ g.aborted = h.aborted
      /\ \A x \in Items : Aside(h, x) => Aside(g, x) /\ x # old /\ g.key[x] = h.key[x]
      /\ \A x \in Items : x # old => g.refcount[x] = h.refcount[x]
      /\ ~g.uncounted => g.refcount[old] = h.refcount[old] + 1
  BY DEF Got
<1>2. Good(d, now) /\ (g.uncounted => d.uncounted)
  BY StepParts
<1>3. /\ Step(d, c, now)
      /\ c.uncounted = d.uncounted /\ c.linked = d.linked
      /\ c.aborted <=> d.aborted \/ old \in d.free
      /\ \A x \in Items : x # old => c.refcount[x] = d.refcount[x]
      /\ old \notin d.free /\ d.refcount[old] # 0 => c.refcount[old] = d.refcount[old] - 1
      /\ \A x \in Items : x \in c.free => x \in d.free \/ (x = old /\ ~d.linked[old] /\ c.refcount[old] = 0)
      /\ \A x \in Items : x \notin c.free => c.key[x] = d.key[x]
  BY ONLY <1>2, now \in Nat, old \in Items, RemoveStep
<1> HIDE DEF c
<1>4. h.refcount[old] \in Nat
  BY FieldTypes DEF Good, Sound
<1>5. Step(h, c, now)
  BY ONLY Good(h, now), <1>1, Step(g, d, now), <1>3, StepOn
<1>6. Spares(h, c, new)
  BY ONLY <1>1, <1>3, Spares(g, d, new) DEF Spares, Aside
<1>7. ~h.aborted /\ ~c.uncounted => ~c.aborted
  BY ONLY <1>1, <1>3, ~g.aborted /\ ~d.uncounted => ~d.aborted /\ old \notin d.free
<1>8. ASSUME ~c.aborted, ~c.uncounted PROVE \A x \in Items : c.refcount[x] = h.refcount[x]
  <2>1. ~d.uncounted /\ ~g.uncounted /\ old \notin d.free
    BY ONLY <1>2, <1>3, <1>8
  <2>2. \A x \in Items : d.refcount[x] = g.refcount[x]
    BY ONLY <2>1, ~d.uncounted => \A x \in Items : d.refcount[x] = g.refcount[x]
  <2>3. d.refcount[old] = h.refcount[old] + 1
    BY ONLY <1>1, <2>1, <2>2, old \in Items
  <2>4. c.refcount[old] = h.refcount[old]
    BY ONLY <1>3, <1>4, <2>1, <2>3
  <2> QED BY ONLY <1>1, <1>3, <2>2, <2>4
<1> QED BY ONLY <1>5, <1>6, <1>7, <1>8 DEF Stored, c

\* Nothing is done about an item that is not there.
LEMMA MissStored ==
  ASSUME NEW h, NEW g, NEW now, NEW k, NEW new, Got(h, g, NULL, k, now)
  PROVE  Stored(h, g, new, now)
<1>1. /\ Step(h, g, now) /\ g.aborted = h.aborted /\ g.refcount = h.refcount
      /\ \A x \in Items : Aside(h, x) => Aside(g, x) /\ g.key[x] = h.key[x]
  BY DEF Got
<1> QED BY ONLY <1>1 DEF Stored, Spares

LEMMA NewStored ==
  ASSUME NEW h, NEW g, NEW now \in Nat, NEW k, NEW new \in Items, Good(h, now),
         Got(h, g, NULL, k, now), Aside(h, new), h.key[new] = k
  PROVE  Stored(h, do_item_link(g, new, now), new, now)
<1> DEFINE c == do_item_link(g, new, now)
<1>1. /\ Step(h, g, now) /\ g.aborted = h.aborted /\ g.refcount = h.refcount
      /\ \A x \in Items : Aside(h, x) => Aside(g, x) /\ g.key[x] = h.key[x]
      /\ g.assoc[k] = NULL
  BY DEF Got
<1>2. Good(g, now)
  BY <1>1, StepParts
<1>3. /\ Step(g, c, now)
      /\ c.refcount = g.refcount /\ c.free = g.free /\ c.uncounted = g.uncounted
      /\ c.key = g.key
      /\ \A x \in Items : x # new => (c.linked[x] <=> g.linked[x])
      /\ ~g.linked[new] /\ new \notin g.free /\ g.assoc[g.key[new]] = NULL /\ ~g.aborted => ~c.aborted
  BY ONLY <1>2, now \in Nat, new \in Items, LinkStep
<1> HIDE DEF c
<1>4. Step(h, c, now)
  BY ONLY Good(h, now), <1>1, <1>3, StepOn
<1>5. Spares(h, c, new)
  BY ONLY <1>1, <1>3 DEF Spares, Aside
<1>6. ~g.linked[new] /\ new \notin g.free /\ g.assoc[g.key[new]] = NULL
  BY ONLY <1>1, Aside(h, new), h.key[new] = k, new \in Items DEF Aside
<1> QED BY ONLY <1>1, <1>3, <1>4, <1>5, <1>6 DEF Stored, c

\* The old item is moved up only, or left alone.
LEMMA UpdateStored ==
  ASSUME NEW h, NEW g, NEW now \in Nat, NEW k, NEW new \in Items, NEW old \in Items, Good(h, now),
         Got(h, g, old, k, now), old # NULL
  PROVE  /\ Stored(h, do_item_remove(g, old), new, now)
         /\ Stored(h, do_item_remove(do_item_update(g, old, now), old), new, now)
<1> DEFINE d == do_item_update(g, old, now)
<1>1. Step(h, g, now) /\ old \notin g.free
  BY DEF Got
<1>2. Good(g, now)
  BY <1>1, StepParts
<1>3. Step(g, g, now)
  BY <1>2, StepNone
<1>4. Spares(g, g, new)
  BY DEF Spares
<1>5. Stored(h, do_item_remove(g, old), new, now)
  BY <1>1, <1>3, <1>4, GiveBack
<1>6. /\ Step(g, d, now)
      /\ d.refcount = g.refcount /\ d.free = g.free /\ d.uncounted = g.uncounted
      /\ d.linked = g.linked /\ d.key = g.key
      /\ old \notin g.free => d.aborted = g.aborted
  BY ONLY <1>2, now \in Nat, old \in Items, UpdateStep
<1> HIDE DEF d
<1>7. Spares(g, d, new)
  BY ONLY <1>6 DEF Spares, Aside
<1>8. Stored(h, do_item_remove(d, old), new, now)
  BY <1>1, <1>6, <1>7, GiveBack
<1> QED BY ONLY <1>5, <1>8 DEF d

LEMMA ReplaceStored ==
  ASSUME NEW h, NEW g, NEW now \in Nat, NEW k, NEW new \in Items, NEW old \in Items, Good(h, now),
         Got(h, g, old, k, now), old # NULL, Aside(h, new), h.key[new] = k
  PROVE  Stored(h, do_item_remove(do_item_replace(g, old, new, now), old), new, now)
<1> DEFINE d == do_item_replace(g, old, new, now)
<1>1. /\ Step(h, g, now) /\ g.linked[old] /\ old \notin g.free /\ g.key[old] = k
      /\ Aside(g, new) /\ new # old /\ g.key[new] = k
      /\ ~g.uncounted => g.refcount[old] = h.refcount[old] + 1
  BY DEF Got
<1>2. Good(g, now)
  BY <1>1, StepParts
<1>3. /\ Step(g, d, now) /\ Spares(g, d, new)
      /\ d.refcount = g.refcount /\ d.uncounted = g.uncounted
      /\ \A x \in Items : x \in d.free => x \in g.free \/ (x = old /\ g.refcount[old] = 0)
      /\ ~g.aborted /\ g.linked[old] /\ new # old /\ Aside(g, new) /\ g.key[new] = g.key[old] => ~d.aborted
  BY ONLY <1>2, now \in Nat, old \in Items, new \in Items, ReplaceStep
<1> HIDE DEF d
<1>4. h.refcount[old] \in Nat
  BY FieldTypes DEF Good, Sound
<1>5. ~g.aborted /\ ~d.uncounted => ~d.aborted /\ old \notin d.free
  BY ONLY <1>1, <1>3, <1>4, old \in Items
<1>6. Stored(h, do_item_remove(d, old), new, now)
  BY <1>3, <1>5, GiveBack
<1> QED BY ONLY <1>6 DEF d

\* No chunk for the two values together.
LEMMA NoRoomStored ==
  ASSUME NEW h, NEW g, NEW d, NEW now \in Nat, NEW k, NEW new \in Items, NEW old \in Items,
         Good(h, now), Got(h, g, old, k, now), old # NULL, Allocated(g, d, NULL, k, now)
  PROVE  Stored(h, do_item_remove(d, old), new, now)
<1>1. /\ Step(h, g, now) /\ old \notin g.free
      /\ ~g.uncounted => g.refcount[old] = h.refcount[old] + 1
  BY DEF Got
<1>2. /\ Step(g, d, now) /\ d.aborted = g.aborted
      /\ \A x \in Items : Aside(g, x) => Aside(d, x) /\ d.key[x] = g.key[x]
      /\ ~d.uncounted =>
           /\ \A x \in Items : x # NULL => d.refcount[x] = g.refcount[x]
           /\ \A x \in Items : g.refcount[x] > 0 /\ x \notin g.free => x \notin d.free
  BY DEF Allocated
<1>3. NULL \notin Items
  BY CacheAssumption
<1>4. h.refcount[old] \in Nat /\ (g.uncounted => d.uncounted)
  BY <1>2, StepParts, FieldTypes DEF Good, Sound
<1>5. Spares(g, d, new)
  BY ONLY <1>2 DEF Spares
<1>6. ~d.uncounted => \A x \in Items : d.refcount[x] = g.refcount[x]
  BY ONLY <1>2, <1>3
<1>7. ~g.aborted /\ ~d.uncounted => ~d.aborted /\ old \notin d.free
  BY ONLY <1>1, <1>2, <1>4, old \in Items
<1> QED BY <1>2, <1>5, <1>6, <1>7, GiveBack

\* A new item for the two values takes the place of the old one.
LEMMA JoinStored ==
  ASSUME NEW h, NEW g, NEW a, NEW now \in Nat, NEW k, NEW new \in Items, NEW old \in Items,
         NEW it \in Items, Good(h, now), Got(h, g, old, k, now), old # NULL,
         Allocated(g, a, it, k, now), it # NULL
  PROVE  Stored(h, do_item_remove(do_item_remove(do_item_replace(a, old, it, now), old), it),
                new, now)
<1> DEFINE d == do_item_replace(a, old, it, now)
           e == do_item_remove(d, old)
           c == do_item_remove(e, it)
<1>n. h.refcount[old] \in Nat
  BY FieldTypes DEF Good, Sound
<1>1. /\ Step(h, g, now) /\ g.aborted = h.aborted /\ g.linked[old] /\ old \notin g.free /\ g.key[old] = k
      /\ \A x \in Items : Aside(h, x) => Aside(g, x) /\ x # old /\ g.key[x] = h.key[x]
      /\ \A x \in Items : x # old => g.refcount[x] = h.refcount[x]
      /\ ~g.uncounted => g.refcount[old] = h.refcount[old] + 1
  BY DEF Got
<1>2. /\ Step(g, a, now) /\ a.aborted = g.aborted
      /\ \A x \in Items : Aside(g, x) => Aside(a, x) /\ x # it /\ a.key[x] = g.key[x]
      /\ Aside(a, it) /\ a.refcount[it] = 1 /\ a.key[it] = k
      /\ ~a.uncounted =>
           /\ g.refcount[it] = 0
           /\ \A x \in Items : x # it => a.refcount[x] = g.refcount[x]
           /\ \A x \in Items : g.refcount[x] > 0 =>
                /\ a.linked[x] <=> g.linked[x]
                /\ x \notin g.free => x \notin a.free /\ a.key[x] = g.key[x]
  BY DEF Allocated
<1>3. Good(a, now) /\ (g.uncounted => a.uncounted)
  BY <1>2, StepParts
<1>4. /\ Step(a, d, now) /\ Spares(a, d, it)
      /\ d.refcount = a.refcount /\ d.uncounted = a.uncounted
      /\ \A x \in Items : x \in d.free => x \in a.free \/ (x = old /\ a.refcount[old] = 0)
      /\ \A x \in Items : x \notin d.free => d.key[x] = a.key[x]
      /\ ~a.aborted /\ a.linked[old] /\ it # old /\ Aside(a, it) /\ a.key[it] = a.key[old] => ~d.aborted
  BY ONLY <1>3, now \in Nat, old \in Items, it \in Items, ReplaceStep
<1> HIDE DEF d
<1>5. Good(d, now)
  BY <1>4, StepParts
<1>6. /\ Step(d, e, now)
      /\ e.uncounted = d.uncounted /\ e.linked = d.linked
      /\ e.aborted <=> d.aborted \/ old \in d.free
      /\ \A x \in Items : x # old => e.refcount[x] = d.refcount[x]
      /\ old \notin d.free /\ d.refcount[old] # 0 => e.refcount[old] = d.refcount[old] - 1
      /\ \A x \in Items : x \in e.free => x \in d.free \/ (x = old /\ ~d.linked[old] /\ e.refcount[old] = 0)
      /\ \A x \in Items : x \notin e.free => e.key[x] = d.key[x]
  BY ONLY <1>5, now \in Nat, old \in Items, RemoveStep
<1> HIDE DEF e
<1>7. Good(e, now)
  BY <1>6, StepParts
<1>8. /\ Step(e, c, now)
      /\ c.uncounted = e.uncounted /\ c.linked = e.linked
      /\ c.aborted <=> e.aborted \/ it \in e.free
      /\ \A x \in Items : x # it => c.refcount[x] = e.refcount[x]
      /\ it \notin e.free /\ e.refcount[it] # 0 => c.refcount[it] = e.refcount[it] - 1
      /\ \A x \in Items : x \in c.free => x \in e.free \/ (x = it /\ ~e.linked[it] /\ c.refcount[it] = 0)
      /\ \A x \in Items : x \notin c.free => c.key[x] = e.key[x]
  BY ONLY <1>7, now \in Nat, it \in Items, RemoveStep
<1> HIDE DEF c
<1>9. Step(h, c, now)
  <2>1. Step(h, a, now)
    BY ONLY Good(h, now), <1>1, <1>2, StepOn
  <2>2. Step(h, d, now)
    BY ONLY Good(h, now), <2>1, <1>4, StepOn
  <2>3. Step(h, e, now)
    BY ONLY Good(h, now), <2>2, <1>6, StepOn
  <2> QED BY ONLY Good(h, now), <2>3, <1>8, StepOn
<1>10. Spares(h, c, new)
  <2>1. ASSUME NEW x \in Items, Aside(h, x) PROVE Aside(c, x) /\ c.key[x] = h.key[x]
    <3>1. Aside(a, x) /\ x # old /\ x # it /\ a.key[x] = h.key[x]
      BY ONLY <1>1, <1>2, <2>1
    <3>2. Aside(d, x)
      BY ONLY <1>4, <3>1 DEF Spares
    <3>3. Aside(c, x)
      BY ONLY <1>6, <1>8, <3>1, <3>2 DEF Aside
    <3> QED BY ONLY <1>4, <1>6, <1>8, <3>1, <3>2, <3>3 DEF Aside
  <2> QED BY <2>1 DEF Spares
<1>11. ASSUME ~c.uncounted
       PROVE  /\ ~g.uncounted /\ old # it /\ old \notin d.free /\ it \notin e.free
              /\ a.linked[old] /\ a.key[old] = k
              /\ d.refcount[old] = h.refcount[old] + 1 /\ e.refcount[it] = 1
  <2>1. ~d.uncounted /\ ~a.uncounted /\ ~g.uncounted
    BY ONLY <1>3, <1>4, <1>6, <1>8, <1>11
  <2>2. g.refcount[old] = h.refcount[old] + 1 /\ g.refcount[old] > 0 /\ old # it
    BY ONLY <1>n, <1>1, <1>2, <2>1
  <2>3. d.refcount[old] = h.refcount[old] + 1 /\ a.linked[old] /\ a.key[old] = k /\ old \notin a.free
    BY ONLY <1>1, <1>2, <1>4, <2>1, <2>2, old \in Items
  <2>4. old \notin d.free
    BY ONLY <1>n, <1>4, <2>3, old \in Items
  <2>5. it \notin e.free /\ e.refcount[it] = 1
    BY ONLY <1>2, <1>4, <1>6, <2>2, it \in Items DEF Aside
  <2> QED BY <2>1, <2>2, <2>3, <2>4, <2>5
<1>12. ~h.aborted /\ ~c.uncounted => ~c.aborted
  BY ONLY <1>1, <1>2, <1>4, <1>6, <1>8, <1>11
<1>13. ASSUME ~c.aborted, ~c.uncounted, NEW x \in Items PROVE c.refcount[x] = h.refcount[x]
  <2>1. CASE x = old
    BY ONLY <1>n, <1>6, <1>8, <1>11, <1>13, <2>1
  <2>2. CASE x = it
    <3>1. c.refcount[it] = 0
      BY ONLY <1>8, <1>11, <1>13
    <3>2. h.refcount[it] = 0
      BY ONLY <1>1, <1>2, <1>3, <1>4, <1>6, <1>8, <1>11, <1>13, it \in Items
    <3> QED BY <2>2, <3>1, <3>2
  <2>3. CASE x # old /\ x # it
    BY ONLY <1>1, <1>2, <1>3, <1>4, <1>6, <1>8, <1>11, <1>13, <2>3
  <2> QED BY <2>1, <2>2, <2>3
<1> QED BY ONLY <1>9, <1>10, <1>12, <1>13 DEF Stored, c, e, d

LEMMA CombineStored ==
  ASSUME NEW h, NEW g, NEW now \in Nat, NEW k \in Keys, NEW new \in Items, NEW old \in Items,
         Good(h, now), Got(h, g, old, k, now), old # NULL, Aside(h, new), h.key[new] = k,
         NEW comm, NEW o \in Combine(g, old, new, comm, now)
  PROVE  Stored(h, o.h, new, now) /\ o.ret \in {"STORED", "NOT_STORED"}
<1> DEFINE v == IF comm = "append" THEN Joined(g, old, new) ELSE Joined(g, new, old)
           e == g.exptime[old]
           nb == g.nbytes[new] + g.nbytes[old]
<1>1. Step(h, g, now) /\ g.key[new] = k
  BY DEF Got
<1>2. Good(g, now) /\ g \in CacheType
  BY <1>1, StepParts DEF Good, Sound
<1>3. v \in Int
  BY <1>2, JoinedInt
<1>4. e \in Nat /\ nb \in Nat
  BY <1>2, FieldTypes
<1>5. PICK a \in do_item_alloc(g, k, v, e, nb, now) :
        o = IF a.it = NULL THEN [h |-> do_item_remove(a.h, old), ret |-> "NOT_STORED"]
            ELSE [h |-> do_item_remove(do_item_remove(do_item_replace(a.h, old, a.it, now), old),
                                       a.it),
                  ret |-> "STORED"]
  BY <1>1 DEF Combine
<1> HIDE DEF v, e, nb
<1>6. Allocated(g, a.h, a.it, k, now)
  BY <1>2, <1>3, <1>4, <1>5, AllocOutcome
<1>7. CASE a.it = NULL
  <2>1. Stored(h, do_item_remove(a.h, old), new, now)
    BY <1>6, <1>7, NoRoomStored
  <2> QED BY <1>5, <1>7, <2>1
<1>8. CASE a.it # NULL
  <2>1. a.it \in Items
    BY <1>6, <1>8 DEF Allocated
  <2>2. Stored(h, do_item_remove(do_item_remove(do_item_replace(a.h, old, a.it, now), old), a.it),
               new, now)
    BY <1>6, <1>8, <2>1, JoinStored
  <2> QED BY <1>5, <1>8, <2>2
<1> QED BY <1>7, <1>8

Replies == {"STORED", "NOT_STORED", "EXISTS", "NOT_FOUND"}

\* The outcomes of do_store_item, as the calls it makes.
LEMMA StoreCases ==
  ASSUME NEW h, NEW new, NEW comm, NEW now, NEW live,
         NEW o \in do_store_item(h, new, comm, now, live)
  PROVE  LET r == do_item_get(h, h.key[new], now, live) IN
         \/ r.it = NULL /\ o.h = r.h /\ o.ret \in Replies
         \/ r.it = NULL /\ o.h = do_item_link(r.h, new, now) /\ o.ret \in Replies
         \/ r.it # NULL /\ o.h = do_item_remove(r.h, r.it) /\ o.ret \in Replies
         \/ r.it # NULL /\ o.h = do_item_remove(do_item_update(r.h, r.it, now), r.it) /\ o.ret \in Replies
         \/ r.it # NULL /\ o.h = do_item_remove(do_item_replace(r.h, r.it, new, now), r.it) /\ o.ret \in Replies
         \/ r.it # NULL /\ o \in Combine(r.h, r.it, new, comm, now)
<1> DEFINE r == do_item_get(h, h.key[new], now, live)
           old == r.it
           g == r.h
           SameCas == CasMatches(g, new, old)
           Done(d, ret) == {[h |-> Released(d, old), ret |-> ret]}
<1>1. o \in CASE comm = "add" /\ old # NULL -> Done(do_item_update(g, old, now), "NOT_STORED")
              [] comm \in {"replace", "append", "prepend"} /\ old = NULL -> Done(g, "NOT_STORED")
              [] comm = "cas" /\ old = NULL -> Done(g, "NOT_FOUND")
              [] comm = "cas" /\ old # NULL /\ ~SameCas -> Done(g, "EXISTS")
              [] comm \in {"append", "prepend"} /\ old # NULL ->
                   IF g.cas[new] # 0 /\ ~SameCas THEN Done(g, "EXISTS")
                   ELSE Combine(g, old, new, comm, now)
              [] OTHER -> Done(LinkOver(g, old, new, now), "STORED")
  BY DEF do_store_item
<1> HIDE DEF r
<1>2. \/ old # NULL /\ o \in Done(do_item_update(g, old, now), "NOT_STORED")
      \/ old = NULL /\ o \in Done(g, "NOT_STORED")
      \/ old = NULL /\ o \in Done(g, "NOT_FOUND")
      \/ old # NULL /\ o \in Done(g, "EXISTS")
      \/ old # NULL /\ o \in Combine(g, old, new, comm, now)
      \/ o \in Done(LinkOver(g, old, new, now), "STORED")
  <2> HIDE DEF Done, old, g, SameCas
  <2> QED BY <1>1
<1>3. ASSUME NEW d, NEW s \in Replies, o \in Done(d, s)
      PROVE  /\ o.ret \in Replies
             /\ old = NULL => o.h = d
             /\ old # NULL => o.h = do_item_remove(d, old)
  BY <1>3 DEF Released
<1>4. LinkOver(g, old, new, now) = IF old = NULL THEN do_item_link(g, new, now)
                                   ELSE do_item_replace(g, old, new, now)
  BY DEF LinkOver
<1> HIDE DEF Done, old, g
<1>5. "STORED" \in Replies /\ "NOT_STORED" \in Replies /\ "EXISTS" \in Replies /\ "NOT_FOUND" \in Replies
  BY DEF Replies
<1>6. \/ old = NULL /\ o.h = g /\ o.ret \in Replies
      \/ old = NULL /\ o.h = do_item_link(g, new, now) /\ o.ret \in Replies
      \/ old # NULL /\ o.h = do_item_remove(g, old) /\ o.ret \in Replies
      \/ old # NULL /\ o.h = do_item_remove(do_item_update(g, old, now), old) /\ o.ret \in Replies
      \/ old # NULL /\ o.h = do_item_remove(do_item_replace(g, old, new, now), old) /\ o.ret \in Replies
      \/ old # NULL /\ o \in Combine(g, old, new, comm, now)
  <2>1. CASE old # NULL /\ o \in Done(do_item_update(g, old, now), "NOT_STORED")
    BY ONLY <1>3, <1>5, <2>1
  <2>2. CASE old = NULL /\ o \in Done(g, "NOT_STORED")
    BY ONLY <1>3, <1>5, <2>2
  <2>3. CASE old = NULL /\ o \in Done(g, "NOT_FOUND")
    BY ONLY <1>3, <1>5, <2>3
  <2>4. CASE old # NULL /\ o \in Done(g, "EXISTS")
    BY ONLY <1>3, <1>5, <2>4
  <2>5. CASE old # NULL /\ o \in Combine(g, old, new, comm, now)
    BY ONLY <2>5
  <2>6. CASE o \in Done(LinkOver(g, old, new, now), "STORED")
    <3>1. CASE old = NULL
      <4>1. LinkOver(g, old, new, now) = do_item_link(g, new, now)
        BY <1>4, <3>1
      <4> QED BY ONLY <1>3, <1>5, <2>6, <3>1, <4>1
    <3>2. CASE old # NULL
      <4>1. LinkOver(g, old, new, now) = do_item_replace(g, old, new, now)
        BY <1>4, <3>2
      <4> QED BY ONLY <1>3, <1>5, <2>6, <3>2, <4>1
    <3> QED BY <3>1, <3>2
  <2> QED BY ONLY <1>2, <2>1, <2>2, <2>3, <2>4, <2>5, <2>6
<1> QED BY ONLY <1>6 DEF r, old, g

LEMMA StoreOutcome ==
  ASSUME NEW h, NEW now \in Nat, Good(h, now), NEW new \in Items, Aside(h, new),
         NEW comm, NEW live, NEW o \in do_store_item(h, new, comm, now, live)
  PROVE  Stored(h, o.h, new, now) /\ o.ret \in Replies
<1> DEFINE k == h.key[new]
           r == do_item_get(h, k, now, live)
           old == r.it
           g == r.h
<1>1. k \in Keys
  BY DEF Good, Sound, FreeUnused, Aside
<1>2. Got(h, g, old, k, now)
  BY <1>1, GetOutcome
<1>3. \/ old = NULL /\ o.h = g /\ o.ret \in Replies
      \/ old = NULL /\ o.h = do_item_link(g, new, now) /\ o.ret \in Replies
      \/ old # NULL /\ o.h = do_item_remove(g, old) /\ o.ret \in Replies
      \/ old # NULL /\ o.h = do_item_remove(do_item_update(g, old, now), old) /\ o.ret \in Replies
      \/ old # NULL /\ o.h = do_item_remove(do_item_replace(g, old, new, now), old) /\ o.ret \in Replies
      \/ old # NULL /\ o \in Combine(g, old, new, comm, now)
  BY StoreCases
<1>4. h.key[new] = k
  OBVIOUS
<1> HIDE DEF k, r, old, g
<1>5. CASE old = NULL
  <2>1. Got(h, g, NULL, k, now)
    BY <1>2, <1>5
  <2>2. Stored(h, g, new, now) /\ Stored(h, do_item_link(g, new, now), new, now)
    BY <1>4, <2>1, MissStored, NewStored
  <2> QED BY <1>3, <1>5, <2>2
<1>6. CASE old # NULL
  <2>1. old \in Items
    BY <1>2, <1>6 DEF Got
  <2>2. /\ Stored(h, do_item_remove(g, old), new, now)
        /\ Stored(h, do_item_remove(do_item_update(g, old, now), old), new, now)
    BY <1>2, <1>6, <2>1, UpdateStored
  <2>3. Stored(h, do_item_remove(do_item_replace(g, old, new, now), old), new, now)
    BY <1>2, <1>4, <1>6, <2>1, ReplaceStored
  <2>4. o \in Combine(g, old, new, comm, now) => Stored(h, o.h, new, now) /\ o.ret \in Replies
    <3>1. o \in Combine(g, old, new, comm, now) => Stored(h, o.h, new, now) /\ o.ret \in {"STORED", "NOT_STORED"}
      BY <1>1, <1>2, <1>4, <1>6, <2>1, CombineStored
    <3> QED BY <3>1 DEF Replies
  <2> QED BY <1>3, <1>6, <2>2, <2>3, <2>4
<1> QED BY <1>5, <1>6

(* do_add_delta *)

LEMMA DeltaInt ==
  ASSUME NEW v \in Int, NEW d \in Int
  PROVE  Incr(v, d) \in Int /\ Decr(v, d) \in Int
<1>1. Wrap \in Nat /\ Wrap # 0 /\ Wrap \div 2 \in Int
  BY DeltaAssumption
<1>2. Signed(d) \in Int
  BY <1>1 DEF Signed
<1> DEFINE s == Signed(d)
           t == v + s
           u == v - s
<1>3. t \in Int /\ u \in Int
  <2>1. s \in Int
    BY <1>2
  <2> HIDE DEF s
  <2> QED BY <2>1
<1>4. t % Wrap \in Int /\ u % Wrap \in Int
  <2> HIDE DEF t, u
  <2> QED BY ONLY <1>1, <1>3
<1>5. Incr(v, d) = t % Wrap /\ (Decr(v, d) = 0 \/ Decr(v, d) = u % Wrap)
  BY DEF Incr, Decr
<1> HIDE DEF t, u
<1> QED BY <1>4, <1>5

\* A value written in place.
Written(h, i, v) == [h EXCEPT !.cas_id = @ + 1, !.cas[i] = h.cas_id + 1, !.val[i] = v]

LEMMA WriteFields ==
  ASSUME NEW h \in CacheType, NEW i \in Items, NEW v \in Int
  PROVE  LET c == Written(h, i, v) IN
         /\ c \in CacheType
         /\ c.cas[i] = h.cas_id + 1 /\ \A x \in Items : x # i => c.cas[x] = h.cas[x]
         /\ \A x \in Items : x # i => c.val[x] = h.val[x]
         /\ c.cas_id = h.cas_id + 1
         /\ c.linked = h.linked /\ c.time = h.time /\ c.assoc = h.assoc /\ c.lru = h.lru
         /\ c.free = h.free /\ c.refcount = h.refcount /\ c.key = h.key
         /\ c.uncounted = h.uncounted /\ c.aborted = h.aborted
<1> DEFINE n == h.cas_id + 1
           C == [h.cas EXCEPT ![i] = h.cas_id + 1]
           V == [h.val EXCEPT ![i] = v]
           c == Written(h, i, v)
<1>1. /\ n \in Nat /\ C \in [Items -> Nat] /\ V \in [Items -> Int]
      /\ C[i] = h.cas_id + 1 /\ \A x \in Items : x # i => C[x] = h.cas[x]
      /\ \A x \in Items : x # i => V[x] = h.val[x]
  BY FieldTypes
<1>2. c = [h EXCEPT !.cas_id = n, !.cas = C, !.val = V]
  BY DEF Written
<1>3. n = h.cas_id + 1
  OBVIOUS
<1> HIDE DEF n, C, V, c
<1>4. c \in CacheType /\ c.cas_id = n /\ c.cas = C /\ c.val = V
  BY ONLY <1>1, <1>2, h \in CacheType DEF CacheType
<1>5. /\ c.linked = h.linked /\ c.time = h.time /\ c.assoc = h.assoc /\ c.lru = h.lru
      /\ c.free = h.free /\ c.refcount = h.refcount /\ c.key = h.key
      /\ c.uncounted = h.uncounted /\ c.aborted = h.aborted
  BY ONLY <1>2, h \in CacheType DEF CacheType
<1> QED BY ONLY <1>1, <1>3, <1>4, <1>5 DEF c

\* What an outcome of do_add_delta is.
Changed(h, c, now) ==
  /\ Step(h, c, now) /\ Spares(h, c, NULL)
  /\ ~c.aborted /\ ~c.uncounted => \A x \in Items : c.refcount[x] = h.refcount[x]

LEMMA WrittenChanged ==
  ASSUME NEW h, NEW now, Good(h, now), NEW i \in Items, NEW v \in Int
  PROVE  Changed(h, Written(h, i, v), now)
<1> DEFINE c == Written(h, i, v)
<1>0. h \in CacheType /\ Sound(h, now) /\ \A x \in Items : Needed(h, x)
  BY DEF Good, Sound
<1>1. /\ c \in CacheType
      /\ c.cas[i] = h.cas_id + 1 /\ \A x \in Items : x # i => c.cas[x] = h.cas[x]
      /\ \A x \in Items : x # i => c.val[x] = h.val[x]
      /\ c.cas_id = h.cas_id + 1
      /\ c.linked = h.linked /\ c.time = h.time /\ c.assoc = h.assoc /\ c.lru = h.lru
      /\ c.free = h.free /\ c.refcount = h.refcount /\ c.key = h.key
      /\ c.uncounted = h.uncounted /\ c.aborted = h.aborted
  BY ONLY <1>0, i \in Items, v \in Int, WriteFields
<1> HIDE DEF c
<1>2. Tabled(h) /\ InQueue(h) /\ FreeUnused(h) /\ Sorted(h, now) /\ Numbered(h)
  BY <1>0 DEF Sound
<1>3. Tabled(c) /\ InQueue(c) /\ FreeUnused(c) /\ Sorted(c, now) /\ \A x \in Items : Needed(c, x)
  BY ONLY <1>0, <1>1, <1>2 DEF Tabled, InQueue, FreeUnused, Sorted, Needed
<1>4. h.cas_id \in Nat /\ h.cas \in [Items -> Nat] /\ h.assoc \in [Keys -> Items \cup {NULL}]
  BY <1>0, FieldTypes
<1>5. Numbered(c)
  BY ONLY <1>1, <1>2, <1>4, i \in Items DEF Numbered
<1>6. Evolves(h, c)
  <2>1. \A k \in Keys : h.assoc[k] # NULL => h.assoc[k] \in Items
    BY <1>4
  <2> QED BY ONLY <1>1, <1>4, <2>1 DEF Evolves
<1>7. Good(c, now)
  BY ONLY <1>1, <1>3, <1>5 DEF Good, Sound
<1>8. Spares(h, c, NULL)
  BY ONLY <1>1 DEF Spares, Aside
<1> QED BY ONLY <1>1, <1>6, <1>7, <1>8 DEF Changed, Step, c

\* A new item for the longer number takes the place of item i.
LEMMA LongerChanged ==
  ASSUME NEW h, NEW now \in Nat, Good(h, now), NEW i \in Items, NEW a, NEW k, NEW it \in Items,
         Allocated(h, a, it, k, now), it # NULL
  PROVE  Changed(h, do_item_remove(do_item_replace(a, i, it, now), it), now)
<1> DEFINE d == do_item_replace(a, i, it, now)
           c == do_item_remove(d, it)
<1>1. /\ Step(h, a, now)
      /\ \A x \in Items : Aside(h, x) => Aside(a, x) /\ x # it /\ a.key[x] = h.key[x]
      /\ a.refcount[it] = 1
      /\ ~a.uncounted =>
           /\ h.refcount[it] = 0
           /\ \A x \in Items : x # it => a.refcount[x] = h.refcount[x]
  BY DEF Allocated
<1>2. Good(a, now)
  BY <1>1, StepParts
<1>3. /\ Step(a, d, now) /\ Spares(a, d, it)
      /\ d.refcount = a.refcount /\ d.uncounted = a.uncounted
  BY ONLY <1>2, now \in Nat, i \in Items, it \in Items, ReplaceStep
<1> HIDE DEF d
<1>4. Good(d, now)
  BY <1>3, StepParts
<1>5. /\ Step(d, c, now)
      /\ c.uncounted = d.uncounted /\ c.linked = d.linked
      /\ c.aborted <=> d.aborted \/ it \in d.free
      /\ \A x \in Items : x # it => c.refcount[x] = d.refcount[x]
      /\ it \notin d.free /\ d.refcount[it] # 0 => c.refcount[it] = d.refcount[it] - 1
      /\ \A x \in Items : x \in c.free => x \in d.free \/ (x = it /\ ~d.linked[it] /\ c.refcount[it] = 0)
      /\ \A x \in Items : x \notin c.free => c.key[x] = d.key[x]
  BY ONLY <1>4, now \in Nat, it \in Items, RemoveStep
<1> HIDE DEF c
<1>6. Step(h, c, now)
  <2>1. Step(h, d, now)
    BY ONLY Good(h, now), <1>1, <1>3, StepOn
  <2> QED BY ONLY Good(h, now), <2>1, <1>5, StepOn
<1>7. Spares(h, c, NULL)
  <2>1. ASSUME NEW x \in Items, Aside(h, x) PROVE Aside(c, x) /\ c.key[x] = h.key[x]
    <3>1. Aside(a, x) /\ x # it /\ a.key[x] = h.key[x]
      BY ONLY <1>1, <2>1
    <3>2. Aside(d, x) /\ d.key[x] = a.key[x]
      BY ONLY <1>3, <3>1 DEF Spares
    <3>3. Aside(c, x)
      BY ONLY <1>5, <3>1, <3>2 DEF Aside
    <3> QED BY ONLY <1>5, <3>1, <3>2, <3>3 DEF Aside
  <2> QED BY <2>1 DEF Spares
<1>8. ASSUME ~c.aborted, ~c.uncounted, NEW x \in Items PROVE c.refcount[x] = h.refcount[x]
  <2>1. ~a.uncounted /\ it \notin d.free
    BY ONLY <1>3, <1>5, <1>8
  <2>2. c.refcount[it] = 0
    BY ONLY <1>1, <1>3, <1>5, <2>1
  <2> QED BY ONLY <1>1, <1>3, <1>5, <2>1, <2>2
<1> QED BY ONLY <1>6, <1>7, <1>8 DEF Changed, c, d

LEMMA DeltaOutcome ==
  ASSUME NEW h, NEW now \in Nat, Good(h, now), NEW i \in Items, i \notin h.free,
         NEW incr \in BOOLEAN, NEW delta \in Int,
         NEW o \in do_add_delta(h, i, incr, delta, now)
  PROVE  Changed(h, o.h, now)
<1> DEFINE old == h.val[i]
           v == IF incr THEN Incr(old, delta) ELSE Decr(old, delta)
           k == h.key[i]
           e == h.exptime[i]
           w == Width(v)
<1>0. h \in CacheType
  BY DEF Good, Sound
<1>1. k \in Keys
  BY <1>0 DEF Good, Sound, FreeUnused
<1>2. v \in Int
  <2>1. old \in Int
    BY <1>0, FieldTypes
  <2> HIDE DEF old
  <2>2. Incr(old, delta) \in Int /\ Decr(old, delta) \in Int
    BY <2>1, DeltaInt
  <2> QED BY <2>2
<1>3. e \in Nat /\ w \in Nat
  <2>1. e \in Nat
    BY <1>0, FieldTypes
  <2> HIDE DEF v
  <2> QED BY <2>1, WidthNat
<1>4. \/ o.h = Written(h, i, v)
      \/ \E a \in do_item_alloc(h, k, v, e, w, now) :
           \/ a.it = NULL /\ o.h = a.h
           \/ a.it # NULL /\ o.h = do_item_remove(do_item_replace(a.h, i, a.it, now), a.it)
  <2>1. CASE w <= h.nbytes[i]
    <3>1. o = [h |-> Written(h, i, v), ret |-> "OK"]
      BY <2>1 DEF do_add_delta, Written
    <3> QED BY <3>1
  <2>2. CASE ~(w <= h.nbytes[i])
    <3>1. o \in {IF a.it = NULL THEN [h |-> a.h, ret |-> "EOM"]
                 ELSE [h |-> do_item_remove(do_item_replace(a.h, i, a.it, now), a.it),
                       ret |-> "OK"] :
                 a \in do_item_alloc(h, k, v, e, w, now)}
      BY <2>2 DEF do_add_delta
    <3> HIDE DEF v, k, e, w
    <3>2. PICK a \in do_item_alloc(h, k, v, e, w, now) :
            o = IF a.it = NULL THEN [h |-> a.h, ret |-> "EOM"]
                ELSE [h |-> do_item_remove(do_item_replace(a.h, i, a.it, now), a.it), ret |-> "OK"]
      BY <3>1
    <3> QED BY <3>2
  <2> QED BY <2>1, <2>2
<1> HIDE DEF v, k, e, w
<1>5. CASE o.h = Written(h, i, v)
  BY <1>2, <1>5, WrittenChanged
<1>6. ASSUME NEW a \in do_item_alloc(h, k, v, e, w, now),
             a.it = NULL, o.h = a.h
      PROVE  Changed(h, o.h, now)
  <2>1. Allocated(h, a.h, a.it, k, now)
    BY <1>1, <1>2, <1>3, AllocOutcome
  <2>2. NULL \notin Items
    BY CacheAssumption
  <2>3. Spares(h, a.h, NULL)
    BY ONLY <2>1 DEF Allocated, Spares
  <2>4. Step(h, a.h, now) /\ (~a.h.uncounted => \A x \in Items : a.h.refcount[x] = h.refcount[x])
    BY ONLY <2>1, <2>2, <1>6 DEF Allocated
  <2> QED BY ONLY <2>3, <2>4, <1>6 DEF Changed
<1>7. ASSUME NEW a \in do_item_alloc(h, k, v, e, w, now),
             a.it # NULL, o.h = do_item_remove(do_item_replace(a.h, i, a.it, now), a.it)
      PROVE  Changed(h, o.h, now)
  <2>1. Allocated(h, a.h, a.it, k, now)
    BY <1>1, <1>2, <1>3, AllocOutcome
  <2>2. a.it \in Items
    BY <2>1, <1>7 DEF Allocated
  <2> QED BY <2>1, <2>2, <1>7, LongerChanged
<1> QED BY <1>4, <1>5, <1>6, <1>7

-----------------------------------------------------------------------------
(* What a retrieval returns *)

\* The value of k that a client is shown at time now, with its CAS id.
View(h, k, now, live) ==
  LET i == h.assoc[k]
  IN  IF i = NULL THEN NULL
      ELSE IF Flushed(h, i, now, live) \/ OutOfDate(h, i, now) THEN NULL
      ELSE [val |-> h.val[i], cas |-> h.cas[i]]

\* From h to c items are taken out or freed, and item it may be anything.  The others
\* are as they were, though one that is not flushed may be younger.
Only(h, c, it, live) ==
  /\ \A x \in Items : x # it /\ x \notin c.free =>
       /\ x \notin h.free
       /\ c.key[x] = h.key[x] /\ c.val[x] = h.val[x] /\ c.cas[x] = h.cas[x]
       /\ c.exptime[x] = h.exptime[x]
       /\ live # 0 => (c.time[x] <= live <=> h.time[x] <= live)
  /\ \A x \in Items : x # it /\ c.linked[x] => h.linked[x]

\* Nor is anything stored: item it is out of sight.
Quiet(h, c, it, live) ==
  /\ Only(h, c, it, live) /\ c.cas_id = h.cas_id
  /\ \A x \in Items : c.linked[x] => x # it

LEMMA OnlyOn ==
  ASSUME NEW g, NEW h, NEW c, NEW live, NEW it, NEW i \in {it, NULL}, NEW j \in {it, NULL},
         Only(g, h, i, live), Only(h, c, j, live)
  PROVE  Only(g, c, it, live)
<1>1. \A x \in Items : x # it => x # i /\ x # j
  BY CacheAssumption
<1> QED BY ONLY <1>1, Only(g, h, i, live), Only(h, c, j, live) DEF Only

LEMMA QuietOn ==
  ASSUME NEW g, NEW h, NEW c, NEW live, NEW it, NEW i \in {it, NULL}, NEW j \in {it, NULL},
         Quiet(g, h, i, live), Quiet(h, c, j, live), i = it \/ j = it
  PROVE  Quiet(g, c, it, live)
<1>1. \A x \in Items : x # NULL
  BY CacheAssumption
<1>2. Only(g, c, it, live)
  BY OnlyOn DEF Quiet
<1>3. c.cas_id = g.cas_id
  BY DEF Quiet
<1>4. \A x \in Items : c.linked[x] => x # it
  BY <1>1 DEF Quiet, Only
<1> QED BY ONLY <1>2, <1>3, <1>4 DEF Quiet

\* The same items, but for their counts and their places in the queue.
LEMMA QuietSame ==
  ASSUME NEW h, NEW c, NEW live, c.cas_id = h.cas_id,
         \A x \in Items : x \notin c.free =>
           /\ x \notin h.free
           /\ c.key[x] = h.key[x] /\ c.val[x] = h.val[x] /\ c.cas[x] = h.cas[x]
           /\ c.exptime[x] = h.exptime[x] /\ c.time[x] = h.time[x],
         \A x \in Items : c.linked[x] => h.linked[x]
  PROVE  Quiet(h, c, NULL, live)
<1>1. \A x \in Items : x # NULL
  BY CacheAssumption
<1> QED BY <1>1 DEF Quiet, Only

LEMMA QuietNone ==
  ASSUME NEW h, NEW live
  PROVE  Quiet(h, h, NULL, live)
  BY QuietSame

LEMMA AbortQuiet ==
  ASSUME NEW h \in CacheType, NEW live
  PROVE  Quiet(h, Abort(h), NULL, live)
<1>1. Abort(h).exptime = h.exptime
  BY DEF Abort, CacheType
<1> QED BY <1>1, AbortFields, QuietSame

LEMMA RefQuiet ==
  ASSUME NEW h \in CacheType, NEW i \in Items, NEW n \in Counts, NEW u \in BOOLEAN, NEW live
  PROVE  Quiet(h, SetRef(h, i, n, u), NULL, live)
<1>1. SetRef(h, i, n, u).exptime = h.exptime
  BY DEF SetRef, CacheType
<1> QED BY <1>1, RefFields, QuietSame

LEMMA UnlinkedQuiet ==
  ASSUME NEW h \in CacheType, NEW i \in Items, NEW live
  PROVE  Quiet(h, Unlinked(h, i), NULL, live)
<1> DEFINE c == Unlinked(h, i)
<1>1. c.exptime = h.exptime
  BY DEF Unlinked, CacheType
<1>2. /\ ~c.linked[i] /\ \A x \in Items : x # i => (c.linked[x] <=> h.linked[x])
      /\ c.free = h.free /\ c.key = h.key /\ c.val = h.val
      /\ c.time = h.time /\ c.cas = h.cas /\ c.cas_id = h.cas_id
  BY UnlinkFields
<1> HIDE DEF c
<1>3. Quiet(h, c, NULL, live)
  BY ONLY <1>1, <1>2, QuietSame
<1> QED BY <1>3 DEF c

LEMMA FreeQuiet ==
  ASSUME NEW h \in CacheType, NEW S \in SUBSET Items, NEW live
  PROVE  Quiet(h, FreeItems(h, S), NULL, live)
<1> DEFINE c == FreeItems(h, S)
<1>1. \A x \in Items : x \notin S => c.exptime[x] = h.exptime[x]
  BY DEF FreeItems, CacheType
<1>2. /\ \A i \in Items : i \in c.free <=> i \in h.free \/ i \in S
      /\ \A i \in Items : i \notin S => /\ c.key[i] = h.key[i] /\ c.val[i] = h.val[i]
                                        /\ c.time[i] = h.time[i] /\ c.cas[i] = h.cas[i]
      /\ c.linked = h.linked /\ c.cas_id = h.cas_id
  BY FreeFields
<1> HIDE DEF c
<1>3. Quiet(h, c, NULL, live)
  BY ONLY <1>1, <1>2, QuietSame
<1> QED BY <1>3 DEF c

LEMMA UnlinkQuiet ==
  ASSUME NEW h \in CacheType, NEW i \in Items, NEW live
  PROVE  Quiet(h, do_item_unlink(h, i), NULL, live)
<1> DEFINE g == Unlinked(h, i)
<1>1. Quiet(h, h, NULL, live) /\ Quiet(h, g, NULL, live)
  BY QuietNone, UnlinkedQuiet
<1>2. g \in CacheType
  BY UnlinkFields
<1>3. do_item_unlink(h, i) \in {h, g, FreeItems(g, {i})}
  BY DEF do_item_unlink, item_free, Unlinked
<1> HIDE DEF g
<1>4. Quiet(g, FreeItems(g, {i}), NULL, live)
  BY <1>2, FreeQuiet
<1>5. Quiet(h, FreeItems(g, {i}), NULL, live)
  BY ONLY <1>1, <1>4, QuietOn
<1> QED BY ONLY <1>1, <1>3, <1>5

LEMMA UnlinkTyped ==
  ASSUME NEW h \in CacheType, NEW i \in Items
  PROVE  do_item_unlink(h, i) \in CacheType
<1> DEFINE g == Unlinked(h, i)
<1>1. do_item_unlink(h, i) \in {h, g, FreeItems(g, {i})}
  BY DEF do_item_unlink, item_free, Unlinked
<1>2. g \in CacheType
  BY UnlinkFields
<1> HIDE DEF g
<1>3. FreeItems(g, {i}) \in CacheType
  BY <1>2, FreeFields
<1> QED BY <1>1, <1>2, <1>3

LEMMA RemoveQuiet ==
  ASSUME NEW h \in CacheType, NEW i \in Items, NEW live
  PROVE  Quiet(h, do_item_remove(h, i), NULL, live)
<1> DEFINE n == IF h.refcount[i] = 0 THEN 0 ELSE h.refcount[i] - 1
           g == SetRef(h, i, n, h.uncounted)
<1>1. n \in Counts /\ h.uncounted \in BOOLEAN
  BY FieldTypes, SmallCounts
<1>2. do_item_remove(h, i) \in {Abort(h), g, FreeItems(g, {i})}
  <2>1. [h EXCEPT !.refcount[i] = n] = g
    <3> HIDE DEF n
    <3> QED BY RefOnly
  <2> HIDE DEF g
  <2> QED BY <2>1 DEF do_item_remove, item_free, Asserted, Abort
<1> HIDE DEF n
<1>3. g \in CacheType
  BY <1>1, RefFields
<1>4. Quiet(h, Abort(h), NULL, live) /\ Quiet(h, g, NULL, live)
  BY <1>1, AbortQuiet, RefQuiet
<1> HIDE DEF g
<1>5. Quiet(g, FreeItems(g, {i}), NULL, live)
  BY <1>3, FreeQuiet
<1>6. Quiet(h, FreeItems(g, {i}), NULL, live)
  BY ONLY <1>4, <1>5, QuietOn
<1> QED BY ONLY <1>2, <1>4, <1>6

\* An item that no flush has made old gets younger.
LEMMA UpdateQuiet ==
  ASSUME NEW h \in CacheType, NEW i \in Items, NEW now \in Nat, NEW live \in Nat,
         live = 0 \/ (live < now /\ h.time[i] > live)
  PROVE  Quiet(h, do_item_update(h, i, now), NULL, live)
<1> DEFINE c == Touched(h, i, now)
<1>1. do_item_update(h, i, now) \in {h, Abort(h), c}
  BY DEF do_item_update, Asserted, Abort, Touched, Push
<1>2. /\ c.time[i] = now /\ \A x \in Items : x # i => c.time[x] = h.time[x]
      /\ c.linked = h.linked /\ c.cas_id = h.cas_id /\ c.cas = h.cas
      /\ c.free = h.free /\ c.key = h.key /\ c.val = h.val
  BY TouchFields
<1>3. c.exptime = h.exptime
  BY DEF Touched, CacheType
<1>4. \A x \in Items : h.time[x] \in Nat
  BY FieldTypes
<1>5. \A x \in Items : x # NULL
  BY CacheAssumption
<1> HIDE DEF c
<1>6. \A x \in Items : live # 0 => (c.time[x] <= live <=> h.time[x] <= live)
  BY ONLY <1>2, <1>4, live = 0 \/ (live < now /\ h.time[i] > live), i \in Items, now \in Nat, live \in Nat
<1>7. Quiet(h, c, NULL, live)
  BY ONLY <1>2, <1>3, <1>5, <1>6 DEF Quiet, Only
<1> QED BY ONLY <1>1, <1>7, h \in CacheType, QuietNone, AbortQuiet

LEMMA StealQuiet ==
  ASSUME NEW h \in CacheType, NEW i \in Items, NEW live
  PROVE  Steal(h, i) \in CacheType /\ Quiet(h, Steal(h, i), NULL, live)
<1> DEFINE one == 1
           none == 0
           g == SetRef(h, i, one, h.uncounted)
           f == do_item_unlink(g, i)
           c == SetRef(f, i, none, f.uncounted)
<1>1. h.uncounted \in BOOLEAN /\ one \in Counts /\ none \in Counts
  BY FieldTypes, SmallCounts
<1>2. [h EXCEPT !.refcount[i] = 1] = g
  BY RefOnly
<1>3. Steal(h, i) = [f EXCEPT !.refcount[i] = none]
  BY <1>2 DEF Steal
<1> HIDE DEF one, none
<1>4. g \in CacheType /\ Quiet(h, g, NULL, live)
  BY <1>1, RefFields, RefQuiet
<1> HIDE DEF g
<1>5. f \in CacheType /\ Quiet(g, f, NULL, live)
  BY <1>4, UnlinkTyped, UnlinkQuiet
<1> HIDE DEF f
<1>6. f.uncounted \in BOOLEAN
  BY <1>5, FieldTypes
<1>7. c \in CacheType /\ Quiet(f, c, NULL, live)
  BY <1>1, <1>5, <1>6, RefFields, RefQuiet
<1>8. Steal(h, i) = c
  BY <1>3, <1>5, RefOnly
<1> HIDE DEF c
<1>9. Quiet(h, c, NULL, live)
  BY ONLY <1>4, <1>5, <1>7, QuietOn
<1> QED BY <1>7, <1>8, <1>9

\* The item handed out has the caller's value in it.
LEMMA FreshQuiet ==
  ASSUME NEW h \in CacheType, NEW i \in Items, NEW k \in Keys, NEW v \in Int,
         NEW e \in Nat, NEW nb \in Nat, NEW live
  PROVE  LET c == Fresh(h, i, k, v, e, nb) IN Quiet(h, c, i, live) /\ c.val[i] = v
<1> DEFINE c == Fresh(h, i, k, v, e, nb)
<1>1. c.val[i] = v /\ \A x \in Items : x # i => c.exptime[x] = h.exptime[x]
  BY DEF Fresh, CacheType
<1>2. Renewed(h, c, i, k)
  BY FreshFields
<1> HIDE DEF c
<1>3. Quiet(h, c, i, live)
  BY ONLY <1>1, <1>2 DEF Renewed, Quiet, Only
<1> QED BY <1>1, <1>3 DEF c

LEMMA MadeRoomQuiet ==
  ASSUME NEW h, NEW now \in Nat, Good(h, now), NEW live
  PROVE  Quiet(h, MadeRoom(h, now), NULL, live)
<1> DEFINE f == Evict(h)
           g == TailRepair(f, now)
<1>0. h \in CacheType
  BY DEF Good, Sound
<1>1. Good(f, now)
  BY EvictRoom DEF Room, Step
<1>2. Quiet(h, h, NULL, live)
  BY QuietNone
<1>3. Quiet(h, f, NULL, live)
  <2>1. Unreferenced(h) # NULL => Unreferenced(h) \in Items
    BY Searches DEF Good
  <2> QED BY <1>0, <1>2, <2>1, UnlinkQuiet DEF Evict
<1> HIDE DEF f
<1>4. f \in CacheType
  BY <1>1 DEF Good, Sound
<1>5. Quiet(f, g, NULL, live)
  <2> DEFINE i == HeldTooLong(f, now)
             z == 0
             yes == TRUE
             r == SetRef(f, i, z, yes)
  <2>1. CASE i = NULL
    BY <2>1, QuietNone DEF TailRepair
  <2>2. CASE i # NULL
    <3>1. g = do_item_unlink(r, i)
      BY <2>2 DEF TailRepair, SetRef
    <3>2. i \in Items /\ z \in Counts /\ yes \in BOOLEAN
      BY <1>1, <2>2, Searches, SmallCounts DEF Good
    <3> HIDE DEF i, z, yes
    <3>3. r \in CacheType /\ Quiet(f, r, NULL, live)
      BY ONLY <1>4, <3>2, RefFields, RefQuiet
    <3> HIDE DEF r
    <3>4. Quiet(r, do_item_unlink(r, i), NULL, live)
      BY ONLY <3>2, <3>3, UnlinkQuiet
    <3>5. Quiet(f, do_item_unlink(r, i), NULL, live)
      BY ONLY <3>3, <3>4, QuietOn
    <3> QED BY ONLY <3>1, <3>5
  <2> QED BY <2>1, <2>2
<1> HIDE DEF g
<1>6. Quiet(h, g, NULL, live)
  BY ONLY <1>3, <1>5, QuietOn
<1>7. MadeRoom(h, now) \in {h, f, g}
  BY DEF MadeRoom, f, g
<1> QED BY ONLY <1>2, <1>3, <1>6, <1>7

LEMMA AllocQuiet ==
  ASSUME NEW h, NEW now \in Nat, Good(h, now),
         NEW k \in Keys, NEW v \in Int, NEW e \in Nat, NEW nb \in Nat, NEW live,
         NEW a \in do_item_alloc(h, k, v, e, nb, now)
  PROVE  Quiet(h, a.h, a.it, live) /\ (a.it # NULL => a.h.val[a.it] = v)
<1> DEFINE i == Expired(h, now)
           s == Steal(h, i)
           g == MadeRoom(h, now)
<1>0. h \in CacheType
  BY DEF Good, Sound
<1>1. Quiet(h, h, NULL, live) /\ Quiet(h, g, NULL, live)
  BY QuietNone, MadeRoomQuiet
<1>2. g \in CacheType
  BY MadeRoomRoom DEF Room, Step, Good, Sound
<1>3. CASE i # NULL /\ a = [h |-> Fresh(s, i, k, v, e, nb), it |-> i]
  <2>1. a.h = Fresh(s, i, k, v, e, nb) /\ a.it = i
    BY <1>3
  <2>2. i \in Items
    BY <1>3, Searches DEF Good
  <2> HIDE DEF i
  <2>3. s \in CacheType /\ Quiet(h, s, NULL, live)
    BY ONLY <1>0, <2>2, StealQuiet
  <2> HIDE DEF s
  <2>4. /\ Quiet(s, Fresh(s, i, k, v, e, nb), i, live)
        /\ Fresh(s, i, k, v, e, nb).val[i] = v
    BY ONLY <2>2, <2>3, k \in Keys, v \in Int, e \in Nat, nb \in Nat, FreshQuiet
  <2>5. Quiet(h, Fresh(s, i, k, v, e, nb), i, live)
    BY ONLY <2>3, <2>4, QuietOn
  <2> QED BY ONLY <2>1, <2>4, <2>5
<1>4. CASE \E j \in g.free : a = [h |-> Fresh(g, j, k, v, e, nb), it |-> j]
  <2> HIDE DEF g
  <2>1. PICK j \in g.free : a = [h |-> Fresh(g, j, k, v, e, nb), it |-> j]
    BY <1>4
  <2>2. a.h = Fresh(g, j, k, v, e, nb) /\ a.it = j
    BY <2>1
  <2>3. j \in Items
    BY <1>2, FieldTypes
  <2>4. /\ Quiet(g, Fresh(g, j, k, v, e, nb), j, live)
        /\ Fresh(g, j, k, v, e, nb).val[j] = v
    BY ONLY <1>2, <2>3, k \in Keys, v \in Int, e \in Nat, nb \in Nat, FreshQuiet
  <2>5. Quiet(h, Fresh(g, j, k, v, e, nb), j, live)
    BY ONLY <1>1, <2>4, QuietOn
  <2> QED BY ONLY <2>2, <2>4, <2>5
<1>5. CASE a.it = NULL /\ a.h \in {h, g}
  BY ONLY <1>1, <1>5
<1>6. \/ i # NULL /\ a = [h |-> Fresh(s, i, k, v, e, nb), it |-> i]
      \/ \E j \in g.free : a = [h |-> Fresh(g, j, k, v, e, nb), it |-> j]
      \/ a.it = NULL /\ a.h \in {h, g}
  BY DEF do_item_alloc
<1> QED BY ONLY <1>3, <1>4, <1>5, <1>6

\* The CAS id of a command line, in an item that is not linked.
LEMMA CasQuiet ==
  ASSUME NEW h \in CacheType, NEW i \in Items, ~h.linked[i], NEW u \in Nat, NEW live
  PROVE  LET c == SetCas(h, i, u) IN Quiet(h, c, i, live) /\ c.val = h.val /\ c.cas[i] = u
<1> DEFINE c == SetCas(h, i, u)
<1>1. /\ c.val = h.val /\ c.key = h.key /\ c.exptime = h.exptime /\ c.time = h.time
      /\ c.free = h.free /\ c.linked = h.linked /\ c.cas_id = h.cas_id
      /\ c.cas[i] = u /\ \A x \in Items : x # i => c.cas[x] = h.cas[x]
  BY DEF SetCas, CacheType
<1> HIDE DEF c
<1>2. Quiet(h, c, i, live)
  BY ONLY <1>1, ~h.linked[i] DEF Quiet, Only
<1> QED BY <1>1, <1>2 DEF c

LEMMA FlushQuiet ==
  ASSUME NEW h \in CacheType, NEW n \in Nat, NEW live
  PROVE  Quiet(h, do_item_flush_expired(h, n), NULL, live)
<1> DEFINE c == do_item_flush_expired(h, n)
           m == FlushReach(h, n)
           Q == DropFirst(h.lru, m)
           S == {h.lru[j] : j \in 1 .. m}
           g == Cut(h, Q, S)
           Z == {i \in S : h.refcount[i] = 0}
<1>1. CASE n = 0
  <2>1. c = h
    BY <1>1 DEF do_item_flush_expired
  <2> HIDE DEF c
  <2> QED BY ONLY <2>1, QuietNone DEF c
<1>2. CASE n # 0
  <2>1. c = FreeItems(g, Z)
    BY <1>2 DEF do_item_flush_expired, Cut, DropFirst
  <2>2. m \in 0 .. Len(h.lru) /\ h.lru \in Queue
    BY FieldTypes, FlushReachRange
  <2> HIDE DEF m
  <2>3. Q \in Queue
    BY <2>2, Dropped DEF DropFirst
  <2>4. S \subseteq Items
    <3>1. Len(h.lru) \in Nat /\ DOMAIN h.lru = 1 .. Len(h.lru) /\ \A j \in DOMAIN h.lru : h.lru[j] \in Items
      BY <2>2, Positions
    <3>2. \A j \in 1 .. m : j \in DOMAIN h.lru
      BY ONLY <2>2, <3>1
    <3> QED BY ONLY <3>1, <3>2
  <2>5. Z \in SUBSET Items
    BY <2>4
  <2> HIDE DEF Q, S, Z
  <2>6. g.exptime = h.exptime
    BY DEF Cut, CacheType
  <2>7. /\ g \in CacheType
        /\ \A x \in Items : g.linked[x] <=> h.linked[x] /\ x \notin S
        /\ g.free = h.free /\ g.key = h.key /\ g.val = h.val
        /\ g.time = h.time /\ g.cas = h.cas /\ g.cas_id = h.cas_id
    BY <2>3, CutFields
  <2> HIDE DEF g
  <2>8. Quiet(h, g, NULL, live)
    BY ONLY <2>6, <2>7, QuietSame
  <2>9. Quiet(g, FreeItems(g, Z), NULL, live)
    BY ONLY <2>5, <2>7, FreeQuiet
  <2>10. Quiet(h, FreeItems(g, Z), NULL, live)
    BY ONLY <2>8, <2>9, QuietOn
  <2> HIDE DEF c
  <2> QED BY ONLY <2>1, <2>10 DEF c
<1> QED BY <1>1, <1>2

\* item_get sees what a retrieval would show, and changes only the count of a hit.
LEMMA GetView ==
  ASSUME NEW h, NEW now \in Nat, Good(h, now), NEW k \in Keys, NEW live \in Nat, live < now
  PROVE  LET r == do_item_get(h, k, now, live) IN
         /\ Quiet(h, r.h, NULL, live)
         /\ r.it = NULL => View(h, k, now, live) = NULL
         /\ r.it # NULL =>
              /\ r.it \in Items
              /\ View(h, k, now, live) = [val |-> h.val[r.it], cas |-> h.cas[r.it]]
              /\ live = 0 \/ h.time[r.it] > live
              /\ r.h.val = h.val /\ r.h.cas = h.cas /\ r.h.key = h.key /\ r.h.time = h.time
<1> DEFINE i == h.assoc[k]
           r == do_item_get(h, k, now, live)
           u == do_item_unlink(h, i)
           g == AddRef(h, i)
           gone == Flushed(h, i, now, live) \/ OutOfDate(h, i, now)
<1>0. h \in CacheType
  BY DEF Good, Sound
<1>1. CASE i = NULL
  <2>1. r.h = h /\ r.it = NULL
    BY <1>1 DEF do_item_get
  <2>2. View(h, k, now, live) = NULL
    BY <1>1 DEF View
  <2> HIDE DEF r
  <2> QED BY ONLY <2>1, <2>2, QuietNone DEF r
<1>2. CASE i # NULL /\ gone
  <2>1. r.h = u /\ r.it = NULL
    BY <1>2 DEF do_item_get
  <2>2. View(h, k, now, live) = NULL
    BY <1>2 DEF View
  <2>3. i \in Items
    BY <1>0, <1>2, FieldTypes
  <2> HIDE DEF r, i
  <2>4. Quiet(h, u, NULL, live)
    BY ONLY <1>0, <2>3, UnlinkQuiet
  <2> QED BY ONLY <2>1, <2>2, <2>4 DEF r
<1>3. CASE i # NULL /\ ~gone
  <2>1. r.h = g /\ r.it = i
    BY <1>3 DEF do_item_get
  <2>2. View(h, k, now, live) = [val |-> h.val[i], cas |-> h.cas[i]]
    BY <1>3 DEF View
  <2>3. i \in Items /\ i # NULL
    BY <1>0, <1>3, FieldTypes
  <2>4. live = 0 \/ h.time[i] > live
    <3>1. h.time[i] \in Nat
      BY <1>0, <2>3, FieldTypes
    <3>2. ~(live # 0 /\ live <= now /\ h.time[i] <= live)
      BY <1>3 DEF Flushed
    <3> HIDE DEF i
    <3> QED BY ONLY <3>1, <3>2, live \in Nat, now \in Nat, live < now
  <2> DEFINE m == (h.refcount[i] + 1) % RefWrap
             w == h.uncounted \/ h.refcount[i] + 1 = RefWrap
  <2>5. g = SetRef(h, i, m, w)
    BY DEF AddRef, SetRef
  <2>6. m \in Counts /\ w \in BOOLEAN
    BY <1>0, <2>3, FieldTypes, SmallCounts
  <2> HIDE DEF r, i, m, w, g
  <2>7. Quiet(h, g, NULL, live)
    BY ONLY <1>0, <2>3, <2>5, <2>6, RefQuiet
  <2>8. g.val = h.val /\ g.cas = h.cas /\ g.key = h.key /\ g.time = h.time
    BY ONLY <1>0, <2>3, <2>5, <2>6, RefFields
  <2> QED BY ONLY <2>1, <2>2, <2>3, <2>4, <2>7, <2>8 DEF r
<1> QED BY <1>1, <1>2, <1>3

\* From h to c item it is stored under key k with value v: the only key with a new
\* value, and one that has the next CAS id.
Stores(h, c, it, k, v, live) ==
  /\ Only(h, c, it, live) /\ c.cas_id = h.cas_id + 1
  /\ c.linked[it] => c.key[it] = k /\ c.val[it] = v /\ c.cas[it] = c.cas_id
  /\ \A x \in Items : c.linked[x] /\ c.key[x] = k => x = it

LEMMA StoresAfter ==
  ASSUME NEW g, NEW h, NEW c, NEW it, NEW j \in {it, NULL}, NEW k, NEW v, NEW live,
         Quiet(g, h, j, live), Stores(h, c, it, k, v, live)
  PROVE  Stores(g, c, it, k, v, live)
<1>1. Only(g, c, it, live)
  BY OnlyOn DEF Quiet, Stores
<1> QED BY <1>1 DEF Quiet, Stores

LEMMA StoresThen ==
  ASSUME NEW h, NEW c, NEW d, NEW it \in Items, NEW k, NEW v, NEW live, NEW now,
         Stores(h, c, it, k, v, live), Quiet(c, d, NULL, live), Good(d, now)
  PROVE  Stores(h, d, it, k, v, live)
<1>1. Only(h, d, it, live)
  BY OnlyOn DEF Quiet, Stores
<1>2. it # NULL
  BY CacheAssumption
<1>3. \A x \in Items : d.linked[x] => x \notin d.free /\ x # NULL
  <2>1. d.free \in SUBSET Items
    BY FieldTypes DEF Good, Sound
  <2> QED BY <2>1, CacheAssumption DEF Good, Sound, FreeUnused
<1> QED BY ONLY <1>1, <1>2, <1>3, it \in Items, Stores(h, c, it, k, v, live), Quiet(c, d, NULL, live)
        DEF Quiet, Only, Stores

LEMMA LinkStores ==
  ASSUME NEW h, NEW now \in Nat, Good(h, now), NEW i \in Items, NEW live,
         ~do_item_link(h, i, now).aborted
  PROVE  /\ Stores(h, do_item_link(h, i, now), i, h.key[i], h.val[i], live)
         /\ i \notin h.free
<1> DEFINE c == Linked(h, i, now)
<1>0. h \in CacheType
  BY DEF Good, Sound
<1>1. Abort(h).aborted
  BY <1>0, AbortFields
<1>2. do_item_link(h, i, now) = c /\ i \notin h.free
  BY <1>1 DEF do_item_link, Asserted, Linked, Abort
<1>3. c.exptime = h.exptime
  BY <1>0 DEF Linked, CacheType
<1>4. /\ \A x \in Items : x # i => (c.linked[x] <=> h.linked[x])
      /\ \A x \in Items : x # i => c.time[x] = h.time[x]
      /\ c.cas[i] = h.cas_id + 1 /\ \A x \in Items : x # i => c.cas[x] = h.cas[x]
      /\ c.cas_id = h.cas_id + 1
      /\ c.free = h.free /\ c.key = h.key /\ c.val = h.val
  BY <1>0, LinkFields
<1>5. c.linked[i] /\ Tabled(c)
  <2>1. Good(c, now)
    BY <1>2, LinkStep DEF Step
  <2>2. ~do_item_link(h, i, now).aborted => do_item_link(h, i, now).linked[i]
    BY LinkStep
  <2> QED BY <1>2, <2>1, <2>2 DEF Good, Sound
<1> HIDE DEF c
<1>6. \A x \in Items : c.linked[x] /\ c.key[x] = h.key[i] => x = i
  BY ONLY <1>4, <1>5, i \in Items DEF Tabled
<1>7. Stores(h, c, i, h.key[i], h.val[i], live)
  BY ONLY <1>3, <1>4, <1>6 DEF Stores, Only
<1> QED BY ONLY <1>2, <1>7

LEMMA ReplaceStores ==
  ASSUME NEW h, NEW now \in Nat, Good(h, now), NEW i \in Items, NEW n \in Items, NEW live,
         ~do_item_replace(h, i, n, now).aborted
  PROVE  Stores(h, do_item_replace(h, i, n, now), n, h.key[n], h.val[n], live)
<1> DEFINE u == do_item_unlink(h, i)
           c == do_item_link(u, n, now)
<1>0. h \in CacheType
  BY DEF Good, Sound
<1>1. Abort(h).aborted
  BY <1>0, AbortFields
<1>2. do_item_replace(h, i, n, now) = c /\ ~c.aborted
  BY <1>1 DEF do_item_replace, Asserted, Abort
<1>3. Good(u, now)
  BY UnlinkStep DEF Step
<1>4. Quiet(h, u, NULL, live)
  BY <1>0, UnlinkQuiet
<1> HIDE DEF u
<1>5. Stores(u, c, n, u.key[n], u.val[n], live) /\ n \notin u.free
  BY <1>2, <1>3, LinkStores
<1>6. u.key[n] = h.key[n] /\ u.val[n] = h.val[n]
  BY <1>4, <1>5, CacheAssumption DEF Quiet, Only
<1> HIDE DEF c
<1>7. Stores(u, c, n, h.key[n], h.val[n], live)
  BY ONLY <1>5, <1>6
<1> QED BY ONLY <1>2, <1>4, <1>7, StoresAfter

\* What is found under a key is linked, and not free.
LEMMA FoundLinked ==
  ASSUME NEW h, NEW now, Good(h, now), NEW k \in Keys, h.assoc[k] # NULL
  PROVE  LET i == h.assoc[k] IN
         i \in Items /\ h.linked[i] /\ h.key[i] = k /\ i \notin h.free
<1> DEFINE i == h.assoc[k]
<1>1. i \in Items /\ h.free \in SUBSET Items
  BY FieldTypes DEF Good, Sound
<1>2. h.linked[i] /\ h.key[i] = k
  BY DEF Good, Sound, Tabled
<1>3. i \notin h.free
  BY <1>2 DEF Good, Sound, FreeUnused
<1> QED BY <1>1, <1>2, <1>3

LEMMA OnlyView ==
  ASSUME NEW h, NEW c, NEW now \in Nat, NEW then \in Nat, Good(h, then), Good(c, then),
         NEW it, NEW live \in Nat, Only(h, c, it, live), NEW k \in Keys, c.assoc[k] # it
  PROVE  View(c, k, now, live) \in {View(h, k, now, live), NULL}
<1> DEFINE i == c.assoc[k]
<1>1. CASE i = NULL
  BY <1>1 DEF View
<1>2. CASE i # NULL
  <2>1. i \in Items /\ c.linked[i] /\ c.key[i] = k /\ i \notin c.free
    BY <1>2, FoundLinked
  <2>2. /\ h.linked[i] /\ h.key[i] = k
        /\ c.val[i] = h.val[i] /\ c.cas[i] = h.cas[i] /\ c.exptime[i] = h.exptime[i]
        /\ live # 0 => (c.time[i] <= live <=> h.time[i] <= live)
    BY <2>1 DEF Only
  <2>3. h.assoc[k] = i
    BY <2>1, <2>2 DEF Good, Sound, Tabled
  <2>4. Flushed(c, i, now, live) <=> Flushed(h, i, now, live)
    BY ONLY <2>2 DEF Flushed
  <2>5. OutOfDate(c, i, now) <=> OutOfDate(h, i, now)
    BY ONLY <2>2 DEF OutOfDate
  <2>6. View(c, k, now, live) = View(h, k, now, live)
    BY ONLY <2>2, <2>3, <2>4, <2>5 DEF View
  <2> QED BY ONLY <2>6
<1> QED BY <1>1, <1>2

\* A quiet step may only forget.
LEMMA QuietView ==
  ASSUME NEW h, NEW c, NEW now \in Nat, NEW then \in Nat, Good(h, then), Good(c, then),
         NEW it, NEW live \in Nat, Quiet(h, c, it, live), NEW k \in Keys
  PROVE  View(c, k, now, live) \in {View(h, k, now, live), NULL}
<1>1. c.assoc[k] # NULL => c.assoc[k] # it
  <2>1. c.assoc[k] # NULL => c.assoc[k] \in Items /\ c.linked[c.assoc[k]]
    BY FoundLinked
  <2> QED BY <2>1 DEF Quiet
<1>2. CASE c.assoc[k] = NULL
  BY <1>2 DEF View
<1>3. CASE c.assoc[k] # NULL
  BY <1>1, <1>3, OnlyView DEF Quiet
<1> QED BY <1>2, <1>3

LEMMA StoresView ==
  ASSUME NEW h, NEW c, NEW now \in Nat, Good(h, now), Good(c, now), NEW it \in Items,
         NEW live \in Nat, NEW k, NEW v, Stores(h, c, it, k, v, live), NEW q \in Keys
  PROVE  View(c, q, now, live) \in
           {IF q = k THEN [val |-> v, cas |-> h.cas_id + 1] ELSE View(h, q, now, live), NULL}
<1> DEFINE i == c.assoc[q]
<1>1. CASE i = NULL
  BY <1>1 DEF View
<1>2. CASE i # NULL
  <2>1. i \in Items /\ c.linked[i] /\ c.key[i] = q
    BY <1>2, FoundLinked
  <2>2. CASE i = it
    <3>1. q = k /\ c.val[i] = v /\ c.cas[i] = h.cas_id + 1
      BY <2>1, <2>2 DEF Stores
    <3> QED BY <3>1 DEF View
  <2>3. CASE i # it
    <3>1. q # k
      BY <2>1, <2>3 DEF Stores
    <3>2. View(c, q, now, live) \in {View(h, q, now, live), NULL}
      BY <2>3, OnlyView DEF Stores
    <3> QED BY <3>1, <3>2
  <2> QED BY <2>2, <2>3
<1> QED BY <1>1, <1>2

\* What is linked and found as before is shown as before.
LEMMA SameView ==
  ASSUME NEW h, NEW c, NEW now \in Nat, Good(h, now), Good(c, now), NEW live \in Nat,
         Quiet(h, c, NULL, live), c.assoc = h.assoc, NEW k \in Keys
  PROVE  View(c, k, now, live) = View(h, k, now, live)
<1> DEFINE i == c.assoc[k]
<1>1. CASE i = NULL
  BY <1>1 DEF View
<1>2. CASE i # NULL
  <2>1. i \in Items /\ i \notin c.free
    BY <1>2, FoundLinked
  <2>2. /\ c.val[i] = h.val[i] /\ c.cas[i] = h.cas[i] /\ c.exptime[i] = h.exptime[i]
        /\ live # 0 => (c.time[i] <= live <=> h.time[i] <= live)
    BY <2>1, CacheAssumption DEF Quiet, Only
  <2>3. Flushed(c, i, now, live) <=> Flushed(h, i, now, live)
    BY ONLY <2>2 DEF Flushed
  <2>4. OutOfDate(c, i, now) <=> OutOfDate(h, i, now)
    BY ONLY <2>2 DEF OutOfDate
  <2> QED BY ONLY <2>2, <2>3, <2>4, c.assoc = h.assoc DEF View
<1> QED BY <1>1, <1>2

\* The values append and prepend may make of two.
Joins(v, w) == {v * 10 ^ Width(w) + w, v}

\* o has stored v under the key of item new, in new itself or in an item that nobody
\* else had a use for.
Wrote(h, o, new, v, live) ==
  /\ o.ret = "STORED"
  /\ \E it \in Items : /\ Aside(h, it) => it = new
                       /\ Stores(h, o.h, it, h.key[new], v, live)

\* o has stored nothing, for the reason ret.
Refused(h, o, ret, live) == o.ret = ret /\ Quiet(h, o.h, NULL, live)

LEMMA CombineView ==
  ASSUME NEW g, NEW now \in Nat, Good(g, now), NEW new \in Items, NEW old \in Items, NEW live,
         g.key[new] \in Keys, NEW comm, NEW o \in Combine(g, old, new, comm, now), ~o.h.aborted
  PROVE  \/ Refused(g, o, "NOT_STORED", live)
         \/ /\ o.ret = "STORED"
            /\ \E it \in Items, x \in IF comm = "append" THEN Joins(g.val[old], g.val[new])
                                                       ELSE Joins(g.val[new], g.val[old]) :
                 ~Aside(g, it) /\ Stores(g, o.h, it, g.key[new], x, live)
<1> DEFINE k == g.key[new]
           v == IF comm = "append" THEN Joined(g, old, new) ELSE Joined(g, new, old)
           e == g.exptime[old]
           nb == g.nbytes[new] + g.nbytes[old]
           X == IF comm = "append" THEN Joins(g.val[old], g.val[new]) ELSE Joins(g.val[new], g.val[old])
<1>0. g \in CacheType
  BY DEF Good, Sound
<1>1. v \in Int /\ e \in Nat /\ nb \in Nat
  BY <1>0, JoinedInt, FieldTypes
<1>2. v \in X
  <2> HIDE DEF X, v
  <2>1. \A i, j \in Items : Joined(g, i, j) \in Joins(g.val[i], g.val[j])
    BY DEF Joined, Joins
  <2> QED BY <2>1 DEF X, v
<1>3. PICK a \in do_item_alloc(g, k, v, e, nb, now) :
        o = IF a.it = NULL THEN [h |-> do_item_remove(a.h, old), ret |-> "NOT_STORED"]
            ELSE [h |-> do_item_remove(do_item_remove(do_item_replace(a.h, old, a.it, now), old),
                                       a.it),
                  ret |-> "STORED"]
  BY DEF Combine
<1>k. k \in Keys
  OBVIOUS
<1> HIDE DEF k, v, e, nb, X
<1>4. Quiet(g, a.h, a.it, live) /\ (a.it # NULL => a.h.val[a.it] = v)
  BY ONLY <1>1, <1>3, <1>k, Good(g, now), now \in Nat, AllocQuiet
<1>5. Allocated(g, a.h, a.it, k, now)
  BY ONLY <1>1, <1>3, <1>k, Good(g, now), now \in Nat, AllocOutcome
<1>6. Good(a.h, now) /\ a.h \in CacheType
  BY <1>5 DEF Allocated, Step, Good, Sound
<1>7. CASE a.it = NULL
  <2>1. o.h = do_item_remove(a.h, old) /\ o.ret = "NOT_STORED"
    BY <1>3, <1>7
  <2>2. Quiet(a.h, do_item_remove(a.h, old), NULL, live)
    BY <1>6, RemoveQuiet
  <2>3. Quiet(g, o.h, NULL, live)
    BY ONLY <1>4, <1>7, <2>1, <2>2, QuietOn
  <2> QED BY <2>1, <2>3 DEF Refused
<1>8. CASE a.it # NULL
  <2> DEFINE it == a.it
             r == do_item_replace(a.h, old, it, now)
             s == do_item_remove(r, old)
             t == do_item_remove(s, it)
  <2>1. o.h = t /\ o.ret = "STORED"
    BY <1>3, <1>8
  <2>2. it \in Items /\ a.h.key[it] = k /\ a.h.val[it] = v /\ ~Aside(g, it)
    BY <1>4, <1>5, <1>8 DEF Allocated
  <2> HIDE DEF it
  <2>3. Good(r, now)
    BY <1>6, <2>2, ReplaceStep DEF Step
  <2>r. ~r.aborted => Stores(a.h, r, it, k, v, live)
    BY <1>6, <2>2, ReplaceStores
  <2> HIDE DEF r
  <2>4. Good(s, now) /\ (r.aborted => s.aborted)
    BY <2>3, RemoveStep DEF Step
  <2>5. Quiet(r, s, NULL, live)
    BY <2>3, RemoveQuiet DEF Good, Sound
  <2> HIDE DEF s
  <2>6. Good(t, now) /\ (s.aborted => t.aborted)
    BY <2>2, <2>4, RemoveStep DEF Step
  <2>7. Quiet(s, t, NULL, live)
    BY <2>2, <2>4, RemoveQuiet DEF Good, Sound
  <2> HIDE DEF t
  <2>8. Stores(a.h, r, it, k, v, live)
    BY <2>1, <2>4, <2>6, <2>r
  <2>9. Stores(a.h, s, it, k, v, live)
    BY ONLY <2>2, <2>4, <2>5, <2>8, StoresThen
  <2>10. Stores(a.h, t, it, k, v, live)
    BY ONLY <2>2, <2>6, <2>7, <2>9, StoresThen
  <2>11. Stores(g, t, it, k, v, live)
    BY ONLY <1>4, <2>10, StoresAfter DEF it
  <2> QED BY ONLY <1>2, <2>1, <2>2, <2>11 DEF X, k
<1> QED BY <1>7, <1>8

\* The outcomes of do_store_item by command, r being what do_item_get returns.
StoreForm(h, o, new, comm, now, live) ==
  LET r == do_item_get(h, h.key[new], now, live)
      same == r.h.cas[new] = r.h.cas[r.it]
  IN  \/ /\ r.it = NULL /\ comm \in {"set", "add"} /\ o.ret = "STORED"
         /\ o.h = do_item_link(r.h, new, now)
      \/ /\ r.it = NULL /\ comm \in {"replace", "append", "prepend"} /\ o.ret = "NOT_STORED"
         /\ o.h = r.h
      \/ r.it = NULL /\ comm = "cas" /\ o.ret = "NOT_FOUND" /\ o.h = r.h
      \/ /\ r.it # NULL /\ comm = "add" /\ o.ret = "NOT_STORED"
         /\ o.h = do_item_remove(do_item_update(r.h, r.it, now), r.it)
      \/ /\ r.it # NULL /\ comm = "cas" /\ ~same /\ o.ret = "EXISTS"
         /\ o.h = do_item_remove(r.h, r.it)
      \/ /\ r.it # NULL /\ comm \in {"append", "prepend"} /\ r.h.cas[new] # 0 /\ ~same
         /\ o.ret = "EXISTS" /\ o.h = do_item_remove(r.h, r.it)
      \/ /\ r.it # NULL /\ comm \in {"append", "prepend"} /\ (r.h.cas[new] # 0 => same)
         /\ o \in Combine(r.h, r.it, new, comm, now)
      \/ /\ r.it # NULL /\ comm \in {"set", "replace", "cas"} /\ (comm = "cas" => same)
         /\ o.ret = "STORED"
         /\ o.h = do_item_remove(do_item_replace(r.h, r.it, new, now), r.it)

LEMMA StoreForms ==
  ASSUME NEW h, NEW new, NEW now, NEW live,
         NEW comm \in {"set", "add", "replace", "append", "prepend", "cas"},
         NEW o \in do_store_item(h, new, comm, now, live)
  PROVE  StoreForm(h, o, new, comm, now, live)
<1> DEFINE r == do_item_get(h, h.key[new], now, live)
           old == r.it
           g == r.h
           same == g.cas[new] = g.cas[old]
           Done(d, ret) == {[h |-> Released(d, old), ret |-> ret]}
<1>1. o \in CASE comm = "add" /\ old # NULL -> Done(do_item_update(g, old, now), "NOT_STORED")
              [] comm \in {"replace", "append", "prepend"} /\ old = NULL -> Done(g, "NOT_STORED")
              [] comm = "cas" /\ old = NULL -> Done(g, "NOT_FOUND")
              [] comm = "cas" /\ old # NULL /\ ~same -> Done(g, "EXISTS")
              [] comm \in {"append", "prepend"} /\ old # NULL ->
                   IF g.cas[new] # 0 /\ ~same THEN Done(g, "EXISTS")
                   ELSE Combine(g, old, new, comm, now)
              [] OTHER -> Done(LinkOver(g, old, new, now), "STORED")
  BY DEF do_store_item, CasMatches
<1> HIDE DEF r
<1>2. ASSUME NEW d, NEW s, o \in Done(d, s)
      PROVE  /\ o.ret = s
             /\ old = NULL => o.h = d
             /\ old # NULL => o.h = do_item_remove(d, old)
  BY <1>2 DEF Released
<1>3. /\ old = NULL => LinkOver(g, old, new, now) = do_item_link(g, new, now)
      /\ old # NULL => LinkOver(g, old, new, now) = do_item_replace(g, old, new, now)
  BY DEF LinkOver
<1> HIDE DEF Done, old, g, same
<1>4. CASE old = NULL
  <2>1. \/ comm \in {"set", "add"} /\ o \in Done(LinkOver(g, old, new, now), "STORED")
        \/ comm \in {"replace", "append", "prepend"} /\ o \in Done(g, "NOT_STORED")
        \/ comm = "cas" /\ o \in Done(g, "NOT_FOUND")
    BY ONLY <1>1, <1>4, comm \in {"set", "add", "replace", "append", "prepend", "cas"}
  <2>2. \/ comm \in {"set", "add"} /\ o.ret = "STORED" /\ o.h = do_item_link(g, new, now)
        \/ comm \in {"replace", "append", "prepend"} /\ o.ret = "NOT_STORED" /\ o.h = g
        \/ comm = "cas" /\ o.ret = "NOT_FOUND" /\ o.h = g
    BY ONLY <1>2, <1>3, <1>4, <2>1
  <2> QED BY ONLY <1>4, <2>2 DEF StoreForm, r, old, g, same
<1>5. CASE old # NULL
  <2>1. \/ comm = "add" /\ o \in Done(do_item_update(g, old, now), "NOT_STORED")
        \/ comm = "cas" /\ ~same /\ o \in Done(g, "EXISTS")
        \/ comm \in {"append", "prepend"} /\ g.cas[new] # 0 /\ ~same /\ o \in Done(g, "EXISTS")
        \/ /\ comm \in {"append", "prepend"} /\ (g.cas[new] # 0 => same)
           /\ o \in Combine(g, old, new, comm, now)
        \/ /\ comm \in {"set", "replace", "cas"} /\ (comm = "cas" => same)
           /\ o \in Done(LinkOver(g, old, new, now), "STORED")
    BY ONLY <1>1, <1>5, comm \in {"set", "add", "replace", "append", "prepend", "cas"}
  <2>2. \/ /\ comm = "add" /\ o.ret = "NOT_STORED"
           /\ o.h = do_item_remove(do_item_update(g, old, now), old)
        \/ comm = "cas" /\ ~same /\ o.ret = "EXISTS" /\ o.h = do_item_remove(g, old)
        \/ /\ comm \in {"append", "prepend"} /\ g.cas[new] # 0 /\ ~same
           /\ o.ret = "EXISTS" /\ o.h = do_item_remove(g, old)
        \/ /\ comm \in {"append", "prepend"} /\ (g.cas[new] # 0 => same)
           /\ o \in Combine(g, old, new, comm, now)
        \/ /\ comm \in {"set", "replace", "cas"} /\ (comm = "cas" => same)
           /\ o.ret = "STORED"
           /\ o.h = do_item_remove(do_item_replace(g, old, new, now), old)
    BY ONLY <1>2, <1>3, <1>5, <2>1
  <2> QED BY ONLY <1>5, <2>2 DEF StoreForm, r, old, g, same
<1> QED BY <1>4, <1>5

\* do_store_item answers what it has done, and does what the command means for the
\* value a client would have been shown at that moment.
LEMMA StoreView ==
  ASSUME NEW h, NEW now \in Nat, Good(h, now), NEW new \in Items, Aside(h, new),
         NEW live \in Nat, live < now, NULL \notin [val : Int, cas : Nat],
         NEW comm \in {"set", "add", "replace", "append", "prepend", "cas"},
         NEW o \in do_store_item(h, new, comm, now, live), ~o.h.aborted
  PROVE  LET old == View(h, h.key[new], now, live)
             v == h.val[new]
             same == old # NULL /\ old.cas = h.cas[new]
         IN  \/ comm = "set" /\ Wrote(h, o, new, v, live)
             \/ comm = "add" /\ old = NULL /\ Wrote(h, o, new, v, live)
             \/ comm = "add" /\ old # NULL /\ Refused(h, o, "NOT_STORED", live)
             \/ comm = "replace" /\ old # NULL /\ Wrote(h, o, new, v, live)
             \/ comm = "replace" /\ old = NULL /\ Refused(h, o, "NOT_STORED", live)
             \/ comm = "cas" /\ old = NULL /\ Refused(h, o, "NOT_FOUND", live)
             \/ comm = "cas" /\ old # NULL /\ ~same /\ Refused(h, o, "EXISTS", live)
             \/ comm = "cas" /\ same /\ Wrote(h, o, new, v, live)
             \/ /\ comm \in {"append", "prepend"} /\ old # NULL /\ (h.cas[new] # 0 => same)
                /\ \E x \in IF comm = "append" THEN Joins(old.val, v) ELSE Joins(v, old.val) :
                     Wrote(h, o, new, x, live)
             \/ comm \in {"append", "prepend"} /\ Refused(h, o, "NOT_STORED", live)
             \/ /\ comm \in {"append", "prepend"} /\ old # NULL /\ h.cas[new] # 0 /\ ~same
                /\ Refused(h, o, "EXISTS", live)
<1> DEFINE k == h.key[new]
           v == h.val[new]
           old == View(h, k, now, live)
           same == old # NULL /\ old.cas = h.cas[new]
           r == do_item_get(h, k, now, live)
           i == r.it
           g == r.h
           rsame == g.cas[new] = g.cas[i]
<1>0. h \in CacheType /\ k \in Keys
  BY DEF Good, Sound, FreeUnused, Aside
<1>1. /\ Quiet(h, g, NULL, live)
      /\ i = NULL => old = NULL
      /\ i # NULL =>
           /\ i \in Items
           /\ old = [val |-> h.val[i], cas |-> h.cas[i]]
           /\ live = 0 \/ h.time[i] > live
           /\ g.val = h.val /\ g.cas = h.cas /\ g.key = h.key /\ g.time = h.time
  BY <1>0, GetView
<1>2. Got(h, g, i, k, now)
  BY <1>0, GetOutcome
<1>3. Good(g, now) /\ g \in CacheType /\ Aside(g, new) /\ g.key[new] = k
  BY <1>2 DEF Got, Step, Good, Sound
<1>4. i # NULL => old # NULL /\ old.val = h.val[i] /\ old.cas = h.cas[i] /\ (same <=> rsame)
  <2>1. i # NULL => h.val[i] \in Int /\ h.cas[i] \in Nat
    BY <1>0, <1>1, FieldTypes
  <2> HIDE DEF i, old, g
  <2> QED BY <1>1, <2>1
<1>5. \A x \in Items : Aside(h, x) => Aside(g, x)
  BY <1>2 DEF Got
<1>f. \/ i = NULL /\ comm \in {"set", "add"} /\ o.ret = "STORED" /\ o.h = do_item_link(g, new, now)
      \/ /\ i = NULL /\ comm \in {"replace", "append", "prepend"} /\ o.ret = "NOT_STORED"
         /\ o.h = g
      \/ i = NULL /\ comm = "cas" /\ o.ret = "NOT_FOUND" /\ o.h = g
      \/ /\ i # NULL /\ comm = "add" /\ o.ret = "NOT_STORED"
         /\ o.h = do_item_remove(do_item_update(g, i, now), i)
      \/ /\ i # NULL /\ comm = "cas" /\ ~rsame /\ o.ret = "EXISTS"
         /\ o.h = do_item_remove(g, i)
      \/ /\ i # NULL /\ comm \in {"append", "prepend"} /\ g.cas[new] # 0 /\ ~rsame
         /\ o.ret = "EXISTS" /\ o.h = do_item_remove(g, i)
      \/ /\ i # NULL /\ comm \in {"append", "prepend"} /\ (g.cas[new] # 0 => rsame)
         /\ o \in Combine(g, i, new, comm, now)
      \/ /\ i # NULL /\ comm \in {"set", "replace", "cas"} /\ (comm = "cas" => rsame)
         /\ o.ret = "STORED" /\ o.h = do_item_remove(do_item_replace(g, i, new, now), i)
  <2>1. StoreForm(h, o, new, comm, now, live)
    BY StoreForms
  <2> QED BY ONLY <2>1 DEF StoreForm
<1> HIDE DEF r, i, g, old, same, rsame, k
<1>6. CASE i = NULL /\ comm \in {"set", "add"} /\ o.ret = "STORED" /\ o.h = do_item_link(g, new, now)
  <2>1. Stores(g, o.h, new, k, g.val[new], live)
    BY <1>3, <1>6, LinkStores
  <2>2. new \notin g.free
    BY <1>3 DEF Aside
  <2>3. g.val[new] = v
    BY <1>1, <2>2, CacheAssumption DEF Quiet, Only
  <2>4. Wrote(h, o, new, v, live)
    <3>1. Stores(h, o.h, new, k, v, live)
      BY ONLY <1>1, <2>1, <2>3, StoresAfter
    <3> QED BY <1>6, <3>1 DEF Wrote, k
  <2> QED BY ONLY <1>1, <1>6, <2>4 DEF old, k, v
<1>7. CASE /\ i = NULL /\ comm \in {"replace", "append", "prepend"} /\ o.ret = "NOT_STORED"
           /\ o.h = g
  <2>1. Refused(h, o, "NOT_STORED", live)
    BY ONLY <1>1, <1>7 DEF Refused
  <2> QED BY ONLY <1>1, <1>7, <2>1 DEF old, k, v
<1>8. CASE i = NULL /\ comm = "cas" /\ o.ret = "NOT_FOUND" /\ o.h = g
  <2>1. Refused(h, o, "NOT_FOUND", live)
    BY ONLY <1>1, <1>8 DEF Refused
  <2> QED BY ONLY <1>1, <1>8, <2>1 DEF old, k, v
<1>9. CASE /\ i # NULL /\ comm = "add" /\ o.ret = "NOT_STORED"
           /\ o.h = do_item_remove(do_item_update(g, i, now), i)
  <2> DEFINE u == do_item_update(g, i, now)
  <2>1. live = 0 \/ (live < now /\ g.time[i] > live)
    BY <1>1, <1>9
  <2>2. Quiet(g, u, NULL, live)
    BY ONLY <1>1, <1>3, <1>9, <2>1, now \in Nat, live \in Nat, UpdateQuiet
  <2>3. u \in CacheType
    BY <1>1, <1>3, <1>9, UpdateStep DEF Step, Good, Sound
  <2> HIDE DEF u
  <2>4. Quiet(u, do_item_remove(u, i), NULL, live)
    BY ONLY <1>1, <1>9, <2>3, RemoveQuiet
  <2>5. Quiet(h, do_item_remove(u, i), NULL, live)
    BY ONLY <1>1, <2>2, <2>4, QuietOn
  <2>6. Refused(h, o, "NOT_STORED", live)
    BY ONLY <1>9, <2>5 DEF Refused, u
  <2> QED BY ONLY <1>4, <1>9, <2>6 DEF old, k, v
<1>r. i # NULL => Quiet(h, do_item_remove(g, i), NULL, live)
  <2>1. i # NULL => Quiet(g, do_item_remove(g, i), NULL, live)
    BY ONLY <1>1, <1>3, RemoveQuiet
  <2> QED BY ONLY <1>1, <2>1, QuietOn
<1>10. CASE /\ i # NULL /\ comm = "cas" /\ ~rsame /\ o.ret = "EXISTS"
            /\ o.h = do_item_remove(g, i)
  <2>1. Refused(h, o, "EXISTS", live)
    BY ONLY <1>r, <1>10 DEF Refused
  <2>2. old # NULL /\ ~same
    BY ONLY <1>4, <1>10
  <2> QED BY ONLY <1>10, <2>1, <2>2 DEF old, same, k, v
<1>11. CASE /\ i # NULL /\ comm \in {"append", "prepend"} /\ g.cas[new] # 0 /\ ~rsame
            /\ o.ret = "EXISTS" /\ o.h = do_item_remove(g, i)
  <2>1. Refused(h, o, "EXISTS", live)
    BY ONLY <1>r, <1>11 DEF Refused
  <2>2. old # NULL /\ ~same /\ h.cas[new] # 0
    BY ONLY <1>1, <1>4, <1>11
  <2> QED BY ONLY <1>11, <2>1, <2>2 DEF old, same, k, v
<1>12. CASE /\ i # NULL /\ comm \in {"append", "prepend"} /\ (g.cas[new] # 0 => rsame)
            /\ o \in Combine(g, i, new, comm, now)
  <2> DEFINE X == IF comm = "append" THEN Joins(g.val[i], g.val[new]) ELSE Joins(g.val[new], g.val[i])
             Y == IF comm = "append" THEN Joins(old.val, v) ELSE Joins(v, old.val)
  <2>1. \/ Refused(g, o, "NOT_STORED", live)
        \/ /\ o.ret = "STORED"
           /\ \E it \in Items, x \in X : ~Aside(g, it) /\ Stores(g, o.h, it, g.key[new], x, live)
    BY <1>0, <1>1, <1>3, <1>12, CombineView
  <2>2. old # NULL /\ (h.cas[new] # 0 => same)
    BY ONLY <1>1, <1>4, <1>12
  <2>3. g.val[i] = old.val /\ g.val[new] = v
    BY ONLY <1>1, <1>4, <1>12 DEF v
  <2>4. X = Y
    BY ONLY <2>3
  <2> HIDE DEF X
  <2>5. CASE Refused(g, o, "NOT_STORED", live)
    <3>1. Refused(h, o, "NOT_STORED", live)
      BY ONLY <1>1, <2>5, QuietOn DEF Refused
    <3> QED BY ONLY <1>12, <3>1
  <2>6. CASE /\ o.ret = "STORED"
             /\ \E it \in Items, x \in X : ~Aside(g, it) /\ Stores(g, o.h, it, g.key[new], x, live)
    <3>1. PICK it \in Items, x \in X : ~Aside(g, it) /\ Stores(g, o.h, it, g.key[new], x, live)
      BY <2>6
    <3>2. Stores(h, o.h, it, k, x, live)
      BY ONLY <1>1, <1>3, <3>1, StoresAfter
    <3>3. Wrote(h, o, new, x, live)
      BY ONLY <1>5, <2>6, <3>1, <3>2, it \in Items DEF Wrote, k
    <3>4. x \in Y
      BY <2>4
    <3> HIDE DEF Y
    <3>5. \E y \in Y : Wrote(h, o, new, y, live)
      BY ONLY <3>3, <3>4
    <3> QED BY ONLY <1>12, <2>2, <3>5 DEF old, same, k, v, Y
  <2> QED BY ONLY <2>1, <2>5, <2>6
<1>13. CASE /\ i # NULL /\ comm \in {"set", "replace", "cas"} /\ (comm = "cas" => rsame)
            /\ o.ret = "STORED" /\ o.h = do_item_remove(do_item_replace(g, i, new, now), i)
  <2> DEFINE d == do_item_replace(g, i, new, now)
  <2>1. i \in Items
    BY ONLY <1>1, <1>13
  <2>2. Good(d, now)
    BY <1>3, <2>1, ReplaceStep DEF Step
  <2>3. ~d.aborted => Stores(g, d, new, k, g.val[new], live)
    BY <1>3, <2>1, ReplaceStores
  <2> HIDE DEF d
  <2>4. Good(do_item_remove(d, i), now) /\ (d.aborted => do_item_remove(d, i).aborted)
    BY <2>1, <2>2, RemoveStep DEF Step
  <2>5. Quiet(d, do_item_remove(d, i), NULL, live)
    BY <2>1, <2>2, RemoveQuiet DEF Good, Sound
  <2>6. o.h = do_item_remove(d, i) /\ ~o.h.aborted
    BY <1>13 DEF d
  <2>7. Stores(g, d, new, k, v, live)
    BY ONLY <1>1, <1>13, <2>3, <2>4, <2>6 DEF v
  <2>8. Stores(g, o.h, new, k, v, live)
    BY ONLY <2>4, <2>5, <2>6, <2>7, new \in Items, StoresThen
  <2>9. Stores(h, o.h, new, k, v, live)
    BY ONLY <1>1, <2>8, StoresAfter
  <2>10. Wrote(h, o, new, v, live)
    BY <1>13, <2>9 DEF Wrote, k
  <2>11. old # NULL /\ (comm = "cas" => same)
    BY ONLY <1>4, <1>13
  <2> QED BY ONLY <1>13, <2>10, <2>11 DEF old, same, k, v
<1> QED BY ONLY <1>f, <1>6, <1>7, <1>8, <1>9, <1>10, <1>11, <1>12, <1>13
=============================================================================
