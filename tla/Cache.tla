-------------------------------- MODULE Cache --------------------------------
(***************************************************************************)
(* The item cache of memcached 1.4.5: items.c and the two operations of    *)
(* memcached.c that run with cache_lock held (do_store_item, do_add_delta).*)
(*                                                                         *)
(* Everything cache_lock protects is one record, h, and each do_item_...   *)
(* function is an operator from the record before the call to the record   *)
(* after it, so that calls compose as they do in the code.  An operation   *)
(* that allocates returns the set of its outcomes, because any free chunk  *)
(* may be the one it gets.  One slab class is modelled; ITEM_SLABBED is    *)
(* membership of h.free.                                                   *)
(*                                                                         *)
(* A failed assert() ends the process (the memcached-debug build):         *)
(* h.aborted records it, and nothing happens afterwards.  h.uncounted      *)
(* records that a reference count has been given up: by the tail repair,   *)
(* or because it wrapped.                                                  *)
(***************************************************************************)
EXTENDS Delta, Sequences

CONSTANTS
  Items,           \* the chunks of the slab class
  Keys,
  NULL,            \* no item
  MaxBytes,        \* bound: longest value that fits the slab class
  RefWrap,         \* 2^16: refcount is an unsigned short
  SearchTries,     \* how far the LRU is searched from its tail (50)
  EvictToFree,     \* settings.evict_to_free
  UpdateInterval,  \* ITEM_UPDATE_INTERVAL (60 s)
  TailRepairTime   \* TAIL_REPAIR_TIME (3 h)

ASSUME CacheAssumption ==
  /\ IsFiniteSet(Items) /\ NULL \notin Items
  /\ MaxBytes \in Nat /\ RefWrap \in Nat /\ RefWrap >= 2
  /\ SearchTries \in Nat \ {0} /\ EvictToFree \in BOOLEAN
  /\ UpdateInterval \in Nat /\ TailRepairTime \in Nat

EmptyCache ==
  [assoc |-> [x \in Keys |-> NULL], lru |-> <<>>, free |-> Items,
   linked |-> [i \in Items |-> FALSE], refcount |-> [i \in Items |-> 0],
   key |-> [i \in Items |-> NULL], val |-> [i \in Items |-> 0],
   nbytes |-> [i \in Items |-> 0], time |-> [i \in Items |-> 0],
   exptime |-> [i \in Items |-> 0], cas |-> [i \in Items |-> 0],
   cas_id |-> 0, uncounted |-> FALSE, aborted |-> FALSE]

\* assert(cond), after which the state is g
Asserted(h, cond, g) == IF cond THEN g ELSE [h EXCEPT !.aborted = TRUE]

\* item_unlink_q: the queue without item i
Unqueued(q, i) ==
  LET p == CHOOSE j \in DOMAIN q : q[j] = i
  IN  [j \in 1 .. Len(q) - 1 |-> IF j < p THEN q[j] ELSE q[j + 1]]

\* item_free and slabs_free, of the items of S.  What a free chunk contains is of
\* no account, and is forgotten.
FreeItems(h, S) ==
  LET Clear(f, v) == [i \in Items |-> IF i \in S THEN v ELSE f[i]]
  IN  [h EXCEPT !.free = @ \cup S, !.key = Clear(@, NULL), !.val = Clear(@, 0),
                !.nbytes = Clear(@, 0), !.time = Clear(@, 0),
                !.exptime = Clear(@, 0), !.cas = Clear(@, 0)]

item_free(h, i) == FreeItems(h, {i})

\* Sets the LINKED flag, inserts into the hash table (whose assert rejects a
\* key that is already there), gives the item a new CAS id and puts it at
\* the head of the LRU.
do_item_link(h, i, now) ==
  Asserted(h, ~h.linked[i] /\ i \notin h.free /\ h.assoc[h.key[i]] = NULL,
    [h EXCEPT !.linked[i] = TRUE, !.time[i] = now, !.assoc[h.key[i]] = i,
              !.cas_id = @ + 1, !.cas[i] = h.cas_id + 1, !.lru = <<i>> \o @])

\* Mutant: the item is freed although it may be held.
do_item_unlink_Free(h, i) ==
  IF ~h.linked[i] THEN h
  ELSE item_free([h EXCEPT !.linked[i] = FALSE, !.assoc[h.key[i]] = NULL,
                           !.lru = Unqueued(@, i)], i)

\* Mutant: the item stays in the LRU.
do_item_unlink_Queued(h, i) ==
  IF ~h.linked[i] THEN h
  ELSE LET g == [h EXCEPT !.linked[i] = FALSE, !.assoc[h.key[i]] = NULL]
       IN  IF h.refcount[i] = 0 THEN item_free(g, i) ELSE g

do_item_unlink(h, i) ==
  IF ~h.linked[i] THEN h
  ELSE LET g == [h EXCEPT !.linked[i] = FALSE, !.assoc[h.key[i]] = NULL,
                          !.lru = Unqueued(@, i)]
       IN  IF h.refcount[i] = 0 THEN item_free(g, i) ELSE g

\* Mutant: the last holder of an unlinked item does not free it.
do_item_remove_Keep(h, i) ==
  Asserted(h, i \notin h.free,
           [h EXCEPT !.refcount[i] = IF @ = 0 THEN 0 ELSE @ - 1])

do_item_remove(h, i) ==
  LET n == IF h.refcount[i] = 0 THEN 0 ELSE h.refcount[i] - 1
      g == [h EXCEPT !.refcount[i] = n]
  IN  Asserted(h, i \notin h.free,
               IF n = 0 /\ ~h.linked[i] THEN item_free(g, i) ELSE g)

\* it->time < current_time - ITEM_UPDATE_INTERVAL, in unsigned arithmetic: in
\* the first UpdateInterval seconds the difference wraps to a huge number.
Stale(h, i, now) == now < UpdateInterval \/ h.time[i] < now - UpdateInterval

\* Mutant: the item gets its new time where it is.
do_item_update_InPlace(h, i, now) ==
  IF Stale(h, i, now) THEN [h EXCEPT !.time[i] = now] ELSE h

do_item_update(h, i, now) ==
  IF Stale(h, i, now)
  THEN Asserted(h, i \notin h.free,
         IF h.linked[i]
         THEN [h EXCEPT !.time[i] = now, !.lru = <<i>> \o Unqueued(@, i)]
         ELSE h)
  ELSE h

\* Mutant: the new item is linked before the old one is unlinked.
do_item_replace_LinkFirst(h, i, new_it, now) ==
  Asserted(h, i \notin h.free, do_item_unlink(do_item_link(h, new_it, now), i))

do_item_replace(h, i, new_it, now) ==
  Asserted(h, i \notin h.free, do_item_link(do_item_unlink(h, i), new_it, now))

-----------------------------------------------------------------------------
(* Allocation *)

\* The last position of the LRU in S within SearchTries of the tail.
FromTail(h, S) ==
  LET near == {j \in S : j > Len(h.lru) - SearchTries}
  IN  IF near = {} THEN NULL
      ELSE h.lru[CHOOSE j \in near : \A m \in near : m <= j]

Expired(h, now) ==
  FromTail(h, {j \in DOMAIN h.lru :
                 /\ h.refcount[h.lru[j]] = 0
                 /\ h.exptime[h.lru[j]] # 0 /\ h.exptime[h.lru[j]] < now})

Unreferenced(h) ==
  FromTail(h, {j \in DOMAIN h.lru : h.refcount[h.lru[j]] = 0})

HeldTooLong(h, now) ==
  FromTail(h, {j \in DOMAIN h.lru :
                 /\ h.refcount[h.lru[j]] # 0
                 /\ h.time[h.lru[j]] + TailRepairTime < now})

\* An expired item near the tail is taken over instead of being freed.
Steal(h, i) ==
  LET g == do_item_unlink([h EXCEPT !.refcount[i] = 1], i)
  IN  [g EXCEPT !.refcount[i] = 0]

\* An unreferenced item near the tail is unlinked, and so freed.
Evict(h) ==
  IF Unreferenced(h) = NULL THEN h ELSE do_item_unlink(h, Unreferenced(h))

\* The last resort: an item whose references are old is freed under its holders.
TailRepair(h, now) ==
  LET i == HeldTooLong(h, now)
  IN  IF i = NULL THEN h
      ELSE do_item_unlink([h EXCEPT !.refcount[i] = 0, !.uncounted = TRUE], i)

\* The cache an item is allocated from: as it is when a chunk is free, after
\* an eviction, or after a tail repair as well.
MadeRoom(h, now) ==
  IF h.free # {} \/ ~EvictToFree \/ h.lru = <<>> THEN h
  ELSE IF Evict(h).free # {} THEN Evict(h) ELSE TailRepair(Evict(h), now)

\* The fields of an item handed to its caller, who has a reference.  Its time
\* and CAS id have no meaning until it is linked.
Fresh(h, i, k, v, exptime, nbytes) ==
  [h EXCEPT !.free = @ \ {i}, !.refcount[i] = 1, !.linked[i] = FALSE,
            !.key[i] = k, !.val[i] = v, !.nbytes[i] = nbytes,
            !.exptime[i] = exptime, !.time[i] = 0, !.cas[i] = 0]

\* The outcomes of do_item_alloc: the cache and the item, NULL for failure.  The
\* caller copies the data into the item before anybody else sees it, so v
\* is stored here.
do_item_alloc(h, k, v, exptime, nbytes, now) ==
  IF nbytes > MaxBytes THEN {[h |-> h, it |-> NULL]}
  ELSE IF Expired(h, now) # NULL
  THEN {[h |-> Fresh(Steal(h, Expired(h, now)), Expired(h, now), k, v, exptime, nbytes),
         it |-> Expired(h, now)]}
  ELSE LET g == MadeRoom(h, now)
       IN  IF g.free = {} THEN {[h |-> g, it |-> NULL]}
           ELSE {[h |-> Fresh(g, i, k, v, exptime, nbytes), it |-> i] : i \in g.free}
-----------------------------------------------------------------------------
(* Lookup and flush.  live is settings.oldest_live. *)


Flushed(h, i, now, live) == live # 0 /\ live <= now /\ h.time[i] <= live

OutOfDate(h, i, now) == h.exptime[i] # 0 /\ h.exptime[i] <= now

\* Mutant: the count is used as a flag.
AddRefFlag(h, i) == [h EXCEPT !.refcount[i] = 1]

\* it->refcount++; when it wraps the holders are no longer counted.
AddRef(h, i) ==
  [h EXCEPT !.refcount[i] = (@ + 1) % RefWrap,
            !.uncounted = @ \/ h.refcount[i] + 1 = RefWrap]

\* The cache do_item_get leaves, and the item it returns with a reference.
do_item_get(h, k, now, live) ==
  LET i == h.assoc[k]
  IN  IF i = NULL THEN [h |-> h, it |-> NULL]
      ELSE IF Flushed(h, i, now, live) \/ OutOfDate(h, i, now)
      THEN [h |-> do_item_unlink(h, i), it |-> NULL]
      ELSE [h |-> AddRef(h, i), it |-> i]

\* How far item_flush_expired walks the LRU from its head: to the first item
\* older than oldest_live.
FlushReach(h, live) ==
  CHOOSE n \in 0 .. Len(h.lru) :
    /\ \A j \in 1 .. n : h.time[h.lru[j]] >= live
    /\ n < Len(h.lru) => h.time[h.lru[n + 1]] < live

\* The items it walks over are unlinked, and those nobody holds are freed.
do_item_flush_expired(h, live) ==
  IF live = 0 THEN h
  ELSE LET n == FlushReach(h, live)
           nuked == {h.lru[j] : j \in 1 .. n}
       IN  FreeItems(
             [h EXCEPT
                !.lru = [j \in 1 .. Len(@) - n |-> @[j + n]],
                !.linked = [i \in Items |-> @[i] /\ i \notin nuked],
                !.assoc = [k \in Keys |-> IF @[k] \in nuked THEN NULL ELSE @[k]]],
             {i \in nuked : h.refcount[i] = 0})

-----------------------------------------------------------------------------
(* do_store_item *)

\* The value of item i followed by that of item j, as safe_strtoull reads it: up
\* to the first of the spaces an in-place incr or decr leaves at the end.
Joined(h, i, j) ==
  IF h.nbytes[i] > Width(h.val[i]) THEN h.val[i]
  ELSE h.val[i] * 10 ^ Width(h.val[j]) + h.val[j]

\* Links item i for its key, in place of the item old if there is one.
LinkOver(h, old, i, now) ==
  IF old = NULL THEN do_item_link(h, i, now) ELSE do_item_replace(h, old, i, now)

\* The caller's reference on the old item, if there is one, is given back.
Released(h, old) == IF old = NULL THEN h ELSE do_item_remove(h, old)

\* append and prepend: a new item for the two values together takes the place of
\* the old one.  new is the item the client has sent.
Combine(h, old, new, comm, now) ==
  {IF a.it = NULL THEN [h |-> do_item_remove(a.h, old), ret |-> "NOT_STORED"]
   ELSE [h |-> do_item_remove(do_item_remove(do_item_replace(a.h, old, a.it, now), old),
                              a.it),
         ret |-> "STORED"] :
   a \in do_item_alloc(h, h.key[new],
           IF comm = "append" THEN Joined(h, old, new) ELSE Joined(h, new, old),
           h.exptime[old], h.nbytes[new] + h.nbytes[old], now)}

\* Mutant: any CAS id will do.
CasMatchesAny(h, new, old) == TRUE

CasMatches(h, new, old) == h.cas[new] = h.cas[old]

\* Outcomes of storing item new, whose CAS field holds the id the client sent (0
\* if it sent none), by the command comm.
do_store_item(h0, new, comm, now, live) ==
  LET got == do_item_get(h0, h0.key[new], now, live)
      old == got.it
      h   == got.h
      Done(g, ret) == {[h |-> Released(g, old), ret |-> ret]}
      SameCas == CasMatches(h, new, old)
  IN  CASE comm = "add" /\ old # NULL ->
             Done(do_item_update(h, old, now), "NOT_STORED")
        [] comm \in {"replace", "append", "prepend"} /\ old = NULL ->
             Done(h, "NOT_STORED")
        [] comm = "cas" /\ old = NULL -> Done(h, "NOT_FOUND")
        [] comm = "cas" /\ old # NULL /\ ~SameCas -> Done(h, "EXISTS")
        [] comm \in {"append", "prepend"} /\ old # NULL ->
             IF h.cas[new] # 0 /\ ~SameCas THEN Done(h, "EXISTS")
             ELSE Combine(h, old, new, comm, now)
        [] OTHER -> Done(LinkOver(h, old, new, now), "STORED")

-----------------------------------------------------------------------------
(* do_add_delta *)

\* Mutant: a value written in place keeps its CAS id.
do_add_delta_SameCas(h, i, incr, delta, now) ==
  LET v == IF incr THEN Incr(h.val[i], delta) ELSE Decr(h.val[i], delta)
  IN  {[h |-> [h EXCEPT !.val[i] = v], ret |-> "OK"]}

\* A result that needs no more room than the item has is written in place, with
\* a new CAS id, whether or not the item is still linked; a longer one goes
\* to a new item that takes the place of the old one.
do_add_delta(h, i, incr, delta, now) ==
  LET v == IF incr THEN Incr(h.val[i], delta) ELSE Decr(h.val[i], delta)
  IN  IF Width(v) <= h.nbytes[i]
      THEN {[h |-> [h EXCEPT !.cas_id = @ + 1, !.cas[i] = h.cas_id + 1, !.val[i] = v],
             ret |-> "OK"]}
      ELSE {IF a.it = NULL THEN [h |-> a.h, ret |-> "EOM"]
            ELSE [h |-> do_item_remove(do_item_replace(a.h, i, a.it, now), a.it),
                  ret |-> "OK"] :
            a \in do_item_alloc(h, h.key[i], v, h.exptime[i], Width(v), now)}

-----------------------------------------------------------------------------
(* What a cache is made of *)

CacheType ==
  [assoc : [Keys -> Items \cup {NULL}], lru : Seq(Items),
   free : SUBSET Items, linked : [Items -> BOOLEAN],
   refcount : [Items -> 0 .. RefWrap - 1], key : [Items -> Keys \cup {NULL}],
   val : [Items -> Int], nbytes : [Items -> Nat],
   time : [Items -> Nat], exptime : [Items -> Nat],
   cas : [Items -> Nat], cas_id : Nat,
   uncounted : BOOLEAN, aborted : BOOLEAN]
=============================================================================
