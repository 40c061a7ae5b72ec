-------------------------------- MODULE Assoc --------------------------------
(***************************************************************************)
(* The hash table of memcached 1.4.5 (assoc.c): a power-of-two table that  *)
(* doubles when it is crowded.  After a doubling the old table stays in    *)
(* use; a maintenance thread moves its buckets, a few for each time it     *)
(* takes cache_lock, and every lookup decides from expand_bucket which of  *)
(* the two tables holds the key.                                           *)
(*                                                                         *)
(* Every client operation runs with cache_lock held (thread.c), so it is   *)
(* one step.  A chain is the set of its keys: assoc_find looks at all of   *)
(* them and the keys of a table are distinct.                              *)
(***************************************************************************)
EXTENDS Integers, FiniteSets

CONSTANTS
  Keys,        \* the keys clients use
  Hash,        \* hash(): the 32-bit hash value of each key
  HashSize,    \* hashsize(n) of each power: the number of buckets, 2^n
  InitPower,   \* hashpower at start-up (16 in assoc.c)
  MaxPower,    \* bound: calloc fails for a table of a power above MaxPower
  BulkMove     \* hash_bulk_move, at least 1

ASSUME AssocAssumption ==
  /\ IsFiniteSet(Keys)
  /\ Hash \in [Keys -> Nat]
  /\ InitPower \in Nat /\ MaxPower \in Nat /\ BulkMove \in Nat \ {0}
  /\ InitPower <= MaxPower
  /\ HashSize \in [0 .. MaxPower -> Nat \ {0}]

VARIABLES
  hashpower, primary_hashtable, old_hashtable, hash_items, expanding,
  expand_bucket,
  maint,       \* where assoc_maintenance_thread is
  do_run,      \* do_run_maintenance_thread
  main         \* where the main thread is: event loop, pthread_join, after it

table == <<hashpower, primary_hashtable, old_hashtable, hash_items, expanding,
           expand_bucket>>
vars == <<table, maint, do_run, main>>

hashsize(n) == HashSize[n]

\* hv & hashmask(n)
Bucket(k, n) == Hash[k] % hashsize(n)

NoTable == [b \in {} |-> {}]
EmptyTable(n) == [b \in 0 .. hashsize(n) - 1 |-> {}]

\* The table assoc_find, assoc_insert and _hashitem_before use for key k.
InOld(k) == expanding /\ Bucket(k, hashpower - 1) >= expand_bucket

\* Mutant: the old table is forgotten.
assoc_find_NewTableOnly(k) == k \in primary_hashtable[Bucket(k, hashpower)]

assoc_find(k) ==
  IF InOld(k) THEN k \in old_hashtable[Bucket(k, hashpower - 1)]
              ELSE k \in primary_hashtable[Bucket(k, hashpower)]

Init ==
  /\ hashpower = InitPower
  /\ primary_hashtable = EmptyTable(InitPower)
  /\ old_hashtable = NoTable
  /\ hash_items = 0
  /\ expanding = FALSE
  /\ expand_bucket = 0
  /\ maint = "test"
  /\ do_run = TRUE
  /\ main = "event_loop"

\* Mutant: assoc_expand does not signal.
SignalMissing == maint

\* pthread_cond_signal(&maintenance_cond)
Signal == IF maint = "waiting" THEN "woken" ELSE maint

\* Mutant: during an expansion every new key goes to the old table.
LinkKeyOld(k) ==
  IF expanding
  THEN <<[old_hashtable EXCEPT ![Bucket(k, hashpower - 1)] = @ \cup {k}],
         primary_hashtable>>
  ELSE <<old_hashtable,
         [primary_hashtable EXCEPT ![Bucket(k, hashpower)] = @ \cup {k}]>>

\* The chains of the table after k is put at the head of its chain.
LinkKey(k) ==
  IF InOld(k)
  THEN <<[old_hashtable EXCEPT ![Bucket(k, hashpower - 1)] = @ \cup {k}],
         primary_hashtable>>
  ELSE <<old_hashtable,
         [primary_hashtable EXCEPT ![Bucket(k, hashpower)] = @ \cup {k}]>>

\* Mutant: a second expansion may start during the first.
MustExpandAgain == hash_items + 1 > (hashsize(hashpower) * 3) \div 2

MustExpand == ~expanding /\ hash_items + 1 > (hashsize(hashpower) * 3) \div 2

\* assoc_insert when the table stays as large as it is, either because it is
\* not crowded or because assoc_expand could not allocate a larger one.
InsertInPlace(k) ==
  /\ ~assoc_find(k)
  /\ old_hashtable' = LinkKey(k)[1]
  /\ primary_hashtable' = LinkKey(k)[2]
  /\ hash_items' = hash_items + 1
  /\ UNCHANGED <<hashpower, expanding, expand_bucket, maint, do_run, main>>

\* assoc_insert that makes the table crowded: assoc_expand allocates the
\* larger table, keeps the present one as old_hashtable and wakes the
\* maintenance thread.
InsertAndExpand(k) ==
  /\ ~assoc_find(k)
  /\ MustExpand
  /\ hashpower < MaxPower
  /\ old_hashtable' = LinkKey(k)[2]
  /\ primary_hashtable' = EmptyTable(hashpower + 1)
  /\ hash_items' = hash_items + 1
  /\ hashpower' = hashpower + 1
  /\ expanding' = TRUE
  /\ expand_bucket' = 0
  /\ maint' = Signal
  /\ UNCHANGED <<do_run, main>>

\* assoc_delete; its callers only delete what they have found.
Delete(k) ==
  /\ assoc_find(k)
  /\ IF InOld(k)
     THEN /\ old_hashtable' =
               [old_hashtable EXCEPT ![Bucket(k, hashpower - 1)] = @ \ {k}]
          /\ UNCHANGED primary_hashtable
     ELSE /\ primary_hashtable' =
               [primary_hashtable EXCEPT ![Bucket(k, hashpower)] = @ \ {k}]
          /\ UNCHANGED old_hashtable
  /\ hash_items' = hash_items - 1
  /\ UNCHANGED <<hashpower, expanding, expand_bucket, maint, do_run, main>>

-----------------------------------------------------------------------------
\* The maintenance thread.

\* The loop test reads do_run without the lock.
MaintTest ==
  /\ maint = "test"
  /\ maint' = IF do_run THEN "lock" ELSE "exited"
  /\ UNCHANGED <<table, do_run, main>>

\* Mutant: a bulk move of nothing.
MoveLimitNone == expand_bucket

\* The bucket after the last one this hold of the lock moves.
MoveLimit ==
  IF expand_bucket + BulkMove < hashsize(hashpower - 1)
  THEN expand_bucket + BulkMove ELSE hashsize(hashpower - 1)

Moved == UNION {old_hashtable[b] : b \in expand_bucket .. MoveLimit - 1}

\* One hold of the lock while expanding: up to BulkMove buckets move.  With the
\* last one the old table is freed, and the thread waits on the condition.
MaintMove ==
  /\ maint = "lock"
  /\ expanding
  /\ primary_hashtable' =
       [b \in DOMAIN primary_hashtable |->
          primary_hashtable[b] \cup {k \in Moved : Bucket(k, hashpower) = b}]
  /\ expand_bucket' = MoveLimit
  /\ expanding' = (MoveLimit # hashsize(hashpower - 1))
  /\ old_hashtable' =
       IF expanding'
       THEN [b \in DOMAIN old_hashtable |->
               IF b \in expand_bucket .. MoveLimit - 1 THEN {}
               ELSE old_hashtable[b]]
       ELSE NoTable
  /\ maint' = IF expanding' THEN "test" ELSE "waiting"
  /\ UNCHANGED <<hashpower, hash_items, do_run, main>>

\* Nothing to move: pthread_cond_wait, in the same hold of the lock.
MaintWait ==
  /\ maint = "lock"
  /\ ~expanding
  /\ maint' = "waiting"
  /\ UNCHANGED <<table, do_run, main>>

\* pthread_cond_wait returns with the lock and the thread gives it up.
MaintWoken ==
  /\ maint = "woken"
  /\ maint' = "test"
  /\ UNCHANGED <<table, do_run, main>>

\* pthread_cond_wait may also return without a signal.
MaintSpurious ==
  /\ maint = "waiting"
  /\ maint' = "woken"
  /\ UNCHANGED <<table, do_run, main>>

Maintenance == MaintTest \/ MaintMove \/ MaintWait \/ MaintWoken

-----------------------------------------------------------------------------
\* The main thread, once its event loop has returned.

StopRequest ==
  /\ main = "event_loop"
  /\ do_run' = FALSE
  /\ maint' = Signal
  /\ main' = "joining"
  /\ UNCHANGED table

StopJoined ==
  /\ main = "joining"
  /\ maint = "exited"
  /\ main' = "stopped"
  /\ UNCHANGED <<table, maint, do_run>>

Stop == StopRequest \/ StopJoined

Client ==
  \E k \in Keys : InsertInPlace(k) \/ InsertAndExpand(k) \/ Delete(k)

Next == Client \/ Maintenance \/ MaintSpurious \/ Stop

Spec == Init /\ [][Next]_vars

\* The mutex is free between steps and the scheduler runs every thread, so
\* the maintenance thread and the joining main thread keep moving.
FairSpec == Spec /\ WF_vars(Maintenance) /\ WF_vars(StopJoined)
-----------------------------------------------------------------------------
(* Properties *)

TypeOK ==
  /\ hashpower \in InitPower .. MaxPower
  /\ primary_hashtable \in [0 .. hashsize(hashpower) - 1 -> SUBSET Keys]
  /\ old_hashtable \in IF expanding
                       THEN [0 .. hashsize(hashpower - 1) - 1 -> SUBSET Keys]
                       ELSE [{} -> SUBSET Keys]
  /\ expanding => hashpower > InitPower
  /\ hash_items \in Nat
  /\ expanding \in BOOLEAN
  /\ expand_bucket \in Nat
  /\ expanding => expand_bucket < hashsize(hashpower - 1)
  /\ maint \in {"test", "lock", "waiting", "woken", "exited"}
  /\ do_run \in BOOLEAN
  /\ main \in {"event_loop", "joining", "stopped"}

Findable == {k \in Keys : assoc_find(k)}

\* Every key lies in the one chain in which assoc_find looks for it, in
\* whichever table the migration has left it: no key is lost, found twice
\* or left behind in a bucket that counts as moved.
KeysWhereSought ==
  /\ \A b \in DOMAIN primary_hashtable : \A k \in primary_hashtable[b] :
       ~InOld(k) /\ Bucket(k, hashpower) = b
  /\ \A b \in DOMAIN old_hashtable : \A k \in old_hashtable[b] :
       InOld(k) /\ Bucket(k, hashpower - 1) = b

\* hash_items, on which the decision to grow depends, counts the keys that can
\* be found, through every growth and every move.
ItemsCounted == hash_items = Cardinality(Findable)

\* The maintenance thread never sleeps on maintenance_cond while buckets
\* wait to be moved: assoc_expand's signal is not lost.
NoSleepWhileExpanding == maint = "waiting" => ~expanding

Set == INSTANCE KeySet WITH keys <- Findable

\* For its callers the table is a set of keys: an insertion or a deletion
\* changes the one key, growth and migration change nothing.
ImplementsKeySet == Set!Spec

\* A growth that has started is completed, unless the server is stopping.
ExpansionEnds == expanding ~> (~expanding \/ ~do_run)

\* stop_assoc_maintenance_thread waits "for the maintenance thread to stop"
\* (assoc.c:267) and comes back.
StopReturns == (main = "joining") ~> (main = "stopped")
=============================================================================
