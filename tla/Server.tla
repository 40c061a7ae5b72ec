------------------------------- MODULE Server -------------------------------
(***************************************************************************)
(* Client connections at work on one item cache (memcached.c 1.4.5).       *)
(*                                                                         *)
(* Worker threads interleave wherever cache_lock is free, so a command is  *)
(* the sequence of its calls to the locking wrappers of thread.c           *)
(* (item_get, item_update, item_remove, ...): one action per call.         *)
(* Connections of one worker interleave only where a command waits for the *)
(* network; connections of different workers everywhere, and that general  *)
(* case is what is modelled.  Between its steps a connection holds items   *)
(* by reference: one in c->item (or in a local variable), slot 0, and      *)
(* those of a get in c->ilist, slots 1 and up.                             *)
(***************************************************************************)
EXTENDS Cache

CONSTANTS
  Conns,       \* connections
  Cmds,        \* the commands the clients use
  SetVals,     \* values the clients store
  Exptimes,    \* relative expiration times they give (0: never)
  Deltas,      \* amounts of incr and decr
  Delays,      \* delays of flush_all, 0 for none
  NoMemory,    \* whether malloc may fail
  MaxGets,     \* bound: hits of one get
  MaxRefs,     \* bound: no get takes a reference beyond this count
  StartTime,   \* current_time at start-up; 2, as process_started is time(0) - 2
  MaxTime,     \* bound on current_time
  MaxCas       \* bound: no command that links or writes starts beyond this CAS id

StoreCmds == {"set", "add", "replace", "append", "prepend", "cas"}

ASSUME ServerAssumption ==
  /\ IsFiniteSet(Conns) /\ MaxGets \in Nat /\ MaxRefs \in Nat /\ NoMemory \in BOOLEAN
  /\ Cmds \subseteq StoreCmds \cup {"get", "delete", "incr", "decr", "flush_all"}
  /\ SetVals \subseteq UInt64 /\ Exptimes \subseteq Nat /\ Deltas \subseteq UInt64
  /\ Delays \subseteq Nat
  /\ StartTime \in Nat \ {0} /\ MaxTime \in Nat /\ MaxCas \in Nat

VARIABLES
  cache,         \* what cache_lock protects
  current_time,
  oldest_live,   \* settings.oldest_live, written without the lock
  pc,            \* where each connection is in its command
  cmd,           \* c->cmd and the key of the command line, while they are needed
  slot,          \* slot[<<c, 0>>]: c->item or a local item; slot[<<c, n>>]: c->ilist[n - 1]
  got,           \* i in process_get_command, 0 outside it
  icurr,         \* c->icurr, as a slot number
  ileft,         \* c->ileft
  reply,         \* what out_string has for the client of a store command
  leaked,        \* history: references nobody will give back, per item
  flushed        \* history: what the last flush_all put out of reach, by its CAS id

connvars == <<pc, cmd, slot, got, icurr, ileft, reply>>
timevars == <<current_time, oldest_live>>
history  == <<leaked, flushed>>
vars == <<cache, timevars, connvars, history>>

\* Everything up to a CAS id, but for the items that gets had in hand.
NoFlush == [upto |-> 0, but |-> {}]

NoCmd == [comm |-> "none", key |-> NULL]

Slots == 0 .. MaxGets
Refs  == Conns \X Slots

Init ==
  /\ cache = EmptyCache
  /\ current_time = StartTime
  /\ oldest_live = 0
  /\ pc = [c \in Conns |-> "idle"]
  /\ cmd = [c \in Conns |-> NoCmd]
  /\ slot = [r \in Refs |-> NULL]
  /\ got = [c \in Conns |-> 0]
  /\ icurr = [c \in Conns |-> 1]
  /\ ileft = [c \in Conns |-> 0]
  /\ reply = [c \in Conns |-> "none"]
  /\ leaked = [i \in Items |-> 0]
  /\ flushed = NoFlush

Goto(c, label) == pc' = [pc EXCEPT ![c] = label]

Put(c, s, it) == slot' = [slot EXCEPT ![<<c, s>>] = it]

\* A get's bookkeeping and the clock are not touched by the other commands.
getvars == <<got, icurr, ileft>>

Lookup(k) == do_item_get(cache, k, current_time, oldest_live)

\* item_get by a command that goes on to "next" with a hit and to "miss" without.
Get(c, k, next, miss) ==
  /\ cache' = Lookup(k).h
  /\ Put(c, 0, Lookup(k).it)
  /\ Goto(c, IF Lookup(k).it = NULL THEN miss ELSE next)

\* Relative expiration times only (at most 30 days): realtime()
realtime(exptime) == IF exptime = 0 THEN 0 ELSE exptime + current_time
-----------------------------------------------------------------------------
(* get and gets: process_get_command, conn_mwrite *)

GetStart(c) ==
  /\ "get" \in Cmds
  /\ pc[c] = "idle"
  /\ Goto(c, "get")
  /\ UNCHANGED <<reply, cache, timevars, cmd, slot, getvars, history>>

\* One key of the command line.
GetKey(c, k) ==
  /\ pc[c] = "get"
  /\ got[c] < MaxGets
  /\ \A i \in {cache.assoc[k]} \ {NULL} : cache.refcount[i] < MaxRefs
  /\ Get(c, k, "get_update", "get")
  /\ UNCHANGED <<reply, timevars, cmd, getvars, history>>

\* The hit is moved up in the LRU and put into c->ilist, over whatever was left
\* there.
GetUpdate(c) ==
  /\ pc[c] \in {"get_update", "get_last_update"}
  /\ LET n == got[c] + 1
         old == slot[<<c, n>>]
     IN  /\ cache' = do_item_update(cache, slot[<<c, 0>>], current_time)
         /\ slot' = [slot EXCEPT ![<<c, n>>] = slot[<<c, 0>>], ![<<c, 0>>] = NULL]
         /\ leaked' = IF old = NULL THEN leaked ELSE [leaked EXCEPT ![old] = @ + 1]
  /\ got' = [got EXCEPT ![c] = @ + 1]
  /\ Goto(c, IF pc[c] = "get_update" THEN "get" ELSE "get_last")
  /\ UNCHANGED <<reply, timevars, cmd, icurr, ileft, flushed>>

\* No memory for c->ilist, c->suffixlist or the iovec: the item is given back and
\* the loop is left, but key_token->value is not NULL, so the key is split off
\* a second time (the line ends behind it now) and looked up again as the last.
GetNoMemory(c) ==
  /\ pc[c] \in {"get_update", "get_last_update"}
  /\ cache' = do_item_remove(cache, slot[<<c, 0>>])
  /\ cmd' = [cmd EXCEPT ![c] = [comm |-> "get", key |-> cache.key[slot[<<c, 0>>]]]]
  /\ Put(c, 0, NULL)
  /\ Goto(c, "get_retry")
  /\ UNCHANGED <<reply, timevars, getvars, history>>

GetRetry(c) ==
  /\ pc[c] = "get_retry"
  /\ Get(c, cmd[c].key, "get_last_update", "get_last")
  /\ cmd' = [cmd EXCEPT ![c] = NoCmd]
  /\ UNCHANGED <<reply, timevars, getvars, history>>

\* References of c in slots outside lo .. hi: no code will look at them again.
Stranded(c, lo, hi) == {s \in 1 .. MaxGets : s \notin lo .. hi /\ slot[<<c, s>>] # NULL}

Abandon(c, lo, hi) ==
  /\ slot' = [r \in Refs |-> IF r[1] = c /\ r[2] \in {0} \cup Stranded(c, lo, hi)
                             THEN NULL ELSE slot[r]]
  /\ leaked' = [i \in Items |->
                  leaked[i] + Cardinality({s \in Stranded(c, lo, hi) : slot[<<c, s>>] = i})]

\* All keys are looked up: icurr and ileft make the references in c->ilist the
\* ones conn_mwrite, or conn_cleanup, gives back.  If "END" cannot be added the
\* connection writes an error instead, and keeps them.
GetDone(c) ==
  /\ pc[c] \in {"get", "get_last"}
  /\ icurr' = [icurr EXCEPT ![c] = 1]
  /\ ileft' = [ileft EXCEPT ![c] = got[c]]
  /\ got' = [got EXCEPT ![c] = 0]
  /\ Abandon(c, 1, got[c])
  /\ Goto(c, "mwrite") \/ (NoMemory /\ Goto(c, "idle"))
  /\ UNCHANGED <<reply, cache, timevars, cmd, flushed>>

\* A key longer than KEY_MAX_LENGTH after some hits: the command returns without
\* setting ileft.
GetKeyTooLong(c) ==
  /\ pc[c] = "get"
  /\ Abandon(c, icurr[c], icurr[c] + ileft[c] - 1)
  /\ got' = [got EXCEPT ![c] = 0]
  /\ Goto(c, "idle")
  /\ UNCHANGED <<reply, cache, timevars, cmd, icurr, ileft, flushed>>

\* No suffix buffer for a gets: the item is given back, and again the command
\* returns without setting ileft.
GetNoSuffix(c) ==
  /\ pc[c] \in {"get_update", "get_last_update"}
  /\ cache' = do_item_remove(cache, slot[<<c, 0>>])
  /\ Abandon(c, icurr[c], icurr[c] + ileft[c] - 1)
  /\ got' = [got EXCEPT ![c] = 0]
  /\ Goto(c, "idle")
  /\ UNCHANGED <<reply, timevars, cmd, icurr, ileft, flushed>>

\* The reply is sent: drive_machine gives the items of c->ilist back one by one.
Release1(c, label) ==
  /\ pc[c] = label
  /\ ileft[c] > 0
  /\ cache' = do_item_remove(cache, slot[<<c, icurr[c]>>])
  /\ Put(c, icurr[c], NULL)
  /\ icurr' = [icurr EXCEPT ![c] = @ + 1]
  /\ ileft' = [ileft EXCEPT ![c] = @ - 1]
  /\ UNCHANGED <<reply, timevars, cmd, pc, got, history>>

MwriteRelease(c) == Release1(c, "mwrite")

MwriteDone(c) ==
  /\ pc[c] = "mwrite"
  /\ ileft[c] = 0
  /\ Goto(c, "idle")
  /\ UNCHANGED <<reply, cache, timevars, cmd, slot, getvars, history>>

-----------------------------------------------------------------------------
(* set, add, replace, append, prepend, cas *)

\* process_update_command: the item is allocated when the command line is read.
Update(c, comm, k, v, e, u) ==
  /\ comm \in Cmds
  /\ pc[c] = "idle"
  /\ cache.cas_id < MaxCas
  /\ \E a \in do_item_alloc(cache, k, v, realtime(e), Width(v), current_time) :
       IF a.it # NULL
       THEN /\ cache' = [a.h EXCEPT !.cas[a.it] = u]
            /\ Put(c, 0, a.it)
            /\ Goto(c, "nread")
            /\ cmd' = [cmd EXCEPT ![c] = [comm |-> comm, key |-> k]]
       ELSE /\ cache' = a.h
            /\ UNCHANGED slot
            /\ IF comm = "set"
               THEN /\ Goto(c, "set_failed")
                    /\ cmd' = [cmd EXCEPT ![c] = [comm |-> comm, key |-> k]]
               ELSE UNCHANGED <<pc, cmd>>
  /\ UNCHANGED <<reply, timevars, getvars, history>>

\* A set that could not allocate takes the old value out of the cache.
SetFailed(c) ==
  /\ pc[c] = "set_failed"
  /\ Get(c, cmd[c].key, "unlink", "idle")
  /\ cmd' = [cmd EXCEPT ![c] = NoCmd]
  /\ UNCHANGED <<reply, timevars, getvars, history>>

\* item_unlink, of delete and of the failed set
Unlink(c) ==
  /\ pc[c] = "unlink"
  /\ cache' = do_item_unlink(cache, slot[<<c, 0>>])
  /\ Goto(c, "remove")
  /\ UNCHANGED <<reply, timevars, cmd, slot, getvars, history>>

\* complete_nread_ascii: the data has arrived and the item is stored.
StoreItem(c) ==
  /\ pc[c] = "nread"
  /\ \E o \in do_store_item(cache, slot[<<c, 0>>], cmd[c].comm, current_time, oldest_live) :
       /\ cache' = o.h
       /\ reply' = [reply EXCEPT ![c] = o.ret]
  /\ Goto(c, "remove")
  /\ UNCHANGED <<timevars, cmd, slot, getvars, history>>

\* The data block does not end in \r\n.
BadDataChunk(c) ==
  /\ pc[c] = "nread"
  /\ Goto(c, "remove")
  /\ UNCHANGED <<reply, cache, timevars, cmd, slot, getvars, history>>

\* item_remove: the command's own reference is given back.
Remove(c) ==
  /\ pc[c] = "remove"
  /\ cache' = do_item_remove(cache, slot[<<c, 0>>])
  /\ Put(c, 0, NULL)
  /\ cmd' = [cmd EXCEPT ![c] = NoCmd]
  /\ reply' = [reply EXCEPT ![c] = "none"]
  /\ Goto(c, "idle")
  /\ UNCHANGED <<timevars, getvars, history>>
-----------------------------------------------------------------------------
(* delete, incr and decr *)

\* process_delete_command: item_get, item_unlink and item_remove take the lock
\* one after the other.
Delete(c, k) ==
  /\ "delete" \in Cmds
  /\ pc[c] = "idle"
  /\ Get(c, k, "unlink", "idle")
  /\ UNCHANGED <<reply, timevars, cmd, getvars, history>>

\* process_arithmetic_command: the item is looked up under the lock, and changed
\* under it a second time.
Arithmetic(c, k) ==
  /\ Cmds \cap {"incr", "decr"} # {}
  /\ pc[c] = "idle"
  /\ cache.cas_id < MaxCas
  /\ Get(c, k, "delta", "idle")
  /\ UNCHANGED <<reply, timevars, cmd, getvars, history>>

AddDelta(c, incr, delta) ==
  /\ (IF incr THEN "incr" ELSE "decr") \in Cmds
  /\ pc[c] = "delta"
  /\ \E o \in do_add_delta(cache, slot[<<c, 0>>], incr, delta, current_time) :
       cache' = o.h
  /\ Goto(c, "remove")
  /\ UNCHANGED <<reply, timevars, cmd, slot, getvars, history>>

-----------------------------------------------------------------------------
(* flush_all, the clock, and connections that close *)

\* oldest_live is set without the lock ...
FlushAll(c, delay) ==
  /\ "flush_all" \in Cmds
  /\ pc[c] = "idle"
  /\ oldest_live' = IF delay > 0 THEN realtime(delay) - 1 ELSE current_time - 1
  /\ Goto(c, IF delay > 0 THEN "flush_later" ELSE "flush")
  /\ UNCHANGED <<reply, cache, current_time, cmd, slot, getvars, history>>

\* The items that gets have found and not moved up in the LRU yet.
FoundByGets ==
  {slot[<<c, 0>>] : c \in {x \in Conns : pc[x] \in {"get_update", "get_last_update"}}}

\* ... and item_flush_expired runs with it.
FlushExpired(c) ==
  /\ pc[c] \in {"flush", "flush_later"}
  /\ cache' = do_item_flush_expired(cache, oldest_live)
  /\ flushed' = IF pc[c] = "flush"
                THEN [upto |-> cache.cas_id, but |-> {cache.cas[i] : i \in FoundByGets}]
                ELSE flushed
  /\ Goto(c, "idle")
  /\ UNCHANGED <<reply, timevars, cmd, slot, getvars, leaked>>

\* clock_handler, once a second; also set_current_time in flush_all.
Tick ==
  /\ current_time < MaxTime
  /\ current_time' = current_time + 1
  /\ UNCHANGED <<cache, oldest_live, connvars, history>>

\* The client goes away while the connection waits for the network; conn_close
\* then gives back c->item and what is left of c->ilist.  The connection
\* structure is reused for the next client.
Close(c) ==
  /\ pc[c] \in {"idle", "nread", "mwrite"}
  /\ slot[<<c, 0>>] # NULL \/ ileft[c] > 0
  /\ Goto(c, IF slot[<<c, 0>>] # NULL THEN "close_item" ELSE "closing")
  /\ UNCHANGED <<reply, cache, timevars, cmd, slot, getvars, history>>

CloseItem(c) ==
  /\ pc[c] = "close_item"
  /\ cache' = do_item_remove(cache, slot[<<c, 0>>])
  /\ Put(c, 0, NULL)
  /\ Goto(c, "closing")
  /\ UNCHANGED <<reply, timevars, cmd, getvars, history>>

CloseRelease(c) == Release1(c, "closing")

Closed(c) ==
  /\ pc[c] = "closing"
  /\ ileft[c] = 0
  /\ cmd' = [cmd EXCEPT ![c] = NoCmd]
  /\ Goto(c, "idle")
  /\ UNCHANGED <<reply, cache, timevars, slot, getvars, history>>

-----------------------------------------------------------------------------

GetStep(c) ==
  \/ GetStart(c) \/ GetUpdate(c) \/ GetDone(c) \/ GetRetry(c)
  \/ MwriteRelease(c) \/ MwriteDone(c) \/ GetKeyTooLong(c)
  \/ NoMemory /\ (GetNoMemory(c) \/ GetNoSuffix(c))
  \/ \E k \in Keys : GetKey(c, k)

StoreStep(c) ==
  \/ \E comm \in StoreCmds, k \in Keys, v \in SetVals, e \in Exptimes :
       \/ comm # "cas" /\ Update(c, comm, k, v, e, 0)
       \/ \E u \in 1 .. cache.cas_id :
            comm \in {"cas", "append", "prepend"} /\ Update(c, comm, k, v, e, u)
  \/ SetFailed(c) \/ StoreItem(c) \/ BadDataChunk(c)

OtherStep(c) ==
  \/ \E k \in Keys : Delete(c, k) \/ Arithmetic(c, k)
  \/ \E incr \in BOOLEAN, delta \in Deltas : AddDelta(c, incr, delta)
  \/ \E delay \in Delays : FlushAll(c, delay)
  \/ Unlink(c) \/ Remove(c) \/ FlushExpired(c)
  \/ Close(c) \/ CloseItem(c) \/ CloseRelease(c) \/ Closed(c)

ConnStep(c) == GetStep(c) \/ StoreStep(c) \/ OtherStep(c)

\* Some connection refers to a chunk that is free.  What it does with it is
\* undefined, and is not followed any further.
UseAfterFree == \E r \in Refs : slot[r] \in cache.free

Next ==
  /\ ~cache.aborted
  /\ ~UseAfterFree
  /\ Tick \/ \E c \in Conns : ConnStep(c)

Spec == Init /\ [][Next]_vars
-----------------------------------------------------------------------------
(* Properties *)

Labels == {"idle", "get", "get_update", "get_retry", "get_last_update", "get_last",
           "mwrite", "nread", "set_failed", "unlink", "remove", "delta", "flush",
           "flush_later", "close_item", "closing"}

TypeOK ==
  /\ cache \in CacheType
  /\ current_time \in Nat /\ oldest_live \in Nat
  /\ pc \in [Conns -> Labels]
  /\ cmd \in [Conns -> [comm : StoreCmds \cup {"get", "none"}, key : Keys \cup {NULL}]]
  /\ slot \in [Refs -> Items \cup {NULL}]
  /\ got \in [Conns -> 0 .. MaxGets]
  /\ icurr \in [Conns -> 1 .. MaxGets + 1] /\ ileft \in [Conns -> 0 .. MaxGets]
  /\ reply \in [Conns -> {"none", "STORED", "NOT_STORED", "EXISTS", "NOT_FOUND"}]
  /\ leaked \in [Items -> Nat] /\ flushed \in [upto : Nat, but : SUBSET Nat]

\* The hash table, the LRU, the LINKED flags and the slab free list, which four
\* files maintain by hand, agree about every item: what is linked is found
\* under its key, is in the LRU once, and is not free.
StructuresAgree == cache.aborted \/
  /\ \A i \in Items : cache.linked[i] <=> \E k \in Keys : cache.assoc[k] = i
  /\ \A k \in Keys : cache.assoc[k] # NULL => cache.key[cache.assoc[k]] = k
  /\ {cache.lru[j] : j \in DOMAIN cache.lru} = {i \in Items : cache.linked[i]}
  /\ \A j, m \in DOMAIN cache.lru : cache.lru[j] = cache.lru[m] => j = m
  /\ \A i \in cache.free : ~cache.linked[i] /\ cache.refcount[i] = 0

\* A chunk is free exactly when nothing needs it: no chunk is lost to a failed
\* or abandoned command.
NoChunkLost == cache.aborted \/
  \A i \in Items : i \in cache.free \/ cache.linked[i] \/ cache.refcount[i] > 0

Holders(i) == {r \in Refs : slot[r] = i}

\* refcount counts the references that connections hold, and those they have
\* lost; only the tail repair and a count that wraps break this.
RefcountsMatch == cache.aborted \/ cache.uncounted \/
  \A i \in Items : cache.refcount[i] = Cardinality(Holders(i)) + leaked[i]

\* Nothing a connection still uses is freed or handed out again: no use after
\* free, whatever is deleted, replaced, evicted or flushed meanwhile.
HeldNotFreed == cache.aborted \/ cache.uncounted \/ ~UseAfterFree

\* "The LRU is sorted in decreasing time order" (items.c:531): what
\* item_flush_expired relies on to stop at the first old item.
LruSorted == cache.aborted \/
  \A j \in 1 .. Len(cache.lru) - 1 :
    cache.time[cache.lru[j]] >= cache.time[cache.lru[j + 1]]

\* The ids of cached items are distinct, and none is ahead of the counter.
CasIdsUnique == cache.aborted \/
  \A i, j \in {x \in Items : cache.linked[x]} :
    /\ cache.cas[i] <= cache.cas_id
    /\ cache.cas[i] = cache.cas[j] => i = j

\* The value a retrieval of k would return, with its CAS id.
Visible(k) ==
  LET i == cache.assoc[k]
  IN  IF i = NULL THEN NULL
      ELSE IF Flushed(cache, i, current_time, oldest_live)
              \/ OutOfDate(cache, i, current_time) THEN NULL
      ELSE [val |-> cache.val[i], cas |-> cache.cas[i]]

\* A value never changes under its CAS id, not even when incr or decr write in
\* place: the id a client got from gets is still current only if nothing has
\* been written since.
ValueChangeIsNewCas ==
  [][\A k \in Keys :
       (Visible(k) # NULL /\ Visible(k)' # NULL /\ Visible(k)' # Visible(k))
         => Visible(k).cas <= cache.cas_id /\ Visible(k)'.cas > cache.cas_id]_vars

\* A retrieval finds an item.
Finds(c) == pc[c] \in {"get", "get_retry"} /\ pc'[c] \in {"get_update", "get_last_update"}


\* "after invalidation none of the items will be returned in response to a
\* retrieval command" (protocol.txt:587): what flush_all is documented to do.
FlushedNeverServed ==
  [][\A c \in Conns : Finds(c) => cache.cas[slot'[<<c, 0>>]] > flushed.upto]_vars

\* incr and decr "won't pretend that a non-existent key exists"
\* (protocol.txt:282): they never bring a key into the cache.
ArithmeticNeverCreates ==
  [][\A c \in Conns, k \in Keys :
       (pc[c] = "delta" /\ pc'[c] # "delta" /\ cache.assoc[k] = NULL)
         => cache'.assoc[k] = NULL]_vars

\* assoc_insert "shouldn't have duplicately named things defined" (assoc.c:153):
\* none of the assertions about items fails.
NoAssertFails == ~cache.aborted

\* Every reference that is taken is given back by someone.
NoReferenceLost == \A i \in Items : leaked[i] = 0

KV == INSTANCE KVStore WITH
  Vals  <- UInt64,
  Joins <- LAMBDA v, w : {v * 10 ^ Width(w) + w, v},
  Sums  <- LAMBDA v : UNION {{(v + d) % Wrap, IF d > v THEN 0 ELSE v - d} : d \in Deltas},
  store <- [k \in Keys |-> Visible(k)],
  ids   <- cache.cas_id,
  pending <- [c \in Conns |->
    IF pc[c] = "nread"
    THEN [comm |-> cmd[c].comm, key |-> cmd[c].key,
          val |-> cache.val[slot[<<c, 0>>]], cas |-> cache.cas[slot[<<c, 0>>]]]
    ELSE [comm |-> "none", key |-> NULL, val |-> 0, cas |-> 0]]

\* Commands cut into several lock sections still take effect at one moment, on
\* the value of that moment, and their replies say so.
ImplementsKVStore == KV!Spec
=============================================================================
