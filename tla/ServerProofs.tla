---------------------------- MODULE ServerProofs ----------------------------
(***************************************************************************)
(* Theorems about Server: any number of connections and items, every       *)
(* interleaving of their calls.                                            *)
(*                                                                         *)
(* IInv joins three things that only hold together: the cache is sound and *)
(* every chunk accounted for (Good, of CacheProofs), each connection holds *)
(* what its label says it holds, and the reference counts are those of the *)
(* references.  A step of a connection is summed up as an Effect: what it  *)
(* does to the connection, to the cache, and to the balance of counts and  *)
(* references.  There is one lemma per action, <Action>Effect, and a few   *)
(* for what actions share: a reference taken by item_get (GetEffect), given*)
(* back by item_remove (GiveEffect), moved (GetUpdateEffect) or lost       *)
(* (LoseEffect).                                                           *)
(*                                                                         *)
(* The last part shows that the server implements KVStore: again one lemma *)
(* per action, <Action>Shows, which says what step of KVStore it is.       *)
(***************************************************************************)
EXTENDS Server, CacheProofs

\* The labels at which a connection has an item in slot 0.
HeldLabels == {"get_update", "get_last_update", "nread", "unlink", "remove", "delta", "close_item"}

\* The labels of process_get_command.
GetLabels == {"get", "get_update", "get_retry", "get_last_update", "get_last"}

\* The types of everything but the cache.
ConnTypes ==
  /\ current_time \in Nat /\ oldest_live \in Nat
  /\ pc \in [Conns -> Labels]
  /\ cmd \in [Conns -> [comm : StoreCmds \cup {"get", "none"}, key : Keys \cup {NULL}]]
  /\ slot \in [Refs -> Items \cup {NULL}]
  /\ got \in [Conns -> 0 .. MaxGets]
  /\ icurr \in [Conns -> 1 .. MaxGets + 1] /\ ileft \in [Conns -> 0 .. MaxGets]
  /\ reply \in [Conns -> {"none", "STORED", "NOT_STORED", "EXISTS", "NOT_FOUND"}]
  /\ leaked \in [Items -> Nat] /\ flushed \in [upto : Nat, but : SUBSET Nat]

\* What connection c holds at each of its labels.
ConnOK(c) ==
  /\ slot[<<c, 0>>] # NULL <=> pc[c] \in HeldLabels
  /\ icurr[c] + ileft[c] <= MaxGets + 1
  /\ \A n \in 1 .. MaxGets : icurr[c] <= n /\ n < icurr[c] + ileft[c] => slot[<<c, n>>] # NULL
  /\ \A n \in 1 .. MaxGets : n <= got[c] => slot[<<c, n>>] # NULL
  /\ got[c] # 0 => pc[c] \in GetLabels
  /\ pc[c] \in {"get_update", "get_retry", "get_last_update"} => got[c] < MaxGets
  /\ pc[c] \in {"get_retry", "set_failed"} => cmd[c].key \in Keys

\* The item a command line has allocated is out of everybody's sight.
Private ==
  /\ \A c \in Conns : pc[c] = "nread" => ~cache.linked[slot[<<c, 0>>]]
  /\ \A c, d \in Conns : c # d /\ pc[c] = "nread" /\ pc[d] = "nread" => slot[<<c, 0>>] # slot[<<d, 0>>]

IInv ==
  /\ ConnTypes /\ current_time # 0
  /\ \A c \in Conns : ConnOK(c)
  /\ Private
  /\ Good(cache, current_time)
  /\ RefcountsMatch

-----------------------------------------------------------------------------
(* How many references to an item there are *)

SlotMap == [Refs -> Items \cup {NULL}]

HoldersOf(s, i) == {r \in Refs : s[r] = i}

Count(s, i) == Cardinality(HoldersOf(s, i))

\* The counts of h are those of the references in s and of the lost ones, l.
Counted(h, s, l) == \A i \in Items : h.refcount[i] = Count(s, i) + l[i]

LEMMA CountNat ==
  ASSUME NEW s, NEW i
  PROVE  IsFiniteSet(HoldersOf(s, i)) /\ Count(s, i) \in Nat
<1>1. IsFiniteSet(Conns) /\ MaxGets \in Int /\ 0 \in Int
  BY ServerAssumption
<1> DEFINE zero == 0
           H == HoldersOf(s, i)
<1>2. IsFiniteSet(zero .. MaxGets)
  <2>1. zero \in Int
    OBVIOUS
  <2> HIDE DEF zero
  <2> QED BY <1>1, <2>1, FS_Interval
<1>3. IsFiniteSet(Conns \X (zero .. MaxGets))
  <2> HIDE DEF zero
  <2> QED BY <1>1, <1>2, FS_Product
<1>4. IsFiniteSet(Refs)
  BY <1>3 DEF Refs, Slots
<1>5. H \in SUBSET Refs
  BY DEF HoldersOf
<1> HIDE DEF H
<1>6. IsFiniteSet(H) /\ Cardinality(H) \in Nat
  BY <1>4, <1>5, FS_Subset, FS_CardinalityType
<1> QED BY <1>6 DEF H, Count

\* One reference more, in a slot that was empty.
LEMMA CountPut ==
  ASSUME NEW s, NEW t, NEW r \in Refs, s[r] = NULL, t[r] \in Items,
         \A q \in Refs : q # r => t[q] = s[q],
         NEW i \in Items
  PROVE  /\ i = t[r] => Count(t, i) = Count(s, i) + 1
         /\ i # t[r] => Count(t, i) = Count(s, i)
<1>1. NULL \notin Items
  BY CacheAssumption
<1>2. CASE i = t[r]
  <2> DEFINE H == HoldersOf(s, i)
  <2>1. HoldersOf(t, i) = H \cup {r} /\ r \notin H
    BY <1>1, <1>2 DEF HoldersOf
  <2>2. IsFiniteSet(H)
    BY CountNat
  <2> HIDE DEF H
  <2>3. Cardinality(H \cup {r}) = Cardinality(H) + 1
    BY <2>1, <2>2, FS_AddElement
  <2> QED BY <1>2, <2>1, <2>3 DEF Count, H
<1>3. CASE i # t[r]
  <2>1. HoldersOf(t, i) = HoldersOf(s, i)
    BY <1>1, <1>3 DEF HoldersOf
  <2> QED BY <1>3, <2>1 DEF Count
<1> QED BY <1>2, <1>3

LEMMA CountSame ==
  ASSUME NEW s, NEW t, \A q \in Refs : t[q] = s[q], NEW i
  PROVE  Count(t, i) = Count(s, i)
BY DEF Count, HoldersOf

\* The slots of N in which connection c has a reference to item i.
Within(s, c, N, i) == {n \in N : s[<<c, n>>] = i}

\* The references of connection c in the slots of N are dropped.
LEMMA CountDrop ==
  ASSUME NEW s, NEW t, NEW c \in Conns, NEW N \in SUBSET (1 .. MaxGets),
         \A d \in Conns, n \in Slots : d = c /\ n \in N => t[<<d, n>>] = NULL,
         \A d \in Conns, n \in Slots : ~(d = c /\ n \in N) => t[<<d, n>>] = s[<<d, n>>],
         NEW i \in Items
  PROVE  LET D == Within(s, c, N, i) IN
         Cardinality(D) \in Nat /\ Count(s, i) = Count(t, i) + Cardinality(D)
<1> DEFINE D == {n \in N : s[<<c, n>>] = i}
           f == [n \in D |-> <<c, n>>]
           R == {<<c, n>> : n \in D}
           S == HoldersOf(s, i)
           T == HoldersOf(t, i)
           one == 1
<1>1. NULL \notin Items /\ MaxGets \in Int
  BY CacheAssumption, ServerAssumption
<1>2. IsFiniteSet(D)
  <2>1. one \in Int /\ N \in SUBSET (one .. MaxGets)
    OBVIOUS
  <2>2. D \subseteq N
    OBVIOUS
  <2> HIDE DEF D, one
  <2> QED BY <1>1, <2>1, <2>2, FS_Interval, FS_Subset
<1>3. N \subseteq Slots
  BY DEF Slots
<1>4. f \in Bijection(D, R)
  <2>1. f \in [D -> R]
    OBVIOUS
  <2>2. \A n, m \in D : f[n] = f[m] => n = m
    OBVIOUS
  <2>3. \A r \in R : \E n \in D : f[n] = r
    OBVIOUS
  <2> HIDE DEF f, D, R
  <2>4. DOMAIN f = D
    BY <2>1
  <2>5. f \in Injection(D, R) /\ f \in Surjection(D, R)
    BY ONLY <2>1, <2>2, <2>3, <2>4 DEF Injection, Surjection, IsInjective
  <2> QED BY ONLY <2>5 DEF Bijection
<1>5. Cardinality(R) = Cardinality(D) /\ IsFiniteSet(R)
  <2>1. ExistsBijection(D, R)
    BY <1>4 DEF ExistsBijection
  <2> HIDE DEF D, R
  <2> QED BY <1>2, <2>1, FS_Bijection
<1>6. S = T \cup R /\ T \cap R = {}
  <2>1. ASSUME NEW d \in Conns, NEW n \in Slots
        PROVE  /\ <<d, n>> \in S <=> <<d, n>> \in T \/ <<d, n>> \in R
               /\ <<d, n>> \in R => <<d, n>> \notin T
    <3>1. <<d, n>> \in R <=> d = c /\ n \in N /\ s[<<d, n>>] = i
      OBVIOUS
    <3>2. <<d, n>> \in S <=> s[<<d, n>>] = i
      BY DEF HoldersOf, Refs
    <3>3. <<d, n>> \in T <=> t[<<d, n>>] = i
      BY DEF HoldersOf, Refs
    <3> HIDE DEF R, S, T
    <3> QED BY <1>1, <3>1, <3>2, <3>3
  <2>2. S \subseteq Refs /\ T \subseteq Refs
    BY DEF HoldersOf
  <2>5. R \subseteq Refs
    <3>1. \A n \in D : <<c, n>> \in Refs
      BY <1>3 DEF Refs
    <3> HIDE DEF D
    <3> QED BY <3>1
  <2>3. \A q \in Refs : \E d \in Conns, n \in Slots : q = <<d, n>>
    BY DEF Refs
  <2> HIDE DEF R, S, T
  <2>4. \A q \in Refs : (q \in S <=> q \in T \/ q \in R) /\ (q \in R => q \notin T)
    BY ONLY <2>1, <2>3
  <2> QED BY ONLY <2>2, <2>4, <2>5
<1>7. IsFiniteSet(T) /\ Cardinality(T) \in Nat /\ Cardinality(D) \in Nat
  <2>1. IsFiniteSet(T)
    BY CountNat
  <2> HIDE DEF T, D
  <2> QED BY <1>2, <2>1, FS_CardinalityType
<1> HIDE DEF S, T, R, D
<1>8. Cardinality(T \cup R) = Cardinality(T) + Cardinality(R)
  <2>1. Cardinality(T \cup R) = Cardinality(T) + Cardinality(R) - Cardinality(T \cap R)
    BY <1>5, <1>7, FS_Union
  <2>2. Cardinality(T \cap R) = 0
    BY <1>6, FS_EmptySet
  <2> QED BY <1>5, <1>7, <2>1, <2>2
<1> QED BY <1>5, <1>6, <1>7, <1>8 DEF Count, S, T, D, Within

-----------------------------------------------------------------------------
(* One step of connection c *)

\* The other connections stay where they are, with what they hold.
Untouched(c) ==
  \A d \in Conns : d # c =>
    /\ pc'[d] = pc[d] /\ cmd'[d] = cmd[d] /\ got'[d] = got[d]
    /\ icurr'[d] = icurr[d] /\ ileft'[d] = ileft[d]
    /\ \A n \in Slots : slot'[<<d, n>>] = slot[<<d, n>>]

Local(c) ==
  /\ current_time' = current_time /\ ConnTypes' /\ Untouched(c) /\ ConnOK(c)'

\* The cache evolves, and what a command line has allocated stays out of sight.
Spared(c) ==
  /\ Step(cache, cache', current_time)
  /\ \A d \in Conns : d # c /\ pc[d] = "nread" => ~cache'.linked[slot[<<d, 0>>]]
  /\ pc'[c] = "nread" =>
       /\ ~cache'.linked[slot'[<<c, 0>>]]
       /\ \A d \in Conns : d # c /\ pc[d] = "nread" => slot[<<d, 0>>] # slot'[<<c, 0>>]

Tally == ~cache'.aborted /\ ~cache'.uncounted => Counted(cache', slot', leaked')

\* No assertion fails but in a number that outgrows its item.
Asserts == Cmds \cap {"incr", "decr"} = {} /\ ~cache'.uncounted => ~cache'.aborted

Effect(c) == Local(c) /\ Spared(c) /\ Tally /\ Asserts

Ready == IInv /\ ~cache.aborted /\ ~UseAfterFree

\* What holds before a step.
LEMMA Before ==
  ASSUME Ready, NEW c \in Conns
  PROVE  /\ ConnTypes /\ ConnOK(c) /\ Good(cache, current_time) /\ current_time \in Nat
         /\ cache \in CacheType /\ ~cache.aborted
         /\ \A n \in Slots : slot[<<c, n>>] # NULL =>
              slot[<<c, n>>] \in Items /\ slot[<<c, n>>] \notin cache.free /\ cache.key[slot[<<c, n>>]] \in Keys
         /\ pc[c] \in HeldLabels => slot[<<c, 0>>] \in Items /\ slot[<<c, 0>>] \notin cache.free
                                    /\ cache.key[slot[<<c, 0>>]] \in Keys
         /\ \A d \in Conns : pc[d] = "nread" => slot[<<d, 0>>] \in Items /\ Aside(cache, slot[<<d, 0>>])
         /\ ~cache.uncounted => Counted(cache, slot, leaked)
<1>1. /\ ConnTypes /\ Good(cache, current_time) /\ ~cache.aborted /\ Private
      /\ \A d \in Conns : ConnOK(d)
  BY DEF Ready, IInv
<1>2. current_time \in Nat /\ cache \in CacheType /\ FreeUnused(cache)
  BY <1>1 DEF ConnTypes, Good, Sound
<1>3. \A d \in Conns, n \in Slots : <<d, n>> \in Refs
  BY DEF Refs
<1>4. \A r \in Refs : slot[r] \notin cache.free /\ slot[r] \in Items \cup {NULL}
  BY <1>1 DEF Ready, UseAfterFree, ConnTypes
<1>5. \A d \in Conns, n \in Slots : slot[<<d, n>>] # NULL =>
        slot[<<d, n>>] \in Items /\ slot[<<d, n>>] \notin cache.free /\ cache.key[slot[<<d, n>>]] \in Keys
  BY ONLY <1>2, <1>3, <1>4 DEF FreeUnused
<1>6. 0 \in Slots
  BY ServerAssumption DEF Slots
<1>7. \A d \in Conns : pc[d] \in HeldLabels => slot[<<d, 0>>] \in Items /\ slot[<<d, 0>>] \notin cache.free
                                    /\ cache.key[slot[<<d, 0>>]] \in Keys
  BY ONLY <1>1, <1>5, <1>6 DEF ConnOK
<1>8. \A d \in Conns : pc[d] = "nread" => slot[<<d, 0>>] \in Items /\ Aside(cache, slot[<<d, 0>>])
  BY <1>1, <1>7 DEF HeldLabels, Private, Aside
<1>9. ~cache.uncounted => Counted(cache, slot, leaked)
  BY <1>1 DEF Ready, IInv, RefcountsMatch, Counted, Count, Holders, HoldersOf
<1> QED BY <1>1, <1>2, <1>5, <1>7, <1>8, <1>9

\* A step of one connection keeps the invariant.
LEMMA EffectKeeps ==
  ASSUME Ready, NEW c \in Conns, Effect(c)
  PROVE  IInv'
<1>1. ConnTypes' /\ current_time' # 0
  BY DEF Effect, Local, Ready, IInv
<1>2. \A d \in Conns : ConnOK(d)'
  <2>1. ASSUME NEW d \in Conns, d # c PROVE ConnOK(d)'
    <3>1. ConnOK(d)
      BY DEF Ready, IInv
    <3>2. /\ pc'[d] = pc[d] /\ cmd'[d] = cmd[d] /\ got'[d] = got[d]
          /\ icurr'[d] = icurr[d] /\ ileft'[d] = ileft[d]
          /\ \A n \in Slots : slot'[<<d, n>>] = slot[<<d, n>>]
      BY <2>1 DEF Effect, Local, Untouched
    <3>3. 0 \in Slots /\ 1 .. MaxGets \subseteq Slots
      BY ServerAssumption DEF Slots
    <3> QED BY ONLY <3>1, <3>2, <3>3 DEF ConnOK
  <2> QED BY <2>1 DEF Effect, Local
<1>3. Private'
  <2>1. \A d \in Conns : d # c => pc'[d] = pc[d] /\ slot'[<<d, 0>>] = slot[<<d, 0>>]
    BY ServerAssumption DEF Effect, Local, Untouched, Slots
  <2>2. Private
    BY DEF Ready, IInv
  <2> QED BY ONLY <2>1, <2>2, Effect(c) DEF Effect, Spared, Private
<1>4. Good(cache, current_time)'
  BY DEF Effect, Local, Spared, Step
<1>5. RefcountsMatch'
  BY DEF Effect, Tally, Counted, RefcountsMatch, Count, HoldersOf, Holders
<1> QED BY <1>1, <1>2, <1>3, <1>4, <1>5 DEF IInv

LEMMA PutSlot ==
  ASSUME slot \in SlotMap, NEW c \in Conns, NEW n \in Slots, NEW v \in Items \cup {NULL},
         Put(c, n, v)
  PROVE  /\ slot' \in SlotMap /\ slot'[<<c, n>>] = v
         /\ \A d \in Conns, m \in Slots : ~(d = c /\ m = n) => slot'[<<d, m>>] = slot[<<d, m>>]
         /\ \A q \in Refs : q # <<c, n>> => slot'[q] = slot[q]
BY DEF Put, SlotMap, Refs

\* A step that leaves the cache and all references alone.
LEMMA QuietEffect ==
  ASSUME Ready, NEW c \in Conns, Local(c), UNCHANGED <<cache, slot, leaked>>,
         pc'[c] = "nread" => pc[c] = "nread"
  PROVE  Effect(c)
<1>1. /\ Good(cache, current_time) /\ ~cache.aborted
      /\ ~cache.uncounted => Counted(cache, slot, leaked)
  BY Before
<1>2. Step(cache, cache', current_time)
  BY <1>1, StepNone
<1>3. Private
  BY DEF Ready, IInv
<1>4. Spared(c)
  BY <1>2, <1>3 DEF Spared, Private
<1> QED BY <1>1, <1>4 DEF Effect, Tally, Asserts

LEMMA GetStartEffect ==
  ASSUME Ready, NEW c \in Conns, GetStart(c)
  PROVE  Effect(c)
<1>1. ConnTypes /\ ConnOK(c)
  BY Before
<1>2. Local(c)
  BY <1>1 DEF GetStart, Goto, timevars, getvars, history, Local, Untouched, ConnTypes, ConnOK,
              Labels, HeldLabels, GetLabels
<1> QED BY <1>2, QuietEffect DEF GetStart, Goto, timevars, getvars, history, ConnTypes

LEMMA MwriteDoneEffect ==
  ASSUME Ready, NEW c \in Conns, MwriteDone(c)
  PROVE  Effect(c)
<1>1. ConnTypes /\ ConnOK(c)
  BY Before
<1>2. Local(c) /\ pc'[c] # "nread"
  BY <1>1 DEF MwriteDone, Goto, timevars, getvars, history, Local, Untouched, ConnTypes, ConnOK,
              Labels, HeldLabels, GetLabels
<1> QED BY <1>2, QuietEffect DEF MwriteDone, history

LEMMA BadDataChunkEffect ==
  ASSUME Ready, NEW c \in Conns, BadDataChunk(c)
  PROVE  Effect(c)
<1>1. ConnTypes /\ ConnOK(c)
  BY Before
<1>2. Local(c) /\ pc'[c] # "nread"
  BY <1>1 DEF BadDataChunk, Goto, timevars, getvars, history, Local, Untouched, ConnTypes, ConnOK,
              Labels, HeldLabels, GetLabels
<1> QED BY <1>2, QuietEffect DEF BadDataChunk, history

LEMMA FlushAllEffect ==
  ASSUME Ready, NEW c \in Conns, NEW delay \in Delays, FlushAll(c, delay)
  PROVE  Effect(c)
<1>1. ConnTypes /\ ConnOK(c) /\ current_time # 0
  BY Before DEF Ready, IInv
<1>2. oldest_live' \in Nat
  BY <1>1, ServerAssumption DEF FlushAll, realtime, ConnTypes
<1>3. Local(c) /\ pc'[c] # "nread"
  BY <1>1, <1>2 DEF FlushAll, Goto, getvars, history, Local, Untouched, ConnTypes, ConnOK,
                    Labels, HeldLabels, GetLabels
<1> QED BY <1>3, QuietEffect DEF FlushAll, history

LEMMA CloseEffect ==
  ASSUME Ready, NEW c \in Conns, Close(c)
  PROVE  Effect(c)
<1>1. ConnTypes /\ ConnOK(c)
  BY Before
<1>2. Local(c) /\ pc'[c] # "nread"
  BY <1>1 DEF Close, Goto, timevars, getvars, history, Local, Untouched, ConnTypes, ConnOK,
              Labels, HeldLabels, GetLabels
<1> QED BY <1>2, QuietEffect DEF Close, history

LEMMA ClosedEffect ==
  ASSUME Ready, NEW c \in Conns, Closed(c)
  PROVE  Effect(c)
<1>1. ConnTypes /\ ConnOK(c)
  BY Before
<1>2. Local(c) /\ pc'[c] # "nread"
  BY <1>1 DEF Closed, Goto, timevars, getvars, history, Local, Untouched, ConnTypes, ConnOK,
              Labels, HeldLabels, GetLabels, NoCmd
<1> QED BY <1>2, QuietEffect DEF Closed, history


\* A step that changes the cache and leaves all references alone.
LEMMA CacheEffect ==
  ASSUME Ready, NEW c \in Conns, Local(c), UNCHANGED <<slot, leaked>>, pc'[c] # "nread",
         Step(cache, cache', current_time), Asserts,
         \A x \in Items : Aside(cache, x) /\ (pc[c] = "nread" => x # slot[<<c, 0>>]) => ~cache'.linked[x],
         ~cache'.aborted /\ ~cache'.uncounted => \A x \in Items : cache'.refcount[x] = cache.refcount[x]
  PROVE  Effect(c)
<1>1. /\ \A d \in Conns : pc[d] = "nread" => slot[<<d, 0>>] \in Items /\ Aside(cache, slot[<<d, 0>>])
      /\ ~cache.uncounted => Counted(cache, slot, leaked)
  BY Before
<1>2. Private
  BY DEF Ready, IInv
<1>3. Spared(c)
  BY <1>1, <1>2 DEF Spared, Private
<1>4. cache.uncounted => cache'.uncounted
  BY StepParts
<1>5. Tally
  BY <1>1, <1>4 DEF Tally, Counted
<1> QED BY <1>3, <1>5 DEF Effect

LEMMA FlushExpiredEffect ==
  ASSUME Ready, NEW c \in Conns, FlushExpired(c)
  PROVE  Effect(c)
<1>1. ConnTypes /\ ConnOK(c) /\ Good(cache, current_time) /\ ~cache.aborted /\ cache.cas_id \in Nat
  BY Before, FieldTypes
<1> DEFINE ids == {cache.cas[i] : i \in FoundByGets}
<1>11. ids \in SUBSET Nat
  <2>1. ASSUME NEW d \in Conns, pc[d] \in {"get_update", "get_last_update"} PROVE slot[<<d, 0>>] \in Items
    BY <2>1, Before DEF HeldLabels
  <2>2. \A i \in Items : cache.cas[i] \in Nat
    BY Before, FieldTypes
  <2>3. \A i \in FoundByGets : i \in Items
    BY ONLY <2>1, Zenon DEF FoundByGets
  <2> QED BY ONLY <2>2, <2>3
<1>12. flushed' = (IF pc[c] = "flush" THEN [upto |-> cache.cas_id, but |-> ids] ELSE flushed)
  BY DEF FlushExpired
<1> HIDE DEF ids
<1>13. flushed' \in [upto : Nat, but : SUBSET Nat]
  BY <1>1, <1>11, <1>12 DEF ConnTypes
<1>2. Local(c) /\ pc'[c] # "nread"
  BY <1>1, <1>13 DEF FlushExpired, Goto, timevars, getvars, Local, Untouched, ConnTypes, ConnOK,
              Labels, HeldLabels, GetLabels
<1>3. current_time \in Nat /\ oldest_live \in Nat
  BY <1>1 DEF ConnTypes
<1>4. cache' = do_item_flush_expired(cache, oldest_live) /\ UNCHANGED <<slot, leaked>>
  BY DEF FlushExpired
<1> DEFINE f == do_item_flush_expired(cache, oldest_live)
<1>5. /\ Step(cache, f, current_time)
      /\ f.refcount = cache.refcount /\ f.uncounted = cache.uncounted /\ f.aborted = cache.aborted
      /\ \A x \in Items : Aside(cache, x) => Aside(f, x)
  BY ONLY <1>1, <1>3, FlushStep
<1> HIDE DEF f
<1>6. f = cache'
  BY <1>4 DEF f
<1>7. Asserts
  BY <1>1, <1>5, <1>6 DEF Asserts
<1> QED BY <1>2, <1>4, <1>5, <1>6, <1>7, CacheEffect DEF Aside

LEMMA UnlinkEffect ==
  ASSUME Ready, NEW c \in Conns, Unlink(c)
  PROVE  Effect(c)
<1>1. ConnTypes /\ ConnOK(c) /\ Good(cache, current_time) /\ ~cache.aborted /\ current_time \in Nat
  BY Before
<1>2. Local(c) /\ pc'[c] # "nread"
  BY <1>1 DEF Unlink, Goto, timevars, getvars, history, Local, Untouched, ConnTypes, ConnOK,
              Labels, HeldLabels, GetLabels
<1> DEFINE i == slot[<<c, 0>>]
           u == do_item_unlink(cache, i)
<1>3. i \in Items
  BY Before DEF Unlink, HeldLabels
<1>4. u = cache' /\ UNCHANGED <<slot, leaked>>
  BY DEF Unlink, history
<1> HIDE DEF i
<1>5. /\ Step(cache, u, current_time)
      /\ u.refcount = cache.refcount /\ u.uncounted = cache.uncounted /\ u.aborted = cache.aborted
      /\ ~u.linked[i] /\ \A x \in Items : x # i => (u.linked[x] <=> cache.linked[x])
  BY ONLY <1>1, <1>3, UnlinkStep
<1> HIDE DEF u
<1>6. \A x \in Items : Aside(cache, x) => ~u.linked[x]
  BY ONLY <1>5 DEF Aside
<1>7. Asserts
  BY <1>1, <1>4, <1>5 DEF Asserts
<1> QED BY <1>2, <1>4, <1>5, <1>6, <1>7, CacheEffect

LEMMA StoreItemEffect ==
  ASSUME Ready, NEW c \in Conns, StoreItem(c)
  PROVE  Effect(c)
<1> DEFINE i == slot[<<c, 0>>]
<1>1. ConnTypes /\ ConnOK(c) /\ Good(cache, current_time) /\ ~cache.aborted /\ current_time \in Nat
  BY Before
<1>2. i \in Items /\ Aside(cache, i)
  BY Before DEF StoreItem
<1>3. PICK o \in do_store_item(cache, i, cmd[c].comm, current_time, oldest_live) :
        cache' = o.h /\ reply' = [reply EXCEPT ![c] = o.ret]
  BY DEF StoreItem
<1>4. Stored(cache, o.h, i, current_time) /\ o.ret \in Replies
  BY <1>1, <1>2, <1>3, StoreOutcome
<1>5. Local(c) /\ pc'[c] # "nread" /\ pc[c] = "nread"
  BY <1>1, <1>3, <1>4 DEF StoreItem, Goto, timevars, getvars, history, Local, Untouched, ConnTypes,
              ConnOK, Labels, HeldLabels, GetLabels, Replies
<1>6. UNCHANGED <<slot, leaked>>
  BY DEF StoreItem, history
<1>7. Asserts
  BY <1>1, <1>3, <1>4 DEF Asserts, Stored
<1>8. \A x \in Items : Aside(cache, x) /\ x # i => ~cache'.linked[x]
  BY <1>3, <1>4 DEF Stored, Spares, Aside
<1>9. Step(cache, cache', current_time)
      /\ (~cache'.aborted /\ ~cache'.uncounted => \A x \in Items : cache'.refcount[x] = cache.refcount[x])
  BY <1>3, <1>4 DEF Stored
<1> QED BY <1>5, <1>6, <1>7, <1>8, <1>9, CacheEffect

LEMMA AddDeltaEffect ==
  ASSUME Ready, NEW c \in Conns, NEW incr \in BOOLEAN, NEW delta \in Deltas, AddDelta(c, incr, delta)
  PROVE  Effect(c)
<1> DEFINE i == slot[<<c, 0>>]
<1>1. ConnTypes /\ ConnOK(c) /\ Good(cache, current_time) /\ ~cache.aborted /\ current_time \in Nat
  BY Before
<1>2. i \in Items /\ i \notin cache.free
  BY Before DEF AddDelta, HeldLabels
<1>3. delta \in Int
  BY ServerAssumption, DeltaAssumption DEF UInt64
<1>4. PICK o \in do_add_delta(cache, i, incr, delta, current_time) : cache' = o.h
  BY DEF AddDelta
<1>5. Changed(cache, o.h, current_time)
  BY <1>1, <1>2, <1>3, <1>4, DeltaOutcome
<1>6. Local(c) /\ pc'[c] # "nread"
  BY <1>1 DEF AddDelta, Goto, timevars, getvars, history, Local, Untouched, ConnTypes,
              ConnOK, Labels, HeldLabels, GetLabels
<1>7. UNCHANGED <<slot, leaked>>
  BY DEF AddDelta, history
<1>8. Asserts
  BY DEF Asserts, AddDelta
<1>9. NULL \notin Items
  BY CacheAssumption
<1>10. \A x \in Items : Aside(cache, x) => ~cache'.linked[x]
  BY <1>4, <1>5, <1>9 DEF Changed, Spares, Aside
<1>11. Step(cache, cache', current_time)
       /\ (~cache'.aborted /\ ~cache'.uncounted => \A x \in Items : cache'.refcount[x] = cache.refcount[x])
  BY <1>4, <1>5 DEF Changed
<1> QED BY <1>6, <1>7, <1>8, <1>10, <1>11, CacheEffect

\* item_get, of whatever command
LEMMA GetFields ==
  ASSUME Ready, NEW c \in Conns, NEW k \in Keys, NEW next \in Labels, NEW miss \in Labels,
         Get(c, k, next, miss)
  PROVE  LET it == slot'[<<c, 0>>] IN
         /\ Got(cache, cache', it, k, current_time)
         /\ it \in Items \cup {NULL} /\ slot' \in SlotMap
         /\ \A d \in Conns, m \in Slots : ~(d = c /\ m = 0) => slot'[<<d, m>>] = slot[<<d, m>>]
         /\ \A q \in Refs : q # <<c, 0>> => slot'[q] = slot[q]
         /\ pc' \in [Conns -> Labels] /\ \A d \in Conns : d # c => pc'[d] = pc[d]
         /\ it = NULL => pc'[c] = miss
         /\ it # NULL => pc'[c] = next
<1> DEFINE r == Lookup(k)
           zero == 0
<1>1. ConnTypes /\ Good(cache, current_time) /\ current_time \in Nat
  BY Before
<1>2. Got(cache, r.h, r.it, k, current_time)
  BY <1>1, GetOutcome DEF Lookup
<1>3. r.it \in Items \cup {NULL}
  BY <1>2 DEF Got
<1>4. cache' = r.h /\ Put(c, zero, r.it) /\ Goto(c, IF r.it = NULL THEN miss ELSE next)
  BY DEF Get
<1>5. zero \in Slots /\ slot \in SlotMap
  BY <1>1, ServerAssumption DEF Slots, ConnTypes, SlotMap
<1> HIDE DEF r, zero
<1>6. /\ slot' \in SlotMap /\ slot'[<<c, zero>>] = r.it
      /\ \A d \in Conns, m \in Slots : ~(d = c /\ m = zero) => slot'[<<d, m>>] = slot[<<d, m>>]
      /\ \A q \in Refs : q # <<c, zero>> => slot'[q] = slot[q]
  BY <1>3, <1>4, <1>5, PutSlot
<1>7. /\ pc' \in [Conns -> Labels] /\ \A d \in Conns : d # c => pc'[d] = pc[d]
      /\ r.it = NULL => pc'[c] = miss
      /\ r.it # NULL => pc'[c] = next
  BY <1>1, <1>4 DEF Goto, ConnTypes
<1> QED BY <1>2, <1>3, <1>4, <1>6, <1>7 DEF zero

LEMMA GetEffect ==
  ASSUME Ready, NEW c \in Conns, NEW k \in Keys, NEW next \in Labels \ {"nread"},
         NEW miss \in Labels \ {"nread"}, Get(c, k, next, miss),
         pc[c] \notin HeldLabels, leaked' = leaked, Local(c)
  PROVE  Effect(c)
<1> DEFINE it == slot'[<<c, 0>>]
<1>1. /\ Got(cache, cache', it, k, current_time)
      /\ it \in Items \cup {NULL}
      /\ \A q \in Refs : q # <<c, 0>> => slot'[q] = slot[q]
      /\ pc'[c] # "nread"
  BY GetFields
<1>2. /\ ConnOK(c) /\ ~cache.aborted
      /\ \A d \in Conns : pc[d] = "nread" => slot[<<d, 0>>] \in Items /\ Aside(cache, slot[<<d, 0>>])
      /\ ~cache.uncounted => Counted(cache, slot, leaked)
  BY Before
<1>3. slot[<<c, 0>>] = NULL /\ <<c, 0>> \in Refs
  BY <1>2, ServerAssumption DEF ConnOK, Refs, Slots
<1>4. Step(cache, cache', current_time) /\ cache'.aborted = cache.aborted
  BY <1>1 DEF Got
<1>5. Spared(c)
  BY <1>1, <1>2, <1>4 DEF Spared, Got, Aside
<1>6. Asserts
  BY <1>2, <1>4 DEF Asserts
<1>7. Tally
  <2>1. SUFFICES ASSUME ~cache'.uncounted, NEW i \in Items
                 PROVE  cache'.refcount[i] = Count(slot', i) + leaked'[i]
    BY DEF Tally, Counted
  <2>2. cache.refcount[i] = Count(slot, i) + leaked[i]
    BY <1>2, <1>4, <2>1, StepParts DEF Counted
  <2>3. CASE it = NULL
    <3>1. cache'.refcount = cache.refcount
      BY <1>1, <2>3 DEF Got
    <3>2. \A q \in Refs : slot'[q] = slot[q]
      BY <1>1, <1>3, <2>3
    <3>3. Count(slot', i) = Count(slot, i)
      BY <3>2, CountSame
    <3> QED BY <2>2, <3>1, <3>3
  <2>4. CASE it # NULL
    <3>1. it \in Items
      BY <1>1, <2>4
    <3>2. /\ i = it => cache'.refcount[i] = cache.refcount[i] + 1
          /\ i # it => cache'.refcount[i] = cache.refcount[i]
      BY <1>1, <2>1, <2>4 DEF Got
    <3>3. /\ i = it => Count(slot', i) = Count(slot, i) + 1
          /\ i # it => Count(slot', i) = Count(slot, i)
      BY <1>1, <1>3, <3>1, CountPut
    <3>4. Count(slot, i) \in Nat /\ leaked[i] \in Nat
      BY CountNat, Before DEF ConnTypes
    <3> HIDE DEF it
    <3> QED BY ONLY <2>2, <3>2, <3>3, <3>4, leaked' = leaked
  <2> QED BY <2>3, <2>4
<1> QED BY <1>5, <1>6, <1>7 DEF Effect

LEMMA GetKeyEffect ==
  ASSUME Ready, NEW c \in Conns, NEW k \in Keys, GetKey(c, k)
  PROVE  Effect(c)
<1>1. ConnTypes /\ ConnOK(c) /\ 0 \in Slots /\ 1 .. MaxGets \subseteq Slots
  BY Before, ServerAssumption DEF Slots
<1>2. Get(c, k, "get_update", "get") /\ leaked' = leaked /\ pc[c] = "get"
  BY DEF GetKey, history
<1>3. "get_update" \in Labels /\ "get" \in Labels
  BY DEF Labels
<1>4. LET it == slot'[<<c, 0>>] IN
      /\ it \in Items \cup {NULL} /\ slot' \in SlotMap
      /\ \A d \in Conns, m \in Slots : ~(d = c /\ m = 0) => slot'[<<d, m>>] = slot[<<d, m>>]
      /\ pc' \in [Conns -> Labels] /\ \A d \in Conns : d # c => pc'[d] = pc[d]
      /\ it = NULL => pc'[c] = "get"
      /\ it # NULL => pc'[c] = "get_update"
  BY <1>2, <1>3, GetFields
<1>5. UNCHANGED <<reply, timevars, cmd, got, icurr, ileft, leaked, flushed>> /\ got[c] < MaxGets
  BY DEF GetKey, getvars, history
<1>6. ConnTypes'
  BY <1>1, <1>4, <1>5 DEF ConnTypes, timevars, SlotMap
<1>7. Untouched(c) /\ current_time' = current_time
  BY <1>1, <1>4, <1>5 DEF Untouched, timevars
<1>8. ConnOK(c)'
  BY <1>1, <1>2, <1>4, <1>5 DEF ConnOK, HeldLabels, GetLabels
<1>9. Local(c)
  BY <1>6, <1>7, <1>8 DEF Local
<1> QED BY <1>2, <1>3, <1>9, GetEffect DEF HeldLabels

LEMMA GetRetryEffect ==
  ASSUME Ready, NEW c \in Conns, GetRetry(c)
  PROVE  Effect(c)
<1>1. ConnTypes /\ ConnOK(c) /\ 0 \in Slots /\ 1 .. MaxGets \subseteq Slots
  BY Before, ServerAssumption DEF Slots
<1> DEFINE k0 == cmd[c].key
<1>k. k0 \in Keys
  BY <1>1 DEF ConnOK, GetRetry
<1>2. Get(c, k0, "get_last_update", "get_last") /\ leaked' = leaked /\ pc[c] = "get_retry"
  BY DEF GetRetry, history
<1> HIDE DEF k0
<1>3. "get_last_update" \in Labels /\ "get_last" \in Labels
  BY DEF Labels
<1>4. LET it == slot'[<<c, 0>>] IN
      /\ it \in Items \cup {NULL} /\ slot' \in SlotMap
      /\ \A d \in Conns, m \in Slots : ~(d = c /\ m = 0) => slot'[<<d, m>>] = slot[<<d, m>>]
      /\ pc' \in [Conns -> Labels] /\ \A d \in Conns : d # c => pc'[d] = pc[d]
      /\ it = NULL => pc'[c] = "get_last"
      /\ it # NULL => pc'[c] = "get_last_update"
  BY <1>k, <1>2, <1>3, GetFields
<1>5. UNCHANGED <<reply, timevars, got, icurr, ileft, leaked, flushed>>
  BY DEF GetRetry, getvars, history
<1>c. /\ cmd' \in [Conns -> [comm : StoreCmds \cup {"get", "none"}, key : Keys \cup {NULL}]]
      /\ \A d \in Conns : d # c => cmd'[d] = cmd[d]
  BY <1>1 DEF GetRetry, ConnTypes, NoCmd
<1>6. ConnTypes'
  BY <1>1, <1>4, <1>5, <1>c DEF ConnTypes, timevars, SlotMap
<1>7. Untouched(c) /\ current_time' = current_time
  BY <1>1, <1>4, <1>5, <1>c DEF Untouched, timevars
<1>8. ConnOK(c)'
  BY <1>1, <1>2, <1>4, <1>5 DEF ConnOK, HeldLabels, GetLabels
<1>9. Local(c)
  BY <1>6, <1>7, <1>8 DEF Local
<1> QED BY <1>k, <1>2, <1>3, <1>9, GetEffect DEF HeldLabels

LEMMA SetFailedEffect ==
  ASSUME Ready, NEW c \in Conns, SetFailed(c)
  PROVE  Effect(c)
<1>1. ConnTypes /\ ConnOK(c) /\ 0 \in Slots /\ 1 .. MaxGets \subseteq Slots
  BY Before, ServerAssumption DEF Slots
<1> DEFINE k0 == cmd[c].key
<1>k. k0 \in Keys
  BY <1>1 DEF ConnOK, SetFailed
<1>2. Get(c, k0, "unlink", "idle") /\ leaked' = leaked /\ pc[c] = "set_failed"
  BY DEF SetFailed, history
<1> HIDE DEF k0
<1>3. "unlink" \in Labels /\ "idle" \in Labels
  BY DEF Labels
<1>4. LET it == slot'[<<c, 0>>] IN
      /\ it \in Items \cup {NULL} /\ slot' \in SlotMap
      /\ \A d \in Conns, m \in Slots : ~(d = c /\ m = 0) => slot'[<<d, m>>] = slot[<<d, m>>]
      /\ pc' \in [Conns -> Labels] /\ \A d \in Conns : d # c => pc'[d] = pc[d]
      /\ it = NULL => pc'[c] = "idle"
      /\ it # NULL => pc'[c] = "unlink"
  BY <1>k, <1>2, <1>3, GetFields
<1>5. UNCHANGED <<reply, timevars, got, icurr, ileft, leaked, flushed>>
  BY DEF SetFailed, getvars, history
<1>c. /\ cmd' \in [Conns -> [comm : StoreCmds \cup {"get", "none"}, key : Keys \cup {NULL}]]
      /\ \A d \in Conns : d # c => cmd'[d] = cmd[d]
  BY <1>1 DEF SetFailed, ConnTypes, NoCmd
<1>6. ConnTypes'
  BY <1>1, <1>4, <1>5, <1>c DEF ConnTypes, timevars, SlotMap
<1>7. Untouched(c) /\ current_time' = current_time
  BY <1>1, <1>4, <1>5, <1>c DEF Untouched, timevars
<1>8. ConnOK(c)'
  BY <1>1, <1>2, <1>4, <1>5 DEF ConnOK, HeldLabels, GetLabels
<1>9. Local(c)
  BY <1>6, <1>7, <1>8 DEF Local
<1> QED BY <1>k, <1>2, <1>3, <1>9, GetEffect DEF HeldLabels

LEMMA DeleteEffect ==
  ASSUME Ready, NEW c \in Conns, NEW k \in Keys, Delete(c, k)
  PROVE  Effect(c)
<1>1. ConnTypes /\ ConnOK(c) /\ 0 \in Slots /\ 1 .. MaxGets \subseteq Slots
  BY Before, ServerAssumption DEF Slots
<1>2. Get(c, k, "unlink", "idle") /\ leaked' = leaked /\ pc[c] = "idle"
  BY DEF Delete, history
<1>3. "unlink" \in Labels /\ "idle" \in Labels
  BY DEF Labels
<1>4. LET it == slot'[<<c, 0>>] IN
      /\ it \in Items \cup {NULL} /\ slot' \in SlotMap
      /\ \A d \in Conns, m \in Slots : ~(d = c /\ m = 0) => slot'[<<d, m>>] = slot[<<d, m>>]
      /\ pc' \in [Conns -> Labels] /\ \A d \in Conns : d # c => pc'[d] = pc[d]
      /\ it = NULL => pc'[c] = "idle"
      /\ it # NULL => pc'[c] = "unlink"
  BY <1>2, <1>3, GetFields
<1>5. UNCHANGED <<reply, timevars, cmd, got, icurr, ileft, leaked, flushed>>
  BY DEF Delete, getvars, history
<1>c. /\ cmd' \in [Conns -> [comm : StoreCmds \cup {"get", "none"}, key : Keys \cup {NULL}]]
      /\ \A d \in Conns : d # c => cmd'[d] = cmd[d]
  BY <1>1 DEF Delete, ConnTypes, NoCmd
<1>6. ConnTypes'
  BY <1>1, <1>4, <1>5, <1>c DEF ConnTypes, timevars, SlotMap
<1>7. Untouched(c) /\ current_time' = current_time
  BY <1>1, <1>4, <1>5, <1>c DEF Untouched, timevars
<1>8. ConnOK(c)'
  BY <1>1, <1>2, <1>4, <1>5 DEF ConnOK, HeldLabels, GetLabels
<1>9. Local(c)
  BY <1>6, <1>7, <1>8 DEF Local
<1> QED BY <1>2, <1>3, <1>9, GetEffect DEF HeldLabels

LEMMA ArithmeticEffect ==
  ASSUME Ready, NEW c \in Conns, NEW k \in Keys, Arithmetic(c, k)
  PROVE  Effect(c)
<1>1. ConnTypes /\ ConnOK(c) /\ 0 \in Slots /\ 1 .. MaxGets \subseteq Slots
  BY Before, ServerAssumption DEF Slots
<1>2. Get(c, k, "delta", "idle") /\ leaked' = leaked /\ pc[c] = "idle"
  BY DEF Arithmetic, history
<1>3. "delta" \in Labels /\ "idle" \in Labels
  BY DEF Labels
<1>4. LET it == slot'[<<c, 0>>] IN
      /\ it \in Items \cup {NULL} /\ slot' \in SlotMap
      /\ \A d \in Conns, m \in Slots : ~(d = c /\ m = 0) => slot'[<<d, m>>] = slot[<<d, m>>]
      /\ pc' \in [Conns -> Labels] /\ \A d \in Conns : d # c => pc'[d] = pc[d]
      /\ it = NULL => pc'[c] = "idle"
      /\ it # NULL => pc'[c] = "delta"
  BY <1>2, <1>3, GetFields
<1>5. UNCHANGED <<reply, timevars, cmd, got, icurr, ileft, leaked, flushed>>
  BY DEF Arithmetic, getvars, history
<1>c. /\ cmd' \in [Conns -> [comm : StoreCmds \cup {"get", "none"}, key : Keys \cup {NULL}]]
      /\ \A d \in Conns : d # c => cmd'[d] = cmd[d]
  BY <1>1 DEF Arithmetic, ConnTypes, NoCmd
<1>6. ConnTypes'
  BY <1>1, <1>4, <1>5, <1>c DEF ConnTypes, timevars, SlotMap
<1>7. Untouched(c) /\ current_time' = current_time
  BY <1>1, <1>4, <1>5, <1>c DEF Untouched, timevars
<1>8. ConnOK(c)'
  BY <1>1, <1>2, <1>4, <1>5 DEF ConnOK, HeldLabels, GetLabels
<1>9. Local(c)
  BY <1>6, <1>7, <1>8 DEF Local
<1> QED BY <1>2, <1>3, <1>9, GetEffect DEF HeldLabels

\* item_remove, by whatever command: a connection gives a reference back.
LEMMA GiveEffect ==
  ASSUME Ready, NEW c \in Conns, NEW n \in Slots, slot[<<c, n>>] # NULL,
         cache' = do_item_remove(cache, slot[<<c, n>>]), Put(c, n, NULL), leaked' = leaked,
         pc'[c] # "nread", Local(c)
  PROVE  Effect(c)
<1> DEFINE i == slot[<<c, n>>]
           h == cache'
           r == <<c, n>>
<1>1. /\ ConnTypes /\ ConnOK(c) /\ Good(cache, current_time) /\ current_time \in Nat /\ ~cache.aborted
      /\ i \in Items /\ i \notin cache.free
      /\ \A d \in Conns : pc[d] = "nread" => slot[<<d, 0>>] \in Items /\ Aside(cache, slot[<<d, 0>>])
      /\ ~cache.uncounted => Counted(cache, slot, leaked)
  BY Before
<1>2. /\ Step(cache, h, current_time)
      /\ h.uncounted = cache.uncounted /\ h.linked = cache.linked
      /\ h.aborted <=> cache.aborted \/ i \in cache.free
      /\ \A x \in Items : x # i => h.refcount[x] = cache.refcount[x]
      /\ i \notin cache.free /\ cache.refcount[i] # 0 => h.refcount[i] = cache.refcount[i] - 1
  <2> DEFINE g == do_item_remove(cache, i)
  <2>1. g = h
    OBVIOUS
  <2> HIDE DEF i
  <2>2. /\ Step(cache, g, current_time)
        /\ g.uncounted = cache.uncounted /\ g.linked = cache.linked
        /\ g.aborted <=> cache.aborted \/ i \in cache.free
        /\ \A x \in Items : x # i => g.refcount[x] = cache.refcount[x]
        /\ i \notin cache.free /\ cache.refcount[i] # 0 => g.refcount[i] = cache.refcount[i] - 1
    BY ONLY <1>1, RemoveStep
  <2> HIDE DEF g
  <2> QED BY ONLY <2>1, <2>2
<1>3. r \in Refs /\ slot[r] = i /\ slot'[r] = NULL /\ \A q \in Refs : q # r => slot'[q] = slot[q]
  BY <1>1, PutSlot DEF Refs, ConnTypes, SlotMap
<1> HIDE DEF i, h, r
<1>4. Spared(c)
  BY ONLY <1>1, <1>2, pc'[c] # "nread" DEF Spared, Aside, h
<1>5. Asserts
  BY ONLY <1>1, <1>2 DEF Asserts, h
<1>6. ASSUME ~h.aborted, ~h.uncounted, NEW x \in Items
      PROVE  h.refcount[x] = Count(slot', x) + leaked'[x]
  <2>1. /\ x = i => Count(slot, x) = Count(slot', x) + 1
        /\ x # i => Count(slot, x) = Count(slot', x)
    BY ONLY <1>1, <1>3, x \in Items, CountPut
  <2>2. Count(slot', x) \in Nat /\ leaked[x] \in Nat
    BY <1>1, CountNat DEF ConnTypes
  <2>3. cache.refcount[x] = Count(slot, x) + leaked[x]
    BY ONLY <1>1, <1>2, <1>6 DEF Counted
  <2> QED BY ONLY <1>1, <1>2, <2>1, <2>2, <2>3, leaked' = leaked
<1>7. Tally
  BY ONLY <1>6 DEF Tally, Counted, h
<1> QED BY <1>4, <1>5, <1>7 DEF Effect

LEMMA RemoveEffect ==
  ASSUME Ready, NEW c \in Conns, Remove(c)
  PROVE  Effect(c)
<1> DEFINE zero == 0
<1>1. ConnTypes /\ ConnOK(c) /\ zero \in Slots
  BY Before, ServerAssumption DEF Slots
<1>2. /\ cache' = do_item_remove(cache, slot[<<c, zero>>]) /\ Put(c, zero, NULL) /\ leaked' = leaked
      /\ slot[<<c, zero>>] # NULL
  BY <1>1 DEF Remove, history, ConnOK, HeldLabels
<1>3. /\ slot' \in SlotMap /\ slot'[<<c, zero>>] = NULL
      /\ \A d \in Conns, m \in Slots : ~(d = c /\ m = zero) => slot'[<<d, m>>] = slot[<<d, m>>]
  <2>1. slot \in SlotMap
    BY <1>1 DEF ConnTypes, SlotMap
  <2> HIDE DEF zero
  <2> QED BY <1>1, <1>2, <2>1, PutSlot
<1>4. pc'[c] = "idle"
  BY <1>1 DEF Remove, Goto, ConnTypes
<1>5. Local(c)
  BY <1>1, <1>3 DEF Remove, Goto, timevars, getvars, history, Local, Untouched, ConnTypes, ConnOK,
                    Labels, HeldLabels, GetLabels, NoCmd, SlotMap, Slots
<1> HIDE DEF zero
<1> QED BY <1>1, <1>2, <1>4, <1>5, GiveEffect

LEMMA CloseItemEffect ==
  ASSUME Ready, NEW c \in Conns, CloseItem(c)
  PROVE  Effect(c)
<1> DEFINE zero == 0
<1>1. ConnTypes /\ ConnOK(c) /\ zero \in Slots
  BY Before, ServerAssumption DEF Slots
<1>2. /\ cache' = do_item_remove(cache, slot[<<c, zero>>]) /\ Put(c, zero, NULL) /\ leaked' = leaked
      /\ slot[<<c, zero>>] # NULL
  BY <1>1 DEF CloseItem, history, ConnOK, HeldLabels
<1>3. /\ slot' \in SlotMap /\ slot'[<<c, zero>>] = NULL
      /\ \A d \in Conns, m \in Slots : ~(d = c /\ m = zero) => slot'[<<d, m>>] = slot[<<d, m>>]
  <2>1. slot \in SlotMap
    BY <1>1 DEF ConnTypes, SlotMap
  <2> HIDE DEF zero
  <2> QED BY <1>1, <1>2, <2>1, PutSlot
<1>4. pc'[c] = "closing"
  BY <1>1 DEF CloseItem, Goto, ConnTypes
<1>5. Local(c)
  BY <1>1, <1>3 DEF CloseItem, Goto, timevars, getvars, history, Local, Untouched, ConnTypes, ConnOK,
                    Labels, HeldLabels, GetLabels, SlotMap, Slots
<1> HIDE DEF zero
<1> QED BY <1>1, <1>2, <1>4, <1>5, GiveEffect

LEMMA GetNoMemoryEffect ==
  ASSUME Ready, NEW c \in Conns, GetNoMemory(c)
  PROVE  Effect(c)
<1> DEFINE zero == 0
<1>0. pc[c] \in HeldLabels
  BY DEF GetNoMemory, HeldLabels
<1>k. cache.key[slot[<<c, 0>>]] \in Keys
  BY <1>0, Before
<1>1. ConnTypes /\ ConnOK(c) /\ zero \in Slots
  BY Before, ServerAssumption DEF Slots
<1>2. /\ cache' = do_item_remove(cache, slot[<<c, zero>>]) /\ Put(c, zero, NULL) /\ leaked' = leaked
      /\ slot[<<c, zero>>] # NULL
  BY <1>1 DEF GetNoMemory, history, ConnOK, HeldLabels
<1>3. /\ slot' \in SlotMap /\ slot'[<<c, zero>>] = NULL
      /\ \A d \in Conns, m \in Slots : ~(d = c /\ m = zero) => slot'[<<d, m>>] = slot[<<d, m>>]
  <2>1. slot \in SlotMap
    BY <1>1 DEF ConnTypes, SlotMap
  <2> HIDE DEF zero
  <2> QED BY <1>1, <1>2, <2>1, PutSlot
<1>4. pc'[c] = "get_retry"
  BY <1>1 DEF GetNoMemory, Goto, ConnTypes
<1>5. Local(c)
  BY <1>k, <1>1, <1>3 DEF GetNoMemory, Goto, timevars, getvars, history, Local, Untouched, ConnTypes, ConnOK,
                    Labels, HeldLabels, GetLabels, SlotMap, Slots
<1> HIDE DEF zero
<1> QED BY <1>1, <1>2, <1>4, <1>5, GiveEffect

LEMMA ReleaseEffect ==
  ASSUME Ready, NEW c \in Conns, NEW label \in {"mwrite", "closing"}, Release1(c, label)
  PROVE  Effect(c)
<1> DEFINE n == icurr[c]
<1>1. ConnTypes /\ ConnOK(c) /\ MaxGets \in Nat
  BY Before, ServerAssumption
<1>2. n \in Slots /\ n \in 1 .. MaxGets
  BY <1>1 DEF Release1, ConnOK, ConnTypes, Slots
<1>3. /\ cache' = do_item_remove(cache, slot[<<c, n>>]) /\ Put(c, n, NULL) /\ leaked' = leaked
      /\ slot[<<c, n>>] # NULL
  BY <1>1, <1>2 DEF Release1, history, ConnOK, ConnTypes
<1>4. /\ slot' \in SlotMap /\ slot'[<<c, n>>] = NULL
      /\ \A d \in Conns, m \in Slots : ~(d = c /\ m = n) => slot'[<<d, m>>] = slot[<<d, m>>]
  <2>1. slot \in SlotMap
    BY <1>1 DEF ConnTypes, SlotMap
  <2> HIDE DEF n
  <2> QED BY <1>1, <1>2, <1>3, <2>1, PutSlot
<1>5. pc' = pc /\ pc[c] = label
  BY DEF Release1
<1>6. UNCHANGED <<reply, timevars, cmd, pc, got, history>>
  BY DEF Release1
<1>7. /\ icurr' = [icurr EXCEPT ![c] = @ + 1] /\ ileft' = [ileft EXCEPT ![c] = @ - 1] /\ ileft[c] > 0
  BY DEF Release1
<1>8. ConnTypes'
  BY <1>1, <1>2, <1>4, <1>6, <1>7 DEF ConnTypes, SlotMap, timevars, history
<1>9. Untouched(c)
  BY <1>1, <1>4, <1>6, <1>7 DEF Untouched, ConnTypes
<1>10. ConnOK(c)'
  <2>1. icurr'[c] = icurr[c] + 1 /\ ileft'[c] = ileft[c] - 1
    BY <1>1, <1>7 DEF ConnTypes
  <2>2. \A m \in 1 .. MaxGets : m # n => slot'[<<c, m>>] = slot[<<c, m>>]
    BY <1>4 DEF Slots
  <2>3. slot'[<<c, 0>>] = slot[<<c, 0>>]
    BY <1>1, <1>2, <1>4 DEF Slots
  <2>4. icurr[c] \in Nat /\ ileft[c] \in Nat
    BY <1>1 DEF ConnTypes
  <2>5. got[c] = 0
    BY <1>1, <1>5 DEF ConnOK, GetLabels
  <2> QED BY <1>1, <1>2, <1>5, <1>6, <1>7, <2>1, <2>2, <2>3, <2>4, <2>5 DEF ConnOK, GetLabels
<1>11. Local(c)
  BY <1>6, <1>8, <1>9, <1>10 DEF Local, timevars
<1> HIDE DEF n
<1> QED BY <1>2, <1>3, <1>5, <1>11, GiveEffect

\* The hit moves to slot n, and what was there is lost.
LEMMA MoveCounts ==
  ASSUME NEW s \in SlotMap, NEW t \in SlotMap, NEW r \in Refs, NEW q \in Refs, r # q,
         s[r] \in Items, t[r] = NULL, t[q] = s[r],
         \A p \in Refs : p # r /\ p # q => t[p] = s[p],
         NEW x \in Items
  PROVE  /\ x = s[q] => Count(s, x) = Count(t, x) + 1
         /\ x # s[q] => Count(s, x) = Count(t, x)
<1> DEFINE a == [s EXCEPT ![q] = NULL]
           b == [a EXCEPT ![r] = NULL]
           it == s[r]
           old == s[q]
<1>1. /\ a[q] = NULL /\ a[r] = it /\ \A p \in Refs : p # q => s[p] = a[p]
      /\ b[r] = NULL /\ b[q] = NULL /\ \A p \in Refs : p # r => a[p] = b[p]
      /\ \A p \in Refs : p # q => t[p] = b[p]
      /\ it \in Items /\ t[q] = it /\ old \in Items \cup {NULL}
  BY DEF SlotMap
<1> HIDE DEF a, b
<1>2. /\ x = it => Count(a, x) = Count(b, x) + 1
      /\ x # it => Count(a, x) = Count(b, x)
  BY <1>1, CountPut
<1>3. /\ x = it => Count(t, x) = Count(b, x) + 1
      /\ x # it => Count(t, x) = Count(b, x)
  BY <1>1, CountPut
<1>4. CASE old = NULL
  <2>1. \A p \in Refs : s[p] = a[p]
    BY <1>1, <1>4
  <2>2. Count(s, x) = Count(a, x) /\ x # old
    BY <1>4, <2>1, CountSame, CacheAssumption
  <2> QED BY <1>2, <1>3, <2>2
<1>5. CASE old # NULL
  <2>1. old \in Items
    BY <1>1, <1>5
  <2>2. /\ x = old => Count(s, x) = Count(a, x) + 1
        /\ x # old => Count(s, x) = Count(a, x)
    BY <1>1, <2>1, CountPut
  <2> QED BY <1>2, <1>3, <2>2
<1> QED BY <1>4, <1>5

LEMMA GetUpdateEffect ==
  ASSUME Ready, NEW c \in Conns, GetUpdate(c)
  PROVE  Effect(c)
<1> DEFINE n == got[c] + 1
           it == slot[<<c, 0>>]
           old == slot[<<c, n>>]
           r == <<c, 0>>
           q == <<c, n>>
           h == cache'
<1>1. /\ ConnTypes /\ ConnOK(c) /\ Good(cache, current_time) /\ current_time \in Nat /\ ~cache.aborted
      /\ \A d \in Conns : pc[d] = "nread" => slot[<<d, 0>>] \in Items /\ Aside(cache, slot[<<d, 0>>])
      /\ ~cache.uncounted => Counted(cache, slot, leaked)
  BY Before
<1>0. pc[c] \in HeldLabels /\ pc[c] \in {"get_update", "get_last_update"}
  BY DEF GetUpdate, HeldLabels
<1>2. it \in Items /\ it \notin cache.free
  BY <1>0, Before
<1>3. n \in 1 .. MaxGets /\ n \in Slots /\ 0 \in Slots /\ got[c] \in Nat
  BY <1>0, <1>1, ServerAssumption DEF ConnOK, ConnTypes, Slots
<1>4. r \in Refs /\ q \in Refs /\ r # q
  BY <1>3 DEF Refs
<1>5. slot \in SlotMap
  BY <1>1 DEF ConnTypes, SlotMap
<1>6. slot' = [slot EXCEPT ![q] = it, ![r] = NULL]
  BY DEF GetUpdate
<1>7. /\ slot' \in SlotMap /\ slot'[r] = NULL /\ slot'[q] = it
      /\ \A p \in Refs : p # r /\ p # q => slot'[p] = slot[p]
  <2> HIDE DEF r, q, it, n
  <2> QED BY <1>2, <1>4, <1>5, <1>6 DEF SlotMap
<1>8. /\ slot'[<<c, 0>>] = NULL /\ slot'[<<c, n>>] # NULL
      /\ \A m \in 1 .. MaxGets : m # n => slot'[<<c, m>>] = slot[<<c, m>>]
      /\ \A d \in Conns, m \in Slots : d # c => slot'[<<d, m>>] = slot[<<d, m>>]
  <2>1. \A d \in Conns, m \in Slots : <<d, m>> \in Refs
    BY DEF Refs
  <2>2. 1 .. MaxGets \subseteq Slots
    BY DEF Slots
  <2> QED BY <1>2, <1>3, <1>7, <2>1, <2>2, CacheAssumption
<1>9. leaked' \in [Items -> Nat] /\ \A x \in Items : /\ x = old => leaked'[x] = leaked[x] + 1
                                                     /\ x # old => leaked'[x] = leaked[x]
  <2>1. leaked' = IF old = NULL THEN leaked ELSE [leaked EXCEPT ![old] = @ + 1]
    BY DEF GetUpdate
  <2>2. old \in Items \cup {NULL} /\ leaked \in [Items -> Nat]
    BY <1>1, <1>3, <1>4 DEF ConnTypes
  <2> HIDE DEF old
  <2> QED BY <2>1, <2>2, CacheAssumption
<1>10. /\ got' = [got EXCEPT ![c] = @ + 1]
       /\ pc' = [pc EXCEPT ![c] = IF pc[c] = "get_update" THEN "get" ELSE "get_last"]
       /\ UNCHANGED <<reply, timevars, cmd, icurr, ileft, flushed>>
  BY DEF GetUpdate, Goto
<1>11. got'[c] = n /\ pc'[c] \in {"get", "get_last"} /\ \A d \in Conns : d # c => got'[d] = got[d] /\ pc'[d] = pc[d]
  BY <1>1, <1>10 DEF ConnTypes
<1>12. ConnTypes'
  BY <1>1, <1>3, <1>7, <1>9, <1>10 DEF ConnTypes, SlotMap, timevars, Labels
<1>13. Untouched(c) /\ current_time' = current_time
  BY <1>8, <1>10, <1>11 DEF Untouched, timevars
<1>14. ConnOK(c)'
  <2>1. icurr'[c] = icurr[c] /\ ileft'[c] = ileft[c] /\ cmd'[c] = cmd[c]
    BY <1>10
  <2> HIDE DEF n
  <2>2. \A m \in 1 .. MaxGets : m <= n => m = n \/ m <= got[c]
    BY <1>3 DEF n
  <2> QED BY ONLY <1>1, <1>3, <1>8, <1>11, <2>1, <2>2 DEF ConnOK, HeldLabels, GetLabels
<1>15. Local(c)
  BY <1>12, <1>13, <1>14 DEF Local
<1>16. /\ Step(cache, h, current_time)
       /\ h.refcount = cache.refcount /\ h.uncounted = cache.uncounted /\ h.linked = cache.linked
       /\ h.aborted = cache.aborted
  <2> DEFINE g == do_item_update(cache, it, current_time)
  <2>1. g = h
    BY DEF GetUpdate
  <2> HIDE DEF it
  <2>2. /\ Step(cache, g, current_time)
        /\ g.refcount = cache.refcount /\ g.free = cache.free /\ g.uncounted = cache.uncounted
        /\ g.linked = cache.linked
        /\ it \notin cache.free => g.aborted = cache.aborted
    BY ONLY <1>1, <1>2, UpdateStep
  <2> HIDE DEF g
  <2> QED BY ONLY <1>2, <2>1, <2>2
<1> HIDE DEF h
<1>17. Spared(c)
  BY <1>1, <1>11, <1>16 DEF Spared, Aside, h
<1>18. Asserts
  BY ONLY <1>1, <1>16 DEF Asserts, h
<1>19. ASSUME ~h.uncounted, NEW x \in Items
       PROVE  h.refcount[x] = Count(slot', x) + leaked'[x]
  <2>1. cache.refcount[x] = Count(slot, x) + leaked[x]
    BY ONLY <1>1, <1>16, <1>19 DEF Counted
  <2>2. Count(slot', x) \in Nat /\ leaked[x] \in Nat
    BY <1>1, CountNat DEF ConnTypes
  <2>3. it = slot[r] /\ old = slot[q]
    OBVIOUS
  <2> HIDE DEF r, q, it, old
  <2>4. /\ x = old => Count(slot, x) = Count(slot', x) + 1
        /\ x # old => Count(slot, x) = Count(slot', x)
    BY <1>2, <1>4, <1>5, <1>7, <2>3, MoveCounts
  <2> QED BY ONLY <1>9, <1>16, <2>1, <2>2, <2>4, x \in Items
<1>20. Tally
  BY ONLY <1>19 DEF Tally, Counted, h
<1> QED BY <1>15, <1>17, <1>18, <1>20 DEF Effect

\* A get is over: the references of c outside slots lo .. hi are lost.
LEMMA AbandonSlots ==
  ASSUME slot \in SlotMap, NEW c \in Conns, NEW lo \in Int, NEW hi \in Int, Abandon(c, lo, hi)
  PROVE  /\ slot' \in SlotMap /\ slot'[<<c, 0>>] = NULL
         /\ \A m \in 1 .. MaxGets : lo <= m /\ m <= hi => slot'[<<c, m>>] = slot[<<c, m>>]
         /\ \A m \in 1 .. MaxGets : ~(lo <= m /\ m <= hi) => slot'[<<c, m>>] = NULL
         /\ \A d \in Conns, m \in Slots : d # c => slot'[<<d, m>>] = slot[<<d, m>>]
<1> DEFINE N == Stranded(c, lo, hi)
<1>0. 0 \in Slots /\ 1 .. MaxGets \subseteq Slots
  BY ServerAssumption DEF Slots
<1>1. slot' = [r \in Refs |-> IF r[1] = c /\ r[2] \in {0} \cup N THEN NULL ELSE slot[r]]
  BY DEF Abandon
<1>2. \A m : m \in N <=> m \in 1 .. MaxGets /\ ~(lo <= m /\ m <= hi) /\ slot[<<c, m>>] # NULL
  BY DEF Stranded
<1> HIDE DEF N
<1>3. slot' \in SlotMap
  BY <1>1 DEF SlotMap
<1>4. \A d \in Conns, m \in Slots :
        slot'[<<d, m>>] = IF d = c /\ m \in {0} \cup N THEN NULL ELSE slot[<<d, m>>]
  BY <1>1 DEF Refs
<1>5. slot'[<<c, 0>>] = NULL
  BY <1>0, <1>4
<1>6. ASSUME NEW m \in 1 .. MaxGets, lo <= m /\ m <= hi PROVE slot'[<<c, m>>] = slot[<<c, m>>]
  BY <1>0, <1>2, <1>4, <1>6
<1>7. ASSUME NEW m \in 1 .. MaxGets, ~(lo <= m /\ m <= hi) PROVE slot'[<<c, m>>] = NULL
  BY <1>0, <1>2, <1>4, <1>7
<1> QED BY <1>3, <1>4, <1>5, <1>6, <1>7

LEMMA AbandonCounts ==
  ASSUME slot \in SlotMap, leaked \in [Items -> Nat], NEW c \in Conns, NEW lo \in Int, NEW hi \in Int,
         Abandon(c, lo, hi), NEW s, s[<<c, 0>>] = NULL, \A q \in Refs : q # <<c, 0>> => s[q] = slot[q]
  PROVE  leaked' \in [Items -> Nat] /\ \A x \in Items : Count(s, x) + leaked[x] = Count(slot', x) + leaked'[x]
<1> DEFINE N == Stranded(c, lo, hi)
           L(x) == {m \in N : slot[<<c, m>>] = x}
           D(x) == Within(s, c, N, x)
           t == slot'
<1>0. 0 \in Slots /\ 1 .. MaxGets \subseteq Slots
  BY ServerAssumption DEF Slots
<1>1. slot' = [r \in Refs |-> IF r[1] = c /\ r[2] \in {0} \cup N THEN NULL ELSE slot[r]]
  BY DEF Abandon
<1>2. N \in SUBSET (1 .. MaxGets) /\ \A m \in N : <<c, m>> \in Refs /\ <<c, m>> # <<c, 0>>
  BY <1>0 DEF Stranded, Refs
<1>3. leaked' = [x \in Items |-> leaked[x] + Cardinality(L(x))]
  BY DEF Abandon
<1> HIDE DEF N
<1>a. \A d \in Conns, m \in Slots :
        ~(d = c /\ m = 0) /\ ~(d = c /\ m \in N) => slot'[<<d, m>>] = slot[<<d, m>>]
  BY <1>1 DEF Refs
<1>4. \A x : L(x) = D(x)
  BY <1>2 DEF Within
<1>5. \A d \in Conns, m \in Slots : d = c /\ m \in N => t[<<d, m>>] = NULL
  BY <1>1 DEF Refs
<1>6. \A d \in Conns, m \in Slots : ~(d = c /\ m \in N) => t[<<d, m>>] = s[<<d, m>>]
  <2>1. ASSUME NEW d \in Conns, NEW m \in Slots, ~(d = c /\ m \in N) PROVE t[<<d, m>>] = s[<<d, m>>]
    <3>1. CASE d = c /\ m = 0
      BY <1>1, <3>1 DEF Refs
    <3>2. CASE ~(d = c /\ m = 0)
      <4>1. <<d, m>> \in Refs /\ <<d, m>> # <<c, 0>>
        BY <3>2 DEF Refs
      <4>2. t[<<d, m>>] = slot[<<d, m>>]
        BY <1>a, <2>1, <3>2
      <4> QED BY <4>1, <4>2
    <3> QED BY <3>1, <3>2
  <2> QED BY <2>1
<1>7. ASSUME NEW x \in Items
      PROVE  Cardinality(D(x)) \in Nat /\ Count(s, x) = Count(t, x) + Cardinality(D(x))
  <2> HIDE DEF t
  <2> QED BY ONLY <1>2, <1>5, <1>6, x \in Items, c \in Conns, CountDrop
<1>8. \A x \in Items : Cardinality(L(x)) \in Nat /\ Count(s, x) = Count(t, x) + Cardinality(L(x))
  BY ONLY <1>4, <1>7
<1> HIDE DEF L, D, t
<1>9. \A x \in Items : Count(t, x) \in Nat
  BY CountNat
<1>10. leaked' \in [Items -> Nat]
  BY ONLY <1>3, <1>8, leaked \in [Items -> Nat]
<1>11. \A x \in Items : leaked'[x] = leaked[x] + Cardinality(L(x))
  BY ONLY <1>3
<1>12. \A x \in Items : leaked[x] \in Nat
  OBVIOUS
<1> QED BY ONLY <1>8, <1>9, <1>10, <1>11, <1>12 DEF t

\* A step in which a connection loses references, but not the cache.
LEMMA LoseEffect ==
  ASSUME Ready, NEW c \in Conns, Local(c), pc'[c] # "nread", cache' = cache, slot[<<c, 0>>] = NULL,
         NEW lo \in Int, NEW hi \in Int, Abandon(c, lo, hi)
  PROVE  Effect(c)
<1>1. /\ ConnTypes /\ Good(cache, current_time) /\ ~cache.aborted
      /\ \A d \in Conns : pc[d] = "nread" => slot[<<d, 0>>] \in Items /\ Aside(cache, slot[<<d, 0>>])
      /\ ~cache.uncounted => Counted(cache, slot, leaked)
  BY Before
<1>2. Step(cache, cache', current_time)
  BY <1>1, StepNone
<1>3. Spared(c)
  BY <1>1, <1>2 DEF Spared, Aside
<1>4. Asserts
  BY <1>1 DEF Asserts
<1>5. \A x \in Items : Count(slot, x) + leaked[x] = Count(slot', x) + leaked'[x]
  <2>1. slot \in SlotMap /\ leaked \in [Items -> Nat]
    BY <1>1 DEF ConnTypes, SlotMap
  <2> QED BY ONLY <2>1, Abandon(c, lo, hi), slot[<<c, 0>>] = NULL, AbandonCounts,
                  c \in Conns, lo \in Int, hi \in Int
<1>6. Tally
  BY <1>1, <1>5 DEF Tally, Counted
<1> QED BY <1>3, <1>4, <1>6 DEF Effect

LEMMA GetDoneEffect ==
  ASSUME Ready, NEW c \in Conns, GetDone(c)
  PROVE  Effect(c)
<1> DEFINE one == 1
           g == got[c]
<1>1. ConnTypes /\ ConnOK(c) /\ slot \in SlotMap /\ leaked \in [Items -> Nat] /\ g \in Int /\ one \in Int
  BY Before DEF ConnTypes, SlotMap
<1>2. Abandon(c, one, g) /\ cache' = cache
  BY DEF GetDone
<1>3. pc[c] \in {"get", "get_last"} /\ slot[<<c, 0>>] = NULL
  BY <1>1 DEF GetDone, ConnOK, HeldLabels
<1> HIDE DEF one, g
<1>4. /\ slot' \in SlotMap /\ slot'[<<c, 0>>] = NULL
      /\ \A m \in 1 .. MaxGets : one <= m /\ m <= g => slot'[<<c, m>>] = slot[<<c, m>>]
      /\ \A d \in Conns, m \in Slots : d # c => slot'[<<d, m>>] = slot[<<d, m>>]
  BY <1>1, <1>2, AbandonSlots
<1>5. leaked' \in [Items -> Nat]
  BY <1>1, <1>2, <1>3, AbandonCounts
<1>6. /\ icurr' = [icurr EXCEPT ![c] = 1] /\ ileft' = [ileft EXCEPT ![c] = got[c]]
      /\ got' = [got EXCEPT ![c] = 0] /\ UNCHANGED <<reply, cache, timevars, cmd, flushed>>
      /\ pc' = [pc EXCEPT ![c] = "mwrite"] \/ pc' = [pc EXCEPT ![c] = "idle"]
  BY DEF GetDone, Goto
<1>7. pc' \in [Conns -> Labels] /\ pc'[c] \in {"mwrite", "idle"} /\ \A d \in Conns : d # c => pc'[d] = pc[d]
  BY <1>1, <1>6 DEF ConnTypes, Labels
<1>8. got[c] \in 0 .. MaxGets /\ icurr'[c] = 1 /\ ileft'[c] = got[c] /\ got'[c] = 0 /\ MaxGets \in Nat
  BY <1>1, <1>6, ServerAssumption DEF ConnTypes
<1>9. ConnTypes'
  BY <1>1, <1>4, <1>5, <1>6, <1>7, <1>8 DEF ConnTypes, SlotMap, timevars
<1>10. Untouched(c) /\ current_time' = current_time
  BY <1>1, <1>4, <1>6, <1>7 DEF Untouched, timevars, ConnTypes
<1>11. ConnOK(c)'
  BY <1>1, <1>4, <1>7, <1>8 DEF ConnOK, HeldLabels, GetLabels, one, g
<1>12. Local(c) /\ pc'[c] # "nread"
  BY <1>7, <1>9, <1>10, <1>11 DEF Local
<1> QED BY <1>1, <1>2, <1>3, <1>12, LoseEffect

LEMMA GetKeyTooLongEffect ==
  ASSUME Ready, NEW c \in Conns, GetKeyTooLong(c)
  PROVE  Effect(c)
<1> DEFINE lo == icurr[c]
           hi == icurr[c] + ileft[c] - 1
<1>1. ConnTypes /\ ConnOK(c) /\ slot \in SlotMap /\ leaked \in [Items -> Nat] /\ lo \in Int /\ hi \in Int
  BY Before DEF ConnTypes, SlotMap
<1>2. Abandon(c, lo, hi) /\ cache' = cache
  BY DEF GetKeyTooLong
<1>3. pc[c] = "get" /\ slot[<<c, 0>>] = NULL
  BY <1>1 DEF GetKeyTooLong, ConnOK, HeldLabels
<1>h. icurr[c] \in Nat /\ ileft[c] \in Nat /\ lo = icurr[c] /\ hi = icurr[c] + ileft[c] - 1
  BY <1>1 DEF ConnTypes
<1> HIDE DEF lo, hi
<1>4. /\ slot' \in SlotMap /\ slot'[<<c, 0>>] = NULL
      /\ \A m \in 1 .. MaxGets : lo <= m /\ m <= hi => slot'[<<c, m>>] = slot[<<c, m>>]
      /\ \A d \in Conns, m \in Slots : d # c => slot'[<<d, m>>] = slot[<<d, m>>]
  BY <1>1, <1>2, AbandonSlots
<1>5. leaked' \in [Items -> Nat]
  BY <1>1, <1>2, <1>3, AbandonCounts
<1>6. /\ got' = [got EXCEPT ![c] = 0] /\ pc' = [pc EXCEPT ![c] = "idle"]
      /\ UNCHANGED <<reply, cache, timevars, cmd, icurr, ileft, flushed>>
  BY DEF GetKeyTooLong, Goto
<1>7. /\ pc' \in [Conns -> Labels] /\ pc'[c] = "idle" /\ got'[c] = 0
      /\ \A d \in Conns : d # c => pc'[d] = pc[d] /\ got'[d] = got[d]
  BY <1>1, <1>6 DEF ConnTypes, Labels
<1>9. ConnTypes'
  BY <1>1, <1>4, <1>5, <1>6, <1>7, ServerAssumption DEF ConnTypes, SlotMap, timevars
<1>10. Untouched(c) /\ current_time' = current_time
  BY <1>4, <1>6, <1>7 DEF Untouched, timevars
<1>11. ConnOK(c)'
  BY <1>1, <1>h, <1>4, <1>6, <1>7 DEF ConnOK, HeldLabels, GetLabels
<1>12. Local(c) /\ pc'[c] # "nread"
  BY <1>7, <1>9, <1>10, <1>11 DEF Local
<1> QED BY <1>1, <1>2, <1>3, <1>12, LoseEffect

LEMMA GetNoSuffixEffect ==
  ASSUME Ready, NEW c \in Conns, GetNoSuffix(c)
  PROVE  Effect(c)
<1> DEFINE lo == icurr[c]
           hi == icurr[c] + ileft[c] - 1
           i == slot[<<c, 0>>]
           r == <<c, 0>>
           s == [slot EXCEPT ![r] = NULL]
           h == cache'
<1>0. pc[c] \in HeldLabels /\ pc[c] \in GetLabels
  BY DEF GetNoSuffix, HeldLabels, GetLabels
<1>1. /\ ConnTypes /\ ConnOK(c) /\ Good(cache, current_time) /\ current_time \in Nat /\ ~cache.aborted
      /\ \A d \in Conns : pc[d] = "nread" => slot[<<d, 0>>] \in Items /\ Aside(cache, slot[<<d, 0>>])
      /\ ~cache.uncounted => Counted(cache, slot, leaked)
  BY Before
<1>i. i \in Items /\ i \notin cache.free
  BY <1>0, Before
<1>t. slot \in SlotMap /\ leaked \in [Items -> Nat] /\ lo \in Int /\ hi \in Int
  BY <1>1 DEF ConnTypes, SlotMap
<1>2. Abandon(c, lo, hi) /\ h = do_item_remove(cache, i)
  BY DEF GetNoSuffix
<1>3. icurr[c] \in Nat /\ ileft[c] \in Nat /\ lo = icurr[c] /\ hi = icurr[c] + ileft[c] - 1
  BY <1>1 DEF ConnTypes
<1> HIDE DEF lo, hi
<1>4. /\ slot' \in SlotMap /\ slot'[<<c, 0>>] = NULL
      /\ \A m \in 1 .. MaxGets : lo <= m /\ m <= hi => slot'[<<c, m>>] = slot[<<c, m>>]
      /\ \A d \in Conns, m \in Slots : d # c => slot'[<<d, m>>] = slot[<<d, m>>]
  BY <1>t, <1>2, AbandonSlots
<1>5. r \in Refs /\ slot[r] = i /\ s[r] = NULL /\ \A q \in Refs : q # r => s[q] = slot[q]
  BY <1>t, ServerAssumption DEF SlotMap, Refs, Slots
<1> HIDE DEF s
<1>6. leaked' \in [Items -> Nat] /\ \A x \in Items : Count(s, x) + leaked[x] = Count(slot', x) + leaked'[x]
  BY <1>t, <1>2, <1>5, AbandonCounts
<1>7. /\ got' = [got EXCEPT ![c] = 0] /\ pc' = [pc EXCEPT ![c] = "idle"]
      /\ UNCHANGED <<reply, timevars, cmd, icurr, ileft, flushed>>
  BY DEF GetNoSuffix, Goto
<1>8. /\ pc' \in [Conns -> Labels] /\ pc'[c] = "idle" /\ got'[c] = 0
      /\ \A d \in Conns : d # c => pc'[d] = pc[d] /\ got'[d] = got[d]
  BY <1>1, <1>7 DEF ConnTypes, Labels
<1>9. ConnTypes'
  BY <1>1, <1>4, <1>6, <1>7, <1>8, ServerAssumption DEF ConnTypes, SlotMap, timevars
<1>10. Untouched(c) /\ current_time' = current_time
  BY <1>4, <1>7, <1>8 DEF Untouched, timevars
<1>11. ConnOK(c)'
  BY <1>1, <1>3, <1>4, <1>7, <1>8 DEF ConnOK, HeldLabels, GetLabels
<1>12. Local(c)
  BY <1>9, <1>10, <1>11 DEF Local
<1>13. /\ Step(cache, h, current_time)
       /\ h.uncounted = cache.uncounted /\ h.linked = cache.linked
       /\ h.aborted <=> cache.aborted \/ i \in cache.free
       /\ \A x \in Items : x # i => h.refcount[x] = cache.refcount[x]
       /\ i \notin cache.free /\ cache.refcount[i] # 0 => h.refcount[i] = cache.refcount[i] - 1
  <2> DEFINE g == do_item_remove(cache, i)
  <2>1. g = h
    BY <1>2
  <2> HIDE DEF i, h
  <2>2. /\ Step(cache, g, current_time)
        /\ g.uncounted = cache.uncounted /\ g.linked = cache.linked
        /\ g.aborted <=> cache.aborted \/ i \in cache.free
        /\ \A x \in Items : x # i => g.refcount[x] = cache.refcount[x]
        /\ i \notin cache.free /\ cache.refcount[i] # 0 => g.refcount[i] = cache.refcount[i] - 1
    BY ONLY <1>1, <1>i, RemoveStep
  <2> HIDE DEF g
  <2> QED BY ONLY <2>1, <2>2
<1> HIDE DEF i, h, r
<1>14. Spared(c)
  BY ONLY <1>1, <1>8, <1>13 DEF Spared, Aside, h
<1>15. Asserts
  BY ONLY <1>1, <1>i, <1>13 DEF Asserts, h
<1>16. ASSUME ~h.aborted, ~h.uncounted, NEW x \in Items
       PROVE  h.refcount[x] = Count(slot', x) + leaked'[x]
  <2>1. /\ x = i => Count(slot, x) = Count(s, x) + 1
        /\ x # i => Count(slot, x) = Count(s, x)
    BY ONLY <1>i, <1>5, x \in Items, CountPut
  <2>2. Count(s, x) \in Nat /\ leaked[x] \in Nat /\ Count(slot', x) \in Nat /\ leaked'[x] \in Nat
    BY <1>t, <1>6, CountNat
  <2>3. cache.refcount[x] = Count(slot, x) + leaked[x]
    BY ONLY <1>1, <1>13, <1>16 DEF Counted
  <2> QED BY ONLY <1>i, <1>6, <1>13, <2>1, <2>2, <2>3, x \in Items
<1>17. Tally
  BY ONLY <1>16 DEF Tally, Counted, h
<1> QED BY <1>12, <1>14, <1>15, <1>17 DEF Effect

CmdMap == [Conns -> [comm : StoreCmds \cup {"get", "none"}, key : Keys \cup {NULL}]]

\* process_update_command, with the CAS id u of the command line.
LEMMA UpdateEffect ==
  ASSUME Ready, NEW c \in Conns, NEW comm \in StoreCmds, NEW k \in Keys, NEW v \in SetVals,
         NEW e \in Exptimes, NEW u \in Nat, Update(c, comm, k, v, e, u)
  PROVE  Effect(c)
<1> DEFINE zero == 0
           t == realtime(e)
           w == Width(v)
<1>1. /\ ConnTypes /\ ConnOK(c) /\ Good(cache, current_time) /\ current_time \in Nat /\ ~cache.aborted
      /\ \A d \in Conns : pc[d] = "nread" => slot[<<d, 0>>] \in Items /\ Aside(cache, slot[<<d, 0>>])
      /\ ~cache.uncounted => Counted(cache, slot, leaked)
  BY Before
<1>2. PICK a \in do_item_alloc(cache, k, v, t, w, current_time) :
        IF a.it # NULL
        THEN /\ cache' = [a.h EXCEPT !.cas[a.it] = u]
             /\ Put(c, 0, a.it)
             /\ Goto(c, "nread")
             /\ cmd' = [cmd EXCEPT ![c] = [comm |-> comm, key |-> k]]
        ELSE /\ cache' = a.h
             /\ UNCHANGED slot
             /\ IF comm = "set"
                THEN /\ Goto(c, "set_failed")
                     /\ cmd' = [cmd EXCEPT ![c] = [comm |-> comm, key |-> k]]
                ELSE UNCHANGED <<pc, cmd>>
  BY ONLY Update(c, comm, k, v, e, u) DEF Update
<1> DEFINE g == a.h
           it == a.it
<1>3. Allocated(cache, g, it, k, current_time)
  <2>1. w \in Nat
    BY WidthNat
  <2>2. t \in Nat
    <3>1. e \in Nat
      BY ServerAssumption
    <3> QED BY ONLY <1>1, <3>1 DEF realtime
  <2>3. v \in Int
    <3>1. v \in UInt64
      BY ServerAssumption
    <3> QED BY ONLY <3>1, DeltaAssumption DEF UInt64
  <2> HIDE DEF t, w
  <2> QED BY <1>1, <1>2, <2>1, <2>2, <2>3, AllocOutcome
<1>4. /\ pc[c] = "idle" /\ UNCHANGED <<reply, timevars, got, icurr, ileft, leaked, flushed>>
  BY DEF Update, getvars, history
<1>5. slot[<<c, 0>>] = NULL /\ zero \in Slots /\ slot \in SlotMap
  BY <1>1, <1>4, ServerAssumption DEF ConnOK, HeldLabels, ConnTypes, SlotMap, Slots
<1>6. Step(cache, g, current_time) /\ g.aborted = cache.aborted
  BY <1>3 DEF Allocated
<1>c. LET C == [cmd EXCEPT ![c] = [comm |-> comm, key |-> k]] IN
      /\ C \in CmdMap /\ C[c].key = k /\ \A d \in Conns : d # c => C[d] = cmd[d]
  BY <1>1 DEF ConnTypes, CmdMap
<1>7. CASE it = NULL
  <2>1. /\ cache' = g /\ slot' = slot /\ cmd' \in CmdMap
        /\ pc' \in [Conns -> Labels] /\ pc'[c] \in {"idle", "set_failed"}
        /\ pc'[c] = "set_failed" => cmd'[c].key = k
        /\ \A d \in Conns : d # c => pc'[d] = pc[d] /\ cmd'[d] = cmd[d]
    <3>1. cache' = g /\ slot' = slot
      BY <1>2, <1>7
    <3>2. CASE comm = "set"
      <4>1. pc' = [pc EXCEPT ![c] = "set_failed"] /\ cmd' = [cmd EXCEPT ![c] = [comm |-> comm, key |-> k]]
        BY <1>2, <1>7, <3>2 DEF Goto
      <4>2. /\ pc' \in [Conns -> Labels] /\ pc'[c] = "set_failed"
            /\ \A d \in Conns : d # c => pc'[d] = pc[d]
        BY <1>1, <4>1 DEF ConnTypes, Labels
      <4> QED BY <1>c, <3>1, <4>1, <4>2
    <3>3. CASE comm # "set"
      <4>1. pc' = pc /\ cmd' = cmd
        BY <1>2, <1>7, <3>3
      <4> QED BY <1>1, <1>4, <3>1, <4>1 DEF ConnTypes, CmdMap
    <3> QED BY <3>2, <3>3
  <2>2. Local(c)
    <3>1. ConnTypes'
      BY <1>1, <1>4, <2>1 DEF ConnTypes, CmdMap, timevars
    <3>2. ConnOK(c)'
      BY <1>1, <1>4, <2>1 DEF ConnOK, HeldLabels, GetLabels
    <3> QED BY <1>4, <2>1, <3>1, <3>2 DEF Local, Untouched, timevars
  <2>3. Asserts
    BY <1>1, <1>6, <2>1 DEF Asserts
  <2>4. NULL \notin Items
    BY CacheAssumption
  <2>5. /\ \A x \in Items : Aside(cache, x) => ~cache'.linked[x]
        /\ ~cache'.uncounted => \A x \in Items : cache'.refcount[x] = cache.refcount[x]
    BY <1>3, <1>7, <2>1, <2>4 DEF Allocated, Aside
  <2> HIDE DEF it, g
  <2> QED BY <1>4, <1>6, <2>1, <2>2, <2>3, <2>5, CacheEffect
<1>8. CASE it # NULL
  <2> DEFINE f == SetCas(g, it, u)
             r == <<c, zero>>
  <2>1. f = cache' /\ Put(c, zero, it)
    BY <1>2, <1>8 DEF SetCas
  <2>2. /\ cmd' \in CmdMap
        /\ pc' \in [Conns -> Labels] /\ pc'[c] = "nread"
        /\ \A d \in Conns : d # c => pc'[d] = pc[d] /\ cmd'[d] = cmd[d]
    <3>1. pc' = [pc EXCEPT ![c] = "nread"] /\ cmd' = [cmd EXCEPT ![c] = [comm |-> comm, key |-> k]]
      BY <1>2, <1>8 DEF Goto
    <3>2. /\ pc' \in [Conns -> Labels] /\ pc'[c] = "nread"
          /\ \A d \in Conns : d # c => pc'[d] = pc[d]
      BY <1>1, <3>1 DEF ConnTypes, Labels
    <3> QED BY <1>c, <3>1, <3>2
  <2>3. /\ it \in Items /\ Aside(g, it) /\ g.refcount[it] = 1
        /\ \A x \in Items : Aside(cache, x) => Aside(g, x) /\ x # it
        /\ ~g.uncounted => /\ cache.refcount[it] = 0
                           /\ \A x \in Items : x # it => g.refcount[x] = cache.refcount[x]
    BY <1>3, <1>8 DEF Allocated
  <2> HIDE DEF it, g
  <2>4. /\ Step(g, f, current_time)
        /\ f.linked = g.linked /\ f.refcount = g.refcount /\ f.uncounted = g.uncounted /\ f.aborted = g.aborted
    <3>1. Good(g, current_time) /\ ~g.linked[it]
      BY <1>6, <2>3, StepParts DEF Aside
    <3> QED BY <2>3, <3>1, CasStep
  <2> HIDE DEF f
  <2>5. Step(cache, f, current_time)
    BY ONLY <1>1, <1>6, <2>4, StepOn
  <2>6. /\ slot' \in SlotMap /\ slot'[r] = it
        /\ \A d \in Conns, m \in Slots : ~(d = c /\ m = zero) => slot'[<<d, m>>] = slot[<<d, m>>]
        /\ \A q \in Refs : q # r => slot'[q] = slot[q]
    <3> HIDE DEF zero
    <3> QED BY <1>5, <2>1, <2>3, PutSlot
  <2>7. Local(c)
    <3>1. ConnTypes'
      BY <1>1, <1>4, <2>2, <2>6 DEF ConnTypes, CmdMap, timevars, SlotMap
    <3>2. Untouched(c)
      BY <1>4, <2>2, <2>6 DEF Untouched
    <3>3. NULL \notin Items /\ \A n \in 1 .. MaxGets : n \in Slots /\ n # zero
      BY CacheAssumption DEF Slots
    <3>4. ConnOK(c)'
      BY <1>1, <1>4, <2>2, <2>3, <2>6, <3>3 DEF ConnOK, HeldLabels, GetLabels
    <3> QED BY <1>4, <3>1, <3>2, <3>4 DEF Local, timevars
  <2>8. Spared(c)
    BY <1>1, <2>1, <2>3, <2>4, <2>5, <2>6 DEF Spared, Aside
  <2>9. Asserts
    BY <1>1, <1>6, <2>1, <2>4 DEF Asserts
  <2>10. ASSUME ~f.aborted, ~f.uncounted, NEW x \in Items
         PROVE  f.refcount[x] = Count(slot', x) + leaked'[x]
    <3>1. r \in Refs /\ slot[r] = NULL
      BY <1>5 DEF Refs
    <3> HIDE DEF r
    <3>2. /\ x = it => Count(slot', x) = Count(slot, x) + 1
          /\ x # it => Count(slot', x) = Count(slot, x)
      BY ONLY <2>3, <2>6, <3>1, x \in Items, CountPut
    <3>3. Count(slot, x) \in Nat /\ leaked[x] \in Nat /\ leaked' = leaked
      BY <1>1, <1>4, CountNat DEF ConnTypes
    <3>4. ~cache.uncounted
      BY <1>6, <2>4, <2>10 DEF Step
    <3>5. cache.refcount[x] = Count(slot, x) + leaked[x]
      BY ONLY <1>1, <3>4, x \in Items DEF Counted
    <3> QED BY ONLY <2>3, <2>4, <2>10, <3>2, <3>3, <3>5
  <2>11. Tally
    BY <2>1, <2>10 DEF Tally, Counted
  <2> QED BY <2>7, <2>8, <2>9, <2>11 DEF Effect
<1> QED BY <1>7, <1>8

-----------------------------------------------------------------------------
(* The invariant *)

\* The second that passes leaves the queue sorted.
LEMMA TickKeeps ==
  ASSUME Ready, Tick
  PROVE  IInv'
<1>1. /\ current_time \in Nat /\ current_time' = current_time + 1
      /\ UNCHANGED <<cache, oldest_live, pc, cmd, slot, got, icurr, ileft, reply, leaked, flushed>>
  BY Before DEF Tick, connvars, history, Ready, IInv, ConnTypes
<1>2. ConnTypes /\ (\A c \in Conns : ConnOK(c)) /\ Private /\ Good(cache, current_time) /\ RefcountsMatch
  BY DEF Ready, IInv
<1>3. ConnTypes' /\ current_time' # 0
  BY <1>1, <1>2 DEF ConnTypes
<1>4. (\A c \in Conns : ConnOK(c))' /\ Private' /\ RefcountsMatch'
  BY <1>1, <1>2 DEF ConnOK, Private, RefcountsMatch, Holders
<1>5. Good(cache, current_time)'
  <2>1. \A i \in Items : cache.time[i] \in Nat
    BY <1>2, FieldTypes DEF Good, Sound
  <2>2. Sorted(cache, current_time)
    BY <1>2 DEF Good, Sound
  <2>3. Sorted(cache', current_time')
    BY ONLY <1>1, <2>1, <2>2 DEF Sorted
  <2> QED BY <1>1, <1>2, <2>3 DEF Good, Sound
<1> QED BY <1>3, <1>4, <1>5 DEF IInv

LEMMA EmptyGood ==
  ASSUME NEW now
  PROVE  /\ Good(EmptyCache, now) /\ \A i \in Items : EmptyCache.refcount[i] = 0
         /\ ~EmptyCache.aborted
<1> DEFINE h == EmptyCache
<1>1. 0 \in 0 .. RefWrap - 1
  BY CacheAssumption
<1>2. h \in CacheType
  BY <1>1 DEF EmptyCache, CacheType
<1>3. /\ h.lru = << >> /\ h.free = Items /\ \A k \in Keys : h.assoc[k] = NULL
      /\ \A i \in Items : h.linked[i] = FALSE /\ h.refcount[i] = 0
      /\ ~h.aborted
  BY DEF EmptyCache
<1> HIDE DEF h
<1>4. DOMAIN h.lru = {}
  BY ONLY <1>3
<1>5. InQueue(h)
  BY ONLY <1>3, <1>4 DEF InQueue, Has, Distinct
<1>6. Sorted(h, now)
  BY ONLY <1>3, <1>4 DEF Sorted, SortedBy
<1>7. Tabled(h) /\ FreeUnused(h) /\ Numbered(h) /\ \A i \in Items : Needed(h, i)
  BY ONLY <1>3 DEF Tabled, FreeUnused, Numbered, Needed
<1>8. Good(h, now)
  BY ONLY <1>2, <1>5, <1>6, <1>7 DEF Good, Sound
<1> QED BY <1>3, <1>8 DEF h

LEMMA InitIInv == Init => IInv
<1> SUFFICES ASSUME Init PROVE IInv
  OBVIOUS
<1>1. /\ cache = EmptyCache /\ current_time = StartTime /\ oldest_live = 0
      /\ pc = [c \in Conns |-> "idle"] /\ cmd = [c \in Conns |-> NoCmd]
      /\ slot = [r \in Refs |-> NULL] /\ got = [c \in Conns |-> 0] /\ icurr = [c \in Conns |-> 1]
      /\ ileft = [c \in Conns |-> 0] /\ reply = [c \in Conns |-> "none"]
      /\ leaked = [i \in Items |-> 0] /\ flushed = NoFlush
  BY DEF Init
<1>2. StartTime \in Nat \ {0} /\ MaxGets \in Nat /\ NULL \notin Items
  BY ServerAssumption, CacheAssumption
<1>3. ConnTypes /\ current_time # 0
  BY <1>1, <1>2 DEF ConnTypes, Labels, NoCmd, NoFlush
<1>4. \A r \in Refs : slot[r] = NULL
  BY <1>1
<1>5. \A c \in Conns, n \in Slots : slot[<<c, n>>] = NULL
  BY <1>4 DEF Refs
<1>6. \A c \in Conns : ConnOK(c)
  <2> TAKE c \in Conns
  <2>1. /\ pc[c] = "idle" /\ got[c] = 0 /\ icurr[c] = 1 /\ ileft[c] = 0 /\ slot[<<c, 0>>] = NULL
    BY <1>1, <1>2, <1>5 DEF Slots
  <2> QED BY ONLY <1>2, <2>1 DEF ConnOK, HeldLabels
<1>7. Private
  BY <1>1 DEF Private
<1>8. Good(cache, current_time) /\ \A i \in Items : cache.refcount[i] = 0
  BY <1>1, EmptyGood
<1>9. RefcountsMatch
  <2> SUFFICES ASSUME NEW i \in Items PROVE cache.refcount[i] = Cardinality(Holders(i)) + leaked[i]
    BY DEF RefcountsMatch
  <2>1. Holders(i) = {}
    BY <1>2, <1>4 DEF Holders
  <2>2. Cardinality(Holders(i)) = 0
    BY <2>1, FS_EmptySet
  <2> QED BY <1>1, <1>8, <2>2
<1> QED BY <1>3, <1>6, <1>7, <1>8, <1>9 DEF IInv

\* Every step of a connection is one of the effects above.
LEMMA ConnEffect ==
  ASSUME Ready, NEW c \in Conns, ConnStep(c)
  PROVE  Effect(c)
<1>1. CASE GetStep(c)
  <2>1. CASE GetStart(c)
    BY <2>1, GetStartEffect
  <2>2. CASE GetUpdate(c)
    BY <2>2, GetUpdateEffect
  <2>3. CASE GetDone(c)
    BY <2>3, GetDoneEffect
  <2>4. CASE GetRetry(c)
    BY <2>4, GetRetryEffect
  <2>5. CASE MwriteRelease(c)
    BY <2>5, ReleaseEffect DEF MwriteRelease
  <2>6. CASE MwriteDone(c)
    BY <2>6, MwriteDoneEffect
  <2>7. CASE GetKeyTooLong(c)
    BY <2>7, GetKeyTooLongEffect
  <2>8. CASE GetNoMemory(c)
    BY <2>8, GetNoMemoryEffect
  <2>9. CASE GetNoSuffix(c)
    BY <2>9, GetNoSuffixEffect
  <2>10. ASSUME NEW k \in Keys, GetKey(c, k) PROVE Effect(c)
    BY <2>10, GetKeyEffect
  <2> QED BY <1>1, <2>1, <2>2, <2>3, <2>4, <2>5, <2>6, <2>7, <2>8, <2>9, <2>10 DEF GetStep
<1>2. CASE StoreStep(c)
  <2>1. ASSUME NEW comm \in StoreCmds, NEW k \in Keys, NEW v \in SetVals, NEW e \in Exptimes,
               Update(c, comm, k, v, e, 0)
        PROVE  Effect(c)
    <3> DEFINE u == 0
    <3>1. u \in Nat /\ Update(c, comm, k, v, e, u)
      BY <2>1
    <3> HIDE DEF u
    <3> QED BY <3>1, UpdateEffect
  <2>2. ASSUME NEW comm \in StoreCmds, NEW k \in Keys, NEW v \in SetVals, NEW e \in Exptimes,
               NEW u \in 1 .. cache.cas_id, Update(c, comm, k, v, e, u)
        PROVE  Effect(c)
    <3>1. u \in Nat
      <4>1. cache.cas_id \in Nat
        BY Before, FieldTypes
      <4> QED BY <4>1
    <3> QED BY <2>2, <3>1, UpdateEffect
  <2>3. CASE SetFailed(c)
    BY <2>3, SetFailedEffect
  <2>4. CASE StoreItem(c)
    BY <2>4, StoreItemEffect
  <2>5. CASE BadDataChunk(c)
    BY <2>5, BadDataChunkEffect
  <2> QED BY <1>2, <2>1, <2>2, <2>3, <2>4, <2>5 DEF StoreStep
<1>3. CASE OtherStep(c)
  <2>1. ASSUME NEW k \in Keys, Delete(c, k) PROVE Effect(c)
    BY <2>1, DeleteEffect
  <2>2. ASSUME NEW k \in Keys, Arithmetic(c, k) PROVE Effect(c)
    BY <2>2, ArithmeticEffect
  <2>3. ASSUME NEW incr \in BOOLEAN, NEW delta \in Deltas, AddDelta(c, incr, delta) PROVE Effect(c)
    BY <2>3, AddDeltaEffect
  <2>4. ASSUME NEW delay \in Delays, FlushAll(c, delay) PROVE Effect(c)
    BY <2>4, FlushAllEffect
  <2>5. CASE Unlink(c)
    BY <2>5, UnlinkEffect
  <2>6. CASE Remove(c)
    BY <2>6, RemoveEffect
  <2>7. CASE FlushExpired(c)
    BY <2>7, FlushExpiredEffect
  <2>8. CASE Close(c)
    BY <2>8, CloseEffect
  <2>9. CASE CloseItem(c)
    BY <2>9, CloseItemEffect
  <2>10. CASE CloseRelease(c)
    BY <2>10, ReleaseEffect DEF CloseRelease
  <2>11. CASE Closed(c)
    BY <2>11, ClosedEffect
  <2> QED BY <1>3, <2>1, <2>2, <2>3, <2>4, <2>5, <2>6, <2>7, <2>8, <2>9, <2>10, <2>11 DEF OtherStep
<1> QED BY <1>1, <1>2, <1>3 DEF ConnStep

LEMMA NextIInv == IInv /\ [Next]_vars => IInv'
<1> SUFFICES ASSUME IInv, [Next]_vars PROVE IInv'
  OBVIOUS
<1>1. CASE Next
  <2>1. Ready
    BY <1>1 DEF Ready, Next
  <2>2. CASE Tick
    BY <2>1, <2>2, TickKeeps
  <2>3. ASSUME NEW c \in Conns, ConnStep(c) PROVE IInv'
    BY <2>1, <2>3, ConnEffect, EffectKeeps
  <2> QED BY <1>1, <2>2, <2>3 DEF Next
<1>2. CASE UNCHANGED vars
  BY <1>2 DEF vars, connvars, timevars, history, IInv, ConnTypes, ConnOK, Private, RefcountsMatch, Holders
<1> QED BY <1>1, <1>2

\* What is counted is not free.
LEMMA CountedInUse ==
  ASSUME NEW h \in CacheType, FreeUnused(h), NEW s, NEW l \in [Items -> Nat], Counted(h, s, l),
         NEW r \in Refs
  PROVE  s[r] \notin h.free
<1> DEFINE i == s[r]
           H == HoldersOf(s, i)
<1> SUFFICES ASSUME i \in h.free PROVE FALSE
  OBVIOUS
<1>1. i \in Items /\ h.refcount[i] = 0
  BY FieldTypes DEF FreeUnused
<1>2. h.refcount[i] = Cardinality(H) + l[i] /\ l[i] \in Nat
  BY <1>1 DEF Counted, Count
<1>3. IsFiniteSet(H) /\ Cardinality(H) \in Nat
  BY CountNat DEF Count
<1>4. r \in H
  BY DEF HoldersOf
<1> HIDE DEF H, i
<1>5. Cardinality(H) # 0
  BY <1>3, <1>4, FS_EmptySet
<1> QED BY ONLY <1>1, <1>2, <1>3, <1>5

-----------------------------------------------------------------------------
(* What holds in every state *)

\* The invariant: whatever the connections do, and however their calls
\* interleave, the cache is sound, every chunk is needed by something or free,
\* each connection holds what its label says it holds, and the reference
\* counts are those of the references.
THEOREM Invariant == Spec => []IInv
<1>1. Init => IInv
  BY InitIInv
<1>2. IInv /\ [Next]_vars => IInv'
  BY NextIInv
<1> QED BY <1>1, <1>2, PTL DEF Spec

\* Every variable has its type: no count of references leaves an unsigned short,
\* no index of a get leaves c->ilist.
THEOREM TypeCorrect == Spec => []TypeOK
<1>1. IInv => TypeOK
  BY DEF IInv, ConnTypes, Good, Sound, TypeOK
<1> QED BY <1>1, Invariant, PTL

\* The hash table, the LRU, the LINKED flags and the slab free list, which four
\* files maintain by hand, agree about every item after every call.
THEOREM StructuresAlwaysAgree == Spec => []StructuresAgree
<1>1. IInv => StructuresAgree
  <2> SUFFICES ASSUME IInv PROVE StructuresAgree
    OBVIOUS
  <2>1. /\ Tabled(cache) /\ InQueue(cache) /\ FreeUnused(cache)
        /\ \A k \in Keys : cache.assoc[k] \in Items \cup {NULL}
        /\ \A j \in DOMAIN cache.lru : cache.lru[j] \in Items
        /\ NULL \notin Items
    BY FieldTypes, Positions, CacheAssumption DEF IInv, Good, Sound
  <2>2. ASSUME NEW i \in Items PROVE cache.linked[i] <=> \E k \in Keys : cache.assoc[k] = i
    BY ONLY <2>1, i \in Items DEF Tabled
  <2>3. \A k \in Keys : cache.assoc[k] # NULL => cache.key[cache.assoc[k]] = k
    BY ONLY <2>1 DEF Tabled
  <2>4. {cache.lru[j] : j \in DOMAIN cache.lru} = {i \in Items : cache.linked[i]}
    <3>1. \A i \in Items : cache.linked[i] <=> \E j \in DOMAIN cache.lru : cache.lru[j] = i
      BY ONLY <2>1 DEF InQueue, Has
    <3> QED BY ONLY <2>1, <3>1
  <2>5. \A j, m \in DOMAIN cache.lru : cache.lru[j] = cache.lru[m] => j = m
    BY ONLY <2>1 DEF InQueue, Distinct
  <2>6. \A i \in cache.free : ~cache.linked[i] /\ cache.refcount[i] = 0
    BY ONLY <2>1 DEF FreeUnused
  <2> QED BY ONLY <2>2, <2>3, <2>4, <2>5, <2>6 DEF StructuresAgree
<1> QED BY <1>1, Invariant, PTL

\* No chunk is lost: one that is neither linked nor referenced is free, whichever
\* command failed, was cut off or lost a race for it.
THEOREM NoChunkEverLost == Spec => []NoChunkLost
<1>1. IInv => NoChunkLost
  BY DEF IInv, Good, Needed, NoChunkLost
<1> QED BY <1>1, Invariant, PTL

\* The reference counts are those of the references connections hold and of the
\* ones that error paths of a get lose, for as long as no count has been given
\* up by the tail repair or has wrapped.
THEOREM RefcountsAlwaysMatch == Spec => []RefcountsMatch
<1>1. IInv => RefcountsMatch
  BY DEF IInv
<1> QED BY <1>1, Invariant, PTL

\* No use after free: an item some connection refers to has not been freed.
THEOREM HeldNeverFreed == Spec => []HeldNotFreed
<1>1. IInv => HeldNotFreed
  <2> SUFFICES ASSUME IInv, ~cache.aborted, ~cache.uncounted, NEW r \in Refs
               PROVE  slot[r] \notin cache.free
    BY DEF HeldNotFreed, UseAfterFree
  <2>1. cache \in CacheType /\ FreeUnused(cache) /\ leaked \in [Items -> Nat]
    BY DEF IInv, ConnTypes, Good, Sound
  <2>2. Counted(cache, slot, leaked)
    BY DEF IInv, RefcountsMatch, Counted, Count, Holders, HoldersOf
  <2> QED BY ONLY <2>1, <2>2, r \in Refs, CountedInUse
<1> QED BY <1>1, Invariant, PTL

\* "The LRU is sorted in decreasing time order" (items.c:531), which
\* item_flush_expired relies on.
THEOREM LruAlwaysSorted == Spec => []LruSorted
<1>1. IInv => LruSorted
  <2> SUFFICES ASSUME IInv, NEW j \in 1 .. Len(cache.lru) - 1
               PROVE  cache.time[cache.lru[j]] >= cache.time[cache.lru[j + 1]]
    BY DEF LruSorted
  <2>1. SortedBy(cache.lru, cache.time) /\ Len(cache.lru) \in Nat /\ DOMAIN cache.lru = 1 .. Len(cache.lru)
    BY FieldTypes, Positions DEF IInv, Good, Sound, Sorted
  <2>2. j \in DOMAIN cache.lru /\ j + 1 \in DOMAIN cache.lru /\ j < j + 1
    BY <2>1
  <2> QED BY ONLY <2>1, <2>2 DEF SortedBy
<1> QED BY <1>1, Invariant, PTL

\* The CAS ids of cached items are distinct, and the counter is ahead of them.
THEOREM CasIdsAlwaysUnique == Spec => []CasIdsUnique
<1>1. IInv => CasIdsUnique
  BY DEF IInv, Good, Sound, Numbered, CasIdsUnique
<1> QED BY <1>1, Invariant, PTL

\* Without incr and decr, which may find their key set anew by somebody else,
\* none of the assertions of assoc.c, items.c and slabs.c about items fails:
\* no key is inserted twice, no item is linked twice or used when it is free.
THEOREM NoAssertionFails ==
  Cmds \cap {"incr", "decr"} = {} => (Spec => [](cache.uncounted \/ NoAssertFails))
<1> DEFINE Kept == cache.uncounted \/ NoAssertFails
<1> SUFFICES ASSUME Cmds \cap {"incr", "decr"} = {} PROVE Spec => []Kept
  OBVIOUS
<1>1. Init => Kept
  BY EmptyGood DEF Init, NoAssertFails
<1>2. IInv /\ Kept /\ [Next]_vars => Kept'
  <2> SUFFICES ASSUME IInv, Kept, [Next]_vars PROVE Kept'
    OBVIOUS
  <2>1. CASE Next
    <3>1. Ready
      BY <2>1 DEF Ready, Next
    <3>2. CASE Tick
      BY <3>2 DEF Tick, NoAssertFails
    <3>3. ASSUME NEW c \in Conns, ConnStep(c) PROVE Kept'
      BY <3>1, <3>3, ConnEffect DEF Effect, Asserts, NoAssertFails
    <3> QED BY <2>1, <3>2, <3>3 DEF Next
  <2>2. CASE UNCHANGED vars
    BY <2>2 DEF vars, NoAssertFails
  <2> QED BY <2>1, <2>2
<1> QED BY <1>1, <1>2, Invariant, PTL DEF Spec

\* A value never changes under its CAS id: when a retrieval of a key would return
\* something else than before the step, its id is one given since.
THEOREM ValuesChangeWithNewCas == Spec => ValueChangeIsNewCas
<1> DEFINE Same(k) == (Visible(k) # NULL /\ Visible(k)' # NULL /\ Visible(k)' # Visible(k))
                        => Visible(k).cas <= cache.cas_id /\ Visible(k)'.cas > cache.cas_id
           NewCas == \A k \in Keys : Same(k)
<1>1. IInv /\ [Next]_vars => [NewCas]_vars
  <2> SUFFICES ASSUME IInv, Next, NEW k \in Keys PROVE Same(k)
    OBVIOUS
  <2>1. Evolves(cache, cache')
    <3>1. Ready
      BY DEF Ready, Next
    <3>2. CASE Tick
      <4>1. Good(cache, current_time) /\ cache' = cache
        BY <3>2 DEF IInv, Tick
      <4>2. Evolves(cache, cache)
        BY <4>1, StepNone DEF Step
      <4> QED BY <4>1, <4>2
    <3>3. ASSUME NEW c \in Conns, ConnStep(c) PROVE Evolves(cache, cache')
      BY <3>1, <3>3, ConnEffect DEF Effect, Spared, Step
    <3> QED BY <3>2, <3>3 DEF Next
  <2> DEFINE i == cache.assoc[k]
             j == cache'.assoc[k]
  <2> SUFFICES ASSUME Visible(k) # NULL, Visible(k)' # NULL, Visible(k)' # Visible(k)
               PROVE  Visible(k).cas <= cache.cas_id /\ Visible(k)'.cas > cache.cas_id
    OBVIOUS
  <2>2. i # NULL /\ Visible(k) = [val |-> cache.val[i], cas |-> cache.cas[i]]
    BY DEF Visible
  <2>3. j # NULL /\ Visible(k)' = [val |-> cache'.val[j], cas |-> cache'.cas[j]]
    BY DEF Visible
  <2>4. i \in Items /\ cache.linked[i]
    BY <2>2, FieldTypes DEF IInv, Good, Sound, Tabled
  <2>5. cache.cas[i] <= cache.cas_id
    BY <2>4 DEF IInv, Good, Sound, Numbered
  <2>6. cache'.cas[j] > cache.cas_id
    BY <2>1, <2>2, <2>3 DEF Evolves
  <2> QED BY <2>2, <2>3, <2>5, <2>6
<1> QED BY <1>1, Invariant, PTL DEF Spec, ValueChangeIsNewCas

-----------------------------------------------------------------------------
(* The server as a KVStore *)

\* What it takes for no value to come back: no number outlives the key it was looked
\* up under (incr and decr may set a key anew), and no item is made younger between
\* a flush and the end of the get that has found it, nor by a flush that is to come.
Undisturbed ==
  /\ Cmds \cap {"incr", "decr"} = {}
  /\ {"get", "flush_all"} \subseteq Cmds => \A c, d \in Conns : c = d
  /\ Delays \subseteq {0}
  /\ NULL \notin [val : Int, cas : Nat]

\* The command connection c has sent and that is not done.
Pend(c) ==
  IF pc[c] = "nread"
  THEN [comm |-> cmd[c].comm, key |-> cmd[c].key,
        val |-> cache.val[slot[<<c, 0>>]], cas |-> cache.cas[slot[<<c, 0>>]]]
  ELSE [comm |-> "none", key |-> NULL, val |-> 0, cas |-> 0]

\* The command of a connection is the one its item was allocated for, its answer is there
\* while the command ends, and a hit it is about to move up is not flushed.
ShownBy(c) ==
  /\ pc[c] = "nread" => cmd[c].comm \in StoreCmds /\ cmd[c].key = cache.key[slot[<<c, 0>>]]
  /\ pc[c] \in GetLabels => "get" \in Cmds
  /\ pc[c] \in {"get_update", "get_last_update"} =>
       oldest_live = 0 \/ cache.time[slot[<<c, 0>>]] > oldest_live
  /\ reply[c] # "none" => pc[c] = "remove"

\* flush_all flushes what is older than this second.
FlushPast ==
  /\ oldest_live < current_time
  /\ "flush_all" \notin Cmds => oldest_live = 0

Showing == FlushPast /\ \A c \in Conns : ShownBy(c)

\* What connection c does to the cache leaves the items other command lines have
\* allocated as they are.
SparesOthers(c) ==
  \A d \in Conns : d # c /\ pc[d] = "nread" =>
    LET x == slot[<<d, 0>>] IN
    cache'.key[x] = cache.key[x] /\ cache'.val[x] = cache.val[x] /\ cache'.cas[x] = cache.cas[x]

OthersPend(c) == \A d \in Conns : d # c => Pend(d)' = Pend(d)

LEMMA ViewVisible ==
  ASSUME NEW k
  PROVE  /\ Visible(k) = View(cache, k, current_time, oldest_live)
         /\ Visible(k)' = View(cache', k, current_time', oldest_live')
BY DEF Visible, View

\* What the items of other command lines keep when the cache changes but for item it.
LEMMA OnlyOthers ==
  ASSUME Ready, NEW c \in Conns, Effect(c), ~cache'.aborted, ~cache'.uncounted,
         NEW it, NEW live, Only(cache, cache', it, live),
         \A d \in Conns : d # c /\ pc[d] = "nread" => slot[<<d, 0>>] # it
  PROVE  SparesOthers(c)
<1> SUFFICES ASSUME NEW d \in Conns, d # c, pc[d] = "nread"
             PROVE  LET x == slot[<<d, 0>>] IN
                    /\ cache'.key[x] = cache.key[x] /\ cache'.val[x] = cache.val[x]
                    /\ cache'.cas[x] = cache.cas[x]
  BY DEF SparesOthers
<1> DEFINE x == slot[<<d, 0>>]
           r == <<d, 0>>
<1>1. x \in Items /\ x # it
  BY Before
<1>2. 0 \in Slots /\ r \in Refs
  BY ServerAssumption DEF Slots, Refs
<1>3. slot'[r] = x
  BY <1>2 DEF Effect, Local, Untouched
<1>4. cache' \in CacheType /\ FreeUnused(cache') /\ leaked' \in [Items -> Nat]
  BY DEF Effect, Local, ConnTypes, Spared, Step, Good, Sound
<1>5. Counted(cache', slot', leaked')
  BY DEF Effect, Tally
<1> HIDE DEF r, x
<1>6. x \notin cache'.free
  BY ONLY <1>2, <1>3, <1>4, <1>5, CountedInUse
<1> QED BY <1>1, <1>6 DEF Only, x

\* The other connections have their commands, and the invariant is kept.
LEMMA ShowingKept ==
  ASSUME Undisturbed, Ready, Showing, NEW c \in Conns, Local(c), SparesOthers(c),
         \A d \in Conns : d # c => reply'[d] = reply[d],
         FlushPast', ShownBy(c)'
  PROVE  Showing' /\ OthersPend(c)
<1>1. ASSUME NEW d \in Conns, d # c PROVE ShownBy(d)' /\ Pend(d)' = Pend(d)
  <2>1. /\ pc'[d] = pc[d] /\ cmd'[d] = cmd[d] /\ reply'[d] = reply[d]
        /\ slot'[<<d, 0>>] = slot[<<d, 0>>]
    BY <1>1, ServerAssumption DEF Local, Untouched, Slots
  <2>2. ShownBy(d)
    BY DEF Showing
  <2>3. pc[d] = "nread" => LET x == slot[<<d, 0>>] IN
          cache'.key[x] = cache.key[x] /\ cache'.val[x] = cache.val[x] /\ cache'.cas[x] = cache.cas[x]
    BY <1>1 DEF SparesOthers
  <2>4. Pend(d)' = Pend(d)
    BY ONLY <2>1, <2>3 DEF Pend
  <2>5. pc[d] \in GetLabels => oldest_live' = 0
    <3>1. pc[d] \in GetLabels => "flush_all" \notin Cmds
      BY <1>1, <2>2 DEF ShownBy, Undisturbed
    <3> QED BY <3>1 DEF FlushPast
  <2>6. ShownBy(d)'
    BY ONLY <2>1, <2>2, <2>3, <2>5 DEF ShownBy, GetLabels
  <2> QED BY <2>4, <2>6
<1> QED BY <1>1 DEF Showing, OthersPend

\* The five kinds of steps of KVStore.
LEMMA AsForget ==
  ASSUME \A k \in Keys : Visible(k)' \in {Visible(k), NULL}, cache'.cas_id = cache.cas_id,
         reply' = reply, \A d \in Conns : Pend(d)' = Pend(d)
  PROVE  KV!Next
BY DEF KV!Next, KV!Forget, KV!Forgetting, Pend

LEMMA AsRequest ==
  ASSUME NEW c \in Conns, pc[c] # "nread", reply[c] = "none", Pend(c)' \in
           [comm : StoreCmds, key : Keys, val : UInt64, cas : 0 .. cache.cas_id],
         \A k \in Keys : Visible(k)' \in {Visible(k), NULL}, cache'.cas_id = cache.cas_id,
         reply' = reply, OthersPend(c)
  PROVE  KV!Next
<1>1. KV!Request(c)
  BY DEF KV!Request, KV!Requests, KV!NoRequest, KV!Forgetting, Pend, OthersPend, StoreCmds
<1> QED BY <1>1 DEF KV!Next

LEMMA AsCancel ==
  ASSUME NEW c \in Conns, pc[c] = "nread", cmd[c].comm \in StoreCmds, pc'[c] # "nread",
         \A k \in Keys : Visible(k)' = Visible(k), cache'.cas_id = cache.cas_id,
         reply' = reply, OthersPend(c)
  PROVE  KV!Next
<1>1. KV!Cancel(c)
  BY DEF KV!Cancel, KV!NoRequest, Pend, OthersPend, StoreCmds
<1> QED BY <1>1 DEF KV!Next

LEMMA AsReady ==
  ASSUME NEW c \in Conns, reply' = [reply EXCEPT ![c] = "none"],
         \A k \in Keys : Visible(k)' = Visible(k), cache'.cas_id = cache.cas_id,
         \A d \in Conns : Pend(d)' = Pend(d)
  PROVE  KV!Next
<1>1. KV!Ready(c)
  BY DEF KV!Ready, Pend
<1> QED BY <1>1 DEF KV!Next

\* The command of c is done, with an answer.
Answers(c, ret) ==
  /\ pc[c] = "nread" /\ pc'[c] # "nread" /\ cmd[c].comm \in StoreCmds /\ cmd[c].key \in Keys
  /\ reply' = [reply EXCEPT ![c] = ret]
  /\ OthersPend(c)

\* Key k has the value v, unless it has lost it at once.
Writes(k, v) ==
  /\ \A q \in Keys : Visible(q)' \in
       {IF q = k THEN [val |-> v, cas |-> cache.cas_id + 1] ELSE Visible(q), NULL}
  /\ cache'.cas_id = cache.cas_id + 1

Refuses ==
  /\ \A q \in Keys : Visible(q)' \in {Visible(q), NULL}
  /\ cache'.cas_id = cache.cas_id

LEMMA AsWrite ==
  ASSUME NEW c \in Conns, Answers(c, "STORED"), NEW v, Writes(cmd[c].key, v)
  PROVE  KV!Write(c, v)
BY DEF KV!Write, KV!Forgetting, KV!Answer, KV!NoRequest, Answers, Writes, Pend, OthersPend

LEMMA AsRefuse ==
  ASSUME NEW c \in Conns, NEW ret, Answers(c, ret), Refuses
  PROVE  KV!Refuse(c, ret)
BY DEF KV!Refuse, KV!Forgetting, KV!Answer, KV!NoRequest, Answers, Refuses, Pend, OthersPend

\* What the cache has done with the command of c, and the answer ret, mean the same.
Did(c, ret) ==
  LET comm == cmd[c].comm
      old == Visible(cmd[c].key)
      v == cache.val[slot[<<c, 0>>]]
      u == cache.cas[slot[<<c, 0>>]]
      same == old # NULL /\ old.cas = u
      Writes1(x) == ret = "STORED" /\ Writes(cmd[c].key, x)
      Refuses1(r) == ret = r /\ Refuses
  IN  \/ comm = "set" /\ Writes1(v)
      \/ comm = "add" /\ old = NULL /\ Writes1(v)
      \/ comm = "add" /\ old # NULL /\ Refuses1("NOT_STORED")
      \/ comm = "replace" /\ old # NULL /\ Writes1(v)
      \/ comm = "replace" /\ old = NULL /\ Refuses1("NOT_STORED")
      \/ comm = "cas" /\ old = NULL /\ Refuses1("NOT_FOUND")
      \/ comm = "cas" /\ old # NULL /\ ~same /\ Refuses1("EXISTS")
      \/ comm = "cas" /\ same /\ Writes1(v)
      \/ /\ comm \in {"append", "prepend"} /\ old # NULL /\ (u # 0 => same)
         /\ \E x \in IF comm = "append" THEN Joins(old.val, v) ELSE Joins(v, old.val) :
              Writes1(x)
      \/ comm \in {"append", "prepend"} /\ Refuses1("NOT_STORED")
      \/ /\ comm \in {"append", "prepend"} /\ old # NULL /\ u # 0 /\ ~same
         /\ Refuses1("EXISTS")

LEMMA AsExecute ==
  ASSUME NEW c \in Conns, NEW ret, Answers(c, ret), Did(c, ret)
  PROVE  KV!Next
<1> DEFINE comm == cmd[c].comm
           old == Visible(cmd[c].key)
           v == cache.val[slot[<<c, 0>>]]
           u == cache.cas[slot[<<c, 0>>]]
           same == old # NULL /\ old.cas = u
<1> HIDE DEF old, v, u
<1>0. /\ Pend(c) # [comm |-> "none", key |-> NULL, val |-> 0, cas |-> 0]
      /\ Pend(c) = [comm |-> comm, key |-> cmd[c].key, val |-> v, cas |-> u]
      /\ cmd[c].key \in Keys
  BY DEF Answers, Pend, StoreCmds, v, u
<1>1. ASSUME NEW x, ret = "STORED", Writes(cmd[c].key, x),
             \/ comm = "set" /\ x = v
             \/ comm = "add" /\ old = NULL /\ x = v
             \/ comm = "replace" /\ old # NULL /\ x = v
             \/ comm = "cas" /\ same /\ x = v
             \/ /\ comm \in {"append", "prepend"} /\ old # NULL /\ (u # 0 => same)
                /\ x \in IF comm = "append" THEN Joins(old.val, v) ELSE Joins(v, old.val)
      PROVE  KV!Execute(c)
  <2>1. KV!Write(c, x)
    BY <1>1, AsWrite
  <2> QED
    BY <1>0, <1>1, <2>1 DEF KV!Execute, KV!Write, KV!NoRequest, Pend, Joins, old
<1>2. ASSUME Refuses,
             \/ comm = "add" /\ old # NULL /\ ret = "NOT_STORED"
             \/ comm = "replace" /\ old = NULL /\ ret = "NOT_STORED"
             \/ comm = "cas" /\ old = NULL /\ ret = "NOT_FOUND"
             \/ comm = "cas" /\ old # NULL /\ ~same /\ ret = "EXISTS"
             \/ comm \in {"append", "prepend"} /\ ret = "NOT_STORED"
             \/ comm \in {"append", "prepend"} /\ old # NULL /\ u # 0 /\ ~same /\ ret = "EXISTS"
      PROVE  KV!Execute(c)
  <2>1. KV!Refuse(c, ret)
    BY <1>2, AsRefuse
  <2> QED
    BY <1>0, <1>2, <2>1 DEF KV!Execute, KV!Refuse, KV!NoRequest, Pend, old
<1>3. KV!Execute(c)
  BY <1>1, <1>2 DEF Did, old, v, u
<1> QED BY <1>3 DEF KV!Next

\* A step of connection c after which counts and assertions are still good, and what
\* it is to be.
Turn(c) ==
  /\ Undisturbed /\ Ready /\ Showing /\ Effect(c)
  /\ ~cache'.aborted /\ ~cache'.uncounted

Shows == Showing' /\ KV!Next

LEMMA TurnFacts ==
  ASSUME NEW c \in Conns, Turn(c)
  PROVE  /\ Good(cache, current_time) /\ Good(cache', current_time) /\ current_time' = current_time
         /\ current_time \in Nat /\ oldest_live \in Nat /\ oldest_live < current_time
         /\ cache \in CacheType /\ pc \in [Conns -> Labels] /\ slot \in SlotMap /\ ShownBy(c) /\ ConnOK(c)
         /\ "flush_all" \notin Cmds => oldest_live = 0
BY Before DEF Turn, Effect, Local, Spared, Step, ConnTypes, Showing, FlushPast, SlotMap

\* A step that stores nothing and ends no command.
LEMMA QuietShows ==
  ASSUME NEW c \in Conns, Turn(c), reply' = reply, oldest_live' = oldest_live,
         Quiet(cache, cache', NULL, oldest_live), pc[c] \notin {"nread", "remove"}, pc'[c] # "nread",
         pc'[c] \in GetLabels => pc[c] \in GetLabels \/ "get" \in Cmds,
         pc'[c] \in {"get_update", "get_last_update"} =>
           oldest_live = 0 \/ cache'.time[slot'[<<c, 0>>]] > oldest_live
  PROVE  Shows
<1>1. /\ Good(cache, current_time) /\ Good(cache', current_time) /\ current_time' = current_time
      /\ current_time \in Nat /\ oldest_live \in Nat /\ oldest_live < current_time /\ ShownBy(c)
      /\ "flush_all" \notin Cmds => oldest_live = 0
  BY TurnFacts
<1>2. Only(cache, cache', NULL, oldest_live) /\ cache'.cas_id = cache.cas_id
  BY DEF Quiet
<1>3. \A d \in Conns : pc[d] = "nread" => slot[<<d, 0>>] # NULL
  <2>1. \A d \in Conns : pc[d] = "nread" => slot[<<d, 0>>] \in Items
    BY Before DEF Turn
  <2> QED BY <2>1, CacheAssumption
<1>4. SparesOthers(c)
  BY <1>2, <1>3, OnlyOthers DEF Turn
<1>5. FlushPast' /\ ShownBy(c)'
  BY <1>1 DEF FlushPast, ShownBy
<1>6. Showing' /\ OthersPend(c)
  BY <1>4, <1>5, ShowingKept DEF Turn, Effect
<1>7. \A d \in Conns : Pend(d)' = Pend(d)
  BY <1>6 DEF OthersPend, Pend
<1>8. ASSUME NEW k \in Keys PROVE Visible(k)' \in {Visible(k), NULL}
  <2>1. View(cache', k, current_time, oldest_live) \in {View(cache, k, current_time, oldest_live), NULL}
    BY <1>1, QuietView
  <2> QED BY <1>1, <2>1, ViewVisible
<1>9. KV!Next
  BY <1>2, <1>7, <1>8, AsForget
<1> QED BY <1>6, <1>9 DEF Shows

\* A step that leaves the cache alone.
LEMMA StillShows ==
  ASSUME NEW c \in Conns, Turn(c), reply' = reply, oldest_live' = oldest_live, cache' = cache,
         pc[c] \notin {"nread", "remove"}, pc'[c] \notin {"nread", "get_update", "get_last_update"},
         pc'[c] \in GetLabels => pc[c] \in GetLabels \/ "get" \in Cmds
  PROVE  Shows
<1>1. Quiet(cache, cache', NULL, oldest_live)
  BY QuietNone
<1> QED BY <1>1, QuietShows

\* A step of item_remove.
LEMMA GiveShows ==
  ASSUME NEW c \in Conns, Turn(c), reply' = reply, oldest_live' = oldest_live, NEW s \in Slots,
         slot[<<c, s>>] # NULL, cache' = do_item_remove(cache, slot[<<c, s>>]),
         pc[c] \notin {"nread", "remove"}, pc'[c] \notin {"nread", "get_update", "get_last_update"},
         pc'[c] \in GetLabels => pc[c] \in GetLabels
  PROVE  Shows
<1> DEFINE i == slot[<<c, s>>]
<1>1. i \in Items /\ cache \in CacheType
  BY Before DEF Turn
<1> HIDE DEF i
<1>2. Quiet(cache, do_item_remove(cache, i), NULL, oldest_live)
  BY <1>1, RemoveQuiet
<1> QED BY <1>2, QuietShows DEF i

\* A step of item_get.
LEMMA GetShows ==
  ASSUME NEW c \in Conns, Turn(c), reply' = reply, oldest_live' = oldest_live, NEW k \in Keys,
         NEW next \in Labels \ {"nread"}, NEW miss \in Labels \ {"nread", "get_update", "get_last_update"},
         Get(c, k, next, miss), pc[c] \notin {"nread", "remove"},
         next \in GetLabels \/ miss \in GetLabels => pc[c] \in GetLabels
  PROVE  Shows
<1> DEFINE r == Lookup(k)
           zero == 0
<1>1. /\ Good(cache, current_time) /\ current_time \in Nat /\ oldest_live \in Nat
      /\ oldest_live < current_time /\ pc \in [Conns -> Labels] /\ slot \in SlotMap
  BY TurnFacts
<1>2. /\ Quiet(cache, r.h, NULL, oldest_live)
      /\ r.it # NULL => r.it \in Items /\ (oldest_live = 0 \/ cache.time[r.it] > oldest_live)
                        /\ r.h.time = cache.time
  BY <1>1, GetView DEF Lookup
<1>3. cache' = r.h /\ Put(c, zero, r.it) /\ Goto(c, IF r.it = NULL THEN miss ELSE next)
  BY DEF Get
<1>4. zero \in Slots
  BY ServerAssumption DEF Slots
<1> HIDE DEF r, zero
<1>5. pc'[c] = IF r.it = NULL THEN miss ELSE next
  BY <1>1, <1>3 DEF Goto
<1>6. slot'[<<c, zero>>] = r.it
  BY <1>1, <1>3, <1>4 DEF Put, SlotMap, Refs
<1>7. pc'[c] \in {"get_update", "get_last_update"} =>
        oldest_live = 0 \/ cache'.time[slot'[<<c, 0>>]] > oldest_live
  BY <1>2, <1>3, <1>5, <1>6 DEF zero
<1>8. pc'[c] # "nread" /\ (pc'[c] \in GetLabels => pc[c] \in GetLabels)
  BY <1>5
<1> QED BY <1>2, <1>3, <1>7, <1>8, QuietShows

LEMMA GetStartShows ==
  ASSUME NEW c \in Conns, Turn(c), GetStart(c)
  PROVE  Shows
<1>1. pc[c] = "idle" /\ pc'[c] = "get" /\ "get" \in Cmds
  BY TurnFacts DEF GetStart, Goto
<1> QED BY <1>1, StillShows DEF GetStart, timevars

LEMMA GetKeyShows ==
  ASSUME NEW c \in Conns, Turn(c), NEW k \in Keys, GetKey(c, k)
  PROVE  Shows
<1>1. pc[c] = "get" /\ Get(c, k, "get_update", "get") /\ reply' = reply /\ oldest_live' = oldest_live
  BY DEF GetKey, timevars
<1> QED BY <1>1, GetShows DEF GetLabels, Labels

LEMMA GetRetryShows ==
  ASSUME NEW c \in Conns, Turn(c), GetRetry(c)
  PROVE  Shows
<1>1. /\ pc[c] = "get_retry" /\ Get(c, cmd[c].key, "get_last_update", "get_last")
      /\ reply' = reply /\ oldest_live' = oldest_live
  BY DEF GetRetry, timevars
<1>2. cmd[c].key \in Keys
  BY <1>1, TurnFacts DEF ConnOK
<1> QED BY <1>1, <1>2, GetShows DEF GetLabels, Labels

LEMMA SetFailedShows ==
  ASSUME NEW c \in Conns, Turn(c), SetFailed(c)
  PROVE  Shows
<1>1. /\ pc[c] = "set_failed" /\ Get(c, cmd[c].key, "unlink", "idle")
      /\ reply' = reply /\ oldest_live' = oldest_live
  BY DEF SetFailed, timevars
<1>2. cmd[c].key \in Keys
  BY <1>1, TurnFacts DEF ConnOK
<1> QED BY <1>1, <1>2, GetShows DEF GetLabels, Labels

LEMMA DeleteShows ==
  ASSUME NEW c \in Conns, Turn(c), NEW k \in Keys, Delete(c, k)
  PROVE  Shows
<1>1. pc[c] = "idle" /\ Get(c, k, "unlink", "idle") /\ reply' = reply /\ oldest_live' = oldest_live
  BY DEF Delete, timevars
<1> QED BY <1>1, GetShows DEF GetLabels, Labels

LEMMA GetUpdateShows ==
  ASSUME NEW c \in Conns, Turn(c), GetUpdate(c)
  PROVE  Shows
<1> DEFINE i == slot[<<c, 0>>]
<1>1. /\ pc[c] \in {"get_update", "get_last_update"} /\ cache' = do_item_update(cache, i, current_time)
      /\ reply' = reply /\ oldest_live' = oldest_live
      /\ Goto(c, IF pc[c] = "get_update" THEN "get" ELSE "get_last")
  BY DEF GetUpdate, timevars
<1>2. i \in Items
  BY <1>1, Before DEF Turn, HeldLabels
<1>3. /\ cache \in CacheType /\ current_time \in Nat /\ oldest_live \in Nat /\ pc \in [Conns -> Labels]
      /\ oldest_live = 0 \/ (oldest_live < current_time /\ cache.time[i] > oldest_live)
  BY <1>1, TurnFacts DEF ShownBy
<1>4. pc'[c] \in {"get", "get_last"}
  BY <1>1, <1>3 DEF Goto
<1> HIDE DEF i
<1>5. Quiet(cache, cache', NULL, oldest_live)
  BY <1>1, <1>2, <1>3, UpdateQuiet
<1> QED BY <1>1, <1>4, <1>5, QuietShows DEF GetLabels

LEMMA GetNoMemoryShows ==
  ASSUME NEW c \in Conns, Turn(c), GetNoMemory(c) \/ GetNoSuffix(c)
  PROVE  Shows
<1>1. /\ pc[c] \in {"get_update", "get_last_update"} /\ reply' = reply /\ oldest_live' = oldest_live
      /\ cache' = do_item_remove(cache, slot[<<c, 0>>])
      /\ pc'[c] \in {"get_retry", "idle"}
  BY TurnFacts DEF GetNoMemory, GetNoSuffix, Goto, timevars
<1>2. slot[<<c, 0>>] # NULL /\ 0 \in Slots
  BY <1>1, TurnFacts, ServerAssumption DEF ConnOK, HeldLabels, Slots
<1> QED BY <1>1, <1>2, GiveShows DEF GetLabels

LEMMA GetDoneShows ==
  ASSUME NEW c \in Conns, Turn(c), GetDone(c) \/ GetKeyTooLong(c) \/ MwriteDone(c) \/ Closed(c)
  PROVE  Shows
<1>1. /\ pc[c] \notin {"nread", "remove"} /\ pc'[c] \in {"mwrite", "idle"}
      /\ reply' = reply /\ oldest_live' = oldest_live /\ cache' = cache
  BY TurnFacts DEF GetDone, GetKeyTooLong, MwriteDone, Closed, Goto, timevars
<1> QED BY <1>1, StillShows DEF GetLabels

LEMMA ReleaseShows ==
  ASSUME NEW c \in Conns, Turn(c), NEW label \in {"mwrite", "closing"}, Release1(c, label)
  PROVE  Shows
<1> DEFINE n == icurr[c]
<1>1. /\ pc[c] = label /\ pc'[c] = label /\ reply' = reply /\ oldest_live' = oldest_live
      /\ ileft[c] > 0 /\ cache' = do_item_remove(cache, slot[<<c, n>>])
  BY DEF Release1, timevars
<1>2. ConnTypes /\ ConnOK(c) /\ MaxGets \in Nat
  BY Before, ServerAssumption DEF Turn
<1>3. n \in Slots /\ slot[<<c, n>>] # NULL
  BY <1>1, <1>2 DEF ConnOK, ConnTypes, Slots
<1> HIDE DEF n
<1> QED BY <1>1, <1>3, GiveShows DEF GetLabels

LEMMA CloseItemShows ==
  ASSUME NEW c \in Conns, Turn(c), CloseItem(c)
  PROVE  Shows
<1>1. /\ pc[c] = "close_item" /\ reply' = reply /\ oldest_live' = oldest_live
      /\ cache' = do_item_remove(cache, slot[<<c, 0>>]) /\ pc'[c] = "closing"
  BY TurnFacts DEF CloseItem, Goto, timevars
<1>2. slot[<<c, 0>>] # NULL /\ 0 \in Slots
  BY <1>1, TurnFacts, ServerAssumption DEF ConnOK, HeldLabels, Slots
<1> QED BY <1>1, <1>2, GiveShows DEF GetLabels

LEMMA UnlinkShows ==
  ASSUME NEW c \in Conns, Turn(c), Unlink(c)
  PROVE  Shows
<1> DEFINE i == slot[<<c, 0>>]
<1>1. /\ pc[c] = "unlink" /\ pc'[c] = "remove" /\ reply' = reply /\ oldest_live' = oldest_live
      /\ cache' = do_item_unlink(cache, i)
  BY TurnFacts DEF Unlink, Goto, timevars
<1>2. i \in Items /\ cache \in CacheType
  BY <1>1, Before DEF Turn, HeldLabels
<1> HIDE DEF i
<1>3. Quiet(cache, cache', NULL, oldest_live)
  BY <1>1, <1>2, UnlinkQuiet
<1> QED BY <1>1, <1>3, QuietShows DEF GetLabels

LEMMA FlushExpiredShows ==
  ASSUME NEW c \in Conns, Turn(c), FlushExpired(c)
  PROVE  Shows
<1>1. /\ pc[c] \in {"flush", "flush_later"} /\ pc'[c] = "idle" /\ reply' = reply
      /\ oldest_live' = oldest_live /\ cache' = do_item_flush_expired(cache, oldest_live)
  BY TurnFacts DEF FlushExpired, Goto, timevars
<1>2. Quiet(cache, cache', NULL, oldest_live)
  BY <1>1, TurnFacts, FlushQuiet
<1> QED BY <1>1, <1>2, QuietShows DEF GetLabels

\* Time, or a flush, may only hide items.
LEMMA HiddenView ==
  ASSUME NEW h, NEW k, NEW now \in Nat, NEW then \in Nat, NEW live \in Nat, NEW since \in Nat,
         now <= then, live < now, live <= since, since < then,
         h \in CacheType, k \in Keys
  PROVE  View(h, k, then, since) \in {View(h, k, now, live), NULL}
<1> DEFINE i == h.assoc[k]
<1>1. CASE i = NULL
  BY <1>1 DEF View
<1>2. CASE i # NULL
  <2>1. i \in Items /\ h.time[i] \in Nat /\ h.exptime[i] \in Nat
    BY <1>2, FieldTypes DEF CacheType
  <2>2. Flushed(h, i, now, live) => Flushed(h, i, then, since)
    BY ONLY <2>1, now \in Nat, then \in Nat, live \in Nat, since \in Nat,
            now <= then, live < now, live <= since, since < then DEF Flushed
  <2>3. OutOfDate(h, i, now) => OutOfDate(h, i, then)
    BY ONLY <2>1, now \in Nat, then \in Nat, now <= then DEF OutOfDate
  <2> QED BY <1>2, <2>2, <2>3 DEF View
<1> QED BY <1>1, <1>2

LEMMA TickShows ==
  ASSUME Undisturbed, Ready, Showing, Tick
  PROVE  Shows
<1>1. /\ current_time' = current_time + 1 /\ oldest_live' = oldest_live /\ cache' = cache
      /\ pc' = pc /\ cmd' = cmd /\ slot' = slot /\ reply' = reply
  BY DEF Tick, connvars
<1>2. /\ current_time \in Nat /\ oldest_live \in Nat /\ cache \in CacheType
      /\ oldest_live < current_time
  BY DEF Ready, IInv, ConnTypes, Good, Sound, Showing, FlushPast
<1>3. FlushPast'
  BY <1>1, <1>2 DEF Showing, FlushPast
<1>4. ASSUME NEW d \in Conns PROVE ShownBy(d)' /\ Pend(d)' = Pend(d)
  BY <1>1 DEF Showing, ShownBy, Pend
<1>5. ASSUME NEW k \in Keys PROVE Visible(k)' \in {Visible(k), NULL}
  <2> DEFINE then == current_time + 1
  <2>1. then \in Nat /\ current_time <= then /\ oldest_live < then /\ oldest_live <= oldest_live
    BY <1>2
  <2> HIDE DEF then
  <2>2. View(cache, k, then, oldest_live) \in {View(cache, k, current_time, oldest_live), NULL}
    BY <1>2, <2>1, HiddenView
  <2> QED BY <1>1, <2>2, ViewVisible DEF then
<1>6. KV!Next
  BY <1>1, <1>4, <1>5, AsForget
<1> QED BY <1>3, <1>4, <1>6 DEF Shows, Showing

LEMMA FlushAllShows ==
  ASSUME NEW c \in Conns, Turn(c), NEW delay \in Delays, FlushAll(c, delay)
  PROVE  Shows
<1>1. delay = 0
  BY DEF Turn, Undisturbed
<1>2. /\ Good(cache, current_time) /\ current_time' = current_time
      /\ current_time \in Nat /\ oldest_live \in Nat /\ oldest_live < current_time
      /\ cache \in CacheType /\ pc \in [Conns -> Labels] /\ ShownBy(c)
  BY TurnFacts
<1>3. /\ oldest_live' = current_time - 1 /\ cache' = cache /\ pc[c] = "idle" /\ pc'[c] = "flush"
      /\ reply' = reply /\ slot' = slot /\ "flush_all" \in Cmds
  BY <1>1, <1>2 DEF FlushAll, Goto
<1>4. SparesOthers(c)
  BY <1>3 DEF SparesOthers
<1>5. FlushPast' /\ ShownBy(c)'
  BY <1>2, <1>3 DEF FlushPast, ShownBy, GetLabels
<1>6. Showing' /\ OthersPend(c)
  BY <1>3, <1>4, <1>5, ShowingKept DEF Turn, Effect
<1>7. \A d \in Conns : Pend(d)' = Pend(d)
  BY <1>3, <1>6 DEF OthersPend, Pend
<1>8. ASSUME NEW k \in Keys PROVE Visible(k)' \in {Visible(k), NULL}
  <2> DEFINE since == current_time - 1
  <2>1. since \in Nat /\ oldest_live <= since /\ since < current_time /\ current_time <= current_time
    BY <1>2
  <2> HIDE DEF since
  <2>2. View(cache, k, current_time, since) \in {View(cache, k, current_time, oldest_live), NULL}
    BY <1>2, <2>1, HiddenView
  <2> QED BY <1>2, <1>3, <2>2, ViewVisible DEF since
<1>9. KV!Next
  BY <1>3, <1>7, <1>8, AsForget
<1> QED BY <1>6, <1>9 DEF Shows

\* The client hangs up, or its data is bad.
LEMMA CloseShows ==
  ASSUME NEW c \in Conns, Turn(c), Close(c) \/ BadDataChunk(c)
  PROVE  Shows
<1>1. /\ current_time' = current_time /\ pc \in [Conns -> Labels] /\ ShownBy(c)
      /\ "flush_all" \notin Cmds => oldest_live = 0
      /\ oldest_live < current_time
  BY TurnFacts
<1>2. /\ pc'[c] \in {"close_item", "closing", "remove"} /\ cache' = cache
      /\ reply' = reply /\ slot' = slot /\ oldest_live' = oldest_live
      /\ pc[c] \in {"idle", "nread", "mwrite"}
  BY <1>1 DEF Close, BadDataChunk, Goto, timevars
<1>3. CASE pc[c] # "nread"
  BY <1>2, <1>3, StillShows DEF GetLabels
<1>4. CASE pc[c] = "nread"
  <2>1. SparesOthers(c)
    BY <1>2 DEF SparesOthers
  <2>2. FlushPast' /\ ShownBy(c)'
    BY <1>1, <1>2, <1>4 DEF FlushPast, ShownBy, GetLabels
  <2>3. Showing' /\ OthersPend(c)
    BY <1>2, <2>1, <2>2, ShowingKept DEF Turn, Effect
  <2>4. \A k \in Keys : Visible(k)' = Visible(k)
    BY <1>1, <1>2, ViewVisible
  <2>5. cmd[c].comm \in StoreCmds
    BY <1>1, <1>4 DEF ShownBy
  <2>6. KV!Next
    BY <1>2, <1>4, <2>3, <2>4, <2>5, AsCancel
  <2> QED BY <2>3, <2>6 DEF Shows
<1> QED BY <1>3, <1>4

\* The reference a command has kept is given back: nothing that can be seen changes.
LEMMA RemoveShows ==
  ASSUME NEW c \in Conns, Turn(c), Remove(c)
  PROVE  Shows
<1> DEFINE i == slot[<<c, 0>>]
           u == do_item_remove(cache, i)
<1>1. /\ Good(cache, current_time) /\ Good(cache', current_time) /\ current_time' = current_time
      /\ current_time \in Nat /\ oldest_live \in Nat /\ oldest_live < current_time
      /\ cache \in CacheType /\ pc \in [Conns -> Labels] /\ ShownBy(c)
      /\ "flush_all" \notin Cmds => oldest_live = 0
  BY TurnFacts
<1>2. /\ pc[c] = "remove" /\ pc'[c] = "idle" /\ cache' = u /\ oldest_live' = oldest_live
      /\ reply' = [reply EXCEPT ![c] = "none"]
  BY <1>1 DEF Remove, Goto, timevars
<1>3. i \in Items
  BY <1>2, Before DEF Turn, HeldLabels
<1> HIDE DEF i
<1>4. Quiet(cache, u, NULL, oldest_live) /\ u.assoc = cache.assoc
  BY <1>1, <1>3, RemoveQuiet, RemoveStep
<1> HIDE DEF u
<1>5. \A d \in Conns : pc[d] = "nread" => slot[<<d, 0>>] # NULL
  <2>1. \A d \in Conns : pc[d] = "nread" => slot[<<d, 0>>] \in Items
    BY Before DEF Turn
  <2> QED BY <2>1, CacheAssumption
<1>6. SparesOthers(c)
  BY <1>2, <1>4, <1>5, OnlyOthers DEF Turn, Quiet
<1>7. reply'[c] = "none" /\ \A d \in Conns : d # c => reply'[d] = reply[d]
  <2>1. DOMAIN reply = Conns
    BY Before DEF Turn, ConnTypes
  <2> QED BY <1>2, <2>1
<1>8. FlushPast' /\ ShownBy(c)'
  BY <1>1, <1>2, <1>7 DEF FlushPast, ShownBy, GetLabels
<1>9. Showing' /\ OthersPend(c)
  BY <1>6, <1>7, <1>8, ShowingKept DEF Turn, Effect
<1>10. \A d \in Conns : Pend(d)' = Pend(d)
  BY <1>2, <1>9 DEF OthersPend, Pend
<1>11. ASSUME NEW k \in Keys PROVE Visible(k)' = Visible(k)
  <2>1. View(cache', k, current_time, oldest_live) = View(cache, k, current_time, oldest_live)
    BY <1>1, <1>2, <1>4, SameView
  <2> QED BY <1>1, <1>2, <2>1, ViewVisible
<1>12. KV!Next
  BY <1>2, <1>4, <1>10, <1>11, AsReady DEF Quiet
<1> QED BY <1>9, <1>12 DEF Shows

\* A command line that could not allocate its item, or that has one now.
LEMMA FailedShows ==
  ASSUME NEW c \in Conns, Turn(c), reply' = reply, oldest_live' = oldest_live, pc[c] = "idle",
         pc'[c] \in {"idle", "set_failed"}, Quiet(cache, cache', NULL, oldest_live)
  PROVE  Shows
BY QuietShows DEF GetLabels

LEMMA RequestShows ==
  ASSUME NEW c \in Conns, Turn(c), reply' = reply, oldest_live' = oldest_live, pc[c] = "idle",
         pc'[c] = "nread", NEW it \in Items, slot'[<<c, 0>>] = it, Quiet(cache, cache', it, oldest_live),
         \A d \in Conns : pc[d] = "nread" => slot[<<d, 0>>] # it,
         NEW comm \in StoreCmds, NEW k \in Keys, NEW v \in UInt64, NEW u \in 0 .. cache.cas_id,
         cmd'[c] = [comm |-> comm, key |-> k],
         cache'.key[it] = k, cache'.val[it] = v, cache'.cas[it] = u
  PROVE  Shows
<1>1. /\ Good(cache, current_time) /\ Good(cache', current_time) /\ current_time' = current_time
      /\ current_time \in Nat /\ oldest_live \in Nat /\ oldest_live < current_time /\ ShownBy(c)
      /\ "flush_all" \notin Cmds => oldest_live = 0
  BY TurnFacts
<1>2. SparesOthers(c) /\ cache'.cas_id = cache.cas_id
  BY OnlyOthers DEF Turn, Quiet
<1>3. FlushPast' /\ ShownBy(c)' /\ reply[c] = "none"
  BY <1>1 DEF FlushPast, ShownBy, GetLabels
<1>4. Showing' /\ OthersPend(c)
  BY <1>2, <1>3, ShowingKept DEF Turn, Effect
<1>5. ASSUME NEW q \in Keys PROVE Visible(q)' \in {Visible(q), NULL}
  <2>1. View(cache', q, current_time, oldest_live) \in {View(cache, q, current_time, oldest_live), NULL}
    BY <1>1, QuietView
  <2> QED BY <1>1, <2>1, ViewVisible
<1>6. Pend(c)' = [comm |-> comm, key |-> k, val |-> v, cas |-> u]
  BY DEF Pend
<1>7. KV!Next
  BY <1>2, <1>3, <1>4, <1>5, <1>6, AsRequest
<1> QED BY <1>4, <1>7 DEF Shows

LEMMA UpdateShows ==
  ASSUME NEW c \in Conns, Turn(c), NEW comm \in StoreCmds, NEW k \in Keys, NEW v \in SetVals,
         NEW e \in Exptimes, NEW u \in 0 .. cache.cas_id, Update(c, comm, k, v, e, u)
  PROVE  Shows
<1> DEFINE zero == 0
           t == realtime(e)
           w == Width(v)
<1>1. /\ Good(cache, current_time) /\ current_time \in Nat /\ oldest_live \in Nat
      /\ cache.cas_id \in Nat /\ ConnTypes
      /\ \A d \in Conns : pc[d] = "nread" => slot[<<d, 0>>] \in Items /\ Aside(cache, slot[<<d, 0>>])
  BY TurnFacts, Before, FieldTypes DEF Turn
<1>2. PICK a \in do_item_alloc(cache, k, v, t, w, current_time) :
        IF a.it # NULL
        THEN /\ cache' = [a.h EXCEPT !.cas[a.it] = u]
             /\ Put(c, 0, a.it)
             /\ Goto(c, "nread")
             /\ cmd' = [cmd EXCEPT ![c] = [comm |-> comm, key |-> k]]
        ELSE /\ cache' = a.h
             /\ UNCHANGED slot
             /\ IF comm = "set"
                THEN /\ Goto(c, "set_failed")
                     /\ cmd' = [cmd EXCEPT ![c] = [comm |-> comm, key |-> k]]
                ELSE UNCHANGED <<pc, cmd>>
  BY ONLY Update(c, comm, k, v, e, u) DEF Update
<1> DEFINE g == a.h
           it == a.it
<1>3. v \in UInt64 /\ v \in Int /\ t \in Nat /\ w \in Nat /\ u \in Nat
  <2>1. v \in UInt64 /\ e \in Nat
    BY ServerAssumption
  <2>2. v \in Int
    BY <2>1, DeltaAssumption DEF UInt64
  <2>3. t \in Nat
    BY ONLY <1>1, <2>1 DEF realtime
  <2>4. u \in Nat
    BY <1>1
  <2> QED BY <2>1, <2>2, <2>3, <2>4, WidthNat
<1> HIDE DEF t, w
<1>c. Good(cache, current_time) /\ current_time \in Nat /\ v \in Int /\ t \in Nat /\ w \in Nat
  BY <1>1, <1>3
<1>4. Allocated(cache, g, it, k, current_time)
  BY ONLY <1>1, <1>3, a \in do_item_alloc(cache, k, v, t, w, current_time), k \in Keys, AllocOutcome
<1>5. Quiet(cache, g, it, oldest_live) /\ (it # NULL => g.val[it] = v)
  <2> DEFINE live == oldest_live
  <2> HIDE DEF live
  <2>1. Quiet(cache, a.h, a.it, live) /\ (a.it # NULL => a.h.val[a.it] = v)
    BY ONLY <1>c, a \in do_item_alloc(cache, k, v, t, w, current_time), k \in Keys, AllocQuiet
  <2> QED BY <2>1 DEF live
<1>6. pc[c] = "idle" /\ reply' = reply /\ oldest_live' = oldest_live
  BY DEF Update, timevars
<1>7. CASE it = NULL
  <2>1. cache' = g /\ pc'[c] \in {"idle", "set_failed"}
    BY <1>1, <1>2, <1>6, <1>7 DEF Goto, ConnTypes
  <2> QED BY <1>5, <1>6, <1>7, <2>1, FailedShows
<1>8. CASE it # NULL
  <2>1. /\ it \in Items /\ ~g.linked[it] /\ g.key[it] = k /\ g \in CacheType
        /\ \A d \in Conns : pc[d] = "nread" => slot[<<d, 0>>] # it
    BY <1>1, <1>4, <1>8 DEF Allocated, Aside, Step, Good, Sound
  <2>2. /\ cache' = SetCas(g, it, u) /\ Put(c, zero, it) /\ Goto(c, "nread")
        /\ cmd' = [cmd EXCEPT ![c] = [comm |-> comm, key |-> k]]
    BY <1>2, <1>8 DEF SetCas
  <2> HIDE DEF g, it
  <2>3. /\ Quiet(g, cache', it, oldest_live) /\ cache'.val[it] = v /\ cache'.cas[it] = u
    BY <1>3, <1>5, <1>8, <2>1, <2>2, CasQuiet
  <2>4. cache'.key[it] = k
    BY <2>1, <2>2 DEF SetCas, CacheType
  <2>5. Quiet(cache, cache', it, oldest_live)
    BY <1>5, <2>3, QuietOn
  <2>6. slot \in SlotMap /\ zero \in Slots
    BY <1>1, ServerAssumption DEF ConnTypes, SlotMap, Slots
  <2> HIDE DEF zero
  <2>7. slot'[<<c, zero>>] = it
    BY <2>2, <2>6 DEF Put, SlotMap, Refs
  <2>8. pc'[c] = "nread" /\ cmd'[c] = [comm |-> comm, key |-> k]
    BY <1>1, <2>2 DEF Goto, ConnTypes
  <2> QED BY <1>3, <1>6, <2>1, <2>3, <2>4, <2>5, <2>7, <2>8, RequestShows DEF zero
<1> QED BY <1>7, <1>8

LEMMA StoreItemShows ==
  ASSUME NEW c \in Conns, Turn(c), StoreItem(c)
  PROVE  Shows
<1> DEFINE new == slot[<<c, 0>>]
           comm == cmd[c].comm
           k == cmd[c].key
           now == current_time
           live == oldest_live
<1>1. /\ Good(cache, now) /\ Good(cache', now) /\ current_time' = now
      /\ now \in Nat /\ live \in Nat /\ live < now /\ ShownBy(c) /\ pc \in [Conns -> Labels]
      /\ "flush_all" \notin Cmds => live = 0
  BY TurnFacts
<1>2. /\ new \in Items /\ Aside(cache, new)
      /\ \A d \in Conns : pc[d] = "nread" => slot[<<d, 0>>] \in Items /\ Aside(cache, slot[<<d, 0>>])
      /\ \A d \in Conns : d # c /\ pc[d] = "nread" => slot[<<d, 0>>] # new
      /\ cache.key[new] \in Keys /\ DOMAIN reply = Conns
  BY Before DEF Turn, StoreItem, HeldLabels, Ready, IInv, Private, ConnTypes
<1>3. pc[c] = "nread" /\ pc'[c] = "remove" /\ oldest_live' = live /\ slot' = slot
  BY <1>1 DEF StoreItem, Goto, timevars
<1>4. comm \in StoreCmds /\ k = cache.key[new]
  BY <1>1, <1>3 DEF ShownBy
<1>5. PICK o \in do_store_item(cache, new, comm, now, live) :
        cache' = o.h /\ reply' = [reply EXCEPT ![c] = o.ret]
  BY DEF StoreItem
<1>6. ~o.h.aborted /\ NULL \notin [val : Int, cas : Nat]
  BY <1>5 DEF Turn, Undisturbed
<1> DEFINE old == View(cache, cache.key[new], now, live)
           v == cache.val[new]
           same == old # NULL /\ old.cas = cache.cas[new]
           W(x) == Wrote(cache, o, new, x, live)
           R(r) == Refused(cache, o, r, live)
<1> HIDE DEF new, comm, now, live
<1>7. \/ comm = "set" /\ W(v)
      \/ comm = "add" /\ old = NULL /\ W(v)
      \/ comm = "add" /\ old # NULL /\ R("NOT_STORED")
      \/ comm = "replace" /\ old # NULL /\ W(v)
      \/ comm = "replace" /\ old = NULL /\ R("NOT_STORED")
      \/ comm = "cas" /\ old = NULL /\ R("NOT_FOUND")
      \/ comm = "cas" /\ old # NULL /\ ~same /\ R("EXISTS")
      \/ comm = "cas" /\ same /\ W(v)
      \/ /\ comm \in {"append", "prepend"} /\ old # NULL /\ (cache.cas[new] # 0 => same)
         /\ \E x \in IF comm = "append" THEN Joins(old.val, v) ELSE Joins(v, old.val) : W(x)
      \/ comm \in {"append", "prepend"} /\ R("NOT_STORED")
      \/ comm \in {"append", "prepend"} /\ old # NULL /\ cache.cas[new] # 0 /\ ~same /\ R("EXISTS")
  <2>1. comm \in {"set", "add", "replace", "append", "prepend", "cas"}
    BY <1>4 DEF StoreCmds
  <2> QED BY ONLY <1>1, <1>2, <1>5, <1>6, <2>1, StoreView
<1>8. ASSUME NEW x, W(x)
      PROVE  o.ret = "STORED" /\ SparesOthers(c) /\ Writes(k, x)
  <2>1. PICK it \in Items : /\ Aside(cache, it) => it = new
                            /\ Stores(cache, o.h, it, cache.key[new], x, live)
    BY <1>8 DEF Wrote
  <2>2. SparesOthers(c)
    <3>1. \A d \in Conns : d # c /\ pc[d] = "nread" => slot[<<d, 0>>] # it
      BY <1>2, <2>1
    <3>2. Only(cache, cache', it, live)
      BY <1>5, <2>1 DEF Stores
    <3> QED BY <3>1, <3>2, OnlyOthers DEF Turn
  <2>3. ASSUME NEW q \in Keys
        PROVE  Visible(q)' \in {IF q = k THEN [val |-> x, cas |-> cache.cas_id + 1] ELSE Visible(q), NULL}
    <3>1. View(cache', q, now, live) \in
            {IF q = k THEN [val |-> x, cas |-> cache.cas_id + 1] ELSE View(cache, q, now, live), NULL}
      BY <1>1, <1>4, <1>5, <2>1, StoresView
    <3>2. /\ Visible(q) = View(cache, q, now, live)
          /\ Visible(q)' = View(cache', q, now, live)
      BY <1>1, <1>3, ViewVisible DEF now, live
    <3> QED BY <3>1, <3>2
  <2>4. o.ret = "STORED" /\ cache'.cas_id = cache.cas_id + 1
    BY <1>5, <1>8, <2>1 DEF Wrote, Stores
  <2> QED BY <2>2, <2>3, <2>4 DEF Writes
<1>9. ASSUME NEW r, R(r)
      PROVE  o.ret = r /\ SparesOthers(c) /\ Refuses
  <2>1. o.ret = r /\ Quiet(cache, cache', NULL, live)
    BY <1>5, <1>9 DEF Refused
  <2>2. SparesOthers(c)
    <3>1. \A d \in Conns : d # c /\ pc[d] = "nread" => slot[<<d, 0>>] # NULL
      BY <1>2, CacheAssumption
    <3> QED BY <2>1, <3>1, OnlyOthers DEF Turn, Quiet
  <2>3. ASSUME NEW q \in Keys PROVE Visible(q)' \in {Visible(q), NULL}
    <3>1. View(cache', q, now, live) \in {View(cache, q, now, live), NULL}
      BY <1>1, <2>1, QuietView
    <3>2. /\ Visible(q) = View(cache, q, now, live)
          /\ Visible(q)' = View(cache', q, now, live)
      BY <1>1, <1>3, ViewVisible DEF now, live
    <3> QED BY <3>1, <3>2
  <2> QED BY <2>1, <2>2, <2>3 DEF Refuses, Quiet
<1>10. SparesOthers(c)
  BY <1>7, <1>8, <1>9
<1>11. \A d \in Conns : d # c => reply'[d] = reply[d]
  BY <1>2, <1>5
<1>12. FlushPast' /\ ShownBy(c)'
  BY <1>1, <1>3 DEF FlushPast, ShownBy, GetLabels, now, live
<1>13. Showing' /\ OthersPend(c)
  BY <1>10, <1>11, <1>12, ShowingKept DEF Turn, Effect
<1> DEFINE ret == o.ret
<1>14. Answers(c, ret)
  BY <1>2, <1>3, <1>4, <1>5, <1>13 DEF Answers, comm
<1>15. Did(c, ret)
  <2>1. old = Visible(k)
    BY <1>2, <1>4, ViewVisible DEF now, live
  <2>2. \A x : W(x) => ret = "STORED" /\ Writes(k, x)
    BY <1>8
  <2>3. \A r : R(r) => ret = r /\ Refuses
    BY <1>9
  <2> HIDE DEF W, R, ret, old, v
  <2>4. \/ comm = "set" /\ ret = "STORED" /\ Writes(k, v)
        \/ comm = "add" /\ old = NULL /\ ret = "STORED" /\ Writes(k, v)
        \/ comm = "add" /\ old # NULL /\ ret = "NOT_STORED" /\ Refuses
        \/ comm = "replace" /\ old # NULL /\ ret = "STORED" /\ Writes(k, v)
        \/ comm = "replace" /\ old = NULL /\ ret = "NOT_STORED" /\ Refuses
        \/ comm = "cas" /\ old = NULL /\ ret = "NOT_FOUND" /\ Refuses
        \/ comm = "cas" /\ old # NULL /\ ~same /\ ret = "EXISTS" /\ Refuses
        \/ comm = "cas" /\ same /\ ret = "STORED" /\ Writes(k, v)
        \/ /\ comm \in {"append", "prepend"} /\ old # NULL /\ (cache.cas[new] # 0 => same)
           /\ \E x \in IF comm = "append" THEN Joins(old.val, v) ELSE Joins(v, old.val) :
                ret = "STORED" /\ Writes(k, x)
        \/ comm \in {"append", "prepend"} /\ ret = "NOT_STORED" /\ Refuses
        \/ /\ comm \in {"append", "prepend"} /\ old # NULL /\ cache.cas[new] # 0 /\ ~same
           /\ ret = "EXISTS" /\ Refuses
    BY ONLY <1>7, <2>2, <2>3
  <2> QED BY ONLY <2>1, <2>4 DEF Did, comm, k, new, v
<1>16. KV!Next
  <2> HIDE DEF ret
  <2> QED BY <1>14, <1>15, AsExecute
<1> QED BY <1>13, <1>16 DEF Shows

LEMMA ConnShows ==
  ASSUME NEW c \in Conns, Turn(c), ConnStep(c)
  PROVE  Shows
<1>1. CASE GetStep(c)
  <2>1. CASE GetStart(c)
    BY <2>1, GetStartShows
  <2>2. CASE GetUpdate(c)
    BY <2>2, GetUpdateShows
  <2>3. CASE GetRetry(c)
    BY <2>3, GetRetryShows
  <2>4. CASE MwriteRelease(c)
    BY <2>4, ReleaseShows DEF MwriteRelease
  <2>5. CASE GetDone(c) \/ GetKeyTooLong(c) \/ MwriteDone(c)
    BY <2>5, GetDoneShows
  <2>6. CASE GetNoMemory(c) \/ GetNoSuffix(c)
    BY <2>6, GetNoMemoryShows
  <2>7. ASSUME NEW k \in Keys, GetKey(c, k) PROVE Shows
    BY <2>7, GetKeyShows
  <2> QED BY <1>1, <2>1, <2>2, <2>3, <2>4, <2>5, <2>6, <2>7 DEF GetStep
<1>2. CASE StoreStep(c)
  <2>0. cache.cas_id \in Nat
    BY TurnFacts, FieldTypes
  <2>1. ASSUME NEW comm \in StoreCmds, NEW k \in Keys, NEW v \in SetVals, NEW e \in Exptimes,
               Update(c, comm, k, v, e, 0)
        PROVE  Shows
    <3> DEFINE u == 0
    <3>1. u \in 0 .. cache.cas_id /\ Update(c, comm, k, v, e, u)
      BY <2>0, <2>1
    <3> HIDE DEF u
    <3> QED BY <3>1, UpdateShows
  <2>2. ASSUME NEW comm \in StoreCmds, NEW k \in Keys, NEW v \in SetVals, NEW e \in Exptimes,
               NEW u \in 1 .. cache.cas_id, Update(c, comm, k, v, e, u)
        PROVE  Shows
    <3>1. u \in 0 .. cache.cas_id
      BY <2>0
    <3> QED BY <2>2, <3>1, UpdateShows
  <2>3. CASE SetFailed(c)
    BY <2>3, SetFailedShows
  <2>4. CASE StoreItem(c)
    BY <2>4, StoreItemShows
  <2>5. CASE BadDataChunk(c)
    BY <2>5, CloseShows
  <2> QED BY <1>2, <2>1, <2>2, <2>3, <2>4, <2>5 DEF StoreStep
<1>3. CASE OtherStep(c)
  <2>1. ASSUME NEW k \in Keys, Delete(c, k) PROVE Shows
    BY <2>1, DeleteShows
  <2>2. ASSUME NEW k \in Keys, Arithmetic(c, k) PROVE Shows
    BY <2>2 DEF Arithmetic, Turn, Undisturbed
  <2>3. ASSUME NEW incr \in BOOLEAN, NEW delta \in Deltas, AddDelta(c, incr, delta) PROVE Shows
    BY <2>3 DEF AddDelta, Turn, Undisturbed
  <2>4. ASSUME NEW delay \in Delays, FlushAll(c, delay) PROVE Shows
    BY <2>4, FlushAllShows
  <2>5. CASE Unlink(c)
    BY <2>5, UnlinkShows
  <2>6. CASE Remove(c)
    BY <2>6, RemoveShows
  <2>7. CASE FlushExpired(c)
    BY <2>7, FlushExpiredShows
  <2>8. CASE Close(c)
    BY <2>8, CloseShows
  <2>9. CASE CloseItem(c)
    BY <2>9, CloseItemShows
  <2>10. CASE CloseRelease(c)
    BY <2>10, ReleaseShows DEF CloseRelease
  <2>11. CASE Closed(c)
    BY <2>11, GetDoneShows
  <2> QED BY <1>3, <2>1, <2>2, <2>3, <2>4, <2>5, <2>6, <2>7, <2>8, <2>9, <2>10, <2>11 DEF OtherStep
<1> QED BY <1>1, <1>2, <1>3 DEF ConnStep

\* Every command takes effect at one moment, on the value its key has at that moment, and
\* its reply says what happened, however the lock sections of the connections
\* interleave with each other, with evictions and expiry, and with what flush_all does to the
\* cache: the server implements KVStore as long as every reference is counted.
THEOREM ServerImplementsKVStore ==
  Undisturbed => (Spec /\ []~cache.uncounted => ImplementsKVStore)
<1> SUFFICES ASSUME Undisturbed PROVE Spec /\ []~cache.uncounted => ImplementsKVStore
  OBVIOUS
<1>1. Init => Showing /\ KV!Init
  <2> SUFFICES ASSUME Init PROVE Showing /\ KV!Init
    OBVIOUS
  <2>1. FlushPast /\ \A c \in Conns : ShownBy(c)
    BY ServerAssumption DEF Init, FlushPast, ShownBy, GetLabels
  <2>2. cache.cas_id = 0 /\ \A k \in Keys : cache.assoc[k] = NULL
    BY DEF Init, EmptyCache
  <2>3. \A k \in Keys : Visible(k) = NULL
    BY <2>2 DEF Visible
  <2>4. KV!Init
    BY <2>2, <2>3 DEF KV!Init, KV!NoRequest, Init
  <2> QED BY <2>1, <2>4 DEF Showing
<1>2. IInv /\ Showing /\ ~cache.uncounted /\ (~cache.uncounted)' /\ [Next]_vars
        => Showing' /\ [KV!Next]_(KV!vars)
  <2> SUFFICES ASSUME IInv, Showing, ~cache'.uncounted, [Next]_vars
               PROVE  Showing' /\ [KV!Next]_(KV!vars)
    OBVIOUS
  <2>1. CASE Next
    <3>1. Ready
      BY <2>1 DEF Ready, Next
    <3>2. CASE Tick
      BY <3>1, <3>2, TickShows DEF Shows
    <3>3. ASSUME NEW c \in Conns, ConnStep(c) PROVE Shows
      <4>1. Effect(c)
        BY <3>1, <3>3, ConnEffect
      <4>2. Turn(c)
        BY <3>1, <4>1 DEF Turn, Effect, Asserts, Undisturbed
      <4> QED BY <3>3, <4>2, ConnShows
    <3> QED BY <2>1, <3>2, <3>3 DEF Next, Shows
  <2>2. CASE UNCHANGED vars
    <3>1. Showing'
      BY <2>2 DEF vars, connvars, timevars, Showing, FlushPast, ShownBy
    <3>2. UNCHANGED KV!vars
      BY <2>2 DEF vars, connvars, timevars, KV!vars, Visible
    <3> QED BY <3>1, <3>2
  <2> QED BY <2>1, <2>2
<1> QED BY <1>1, <1>2, Invariant, PTL DEF Spec, ImplementsKVStore, KV!Spec
=============================================================================
