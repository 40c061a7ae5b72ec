----------------------------- MODULE SlabsProofs ------------------------------
(***************************************************************************)
(* For every table of classes, memory limit and way of failing: the slab   *)
(* allocator hands out no memory twice and none it does not have, and so   *)
(* implements Chunks; it loses no chunk, keeps its limit and its counts.   *)
(* And what the table of classes is for every setting.                     *)
(***************************************************************************)
EXTENDS MCSlabs, TLAPS, FiniteSetTheorems, WellFoundedInduction

USE SlabsAssumption DEF SlabsAssumption

\* A class has the address of a rest of a page exactly if chunks are left in it.
RestsExact == \A id \in Classes :
  slabclass[id].end_page_ptr = 0 <=> slabclass[id].end_page_free = 0

\* All memory ever handed out ends at e at the latest.
Below(e) ==
  /\ \A b \in Taken : b.at + b.len <= e
  /\ \A id \in Classes : \A i \in Slots(id) : slabclass[id].slots[i] + Size[id] <= e
  /\ \A id \in HasRest : Rest(id).at + Rest(id).len <= e

\* What is left of the large chunk begins at mem_current, or counts as nothing.
AvailExact == mem_base => mem_avail = 0 \/ mem_current + mem_avail = Align + mem_limit

\* What is lost is nobody's.
LostIsLost == held \cap lost = {}

\* A chunk nobody had is somebody's.
Fresh == \E c : c \notin Taken /\ held' = held \cup {c}

\* The inductive invariant.  Pieces stay apart because a new page begins above
\* all of them, and pages stay inside the large chunk because mem_avail is what
\* lies between mem_current and its end.
IInv == TypeOK /\ RestsExact /\ Below(mem_current) /\ Below(MemoryEnd) /\ AvailExact
        /\ LostIsLost /\ NoOverlap

LEMMA RoundsUp ==
  ASSUME NEW n \in Nat
  PROVE  Aligned(n) \in Nat /\ Aligned(n) >= n
<1>1. n % Align \in 0 .. Align - 1
  OBVIOUS
<1> QED BY <1>1 DEF Aligned

LEMMA PageLengths ==
  ASSUME NEW id \in Classes
  PROVE  /\ PageLen(id) \in Nat \ {0}
         /\ (Perslab[id] - 1) * Size[id] = PageLen(id) - Size[id]
         /\ \A k \in Nat : k * Size[id] \in Nat /\ (k # 0 => (k - 1) * Size[id] = k * Size[id] - Size[id])
  BY DEF PageLen

\* The array doubles to a natural length.
LEMMA GrownInNat ==
  ASSUME NEW length \in Nat, NEW used \in Nat
  PROVE  Grown(length, used) \in Nat
  BY DEF Grown

LEMMA ClassHasType ==
  ASSUME TypeOK, NEW id \in Classes
  PROVE  /\ slabclass[id] \in SlabClass
         /\ slabclass[id].slots \in Seq(Nat \ {0}) /\ slabclass[id].sl_total \in Nat
         /\ slabclass[id].end_page_ptr \in Nat /\ slabclass[id].end_page_free \in Nat
         /\ slabclass[id].slabs \in Nat /\ slabclass[id].list_size \in Nat
         /\ slabclass[id].requested \in Int
         /\ Slots(id) = 1 .. Len(slabclass[id].slots) /\ Len(slabclass[id].slots) \in Nat
         /\ \A i \in Slots(id) : slabclass[id].slots[i] \in Nat \ {0}
<1>1. slabclass[id] \in SlabClass
  BY DEF TypeOK
<1> QED BY <1>1 DEF SlabClass, Slots

\* The records the functions of slabs.c make of the record of a class.
LEMMA WithSlots ==
  ASSUME NEW p \in SlabClass, NEW s \in Seq(Nat \ {0}), NEW r \in Int
  PROVE  [p EXCEPT !.slots = s, !.requested = r] \in SlabClass
  BY DEF SlabClass

LEMMA WithSlotsGrown ==
  ASSUME NEW p \in SlabClass, NEW s \in Seq(Nat \ {0}), NEW t \in Nat, NEW r \in Int
  PROVE  [p EXCEPT !.sl_total = t, !.slots = s, !.requested = r] \in SlabClass
  BY DEF SlabClass

LEMMA WithRest ==
  ASSUME NEW p \in SlabClass, NEW f \in Nat, NEW r \in Int, NEW e \in Nat
  PROVE  [p EXCEPT !.end_page_free = f, !.requested = r, !.end_page_ptr = e] \in SlabClass
  BY DEF SlabClass

LEMMA WithPage ==
  ASSUME NEW p \in SlabClass, NEW l \in Nat, NEW k \in Nat, NEW e \in Nat, NEW f \in Nat
  PROVE  [p EXCEPT !.list_size = l, !.slabs = k, !.end_page_ptr = e, !.end_page_free = f] \in SlabClass
  BY DEF SlabClass

\* What the three ways to get a chunk have in common: the chunk has the type of
\* one, and what was asked for fits in.
LEMMA ChunkHasType ==
  ASSUME NEW n \in Nat, NEW id \in Classes, slabs_clsid(n, id), NEW at \in Nat \ {0}
  PROVE  /\ Chunk(at, n, id) \in HeldChunk
         /\ Chunk(at, n, id).len = Size[id] /\ Chunk(at, n, id).n <= Chunk(at, n, id).len
         /\ Chunk(at, n, id).at = at /\ Chunk(at, n, id).id = id
  BY DEF Chunk, HeldChunk, slabs_clsid

\* A held chunk more keeps the types.
LEMMA HoldTyped ==
  ASSUME TypeOK, NEW n \in Nat, NEW id \in Classes, slabs_clsid(n, id), NEW at \in Nat \ {0},
         Hold(at, n, id), UNCHANGED lost
  PROVE  /\ held' \subseteq HeldChunk
         /\ \A b \in (held \cup lost)' : b.len = Size[b.id] /\ b.n <= b.len
<1>1. held' = held \cup {Chunk(at, n, id)}
  BY DEF Hold
<1> QED BY <1>1, ChunkHasType DEF TypeOK

\* Another record for one class keeps the types.
LEMMA SetClassTyped ==
  ASSUME TypeOK, NEW id \in Classes, NEW p \in SlabClass, SetClass(id, p)
  PROVE  /\ slabclass' \in [Classes -> SlabClass]
         /\ slabclass'[id] = p
         /\ \A jd \in Classes \ {id} : slabclass'[jd] = slabclass[jd]
  BY DEF TypeOK, SetClass

LEMMA InitTypeOK == Init => TypeOK
<1>1. EmptyClass \in SlabClass
  BY DEF EmptyClass, SlabClass
<1> QED BY <1>1 DEF Init, TypeOK

LEMMA NextTypeOK ==
  ASSUME TypeOK, RestsExact, [Next]_vars
  PROVE  TypeOK'
<1>1. ASSUME NEW n \in Requests, NEW id \in Classes, AllocSlot(n, id) PROVE TypeOK'
  <2> DEFINE p == slabclass[id]
  <2>1. p.slots \in Seq(Nat \ {0}) /\ Len(p.slots) \in Slots(id) /\ p.slots[Len(p.slots)] \in Nat \ {0}
    BY <1>1, ClassHasType DEF AllocSlot
  <2>2. SubSeq(p.slots, 1, Len(p.slots) - 1) \in Seq(Nat \ {0})
    BY <2>1, ClassHasType
  <2>3. FromSlots(p, n) \in SlabClass
    <3>1. p \in SlabClass /\ p.requested \in Int /\ n \in Nat
      BY ClassHasType
    <3>2. p.requested + n \in Int
      BY <3>1
    <3> QED BY <2>2, <3>1, <3>2, WithSlots DEF FromSlots
  <2>4. slabs_clsid(n, id) /\ SetClass(id, FromSlots(p, n)) /\ Hold(p.slots[Len(p.slots)], n, id)
        /\ UNCHANGED <<mem_malloced, mem_base, mem_current, mem_avail, lost>>
    BY <1>1 DEF AllocSlot
  <2> QED BY <2>1, <2>3, <2>4, SetClassTyped, HoldTyped DEF TypeOK
<1>2. ASSUME NEW n \in Requests, NEW id \in Classes, AllocEndPage(n, id) PROVE TypeOK'
  <2> DEFINE p == slabclass[id]
  <2>1. p.end_page_ptr \in Nat \ {0} /\ p.end_page_free \in Nat \ {0}
    BY <1>2, ClassHasType DEF AllocEndPage, RestsExact
  <2>2. FromPage(p, id, n) \in SlabClass
    <3>0. p \in SlabClass /\ p.requested \in Int /\ n \in Nat
      BY ClassHasType
    <3>1. p.end_page_free - 1 \in Nat /\ p.requested + n \in Int
      BY <2>1, <3>0
    <3>2. (IF p.end_page_free = 1 THEN 0 ELSE p.end_page_ptr + Size[id]) \in Nat
      BY <2>1
    <3> QED BY <3>0, <3>1, <3>2, WithRest DEF FromPage
  <2>3. slabs_clsid(n, id) /\ SetClass(id, FromPage(p, id, n)) /\ Hold(p.end_page_ptr, n, id)
        /\ UNCHANGED <<mem_malloced, mem_base, mem_current, mem_avail, lost>>
    BY <1>2 DEF AllocEndPage
  <2> QED BY <2>1, <2>2, <2>3, SetClassTyped, HoldTyped DEF TypeOK
<1>3. ASSUME NEW n \in Requests, NEW id \in Classes, AllocNewSlab(n, id) PROVE TypeOK'
  <2> DEFINE p == slabclass[id]
             q == NewSlab(p, id)
  <2>1. PageLen(id) \in Nat \ {0} /\ Aligned(PageLen(id)) \in Nat
    BY PageLengths, RoundsUp
  <2>2. q \in SlabClass /\ q.end_page_ptr \in Nat \ {0} /\ q.end_page_free \in Nat \ {0}
    <3>0. p \in SlabClass /\ p.list_size \in Nat /\ p.slabs \in Nat
      BY ClassHasType
    <3>1. Grown(p.list_size, p.slabs) \in Nat
      BY <3>0, GrownInNat
    <3>11. p.slabs + 1 \in Nat
      BY <3>0
    <3>2. mem_current \in Nat \ {0} /\ Perslab[id] \in Nat \ {0}
      BY DEF TypeOK
    <3>3. q \in SlabClass
      BY <3>0, <3>1, <3>11, <3>2, WithPage DEF NewSlab
    <3>4. q.end_page_ptr = mem_current /\ q.end_page_free = Perslab[id]
      BY <3>0 DEF NewSlab, SlabClass
    <3> QED BY <3>2, <3>3, <3>4
  <2>3. FromPage(q, id, n) \in SlabClass
    <3>1. q.end_page_free - 1 \in Nat /\ q.requested + n \in Int
      BY <2>2 DEF SlabClass
    <3>2. (IF q.end_page_free = 1 THEN 0 ELSE q.end_page_ptr + Size[id]) \in Nat
      BY <2>2
    <3> QED BY <2>2, <3>1, <3>2, WithRest DEF FromPage
  <2>4. /\ slabs_clsid(n, id) /\ SetClass(id, FromPage(q, id, n)) /\ Hold(mem_current, n, id)
        /\ memory_allocate(id) /\ mem_malloced' = mem_malloced + PageLen(id)
        /\ UNCHANGED <<mem_base, lost>>
    BY <1>3 DEF AllocNewSlab
  <2>5. mem_current' \in Nat \ {0} /\ mem_avail' \in Nat
    BY <2>1, <2>4 DEF memory_allocate, TypeOK
  <2> QED BY <2>1, <2>3, <2>4, <2>5, SetClassTyped, HoldTyped DEF TypeOK
<1>4. ASSUME NEW n \in Requests, NEW id \in Classes, AllocFails(n, id) PROVE TypeOK'
  <2> DEFINE p == slabclass[id]
             q == [p EXCEPT !.list_size = Grown(p.list_size, p.slabs)]
  <2>1. q \in SlabClass
    BY ClassHasType, GrownInNat DEF SlabClass
  <2>2. SetClass(id, q) /\ UNCHANGED <<mem_malloced, mem_base, mem_current, mem_avail, held, lost>>
    BY <1>4 DEF AllocFails
  <2> QED BY <2>1, <2>2, SetClassTyped DEF TypeOK
<1>5. ASSUME NEW b \in held, Free(b) PROVE TypeOK'
  <2> DEFINE p == slabclass[b.id]
             q == [p EXCEPT !.sl_total = Grown(p.sl_total, Len(p.slots)),
                            !.slots = Append(@, b.at), !.requested = @ - b.n]
  <2>1. b.id \in Classes /\ b.at \in Nat \ {0} /\ b.n \in Nat
    BY DEF TypeOK, HeldChunk
  <2>2. Append(p.slots, b.at) \in Seq(Nat \ {0}) /\ Grown(p.sl_total, Len(p.slots)) \in Nat
    <3>1. p.slots \in Seq(Nat \ {0}) /\ p.sl_total \in Nat /\ Len(p.slots) \in Nat
      BY <2>1, ClassHasType
    <3>2. Append(p.slots, b.at) \in Seq(Nat \ {0})
      BY <2>1, <3>1
    <3>3. Grown(p.sl_total, Len(p.slots)) \in Nat
      BY <3>1, GrownInNat
    <3> QED BY <3>2, <3>3
  <2>3. q \in SlabClass
    <3>1. p \in SlabClass /\ p.requested \in Int
      BY <2>1, ClassHasType
    <3>2. p.requested - b.n \in Int
      BY <2>1, <3>1
    <3> QED BY <2>2, <3>1, <3>2, WithSlotsGrown
  <2>4. SetClass(b.id, q) /\ held' = held \ {b}
        /\ UNCHANGED <<mem_malloced, mem_base, mem_current, mem_avail, lost>>
    BY <1>5 DEF Free
  <2> QED BY <2>1, <2>3, <2>4, SetClassTyped DEF TypeOK
<1>6. ASSUME NEW b \in held, FreeFails(b) PROVE TypeOK'
  BY <1>6 DEF FreeFails, TypeOK
<1>7. ASSUME NEW b \in held, NEW n \in Requests, Steal(b, n) PROVE TypeOK'
  <2>1. b.id \in Classes /\ n <= Size[b.id] /\ b.len = Size[b.id] /\ b \in HeldChunk
    BY <1>7 DEF Steal, slabs_clsid, TypeOK, HeldChunk
  <2> DEFINE c == [b EXCEPT !.n = n]
  <2>2. c \in HeldChunk /\ c.id = b.id /\ c.len = b.len /\ c.n = n
    BY <2>1 DEF HeldChunk
  <2>3. held' = (held \ {b}) \cup {c}
        /\ UNCHANGED <<slabclass, mem_malloced, mem_base, mem_current, mem_avail, lost>>
    BY <1>7 DEF Steal
  <2> QED BY <2>1, <2>2, <2>3 DEF TypeOK
<1>8. CASE UNCHANGED vars
  BY <1>8 DEF vars, TypeOK
<1> QED BY <1>1, <1>2, <1>3, <1>4, <1>5, <1>6, <1>7, <1>8 DEF Next, slabs_alloc, slabs_free

-------------------------------------------------------------------------------
\* What each step does to the pieces of memory, in terms of the pieces alone.

SameRests == HasRest' = HasRest /\ \A id \in HasRest : Rest(id)' = Rest(id)

LEMMA AllocSlotMoves ==
  ASSUME TypeOK, TypeOK', NEW n \in Requests, NEW id \in Classes, AllocSlot(n, id)
  PROVE  /\ Len(slabclass[id].slots) \in Slots(id)
         /\ held' = held \cup {Chunk(slabclass[id].slots[Len(slabclass[id].slots)], n, id)}
         /\ lost' = lost
         /\ SameRests
         /\ \A jd \in Classes : \A j \in Slots(jd)' :
              /\ j \in Slots(jd) /\ slabclass'[jd].slots[j] = slabclass[jd].slots[j]
              /\ jd = id => j # Len(slabclass[id].slots)
         /\ \A jd \in Classes : /\ slabclass'[jd].end_page_ptr = slabclass[jd].end_page_ptr
                                /\ slabclass'[jd].end_page_free = slabclass[jd].end_page_free
<1> DEFINE p == slabclass[id]
           L == Len(p.slots)
           t == SubSeq(p.slots, 1, L - 1)
<1>1. SetClass(id, FromSlots(p, n)) /\ Hold(p.slots[L], n, id) /\ lost' = lost /\ p.slots # <<>>
  BY DEF AllocSlot
<1>2. p \in SlabClass /\ p.slots \in Seq(Nat \ {0}) /\ L \in Nat /\ Slots(id) = 1 .. L
  BY ClassHasType
<1>3. L \in 1 .. L
  BY <1>1, <1>2
<1>4. DOMAIN t = 1 .. L - 1 /\ \A j \in 1 .. L - 1 : t[j] = p.slots[j]
  BY <1>2, <1>3
<1>5. slabclass'[id] = [p EXCEPT !.slots = t, !.requested = @ + n]
      /\ \A jd \in Classes \ {id} : slabclass'[jd] = slabclass[jd]
  BY <1>1 DEF SetClass, FromSlots, TypeOK
<1>6. slabclass'[id].slots = t /\ slabclass'[id].end_page_ptr = p.end_page_ptr
      /\ slabclass'[id].end_page_free = p.end_page_free
  BY <1>2, <1>5 DEF SlabClass
<1>7. \A jd \in Classes : /\ slabclass'[jd].end_page_ptr = slabclass[jd].end_page_ptr
                          /\ slabclass'[jd].end_page_free = slabclass[jd].end_page_free
  BY <1>5, <1>6
<1>8. SameRests
  BY <1>7 DEF SameRests, HasRest, Rest
<1>9. ASSUME NEW jd \in Classes, NEW j \in Slots(jd)'
      PROVE  /\ j \in Slots(jd) /\ slabclass'[jd].slots[j] = slabclass[jd].slots[j]
             /\ jd = id => j # L
  <2>1. CASE jd = id
    <3>1. j \in 1 .. L - 1
      BY <1>4, <1>6, <1>9, <2>1 DEF Slots
    <3> QED BY <1>2, <1>4, <1>6, <2>1, <3>1
  <2>2. CASE jd # id
    BY <1>5, <1>9, <2>2 DEF Slots
  <2> QED BY <2>1, <2>2
<1> QED BY <1>1, <1>2, <1>3, <1>7, <1>8, <1>9 DEF Hold

\* After a step that takes the rest of a page further, the rest of class id ends
\* where it ended, and begins a chunk later.
RestCut(id, ptr, free) ==
  IF free = 1 THEN HasRest' = HasRest \ {id}
  ELSE /\ HasRest' = HasRest \cup {id}
       /\ slabclass'[id].end_page_ptr = ptr + Size[id]
       /\ slabclass'[id].end_page_free = free - 1

OtherRests(id) == \A jd \in HasRest \ {id} : Rest(jd)' = Rest(jd)

SameSlots == \A jd \in Classes :
  Slots(jd)' = Slots(jd) /\ \A j \in Slots(jd) : slabclass'[jd].slots[j] = slabclass[jd].slots[j]

\* FromPage, on the record of a class that may have got a new page before.
LEMMA FromPageMoves ==
  ASSUME TypeOK, NEW n \in Requests, NEW id \in Classes, NEW q \in SlabClass,
         q.slots = slabclass[id].slots, q.end_page_ptr # 0, q.end_page_free # 0,
         SetClass(id, FromPage(q, id, n))
  PROVE  /\ SameSlots /\ OtherRests(id) /\ RestCut(id, q.end_page_ptr, q.end_page_free)
         /\ \A jd \in Classes \ {id} : slabclass'[jd] = slabclass[jd]
         /\ slabclass'[id].end_page_free = q.end_page_free - 1
         /\ slabclass'[id].end_page_ptr = IF q.end_page_free = 1 THEN 0 ELSE q.end_page_ptr + Size[id]
<1>1. slabclass'[id] = FromPage(q, id, n)
      /\ \A jd \in Classes \ {id} : slabclass'[jd] = slabclass[jd]
  BY DEF SetClass, TypeOK
<1>2. /\ slabclass'[id].slots = q.slots
      /\ slabclass'[id].end_page_free = q.end_page_free - 1
      /\ slabclass'[id].end_page_ptr = IF q.end_page_free = 1 THEN 0 ELSE q.end_page_ptr + Size[id]
  BY <1>1 DEF FromPage, SlabClass
<1>3. SameSlots
  BY <1>1, <1>2 DEF SameSlots, Slots
<1>4. OtherRests(id)
  BY <1>1 DEF OtherRests, HasRest, Rest
<1>5. q.end_page_ptr \in Nat \ {0} /\ Size[id] \in Nat \ {0} /\ q.end_page_free \in Nat \ {0}
  BY DEF SlabClass
<1>6. CASE q.end_page_free = 1
  <2>1. slabclass'[id].end_page_ptr = 0
    BY <1>2, <1>6
  <2>2. \A jd \in Classes : jd \in HasRest' <=> jd \in HasRest \ {id}
    BY <1>1, <2>1 DEF HasRest
  <2>3. HasRest' = HasRest \ {id}
    BY <2>2 DEF HasRest
  <2> QED BY <1>1, <1>2, <1>3, <1>4, <1>6, <2>3 DEF RestCut
<1>7. CASE q.end_page_free # 1
  <2>1. slabclass'[id].end_page_ptr # 0
    BY <1>2, <1>5, <1>7
  <2>2. \A jd \in Classes : jd \in HasRest' <=> jd \in HasRest \cup {id}
    BY <1>1, <2>1 DEF HasRest
  <2>3. HasRest' = HasRest \cup {id}
    BY <2>2 DEF HasRest
  <2> QED BY <1>1, <1>2, <1>3, <1>4, <1>7, <2>3 DEF RestCut
<1> QED BY <1>6, <1>7

LEMMA AllocEndPageMoves ==
  ASSUME TypeOK, RestsExact, NEW n \in Requests, NEW id \in Classes, AllocEndPage(n, id)
  PROVE  /\ id \in HasRest /\ slabclass[id].end_page_free # 0
         /\ held' = held \cup {Chunk(slabclass[id].end_page_ptr, n, id)} /\ lost' = lost
         /\ SameSlots /\ OtherRests(id)
         /\ RestCut(id, slabclass[id].end_page_ptr, slabclass[id].end_page_free)
         /\ RestsExact'
<1> DEFINE p == slabclass[id]
<1>1. SetClass(id, FromPage(p, id, n)) /\ Hold(p.end_page_ptr, n, id) /\ lost' = lost
      /\ p.end_page_ptr # 0
  BY DEF AllocEndPage
<1>2. p \in SlabClass /\ p.end_page_free # 0 /\ p.end_page_free \in Nat /\ p.end_page_ptr \in Nat
  BY <1>1, ClassHasType DEF RestsExact
<1>3. SameSlots /\ OtherRests(id) /\ RestCut(id, p.end_page_ptr, p.end_page_free)
  BY <1>1, <1>2, FromPageMoves
<1>4. /\ \A jd \in Classes \ {id} : slabclass'[jd] = slabclass[jd]
      /\ slabclass'[id].end_page_free = p.end_page_free - 1
      /\ slabclass'[id].end_page_ptr = IF p.end_page_free = 1 THEN 0 ELSE p.end_page_ptr + Size[id]
  BY <1>1, <1>2, FromPageMoves
<1>5. RestsExact'
  BY <1>2, <1>4 DEF RestsExact
<1> QED BY <1>1, <1>2, <1>3, <1>5 DEF Hold, HasRest

LEMMA AllocNewSlabMoves ==
  ASSUME TypeOK, RestsExact, NEW n \in Requests, NEW id \in Classes, AllocNewSlab(n, id)
  PROVE  /\ id \notin HasRest
         /\ held' = held \cup {Chunk(mem_current, n, id)} /\ lost' = lost
         /\ SameSlots /\ OtherRests(id) /\ RestCut(id, mem_current, Perslab[id])
         /\ RestsExact'
         /\ memory_allocate(id) /\ mem_base' = mem_base
<1> DEFINE p == slabclass[id]
           q == NewSlab(p, id)
<1>1. SetClass(id, FromPage(q, id, n)) /\ Hold(mem_current, n, id) /\ lost' = lost
      /\ p.end_page_ptr = 0 /\ memory_allocate(id) /\ mem_base' = mem_base
  BY DEF AllocNewSlab
<1>2. p \in SlabClass /\ p.list_size \in Nat /\ p.slabs \in Nat
  BY ClassHasType
<1>3. Grown(p.list_size, p.slabs) \in Nat
  BY <1>2, GrownInNat
<1>4. p.slabs + 1 \in Nat /\ mem_current \in Nat \ {0} /\ Perslab[id] \in Nat \ {0} /\ Size[id] \in Nat
  BY <1>2 DEF TypeOK
<1>5. q \in SlabClass
  BY <1>2, <1>3, <1>4, WithPage DEF NewSlab
<1>6. q.end_page_ptr = mem_current /\ q.end_page_free = Perslab[id] /\ q.slots = p.slots
  BY <1>2 DEF NewSlab, SlabClass
<1>61. q.end_page_ptr # 0 /\ q.end_page_free # 0 /\ q.slots = slabclass[id].slots
  BY <1>4, <1>6
<1> HIDE DEF q
<1>7. SameSlots /\ OtherRests(id) /\ RestCut(id, mem_current, Perslab[id])
  BY <1>1, <1>5, <1>6, <1>61, FromPageMoves
<1>8. /\ \A jd \in Classes \ {id} : slabclass'[jd] = slabclass[jd]
      /\ slabclass'[id].end_page_free = Perslab[id] - 1
      /\ slabclass'[id].end_page_ptr = IF Perslab[id] = 1 THEN 0 ELSE mem_current + Size[id]
  BY <1>1, <1>5, <1>6, <1>61, FromPageMoves
<1>9. RestsExact'
  BY <1>4, <1>8 DEF RestsExact
<1> QED BY <1>1, <1>7, <1>9 DEF Hold, HasRest

LEMMA AllocFailsMoves ==
  ASSUME TypeOK, RestsExact, NEW n \in Requests, NEW id \in Classes, AllocFails(n, id)
  PROVE  SameSlots /\ SameRests /\ RestsExact'
<1> DEFINE p == slabclass[id]
<1>1. p \in SlabClass
  BY ClassHasType
<1>2. slabclass'[id] = [p EXCEPT !.list_size = Grown(p.list_size, p.slabs)]
      /\ \A jd \in Classes \ {id} : slabclass'[jd] = slabclass[jd]
  BY DEF AllocFails, SetClass, TypeOK
<1>3. \A jd \in Classes : /\ slabclass'[jd].slots = slabclass[jd].slots
                          /\ slabclass'[jd].end_page_ptr = slabclass[jd].end_page_ptr
                          /\ slabclass'[jd].end_page_free = slabclass[jd].end_page_free
  BY <1>1, <1>2 DEF SlabClass
<1> QED BY <1>3 DEF SameSlots, SameRests, Slots, HasRest, Rest, RestsExact

LEMMA FreeMoves ==
  ASSUME TypeOK, RestsExact, NEW b \in held, Free(b)
  PROVE  /\ held' = held \ {b} /\ lost' = lost
         /\ SameRests /\ RestsExact'
         /\ \A jd \in Classes : \A j \in Slots(jd)' :
              \/ j \in Slots(jd) /\ slabclass'[jd].slots[j] = slabclass[jd].slots[j]
              \/ j = Len(slabclass[b.id].slots) + 1 /\ jd = b.id /\ slabclass'[jd].slots[j] = b.at
<1> DEFINE p == slabclass[b.id]
           t == Append(p.slots, b.at)
<1>1. b.id \in Classes /\ b.at \in Nat \ {0}
  BY DEF TypeOK, HeldChunk
<1>2. p \in SlabClass /\ p.slots \in Seq(Nat \ {0}) /\ Slots(b.id) = 1 .. Len(p.slots)
      /\ Len(p.slots) \in Nat
  BY <1>1, ClassHasType
<1>3. slabclass'[b.id] = [p EXCEPT !.sl_total = Grown(p.sl_total, Len(p.slots)),
                                   !.slots = t, !.requested = @ - b.n]
      /\ (\A jd \in Classes \ {b.id} : slabclass'[jd] = slabclass[jd])
      /\ held' = held \ {b} /\ lost' = lost
  BY <1>1 DEF Free, SetClass, TypeOK
<1>4. /\ slabclass'[b.id].slots = t
      /\ slabclass'[b.id].end_page_ptr = p.end_page_ptr
      /\ slabclass'[b.id].end_page_free = p.end_page_free
  <2> HIDE DEF p, t
  <2> QED BY ONLY <1>2, <1>3 DEF SlabClass
<1>5. \A jd \in Classes : /\ slabclass'[jd].end_page_ptr = slabclass[jd].end_page_ptr
                          /\ slabclass'[jd].end_page_free = slabclass[jd].end_page_free
  BY <1>3, <1>4
<1>6. SameRests /\ RestsExact'
  BY <1>5 DEF SameRests, HasRest, Rest, RestsExact
<1>7. DOMAIN t = 1 .. Len(p.slots) + 1
      /\ (\A j \in 1 .. Len(p.slots) : t[j] = p.slots[j])
      /\ t[Len(p.slots) + 1] = b.at
  <2> DEFINE q == p.slots
  <2>1. q \in Seq(Nat \ {0}) /\ b.at \in Nat \ {0} /\ t = Append(q, b.at)
    BY <1>1, <1>2
  <2> HIDE DEF q, t
  <2>2. DOMAIN t = 1 .. Len(q) + 1 /\ (\A j \in 1 .. Len(q) : t[j] = q[j]) /\ t[Len(q) + 1] = b.at
    BY ONLY <2>1
  <2> QED BY <2>2 DEF q
<1> HIDE DEF t
<1>8. ASSUME NEW jd \in Classes, NEW j \in Slots(jd)'
      PROVE  \/ j \in Slots(jd) /\ slabclass'[jd].slots[j] = slabclass[jd].slots[j]
             \/ j = Len(p.slots) + 1 /\ jd = b.id /\ slabclass'[jd].slots[j] = b.at
  <2>1. CASE jd = b.id
    <3>1. j \in 1 .. Len(p.slots) + 1
      BY <1>4, <1>7, <1>8, <2>1 DEF Slots
    <3>2. CASE j = Len(p.slots) + 1
      BY <1>4, <1>7, <2>1, <3>2
    <3>3. CASE j \in 1 .. Len(p.slots)
      BY <1>2, <1>4, <1>7, <2>1, <3>3
    <3>4. j = Len(p.slots) + 1 \/ j \in 1 .. Len(p.slots)
      <4>1. Len(p.slots) \in Nat
        BY <1>2
      <4> HIDE DEF p
      <4> QED BY ONLY <3>1, <4>1
    <3> QED BY <3>2, <3>3, <3>4
  <2>2. CASE jd # b.id
    BY <1>3, <1>8, <2>2 DEF Slots
  <2> QED BY <2>1, <2>2
<1> QED BY <1>3, <1>6, <1>8

-------------------------------------------------------------------------------
\* The pieces of memory are intervals of addresses.
LEMMA PieceTypes ==
  ASSUME TypeOK
  PROVE  /\ \A b \in Taken : b.at \in Nat \ {0} /\ b.len \in Nat \ {0} /\ b.len = Size[b.id] /\ b.id \in Classes
         /\ \A id \in Classes : \A i \in Slots(id) :
              Slot(id, i).at = slabclass[id].slots[i] /\ Slot(id, i).len = Size[id]
              /\ slabclass[id].slots[i] \in Nat \ {0}
         /\ \A id \in Classes : Rest(id).at = slabclass[id].end_page_ptr
              /\ Rest(id).len = slabclass[id].end_page_free * Size[id]
              /\ Rest(id).at \in Nat /\ Rest(id).len \in Nat
         /\ \A id \in Classes : Size[id] \in Nat \ {0}
<1>1. \A id \in Classes : slabclass[id].end_page_ptr \in Nat /\ slabclass[id].end_page_free \in Nat
                          /\ Size[id] \in Nat \ {0}
  BY ClassHasType
<1>2. \A id \in Classes : slabclass[id].end_page_free * Size[id] \in Nat
  BY <1>1, PageLengths
<1>3. \A id \in Classes : \A i \in Slots(id) : slabclass[id].slots[i] \in Nat \ {0}
  BY ClassHasType
<1>4. \A b \in Taken : b.at \in Nat \ {0} /\ b.len \in Nat \ {0} /\ b.len = Size[b.id] /\ b.id \in Classes
  BY DEF TypeOK, Taken, HeldChunk
<1> QED BY <1>1, <1>2, <1>3, <1>4 DEF Slot, Rest

\* Taking a free chunk out of its array leaves the pieces apart and in place.
LEMMA AllocSlotKeeps ==
  ASSUME IInv, TypeOK', NEW n \in Requests, NEW id \in Classes, AllocSlot(n, id)
  PROVE  NoOverlap' /\ RestsExact' /\ LostIsLost' /\ Fresh /\ \A e \in Nat : Below(e) => Below(e)'
<1> DEFINE L == Len(slabclass[id].slots)
           c == Chunk(slabclass[id].slots[L], n, id)
<1>1. /\ L \in Slots(id) /\ held' = held \cup {c} /\ lost' = lost /\ SameRests
      /\ \A jd \in Classes : \A j \in Slots(jd)' :
           /\ j \in Slots(jd) /\ slabclass'[jd].slots[j] = slabclass[jd].slots[j]
           /\ jd = id => j # L
      /\ RestsExact'
  BY AllocSlotMoves DEF IInv, RestsExact
<1>2. c.at = Slot(id, L).at /\ c.len = Slot(id, L).len /\ Taken' = Taken \cup {c}
  BY <1>1 DEF Chunk, Slot, Taken
<1>3. \A jd \in Classes : \A j \in Slots(jd)' :
        j \in Slots(jd) /\ Slot(jd, j)' = Slot(jd, j) /\ <<jd, j>> # <<id, L>>
  BY <1>1 DEF Slot
<1>4. NoOverlap
  BY DEF IInv
<1>40. c \notin Taken
  BY <1>1, <1>2, <1>4, PieceTypes DEF IInv, NoOverlap, Apart
<1>41. LostIsLost' /\ Fresh
  BY <1>1, <1>40 DEF IInv, LostIsLost, Fresh, Taken
<1> HIDE DEF c, L
<1>5. \A a, b \in Taken' : a # b => Apart(a, b)
  BY <1>1, <1>2, <1>4 DEF NoOverlap, Apart
<1>6. \A jd \in Classes : \A j \in Slots(jd)', b \in Taken' : Apart(Slot(jd, j)', b)
  BY <1>1, <1>2, <1>3, <1>4 DEF NoOverlap, Apart
<1>7. \A jd, kd \in Classes : \A j \in Slots(jd)', k \in Slots(kd)' :
        <<jd, j>> # <<kd, k>> => Apart(Slot(jd, j)', Slot(kd, k)')
  BY <1>3, <1>4 DEF NoOverlap
<1>8. \A jd \in HasRest' :
        /\ \A b \in Taken' : Apart(Rest(jd)', b)
        /\ \A kd \in Classes : \A k \in Slots(kd)' : Apart(Rest(jd)', Slot(kd, k)')
        /\ \A kd \in HasRest' \ {jd} : Apart(Rest(jd)', Rest(kd)')
  BY <1>1, <1>2, <1>3, <1>4 DEF NoOverlap, Apart, SameRests
<1>9. NoOverlap'
  BY <1>5, <1>6, <1>7, <1>8 DEF NoOverlap, Apart
<1>10. ASSUME NEW e \in Nat, Below(e) PROVE Below(e)'
  BY <1>1, <1>2, <1>10 DEF Below, SameRests, Slot
<1> QED BY <1>1, <1>9, <1>10, <1>41

\* Cutting a chunk off the rest of a page: chunk and new rest part the old one.
LEMMA AllocEndPageKeeps ==
  ASSUME IInv, TypeOK', NEW n \in Requests, NEW id \in Classes, AllocEndPage(n, id)
  PROVE  NoOverlap' /\ RestsExact' /\ LostIsLost' /\ Fresh /\ \A e \in Nat : Below(e) => Below(e)'
<1> DEFINE p == slabclass[id]
           c == Chunk(p.end_page_ptr, n, id)
           R == Rest(id)
<1>1. /\ id \in HasRest /\ p.end_page_free # 0
      /\ held' = held \cup {c} /\ lost' = lost
      /\ SameSlots /\ OtherRests(id) /\ RestCut(id, p.end_page_ptr, p.end_page_free)
      /\ RestsExact'
  BY AllocEndPageMoves DEF IInv
<1>2. p.end_page_ptr \in Nat /\ p.end_page_free \in Nat \ {0} /\ Size[id] \in Nat \ {0}
  <2>1. TypeOK
    BY DEF IInv
  <2>2. p.end_page_ptr \in Nat /\ p.end_page_free \in Nat
    BY <2>1, ClassHasType
  <2> QED BY <1>1, <2>2
<1>3. p.end_page_free * Size[id] \in Nat /\ (p.end_page_free - 1) * Size[id] = p.end_page_free * Size[id] - Size[id]
      /\ (p.end_page_free - 1) * Size[id] \in Nat
  BY <1>2, PageLengths
<1>4. c.at = R.at /\ c.len = Size[id] /\ c.len <= R.len /\ R.at \in Nat /\ R.len \in Nat /\ Taken' = Taken \cup {c}
  BY <1>1, <1>2, <1>3 DEF Chunk, Rest, Taken
<1>5. /\ HasRest' \ {id} = HasRest \ {id}
      /\ \A jd \in HasRest' \ {id} : Rest(jd)' = Rest(jd)
      /\ id \in HasRest' => Rest(id)'.at = R.at + c.len /\ Rest(id)'.at + Rest(id)'.len = R.at + R.len
                            /\ Rest(id)'.len \in Nat
  <2>1. CASE p.end_page_free = 1
    BY <1>1, <2>1 DEF RestCut, OtherRests
  <2>2. CASE p.end_page_free # 1
    <3>1. HasRest' = HasRest \cup {id} /\ slabclass'[id].end_page_ptr = p.end_page_ptr + Size[id]
          /\ slabclass'[id].end_page_free = p.end_page_free - 1
      BY <1>1, <2>2 DEF RestCut
    <3>2. Rest(id)'.at = p.end_page_ptr + Size[id] /\ Rest(id)'.len = (p.end_page_free - 1) * Size[id]
      BY <3>1 DEF Rest
    <3>3. R.at = p.end_page_ptr /\ R.len = p.end_page_free * Size[id]
      BY DEF Rest
    <3>4. Rest(id)'.at = R.at + c.len /\ Rest(id)'.at + Rest(id)'.len = R.at + R.len /\ Rest(id)'.len \in Nat
      <4> HIDE DEF c, R, p
      <4> QED BY <1>2, <1>3, <1>4, <3>2, <3>3
    <3> QED BY <1>1, <3>1, <3>4 DEF OtherRests
  <2> QED BY <2>1, <2>2
<1>6. \A jd \in Classes : \A j \in Slots(jd)' :
        j \in Slots(jd) /\ Slot(jd, j)' = Slot(jd, j)
  BY <1>1 DEF SameSlots, Slot
<1>7. NoOverlap /\ TypeOK
  BY DEF IInv
<1>70. /\ \A b \in Taken : b.at \in Nat /\ b.len \in Nat
       /\ \A jd \in Classes : \A j \in Slots(jd) : Slot(jd, j).at \in Nat /\ Slot(jd, j).len \in Nat
       /\ \A jd \in Classes : Rest(jd).at \in Nat /\ Rest(jd).len \in Nat
       /\ c.len \in Nat
  BY <1>2, <1>4, <1>7, PieceTypes
<1>71. /\ \A b \in Taken : Apart(R, b)
       /\ \A jd \in Classes : \A j \in Slots(jd) : Apart(R, Slot(jd, j))
       /\ \A jd \in HasRest \ {id} : Apart(R, Rest(jd)) /\ Apart(Rest(jd), R)
  BY <1>1, <1>7 DEF NoOverlap, Apart
<1>72. c \notin Taken
  BY <1>2, <1>4, <1>70, <1>71 DEF Apart
<1>73. LostIsLost' /\ Fresh
  BY <1>1, <1>72 DEF IInv, LostIsLost, Fresh, Taken
<1> HIDE DEF c, p, R
<1>8. \A a, b \in Taken' : a # b => Apart(a, b)
  BY <1>4, <1>7, <1>70, <1>71 DEF NoOverlap, Apart
<1>9. \A jd \in Classes : \A j \in Slots(jd)', b \in Taken' : Apart(Slot(jd, j)', b)
  BY <1>4, <1>6, <1>7, <1>70, <1>71 DEF NoOverlap, Apart
<1>10. \A jd, kd \in Classes : \A j \in Slots(jd)', k \in Slots(kd)' :
        <<jd, j>> # <<kd, k>> => Apart(Slot(jd, j)', Slot(kd, k)')
  BY <1>6, <1>7 DEF NoOverlap
<1>11. ASSUME NEW jd \in HasRest'
       PROVE  /\ \A b \in Taken' : Apart(Rest(jd)', b)
              /\ \A kd \in Classes : \A k \in Slots(kd)' : Apart(Rest(jd)', Slot(kd, k)')
              /\ \A kd \in HasRest' \ {jd} : Apart(Rest(jd)', Rest(kd)')
  <2>1. HasRest' \subseteq Classes /\ HasRest \subseteq Classes
    BY DEF HasRest
  <2>2. CASE jd = id
    <3>1. Rest(jd)'.at = R.at + c.len /\ Rest(jd)'.at + Rest(jd)'.len = R.at + R.len /\ Rest(jd)'.len \in Nat
      BY <1>5, <1>11, <2>2
    <3>2. \A b \in Taken' : Apart(Rest(jd)', b)
      BY <1>4, <1>70, <1>71, <3>1 DEF Apart
    <3>3. \A kd \in Classes : \A k \in Slots(kd)' : Apart(Rest(jd)', Slot(kd, k)')
      BY <1>4, <1>6, <1>70, <1>71, <3>1 DEF Apart
    <3>4. \A kd \in HasRest' \ {jd} : Apart(Rest(jd)', Rest(kd)')
      BY <1>4, <1>5, <1>70, <1>71, <2>1, <2>2, <3>1 DEF Apart
    <3> QED BY <3>2, <3>3, <3>4
  <2>3. CASE jd # id
    <3>1. jd \in HasRest \ {id} /\ Rest(jd)' = Rest(jd) /\ jd \in Classes
      BY <1>5, <1>11, <2>1, <2>3
    <3>2. \A b \in Taken' : Apart(Rest(jd)', b)
      BY <1>4, <1>7, <1>70, <1>71, <3>1 DEF Apart, NoOverlap
    <3>3. \A kd \in Classes : \A k \in Slots(kd)' : Apart(Rest(jd)', Slot(kd, k)')
      BY <1>6, <1>7, <3>1 DEF NoOverlap
    <3>4. ASSUME NEW kd \in HasRest' \ {jd} PROVE Apart(Rest(jd)', Rest(kd)')
      <4>1. CASE kd = id
        BY <1>4, <1>5, <1>70, <1>71, <3>1, <4>1 DEF Apart
      <4>2. CASE kd # id
        BY <1>5, <1>7, <3>1, <4>2 DEF NoOverlap
      <4> QED BY <4>1, <4>2
    <3> QED BY <3>2, <3>3, <3>4
  <2> QED BY <2>2, <2>3
<1>12. NoOverlap'
  BY <1>8, <1>9, <1>10, <1>11 DEF NoOverlap, Apart
<1>13. ASSUME NEW e \in Nat, Below(e) PROVE Below(e)'
  <2>1. R.at + R.len <= e
    BY <1>1, <1>13 DEF Below, R
  <2>2. \A b \in Taken' : b.at + b.len <= e
    BY <1>4, <1>13, <1>70, <2>1 DEF Below
  <2>3. \A jd \in Classes : \A j \in Slots(jd)' : slabclass'[jd].slots[j] + Size[jd] <= e
    BY <1>1, <1>13 DEF Below, SameSlots
  <2>4. \A jd \in HasRest' : Rest(jd)'.at + Rest(jd)'.len <= e
    BY <1>5, <1>13, <2>1 DEF Below
  <2> QED BY <2>2, <2>3, <2>4 DEF Below
<1> QED BY <1>1, <1>12, <1>13, <1>73

LEMMA BelowMore ==
  ASSUME TypeOK, NEW e \in Nat, NEW f \in Nat, e <= f, Below(e)
  PROVE  Below(f)
<1>1. \A id \in HasRest : id \in Classes
  BY DEF HasRest
<1>2. \A b \in Taken : b.at + b.len <= f
  BY PieceTypes DEF Below
<1>3. \A id \in Classes : \A i \in Slots(id) : slabclass[id].slots[i] + Size[id] <= f
  BY PieceTypes DEF Below
<1>4. \A id \in HasRest : Rest(id).at + Rest(id).len <= f
  BY <1>1, PieceTypes DEF Below
<1> QED BY <1>2, <1>3, <1>4 DEF Below

\* A new page lies above everything else.
LEMMA AllocNewSlabKeeps ==
  ASSUME IInv, TypeOK', NEW n \in Requests, NEW id \in Classes, AllocNewSlab(n, id)
  PROVE  NoOverlap' /\ RestsExact' /\ LostIsLost' /\ Fresh /\ \A e \in Nat : e >= mem_current + PageLen(id) => Below(e)'
<1> DEFINE c == Chunk(mem_current, n, id)
           len == PageLen(id)
<1>1. /\ id \notin HasRest
      /\ held' = held \cup {c} /\ lost' = lost
      /\ SameSlots /\ OtherRests(id) /\ RestCut(id, mem_current, Perslab[id])
      /\ RestsExact'
  BY AllocNewSlabMoves DEF IInv
<1>2. mem_current \in Nat \ {0} /\ Perslab[id] \in Nat \ {0} /\ Size[id] \in Nat \ {0}
  BY DEF IInv, TypeOK
<1>3. len \in Nat \ {0} /\ (Perslab[id] - 1) * Size[id] = len - Size[id] /\ (Perslab[id] - 1) * Size[id] \in Nat
  BY <1>2, PageLengths
<1>4. c.at = mem_current /\ c.len = Size[id] /\ c.len <= len /\ Taken' = Taken \cup {c}
  BY <1>1, <1>2, <1>3 DEF Chunk, Taken
<1>5. /\ HasRest' \ {id} = HasRest
      /\ \A jd \in HasRest : Rest(jd)' = Rest(jd)
      /\ id \in HasRest' => Rest(id)'.at = mem_current + c.len /\ Rest(id)'.at + Rest(id)'.len = mem_current + len
                            /\ Rest(id)'.len \in Nat
  <2>1. CASE Perslab[id] = 1
    BY <1>1, <2>1 DEF RestCut, OtherRests
  <2>2. CASE Perslab[id] # 1
    <3>1. HasRest' = HasRest \cup {id} /\ slabclass'[id].end_page_ptr = mem_current + Size[id]
          /\ slabclass'[id].end_page_free = Perslab[id] - 1
      BY <1>1, <2>2 DEF RestCut
    <3>2. Rest(id)'.at = mem_current + Size[id] /\ Rest(id)'.len = (Perslab[id] - 1) * Size[id]
      BY <3>1 DEF Rest
    <3>3. Rest(id)'.at = mem_current + c.len /\ Rest(id)'.at + Rest(id)'.len = mem_current + len /\ Rest(id)'.len \in Nat
      <4> HIDE DEF c, len
      <4> QED BY <1>2, <1>3, <1>4, <3>2
    <3> QED BY <1>1, <3>1, <3>3 DEF OtherRests
  <2> QED BY <2>1, <2>2
<1>6. \A jd \in Classes : \A j \in Slots(jd)' :
        j \in Slots(jd) /\ Slot(jd, j)' = Slot(jd, j)
  BY <1>1 DEF SameSlots, Slot
<1>7. NoOverlap /\ TypeOK
  BY DEF IInv
<1>70. /\ \A b \in Taken : b.at \in Nat /\ b.len \in Nat
       /\ \A jd \in Classes : \A j \in Slots(jd) : Slot(jd, j).at \in Nat /\ Slot(jd, j).len \in Nat
       /\ \A jd \in Classes : Rest(jd).at \in Nat /\ Rest(jd).len \in Nat
       /\ c.len \in Nat
  BY <1>2, <1>4, <1>7, PieceTypes
<1>71. /\ \A b \in Taken : b.at + b.len <= mem_current
       /\ \A jd \in Classes : \A j \in Slots(jd) : Slot(jd, j).at + Slot(jd, j).len <= mem_current
       /\ \A jd \in HasRest : Rest(jd).at + Rest(jd).len <= mem_current
  BY DEF IInv, Below, Slot
<1>72. c \notin Taken
  BY <1>2, <1>4, <1>70, <1>71
<1>73. LostIsLost' /\ Fresh
  BY <1>1, <1>72 DEF IInv, LostIsLost, Fresh, Taken
<1> HIDE DEF c, len
<1>8. \A a, b \in Taken' : a # b => Apart(a, b)
  BY <1>4, <1>7, <1>70, <1>71 DEF NoOverlap, Apart
<1>9. \A jd \in Classes : \A j \in Slots(jd)', b \in Taken' : Apart(Slot(jd, j)', b)
  BY <1>4, <1>6, <1>7, <1>70, <1>71 DEF NoOverlap, Apart
<1>10. \A jd, kd \in Classes : \A j \in Slots(jd)', k \in Slots(kd)' :
        <<jd, j>> # <<kd, k>> => Apart(Slot(jd, j)', Slot(kd, k)')
  BY <1>6, <1>7 DEF NoOverlap
<1>11. ASSUME NEW jd \in HasRest'
       PROVE  /\ \A b \in Taken' : Apart(Rest(jd)', b)
              /\ \A kd \in Classes : \A k \in Slots(kd)' : Apart(Rest(jd)', Slot(kd, k)')
              /\ \A kd \in HasRest' \ {jd} : Apart(Rest(jd)', Rest(kd)')
  <2>1. HasRest' \subseteq Classes /\ HasRest \subseteq Classes
    BY DEF HasRest
  <2>2. CASE jd = id
    <3>1. Rest(jd)'.at = mem_current + c.len /\ Rest(jd)'.at + Rest(jd)'.len = mem_current + len
          /\ Rest(jd)'.len \in Nat
      BY <1>5, <1>11, <2>2
    <3>2. \A b \in Taken' : Apart(Rest(jd)', b)
      BY <1>2, <1>4, <1>70, <1>71, <3>1 DEF Apart
    <3>3. \A kd \in Classes : \A k \in Slots(kd)' : Apart(Rest(jd)', Slot(kd, k)')
      BY <1>2, <1>6, <1>70, <1>71, <3>1 DEF Apart
    <3>4. \A kd \in HasRest' \ {jd} : Apart(Rest(jd)', Rest(kd)')
      BY <1>2, <1>5, <1>70, <1>71, <2>1, <2>2, <3>1 DEF Apart
    <3> QED BY <3>2, <3>3, <3>4
  <2>3. CASE jd # id
    <3>1. jd \in HasRest /\ Rest(jd)' = Rest(jd) /\ jd \in Classes
      BY <1>5, <1>11, <2>1, <2>3
    <3>2. \A b \in Taken' : Apart(Rest(jd)', b)
      BY <1>2, <1>4, <1>7, <1>70, <1>71, <3>1 DEF Apart, NoOverlap
    <3>3. \A kd \in Classes : \A k \in Slots(kd)' : Apart(Rest(jd)', Slot(kd, k)')
      BY <1>6, <1>7, <3>1 DEF NoOverlap
    <3>4. ASSUME NEW kd \in HasRest' \ {jd} PROVE Apart(Rest(jd)', Rest(kd)')
      <4>1. CASE kd = id
        BY <1>2, <1>5, <1>70, <1>71, <3>1, <4>1 DEF Apart
      <4>2. CASE kd # id
        BY <1>5, <1>7, <3>1, <4>2 DEF NoOverlap
      <4> QED BY <4>1, <4>2
    <3> QED BY <3>2, <3>3, <3>4
  <2> QED BY <2>2, <2>3
<1>12. NoOverlap'
  BY <1>8, <1>9, <1>10, <1>11 DEF NoOverlap, Apart
<1>13. ASSUME NEW e \in Nat, e >= mem_current + len PROVE Below(e)'
  <2>1. Below(e)
    BY <1>2, <1>3, <1>7, <1>13, BelowMore DEF IInv
  <2>2. \A b \in Taken' : b.at + b.len <= e
    BY <1>2, <1>3, <1>4, <1>13, <1>70, <2>1 DEF Below
  <2>3. \A jd \in Classes : \A j \in Slots(jd)' : slabclass'[jd].slots[j] + Size[jd] <= e
    BY <1>1, <2>1 DEF Below, SameSlots
  <2>4. \A jd \in HasRest' : Rest(jd)'.at + Rest(jd)'.len <= e
    BY <1>2, <1>3, <1>5, <1>13, <2>1 DEF Below
  <2> QED BY <2>2, <2>3, <2>4 DEF Below
<1> QED BY <1>1, <1>12, <1>13, <1>73 DEF len

\* A chunk that is given back becomes a free one, where it is.
LEMMA FreeKeeps ==
  ASSUME IInv, TypeOK', NEW b \in held, Free(b)
  PROVE  NoOverlap' /\ RestsExact' /\ LostIsLost' /\ \A e \in Nat : Below(e) => Below(e)'
<1> DEFINE L == Len(slabclass[b.id].slots) + 1
<1>1. /\ held' = held \ {b} /\ lost' = lost
      /\ SameRests /\ RestsExact'
      /\ \A jd \in Classes : \A j \in Slots(jd)' :
           \/ j \in Slots(jd) /\ slabclass'[jd].slots[j] = slabclass[jd].slots[j]
           \/ j = L /\ jd = b.id /\ slabclass'[jd].slots[j] = b.at
  BY FreeMoves DEF IInv
<1>2. b.len = Size[b.id] /\ b \in Taken /\ b.id \in Classes
  BY PieceTypes DEF IInv, Taken
<1>3. Taken' = Taken \ {b} /\ LostIsLost'
  BY <1>1 DEF IInv, LostIsLost, Taken
<1>4. \A jd \in Classes : \A j \in Slots(jd)' :
        \/ j \in Slots(jd) /\ Slot(jd, j)' = Slot(jd, j)
        \/ j = L /\ jd = b.id /\ Slot(jd, j)'.at = b.at /\ Slot(jd, j)'.len = b.len
  BY <1>1, <1>2 DEF Slot
<1>5. NoOverlap
  BY DEF IInv
<1> HIDE DEF L
<1>6. \A a, d \in Taken' : a # d => Apart(a, d)
  BY <1>3, <1>5 DEF NoOverlap
<1>7. \A jd \in Classes : \A j \in Slots(jd)', d \in Taken' : Apart(Slot(jd, j)', d)
  BY <1>2, <1>3, <1>4, <1>5 DEF NoOverlap, Apart
<1>8. \A jd, kd \in Classes : \A j \in Slots(jd)', k \in Slots(kd)' :
        <<jd, j>> # <<kd, k>> => Apart(Slot(jd, j)', Slot(kd, k)')
  BY <1>2, <1>3, <1>4, <1>5 DEF NoOverlap, Apart
<1>9. \A jd \in HasRest' :
        /\ \A d \in Taken' : Apart(Rest(jd)', d)
        /\ \A kd \in Classes : \A k \in Slots(kd)' : Apart(Rest(jd)', Slot(kd, k)')
        /\ \A kd \in HasRest' \ {jd} : Apart(Rest(jd)', Rest(kd)')
  BY <1>1, <1>2, <1>3, <1>4, <1>5 DEF NoOverlap, Apart, SameRests
<1>10. NoOverlap'
  BY <1>6, <1>7, <1>8, <1>9 DEF NoOverlap, Apart
<1>11. ASSUME NEW e \in Nat, Below(e) PROVE Below(e)'
  <2>1. \A d \in Taken' : d.at + d.len <= e
    BY <1>3, <1>11 DEF Below
  <2>2. \A jd \in Classes : \A j \in Slots(jd)' : slabclass'[jd].slots[j] + Size[jd] <= e
    BY <1>1, <1>2, <1>11 DEF Below
  <2>3. \A jd \in HasRest' : Rest(jd)'.at + Rest(jd)'.len <= e
    BY <1>1, <1>11 DEF Below, SameRests
  <2> QED BY <2>1, <2>2, <2>3 DEF Below
<1> QED BY <1>1, <1>3, <1>10, <1>11

\* Where a step changes no more than who has a chunk, and what for.
LEMMA HolderKeeps ==
  ASSUME IInv, SameSlots, SameRests, NEW b \in Taken, NEW c, c.at = b.at, c.len = b.len,
         Taken' = (Taken \ {b}) \cup {c}
  PROVE  NoOverlap' /\ \A e \in Nat : Below(e) => Below(e)'
<1>1. \A jd \in Classes : \A j \in Slots(jd)' :
        j \in Slots(jd) /\ Slot(jd, j)' = Slot(jd, j) /\ slabclass'[jd].slots[j] = slabclass[jd].slots[j]
  BY DEF SameSlots, Slot
<1>2. NoOverlap
  BY DEF IInv
<1>3. \A a, d \in Taken' : a # d => Apart(a, d)
  BY <1>2 DEF NoOverlap, Apart
<1>4. \A jd \in Classes : \A j \in Slots(jd)', d \in Taken' : Apart(Slot(jd, j)', d)
  BY <1>1, <1>2 DEF NoOverlap, Apart
<1>5. \A jd, kd \in Classes : \A j \in Slots(jd)', k \in Slots(kd)' :
        <<jd, j>> # <<kd, k>> => Apart(Slot(jd, j)', Slot(kd, k)')
  BY <1>1, <1>2 DEF NoOverlap
<1>6. \A jd \in HasRest' :
        /\ \A d \in Taken' : Apart(Rest(jd)', d)
        /\ \A kd \in Classes : \A k \in Slots(kd)' : Apart(Rest(jd)', Slot(kd, k)')
        /\ \A kd \in HasRest' \ {jd} : Apart(Rest(jd)', Rest(kd)')
  BY <1>1, <1>2 DEF NoOverlap, Apart, SameRests
<1>7. NoOverlap'
  BY <1>3, <1>4, <1>5, <1>6 DEF NoOverlap, Apart
<1>8. ASSUME NEW e \in Nat, Below(e) PROVE Below(e)'
  <2>1. \A d \in Taken' : d.at + d.len <= e
    BY <1>8 DEF Below
  <2>2. \A jd \in Classes : \A j \in Slots(jd)' : slabclass'[jd].slots[j] + Size[jd] <= e
    BY <1>1, <1>8 DEF Below
  <2>3. \A jd \in HasRest' : Rest(jd)'.at + Rest(jd)'.len <= e
    BY <1>8 DEF Below, SameRests
  <2> QED BY <2>1, <2>2, <2>3 DEF Below
<1> QED BY <1>7, <1>8

\* With the same memory below the same marks, the invariants about the marks stay.
LEMMA MarksKept ==
  ASSUME IInv, UNCHANGED <<mem_base, mem_current, mem_avail>>, \A e \in Nat : Below(e) => Below(e)'
  PROVE  (Below(mem_current) /\ Below(MemoryEnd) /\ AvailExact)'
<1>1. mem_current \in Nat /\ MemoryEnd \in Nat
  BY DEF IInv, TypeOK, MemoryEnd
<1>2. PICK m1 \in Nat, e1 \in Nat : m1 = mem_current /\ e1 = MemoryEnd
  BY <1>1
<1>3. Below(m1)' /\ Below(e1)'
  BY <1>2 DEF IInv
<1>4. mem_current' = m1 /\ MemoryEnd' = e1
  BY <1>2 DEF MemoryEnd
<1> QED BY <1>3, <1>4 DEF IInv, AvailExact, Below

\* A new page ends below the next one, and inside the large chunk.
LEMMA MarksMoved ==
  ASSUME IInv, TypeOK', NEW id \in Classes, memory_allocate(id), mem_base' = mem_base,
         \A e \in Nat : e >= mem_current + PageLen(id) => Below(e)'
  PROVE  (Below(mem_current) /\ Below(MemoryEnd) /\ AvailExact)'
<1> DEFINE len == PageLen(id)
           up == Aligned(len)
<1>1. len \in Nat \ {0} /\ up \in Nat /\ up >= len
  BY PageLengths, RoundsUp
<1>2. mem_current \in Nat /\ mem_avail \in Nat /\ Align \in Nat /\ mem_limit \in Nat
  BY DEF IInv, TypeOK
<1>3. /\ mem_base => len <= mem_avail
      /\ mem_current' = mem_current + up
      /\ mem_base => mem_avail' = IF up < mem_avail THEN mem_avail - up ELSE 0
  BY DEF memory_allocate, MemoryFor
<1> HIDE DEF len, up
<1>4. mem_base => mem_current + mem_avail = Align + mem_limit
  BY <1>1, <1>2, <1>3 DEF IInv, AvailExact
<1>5. AvailExact'
  BY <1>1, <1>2, <1>3, <1>4 DEF AvailExact
<1>6. PICK m1 \in Nat : m1 = mem_current + up
  BY <1>1, <1>2
<1>7. Below(m1)' /\ mem_current' = m1
  BY <1>1, <1>2, <1>3, <1>6 DEF len
<1>8. PICK e1 \in Nat : e1 = IF mem_base THEN Align + mem_limit ELSE m1
  BY <1>2, <1>6
<1>9. e1 >= mem_current + len
  BY <1>1, <1>2, <1>3, <1>4, <1>6, <1>8
<1>10. Below(e1)' /\ MemoryEnd' = e1
  BY <1>7, <1>8, <1>9 DEF MemoryEnd, len
<1> QED BY <1>5, <1>7, <1>10 DEF Below

LEMMA InitIInv == Init => IInv
<1> SUFFICES ASSUME Init PROVE IInv
  OBVIOUS
<1>1. TypeOK
  BY InitTypeOK
<1>2. /\ \A id \in Classes : slabclass[id].end_page_ptr = 0 /\ slabclass[id].end_page_free = 0
                             /\ slabclass[id].slots = <<>>
      /\ Taken = {}
  BY DEF Init, EmptyClass, Taken
<1>3. HasRest = {} /\ \A id \in Classes : Slots(id) = {}
  BY <1>2 DEF HasRest, Slots
<1>4. NoOverlap /\ Below(mem_current) /\ Below(MemoryEnd)
  BY <1>2, <1>3 DEF NoOverlap, Below
<1>5. RestsExact /\ AvailExact /\ LostIsLost
  BY <1>2 DEF Init, RestsExact, AvailExact, LostIsLost
<1> QED BY <1>1, <1>4, <1>5 DEF IInv

\* What one step does: the invariant is kept, and the chunks in use change as
\* Chunks lets them.
LEMMA StepKeeps ==
  ASSUME IInv, [Next]_vars
  PROVE  /\ IInv'
         /\ \/ Fresh
            \/ \E b \in held : held' = held \ {b}
            \/ \E b \in held, n \in Requests : n <= b.len /\ held' = (held \ {b}) \cup {[b EXCEPT !.n = n]}
            \/ UNCHANGED held
<1>0. TypeOK' /\ TypeOK /\ RestsExact /\ LostIsLost
  BY NextTypeOK DEF IInv
<1>1. ASSUME NEW n \in Requests, NEW id \in Classes, AllocSlot(n, id) PROVE IInv' /\ Fresh
  <2>1. NoOverlap' /\ RestsExact' /\ LostIsLost' /\ Fresh /\ \A e \in Nat : Below(e) => Below(e)'
    BY <1>0, <1>1, AllocSlotKeeps
  <2>2. (Below(mem_current) /\ Below(MemoryEnd) /\ AvailExact)'
    BY <1>1, <2>1, MarksKept DEF AllocSlot
  <2> QED BY <1>0, <2>1, <2>2 DEF IInv
<1>2. ASSUME NEW n \in Requests, NEW id \in Classes, AllocEndPage(n, id) PROVE IInv' /\ Fresh
  <2>1. NoOverlap' /\ RestsExact' /\ LostIsLost' /\ Fresh /\ \A e \in Nat : Below(e) => Below(e)'
    BY <1>0, <1>2, AllocEndPageKeeps
  <2>2. (Below(mem_current) /\ Below(MemoryEnd) /\ AvailExact)'
    BY <1>2, <2>1, MarksKept DEF AllocEndPage
  <2> QED BY <1>0, <2>1, <2>2 DEF IInv
<1>3. ASSUME NEW n \in Requests, NEW id \in Classes, AllocNewSlab(n, id) PROVE IInv' /\ Fresh
  <2>1. NoOverlap' /\ RestsExact' /\ LostIsLost' /\ Fresh
        /\ \A e \in Nat : e >= mem_current + PageLen(id) => Below(e)'
    BY <1>0, <1>3, AllocNewSlabKeeps
  <2>2. (Below(mem_current) /\ Below(MemoryEnd) /\ AvailExact)'
    BY <1>0, <1>3, <2>1, MarksMoved DEF AllocNewSlab
  <2> QED BY <1>0, <2>1, <2>2 DEF IInv
<1>4. ASSUME NEW n \in Requests, NEW id \in Classes, AllocFails(n, id) PROVE IInv' /\ UNCHANGED held
  <2>1. SameSlots /\ SameRests /\ RestsExact'
    BY <1>0, <1>4, AllocFailsMoves
  <2>2. UNCHANGED <<mem_base, mem_current, mem_avail, held, lost>> /\ Taken' = Taken
    BY <1>4 DEF AllocFails, Taken
  <2>3. NoOverlap' /\ \A e \in Nat : Below(e) => Below(e)'
    <3>1. CASE Taken = {}
      BY <2>1, <2>2, <3>1 DEF IInv, NoOverlap, Below, SameSlots, SameRests, Slot, Apart
    <3>2. CASE Taken # {}
      <4>1. PICK b \in Taken : Taken' = (Taken \ {b}) \cup {b}
        BY <2>2, <3>2
      <4> QED BY <2>1, <4>1, HolderKeeps
    <3> QED BY <3>1, <3>2
  <2>4. (Below(mem_current) /\ Below(MemoryEnd) /\ AvailExact)'
    BY <2>2, <2>3, MarksKept
  <2> QED BY <1>0, <2>1, <2>2, <2>3, <2>4 DEF IInv, LostIsLost
<1>5. ASSUME NEW b \in held, Free(b) PROVE IInv' /\ held' = held \ {b}
  <2>1. NoOverlap' /\ RestsExact' /\ LostIsLost' /\ \A e \in Nat : Below(e) => Below(e)'
    BY <1>0, <1>5, FreeKeeps
  <2>2. UNCHANGED <<mem_base, mem_current, mem_avail>> /\ held' = held \ {b}
    BY <1>5 DEF Free
  <2>3. (Below(mem_current) /\ Below(MemoryEnd) /\ AvailExact)'
    BY <2>1, <2>2, MarksKept
  <2> QED BY <1>0, <2>1, <2>2, <2>3 DEF IInv
<1>6. ASSUME NEW b \in held, FreeFails(b) PROVE IInv' /\ held' = held \ {b}
  <2>1. /\ UNCHANGED <<slabclass, mem_base, mem_current, mem_avail>>
        /\ held' = held \ {b} /\ lost' = lost \cup {b}
    BY <1>6 DEF FreeFails
  <2>2. b \in Taken /\ Taken' = (Taken \ {b}) \cup {b} /\ LostIsLost'
    BY <1>0, <2>1 DEF Taken, LostIsLost
  <2>3. SameSlots /\ SameRests /\ RestsExact'
    BY <1>0, <2>1 DEF SameSlots, SameRests, RestsExact, Slots, HasRest, Rest
  <2>4. NoOverlap' /\ \A e \in Nat : Below(e) => Below(e)'
    BY <2>2, <2>3, HolderKeeps
  <2>5. (Below(mem_current) /\ Below(MemoryEnd) /\ AvailExact)'
    BY <2>1, <2>4, MarksKept
  <2> QED BY <1>0, <2>1, <2>2, <2>3, <2>4, <2>5 DEF IInv
<1>7. ASSUME NEW b \in held, NEW n \in Requests, Steal(b, n)
      PROVE  IInv' /\ n <= b.len /\ held' = (held \ {b}) \cup {[b EXCEPT !.n = n]}
  <2> DEFINE c == [b EXCEPT !.n = n]
  <2>1. /\ UNCHANGED <<slabclass, mem_base, mem_current, mem_avail, lost>>
        /\ held' = (held \ {b}) \cup {c} /\ n <= Size[b.id]
    BY <1>7 DEF Steal, slabs_clsid
  <2>2. b \in HeldChunk /\ b.len = Size[b.id] /\ b \in Taken /\ b \notin lost /\ b.at \in Nat /\ b.len \in Nat \ {0}
    BY <1>0, PieceTypes DEF TypeOK, Taken, LostIsLost
  <2>3. c.at = b.at /\ c.len = b.len
    BY <2>2 DEF HeldChunk
  <2>4. c \notin lost
    <3>1. ASSUME c \in lost PROVE FALSE
      <4>1. c \in Taken /\ c # b
        BY <2>2, <3>1 DEF Taken
      <4>2. Apart(c, b)
        BY <2>2, <4>1 DEF IInv, NoOverlap
      <4> QED BY <2>2, <2>3, <4>2 DEF Apart
    <3> QED BY <3>1
  <2> HIDE DEF c
  <2>5. Taken' = (Taken \ {b}) \cup {c} /\ LostIsLost'
    BY <1>0, <2>1, <2>2, <2>4 DEF Taken, LostIsLost
  <2>6. SameSlots /\ SameRests /\ RestsExact'
    BY <1>0, <2>1 DEF SameSlots, SameRests, RestsExact, Slots, HasRest, Rest
  <2>7. NoOverlap' /\ \A e \in Nat : Below(e) => Below(e)'
    BY <2>2, <2>3, <2>5, <2>6, HolderKeeps
  <2>8. (Below(mem_current) /\ Below(MemoryEnd) /\ AvailExact)'
    BY <2>1, <2>7, MarksKept
  <2> QED BY <1>0, <2>1, <2>2, <2>5, <2>6, <2>7, <2>8 DEF IInv, c
<1>8. CASE UNCHANGED vars
  BY <1>8 DEF vars, IInv, TypeOK, RestsExact, Below, MemoryEnd, AvailExact, LostIsLost, NoOverlap,
              Taken, Slots, Slot, Rest, HasRest, Apart
<1> QED BY <1>1, <1>2, <1>3, <1>4, <1>5, <1>6, <1>7, <1>8 DEF Next, slabs_alloc, slabs_free

\* TypeOK holds for every table of classes, limit and set of requests.
THEOREM TypeInvariant == Spec => []TypeOK
<1>1. IInv => TypeOK
  BY DEF IInv
<1> QED BY <1>1, InitIInv, StepKeeps, PTL DEF Spec

\* do_slabs_alloc hands out no memory twice: the chunks in use, the free chunks
\* and the rests of the pages never overlap.
THEOREM NothingTwice == Spec => []NoOverlap
<1>1. IInv => NoOverlap
  BY DEF IInv
<1> QED BY <1>1, InitIInv, StepKeeps, PTL DEF Spec

\* Every chunk lies in memory that was allocated, and under -L inside the one
\* large chunk.
THEOREM NothingOutside == Spec => []InsideMemory
<1>1. IInv => InsideMemory
  BY DEF IInv, Below, InsideMemory, Slot
<1> QED BY <1>1, InitIInv, StepKeeps, PTL DEF Spec

\* What its callers rely on: the allocator is a pool of chunks each of which is
\* one holder's from the allocation until it is given back.
THEOREM SlabsImplementChunks == Spec => ImplementsChunks
<1>1. Init => Memory!Init
  BY DEF Init, Memory!Init
<1>2. ASSUME IInv, [Next]_vars PROVE [Memory!Next]_held
  <2>1. TypeOK' /\ NoOverlap'
    BY <1>2, StepKeeps DEF IInv
  <2>2. CASE Fresh
    <3>1. PICK c : c \notin Taken /\ held' = held \cup {c}
      BY <2>2 DEF Fresh
    <3>2. c \in held' \ held /\ c.n <= c.len
      BY <2>1, <3>1 DEF TypeOK, Taken
    <3>3. \A other \in held : Memory!Apart(c, other)
      BY <2>1, <3>1 DEF NoOverlap, Taken, Apart, Memory!Apart
    <3>4. Memory!Alloc
      BY <3>1, <3>2, <3>3 DEF Memory!Alloc
    <3> QED BY <3>4 DEF Memory!Next
  <2>3. CASE \E b \in held : held' = held \ {b}
    BY <2>3 DEF Memory!Next, Memory!Free
  <2>4. CASE \E b \in held, n \in Requests : n <= b.len /\ held' = (held \ {b}) \cup {[b EXCEPT !.n = n]}
    <3>1. PICK b \in held, n \in Requests : n <= b.len /\ held' = (held \ {b}) \cup {[b EXCEPT !.n = n]}
      BY <2>4
    <3> DEFINE c == [b EXCEPT !.n = n]
    <3>2. b \in HeldChunk
      BY <1>2 DEF IInv, TypeOK
    <3>3. c.at = b.at /\ c.len = b.len /\ c.n = n
      BY <3>2 DEF HeldChunk
    <3> QED BY <3>1, <3>3 DEF Memory!Next, Memory!Reuse
  <2>5. CASE UNCHANGED held
    BY <2>5
  <2> QED BY <1>2, <2>2, <2>3, <2>4, <2>5, StepKeeps
<1> QED BY <1>1, <1>2, InitIInv, StepKeeps, PTL DEF Spec, ImplementsChunks, Memory!Spec

-------------------------------------------------------------------------------
(* No chunk is lost *)

\* The chunks of class id in T.
Of(T, id) == {b \in T : b.id = id}

InClass(id) == Cardinality(Of(Taken, id))

\* U is T with one more, c.
More(T, U, c) == c \notin T /\ U = T \cup {c}

\* U has one chunk of class kd more than T, and as many of the others.
OneUp(T, U, kd) ==
  \A id \in Classes : /\ Cardinality(Of(T, id)) \in Nat
                      /\ id = kd => Cardinality(Of(U, id)) = Cardinality(Of(T, id)) + 1
                      /\ id # kd => Cardinality(Of(U, id)) = Cardinality(Of(T, id))

LEMMA OneMore ==
  ASSUME NEW T, NEW U, NEW c, IsFiniteSet(T), More(T, U, c)
  PROVE  IsFiniteSet(U) /\ OneUp(T, U, c.id)
<1>1. c \notin T /\ U = T \cup {c}
  BY DEF More
<1>2. IsFiniteSet(U)
  BY <1>1, FS_AddElement
<1>3. ASSUME NEW id \in Classes
      PROVE  /\ Cardinality(Of(T, id)) \in Nat
             /\ id = c.id => Cardinality(Of(U, id)) = Cardinality(Of(T, id)) + 1
             /\ id # c.id => Cardinality(Of(U, id)) = Cardinality(Of(T, id))
  <2> DEFINE A == Of(T, id)
             B == Of(U, id)
  <2>1. A \subseteq T /\ c \notin A
    BY <1>1 DEF Of
  <2>2. (id = c.id => B = A \cup {c}) /\ (id # c.id => B = A)
    BY <1>1 DEF Of
  <2> HIDE DEF A, B
  <2>3. IsFiniteSet(A) /\ Cardinality(A) \in Nat
    BY <2>1, FS_Subset, FS_CardinalityType
  <2>4. Cardinality(A \cup {c}) = Cardinality(A) + 1
    BY <2>1, <2>3, FS_AddElement
  <2> QED BY <2>2, <2>3, <2>4 DEF A, B
<1> QED BY <1>2, <1>3 DEF OneUp

LEMMA OneLess ==
  ASSUME NEW T, NEW U, NEW b, IsFiniteSet(T), More(U, T, b)
  PROVE  IsFiniteSet(U) /\ OneUp(U, T, b.id)
<1>1. U \subseteq T
  BY DEF More
<1>2. IsFiniteSet(U)
  BY <1>1, FS_Subset
<1> QED BY <1>2, OneMore

\* The pages of every class are accounted for, and all arrays are long enough.
Accounted ==
  /\ IsFiniteSet(Taken)
  /\ \A id \in Classes :
       slabclass[id].slabs * Perslab[id]
         = Len(slabclass[id].slots) + slabclass[id].end_page_free + InClass(id)
  /\ ArraysLongEnough

\* A chunk handed out is the one more that Fresh speaks of.
LEMMA FreshCounts ==
  ASSUME Fresh, lost' = lost, IsFiniteSet(Taken), NEW c, held' = held \cup {c}
  PROVE  IsFiniteSet(Taken') /\ OneUp(Taken, Taken', c.id)
<1>1. PICK d : d \notin Taken /\ held' = held \cup {d}
  BY DEF Fresh
<1>2. d = c
  BY <1>1 DEF Taken
<1>3. More(Taken, Taken', c)
  BY <1>1, <1>2 DEF Taken, More
<1>4. PICK T, U : T = Taken /\ U = Taken'
  OBVIOUS
<1>5. IsFiniteSet(U) /\ OneUp(T, U, c.id)
  BY <1>3, <1>4, OneMore
<1> QED BY <1>4, <1>5

\* The numbers in the record of a class.
LEMMA GrownEnough ==
  ASSUME NEW length \in Nat, NEW used \in Nat, used <= length
  PROVE  Grown(length, used) \in Nat /\ used + 1 <= Grown(length, used) /\ used <= Grown(length, used)
BY DEF Grown

LEMMA InClassCounts ==
  ASSUME NEW kd \in Classes, OneUp(Taken, Taken', kd)
  PROVE  /\ InClass(kd) \in Nat /\ InClass(kd)' = InClass(kd) + 1
         /\ \A jd \in Classes : jd # kd => InClass(jd)' = InClass(jd)
BY DEF OneUp, InClass

\* A step that changes the record and the chunks of one class.
LEMMA AccountedOn ==
  ASSUME Accounted, IsFiniteSet(Taken'), NEW id \in Classes,
         \A jd \in Classes \ {id} : slabclass'[jd] = slabclass[jd],
         \A jd \in Classes : jd # id => InClass(jd)' = InClass(jd),
         NEW q, slabclass'[id] = q,
         q.slabs * Perslab[id] = Len(q.slots) + q.end_page_free + InClass(id)',
         Len(q.slots) <= q.sl_total, q.slabs <= q.list_size
  PROVE  Accounted'
BY DEF Accounted, ArraysLongEnough

\* The numbers in the record of a class.
LEMMA Numbers ==
  ASSUME TypeOK, Accounted, NEW id \in Classes
  PROVE  LET p == slabclass[id] IN
         /\ p \in SlabClass /\ p.slots \in Seq(Nat \ {0}) /\ Len(p.slots) \in Nat
         /\ p.slabs \in Nat /\ p.list_size \in Nat /\ p.sl_total \in Nat /\ p.end_page_free \in Nat
         /\ p.slabs * Perslab[id] = Len(p.slots) + p.end_page_free + InClass(id)
         /\ Len(p.slots) <= p.sl_total /\ p.slabs <= p.list_size
BY ClassHasType DEF Accounted, ArraysLongEnough

LEMMA AllocSlotAccounts ==
  ASSUME IInv, TypeOK', Accounted, NEW n \in Requests, NEW id \in Classes, AllocSlot(n, id)
  PROVE  Accounted'
<1> DEFINE p == slabclass[id]
           L == Len(p.slots)
           t == SubSeq(p.slots, 1, L - 1)
           q == slabclass'[id]
<1>0. TypeOK
  BY DEF IInv
<1>1. /\ p \in SlabClass /\ p.slots \in Seq(Nat \ {0}) /\ L \in Nat
      /\ p.slabs \in Nat /\ p.list_size \in Nat /\ p.sl_total \in Nat /\ p.end_page_free \in Nat
      /\ p.slabs * Perslab[id] = L + p.end_page_free + InClass(id)
      /\ L <= p.sl_total /\ p.slabs <= p.list_size
  BY <1>0, Numbers
<1>2. /\ lost' = lost /\ p.slots # <<>> /\ held' = held \cup {Chunk(p.slots[L], n, id)}
      /\ q = [p EXCEPT !.slots = t, !.requested = @ + n]
      /\ \A jd \in Classes \ {id} : slabclass'[jd] = slabclass[jd]
  BY <1>0 DEF AllocSlot, SetClass, FromSlots, Hold, TypeOK
<1>3. L # 0 /\ Len(t) = L - 1
  <2>1. L \in Nat \ {0}
    BY <1>0, <1>1, AllocSlotMoves, ClassHasType
  <2>2. PICK z \in Seq(Nat \ {0}) : z = p.slots
    BY <1>1
  <2>3. Len(z) \in Nat \ {0} /\ L = Len(z) /\ t = SubSeq(z, 1, Len(z) - 1)
    BY <2>1, <2>2
  <2>4. Len(SubSeq(z, 1, Len(z) - 1)) = Len(z) - 1
    BY ONLY <2>2, <2>3
  <2> QED BY ONLY <2>3, <2>4
<1>4. IsFiniteSet(Taken') /\ OneUp(Taken, Taken', id)
  <2> DEFINE c == Chunk(p.slots[L], n, id)
  <2>1. c.id = id
    BY DEF Chunk
  <2>2. Fresh
    BY <1>0, AllocSlotKeeps
  <2>3. IsFiniteSet(Taken) /\ held' = held \cup {c}
    BY <1>2 DEF Accounted
  <2> HIDE DEF c
  <2> QED BY <1>2, <2>1, <2>2, <2>3, FreshCounts
<1>5. /\ InClass(id) \in Nat /\ InClass(id)' = InClass(id) + 1
      /\ \A jd \in Classes : jd # id => InClass(jd)' = InClass(jd)
  BY <1>4, InClassCounts
<1>6. /\ q.slots = t /\ q.slabs = p.slabs /\ q.list_size = p.list_size /\ q.sl_total = p.sl_total
      /\ q.end_page_free = p.end_page_free
  BY <1>1, <1>2 DEF SlabClass
<1> HIDE DEF p, L, t
<1>7. q.slabs * Perslab[id] = Len(q.slots) + q.end_page_free + InClass(id)'
  BY ONLY <1>1, <1>3, <1>5, <1>6
<1>8. Len(q.slots) <= q.sl_total /\ q.slabs <= q.list_size
  BY ONLY <1>1, <1>3, <1>6
<1> HIDE DEF q
<1> QED BY <1>2, <1>4, <1>5, <1>7, <1>8, AccountedOn DEF q, p

LEMMA AllocEndPageAccounts ==
  ASSUME IInv, TypeOK', Accounted, NEW n \in Requests, NEW id \in Classes, AllocEndPage(n, id)
  PROVE  Accounted'
<1> DEFINE p == slabclass[id]
           q == slabclass'[id]
           c == Chunk(p.end_page_ptr, n, id)
<1>0. TypeOK /\ RestsExact
  BY DEF IInv
<1>1. /\ p \in SlabClass /\ Len(p.slots) \in Nat
      /\ p.slabs \in Nat /\ p.list_size \in Nat /\ p.sl_total \in Nat /\ p.end_page_free \in Nat
      /\ p.slabs * Perslab[id] = Len(p.slots) + p.end_page_free + InClass(id)
      /\ Len(p.slots) <= p.sl_total /\ p.slabs <= p.list_size
  BY <1>0, Numbers
<1>2. /\ q = FromPage(p, id, n) /\ \A jd \in Classes \ {id} : slabclass'[jd] = slabclass[jd]
      /\ lost' = lost /\ held' = held \cup {c}
  BY <1>0 DEF AllocEndPage, SetClass, Hold, TypeOK
<1>3. c.id = id /\ Fresh /\ IsFiniteSet(Taken)
  BY <1>0, AllocEndPageKeeps DEF Chunk, Accounted
<1>4. /\ q.slots = p.slots /\ q.slabs = p.slabs /\ q.list_size = p.list_size /\ q.sl_total = p.sl_total
      /\ q.end_page_free = p.end_page_free - 1
  BY <1>1, <1>2 DEF FromPage, SlabClass
<1> HIDE DEF p, c
<1>5. IsFiniteSet(Taken') /\ OneUp(Taken, Taken', id)
  BY <1>2, <1>3, FreshCounts
<1>6. /\ InClass(id) \in Nat /\ InClass(id)' = InClass(id) + 1
      /\ \A jd \in Classes : jd # id => InClass(jd)' = InClass(jd)
  BY <1>5, InClassCounts
<1>7. q.slabs * Perslab[id] = Len(q.slots) + q.end_page_free + InClass(id)'
  <2> DEFINE m == p.slabs * Perslab[id]
             k == Len(p.slots)
             e == p.end_page_free
             i == InClass(id)
             j == InClass(id)'
  <2>1. q.slabs * Perslab[id] = m /\ Len(q.slots) = k /\ q.end_page_free = e - 1
    BY <1>4
  <2>2. m = k + e + i /\ k \in Nat /\ e \in Nat /\ i \in Nat /\ j = i + 1
    BY <1>1, <1>6
  <2> HIDE DEF m, k, e, i, j
  <2>3. m = k + (e - 1) + j
    BY ONLY <2>2
  <2> QED BY <2>1, <2>3 DEF j
<1>8. Len(q.slots) <= q.sl_total /\ q.slabs <= q.list_size
  BY ONLY <1>1, <1>4
<1> HIDE DEF q
<1> QED BY <1>2, <1>5, <1>6, <1>7, <1>8, AccountedOn DEF q

LEMMA AllocNewSlabAccounts ==
  ASSUME IInv, TypeOK', Accounted, NEW n \in Requests, NEW id \in Classes, AllocNewSlab(n, id)
  PROVE  Accounted'
<1> DEFINE p == slabclass[id]
           q == slabclass'[id]
           c == Chunk(mem_current, n, id)
           g == NewSlab(p, id)
           l == Grown(p.list_size, p.slabs)
<1>0. TypeOK /\ RestsExact
  BY DEF IInv
<1>1. /\ p \in SlabClass /\ Len(p.slots) \in Nat
      /\ p.slabs \in Nat /\ p.list_size \in Nat /\ p.sl_total \in Nat
      /\ p.slabs * Perslab[id] = Len(p.slots) + p.end_page_free + InClass(id)
      /\ Len(p.slots) <= p.sl_total /\ p.slabs <= p.list_size
  BY <1>0, Numbers
<1>2. /\ q = FromPage(g, id, n) /\ \A jd \in Classes \ {id} : slabclass'[jd] = slabclass[jd]
      /\ lost' = lost /\ held' = held \cup {c} /\ p.end_page_free = 0
  BY <1>0 DEF AllocNewSlab, SetClass, Hold, TypeOK, RestsExact
<1>3. c.id = id /\ Fresh /\ IsFiniteSet(Taken)
  BY <1>0, AllocNewSlabKeeps DEF Chunk, Accounted
<1>4. l \in Nat /\ p.slabs + 1 <= l
  <2>1. PICK length \in Nat, used \in Nat : length = p.list_size /\ used = p.slabs
    BY <1>1
  <2>2. used <= length
    BY <1>1, <2>1
  <2> QED BY ONLY <2>1, <2>2, GrownEnough
<1>5. /\ g.slots = p.slots /\ g.slabs = p.slabs + 1 /\ g.list_size = l /\ g.sl_total = p.sl_total
      /\ g.end_page_free = Perslab[id]
      /\ q.slots = g.slots /\ q.slabs = g.slabs /\ q.list_size = g.list_size /\ q.sl_total = g.sl_total
      /\ q.end_page_free = g.end_page_free - 1
  <2> HIDE DEF l
  <2>1. g = [p EXCEPT !.list_size = l, !.slabs = @ + 1, !.end_page_ptr = mem_current, !.end_page_free = Perslab[id]]
    BY DEF NewSlab, l
  <2> HIDE DEF g
  <2>2. /\ g.slots = p.slots /\ g.slabs = p.slabs + 1 /\ g.list_size = l /\ g.sl_total = p.sl_total
        /\ g.end_page_free = Perslab[id]
    BY <1>1, <2>1 DEF SlabClass
  <2>3. /\ q.slots = g.slots /\ q.slabs = g.slabs /\ q.list_size = g.list_size /\ q.sl_total = g.sl_total
        /\ q.end_page_free = g.end_page_free - 1
    BY <1>1, <1>2, <2>1 DEF FromPage, SlabClass
  <2> QED BY <2>2, <2>3
<1> HIDE DEF p, c, g, l
<1>6. IsFiniteSet(Taken') /\ OneUp(Taken, Taken', id)
  BY <1>2, <1>3, FreshCounts
<1>7. /\ InClass(id) \in Nat /\ InClass(id)' = InClass(id) + 1
      /\ \A jd \in Classes : jd # id => InClass(jd)' = InClass(jd)
  BY <1>6, InClassCounts
<1>8. Perslab[id] \in Nat /\ (p.slabs + 1) * Perslab[id] = p.slabs * Perslab[id] + Perslab[id]
      /\ p.slabs * Perslab[id] \in Nat
  <2>1. Perslab[id] \in Nat
    OBVIOUS
  <2> QED BY ONLY <1>1, <2>1
<1>9. q.slabs * Perslab[id] = Len(q.slots) + q.end_page_free + InClass(id)'
  <2> DEFINE m == p.slabs * Perslab[id]
             k == Len(p.slots)
             e == Perslab[id]
             i == InClass(id)
             j == InClass(id)'
  <2>1. q.slabs * Perslab[id] = m + e /\ Len(q.slots) = k /\ q.end_page_free = e - 1
    BY <1>5, <1>8
  <2>2. m = k + i /\ k \in Nat /\ e \in Nat /\ i \in Nat /\ j = i + 1
    BY <1>1, <1>2, <1>7, <1>8
  <2> HIDE DEF m, k, e, i, j
  <2>3. m + e = k + (e - 1) + j
    BY ONLY <2>2
  <2> QED BY <2>1, <2>3 DEF j
<1>10. Len(q.slots) <= q.sl_total /\ q.slabs <= q.list_size
  BY ONLY <1>1, <1>4, <1>5
<1> HIDE DEF q
<1> QED BY <1>2, <1>6, <1>7, <1>9, <1>10, AccountedOn DEF q

LEMMA AllocFailsAccounts ==
  ASSUME IInv, Accounted, NEW n \in Requests, NEW id \in Classes, AllocFails(n, id)
  PROVE  Accounted'
<1> DEFINE p == slabclass[id]
           q == slabclass'[id]
           l == Grown(p.list_size, p.slabs)
<1>0. TypeOK
  BY DEF IInv
<1>1. /\ p \in SlabClass /\ Len(p.slots) \in Nat
      /\ p.slabs \in Nat /\ p.list_size \in Nat /\ p.sl_total \in Nat
      /\ p.slabs * Perslab[id] = Len(p.slots) + p.end_page_free + InClass(id)
      /\ Len(p.slots) <= p.sl_total /\ p.slabs <= p.list_size
  BY <1>0, Numbers
<1>2. l \in Nat /\ p.slabs <= l
  <2>1. PICK length \in Nat, used \in Nat : length = p.list_size /\ used = p.slabs
    BY <1>1
  <2>2. used <= length
    BY <1>1, <2>1
  <2> QED BY ONLY <2>1, <2>2, GrownEnough
<1>3. /\ q = [p EXCEPT !.list_size = l] /\ \A jd \in Classes \ {id} : slabclass'[jd] = slabclass[jd]
      /\ Taken' = Taken
  BY <1>0 DEF AllocFails, SetClass, TypeOK, Taken
<1> HIDE DEF l
<1>4. /\ q.slots = p.slots /\ q.slabs = p.slabs /\ q.list_size = l /\ q.sl_total = p.sl_total
      /\ q.end_page_free = p.end_page_free
  BY <1>1, <1>3 DEF SlabClass
<1>5. IsFiniteSet(Taken') /\ \A jd \in Classes : InClass(jd)' = InClass(jd)
  BY <1>3 DEF Accounted, InClass
<1> HIDE DEF p
<1>6. q.slabs * Perslab[id] = Len(q.slots) + q.end_page_free + InClass(id)'
  BY ONLY <1>1, <1>4, <1>5, id \in Classes
<1>7. Len(q.slots) <= q.sl_total /\ q.slabs <= q.list_size
  BY ONLY <1>1, <1>2, <1>4
<1> HIDE DEF q
<1> QED BY <1>3, <1>5, <1>6, <1>7, AccountedOn DEF q

LEMMA FreeAccounts ==
  ASSUME IInv, Accounted, NEW b \in held, Free(b)
  PROVE  Accounted'
<1> DEFINE id == b.id
           p == slabclass[id]
           q == slabclass'[id]
           l == Grown(p.sl_total, Len(p.slots))
           t == Append(p.slots, b.at)
<1>0. TypeOK /\ b \notin lost /\ b \in HeldChunk
  BY DEF IInv, LostIsLost, TypeOK
<1>1. id \in Classes
  BY <1>0 DEF HeldChunk
<1>2. /\ p \in SlabClass /\ p.slots \in Seq(Nat \ {0}) /\ Len(p.slots) \in Nat
      /\ p.slabs \in Nat /\ p.list_size \in Nat /\ p.sl_total \in Nat /\ p.end_page_free \in Nat
      /\ p.slabs * Perslab[id] = Len(p.slots) + p.end_page_free + InClass(id)
      /\ Len(p.slots) <= p.sl_total /\ p.slabs <= p.list_size
  <2> HIDE DEF id
  <2> QED BY <1>0, <1>1, Numbers
<1>3. l \in Nat /\ Len(p.slots) + 1 <= l
  <2>1. PICK length \in Nat, used \in Nat : length = p.sl_total /\ used = Len(p.slots)
    BY <1>2
  <2>2. used <= length
    BY <1>2, <2>1
  <2> QED BY ONLY <2>1, <2>2, GrownEnough
<1>4. /\ q = [p EXCEPT !.sl_total = l, !.slots = t, !.requested = @ - b.n]
      /\ \A jd \in Classes \ {id} : slabclass'[jd] = slabclass[jd]
  BY <1>0, <1>1 DEF Free, SetClass, TypeOK
<1>5. Len(t) = Len(p.slots) + 1
  BY <1>2
<1> HIDE DEF l, t
<1>6. /\ q.slots = t /\ q.slabs = p.slabs /\ q.list_size = p.list_size /\ q.sl_total = l
      /\ q.end_page_free = p.end_page_free
  BY <1>2, <1>4 DEF SlabClass
<1>7. IsFiniteSet(Taken') /\ OneUp(Taken', Taken, id)
  <2>1. More(Taken', Taken, b) /\ IsFiniteSet(Taken)
    BY <1>0 DEF Free, Taken, More, Accounted
  <2>2. PICK T, U : T = Taken /\ U = Taken'
    OBVIOUS
  <2>3. IsFiniteSet(U) /\ OneUp(U, T, b.id)
    BY <2>1, <2>2, OneLess
  <2> QED BY <2>2, <2>3
<1> HIDE DEF id, p
<1>8. /\ InClass(id)' \in Nat /\ InClass(id) = InClass(id)' + 1
      /\ \A jd \in Classes : jd # id => InClass(jd)' = InClass(jd)
  BY <1>1, <1>7 DEF OneUp, InClass
<1>9. q.slabs * Perslab[id] = Len(q.slots) + q.end_page_free + InClass(id)'
  <2> DEFINE m == p.slabs * Perslab[id]
             k == Len(p.slots)
             e == p.end_page_free
             i == InClass(id)
             j == InClass(id)'
  <2>1. q.slabs * Perslab[id] = m /\ Len(q.slots) = k + 1 /\ q.end_page_free = e
    BY <1>5, <1>6
  <2>2. m = k + e + i /\ k \in Nat /\ e \in Nat /\ j \in Nat /\ i = j + 1
    BY <1>2, <1>8
  <2> HIDE DEF m, k, e, i, j
  <2>3. m = (k + 1) + e + j
    BY ONLY <2>2
  <2> QED BY <2>1, <2>3 DEF j
<1>10. Len(q.slots) <= q.sl_total /\ q.slabs <= q.list_size
  BY ONLY <1>2, <1>3, <1>5, <1>6
<1> HIDE DEF q
<1> QED BY <1>1, <1>4, <1>7, <1>8, <1>9, <1>10, AccountedOn DEF q

LEMMA FreeFailsAccounts ==
  ASSUME IInv, Accounted, NEW b \in held, FreeFails(b)
  PROVE  Accounted'
<1>1. slabclass' = slabclass /\ Taken' = Taken
  BY DEF FreeFails, Taken
<1> QED BY <1>1 DEF Accounted, InClass, ArraysLongEnough

\* The new item has the chunk of the old one, in the same class.
LEMMA StealAccounts ==
  ASSUME IInv, Accounted, NEW b \in held, NEW n \in Requests, Steal(b, n)
  PROVE  Accounted'
<1> DEFINE c == [b EXCEPT !.n = n]
           V == Taken \ {b}
<1>0. TypeOK /\ NoOverlap /\ LostIsLost
  BY DEF IInv
<1>1. /\ b \in HeldChunk /\ b \in Taken /\ b \notin lost /\ n \in Nat
      /\ held' = (held \ {b}) \cup {c} /\ lost' = lost /\ slabclass' = slabclass
  BY <1>0 DEF TypeOK, LostIsLost, Taken, Steal
<1>2. c.at = b.at /\ c.len = b.len /\ c.id = b.id /\ b.at \in Nat /\ b.len \in Nat \ {0} /\ b.id \in Classes
  BY <1>1 DEF HeldChunk
<1>3. c \notin V
  <2>1. ~ Apart(b, c)
    BY <1>2 DEF Apart
  <2> HIDE DEF c
  <2> QED BY <1>0, <1>1, <2>1 DEF NoOverlap
<1>4. Taken' = V \cup {c}
  BY <1>1 DEF Taken
<1> HIDE DEF c
<1>5. IsFiniteSet(Taken) /\ More(V, Taken, b) /\ More(V, Taken', c)
  BY <1>1, <1>3, <1>4 DEF More, Accounted
<1>6. PICK W, T, U : W = V /\ T = Taken /\ U = Taken'
  OBVIOUS
<1>7. IsFiniteSet(W) /\ OneUp(W, T, b.id)
  BY <1>5, <1>6, OneLess
<1>8. IsFiniteSet(U) /\ OneUp(W, U, b.id)
  BY <1>2, <1>5, <1>6, <1>7, OneMore
<1>9. \A id \in Classes : Cardinality(Of(U, id)) = Cardinality(Of(T, id))
  BY <1>7, <1>8 DEF OneUp
<1>10. \A id \in Classes : InClass(id)' = InClass(id)
  BY <1>6, <1>9 DEF InClass
<1> QED BY <1>1, <1>6, <1>8, <1>10 DEF Accounted, ArraysLongEnough

LEMMA InitAccounted == Init => Accounted
<1> SUFFICES ASSUME Init PROVE Accounted
  OBVIOUS
<1>1. Taken = {} /\ slabclass = [id \in Classes |-> EmptyClass]
  BY DEF Init, Taken
<1>2. IsFiniteSet(Taken)
  BY <1>1, FS_EmptySet
<1>3. ASSUME NEW id \in Classes PROVE InClass(id) = 0
  <2>1. Of(Taken, id) = {}
    BY <1>1 DEF Of
  <2> QED BY <2>1, FS_EmptySet DEF InClass
<1>4. ASSUME NEW id \in Classes
      PROVE  /\ slabclass[id].slabs = 0 /\ slabclass[id].slots = <<>> /\ slabclass[id].end_page_free = 0
             /\ slabclass[id].sl_total = 0 /\ slabclass[id].list_size = 0
             /\ slabclass[id].slabs * Perslab[id] = 0
  <2>1. Perslab[id] \in Nat
    OBVIOUS
  <2> QED BY <1>1, <2>1 DEF EmptyClass
<1>5. Len(<<>>) = 0
  OBVIOUS
<1> QED BY <1>2, <1>3, <1>4, <1>5 DEF Accounted, ArraysLongEnough

LEMMA StepAccounts == ASSUME IInv, Accounted, [Next]_vars PROVE Accounted'
<1>0. TypeOK'
  BY NextTypeOK DEF IInv
<1>1. ASSUME NEW n \in Requests, NEW id \in Classes,
             AllocSlot(n, id) \/ AllocEndPage(n, id) \/ AllocNewSlab(n, id) \/ AllocFails(n, id)
      PROVE  Accounted'
  BY <1>0, <1>1, AllocSlotAccounts, AllocEndPageAccounts, AllocNewSlabAccounts, AllocFailsAccounts
<1>2. ASSUME NEW b \in held, Free(b) \/ FreeFails(b) PROVE Accounted'
  BY <1>2, FreeAccounts, FreeFailsAccounts
<1>3. ASSUME NEW b \in held, NEW n \in Requests, Steal(b, n) PROVE Accounted'
  BY <1>3, StealAccounts
<1>4. ASSUME UNCHANGED vars PROVE Accounted'
  <2>1. slabclass' = slabclass /\ Taken' = Taken
    BY <1>4 DEF vars, Taken
  <2> QED BY <2>1 DEF Accounted, InClass, ArraysLongEnough
<1> QED BY <1>1, <1>2, <1>3, <1>4 DEF Next, slabs_alloc, slabs_free

\* do_slabs_alloc and do_slabs_free lose no chunk but the ones a failed realloc
\* loses: the chunks of a class's pages are in use, free, not yet cut or lost.
THEOREM NoChunkForgotten == Spec => []ChunksConserved
<1>1. Accounted => ChunksConserved
  BY DEF Accounted, ChunksConserved, InClass, Of
<1> QED BY <1>1, InitIInv, StepKeeps, InitAccounted, StepAccounts, PTL DEF Spec

\* slots and slab_list never hold more than their arrays have room for, also
\* when a realloc, or the malloc of the page it was grown for, fails.
THEOREM NoArrayOverrun == Spec => []ArraysLongEnough
<1>1. Accounted => ArraysLongEnough
  BY DEF Accounted
<1> QED BY <1>1, InitIInv, StepKeeps, InitAccounted, StepAccounts, PTL DEF Spec
-------------------------------------------------------------------------------
(* Sums *)

\* A set of natural numbers that has 0, and the next of each it has, has all.
LEMMA FromZero ==
  ASSUME NEW B, 0 \in B, \A n \in Nat : n \in B => n + 1 \in B
  PROVE  \A n \in Nat : n \in B
<1> DEFINE R == {p \in Nat \X Nat : p[1] < p[2]}
<1>1. OpToRel(<, Nat) = R
  BY DEF OpToRel
<1>2. IsWellFoundedOn(R, Nat)
  BY <1>1, NatLessThanWellFounded
<1> SUFFICES ASSUME Nat \ B # {} PROVE FALSE
  OBVIOUS
<1>3. PICK x \in Nat \ B : \A y \in Nat \ B : ~ (<<y, x>> \in R)
  <2> HIDE DEF R
  <2> QED BY <1>2, WFMin
<1> DEFINE y == x - 1
<1>4. y \in Nat /\ y < x /\ y + 1 = x
  BY <1>3
<1> HIDE DEF y
<1>5. y \in Nat \ B
  BY <1>3, <1>4
<1>6. <<y, x>> \in Nat \X Nat /\ <<y, x>>[1] = y /\ <<y, x>>[2] = x
  BY <1>4
<1>7. <<y, x>> \in R
  BY <1>4, <1>6
<1> QED BY <1>3, <1>5, <1>7

\* What holds of a set when it holds of all it leaves without one of its elements
\* holds of all subsets of a finite set.
LEMMA FromEmpty ==
  ASSUME NEW D, IsFiniteSet(D), NEW B,
         \A s \in SUBSET D : (\A x \in s : s \ {x} \in B) => s \in B
  PROVE  SUBSET D \subseteq B
<1> DEFINE C == {n \in Nat : \A s \in SUBSET D : Cardinality(s) = n => s \in B}
<1>1. \A s \in SUBSET D : IsFiniteSet(s) /\ Cardinality(s) \in Nat
  BY FS_Subset, FS_CardinalityType
<1>2. 0 \in C
  <2>1. ASSUME NEW s \in SUBSET D, Cardinality(s) = 0 PROVE s \in B
    BY <2>1, <1>1, FS_EmptySet
  <2> QED BY <2>1
<1>3. ASSUME NEW n \in Nat, n \in C PROVE n + 1 \in C
  <2>1. ASSUME NEW s \in SUBSET D, Cardinality(s) = n + 1 PROVE s \in B
    <3>1. ASSUME NEW x \in s PROVE s \ {x} \in B
      <4>1. Cardinality(s \ {x}) = n
        BY <2>1, <1>1, FS_RemoveElement
      <4> QED BY <4>1, <1>3
    <3> QED BY <3>1
  <2> QED BY <2>1
<1> HIDE DEF C
<1>4. \A n \in Nat : n \in C
  BY <1>2, <1>3, FromZero
<1> QED BY <1>1, <1>4 DEF C

\* How SumFunction adds: the sum of each set of indices from that of a smaller one.
Added(f, h, s) ==
  IF s = {} THEN 0 ELSE LET x == CHOOSE x \in s : TRUE IN f[x] + h[s \ {x}]

IsSum(f, h) == h = [s \in SUBSET DOMAIN f |-> Added(f, h, s)]

LEMMA SumIs ==
  ASSUME NEW f, IsFiniteSet(DOMAIN f)
  PROVE  \E h : IsSum(f, h) /\ SumFunction(f) = h[DOMAIN f]
<1> DEFINE D == DOMAIN f
           S(n) == {s \in SUBSET D : Cardinality(s) <= n}
           Sums(n, h) == h = [s \in S(n) |-> Added(f, h, s)]
           C == {n \in Nat : \E h : Sums(n, h)}
<1>1. \A s \in SUBSET D : IsFiniteSet(s) /\ Cardinality(s) \in Nat /\ (Cardinality(s) = 0 <=> s = {})
  BY FS_Subset, FS_CardinalityType, FS_EmptySet
<1>2. 0 \in C
  <2> DEFINE h == [s \in S(0) |-> 0]
  <2>1. \A s \in S(0) : s = {}
    BY <1>1
  <2>2. \A s \in S(0) : Added(f, h, s) = 0
    BY <2>1 DEF Added
  <2>3. Sums(0, h)
    BY <2>2
  <2> QED BY <2>3
<1>3. ASSUME NEW n \in Nat, n \in C PROVE n + 1 \in C
  <2>1. PICK g : Sums(n, g)
    BY <1>3
  <2> DEFINE h == [s \in S(n + 1) |-> IF s \in S(n) THEN g[s] ELSE Added(f, g, s)]
  <2>2. \A s \in S(n) : s \in S(n + 1) /\ g[s] = Added(f, g, s) /\ h[s] = g[s]
    BY <1>1, <2>1
  <2>3. ASSUME NEW s \in S(n + 1) PROVE h[s] = Added(f, h, s)
    <3>1. h[s] = Added(f, g, s)
      BY <2>2
    <3>2. CASE s = {}
      BY <3>1, <3>2 DEF Added
    <3>3. CASE s # {}
      <4> DEFINE x == CHOOSE x \in s : TRUE
      <4>1. x \in s
        BY <3>3
      <4> HIDE DEF x
      <4>2. Cardinality(s \ {x}) = Cardinality(s) - 1
        BY <1>1, <4>1, FS_RemoveElement
      <4>3. s \ {x} \in S(n)
        BY <1>1, <4>2
      <4>4. h[s \ {x}] = g[s \ {x}]
        BY <2>2, <4>3
      <4> QED BY <3>1, <3>3, <4>4 DEF Added, x
    <3> QED BY <3>2, <3>3
  <2> HIDE DEF S
  <2>4. Sums(n + 1, h)
    BY <2>3
  <2>5. n + 1 \in Nat
    OBVIOUS
  <2> DEFINE m == n + 1
  <2> HIDE DEF h, m, Sums
  <2>6. Sums(m, h) /\ m \in Nat
    BY <2>4, <2>5 DEF m
  <2>7. m \in C
    BY <2>6
  <2> QED BY <2>7 DEF m
<1> HIDE DEF C, Sums
<1>4. \A n \in Nat : n \in C
  BY <1>2, <1>3, FromZero
<1>5. Cardinality(D) \in Nat /\ S(Cardinality(D)) = SUBSET D
  <2>1. \A s \in SUBSET D : Cardinality(s) <= Cardinality(D)
    BY FS_Subset
  <2> QED BY <2>1, <1>1
<1>6. \E h : Sums(Cardinality(D), h)
  BY <1>4, <1>5 DEF C
<1> HIDE DEF D, S
<1>7. \E h : IsSum(f, h)
  BY <1>5, <1>6 DEF Sums, IsSum, D
<1> DEFINE k == CHOOSE h : IsSum(f, h)
<1>8. IsSum(f, k)
  BY <1>7
<1>9. SumFunction(f) = k[DOMAIN f]
  BY DEF SumFunction, SumFunctionOnSet, FoldFunctionOnSet, MapThenFoldSet, IsSum, Added
<1> QED BY <1>8, <1>9

\* A sum of integers is one, and one of natural numbers is a natural number.
LEMMA SumType ==
  ASSUME NEW D, IsFiniteSet(D), NEW f \in [D -> Int]
  PROVE  SumFunction(f) \in Int /\ (f \in [D -> Nat] => SumFunction(f) \in Nat)
<1>1. PICK h : IsSum(f, h) /\ SumFunction(f) = h[D]
  BY SumIs
<1> DEFINE B == {s \in SUBSET D : h[s] \in Int /\ (f \in [D -> Nat] => h[s] \in Nat)}
<1>2. ASSUME NEW s \in SUBSET D, \A x \in s : s \ {x} \in B PROVE s \in B
  <2>1. h[s] = Added(f, h, s)
    BY <1>1 DEF IsSum
  <2>2. CASE s = {}
    BY <2>1, <2>2 DEF Added
  <2>3. CASE s # {}
    <3> DEFINE x == CHOOSE x \in s : TRUE
    <3>1. x \in s /\ x \in D
      BY <2>3
    <3> HIDE DEF x
    <3>2. s \ {x} \in B
      BY <1>2, <3>1
    <3>3. h[s] = f[x] + h[s \ {x}]
      BY <2>1, <2>3 DEF Added, x
    <3>4. h[s] \in Int
      BY <3>1, <3>2, <3>3
    <3>5. f \in [D -> Nat] => h[s] \in Nat
      BY <3>1, <3>2, <3>3
    <3> QED BY <3>4, <3>5
  <2> QED BY <2>2, <2>3
<1> HIDE DEF B
<1>3. SUBSET D \subseteq B
  BY <1>2, FromEmpty
<1> QED BY <1>1, <1>3 DEF B

\* A sum changes by what one of the summands does.
LEMMA SumChanges ==
  ASSUME NEW D, IsFiniteSet(D), NEW f \in [D -> Int], NEW g \in [D -> Int], NEW i \in D,
         \A j \in D \ {i} : g[j] = f[j]
  PROVE  SumFunction(g) = SumFunction(f) + (g[i] - f[i])
<1>1. PICK h : IsSum(f, h) /\ SumFunction(f) = h[D]
  BY SumIs
<1>2. PICK k : IsSum(g, k) /\ SumFunction(g) = k[D]
  BY SumIs
<1> DEFINE B == {s \in SUBSET D : /\ h[s] \in Int
                                 /\ k[s] = h[s] + (IF i \in s THEN g[i] - f[i] ELSE 0)}
<1>3. ASSUME NEW s \in SUBSET D, \A x \in s : s \ {x} \in B PROVE s \in B
  <2>1. h[s] = Added(f, h, s) /\ k[s] = Added(g, k, s)
    BY <1>1, <1>2 DEF IsSum
  <2>2. CASE s = {}
    BY <2>1, <2>2 DEF Added
  <2>3. CASE s # {}
    <3> DEFINE x == CHOOSE x \in s : TRUE
               r == s \ {x}
    <3>1. x \in s /\ x \in D
      BY <2>3
    <3>3. h[s] = f[x] + h[r] /\ k[s] = g[x] + k[r]
      BY <2>1, <2>3 DEF Added
    <3> HIDE DEF x
    <3>2. r \in B /\ (i \in r <=> i \in s /\ i # x)
      BY <1>3, <3>1
    <3> HIDE DEF r
    <3>4. h[r] \in Int /\ k[r] = h[r] + (IF i \in r THEN g[i] - f[i] ELSE 0)
      BY <3>2
    <3>5. f[x] \in Int /\ g[x] \in Int /\ f[i] \in Int /\ g[i] \in Int /\ (x # i => g[x] = f[x])
      BY <3>1
    <3>6. h[s] \in Int /\ k[s] = h[s] + (IF i \in s THEN g[i] - f[i] ELSE 0)
      <4>1. CASE x = i
        BY <3>1, <3>2, <3>3, <3>4, <3>5, <4>1
      <4>2. CASE x # i /\ i \in s
        BY <3>1, <3>2, <3>3, <3>4, <3>5, <4>2
      <4>3. CASE x # i /\ i \notin s
        BY <3>1, <3>2, <3>3, <3>4, <3>5, <4>3
      <4> QED BY <4>1, <4>2, <4>3
    <3> QED BY <3>6
  <2> QED BY <2>2, <2>3
<1> HIDE DEF B
<1>4. SUBSET D \subseteq B
  BY <1>3, FromEmpty
<1> QED BY <1>1, <1>2, <1>4 DEF B

\* A sum of zeros.
LEMMA SumOfNone ==
  ASSUME NEW D, IsFiniteSet(D), NEW f \in [D -> Int], \A i \in D : f[i] = 0
  PROVE  SumFunction(f) = 0
<1>1. PICK h : IsSum(f, h) /\ SumFunction(f) = h[D]
  BY SumIs
<1> DEFINE B == {s \in SUBSET D : h[s] = 0}
<1>2. ASSUME NEW s \in SUBSET D, \A x \in s : s \ {x} \in B PROVE s \in B
  <2>1. h[s] = Added(f, h, s)
    BY <1>1 DEF IsSum
  <2>2. CASE s = {}
    BY <2>1, <2>2 DEF Added
  <2>3. CASE s # {}
    <3> DEFINE x == CHOOSE x \in s : TRUE
    <3>1. x \in s /\ x \in D
      BY <2>3
    <3> HIDE DEF x
    <3>2. s \ {x} \in B
      BY <1>2, <3>1
    <3>3. h[s] = f[x] + h[s \ {x}]
      BY <2>1, <2>3 DEF Added, x
    <3> QED BY <3>1, <3>2, <3>3
  <2> QED BY <2>2, <2>3
<1> HIDE DEF B
<1>3. SUBSET D \subseteq B
  BY <1>2, FromEmpty
<1> QED BY <1>1, <1>3 DEF B

-------------------------------------------------------------------------------
(* The limit *)

Pages == [id \in Classes |-> slabclass[id].slabs * PageLen(id)]
Firsts(ids) == [id \in ids |-> IF slabclass[id].slabs > 0 THEN PageLen(id) ELSE 0]

\* The pages of the classes, and their first ones, are numbers that can be added.
LEMMA PagesAreNumbers ==
  ASSUME TypeOK
  PROVE  /\ Pages \in [Classes -> Nat] /\ IsFiniteSet(Classes)
         /\ \A ids \in SUBSET Classes : Firsts(ids) \in [ids -> Nat] /\ IsFiniteSet(ids)
<1>1. IsFiniteSet(Classes)
  BY FS_Interval DEF Classes
<1>2. ASSUME NEW id \in Classes
      PROVE  slabclass[id].slabs * PageLen(id) \in Nat /\ PageLen(id) \in Nat
  <2>1. slabclass[id].slabs \in Nat
    BY ClassHasType
  <2>2. PageLen(id) \in Nat
    BY PageLengths
  <2> QED BY ONLY <2>1, <2>2
<1>3. Pages \in [Classes -> Nat]
  BY <1>2 DEF Pages
<1>4. \A ids \in SUBSET Classes : IsFiniteSet(ids)
  BY <1>1, FS_Subset
<1>5. \A ids \in SUBSET Classes : Firsts(ids) \in [ids -> Nat]
  BY <1>2 DEF Firsts
<1> QED BY <1>1, <1>3, <1>4, <1>5

\* The limit is about slabs and mem_malloced alone.
LEMMA NoPage ==
  ASSUME WithinLimit, mem_malloced' = mem_malloced,
         \A id \in Classes : slabclass'[id].slabs = slabclass[id].slabs
  PROVE  WithinLimit'
<1>1. Pages' = Pages
  BY DEF Pages
<1>2. \A ids \in SUBSET Classes : Firsts(ids)' = Firsts(ids)
  BY DEF Firsts
<1>3. \A ids \in SUBSET Classes : FirstPages(ids)' = FirstPages(ids)
  BY <1>2 DEF FirstPages, Firsts
<1>4. \A id \in Classes : FirstPages(Classes \ {id})' = FirstPages(Classes \ {id})
  BY <1>3
<1>5. mem_malloced' = SumFunction(Pages)'
  BY <1>1 DEF WithinLimit, Pages
<1> QED BY <1>4, <1>5 DEF WithinLimit, Pages

\* A page of a class that has one keeps to the limit, and a first page adds to what
\* may exceed it.
LEMMA PageMore ==
  ASSUME TypeOK, TypeOK', WithinLimit, NEW id \in Classes, ~OverLimit(id),
         mem_malloced' = mem_malloced + PageLen(id),
         slabclass'[id].slabs = slabclass[id].slabs + 1,
         \A jd \in Classes \ {id} : slabclass'[jd].slabs = slabclass[jd].slabs
  PROVE  WithinLimit'
<1> DEFINE k == slabclass[id].slabs
           L == PageLen(id)
           M == mem_malloced
<1>1. k \in Nat /\ L \in Nat /\ M \in Nat /\ (k + 1) * L = k * L + L /\ k * L \in Nat
  <2>1. k \in Nat /\ L \in Nat
    BY ClassHasType, PageLengths
  <2>2. (k + 1) * L = k * L + L /\ k * L \in Nat
    BY ONLY <2>1
  <2> QED BY <2>1, <2>2 DEF TypeOK
<1>2. /\ Pages \in [Classes -> Int] /\ Pages' \in [Classes -> Int] /\ IsFiniteSet(Classes)
      /\ \A ids \in SUBSET Classes : /\ IsFiniteSet(ids) /\ Firsts(ids) \in [ids -> Int]
                                     /\ Firsts(ids)' \in [ids -> Int] /\ Firsts(ids)' \in [ids -> Nat]
  <2>1. /\ Pages \in [Classes -> Nat] /\ IsFiniteSet(Classes)
        /\ \A ids \in SUBSET Classes : Firsts(ids) \in [ids -> Nat] /\ IsFiniteSet(ids)
    BY PagesAreNumbers
  <2>2. ASSUME NEW jd \in Classes
        PROVE  slabclass'[jd].slabs * PageLen(jd) \in Nat /\ PageLen(jd) \in Nat
    <3>1. slabclass'[jd].slabs \in Nat
      BY DEF TypeOK, SlabClass
    <3>2. PageLen(jd) \in Nat
      BY PageLengths
    <3> QED BY ONLY <3>1, <3>2
  <2>3. Pages' \in [Classes -> Nat]
    BY <2>2 DEF Pages
  <2>4. \A ids \in SUBSET Classes : Firsts(ids)' \in [ids -> Nat]
    BY <2>2 DEF Firsts
  <2> QED BY <2>1, <2>3, <2>4
<1>3. Pages[id] = k * L /\ Pages'[id] = k * L + L /\ \A jd \in Classes \ {id} : Pages'[jd] = Pages[jd]
  BY <1>1 DEF Pages
<1>4. SumFunction(Pages') = SumFunction(Pages) + (Pages'[id] - Pages[id])
  BY <1>2, <1>3, SumChanges
<1>5. M = SumFunction(Pages)
  BY DEF WithinLimit, Pages
<1>6. mem_malloced' = SumFunction(Pages')
  BY <1>1, <1>3, <1>4, <1>5
<1>7. ASSUME mem_limit # 0
      PROVE  \/ \A jd \in Classes : slabclass'[jd].slabs <= 1
             \/ \E jd \in Classes : /\ slabclass'[jd].slabs > 1
                                    /\ mem_malloced' <= mem_limit + FirstPages(Classes \ {jd})'
  <2>1. CASE k > 0
    <3>1. M + L <= mem_limit
      BY <2>1, <1>7, <1>1 DEF OverLimit
    <3>2. FirstPages(Classes \ {id})' \in Nat
      <4> DEFINE C == Classes \ {id}
      <4>1. Firsts(C)' \in [C -> Nat] /\ Firsts(C)' \in [C -> Int] /\ IsFiniteSet(C)
        BY <1>2
      <4>2. SumFunction(Firsts(C)') \in Nat
        BY <4>1, SumType
      <4> QED BY <4>2 DEF FirstPages, Firsts
    <3>3. mem_malloced' <= mem_limit + FirstPages(Classes \ {id})'
      BY <3>1, <3>2, <1>1
    <3>4. slabclass'[id].slabs > 1
      BY <2>1, <1>1
    <3> QED BY <3>3, <3>4
  <2>2. CASE k = 0
    <3>1. CASE \A jd \in Classes : slabclass[jd].slabs <= 1
      <4>1. \A jd \in Classes : slabclass'[jd].slabs <= 1
        BY <3>1, <2>2, <1>1
      <4> QED BY <4>1
    <3>2. CASE ~\A jd \in Classes : slabclass[jd].slabs <= 1
      <4>1. PICK jd \in Classes : slabclass[jd].slabs > 1 /\ M <= mem_limit + FirstPages(Classes \ {jd})
        BY <3>2, <1>7 DEF WithinLimit
      <4> DEFINE C == Classes \ {jd}
      <4>2. jd # id /\ id \in C /\ C \in SUBSET Classes
        BY <4>1, <2>2
      <4>3. Firsts(C) \in [C -> Int] /\ Firsts(C)' \in [C -> Int] /\ IsFiniteSet(C)
        BY <1>2
      <4>4. /\ Firsts(C)[id] = 0 /\ Firsts(C)'[id] = L
            /\ \A x \in C \ {id} : Firsts(C)'[x] = Firsts(C)[x]
        BY <4>2, <2>2, <1>1 DEF Firsts
      <4> HIDE DEF C
      <4>5. SumFunction(Firsts(C)') = SumFunction(Firsts(C)) + (Firsts(C)'[id] - Firsts(C)[id])
        BY <4>2, <4>3, <4>4, SumChanges
      <4>6. SumFunction(Firsts(C)) \in Int
        BY <4>3, SumType
      <4> DEFINE S == SumFunction(Firsts(C))
      <4>7. SumFunction(Firsts(C)') = S + L /\ S \in Int
        BY <4>4, <4>5, <4>6, <1>1
      <4>8. FirstPages(C) = S /\ FirstPages(C)' = SumFunction(Firsts(C)')
        BY DEF FirstPages, Firsts
      <4> HIDE DEF S
      <4>9. mem_malloced' <= mem_limit + FirstPages(C)'
        BY <4>1, <4>7, <4>8, <1>1 DEF C
      <4>10. slabclass'[jd].slabs > 1
        BY <4>1, <4>2
      <4> QED BY <4>9, <4>10 DEF C
    <3> QED BY <3>1, <3>2
  <2>3. k > 0 \/ k = 0
    BY <1>1
  <2> QED BY <2>1, <2>2, <2>3
<1> QED BY <1>6, <1>7 DEF WithinLimit, Pages

\* No page at all.
LEMMA InitWithinLimit == Init => WithinLimit
<1> SUFFICES ASSUME Init PROVE WithinLimit
  OBVIOUS
<1>1. TypeOK
  BY InitTypeOK
<1>2. \A id \in Classes : slabclass[id].slabs = 0
  BY DEF Init, EmptyClass
<1>3. ASSUME NEW id \in Classes PROVE Pages[id] = 0
  <2>1. PageLen(id) \in Nat
    BY PageLengths
  <2> QED BY <2>1, <1>2 DEF Pages
<1>4. SumFunction(Pages) = 0
  BY <1>1, <1>3, PagesAreNumbers, SumOfNone
<1> QED BY <1>2, <1>4 DEF WithinLimit, Pages, Init

\* Only do_slabs_newslab adds to mem_malloced.
LEMMA StepWithinLimit == ASSUME IInv, WithinLimit, [Next]_vars PROVE WithinLimit'
<1>0. TypeOK /\ TypeOK'
  BY StepKeeps DEF IInv
<1>1. ASSUME NEW id \in Classes, NEW q, SetClass(id, q), q.slabs = slabclass[id].slabs, mem_malloced' = mem_malloced
      PROVE  WithinLimit'
  <2>1. \A jd \in Classes : slabclass'[jd].slabs = slabclass[jd].slabs
    BY <1>0, <1>1 DEF SetClass, TypeOK
  <2> QED BY <2>1, <1>1, NoPage
<1>2. ASSUME NEW n \in Requests, NEW id \in Classes, AllocSlot(n, id) PROVE WithinLimit'
  <2> DEFINE q == FromSlots(slabclass[id], n)
  <2>1. q.slabs = slabclass[id].slabs
    BY <1>0, ClassHasType DEF FromSlots, SlabClass
  <2>2. SetClass(id, q) /\ mem_malloced' = mem_malloced
    BY <1>2 DEF AllocSlot
  <2> HIDE DEF q
  <2> QED BY <2>1, <2>2, <1>1
<1>3. ASSUME NEW n \in Requests, NEW id \in Classes, AllocEndPage(n, id) PROVE WithinLimit'
  <2> DEFINE q == FromPage(slabclass[id], id, n)
  <2>1. q.slabs = slabclass[id].slabs
    BY <1>0, ClassHasType DEF FromPage, SlabClass
  <2>2. SetClass(id, q) /\ mem_malloced' = mem_malloced
    BY <1>3 DEF AllocEndPage
  <2> HIDE DEF q
  <2> QED BY <2>1, <2>2, <1>1
<1>4. ASSUME NEW n \in Requests, NEW id \in Classes, AllocNewSlab(n, id) PROVE WithinLimit'
  <2> DEFINE p == slabclass[id]
             g == NewSlab(p, id)
             q == FromPage(g, id, n)
  <2>1. p \in SlabClass
    BY <1>0, ClassHasType
  <2>2. g.slabs = p.slabs + 1 /\ q.slabs = g.slabs
    BY <2>1 DEF NewSlab, FromPage, SlabClass
  <2>3. SetClass(id, q) /\ mem_malloced' = mem_malloced + PageLen(id) /\ ~OverLimit(id)
    BY <1>4 DEF AllocNewSlab
  <2>4. slabclass'[id] = q /\ \A jd \in Classes \ {id} : slabclass'[jd] = slabclass[jd]
    BY <1>0, <2>3 DEF SetClass, TypeOK
  <2> HIDE DEF g, q
  <2> QED BY <1>0, <2>2, <2>3, <2>4, PageMore
<1>5. ASSUME NEW n \in Requests, NEW id \in Classes, AllocFails(n, id) PROVE WithinLimit'
  <2> DEFINE p == slabclass[id]
             q == [p EXCEPT !.list_size = Grown(p.list_size, p.slabs)]
  <2>1. q.slabs = p.slabs
    BY <1>0, ClassHasType DEF SlabClass
  <2>2. SetClass(id, q) /\ mem_malloced' = mem_malloced
    BY <1>5 DEF AllocFails
  <2> HIDE DEF q
  <2> QED BY <2>1, <2>2, <1>1
<1>6. ASSUME NEW b \in held, Free(b) PROVE WithinLimit'
  <2> DEFINE p == slabclass[b.id]
             q == [p EXCEPT !.sl_total = Grown(p.sl_total, Len(p.slots)),
                            !.slots = Append(@, b.at), !.requested = @ - b.n]
  <2>1. b.id \in Classes
    BY <1>0 DEF TypeOK, HeldChunk
  <2>2. q.slabs = p.slabs
    BY <1>0, <2>1, ClassHasType DEF SlabClass
  <2>3. SetClass(b.id, q) /\ mem_malloced' = mem_malloced
    BY <1>6 DEF Free
  <2> HIDE DEF q
  <2> QED BY <2>1, <2>2, <2>3, <1>1
<1>7. ASSUME slabclass' = slabclass, mem_malloced' = mem_malloced PROVE WithinLimit'
  BY <1>7, NoPage
<1>8. ASSUME NEW b \in held, FreeFails(b) PROVE WithinLimit'
  BY <1>7, <1>8 DEF FreeFails
<1>9. ASSUME NEW b \in held, NEW n \in Requests, Steal(b, n) PROVE WithinLimit'
  BY <1>7, <1>9 DEF Steal
<1>10. CASE UNCHANGED vars
  BY <1>7, <1>10 DEF vars
<1> QED BY <1>2, <1>3, <1>4, <1>5, <1>6, <1>8, <1>9, <1>10 DEF Next, slabs_alloc, slabs_free

\* mem_malloced is the size of all pages, and what exceeds the limit are first pages:
\* those of all classes but one that has more (the test of do_slabs_newslab).
THEOREM LimitKept == Spec => []WithinLimit
<1>1. IInv /\ WithinLimit => WithinLimit
  OBVIOUS
<1> QED BY <1>1, InitIInv, StepKeeps, InitWithinLimit, StepWithinLimit, PTL DEF Spec
-------------------------------------------------------------------------------
(* The table of classes *)

LEMMA RoundUpDoes ==
  /\ \A n \in Nat : RoundUp(n) \in Nat /\ n <= RoundUp(n)
  /\ \A k \in Nat : RoundUp(k * ChunkAlign) = k * ChunkAlign
<1> DEFINE A == ChunkAlign
<1>1. A \in Nat /\ A > 0
  BY ClassesAssumption DEF ClassesAssumption
<1> HIDE DEF A
<1>2. ASSUME NEW x \in Nat
      PROVE  \E q \in Nat : x \div A = q /\ q * A <= x /\ x <= q * A + A - 1
  BY <1>1
<1>3. ASSUME NEW n \in Nat PROVE RoundUp(n) \in Nat /\ n <= RoundUp(n)
  <2> DEFINE x == n + A - 1
  <2>1. x \in Nat /\ n = x - A + 1
    BY <1>1
  <2> HIDE DEF x
  <2>2. PICK q \in Nat : x \div A = q /\ q * A <= x /\ x <= q * A + A - 1
    BY <1>2, <2>1
  <2> DEFINE r == q * A
  <2>3. r \in Nat /\ RoundUp(n) = r
    BY <1>1, <2>2 DEF RoundUp, x, A
  <2>4. x <= r + A - 1
    BY <2>2
  <2> HIDE DEF r
  <2> QED BY <1>1, <2>1, <2>3, <2>4
<1>4. ASSUME NEW k \in Nat PROVE RoundUp(k * A) = k * A
  <2> DEFINE r == k * A
             x == r + A - 1
  <2>1. r \in Nat
    BY <1>1
  <2>2. x \in Nat
    BY <1>1, <2>1
  <2> HIDE DEF x
  <2>3. PICK q \in Nat : x \div A = q /\ q * A <= x /\ x <= q * A + A - 1
    BY <1>2, <2>2
  <2>4. q < k + 1
    <3>1. (k + 1) * A = r + A
      BY ONLY <1>1
    <3>2. q >= k + 1 => q * A >= (k + 1) * A
      BY ONLY <1>1, <2>3
    <3> DEFINE p == q * A
    <3>3. p \in Int /\ p <= x /\ (q >= k + 1 => p >= r + A)
      BY <1>1, <2>3, <3>1, <3>2
    <3> HIDE DEF p, r
    <3> QED BY <1>1, <2>1, <3>3 DEF x
  <2>5. q > k - 1
    <3>1. (k - 1) * A = r - A
      BY ONLY <1>1
    <3>2. q <= k - 1 => q * A <= (k - 1) * A
      BY ONLY <1>1, <2>3
    <3> DEFINE p == q * A
    <3>3. p \in Int /\ x <= p + A - 1 /\ (q <= k - 1 => p <= r - A)
      BY <1>1, <2>3, <3>1, <3>2
    <3> HIDE DEF p, r
    <3> QED BY <1>1, <2>1, <3>3 DEF x
  <2>6. q = k
    BY <2>4, <2>5
  <2> QED BY <2>3, <2>6 DEF RoundUp, x, r, A
<1> QED BY <1>3, <1>4 DEF A

LEMMA StepDoes == Step \in Nat /\ Step * FactorDen <= FactorNum
BY ClassesAssumption DEF Step, ClassesAssumption

\* What the loop of slabs_init computes for a class from the class before.
Coming(f, i) == IF i = 1 THEN SmallestChunk ELSE RoundUp(f[i - 1]) * Step

\* The recursion has a solution: the sizes of all classes up to any one.
LEMMA SizesExist ==
  \A m \in Nat : \E f \in [1 .. m -> Nat] : \A i \in 1 .. m : f[i] = Coming(f, i)
<1> DEFINE B == {m \in Nat : \E f \in [1 .. m -> Nat] : \A i \in 1 .. m : f[i] = Coming(f, i)}
<1>1. 0 \in B
  <2>1. [i \in 1 .. 0 |-> 0] \in [1 .. 0 -> Nat] /\ 1 .. 0 = {}
    OBVIOUS
  <2> QED BY <2>1
<1>2. ASSUME NEW m \in Nat, m \in B PROVE m + 1 \in B
  <2>1. PICK f \in [1 .. m -> Nat] : \A i \in 1 .. m : f[i] = Coming(f, i)
    BY <1>2
  <2> DEFINE l == m + 1
             g == [i \in 1 .. l |-> IF i = l THEN Coming(f, l) ELSE f[i]]
  <2>2. l \in Nat /\ l >= 1 /\ m = l - 1
    OBVIOUS
  <2> HIDE DEF l
  <2>3. \A i \in 1 .. l : i = l \/ (i \in 1 .. m /\ i # l)
    BY <2>2
  <2>4. \A i \in 1 .. l : i = 1 \/ (i - 1 \in 1 .. m /\ i - 1 \in 1 .. l /\ i - 1 # l)
    BY <2>2
  <2>5. ASSUME NEW i \in 1 .. l PROVE g[i] = Coming(g, i) /\ g[i] \in Nat
    <3>1. Coming(g, i) = Coming(f, i)
      <4>1. i = 1 \/ g[i - 1] = f[i - 1]
        BY <2>4
      <4> HIDE DEF g
      <4> QED BY <4>1 DEF Coming
    <3>2. Coming(f, i) \in Nat
      <4>1. i = 1 \/ f[i - 1] \in Nat
        BY <2>1, <2>4
      <4>2. i = 1 \/ RoundUp(f[i - 1]) \in Nat
        BY <4>1, RoundUpDoes
      <4>3. i = 1 \/ RoundUp(f[i - 1]) * Step \in Nat
        BY <4>2, StepDoes
      <4>4. SmallestChunk \in Nat
        BY ClassesAssumption DEF ClassesAssumption
      <4> QED BY <4>3, <4>4 DEF Coming
    <3>3. g[i] = Coming(f, i)
      BY <2>1, <2>3
    <3> QED BY <3>1, <3>2, <3>3
  <2>6. g \in [1 .. l -> Nat]
    <3> HIDE DEF Coming
    <3>1. g = [i \in 1 .. l |-> g[i]]
      OBVIOUS
    <3> HIDE DEF g
    <3> QED BY <2>5, <3>1
  <2> HIDE DEF g
  <2>7. l \in B
    BY <2>2, <2>5, <2>6
  <2> QED BY <2>7 DEF l
<1> HIDE DEF B
<1>3. \A m \in Nat : m \in B
  BY <1>1, <1>2, FromZero
<1> QED BY <1>3 DEF B

LEMMA SizeDoes ==
  /\ \A i \in 1 .. POWER_LARGEST : size[i] \in Nat
  /\ size[1] = SmallestChunk
  /\ \A i \in 1 .. POWER_LARGEST : i # 1 => size[i] = RoundUp(size[i - 1]) * Step
<1> DEFINE P == POWER_LARGEST
           Makes(f) == f = [i \in 1 .. P |-> Coming(f, i)]
<1>1. P \in Nat /\ P >= 1 /\ SmallestChunk \in Nat
  BY ClassesAssumption DEF ClassesAssumption
<1>2. \E f : Makes(f)
  <2>1. PICK f \in [1 .. P -> Nat] : \A i \in 1 .. P : f[i] = Coming(f, i)
    BY <1>1, SizesExist
  <2> HIDE DEF P
  <2>2. f = [i \in 1 .. P |-> f[i]]
    OBVIOUS
  <2>3. [i \in 1 .. P |-> f[i]] = [i \in 1 .. P |-> Coming(f, i)]
    BY <2>1
  <2> QED BY <2>2, <2>3
<1>3. size = CHOOSE f : Makes(f)
  BY DEF size, Coming
<1>4. Makes(size)
  <2> HIDE DEF Makes
  <2> QED BY <1>2, <1>3
<1>5. \A i \in 1 .. P : size[i] = Coming(size, i)
  BY <1>4
<1> DEFINE B == {n \in Nat : n \in 1 .. P => size[n] \in Nat}
<1>6. 0 \in B
  OBVIOUS
<1>7. ASSUME NEW m \in Nat, m \in B PROVE m + 1 \in B
  <2> DEFINE l == m + 1
  <2>1. l \in Nat /\ m = l - 1 /\ (l \in 1 .. P => l = 1 \/ m \in 1 .. P)
    BY <1>1
  <2> HIDE DEF l, P
  <2>2. ASSUME l \in 1 .. P PROVE size[l] \in Nat
    <3>1. CASE l = 1
      BY <2>2, <3>1, <1>1, <1>5 DEF Coming
    <3>2. CASE l # 1
      <4>1. size[l - 1] \in Nat
        BY <2>1, <2>2, <3>2, <1>7
      <4>2. RoundUp(size[l - 1]) \in Nat
        BY <4>1, RoundUpDoes
      <4>3. RoundUp(size[l - 1]) * Step \in Nat
        BY <4>2, StepDoes
      <4> QED BY <2>2, <3>2, <4>3, <1>5 DEF Coming
    <3> QED BY <3>1, <3>2
  <2>3. l \in B
    BY <2>1, <2>2
  <2> QED BY <2>3 DEF l
<1> HIDE DEF B
<1>8. \A n \in Nat : n \in B
  BY <1>6, <1>7, FromZero
<1>9. \A i \in 1 .. P : size[i] \in Nat
  BY <1>8 DEF B
<1>10. 1 \in 1 .. P
  BY <1>1
<1> QED BY <1>5, <1>9, <1>10 DEF Coming

\* The loop of slabs_init ends somewhere.
LEMMA LargestExists ==
  /\ LargestClass \in 1 .. POWER_LARGEST
  /\ LoopEnds(LargestClass) /\ \A j \in 1 .. LargestClass - 1 : ~LoopEnds(j)
<1> DEFINE P == POWER_LARGEST
           First(i) == LoopEnds(i) /\ \A j \in 1 .. i - 1 : ~LoopEnds(j)
           B == {n \in Nat : \A i \in 1 .. n : ~LoopEnds(i)}
<1>1. P \in Nat /\ P >= 1 /\ LoopEnds(P)
  BY ClassesAssumption DEF ClassesAssumption, LoopEnds
<1>2. \E i \in 1 .. P : First(i)
  <2> SUFFICES ASSUME ~\E i \in 1 .. P : First(i) PROVE FALSE
    OBVIOUS
  <2> DEFINE C == {n \in Nat : n \in 1 .. P => n \in B}
  <2>1. 0 \in C
    BY <1>1
  <2>2. ASSUME NEW m \in Nat, m \in C PROVE m + 1 \in C
    <3> DEFINE l == m + 1
    <3>1. l \in Nat /\ m = l - 1 /\ (l \in 1 .. P => l = 1 \/ m \in 1 .. P)
      BY <1>1
    <3> HIDE DEF l, P
    <3>2. ASSUME l \in 1 .. P PROVE \A i \in 1 .. l : ~LoopEnds(i)
      <4>1. \A i \in 1 .. m : ~LoopEnds(i)
        BY <3>1, <3>2, <2>2
      <4>2. ~First(l)
        BY <3>2
      <4>3. ~LoopEnds(l)
        BY <4>1, <4>2, <3>1
      <4>4. \A i \in 1 .. l : i = l \/ i \in 1 .. m
        BY <3>1
      <4> QED BY <4>1, <4>3, <4>4
    <3>3. l \in C
      BY <3>1, <3>2
    <3> QED BY <3>3 DEF l
  <2> HIDE DEF C
  <2>3. \A n \in Nat : n \in C
    BY <2>1, <2>2, FromZero
  <2>4. \A i \in 1 .. P : ~LoopEnds(i)
    BY <2>3, <1>1 DEF C
  <2> QED BY <2>4, <1>1
<1> HIDE DEF First
<1>3. LargestClass = CHOOSE i \in 1 .. P : First(i)
  BY DEF LargestClass, First
<1>4. LargestClass \in 1 .. P /\ First(LargestClass)
  BY <1>2, <1>3
<1> QED BY <1>4 DEF First

\* The classes are those of slabs_init, whose loop has ended because the next class
\* would be too large, and not because the table is full.
TableFits ==
  /\ power_largest = LargestClass /\ Size = ClassSize
  /\ size[LargestClass] * FactorNum > item_size_max * FactorDen

\* What the class before is too small for fits into a class snugly.
LEMMA FitsSnugly ==
  ASSUME TableFits, NEW id \in Classes, id # 1, NEW n \in Nat, n > Size[id - 1]
  PROVE  Size[id] * FactorDen * FactorDen <= RoundUp(n) * FactorNum * FactorNum
<1> DEFINE L == LargestClass
           s == RoundUp(size[id - 1])
           r == RoundUp(n)
           D == FactorDen
           N == FactorNum
           t == Step
           z == Size[id]
           j == id - 1
<1>1. /\ D \in Nat /\ N \in Nat /\ N > D /\ t \in Nat /\ t * D <= N
      /\ L \in 1 .. POWER_LARGEST /\ Classes = 1 .. L /\ ChunkAlign \in Nat /\ POWER_LARGEST \in Nat
      /\ item_size_max \in Nat
  BY StepDoes, LargestExists, ClassesAssumption DEF ClassesAssumption, TableFits, Classes
<1>2. j \in 1 .. L /\ j # L /\ id \in 1 .. L /\ j \in 1 .. POWER_LARGEST /\ id \in 1 .. POWER_LARGEST
  BY <1>1
<1>3. size[j] \in Nat /\ size[id] = s * t /\ size[id] \in Nat
  BY <1>2, SizeDoes
<1>4. s \in Nat /\ r \in Nat /\ n <= r
  BY <1>3, RoundUpDoes
<1>5. Size[j] = s
  BY <1>2 DEF TableFits, ClassSize
<1>6. s <= r
  BY <1>4, <1>5
<1>7. z = IF id = L THEN item_size_max ELSE RoundUp(s * t)
  BY <1>2, <1>3 DEF TableFits, ClassSize
<1>8. id = L => s * t * N > item_size_max * D
  BY <1>3 DEF TableFits
<1>9. RoundUp(s * t) = s * t
  <2> DEFINE k == (size[j] + ChunkAlign - 1) \div ChunkAlign
  <2>1. k \in Nat
    BY <1>3, ClassesAssumption DEF ClassesAssumption
  <2>2. s = k * ChunkAlign
    BY DEF RoundUp
  <2> HIDE DEF s, k, t
  <2>3. k * t \in Nat /\ (k * t) * ChunkAlign = s * t
    BY <2>1, <2>2, <1>1
  <2> DEFINE m == k * t
  <2>4. RoundUp(m * ChunkAlign) = m * ChunkAlign
    BY <2>3, RoundUpDoes
  <2> QED BY <2>3, <2>4
<1> DEFINE M == item_size_max
<1> HIDE DEF L, s, r, D, N, t, z, M
<1>10. z \in Nat /\ z * D <= s * t * N
  <2>1. CASE id = L
    <3>1. s * t * N \in Nat /\ M * D \in Nat
      BY ONLY <1>1, <1>4 DEF M
    <3> QED BY <2>1, <3>1, <1>1, <1>7, <1>8 DEF M
  <2>2. CASE id # L
    <3> DEFINE u == s * t
    <3>1. u \in Nat /\ z = u
      BY <2>2, <1>1, <1>4, <1>7, <1>9
    <3> HIDE DEF u
    <3>2. u * D <= u * N
      BY ONLY <3>1, <1>1
    <3> QED BY <3>1, <3>2 DEF u
  <2> QED BY <2>1, <2>2
<1>11. z * D * D <= s * t * N * D
  <2> DEFINE a == z * D
             b == s * t * N
  <2>1. a \in Nat /\ b \in Nat /\ a <= b
    BY <1>10, <1>1, <1>4
  <2> HIDE DEF a, b
  <2>2. a * D <= b * D
    BY ONLY <2>1, <1>1
  <2> QED BY <2>2 DEF a, b
<1>12. s * t * N * D = s * N * (t * D)
  BY ONLY <1>1, <1>4
<1>13. s * N * (t * D) <= s * N * N
  <2> DEFINE a == s * N
             b == t * D
  <2>1. a \in Nat /\ b \in Nat /\ b <= N
    BY <1>1, <1>4
  <2> HIDE DEF a, b
  <2>2. a * b <= a * N
    BY ONLY <2>1, <1>1
  <2> QED BY <2>2 DEF a, b
<1>14. s * N * N <= r * N * N
  <2>1. s * N <= r * N
    BY ONLY <1>1, <1>4, <1>6
  <2> DEFINE a == s * N
             b == r * N
  <2>2. a \in Nat /\ b \in Nat /\ a <= b
    BY <2>1, <1>1, <1>4
  <2> HIDE DEF a, b
  <2>3. a * N <= b * N
    BY ONLY <2>2, <1>1
  <2> QED BY <2>3 DEF a, b
<1>15. z * D * D <= r * N * N
  <2> DEFINE a == z * D * D
             b == s * t * N * D
             c == s * N * N
             d == r * N * N
  <2>1. a \in Nat /\ b \in Nat /\ c \in Nat /\ d \in Nat /\ a <= b /\ b <= c /\ c <= d
    BY <1>1, <1>4, <1>10, <1>11, <1>12, <1>13, <1>14
  <2> HIDE DEF a, b, c, d
  <2>2. a <= d
    BY <2>1
  <2> QED BY <2>2 DEF a, d
<1> QED BY <1>15 DEF z, D, r, N

\* A chunk in use is of the class that slabs_clsid chose for its item.
ClassChosen == \A b \in held : slabs_clsid(b.n, b.id)

LEMMA StepClassChosen == ASSUME TypeOK, ClassChosen, [Next]_vars PROVE ClassChosen'
<1>1. ASSUME NEW at, NEW n, NEW id, slabs_clsid(n, id), Hold(at, n, id) PROVE ClassChosen'
  <2>1. Chunk(at, n, id).n = n /\ Chunk(at, n, id).id = id
    BY DEF Chunk
  <2> QED BY <2>1, <1>1 DEF ClassChosen, Hold, slabs_clsid
<1>2. ASSUME held' \subseteq held PROVE ClassChosen'
  BY <1>2 DEF ClassChosen, slabs_clsid
<1>3. ASSUME NEW n \in Requests, NEW id \in Classes, AllocSlot(n, id) PROVE ClassChosen'
  BY <1>1, <1>3 DEF AllocSlot
<1>4. ASSUME NEW n \in Requests, NEW id \in Classes, AllocEndPage(n, id) PROVE ClassChosen'
  BY <1>1, <1>4 DEF AllocEndPage
<1>5. ASSUME NEW n \in Requests, NEW id \in Classes, AllocNewSlab(n, id) PROVE ClassChosen'
  BY <1>1, <1>5 DEF AllocNewSlab
<1>6. ASSUME NEW n \in Requests, NEW id \in Classes, AllocFails(n, id) PROVE ClassChosen'
  BY <1>2, <1>6 DEF AllocFails
<1>7. ASSUME NEW b \in held, slabs_free(b) PROVE ClassChosen'
  BY <1>2, <1>7 DEF slabs_free, Free, FreeFails
<1>8. ASSUME NEW b \in held, NEW n \in Requests, Steal(b, n) PROVE ClassChosen'
  <2> DEFINE c == [b EXCEPT !.n = n]
  <2>1. b \in HeldChunk
    BY DEF TypeOK
  <2>2. c.n = n /\ c.id = b.id
    BY <2>1 DEF HeldChunk
  <2>3. held' = (held \ {b}) \cup {c} /\ slabs_clsid(n, b.id)
    BY <1>8 DEF Steal
  <2> HIDE DEF c
  <2> QED BY <2>2, <2>3 DEF ClassChosen, slabs_clsid
<1>9. CASE UNCHANGED vars
  BY <1>2, <1>9 DEF vars
<1> QED BY <1>3, <1>4, <1>5, <1>6, <1>7, <1>8, <1>9 DEF Next, slabs_alloc

\* A chunk in use is at most twice the growth factor larger than its item, whatever
\* the settings, if only the table of slabs_init does not run full: with a factor
\* below two it does (the cast in Step), and its last class takes all that is left.
THEOREM ChunksFit == TableFits /\ Spec => []Snug
<1>1. Init => ClassChosen
  BY DEF Init, ClassChosen
<1>2. IInv /\ ClassChosen /\ [Next]_vars => ClassChosen'
  BY StepClassChosen DEF IInv
<1>3. TableFits /\ [Next]_vars => TableFits'
  BY DEF TableFits
<1>4. IInv /\ ClassChosen /\ TableFits => Snug
  <2> SUFFICES ASSUME IInv, ClassChosen, TableFits, NEW b \in held, b.len > Size[1]
               PROVE  b.len * FactorDen * FactorDen <= RoundUp(b.n) * FactorNum * FactorNum
    BY DEF Snug
  <2>1. b.id \in Classes /\ b.n \in Nat /\ b.len = Size[b.id]
    BY DEF IInv, TypeOK, HeldChunk
  <2>2. b.id # 1
    <3>1. Size[1] \in Nat
      <4>1. 1 \in Classes
        BY DEF Classes
      <4> QED BY <4>1
    <3> QED BY <2>1, <3>1
  <2>3. b.id - 1 \in 1 .. b.id - 1
    BY <2>1, <2>2 DEF Classes
  <2>4. b.n > Size[b.id - 1]
    BY <2>3 DEF ClassChosen, slabs_clsid
  <2> QED BY <2>1, <2>2, <2>4, FitsSnugly
<1> QED BY <1>1, <1>2, <1>3, <1>4, InitIInv, StepKeeps, PTL DEF Spec

\* With a factor below two, the cast of slabs_init (slabs.c:131) leaves all classes but
\* the last with the size of the first, and only the length of the table ends the loop.
THEOREM CastStopsGrowth ==
  ASSUME FactorNum < 2 * FactorDen, RoundUp(SmallestChunk) * FactorNum <= item_size_max * FactorDen
  PROVE  /\ LargestClass = POWER_LARGEST
         /\ \A i \in 1 .. POWER_LARGEST - 1 : ClassSize[i] = RoundUp(SmallestChunk)
<1> DEFINE P == POWER_LARGEST
           c == SmallestChunk
           r == RoundUp(c)
           N == FactorNum
           D == FactorDen
           M == item_size_max
           B == {n \in Nat : n \in 1 .. P => size[n] = c \/ size[n] = r}
<1>1. /\ P \in Nat /\ P >= 1 /\ c \in Nat /\ N \in Nat /\ D \in Nat /\ D > 0 /\ N > D /\ N < 2 * D /\ M \in Nat
      /\ ChunkAlign \in Nat
  BY ClassesAssumption DEF ClassesAssumption
<1>2. r \in Nat /\ c <= r /\ RoundUp(r) = r
  <2> DEFINE k == (c + ChunkAlign - 1) \div ChunkAlign
  <2>1. k \in Nat /\ r = k * ChunkAlign
    BY ClassesAssumption DEF ClassesAssumption, RoundUp
  <2> HIDE DEF k
  <2>2. RoundUp(k * ChunkAlign) = k * ChunkAlign
    BY <2>1, RoundUpDoes
  <2> QED BY <2>1, <2>2, <1>1, RoundUpDoes
<1>3. Step = 1
  <2>1. Step * D <= N /\ Step \in Nat /\ N < Step * D + D
    BY <1>1, StepDoes DEF Step
  <2>2. Step >= 2 => Step * D >= 2 * D
    BY ONLY <1>1, <2>1
  <2>3. Step = 0 => Step * D = 0
    BY ONLY <1>1
  <2> DEFINE p == Step * D
  <2>4. p \in Nat
    BY ONLY <1>1, <2>1
  <2> HIDE DEF p, D, N
  <2> QED BY <1>1, <2>1, <2>2, <2>3, <2>4 DEF p
<1>4. 0 \in B
  OBVIOUS
<1>5. ASSUME NEW m \in Nat, m \in B PROVE m + 1 \in B
  <2> DEFINE l == m + 1
  <2>1. l \in Nat /\ m = l - 1 /\ (l \in 1 .. P => l = 1 \/ m \in 1 .. P)
    BY <1>1
  <2> HIDE DEF l, P, c, r
  <2>2. ASSUME l \in 1 .. P PROVE size[l] = c \/ size[l] = r
    <3>1. CASE l = 1
      BY <3>1, SizeDoes DEF c
    <3>2. CASE l # 1
      <4>1. size[l - 1] = c \/ size[l - 1] = r
        BY <2>1, <2>2, <3>2, <1>5
      <4>2. RoundUp(size[l - 1]) = r
        BY <4>1, <1>2 DEF r
      <4>3. size[l] = r * Step
        BY <2>2, <3>2, <4>2, SizeDoes DEF P
      <4> QED BY <4>3, <1>2, <1>3
    <3> QED BY <3>1, <3>2
  <2>3. l \in B
    BY <2>1, <2>2
  <2> QED BY <2>3 DEF l
<1> HIDE DEF B
<1>6. \A n \in Nat : n \in B
  BY <1>4, <1>5, FromZero
<1>7. \A i \in 1 .. P : size[i] = c \/ size[i] = r
  BY <1>6, <1>1 DEF B
<1>8. \A i \in 1 .. P : LoopEnds(i) => i = P
  <2> SUFFICES ASSUME NEW i \in 1 .. P, LoopEnds(i), i # P PROVE FALSE
    OBVIOUS
  <2>1. size[i] * N > M * D
    BY DEF LoopEnds
  <2>2. c * N <= r * N /\ r * N <= M * D
    <3>1. c * N <= r * N
      BY ONLY <1>1, <1>2
    <3> QED BY <3>1
  <2> DEFINE a == c * N
             b == r * N
             e == M * D
  <2>3. a \in Nat /\ b \in Nat /\ e \in Nat
    BY ONLY <1>1, <1>2
  <2>4. a > e \/ b > e
    BY <2>1, <1>7
  <2> HIDE DEF a, b, e
  <2>5. a <= b /\ b <= e
    BY <2>2 DEF a, b, e
  <2> QED BY <2>3, <2>4, <2>5
<1>9. LargestClass = P
  BY <1>8, LargestExists
<1>10. ASSUME NEW i \in 1 .. P - 1 PROVE ClassSize[i] = r
  <2>1. i \in 1 .. P /\ i # P
    BY <1>1
  <2>2. ClassSize[i] = RoundUp(size[i])
    BY <2>1, <1>9 DEF ClassSize
  <2> QED BY <2>1, <2>2, <1>2, <1>7
<1> QED BY <1>9, <1>10
-------------------------------------------------------------------------------
(* What is requested *)

\* A sum does not depend on the order in which SumFunction adds.
AnyOrder(f, h) == \A s \in SUBSET DOMAIN f : h[s] \in Int /\ \A y \in s : h[s] = f[y] + h[s \ {y}]

LEMMA SumAnyOrder ==
  ASSUME NEW D, IsFiniteSet(D), NEW f \in [D -> Int], NEW h, IsSum(f, h)
  PROVE  AnyOrder(f, h)
<1> DEFINE A == {s \in SUBSET D : h[s] \in Int}
           B == {s \in SUBSET D : \A y \in s : h[s] = f[y] + h[s \ {y}]}
<1>1. ASSUME NEW s \in SUBSET D
      PROVE  (s = {} /\ h[s] = 0) \/ \E x \in s : h[s] = f[x] + h[s \ {x}]
  BY DEF IsSum, Added
<1>2. ASSUME NEW s \in SUBSET D, \A x \in s : s \ {x} \in A PROVE s \in A
  <2>1. CASE s = {} /\ h[s] = 0
    BY <2>1
  <2>2. CASE \E x \in s : h[s] = f[x] + h[s \ {x}]
    <3>1. PICK x \in s : h[s] = f[x] + h[s \ {x}]
      BY <2>2
    <3>2. h[s \ {x}] \in Int /\ f[x] \in Int
      BY <1>2
    <3>3. h[s] \in Int
      BY <3>1, <3>2
    <3> QED BY <3>3
  <2> QED BY <1>1, <2>1, <2>2
<1>3. SUBSET D \subseteq A
  <2> HIDE DEF A
  <2> QED BY <1>2, FromEmpty
<1>4. ASSUME NEW s \in SUBSET D, \A x \in s : s \ {x} \in B PROVE s \in B
  <2>1. CASE s = {}
    BY <2>1
  <2>2. CASE s # {}
    <3>1. PICK x \in s : h[s] = f[x] + h[s \ {x}]
      BY <1>1, <2>2
    <3>2. ASSUME NEW y \in s, y # x PROVE h[s] = f[y] + h[s \ {y}]
      <4> DEFINE t == s \ {x, y}
      <4>1. y \in s \ {x} /\ (s \ {x}) \ {y} = t /\ x \in s \ {y} /\ (s \ {y}) \ {x} = t
        BY <3>2
      <4>2. s \ {x} \in B /\ s \ {y} \in B
        BY <1>4
      <4>3. h[s \ {x}] = f[y] + h[t]
        BY <4>1, <4>2
      <4>4. h[s \ {y}] = f[x] + h[t]
        BY <4>1, <4>2
      <4>5. h[t] \in Int /\ f[x] \in Int /\ f[y] \in Int
        BY <1>3
      <4> HIDE DEF t
      <4> QED BY <3>1, <4>3, <4>4, <4>5
    <3> QED BY <3>1, <3>2
  <2> QED BY <2>1, <2>2
<1>5. SUBSET D \subseteq B
  <2> HIDE DEF B
  <2> QED BY <1>4, FromEmpty
<1> QED BY <1>3, <1>5 DEF AnyOrder

\* One summand more.
LEMMA SumAdds ==
  ASSUME NEW D, IsFiniteSet(D), NEW x, x \notin D,
         NEW f \in [D \cup {x} -> Int], NEW g \in [D -> Int], \A d \in D : g[d] = f[d]
  PROVE  SumFunction(g) \in Int /\ SumFunction(f) = SumFunction(g) + f[x]
<1> DEFINE E == D \cup {x}
<1>0. IsFiniteSet(E) /\ D \in SUBSET E /\ E \ {x} = D /\ x \in E
  BY FS_AddElement
<1>1. PICK h : IsSum(f, h) /\ SumFunction(f) = h[E]
  BY <1>0, SumIs
<1>2. PICK k : IsSum(g, k) /\ SumFunction(g) = k[D]
  BY SumIs
<1>3. \A s \in SUBSET E : h[s] \in Int /\ \A y \in s : h[s] = f[y] + h[s \ {y}]
  <2>1. f \in [E -> Int] /\ IsFiniteSet(E) /\ IsSum(f, h) /\ DOMAIN f = E
    BY <1>0, <1>1
  <2> HIDE DEF E
  <2>2. AnyOrder(f, h)
    BY ONLY <2>1, SumAnyOrder
  <2> QED BY <2>1, <2>2 DEF AnyOrder
<1> DEFINE B == {s \in SUBSET D : h[s] = k[s]}
<1>4. ASSUME NEW s \in SUBSET D, \A y \in s : s \ {y} \in B PROVE s \in B
  <2>1. k[s] = Added(g, k, s)
    BY <1>2 DEF IsSum
  <2>2. CASE s = {}
    BY <1>1, <2>1, <2>2 DEF Added, IsSum
  <2>3. CASE s # {}
    <3>1. PICK y \in s : k[s] = g[y] + k[s \ {y}]
      BY <2>1, <2>3 DEF Added
    <3>2. h[s] = f[y] + h[s \ {y}] /\ h[s \ {y}] = k[s \ {y}] /\ g[y] = f[y]
      BY <1>3, <1>4
    <3> QED BY <3>1, <3>2
  <2> QED BY <2>2, <2>3
<1>5. SUBSET D \subseteq B
  <2> HIDE DEF B
  <2> QED BY <1>4, FromEmpty
<1>6. h[D] = k[D]
  BY <1>5
<1>7. h[E] = f[x] + h[D] /\ h[D] \in Int /\ f[x] \in Int
  <2>1. f[x] \in Int
    OBVIOUS
  <2> HIDE DEF E
  <2>2. E \in SUBSET E /\ h[E] = f[x] + h[E \ {x}] /\ h[D] \in Int
    BY <1>0, <1>3
  <2> QED BY <1>0, <2>1, <2>2
<1> HIDE DEF E
<1> QED BY <1>1, <1>2, <1>6, <1>7

\* What was asked for, of class id in T.
Total(T, id) == SumFunction([b \in Of(T, id) |-> b.n])

\* One chunk more in T is its bytes more in its class.
LEMMA TotalMore ==
  ASSUME NEW T, IsFiniteSet(T), NEW c, \A b \in T \cup {c} : b.n \in Int, NEW U, More(T, U, c), NEW id
  PROVE  /\ Total(T, id) \in Int
         /\ Total(U, id) = IF id = c.id THEN Total(T, id) + c.n ELSE Total(T, id)
<1> DEFINE D == Of(T, id)
           f == [b \in Of(U, id) |-> b.n]
           g == [b \in D |-> b.n]
<1>1. D \subseteq T /\ c \notin D /\ IsFiniteSet(D)
  BY FS_Subset DEF Of, More
<1>2. g \in [D -> Int]
  BY <1>1
<1>3. CASE id = c.id
  <2>1. Of(U, id) = D \cup {c} /\ c \notin D
    BY <1>3 DEF Of, More
  <2>2. f \in [D \cup {c} -> Int] /\ f[c] = c.n /\ \A d \in D : g[d] = f[d]
    BY <1>1, <2>1
  <2> HIDE DEF D, f, g
  <2>3. SumFunction(g) \in Int /\ SumFunction(f) = SumFunction(g) + f[c]
    BY ONLY <1>1, <1>2, <2>1, <2>2, SumAdds
  <2> QED BY <1>3, <2>2, <2>3 DEF Total, D, f, g
<1>4. CASE id # c.id
  <2>1. Of(U, id) = D
    BY <1>4 DEF Of, More
  <2>2. Total(T, id) \in Int
    <3> HIDE DEF D, g
    <3>1. SumFunction(g) \in Int
      BY <1>1, <1>2, SumType
    <3> QED BY <3>1 DEF Total, D, g
  <2> QED BY <1>4, <2>1, <2>2 DEF Total
<1> QED BY <1>3, <1>4

\* `requested' counts what is in use and what was lost in use.
RequestedIsTaken == \A id \in Classes : slabclass[id].requested = Total(Taken, id)

\* A chunk more that is handed out, and counted.
LEMMA RequestedMore ==
  ASSUME RequestedIsTaken, Fresh, lost' = lost, IsFiniteSet(Taken), TypeOK', TypeOK,
         NEW n \in Nat, NEW id \in Classes, NEW at, Hold(at, n, id),
         NEW q, SetClass(id, q), q.requested = slabclass[id].requested + n
  PROVE  RequestedIsTaken'
<1> DEFINE c == Chunk(at, n, id)
<1>1. held' = held \cup {c} /\ c.n = n /\ c.id = id
  BY DEF Hold, Chunk
<1>2. PICK d : d \notin Taken /\ held' = held \cup {d}
  BY DEF Fresh
<1> HIDE DEF c
<1>3. d = c
  BY <1>1, <1>2 DEF Taken
<1>4. More(Taken, Taken', c)
  BY <1>1, <1>2, <1>3 DEF Taken, More
<1>5. PICK T, U : T = Taken /\ U = Taken'
  OBVIOUS
<1>6. \A b \in T \cup {c} : b.n \in Int
  BY <1>1, <1>5 DEF TypeOK, HeldChunk, Taken
<1>7. \A jd \in Classes : Total(T, jd) \in Int /\ Total(U, jd) = IF jd = id THEN Total(T, jd) + n ELSE Total(T, jd)
  BY <1>1, <1>4, <1>5, <1>6, TotalMore
<1>8. slabclass'[id] = q /\ \A jd \in Classes \ {id} : slabclass'[jd] = slabclass[jd]
  BY DEF SetClass, TypeOK
<1>9. \A jd \in Classes : Total(Taken, jd)' = Total(U, jd) /\ slabclass[jd].requested = Total(T, jd)
  BY <1>5 DEF RequestedIsTaken, Total
<1> QED BY <1>7, <1>8, <1>9 DEF RequestedIsTaken

\* Only a reclaim changes what is in use without counting it.
LEMMA StepRequested ==
  ASSUME IInv, IsFiniteSet(Taken), RequestedIsTaken, ~MaySteal, [Next]_vars
  PROVE  RequestedIsTaken'
<1>0. TypeOK' /\ TypeOK /\ RestsExact /\ LostIsLost
  BY NextTypeOK DEF IInv
<1>1. ASSUME NEW n \in Requests, NEW id \in Classes, AllocSlot(n, id) PROVE RequestedIsTaken'
  <2> DEFINE p == slabclass[id]
             q == FromSlots(p, n)
  <2>1. Fresh
    BY <1>0, <1>1, AllocSlotKeeps DEF IInv
  <2>2. SetClass(id, q) /\ Hold(p.slots[Len(p.slots)], n, id) /\ lost' = lost
    BY <1>1 DEF AllocSlot
  <2>3. q.requested = p.requested + n
    BY <1>0, ClassHasType DEF FromSlots, SlabClass
  <2> HIDE DEF q
  <2> QED BY <1>0, <2>1, <2>2, <2>3, RequestedMore
<1>2. ASSUME NEW n \in Requests, NEW id \in Classes, AllocEndPage(n, id) PROVE RequestedIsTaken'
  <2> DEFINE p == slabclass[id]
             q == FromPage(p, id, n)
  <2>1. Fresh
    BY <1>0, <1>2, AllocEndPageKeeps DEF IInv
  <2>2. SetClass(id, q) /\ Hold(p.end_page_ptr, n, id) /\ lost' = lost
    BY <1>2 DEF AllocEndPage
  <2>3. q.requested = p.requested + n
    BY <1>0, ClassHasType DEF FromPage, SlabClass
  <2> HIDE DEF q
  <2> QED BY <1>0, <2>1, <2>2, <2>3, RequestedMore
<1>3. ASSUME NEW n \in Requests, NEW id \in Classes, AllocNewSlab(n, id) PROVE RequestedIsTaken'
  <2> DEFINE p == slabclass[id]
             q == FromPage(NewSlab(p, id), id, n)
  <2>1. Fresh
    BY <1>0, <1>3, AllocNewSlabKeeps DEF IInv
  <2>2. SetClass(id, q) /\ Hold(mem_current, n, id) /\ lost' = lost
    BY <1>3 DEF AllocNewSlab
  <2>3. q.requested = p.requested + n
    BY <1>0, ClassHasType DEF FromPage, NewSlab, SlabClass
  <2> HIDE DEF q
  <2> QED BY <1>0, <2>1, <2>2, <2>3, RequestedMore
<1>4. ASSUME \A id \in Classes : slabclass'[id].requested = slabclass[id].requested, Taken' = Taken
      PROVE  RequestedIsTaken'
  BY <1>4 DEF RequestedIsTaken, Total
<1>5. ASSUME NEW n \in Requests, NEW id \in Classes, AllocFails(n, id) PROVE RequestedIsTaken'
  <2> DEFINE p == slabclass[id]
             q == [p EXCEPT !.list_size = Grown(p.list_size, p.slabs)]
  <2>1. q.requested = p.requested
    BY <1>0, ClassHasType DEF SlabClass
  <2>2. SetClass(id, q) /\ Taken' = Taken
    BY <1>5 DEF AllocFails, Taken
  <2> HIDE DEF q
  <2>3. slabclass'[id] = q /\ \A jd \in Classes \ {id} : slabclass'[jd] = slabclass[jd]
    BY <1>0, <2>2 DEF SetClass, TypeOK
  <2> QED BY <1>4, <2>1, <2>2, <2>3
<1>6. ASSUME NEW b \in held, Free(b) PROVE RequestedIsTaken'
  <2> DEFINE id == b.id
             p == slabclass[id]
             q == [p EXCEPT !.sl_total = Grown(p.sl_total, Len(p.slots)),
                            !.slots = Append(@, b.at), !.requested = @ - b.n]
  <2>1. b \in HeldChunk /\ id \in Classes /\ b \notin lost
    BY <1>0 DEF TypeOK, HeldChunk, LostIsLost
  <2>2. q.requested = p.requested - b.n /\ p.requested \in Int
    BY <1>0, <2>1, ClassHasType DEF SlabClass
  <2>3. SetClass(id, q) /\ More(Taken', Taken, b)
    BY <1>6, <2>1 DEF Free, Taken, More
  <2> HIDE DEF q
  <2>4. slabclass'[id] = q /\ \A jd \in Classes \ {id} : slabclass'[jd] = slabclass[jd]
    BY <1>0, <2>1, <2>3 DEF SetClass, TypeOK
  <2> HIDE DEF id
  <2>5. PICK T, U : T = Taken /\ U = Taken'
    OBVIOUS
  <2>6. IsFiniteSet(U) /\ \A d \in U \cup {b} : d.n \in Int
    <3>1. U \subseteq T
      BY <2>3, <2>5 DEF More
    <3> QED BY <1>0, <2>1, <2>5, <3>1, FS_Subset DEF TypeOK, HeldChunk, Taken
  <2>7. \A jd \in Classes : Total(U, jd) \in Int /\ Total(T, jd) = IF jd = id THEN Total(U, jd) + b.n ELSE Total(U, jd)
    BY <2>3, <2>5, <2>6, TotalMore DEF id
  <2>8. \A jd \in Classes : Total(Taken, jd)' = Total(U, jd) /\ slabclass[jd].requested = Total(T, jd)
    BY <2>5 DEF RequestedIsTaken, Total
  <2>9. b.n \in Int
    BY <2>6
  <2> QED BY <2>1, <2>2, <2>4, <2>7, <2>8, <2>9 DEF RequestedIsTaken
<1>7. ASSUME NEW b \in held, FreeFails(b) PROVE RequestedIsTaken'
  BY <1>4, <1>7 DEF FreeFails, Taken
<1>8. ~ \E b \in held, n \in Requests : Steal(b, n)
  BY DEF Steal
<1>9. CASE UNCHANGED vars
  BY <1>4, <1>9 DEF vars, Taken
<1> QED BY <1>1, <1>2, <1>3, <1>5, <1>6, <1>7, <1>8, <1>9 DEF Next, slabs_alloc, slabs_free

\* mem_requested of "stats slabs" is the size of the items in use as long as no
\* expired one gives its chunk to another item and no realloc fails: of all that
\* items.c and slabs.c do, those two alone make it wrong (SlabsStolen.cfg does).
THEOREM RequestedExact == ~MaySteal /\ ~MayFail /\ Spec => []RequestedIsHeld
<1> DEFINE Inv == IInv /\ Accounted /\ RequestedIsTaken /\ lost = {}
<1> SUFFICES ASSUME ~MaySteal, ~MayFail PROVE Spec => []RequestedIsHeld
  OBVIOUS
<1>1. Init => Inv
  <2> SUFFICES ASSUME Init PROVE Inv
    OBVIOUS
  <2>1. Taken = {} /\ lost = {} /\ \A id \in Classes : slabclass[id].requested = 0
    BY DEF Init, Taken, EmptyClass
  <2>2. ASSUME NEW id \in Classes PROVE Total(Taken, id) = 0
    <3> DEFINE f == [b \in Of(Taken, id) |-> b.n]
               D == Of(Taken, id)
    <3>1. D = {} /\ IsFiniteSet(D)
      BY <2>1, FS_EmptySet DEF Of
    <3>2. f \in [D -> Int] /\ \A d \in D : f[d] = 0
      BY <3>1
    <3> HIDE DEF f, D
    <3>3. SumFunction(f) = 0
      BY <3>1, <3>2, SumOfNone
    <3> QED BY <3>3 DEF Total, f, D
  <2> QED BY <2>1, <2>2, InitIInv, InitAccounted DEF RequestedIsTaken
<1>2. ASSUME Inv, [Next]_vars PROVE Inv'
  <2>1. lost' = lost
    <3> HIDE DEF Inv
    <3>1. ASSUME NEW n \in Requests, NEW id \in Classes,
                 AllocSlot(n, id) \/ AllocEndPage(n, id) \/ AllocNewSlab(n, id) \/ AllocFails(n, id)
          PROVE  lost' = lost
      BY <3>1 DEF AllocSlot, AllocEndPage, AllocNewSlab, AllocFails
    <3>2. ASSUME NEW b \in held, Free(b) \/ FreeFails(b) PROVE lost' = lost
      BY <3>2 DEF Free, FreeFails
    <3>3. ASSUME NEW b \in held, NEW n \in Requests, Steal(b, n) PROVE lost' = lost
      BY <3>3 DEF Steal
    <3> QED BY <1>2, <3>1, <3>2, <3>3 DEF Next, vars, slabs_alloc, slabs_free
  <2> QED BY <1>2, <2>1, StepKeeps, StepAccounts, StepRequested DEF Accounted
<1>3. Inv => RequestedIsHeld
  <2> SUFFICES ASSUME Inv, NEW id \in Classes PROVE Drift(id) = 0
    BY DEF RequestedIsHeld
  <2>1. Taken = held
    BY DEF Taken
  <2>2. slabclass[id].requested = Total(held, id) /\ slabclass[id].requested \in Int
    BY <2>1, ClassHasType DEF RequestedIsTaken, IInv
  <2> QED BY <2>2 DEF Drift, Total, Of
<1> HIDE DEF Inv
<1> QED BY <1>1, <1>2, <1>3, PTL DEF Spec
===============================================================================
