-------------------------------- MODULE Slabs ---------------------------------
(***************************************************************************)
(* The slab allocator of memcached 1.4.5 (slabs.c): classes of chunks of   *)
(* one size, cut from pages that are never given back.  An action is one   *)
(* hold of slabs_lock, and what items.c does around it.                    *)
(*                                                                         *)
(* Memory is a line of addresses.  malloc and the large preallocated chunk *)
(* both hand out the next part of it, and 0 is NULL.                       *)
(***************************************************************************)
EXTENDS Integers, Sequences, FiniteSets, Functions

CONSTANTS
  power_largest, Size, Perslab,   \* slabclass[id].size and .perslab, as slabs_init sets them
  mem_limit,      \* -m; 0 is none
  Align,          \* CHUNK_ALIGN_BYTES
  FirstArray,     \* the first length of an array of pointers (16 in the code)
  Requests,       \* the sizes of the items that are asked for
  MayFail,        \* whether malloc and realloc may fail
  MaySteal,       \* whether items expire
  MaxItems,       \* bound on the chunks in use at a time
  MaxLost,        \* bound on the chunks lost
  MaxDrift        \* bound on how far `requested' may be off when a chunk is stolen

Classes == 1 .. power_largest

ASSUME SlabsAssumption ==
  /\ power_largest \in Nat \ {0} /\ Align \in Nat \ {0} /\ FirstArray \in Nat \ {0}
  /\ Size \in [Classes -> Nat \ {0}] /\ Perslab \in [Classes -> Nat \ {0}]
  /\ mem_limit \in Nat /\ Requests \subseteq Nat
  /\ MayFail \in BOOLEAN /\ MaySteal \in BOOLEAN /\ MaxItems \in Nat /\ MaxLost \in Nat /\ MaxDrift \in Nat

VARIABLES
  slabclass,
  mem_malloced,
  mem_base,       \* whether the memory is one large preallocated chunk (-L)
  mem_current,    \* where the next page will lie
  mem_avail,
  held,           \* the chunks items.c has: [at, len, n, id]
  lost            \* those that no array remembers

vars == <<slabclass, mem_malloced, mem_base, mem_current, mem_avail, held, lost>>

PageLen(id) == Size[id] * Perslab[id]

Aligned(n) == IF n % Align = 0 THEN n ELSE n + (Align - (n % Align))

EmptyClass == [slots |-> <<>>, sl_total |-> 0, end_page_ptr |-> 0, end_page_free |-> 0,
               slabs |-> 0, list_size |-> 0, requested |-> 0]

Init ==
  /\ slabclass = [id \in Classes |-> EmptyClass]
  /\ mem_malloced = 0
  /\ mem_base \in BOOLEAN
  /\ mem_current = Align
  /\ mem_avail = IF mem_base THEN mem_limit ELSE 0
  /\ held = {} /\ lost = {}

\* Class id is the first whose chunks are large enough.
slabs_clsid(n, id) == n # 0 /\ n <= Size[id] /\ \A i \in 1 .. id - 1 : n > Size[i]

\* Doubling the length of an array that is full: slots, slab_list.
Grown(length, used) ==
  IF used < length THEN length ELSE IF length = 0 THEN FirstArray ELSE 2 * length

\* Mutant: the new page is not counted.
OverLimit_Before(id) ==
  mem_limit # 0 /\ mem_malloced > mem_limit /\ slabclass[id].slabs > 0

\* The limit does not keep a class from its first page.
OverLimit(id) ==
  mem_limit # 0 /\ mem_malloced + PageLen(id) > mem_limit /\ slabclass[id].slabs > 0

\* Mutant: the large chunk has no end.
MemoryFor_Always(id) == TRUE

MemoryFor(id) == mem_base => PageLen(id) <= mem_avail

memory_allocate(id) ==
  /\ MemoryFor(id)
  /\ mem_current' = mem_current + Aligned(PageLen(id))
  /\ mem_avail' = IF ~mem_base THEN mem_avail
                  ELSE IF Aligned(PageLen(id)) < mem_avail THEN mem_avail - Aligned(PageLen(id)) ELSE 0

\* The class p with a new page at mem_current.
NewSlab(p, id) ==
  [p EXCEPT !.list_size = Grown(p.list_size, p.slabs), !.slabs = @ + 1,
            !.end_page_ptr = mem_current, !.end_page_free = Perslab[id]]

\* Mutant: the page is cut by what was asked for.
FromPage_Short(p, id, n) ==
  [p EXCEPT !.end_page_free = @ - 1, !.requested = @ + n,
            !.end_page_ptr = IF p.end_page_free = 1 THEN 0 ELSE @ + n]

\* Mutant: the last chunk of a page is forgotten.
FromPage_NotLast(p, id, n) ==
  [p EXCEPT !.end_page_free = @ - 1, !.requested = @ + n,
            !.end_page_ptr = IF p.end_page_free <= 2 THEN 0 ELSE @ + Size[id]]

\* The class p after the first chunk that is left of its page has been taken for n bytes.
FromPage(p, id, n) ==
  [p EXCEPT !.end_page_free = @ - 1, !.requested = @ + n,
            !.end_page_ptr = IF p.end_page_free = 1 THEN 0 ELSE @ + Size[id]]

\* Mutant: the chunk stays on the list.
FromSlots_Keep(p, n) == [p EXCEPT !.requested = @ + n]

FromSlots(p, n) ==
  [p EXCEPT !.slots = SubSeq(@, 1, Len(@) - 1), !.requested = @ + n]

Chunk(at, n, id) == [at |-> at, len |-> Size[id], n |-> n, id |-> id]

Hold(at, n, id) == held' = held \cup {Chunk(at, n, id)}

SetClass(id, p) == slabclass' = [slabclass EXCEPT ![id] = p]

\* slabs_alloc, by what it finds: a free chunk, ...
AllocSlot(n, id) ==
  /\ slabs_clsid(n, id)
  /\ LET p == slabclass[id] IN
     /\ p.slots # <<>>
     /\ SetClass(id, FromSlots(p, n))
     /\ Hold(p.slots[Len(p.slots)], n, id)
  /\ UNCHANGED <<mem_malloced, mem_base, mem_current, mem_avail, lost>>

\* ... else the rest of a page, ...
AllocEndPage(n, id) ==
  /\ slabs_clsid(n, id)
  /\ LET p == slabclass[id] IN
     /\ p.slots = <<>> /\ p.end_page_ptr # 0
     /\ SetClass(id, FromPage(p, id, n))
     /\ Hold(p.end_page_ptr, n, id)
  /\ UNCHANGED <<mem_malloced, mem_base, mem_current, mem_avail, lost>>

\* ... else a new page, if do_slabs_newslab gets one, ...
AllocNewSlab(n, id) ==
  /\ slabs_clsid(n, id)
  /\ LET p == slabclass[id] IN
     /\ p.slots = <<>> /\ p.end_page_ptr = 0
     /\ ~OverLimit(id)
     /\ memory_allocate(id)
     /\ SetClass(id, FromPage(NewSlab(p, id), id, n))
     /\ Hold(mem_current, n, id)
  /\ mem_malloced' = mem_malloced + PageLen(id)
  /\ UNCHANGED <<mem_base, lost>>

\* ... else none, when the array of pages may have grown for nothing.
AllocFails(n, id) ==
  /\ slabs_clsid(n, id)
  /\ LET p == slabclass[id] IN
     /\ p.slots = <<>> /\ p.end_page_ptr = 0
     /\ ~OverLimit(id)
     /\ (MayFail /\ ~mem_base) \/ ~MemoryFor(id)
     /\ SetClass(id, [p EXCEPT !.list_size = Grown(p.list_size, p.slabs)])
  /\ UNCHANGED <<mem_malloced, mem_base, mem_current, mem_avail, held, lost>>

\* slabs_free: the chunk becomes a free one of its class, ...
Free(b) ==
  /\ LET p == slabclass[b.id] IN
     SetClass(b.id, [p EXCEPT !.sl_total = Grown(p.sl_total, Len(p.slots)),
                              !.slots = Append(@, b.at), !.requested = @ - b.n])
  /\ held' = held \ {b}
  /\ UNCHANGED <<mem_malloced, mem_base, mem_current, mem_avail, lost>>

\* ... unless the array of free chunks is full and cannot grow.
FreeFails(b) ==
  /\ MayFail /\ Cardinality(lost) < MaxLost
  /\ Len(slabclass[b.id].slots) = slabclass[b.id].sl_total
  /\ held' = held \ {b} /\ lost' = lost \cup {b}
  /\ UNCHANGED <<slabclass, mem_malloced, mem_base, mem_current, mem_avail>>

\* What `requested' is too high for the items in use.
Drift(id) == slabclass[id].requested - SumFunction([b \in {h \in held : h.id = id} |-> b.n])

\* do_item_alloc takes the chunk of an expired item for a new one, and leaves
\* the allocator out of it.
Steal(b, n) ==
  /\ MaySteal /\ Drift(b.id) \in -MaxDrift .. MaxDrift
  /\ slabs_clsid(n, b.id)
  /\ held' = (held \ {b}) \cup {[b EXCEPT !.n = n]}
  /\ UNCHANGED <<slabclass, mem_malloced, mem_base, mem_current, mem_avail, lost>>

slabs_alloc(n) ==
  /\ Cardinality(held) < MaxItems
  /\ \E id \in Classes :
       AllocSlot(n, id) \/ AllocEndPage(n, id) \/ AllocNewSlab(n, id) \/ AllocFails(n, id)

slabs_free(b) == Free(b) \/ FreeFails(b)

Next ==
  \/ \E n \in Requests : slabs_alloc(n)
  \/ \E b \in held : slabs_free(b)
  \/ \E b \in held, n \in Requests : Steal(b, n)

Spec == Init /\ [][Next]_vars
-------------------------------------------------------------------------------
SlabClass == [slots : Seq(Nat \ {0}), sl_total : Nat, end_page_ptr : Nat, end_page_free : Nat,
              slabs : Nat, list_size : Nat, requested : Int]
HeldChunk == [at : Nat \ {0}, len : Nat \ {0}, n : Nat, id : Classes]

\* The type invariant: the structures of slabs.c, and a chunk in use is as long
\* as its class says and holds what was asked for.
TypeOK ==
  /\ slabclass \in [Classes -> SlabClass]
  /\ mem_malloced \in Nat /\ mem_base \in BOOLEAN
  /\ mem_current \in Nat \ {0} /\ mem_avail \in Nat
  /\ held \subseteq HeldChunk /\ lost \subseteq HeldChunk
  /\ \A b \in held \cup lost : b.len = Size[b.id] /\ b.n <= b.len

Apart(a, b) == a.at + a.len <= b.at \/ b.at + b.len <= a.at

\* What slabs.c can still hand out: free chunks, and the rests of pages.
Slot(id, i) == [at |-> slabclass[id].slots[i], len |-> Size[id]]
Slots(id)   == DOMAIN slabclass[id].slots
Rest(id)    == [at |-> slabclass[id].end_page_ptr, len |-> slabclass[id].end_page_free * Size[id]]
HasRest     == {id \in Classes : slabclass[id].end_page_ptr # 0}
Taken       == held \cup lost

\* No two pieces of memory overlap, whoever has them: do_slabs_alloc hands out
\* nothing twice, though a class keeps its memory in two places and shares the
\* line of addresses with all others.
NoOverlap ==
  /\ \A a, b \in Taken : a # b => Apart(a, b)
  /\ \A id \in Classes : \A i \in Slots(id), b \in Taken : Apart(Slot(id, i), b)
  /\ \A id, jd \in Classes : \A i \in Slots(id), j \in Slots(jd) :
       <<id, i>> # <<jd, j>> => Apart(Slot(id, i), Slot(jd, j))
  /\ \A id \in HasRest :
       /\ \A b \in Taken : Apart(Rest(id), b)
       /\ \A jd \in Classes : \A j \in Slots(jd) : Apart(Rest(id), Slot(jd, j))
       /\ \A jd \in HasRest \ {id} : Apart(Rest(id), Rest(jd))

\* Every chunk lies in memory that was allocated, and under -L in the one large
\* chunk, whose end memory_allocate watches by mem_avail and not by mem_current.
MemoryEnd == IF mem_base THEN Align + mem_limit ELSE mem_current
InsideMemory ==
  /\ \A b \in Taken : b.at + b.len <= MemoryEnd
  /\ \A id \in Classes : \A i \in Slots(id) : Slot(id, i).at + Size[id] <= MemoryEnd
  /\ \A id \in HasRest : Rest(id).at + Rest(id).len <= MemoryEnd

\* The chunks of a class's pages are in use, free, not yet cut or lost to a
\* failed realloc: do_slabs_alloc and do_slabs_free lose no other.
ChunksConserved == \A id \in Classes : LET p == slabclass[id] IN
  p.slabs * Perslab[id] = Len(p.slots) + p.end_page_free + Cardinality({b \in Taken : b.id = id})

\* The arrays of pointers are as long as their users take them to be.
ArraysLongEnough == \A id \in Classes : LET p == slabclass[id] IN
  Len(p.slots) <= p.sl_total /\ p.slabs <= p.list_size

\* mem_malloced counts the pages, and what exceeds the limit are first pages:
\* those of all classes but one, which has a page more.
FirstPages(ids) == SumFunction([id \in ids |-> IF slabclass[id].slabs > 0 THEN PageLen(id) ELSE 0])
WithinLimit ==
  /\ mem_malloced = SumFunction([id \in Classes |-> slabclass[id].slabs * PageLen(id)])
  /\ mem_limit # 0 =>
       \/ \A id \in Classes : slabclass[id].slabs <= 1
       \/ \E id \in Classes : /\ slabclass[id].slabs > 1
                             /\ mem_malloced <= mem_limit + FirstPages(Classes \ {id})

\* stats slabs: "mem_requested shows the size of all items within a slab".
RequestedIsHeld == \A id \in Classes : Drift(id) = 0

\* The pages follow one another, so a chunk is a piece of memory nobody else
\* has: the allocator does what Chunks promises.
Memory == INSTANCE Chunks
ImplementsChunks == Memory!Spec
===============================================================================
