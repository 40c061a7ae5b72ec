--------------------------- MODULE ReplicationProofs ---------------------------
(***************************************************************************)
(* For any keys, any limit of the queue and of the kernel's buffers, any   *)
(* batch and any commands, crashes and signals: the types of two servers   *)
(* that replicate each other, the account of their queues, and what the    *)
(* backup shows.                                                           *)
(***************************************************************************)
EXTENDS Replication, FiniteSetTheorems, WellFoundedInduction, TLAPS

-------------------------------------------------------------------------------
(* Numbers, sequences and queue items *)

\* A set of natural numbers has a least element: what the inductions here rest on.
LEMMA LessThanIsWellFounded == IsWellFoundedOn({p \in Nat \X Nat : p[1] < p[2]}, Nat)
<1>1. OpToRel(<, Nat) = {p \in Nat \X Nat : p[1] < p[2]}
  BY DEF OpToRel
<1> QED BY <1>1, NatLessThanWellFounded

\* A non-empty set of natural numbers has a least element: the induction over a queue rests on it.
LEMMA Least ==
  ASSUME NEW S \in SUBSET Nat, S # {}
  PROVE  \E n \in S : \A m \in S : n <= m
<1> DEFINE R == {p \in Nat \X Nat : p[1] < p[2]}
<1>1. IsWellFoundedOn(R, Nat)
  BY LessThanIsWellFounded
<1>2. PICK x \in S : \A y \in S : ~ (<<y, x>> \in R)
  <2> HIDE DEF R
  <2> QED BY <1>1, WFMin
<1>3. ASSUME NEW m \in S PROVE x <= m
  <2>1. ~(<<m, x>> \in R) /\ m \in Nat /\ x \in Nat
    BY <1>2
  <2>2. <<m, x>> \in Nat \X Nat /\ <<m, x>>[1] = m /\ <<m, x>>[2] = x
    BY <2>1
  <2>3. ~(m < x)
    BY <2>1, <2>2, Zenon
  <2> QED BY <2>1, <2>3
<1> QED BY <1>3

Marked(p) == {j \in DOMAIN p : p[j] # ExitMark}

\* The items of a pipe are finitely many, no more than it is long.
LEMMA OutstandingType ==
  ASSUME NEW S, NEW p \in Seq(S)
  PROVE  /\ IsFiniteSet(Marked(p)) /\ Outstanding(p) = Cardinality(Marked(p))
         /\ Outstanding(p) \in Nat /\ Outstanding(p) <= Len(p)
<1>1. Marked(p) \in SUBSET (1 .. Len(p)) /\ Len(p) \in Nat
  BY DEF Marked
<1>2. IsFiniteSet(1 .. Len(p)) /\ Cardinality(1 .. Len(p)) = Len(p)
  <2>1. Len(p) \in Nat
    BY <1>1
  <2> DEFINE n == Len(p)
  <2>2. n \in Nat
    BY <2>1
  <2> HIDE DEF n
  <2>3. 1 \in Int /\ n \in Int
    BY <2>2
  <2>4. IsFiniteSet(1 .. n) /\ Cardinality(1 .. n) = IF 1 > n THEN 0 ELSE n - 1 + 1
    BY <2>3, FS_Interval
  <2>5. Cardinality(1 .. n) = n
    BY <2>2, <2>4
  <2> QED BY <2>4, <2>5 DEF n
<1>3. IsFiniteSet(Marked(p)) /\ Cardinality(Marked(p)) <= Len(p)
  BY <1>1, <1>2, FS_Subset
<1>4. Outstanding(p) = Cardinality(Marked(p))
  BY DEF Outstanding, Marked
<1> QED BY <1>3, <1>4, FS_CardinalityType

\* There are items in a pipe when something in it is no exit mark.
LEMMA OutstandingOne ==
  ASSUME NEW S, NEW p \in Seq(S)
  PROVE  /\ (\E j \in 1 .. Len(p) : p[j] # ExitMark) => Outstanding(p) > 0
         /\ Outstanding(p) > 0 => \E j \in 1 .. Len(p) : p[j] # ExitMark
<1>1. IsFiniteSet(Marked(p)) /\ Outstanding(p) = Cardinality(Marked(p)) /\ Outstanding(p) \in Nat
  BY OutstandingType
<1>2. Outstanding(p) = 0 <=> Marked(p) = {}
  BY <1>1, FS_EmptySet
<1> QED BY <1>1, <1>2 DEF Marked

\* An empty pipe has no items.
LEMMA OutstandingNone == Outstanding(<<>>) = 0
<1>1. <<>> \in Seq(ItemType) /\ Len(<<>>) = 0
  OBVIOUS
<1>2. Outstanding(<<>>) \in Nat /\ Outstanding(<<>>) <= 0
  BY <1>1, OutstandingType
<1> QED BY <1>2

\* One more in the pipe is one more item, the exit mark apart.
LEMMA OutstandingAppend ==
  ASSUME NEW S, NEW p \in Seq(S), NEW i \in S
  PROVE  Outstanding(Append(p, i)) = Outstanding(p) + (IF i = ExitMark THEN 0 ELSE 1)
<1> DEFINE q == Append(p, i)
           n == Len(p) + 1
<1>1. q \in Seq(S) /\ Len(q) = n /\ Len(p) \in Nat /\ q[n] = i /\ \A j \in 1 .. Len(p) : q[j] = p[j]
  OBVIOUS
<1>3. DOMAIN q = 1 .. n /\ DOMAIN p = 1 .. Len(p)
  BY <1>1
<1>2. n \notin Marked(p) /\ Marked(p) \subseteq 1 .. Len(p)
  BY <1>1, <1>3 DEF Marked
<1> HIDE DEF q
<1>4. CASE i = ExitMark
  <2>1. Marked(q) = Marked(p)
    BY <1>1, <1>3, <1>4 DEF Marked
  <2>2. Outstanding(p) = Cardinality(Marked(p)) /\ Outstanding(q) = Cardinality(Marked(q)) /\ Outstanding(p) \in Nat
    BY <1>1, OutstandingType
  <2>3. Outstanding(q) = Outstanding(p) + 0
    BY <2>1, <2>2
  <2> QED BY <2>3, <1>4 DEF q
<1>5. CASE i # ExitMark
  <2>1. Marked(q) = Marked(p) \cup {n}
    BY <1>1, <1>3, <1>5 DEF Marked
  <2>2. IsFiniteSet(Marked(p))
    BY OutstandingType
  <2>3. Cardinality(Marked(q)) = Cardinality(Marked(p)) + 1
    BY <2>1, <2>2, <1>2, FS_AddElement
  <2>4. Outstanding(p) = Cardinality(Marked(p)) /\ Outstanding(q) = Cardinality(Marked(q))
    BY <1>1, OutstandingType
  <2> QED BY <2>3, <2>4, <1>5 DEF q
<1> QED BY <1>4, <1>5

\* What was read of a pipe and what was not have all its items between them.
LEMMA OutstandingSplit ==
  ASSUME NEW S, NEW p \in Seq(S), NEW r \in 0 .. Len(p)
  PROVE  /\ SubSeq(p, 1, r) \in Seq(S) /\ SubSeq(p, r + 1, Len(p)) \in Seq(S)
         /\ Outstanding(p) = Outstanding(SubSeq(p, 1, r)) + Outstanding(SubSeq(p, r + 1, Len(p)))
<1> DEFINE a == SubSeq(p, 1, r)
           b == SubSeq(p, r + 1, Len(p))
           B == {j \in Marked(p) : j > r}
           A == Marked(a)
           f == [j \in Marked(b) |-> j + r]
<1>1. /\ a \in Seq(S) /\ b \in Seq(S) /\ Len(a) = r /\ Len(b) = Len(p) - r /\ Len(p) \in Nat /\ r \in Nat /\ r <= Len(p)
      /\ \A j \in 1 .. r : a[j] = p[j]
      /\ \A j \in 1 .. Len(p) - r : b[j] = p[r + j]
  OBVIOUS
<1>0. DOMAIN a = 1 .. r /\ DOMAIN b = 1 .. Len(p) - r /\ DOMAIN p = 1 .. Len(p)
  BY <1>1
<1>2. /\ IsFiniteSet(Marked(p)) /\ IsFiniteSet(A) /\ IsFiniteSet(Marked(b))
      /\ Outstanding(p) = Cardinality(Marked(p)) /\ Outstanding(a) = Cardinality(A)
      /\ Outstanding(b) = Cardinality(Marked(b))
  BY <1>1, OutstandingType
<1> HIDE DEF a, b
<1>3. A = {j \in Marked(p) : j <= r}
  BY <1>0, <1>1 DEF Marked
<1>4. Marked(p) = A \cup B /\ A \cap B = {}
  BY <1>0, <1>1, <1>3 DEF Marked
<1>5. IsFiniteSet(B)
  BY <1>2, FS_Subset
<1> HIDE DEF A, B
<1>6. Cardinality(Marked(p)) = Cardinality(A) + Cardinality(B)
  <2>1. Cardinality(A \cap B) = 0
    BY <1>4, FS_EmptySet
  <2>2. Cardinality(A \cup B) = Cardinality(A) + Cardinality(B) - Cardinality(A \cap B)
    BY <1>2, <1>5, FS_Union
  <2>3. Cardinality(A) \in Nat /\ Cardinality(B) \in Nat
    BY <1>2, <1>5, FS_CardinalityType
  <2> QED BY <2>1, <2>2, <2>3, <1>4
<1>7. f \in Bijection(Marked(b), B)
  <2> USE DEF B
  <2>1. Marked(b) \subseteq 1 .. Len(p) - r /\ B \subseteq r + 1 .. Len(p)
    BY <1>0, <1>1 DEF Marked
  <2>2. ASSUME NEW j \in Marked(b) PROVE f[j] = j + r /\ f[j] \in B
    BY <2>1, <1>0, <1>1 DEF Marked
  <2>3. ASSUME NEW j \in B PROVE \E i \in Marked(b) : f[i] = j
    <3>1. j - r \in Marked(b) /\ (j - r) + r = j
      BY <2>1, <1>0, <1>1 DEF Marked
    <3> QED BY <3>1
  <2>4. ASSUME NEW i \in Marked(b), NEW j \in Marked(b), f[i] = f[j] PROVE i = j
    BY <2>1, <2>2, <2>4, <1>1
  <2>5. f \in [Marked(b) -> B]
    BY <2>2
  <2> HIDE DEF f
  <2> QED BY <2>3, <2>4, <2>5 DEF Bijection, Injection, Surjection, IsInjective
<1>8. Cardinality(B) = Cardinality(Marked(b))
  BY <1>2, <1>7, FS_Bijection DEF ExistsBijection
<1> QED BY <1>1, <1>2, <1>6, <1>8 DEF a, b, A

-------------------------------------------------------------------------------
(* The inductive invariant, in parts *)

\* Messages as replication_cmd makes them.
Sent == [op : {"rep"}, key : Key, value : Values] \cup [op : {"del"}, key : Key, value : {None}]
        \cup [op : {"flush", "end"}, key : {NoKey}, value : {None}]

\* The queue of a process: its account.
Sound(s) ==
  /\ s \in Process /\ s.wbuf \in Seq(Sent)
  /\ s.count = s.free + Outstanding(s.pipe)
  /\ s.sending => s.wbuf # <<>>
  /\ s.link # "linked" => s.pipe = <<>> /\ s.wbuf = <<>> /\ s.copy = <<>>
  /\ s.up /\ s.link = "none" /\ ~s.exit => s.started
  /\ s.link = "connecting" => s = [Down EXCEPT !.up = TRUE, !.link = "connecting"]

\* A copy is keys and its mark at the end.
CopyShape(s) == \A j \in DOMAIN s.copy : s.copy[j].op = IF j < Len(s.copy) THEN "rep" ELSE "end"

\* From i to j there are exit marks alone.
Marks(p, i, j) == \A x \in i .. j : p[x] = ExitMark

\* The exit marks of p are not more than f.
Few(p, f) == Len(p) - Outstanding(p) <= f

\* f signals have put exit marks into the queue, and each read of a process that is told to
\* end puts one more: behind it comes the next of the copy, as long as there is one.
\* Hence a row of marks is no longer than f, but for one behind which nothing comes.
Signals(s, f) ==
  /\ f \in 0 .. MaxFaults
  /\ ~s.exit => Few(s.pipe, f)
  /\ s.exit /\ s.copy # <<>> =>
       \A i \in 1 .. Len(s.pipe) + 1 : Marks(s.pipe, i, Len(s.pipe)) => Len(s.pipe) + 1 - i < f
  /\ \A i, j \in 1 .. Len(s.pipe) :
       i <= j /\ Marks(s.pipe, i, j) =>
         j - i < f \/ (s.copy = <<>> /\ Marks(s.pipe, i, Len(s.pipe)))

\* As long as a copy lasts one item of it or more is queued, and an exit waits for it.
CopyAt(s, f) ==
  /\ CopyShape(s)
  /\ s.copy # <<>> => \E j \in DOMAIN s.pipe : s.pipe[j] # ExitMark
  /\ Signals(s, f)

CopyOf(s) == CopyAt(s, faults)

\* The last word of w on k, or b if there is none.
Speaks(m, k) == m.key = k \/ m.op = "flush"
Final(w, b, k) ==
  LET About == {j \in DOMAIN w : w[j].key = k \/ w[j].op = "flush"}
  IN IF About = {} THEN b ELSE w[Max(About)].value

Asked(s, k) == \E j \in DOMAIN s.pipe : s.pipe[j].key = k

\* s is the server whose changes count: c is underway from it to a peer that shows b, R
\* and F are the keys removed and flushed, X those that a command is at work on.
SourceOf(s, c, b, R, F, X) ==
  /\ \A k \in Key \ X : ~Asked(s, k) /\ k \notin F =>
       Final(c \o s.wbuf, b[k], k) \in {None, Visible(s)[k]}
  /\ \A k \in Key \ X : ~Asked(s, k) /\ ~Contains(s.copy, Item("rep", k)) /\ k \notin R =>
       Final(c \o s.wbuf, b[k], k) = Visible(s)[k]
  /\ \A k \in Key \ X : k \in s.hidden /\ k \notin F => ~Asked(s, k)
  /\ \A j \in DOMAIN s.pipe : /\ s.pipe[j].op = "del" => s.pipe[j].key \in R
                              /\ s.pipe[j].op = "flush" => R = Key

\* s only follows: it tells its peer of nothing but evictions.
SinkOf(s, c, F) ==
  /\ s.copy = <<>>
  /\ \A j \in DOMAIN s.pipe : s.pipe[j] = ExitMark \/ (s.pipe[j].op = "del" /\ s.pipe[j].key \in F)
  /\ \A j \in DOMAIN (c \o s.wbuf) : (c \o s.wbuf)[j].op = "del" /\ (c \o s.wbuf)[j].key \in F

\* s copies its items to a peer that waits for them and does not serve.
CopyingOf(s, c) ==
  /\ \A i, j \in DOMAIN s.pipe : s.pipe[i] # ExitMark /\ s.pipe[j] # ExitMark => i = j
  /\ \A j \in DOMAIN s.pipe :
       /\ s.pipe[j].op \in {"rep", "end", "exit"}
       /\ s.pipe[j] = EndMark => s.copy = <<>>
  /\ \A j \in DOMAIN (c \o s.wbuf) : (c \o s.wbuf)[j].op = "end" =>
       j = Len(c \o s.wbuf) /\ s.copy = <<>> /\ \A i \in DOMAIN s.pipe : s.pipe[i] = ExitMark

Source(n) == SourceOf(node[n], chan[n], Visible(node[Peer(n)]), removed, flushed, {})
Sink(n) == SinkOf(node[n], chan[n], flushed)
Copying(n) == CopyingOf(node[n], chan[n])

InStep ==
  LET m == clientsAt
      q == Peer(clientsAt)
  IN Linked(m) /\ Linked(q) /\ ~node[q].exit =>
       IF node[m].started THEN Source(m) /\ Sink(q)
       ELSE Source(q) /\ Sink(m) /\ Copying(q) /\ removed = {}

IInv ==
  /\ TypeOK /\ chan \in [Node -> Seq(Sent)]
  /\ \A n \in Node : Sound(node[n]) /\ CopyOf(node[n])
  /\ InStep

-------------------------------------------------------------------------------
(* Messages, and what a wire comes to *)

\* What will be delivered is the last word on the wire and in the write buffer.
LEMMA DeliveredIsFinal ==
  \A n, k : Delivered(n, k) = Final(chan[n] \o node[n].wbuf, Visible(node[Peer(n)])[k], k)
BY DEF Delivered, Final

\* What Max returns.
LEMMA Greatest ==
  ASSUME NEW n \in Nat, NEW S \in SUBSET (1 .. n), S # {}
  PROVE  Max(S) \in S /\ \A j \in S : j <= Max(S)
<1> DEFINE T == {n - j : j \in S}
<1>1. T \in SUBSET Nat /\ T # {}
  <2>1. \A j \in S : n - j \in Nat
    OBVIOUS
  <2>2. T \subseteq Nat
    BY <2>1
  <2>3. T # {}
    OBVIOUS
  <2> QED BY <2>2, <2>3
<1> HIDE DEF T
<1>2. PICK t \in T : \A u \in T : t <= u
  BY <1>1, Least
<1>3. PICK x \in S : t = n - x
  BY DEF T
<1>4. ASSUME NEW j \in S PROVE x >= j
  <2>1. n - j \in T
    BY DEF T
  <2>2. n - x <= n - j
    BY <2>1, <1>2, <1>3
  <2>3. x \in Int /\ j \in Int
    OBVIOUS
  <2> QED BY <2>2, <2>3
<1>5. \A j \in S : Max(S) >= j /\ Max(S) \in S
  BY <1>4 DEF Max
<1>6. \A j \in S : j \in Int
  OBVIOUS
<1> QED BY <1>5, <1>6

\* Without a word about a key its value stays.
LEMMA FinalNone ==
  ASSUME NEW S, NEW w \in Seq(S), NEW b, NEW k, \A j \in 1 .. Len(w) : ~Speaks(w[j], k)
  PROVE  Final(w, b, k) = b
<1>1. DOMAIN w = 1 .. Len(w)
  OBVIOUS
<1>2. {j \in DOMAIN w : w[j].key = k \/ w[j].op = "flush"} = {}
  BY <1>1 DEF Speaks
<1> QED BY <1>2 DEF Final

\* With a word about a key, its value is that of the last one.
LEMMA FinalSome ==
  ASSUME NEW S, NEW w \in Seq(S), NEW b, NEW k, NEW j \in 1 .. Len(w), Speaks(w[j], k)
  PROVE  \E i \in 1 .. Len(w) :
            /\ Final(w, b, k) = w[i].value /\ Speaks(w[i], k)
            /\ \A l \in 1 .. Len(w) : Speaks(w[l], k) => l <= i
<1> DEFINE A == {l \in DOMAIN w : w[l].key = k \/ w[l].op = "flush"}
<1>1. DOMAIN w = 1 .. Len(w) /\ Len(w) \in Nat
  OBVIOUS
<1>2. A \in SUBSET (1 .. Len(w)) /\ A # {}
  BY <1>1 DEF Speaks
<1>3. Final(w, b, k) = w[Max(A)].value
  BY <1>2 DEF Final
<1>4. \A l \in 1 .. Len(w) : Speaks(w[l], k) <=> l \in A
  BY <1>1 DEF Speaks
<1> HIDE DEF A
<1>5. Max(A) \in A /\ \A l \in A : l <= Max(A)
  BY <1>1, <1>2, Greatest
<1> QED BY <1>2, <1>3, <1>4, <1>5

\* Its last word is that of its last message on k, whichever came first.
LEMMA FinalIs ==
  ASSUME NEW S, NEW w \in Seq(S), NEW b, NEW k, NEW j \in 1 .. Len(w), Speaks(w[j], k),
         \A l \in 1 .. Len(w) : Speaks(w[l], k) => l <= j
  PROVE  Final(w, b, k) = w[j].value
<1>1. PICK i \in 1 .. Len(w) :
        /\ Final(w, b, k) = w[i].value /\ Speaks(w[i], k)
        /\ \A l \in 1 .. Len(w) : Speaks(w[l], k) => l <= i
  BY FinalSome
<1>2. i = j
  BY <1>1
<1> QED BY <1>1, <1>2

\* Where the values of all words about a key are, its value is.
LEMMA FinalIn ==
  ASSUME NEW S, NEW w \in Seq(S), NEW b, NEW k, NEW V,
         \A j \in 1 .. Len(w) : Speaks(w[j], k) => w[j].value \in V,
         b \in V \/ \E j \in 1 .. Len(w) : Speaks(w[j], k)
  PROVE  Final(w, b, k) \in V
<1>1. CASE \E j \in 1 .. Len(w) : Speaks(w[j], k)
  <2>1. PICK j \in 1 .. Len(w) : Speaks(w[j], k)
    BY <1>1
  <2>2. \E i \in 1 .. Len(w) : Final(w, b, k) = w[i].value /\ Speaks(w[i], k)
    BY <2>1, FinalSome
  <2> QED BY <2>2
<1>2. CASE ~\E j \in 1 .. Len(w) : Speaks(w[j], k)
  BY <1>2, FinalNone
<1> QED BY <1>1, <1>2

\* What two wires come to, one after the other.
LEMMA FinalConcat ==
  ASSUME NEW S, NEW v \in Seq(S), NEW w \in Seq(S), NEW b, NEW k
  PROVE  Final(v \o w, b, k) = Final(w, Final(v, b, k), k)
<1> DEFINE u == v \o w
<1>1. /\ u \in Seq(S) /\ Len(v) \in Nat /\ Len(w) \in Nat /\ Len(u) = Len(v) + Len(w)
      /\ \A j \in 1 .. Len(v) : u[j] = v[j]
      /\ \A j \in 1 .. Len(w) : u[Len(v) + j] = w[j]
      /\ \A j \in Len(v) + 1 .. Len(u) : u[j] = w[j - Len(v)]
  OBVIOUS
<1>0. u \in Seq(S)
  OBVIOUS
<1> HIDE DEF u
<1>2. CASE \E j \in 1 .. Len(w) : Speaks(w[j], k)
  <2>1. PICK j \in 1 .. Len(w) : Speaks(w[j], k)
    BY <1>2
  <2>2. PICK i \in 1 .. Len(w) : /\ Final(w, Final(v, b, k), k) = w[i].value /\ Speaks(w[i], k)
                                 /\ \A l \in 1 .. Len(w) : Speaks(w[l], k) => l <= i
    BY <2>1, FinalSome
  <2>3. Len(v) + i \in 1 .. Len(u) /\ u[Len(v) + i] = w[i]
    BY <1>1
  <2>4. ASSUME NEW l \in 1 .. Len(u), Speaks(u[l], k) PROVE l <= Len(v) + i
    <3>1. CASE l <= Len(v)
      BY <3>1, <1>1
    <3>2. CASE l > Len(v)
      <4>1. l - Len(v) \in 1 .. Len(w) /\ u[l] = w[l - Len(v)]
        BY <3>2, <1>1
      <4>2. l - Len(v) <= i
        BY <4>1, <2>2, <2>4
      <4> QED BY <4>2, <1>1
    <3> QED BY <3>1, <3>2, <1>1
  <2>5. Final(u, b, k) = u[Len(v) + i].value
    <3>1. Speaks(u[Len(v) + i], k)
      BY <2>2, <2>3
    <3>2. \A l \in 1 .. Len(u) : Speaks(u[l], k) => l <= Len(v) + i
      BY <2>4
    <3> DEFINE x == Len(v) + i
    <3> HIDE DEF x
    <3>3. x \in 1 .. Len(u) /\ Speaks(u[x], k) /\ \A l \in 1 .. Len(u) : Speaks(u[l], k) => l <= x
      BY <2>3, <3>1, <3>2 DEF x
    <3>4. Final(u, b, k) = u[x].value
      BY <1>0, <3>3, FinalIs
    <3> QED BY <3>4 DEF x
  <2> QED BY <2>2, <2>3, <2>5 DEF u
<1>3. CASE ~\E j \in 1 .. Len(w) : Speaks(w[j], k)
  <2>1. Final(w, Final(v, b, k), k) = Final(v, b, k)
    BY <1>3, FinalNone
  <2>2. \A l \in 1 .. Len(u) : Speaks(u[l], k) => l \in 1 .. Len(v) /\ u[l] = v[l]
    <3> SUFFICES ASSUME NEW l \in 1 .. Len(u), Speaks(u[l], k) PROVE l \in 1 .. Len(v) /\ u[l] = v[l]
      OBVIOUS
    <3>1. CASE l <= Len(v)
      BY <3>1, <1>1
    <3>2. CASE l > Len(v)
      <4>1. l - Len(v) \in 1 .. Len(w) /\ u[l] = w[l - Len(v)]
        BY <3>2, <1>1
      <4> QED BY <4>1, <1>3
    <3> QED BY <3>1, <3>2, <1>1
  <2>3. CASE \E j \in 1 .. Len(v) : Speaks(v[j], k)
    <3>1. PICK j \in 1 .. Len(v) : Speaks(v[j], k)
      BY <2>3
    <3>2. PICK i \in 1 .. Len(v) : /\ Final(v, b, k) = v[i].value /\ Speaks(v[i], k)
                                   /\ \A l \in 1 .. Len(v) : Speaks(v[l], k) => l <= i
      BY <3>1, FinalSome
    <3>3. i \in 1 .. Len(u) /\ u[i] = v[i]
      BY <1>1
    <3>4. \A l \in 1 .. Len(u) : Speaks(u[l], k) => l <= i
      BY <2>2, <3>2
    <3>5. Final(u, b, k) = u[i].value
      <4>1. Speaks(u[i], k)
        BY <3>2, <3>3
      <4> QED BY <1>0, <3>3, <3>4, <4>1, FinalIs
    <3> QED BY <2>1, <3>2, <3>3, <3>5 DEF u
  <2>4. CASE ~\E j \in 1 .. Len(v) : Speaks(v[j], k)
    <3>1. \A l \in 1 .. Len(u) : ~Speaks(u[l], k)
      BY <2>2, <2>4
    <3>2. Final(u, b, k) = b
      BY <1>1, <3>1, FinalNone
    <3>3. Final(v, b, k) = b
      BY <2>4, FinalNone
    <3> QED BY <2>1, <3>2, <3>3 DEF u
  <2> QED BY <2>3, <2>4
<1> QED BY <1>2, <1>3

\* One message that is executed.
LEMMA FinalOne ==
  ASSUME NEW S, NEW m \in S, NEW b, NEW k
  PROVE  Final(<<m>>, b, k) = IF Speaks(m, k) THEN m.value ELSE b
<1> DEFINE w == <<m>>
<1>1. w \in Seq(S) /\ Len(w) = 1 /\ w[1] = m
  OBVIOUS
<1> HIDE DEF w
<1>2. 1 \in 1 .. Len(w) /\ \A l \in 1 .. Len(w) : l = 1 /\ w[l] = m
  BY <1>1
<1>3. CASE Speaks(m, k)
  <2>1. Final(w, b, k) = w[1].value
    BY <1>1, <1>2, <1>3, FinalIs
  <2> QED BY <2>1, <1>1, <1>3 DEF w
<1>4. CASE ~Speaks(m, k)
  <2>1. Final(w, b, k) = b
    BY <1>1, <1>2, <1>4, FinalNone
  <2> QED BY <2>1, <1>4 DEF w
<1> QED BY <1>3, <1>4

\* The fields of the messages that are sent.
LEMMA SentFacts ==
  ASSUME NEW m \in Sent
  PROVE  /\ m \in MessageType /\ m.op \in {"rep", "del", "flush", "end"}
         /\ m.value \in {None} \cup Values /\ m.key \in Key \cup {NoKey}
         /\ m.op = "rep" => m.key \in Key /\ m.value \in Values
         /\ m.op = "del" => m.key \in Key
         /\ m.op \in {"flush", "end"} => m.key = NoKey
         /\ m.op # "rep" => m.value = None
BY DEF Sent, MessageType

-------------------------------------------------------------------------------
(* What is made of the queue *)

\* The fields of queue items.
LEMMA ItemFacts ==
  ASSUME NEW i \in ItemType
  PROVE  /\ i.op \in {"rep", "del", "flush", "end", "exit"} /\ i.key \in Key \cup {NoKey}
         /\ i.op \in {"rep", "del"} => i.key \in Key
         /\ i.op \in {"flush", "end", "exit"} => i.key = NoKey /\ i = Item(i.op, NoKey)
         /\ i.op = "exit" <=> i = ExitMark
         /\ i.op = "end" <=> i = EndMark
         /\ i.op = "rep" => i = Item("rep", i.key)
BY DEF ItemType, Item, ExitMark, EndMark

\* The items the code makes.
LEMMA ItemsHaveType ==
  /\ ExitMark \in ItemType /\ EndMark \in ItemType /\ Item("flush", NoKey) \in ItemType
  /\ ExitMark # EndMark
  /\ \A k \in Key : Item("rep", k) \in ItemType /\ Item("del", k) \in ItemType
BY DEF ItemType, Item, ExitMark, EndMark

\* The fields of a process.
LEMMA ProcessFacts ==
  ASSUME NEW s \in Process
  PROVE  /\ s.up \in BOOLEAN /\ s.started \in BOOLEAN /\ s.link \in {"none", "connecting", "linked"}
         /\ s.exit \in BOOLEAN /\ s.sending \in BOOLEAN
         /\ s.store \in [Key -> {None} \cup Values] /\ s.hidden \in SUBSET Key
         /\ s.pipe \in Seq(ItemType) /\ s.wbuf \in Seq(MessageType) /\ s.copy \in Seq(ItemType)
         /\ s.count \in 0 .. QMax /\ s.free \in 0 .. QMax
BY DEF Process

\* The command of an item has the value of now, and is a delete when there is none.
LEMMA replication_cmdDoes ==
  ASSUME NEW s \in Process, NEW i \in ItemType, i # ExitMark
  PROVE  LET m == replication_cmd(s, i) IN
         /\ m \in Sent /\ m.key = i.key
         /\ i.op = "rep" => m.value = s.store[i.key] /\ m.op \in {"rep", "del"}
         /\ i.op # "rep" => m.value = None /\ m.op = i.op
<1>1. s.store \in [Key -> {None} \cup Values]
  BY ProcessFacts
<1>2. /\ i.op \in {"rep", "del", "flush", "end"}
      /\ i.op \in {"rep", "del"} => i.key \in Key
      /\ i.op \in {"flush", "end"} => i.key = NoKey
  BY ItemFacts
<1>3. CASE i.op = "rep" /\ s.store[i.key] # None
  <2> DEFINE v == s.store[i.key]
             k == i.key
  <2>1. v \in Values /\ k \in Key
    BY <1>1, <1>2, <1>3
  <2>2. replication_cmd(s, i) = [op |-> "rep", key |-> k, value |-> v]
    BY <1>3 DEF replication_cmd
  <2> HIDE DEF v, k
  <2>3. [op |-> "rep", key |-> k, value |-> v] \in Sent
    BY <2>1 DEF Sent
  <2> QED BY <1>3, <2>2, <2>3 DEF v, k
<1>4. CASE ~(i.op = "rep" /\ s.store[i.key] # None)
  <2> DEFINE k == i.key
             o == IF i.op = "rep" THEN "del" ELSE i.op
  <2>1. replication_cmd(s, i) = [op |-> o, key |-> k, value |-> None]
    BY <1>4 DEF replication_cmd
  <2>2. (o = "del" /\ k \in Key) \/ (o \in {"flush", "end"} /\ k = NoKey)
    BY <1>2
  <2>3. i.op = "rep" => o = "del" /\ s.store[i.key] = None
    BY <1>4
  <2>4. i.op # "rep" => o = i.op
    OBVIOUS
  <2> HIDE DEF k, o
  <2>5. [op |-> o, key |-> k, value |-> None] \in Sent
    BY <2>2 DEF Sent
  <2> QED BY <2>1, <2>3, <2>4, <2>5 DEF k
<1> QED BY <1>3, <1>4

\* u is what is made of the first n items of the queue, the exit marks left out.
MadeOf(s, n, u) ==
  /\ u \in Seq(Sent)
  /\ \A m \in 1 .. Len(u) : \E j \in 1 .. n :
       s.pipe[j] # ExitMark /\ u[m] = replication_cmd(s, s.pipe[j])
  /\ \A j \in 1 .. n : s.pipe[j] # ExitMark =>
       \E m \in 1 .. Len(u) : u[m] = replication_cmd(s, s.pipe[j])
  /\ \A l, m \in 1 .. Len(u) : l < m => \E i, j \in 1 .. n :
       i < j /\ s.pipe[i] # ExitMark /\ s.pipe[j] # ExitMark

\* One more item read puts its command before those made so far.
LEMMA OneMoreMade ==
  ASSUME NEW s \in Process, NEW n \in Nat, NEW u, MadeOf(s, n, u), n < Len(s.pipe)
  PROVE  MadeOf(s, n + 1, IF s.pipe[n + 1] = ExitMark THEN u
                          ELSE <<replication_cmd(s, s.pipe[n + 1])>> \o u)
<1> DEFINE i == s.pipe[n + 1]
           c == replication_cmd(s, i)
           w == <<c>> \o u
<1>1. i \in ItemType /\ Len(s.pipe) \in Nat
  BY ProcessFacts
<1>2. u \in Seq(Sent) /\ Len(u) \in Nat
  BY DEF MadeOf
<1>3. CASE i = ExitMark
  <2>1. \A j \in 1 .. n + 1 : j \in 1 .. n \/ j = n + 1
    OBVIOUS
  <2>2. \A j \in 1 .. n : j \in 1 .. n + 1
    OBVIOUS
  <2> HIDE DEF i
  <2>3. \A j \in 1 .. n + 1 : s.pipe[j] # ExitMark => j \in 1 .. n
    BY <2>1, <1>3 DEF i
  <2>4. MadeOf(s, n + 1, u)
    BY <2>2, <2>3 DEF MadeOf
  <2> QED BY <1>3, <2>4 DEF i
<1>4. CASE i # ExitMark
  <2>1. c \in Sent
    BY <1>1, <1>4, replication_cmdDoes
  <2> HIDE DEF c
  <2>2. /\ w \in Seq(Sent) /\ Len(w) = Len(u) + 1 /\ w[1] = c
        /\ \A m \in 2 .. Len(u) + 1 : w[m] = u[m - 1] /\ m - 1 \in 1 .. Len(u)
        /\ \A m \in 1 .. Len(u) : w[m + 1] = u[m]
    BY <2>1, <1>2
  <2> HIDE DEF w
  <2>3. \A j \in 1 .. n + 1 : j \in 1 .. n \/ j = n + 1
    OBVIOUS
  <2>4. \A j \in 1 .. n : j \in 1 .. n + 1 /\ j < n + 1
    OBVIOUS
  <2>5. n + 1 \in 1 .. n + 1 /\ s.pipe[n + 1] # ExitMark /\ c = replication_cmd(s, s.pipe[n + 1])
    BY <1>4 DEF c
  <2>6. \A m \in 1 .. Len(w) : m = 1 \/ m \in 2 .. Len(u) + 1
    BY <2>2, <1>2
  <2>7. ASSUME NEW m \in 1 .. Len(w)
        PROVE  \E j \in 1 .. n + 1 : s.pipe[j] # ExitMark /\ w[m] = replication_cmd(s, s.pipe[j])
    <3>1. CASE m = 1
      BY <3>1, <2>2, <2>5
    <3>2. CASE m \in 2 .. Len(u) + 1
      <4>1. PICK j \in 1 .. n : s.pipe[j] # ExitMark /\ u[m - 1] = replication_cmd(s, s.pipe[j])
        BY <3>2, <2>2 DEF MadeOf
      <4> QED BY <4>1, <3>2, <2>2, <2>4
    <3> QED BY <3>1, <3>2, <2>6
  <2>8. ASSUME NEW j \in 1 .. n + 1, s.pipe[j] # ExitMark
        PROVE  \E m \in 1 .. Len(w) : w[m] = replication_cmd(s, s.pipe[j])
    <3>1. CASE j = n + 1
      BY <3>1, <2>2, <2>5, <1>2
    <3>2. CASE j \in 1 .. n
      <4>1. PICK m \in 1 .. Len(u) : u[m] = replication_cmd(s, s.pipe[j])
        BY <3>2, <2>8 DEF MadeOf
      <4>2. m + 1 \in 1 .. Len(w) /\ w[m + 1] = u[m]
        BY <2>2, <1>2
      <4> QED BY <4>1, <4>2
    <3> QED BY <3>1, <3>2, <2>3
  <2>9. ASSUME NEW l \in 1 .. Len(w), NEW m \in 1 .. Len(w), l < m
        PROVE  \E a, b \in 1 .. n + 1 : a < b /\ s.pipe[a] # ExitMark /\ s.pipe[b] # ExitMark
    <3>1. m - 1 \in 1 .. Len(u)
      BY <2>2, <2>9, <1>2
    <3>2. PICK j \in 1 .. n : s.pipe[j] # ExitMark
      BY <3>1 DEF MadeOf
    <3> QED BY <3>2, <2>4, <2>5
  <2>10. MadeOf(s, n + 1, w)
    BY <2>2, <2>7, <2>8, <2>9 DEF MadeOf
  <2> QED BY <1>4, <2>10 DEF w, c
<1> QED BY <1>3, <1>4

\* A read takes all of the pipe, or a whole batch of it.
LEMMA ReadLenDoes ==
  ASSUME NEW s \in Process
  PROVE  /\ ReadLen(s) \in 0 .. Len(s.pipe) /\ ReadLen(s) \in Nat /\ Len(s.pipe) \in Nat
         /\ ReadLen(s) = Len(s.pipe) \/ (ReadLen(s) > MaxFaults /\ ReadLen(s) >= 2)
<1>1. Len(s.pipe) \in Nat
  BY ProcessFacts
<1> QED BY <1>1, ReplicationAssumption DEF ReadLen, ReplicationAssumption

\* The commands of a read are those of its items, the last one first.
LEMMA CommandedDoes ==
  ASSUME NEW s \in Process
  PROVE  MadeOf(s, ReadLen(s), Commanded(s))
<1> DEFINE n == ReadLen(s)
           Step(f, j) == IF j = 0 THEN <<>>
                         ELSE IF s.pipe[j] = ExitMark THEN f[j - 1]
                              ELSE <<replication_cmd(s, s.pipe[j])>> \o f[j - 1]
           Makes(f, m) == f = [j \in 0 .. m |-> Step(f, j)]
<1>1. n \in Nat /\ n <= Len(s.pipe)
  BY ReadLenDoes
<1> HIDE DEF n
<1>2. \E f : Makes(f, n)
  <2> DEFINE Bad == {m \in 0 .. n : ~\E f : Makes(f, m)}
  <2>1. SUFFICES ASSUME ~\E f : Makes(f, n) PROVE FALSE
    OBVIOUS
  <2>2. Bad # {}
    <3>1. n \in 0 .. n
      BY <1>1
    <3> QED BY <2>1, <3>1
  <2>3. Bad \in SUBSET Nat
    BY <1>1
  <2> HIDE DEF Bad
  <2>4. PICK m \in Bad : \A l \in Bad : m <= l
    BY <2>2, <2>3, Least
  <2>5. m \in 0 .. n /\ ~\E f : Makes(f, m)
    BY DEF Bad
  <2>6. CASE m = 0
    <3> DEFINE f == [j \in 0 .. 0 |-> <<>>]
    <3>1. Makes(f, 0)
      <4>1. \A j \in 0 .. 0 : j = 0
        OBVIOUS
      <4>2. [j \in 0 .. 0 |-> Step(f, j)] = [j \in 0 .. 0 |-> <<>>]
        BY <4>1
      <4> QED BY <4>2
    <3> QED BY <3>1, <2>5, <2>6
  <2>7. CASE m # 0
    <3>1. m - 1 \in 0 .. n /\ m - 1 \notin Bad /\ m \in Nat
      BY <2>4, <2>5, <2>7, <1>1
    <3>2. PICK f : Makes(f, m - 1)
      BY <3>1 DEF Bad
    <3> DEFINE g == [j \in 0 .. m |-> IF j = m THEN Step(f, m) ELSE f[j]]
    <3>3. ASSUME NEW j \in 0 .. m PROVE g[j] = Step(g, j)
      <4>1. j = 0 \/ (j - 1 \in 0 .. m - 1 /\ j - 1 \in 0 .. m /\ j - 1 # m)
        BY <3>1
      <4>2. j # 0 => g[j - 1] = f[j - 1]
        BY <4>1
      <4>3. Step(g, j) = Step(f, j)
        BY <4>2
      <4>4. CASE j = m
        BY <4>3, <4>4
      <4>5. CASE j # m
        <5>1. j \in 0 .. m - 1
          BY <4>5, <3>1
        <5>2. f[j] = Step(f, j)
          BY <5>1, <3>2
        <5> QED BY <4>3, <4>5, <5>2
      <4> QED BY <4>4, <4>5
    <3>4. Makes(g, m)
      <4> DEFINE h == [j \in 0 .. m |-> Step(g, j)]
      <4>1. \A j \in 0 .. m : g[j] = h[j]
        BY <3>3
      <4> QED BY <4>1
    <3> QED BY <3>4, <2>5
  <2> QED BY <2>6, <2>7
<1> DEFINE made == CHOOSE f : Makes(f, n)
<1>3. Makes(made, n)
  BY <1>2
<1>4. Commanded(s) = made[n]
  BY DEF Commanded, n
<1> HIDE DEF made
<1>5. \A j \in 0 .. n : MadeOf(s, j, made[j])
  <2> DEFINE Bad == {m \in 0 .. n : ~MadeOf(s, m, made[m])}
  <2>1. SUFFICES Bad = {}
    OBVIOUS
  <2>2. SUFFICES ASSUME Bad # {} PROVE FALSE
    OBVIOUS
  <2>3. Bad \in SUBSET Nat
    BY <1>1
  <2> HIDE DEF Bad
  <2>4. PICK m \in Bad : \A l \in Bad : m <= l
    BY <2>2, <2>3, Least
  <2>5. m \in 0 .. n /\ ~MadeOf(s, m, made[m])
    BY DEF Bad
  <2>6. made[m] = Step(made, m)
    BY <2>5, <1>3
  <2>7. CASE m = 0
    <3>1. made[m] = <<>>
      BY <2>6, <2>7
    <3>2. MadeOf(s, 0, <<>>)
      BY DEF MadeOf
    <3> QED BY <3>1, <3>2, <2>5, <2>7
  <2>8. CASE m # 0
    <3>1. m - 1 \in 0 .. n /\ m - 1 \notin Bad /\ m \in Nat /\ (m - 1) + 1 = m /\ m - 1 \in Nat /\ m - 1 < Len(s.pipe)
      BY <2>4, <2>5, <2>8, <1>1, ReadLenDoes
    <3>2. MadeOf(s, m - 1, made[m - 1])
      BY <3>1 DEF Bad
    <3> DEFINE l == m - 1
    <3>3. l \in Nat /\ MadeOf(s, l, made[l]) /\ l < Len(s.pipe) /\ l + 1 = m
      BY <3>1, <3>2
    <3> HIDE DEF l
    <3>4. MadeOf(s, l + 1, IF s.pipe[l + 1] = ExitMark THEN made[l]
                           ELSE <<replication_cmd(s, s.pipe[l + 1])>> \o made[l])
      BY <3>3, OneMoreMade
    <3>5. MadeOf(s, m, made[m])
      BY <3>3, <3>4, <2>6, <2>8 DEF l
    <3> QED BY <3>5, <2>5
  <2> QED BY <2>7, <2>8
<1>6. n \in 0 .. n
  BY <1>1
<1> QED BY <1>4, <1>5, <1>6 DEF n

-------------------------------------------------------------------------------
(* The items of a process *)

SameRun(s, t) ==
  t.up = s.up /\ t.started = s.started /\ t.link = s.link /\ t.exit = s.exit /\ t.sending = s.sending
SameItems(s, t) == t.store = s.store /\ t.hidden = s.hidden
SameQueue(s, t) ==
  t.pipe = s.pipe /\ t.wbuf = s.wbuf /\ t.copy = s.copy /\ t.count = s.count /\ t.free = s.free

\* The same values are shown, of no more items.
SameShown(s, t) ==
  /\ \A k \in Key : t.store[k] # s.store[k] => t.store[k] = None /\ ~Gettable(s, k)
  /\ t.hidden \subseteq s.hidden
  /\ \A k \in Key : k \in s.hidden /\ k \notin t.hidden => t.store[k] = None

\* What a get would return.
LEMMA VisibleIs ==
  ASSUME NEW s, NEW k \in Key
  PROVE  /\ Visible(s)[k] = IF s.store[k] # None /\ k \notin s.hidden THEN s.store[k] ELSE None
         /\ Gettable(s, k) <=> s.store[k] # None /\ k \notin s.hidden
         /\ k \in Present(s) <=> s.store[k] # None
BY DEF Visible, Gettable, Present

\* Only a key can be got.
LEMMA GettableIsKey == \A s, k : Gettable(s, k) => k \in Key
BY DEF Gettable, Present

\* An item that was only found dead, and unlinked, changes no reply.
LEMMA ShownIsSame ==
  ASSUME NEW s, NEW t, SameShown(s, t), NEW k \in Key
  PROVE  Visible(t)[k] = Visible(s)[k] /\ (Gettable(t, k) <=> Gettable(s, k))
<1>1. /\ Visible(s)[k] = IF s.store[k] # None /\ k \notin s.hidden THEN s.store[k] ELSE None
      /\ Visible(t)[k] = IF t.store[k] # None /\ k \notin t.hidden THEN t.store[k] ELSE None
      /\ Gettable(s, k) <=> s.store[k] # None /\ k \notin s.hidden
      /\ Gettable(t, k) <=> t.store[k] # None /\ k \notin t.hidden
  BY VisibleIs
<1>2. t.store[k] # s.store[k] => t.store[k] = None /\ ~Gettable(s, k)
  BY DEF SameShown
<1>3. k \in t.hidden => k \in s.hidden
  BY DEF SameShown
<1>4. k \in s.hidden /\ k \notin t.hidden => t.store[k] = None
  BY DEF SameShown
<1> QED BY <1>1, <1>2, <1>3, <1>4

\* Two such steps are one.
LEMMA ShownTwice ==
  ASSUME NEW s, NEW t, NEW u, SameShown(s, t), SameShown(t, u)
  PROVE  SameShown(s, u)
<1>1. \A k \in Key : Gettable(t, k) <=> Gettable(s, k)
  BY ShownIsSame
<1>2. ASSUME NEW k \in Key, u.store[k] # s.store[k] PROVE u.store[k] = None /\ ~Gettable(s, k)
  <2>1. CASE u.store[k] # t.store[k]
    BY <2>1, <1>1 DEF SameShown
  <2>2. CASE u.store[k] = t.store[k]
    BY <2>2, <1>2 DEF SameShown
  <2> QED BY <2>1, <2>2
<1>3. u.hidden \subseteq s.hidden
  BY DEF SameShown
<1>4. ASSUME NEW k \in Key, k \in s.hidden, k \notin u.hidden PROVE u.store[k] = None
  <2>1. CASE k \in t.hidden
    BY <1>4, <2>1 DEF SameShown
  <2>2. CASE k \notin t.hidden
    <3>1. t.store[k] = None
      BY <1>4, <2>2 DEF SameShown
    <3>2. u.store[k] # t.store[k] => u.store[k] = None
      BY DEF SameShown
    <3> QED BY <3>1, <3>2
  <2> QED BY <2>1, <2>2
<1> QED BY <1>2, <1>3, <1>4 DEF SameShown

\* Items are unlinked.
LEMMA UnlinkDoes ==
  ASSUME NEW s \in Process, NEW K
  PROVE  LET t == Unlink(s, K) IN
         /\ t \in Process /\ SameRun(s, t) /\ SameQueue(s, t)
         /\ \A k \in Key : t.store[k] = IF k \in K THEN None ELSE s.store[k]
         /\ t.hidden = s.hidden \ K
<1> DEFINE f == [k \in Key |-> IF k \in K THEN None ELSE s.store[k]]
           h == s.hidden \ K
           t == Unlink(s, K)
<1>1. s.store \in [Key -> {None} \cup Values] /\ s.hidden \in SUBSET Key
  BY ProcessFacts
<1>2. f \in [Key -> {None} \cup Values] /\ h \in SUBSET Key
  BY <1>1
<1>3. \A k \in Key : f[k] = IF k \in K THEN None ELSE s.store[k]
  OBVIOUS
<1>4. t = [s EXCEPT !.store = f, !.hidden = h]
  BY DEF Unlink
<1> HIDE DEF f, h, t
<1>5. t \in Process /\ t.store = f /\ t.hidden = h /\ SameRun(s, t) /\ SameQueue(s, t)
  BY <1>2, <1>4 DEF Process, SameRun, SameQueue
<1> QED BY <1>3, <1>5 DEF h, t

\* An item is stored.
LEMMA StoreDoes ==
  ASSUME NEW s \in Process, NEW k \in Key, NEW v \in Values
  PROVE  LET t == Store(s, k, v) IN
         /\ t \in Process /\ SameRun(s, t) /\ SameQueue(s, t)
         /\ \A j \in Key : t.store[j] = IF j = k THEN v ELSE s.store[j]
         /\ t.hidden = s.hidden \ {k}
<1> DEFINE f == [s.store EXCEPT ![k] = v]
           h == s.hidden \ {k}
           t == Store(s, k, v)
<1>1. s.store \in [Key -> {None} \cup Values] /\ s.hidden \in SUBSET Key
  BY ProcessFacts
<1>2. f \in [Key -> {None} \cup Values] /\ h \in SUBSET Key
  BY <1>1
<1>3. \A j \in Key : f[j] = IF j = k THEN v ELSE s.store[j]
  BY <1>1
<1>4. t = [s EXCEPT !.store = f, !.hidden = h]
  BY DEF Store
<1> HIDE DEF f, h, t
<1>5. t \in Process /\ t.store = f /\ t.hidden = h /\ SameRun(s, t) /\ SameQueue(s, t)
  BY <1>2, <1>4 DEF Process, SameRun, SameQueue
<1> QED BY <1>3, <1>5 DEF h, t

\* item_get unlinks the item it finds dead, and shows no difference.
LEMMA item_getDoes ==
  ASSUME NEW s \in Process, NEW k \in Key
  PROVE  LET t == item_get(s, k) IN
         t \in Process /\ SameRun(s, t) /\ SameQueue(s, t) /\ SameShown(s, t)
<1>1. CASE Gettable(s, k)
  BY <1>1 DEF item_get, SameRun, SameQueue, SameShown
<1>2. CASE ~Gettable(s, k)
  <2> DEFINE t == Unlink(s, {k})
  <2>1. /\ t \in Process /\ SameRun(s, t) /\ SameQueue(s, t)
        /\ \A j \in Key : t.store[j] = IF j \in {k} THEN None ELSE s.store[j]
        /\ t.hidden = s.hidden \ {k}
    BY UnlinkDoes
  <2> HIDE DEF t
  <2>2. SameShown(s, t)
    BY <1>2, <2>1 DEF SameShown
  <2> QED BY <1>2, <2>1, <2>2 DEF item_get, t
<1> QED BY <1>1, <1>2

\* A flush hides every item it does not unlink.
LEMMA item_flush_expiredDoes ==
  ASSUME NEW s \in Process, NEW recent
  PROVE  LET t == item_flush_expired(s, recent) IN
         /\ t \in Process /\ SameRun(s, t) /\ SameQueue(s, t)
         /\ t.hidden \subseteq Present(s) /\ \A k \in Key : Visible(t)[k] = None
<1> DEFINE u == Unlink(s, recent)
           h == Present(u)
           t == item_flush_expired(s, recent)
<1>1. /\ u \in Process /\ SameRun(s, u) /\ SameQueue(s, u)
      /\ \A k \in Key : u.store[k] = IF k \in recent THEN None ELSE s.store[k]
  BY UnlinkDoes
<1>2. t = [u EXCEPT !.hidden = h]
  BY DEF item_flush_expired
<1>3. h \in SUBSET Key /\ \A k \in Key : k \in h <=> u.store[k] # None
  BY DEF Present
<1> HIDE DEF u, h, t
<1>4. t \in Process /\ t.store = u.store /\ t.hidden = h /\ SameRun(u, t) /\ SameQueue(u, t)
  BY <1>1, <1>2, <1>3 DEF Process, SameRun, SameQueue
<1>5. h \subseteq Present(s)
  BY <1>1, <1>3 DEF Present
<1>6. ASSUME NEW k \in Key PROVE Visible(t)[k] = None
  <2>1. Visible(t)[k] = IF t.store[k] # None /\ k \notin t.hidden THEN t.store[k] ELSE None
    BY VisibleIs
  <2> QED BY <2>1, <1>3, <1>4
<1> QED BY <1>1, <1>4, <1>5, <1>6 DEF SameRun, SameQueue, t

-------------------------------------------------------------------------------
(* The queue of a process *)

\* What holds of a process between any two steps of its functions.
Account(s) ==
  /\ s \in Process /\ s.wbuf \in Seq(Sent)
  /\ s.count = s.free + Outstanding(s.pipe)

\* The places of a sequence with one more at its end.
LEMMA AppendFacts ==
  ASSUME NEW S, NEW p \in Seq(S), NEW i \in S
  PROVE  /\ Append(p, i) \in Seq(S) /\ Len(Append(p, i)) = Len(p) + 1 /\ Len(p) \in Nat
         /\ Append(p, i)[Len(p) + 1] = i
         /\ \A j \in 1 .. Len(p) : Append(p, i)[j] = p[j]
         /\ DOMAIN Append(p, i) = 1 .. Len(p) + 1 /\ DOMAIN p = 1 .. Len(p)
OBVIOUS

\* An item is queued.
LEMMA EnqueueDoes ==
  ASSUME NEW s, Account(s), NEW i \in ItemType, i # ExitMark, s.free > 0 \/ s.count < QMax
  PROVE  LET t == Enqueue(s, i) IN
         /\ Account(t) /\ SameRun(s, t) /\ SameItems(s, t)
         /\ t.pipe = Append(s.pipe, i) /\ t.wbuf = s.wbuf /\ t.copy = s.copy
<1> DEFINE t == Enqueue(s, i)
           p == Append(s.pipe, i)
           f == IF s.free > 0 THEN s.free - 1 ELSE s.free
           n == IF s.free > 0 THEN s.count ELSE s.count + 1
<1>1. s \in Process /\ s.wbuf \in Seq(Sent) /\ s.count = s.free + Outstanding(s.pipe)
  BY DEF Account
<1>2. s.pipe \in Seq(ItemType) /\ s.count \in 0 .. QMax /\ s.free \in 0 .. QMax /\ QMax \in Nat
  BY <1>1, ProcessFacts, ReplicationAssumption DEF ReplicationAssumption
<1>3. p \in Seq(ItemType) /\ Outstanding(p) = Outstanding(s.pipe) + 1 /\ Outstanding(s.pipe) \in Nat
  BY <1>2, OutstandingAppend, OutstandingType
<1>4. f \in 0 .. QMax /\ n \in 0 .. QMax /\ n - f = s.count - s.free + 1
  BY <1>2
<1>5. t = [s EXCEPT !.pipe = p, !.free = f, !.count = n]
  <2>1. CASE s.free > 0
    BY <1>1, <2>1 DEF Enqueue, replication_item, qi_new, Process
  <2>2. CASE ~(s.free > 0)
    BY <1>1, <2>2 DEF Enqueue, replication_item, qi_new, Process
  <2> QED BY <2>1, <2>2
<1> HIDE DEF t, p, f, n
<1>6. /\ t \in Process /\ t.pipe = p /\ t.free = f /\ t.count = n
      /\ t.wbuf = s.wbuf /\ t.copy = s.copy /\ SameRun(s, t) /\ SameItems(s, t)
  BY <1>1, <1>3, <1>4, <1>5 DEF Process, SameRun, SameItems
<1>7. n = f + Outstanding(p)
  BY <1>1, <1>2, <1>3, <1>4
<1> QED BY <1>1, <1>6, <1>7 DEF Account, t, p

\* The exit mark is queued, and takes nothing from the free list.
LEMMA MarkDoes ==
  ASSUME NEW s, Account(s)
  PROVE  LET t == replication_item(s, ExitMark) IN
         /\ Account(t) /\ SameRun(s, t) /\ SameItems(s, t)
         /\ t.pipe = Append(s.pipe, ExitMark) /\ t.wbuf = s.wbuf /\ t.copy = s.copy
         /\ t.count = s.count /\ t.free = s.free
<1> DEFINE t == replication_item(s, ExitMark)
           p == Append(s.pipe, ExitMark)
<1>1. s \in Process /\ s.wbuf \in Seq(Sent) /\ s.count = s.free + Outstanding(s.pipe)
  BY DEF Account
<1>2. s.pipe \in Seq(ItemType) /\ ExitMark \in ItemType
  BY <1>1, ProcessFacts, ItemsHaveType
<1>3. p \in Seq(ItemType) /\ Outstanding(p) = Outstanding(s.pipe) + 0 /\ Outstanding(s.pipe) \in Nat
  BY <1>2, OutstandingAppend, OutstandingType
<1>4. t = [s EXCEPT !.pipe = p]
  BY DEF replication_item
<1> HIDE DEF t, p
<1>5. /\ t \in Process /\ t.pipe = p /\ t.free = s.free /\ t.count = s.count
      /\ t.wbuf = s.wbuf /\ t.copy = s.copy /\ SameRun(s, t) /\ SameItems(s, t)
  BY <1>1, <1>3, <1>4 DEF Process, SameRun, SameItems
<1>6. s.count = s.free + Outstanding(p)
  BY <1>1, <1>3
<1> QED BY <1>1, <1>5, <1>6 DEF Account, t, p

\* The link is closed: all items go to the free list.
LEMMA replication_closeDoes ==
  ASSUME NEW s, Account(s)
  PROVE  LET t == replication_close(s) IN
         /\ Account(t) /\ SameItems(s, t) /\ t.link = "none" /\ ~t.sending
         /\ t.up = s.up /\ t.exit = s.exit /\ t.started = (s.started \/ ~s.exit)
         /\ t.pipe = <<>> /\ t.wbuf = <<>> /\ t.copy = <<>>
<1> DEFINE t == replication_close(s)
           f == s.free + Outstanding(s.pipe)
           b == s.started \/ ~s.exit
           no == <<>>
<1>1. s \in Process /\ s.count = f
  BY DEF Account
<1>2. /\ s.count \in 0 .. QMax /\ f \in 0 .. QMax /\ b \in BOOLEAN /\ QMax \in Nat
  BY <1>1, ProcessFacts, ReplicationAssumption DEF ReplicationAssumption
<1>3. t = [s EXCEPT !.link = "none", !.started = b, !.sending = FALSE, !.pipe = no, !.wbuf = no,
                    !.copy = no, !.free = f]
  BY DEF replication_close
<1>6. no \in Seq(ItemType) /\ no \in Seq(MessageType) /\ no \in Seq(Sent)
  OBVIOUS
<1> HIDE DEF t, f, b, no
<1>4. /\ t \in Process /\ t.link = "none" /\ t.sending = FALSE /\ t.started = b /\ t.up = s.up /\ t.exit = s.exit
      /\ t.pipe = no /\ t.wbuf = no /\ t.copy = no /\ t.free = f /\ t.count = s.count /\ SameItems(s, t)
  BY <1>1, <1>2, <1>3, <1>6 DEF Process, SameItems
<1>5. s.count = f + Outstanding(no)
  BY <1>1, <1>2, OutstandingNone DEF no
<1> QED BY <1>1, <1>4, <1>5, <1>6 DEF Account, t, b, no

\* The items of a read become commands and go to the free list.
LEMMA TakenDoes ==
  ASSUME NEW s, Account(s)
  PROVE  LET t == Taken(s)
             n == ReadLen(s)
         IN
         /\ Account(t) /\ SameItems(s, t) /\ t.copy = s.copy
         /\ t.up = s.up /\ t.started = s.started /\ t.link = s.link /\ t.sending = s.sending
         /\ t.exit <=> s.exit \/ \E j \in 1 .. n : s.pipe[j] = ExitMark
         /\ t.pipe = SubSeq(s.pipe, n + 1, Len(s.pipe)) /\ t.wbuf = s.wbuf \o Commanded(s)
         /\ t.count = s.count /\ t.free = s.free + Outstanding(SubSeq(s.pipe, 1, n))
<1> DEFINE t == Taken(s)
           n == ReadLen(s)
           a == SubSeq(s.pipe, 1, n)
           z == SubSeq(s.pipe, n + 1, Len(s.pipe))
           u == Commanded(s)
           w == s.wbuf \o u
           f == s.free + Outstanding(a)
           e == s.exit \/ \E j \in DOMAIN a : a[j] = ExitMark
<1>1. s \in Process /\ s.wbuf \in Seq(Sent) /\ s.count = s.free + Outstanding(s.pipe)
  BY DEF Account
<1>2. /\ s.pipe \in Seq(ItemType) /\ s.count \in 0 .. QMax /\ s.free \in 0 .. QMax /\ QMax \in Nat
      /\ s.exit \in BOOLEAN
  BY <1>1, ProcessFacts, ReplicationAssumption DEF ReplicationAssumption
<1>3. n \in 0 .. Len(s.pipe) /\ n \in Nat /\ Len(s.pipe) \in Nat
  BY <1>1, ReadLenDoes
<1> HIDE DEF n
<1>4. a \in Seq(ItemType) /\ z \in Seq(ItemType) /\ Outstanding(s.pipe) = Outstanding(a) + Outstanding(z)
  BY <1>2, <1>3, OutstandingSplit
<1>5. Outstanding(a) \in Nat /\ Outstanding(z) \in Nat
  BY <1>4, OutstandingType
<1>6. MadeOf(s, n, u)
  BY <1>1, CommandedDoes DEF n
<1>7. u \in Seq(Sent)
  BY <1>6 DEF MadeOf
<1> HIDE DEF u
<1>8. w \in Seq(Sent)
  BY <1>1, <1>7
<1>9. w \in Seq(MessageType)
  <2>1. \A m \in Sent : m \in MessageType
    BY SentFacts
  <2> HIDE DEF w
  <2>2. Len(w) \in Nat /\ \A j \in 1 .. Len(w) : w[j] \in Sent
    BY <1>8
  <2>3. DOMAIN w = 1 .. Len(w) /\ w = [j \in 1 .. Len(w) |-> w[j]]
    BY <1>8
  <2> QED BY <2>1, <2>2, <2>3
<1>10. f \in 0 .. QMax
  BY <1>1, <1>2, <1>4, <1>5
<1>11. e \in BOOLEAN /\ (e <=> s.exit \/ \E j \in 1 .. n : s.pipe[j] = ExitMark)
  <2>1. DOMAIN a = 1 .. n /\ \A j \in 1 .. n : a[j] = s.pipe[j]
    BY <1>2, <1>3
  <2> HIDE DEF a
  <2> QED BY <2>1
<1>12. t = [s EXCEPT !.pipe = z, !.wbuf = w, !.free = f, !.exit = e]
  BY DEF Taken, n, u
<1>13. s.count = f + Outstanding(z)
  BY <1>1, <1>2, <1>4, <1>5
<1> HIDE DEF t, a, z, w, f, e
<1>14. /\ t \in Process /\ t.pipe = z /\ t.wbuf = w /\ t.free = f /\ t.exit = e /\ t.count = s.count
       /\ t.copy = s.copy /\ t.up = s.up /\ t.started = s.started /\ t.link = s.link /\ t.sending = s.sending
       /\ SameItems(s, t)
  BY <1>1, <1>4, <1>9, <1>10, <1>11, <1>12 DEF Process, SameItems
<1>15. Account(t)
  BY <1>8, <1>13, <1>14 DEF Account
<1> QED BY <1>11, <1>14, <1>15 DEF t, n, a, z, w, u, f

\* The places of what remains of a sequence.
LEMMA SubSeqFacts ==
  ASSUME NEW S, NEW p \in Seq(S), NEW n \in 0 .. Len(p)
  PROVE  LET z == SubSeq(p, n + 1, Len(p)) IN
         /\ z \in Seq(S) /\ Len(z) = Len(p) - n /\ Len(z) \in Nat /\ DOMAIN z = 1 .. Len(p) - n
         /\ \A j \in 1 .. Len(p) - n : z[j] = p[n + j] /\ n + j \in 1 .. Len(p)
         /\ \A j \in n + 1 .. Len(p) : p[j] = z[j - n] /\ j - n \in 1 .. Len(p) - n
         /\ z # <<>> <=> n < Len(p)
<1> DEFINE z == SubSeq(p, n + 1, Len(p))
<1>1. Len(p) \in Nat /\ n \in Nat /\ n <= Len(p)
  OBVIOUS
<1>2. z \in Seq(S) /\ Len(z) = Len(p) - n /\ Len(z) \in Nat
  BY <1>1
<1>3. \A j \in 1 .. Len(p) - n : z[j] = p[n + j] /\ n + j \in 1 .. Len(p)
  BY <1>1
<1> HIDE DEF z
<1>4. DOMAIN z = 1 .. Len(p) - n
  BY <1>2
<1>5. ASSUME NEW j \in n + 1 .. Len(p) PROVE p[j] = z[j - n] /\ j - n \in 1 .. Len(p) - n
  <2>1. j - n \in 1 .. Len(p) - n /\ n + (j - n) = j
    BY <1>1
  <2> QED BY <2>1, <1>3
<1>6. z # <<>> <=> Len(z) # 0
  BY <1>2
<1> QED BY <1>1, <1>2, <1>3, <1>4, <1>5, <1>6 DEF z

\* The next of the copy that is still there is queued, those before it are passed over.
LEMMA replication_marugotoDoes ==
  ASSUME NEW s, Account(s), CopyShape(s), s.copy # <<>>, s.free > 0 \/ s.count < QMax
  PROVE  LET t == replication_marugoto(s) IN
         /\ Account(t) /\ SameRun(s, t) /\ SameShown(s, t) /\ t.wbuf = s.wbuf
         /\ \E n \in 1 .. Len(s.copy) :
              /\ t.pipe = Append(s.pipe, s.copy[n]) /\ t.copy = SubSeq(s.copy, n + 1, Len(s.copy))
              /\ s.copy[n] = EndMark \/ (s.copy[n].op = "rep" /\ Gettable(s, s.copy[n].key))
              /\ \A j \in 1 .. n - 1 : ~Gettable(s, s.copy[j].key)
<1> DEFINE Here(i) == i = EndMark \/ Gettable(s, i.key)
           I == {j \in 1 .. Len(s.copy) : Here(s.copy[j])}
           n == SelectInSeq(s.copy, Here)
           gone == {s.copy[j].key : j \in 1 .. n - 1}
           u == Unlink(s, gone)
           rest == SubSeq(u.copy, n + 1, Len(u.copy))
           v == [u EXCEPT !.copy = rest]
           i == s.copy[n]
           t == replication_marugoto(s)
<1>1. s \in Process /\ s.wbuf \in Seq(Sent) /\ s.count = s.free + Outstanding(s.pipe)
  BY DEF Account
<1>2. s.copy \in Seq(ItemType) /\ Len(s.copy) \in Nat /\ Len(s.copy) > 0 /\ DOMAIN s.copy = 1 .. Len(s.copy)
  BY <1>1, ProcessFacts
<1>3. I \in SUBSET Nat /\ I # {}
  <2>1. Len(s.copy) \in 1 .. Len(s.copy) /\ s.copy[Len(s.copy)].op = "end"
    BY <1>2 DEF CopyShape
  <2>2. s.copy[Len(s.copy)] = EndMark
    BY <1>2, <2>1, ItemFacts
  <2> QED BY <2>1, <2>2
<1>4. n = Min(I)
  BY <1>3 DEF SelectInSeq
<1>5. n \in I /\ \A j \in I : n <= j
  <2>1. \E x \in I : \A y \in I : x <= y
    BY <1>3, Least
  <2> HIDE DEF I, n
  <2> QED BY <1>4, <2>1 DEF Min
<1>6. n \in 1 .. Len(s.copy) /\ Here(i) /\ \A j \in 1 .. n - 1 : ~Here(s.copy[j])
  <2>1. n \in 1 .. Len(s.copy) /\ Here(s.copy[n])
    BY <1>5
  <2>2. ASSUME NEW j \in 1 .. n - 1 PROVE ~Here(s.copy[j])
    <3>1. j \in 1 .. Len(s.copy) /\ ~(n <= j)
      BY <2>1, <1>2
    <3>2. j \notin I
      BY <1>5, <3>1
    <3> QED BY <3>1, <3>2
  <2> QED BY <2>1, <2>2
<1>7. t = Enqueue(v, i)
  BY DEF replication_marugoto, SelectInSeq
<1> HIDE DEF n, I
<1>8. i \in ItemType /\ i # ExitMark /\ (i = EndMark \/ (i.op = "rep" /\ Gettable(s, i.key)))
  <2>1. i \in ItemType /\ i.op \in {"rep", "end"}
    BY <1>2, <1>6 DEF CopyShape
  <2>2. i.op = "end" <=> i = EndMark
    BY <2>1, ItemFacts
  <2>3. i.op = "exit" <=> i = ExitMark
    BY <2>1, ItemFacts
  <2>4. i = EndMark \/ Gettable(s, i.key)
    BY <1>6
  <2> HIDE DEF i
  <2> QED BY <2>1, <2>2, <2>3, <2>4, ItemsHaveType
<1>10. \A j \in 1 .. n - 1 : ~Gettable(s, s.copy[j].key)
  BY <1>6
<1>11. /\ u \in Process /\ SameRun(s, u) /\ SameQueue(s, u)
       /\ \A k \in Key : u.store[k] = IF k \in gone THEN None ELSE s.store[k]
       /\ u.hidden = s.hidden \ gone
  BY <1>1, UnlinkDoes
<1>9. rest = SubSeq(s.copy, n + 1, Len(s.copy)) /\ rest \in Seq(ItemType)
  <2>1. u.copy = s.copy
    BY <1>11 DEF SameQueue
  <2> HIDE DEF u
  <2> QED BY <2>1, <1>2, <1>6
<1>12. \A k \in gone : ~Gettable(s, k)
  BY <1>10
<1> HIDE DEF u, gone
<1>13. SameShown(s, u)
  BY <1>11, <1>12 DEF SameShown
<1> HIDE DEF i, rest, t
<1>14. /\ v \in Process /\ v.copy = rest /\ SameRun(u, v) /\ SameItems(u, v)
       /\ v.pipe = u.pipe /\ v.wbuf = u.wbuf /\ v.count = u.count /\ v.free = u.free
  BY <1>9, <1>11 DEF Process, SameRun, SameItems
<1> HIDE DEF v
<1>15. Account(v) /\ (v.free > 0 \/ v.count < QMax) /\ v.pipe = s.pipe /\ v.wbuf = s.wbuf /\ SameRun(s, v)
  BY <1>1, <1>11, <1>14 DEF Account, SameQueue, SameRun
<1>16. SameShown(s, v)
  BY <1>13, <1>14 DEF SameItems, SameShown
<1>17. /\ Account(t) /\ SameRun(v, t) /\ SameItems(v, t)
       /\ t.pipe = Append(v.pipe, i) /\ t.wbuf = v.wbuf /\ t.copy = v.copy
  BY <1>7, <1>8, <1>15, EnqueueDoes
<1>18. SameShown(s, t) /\ SameRun(s, t)
  BY <1>15, <1>16, <1>17 DEF SameItems, SameShown, SameRun
<1>19. /\ t.pipe = Append(s.pipe, s.copy[n]) /\ t.copy = SubSeq(s.copy, n + 1, Len(s.copy)) /\ t.wbuf = s.wbuf
       /\ s.copy[n] = EndMark \/ (s.copy[n].op = "rep" /\ Gettable(s, s.copy[n].key))
  BY <1>8, <1>9, <1>14, <1>15, <1>17 DEF i
<1> QED BY <1>6, <1>10, <1>17, <1>18, <1>19 DEF t

-------------------------------------------------------------------------------
(* Rows of exit marks *)

\* A row of exit marks is no longer than there are exit marks.
LEMMA RowIsFew ==
  ASSUME NEW p \in Seq(ItemType), NEW i \in 1 .. Len(p), NEW j \in 1 .. Len(p), i <= j, Marks(p, i, j)
  PROVE  j - i + 1 <= Len(p) - Outstanding(p)
<1> DEFINE a == SubSeq(p, 1, j)
           z == SubSeq(p, j + 1, Len(p))
           b == SubSeq(a, 1, i - 1)
           m == SubSeq(a, (i - 1) + 1, Len(a))
<1>1. Len(p) \in Nat /\ i \in Nat /\ j \in Nat /\ j \in 0 .. Len(p) /\ 1 <= i /\ j <= Len(p)
  OBVIOUS
<1>2. a \in Seq(ItemType) /\ z \in Seq(ItemType) /\ Outstanding(p) = Outstanding(a) + Outstanding(z)
  BY <1>1, OutstandingSplit
<1>3. Len(a) = j /\ (\A x \in 1 .. j : a[x] = p[x]) /\ Len(z) = Len(p) - j
  BY <1>1
<1> HIDE DEF a, z
<1>4. i - 1 \in 0 .. Len(a)
  BY <1>1, <1>3
<1>5. b \in Seq(ItemType) /\ m \in Seq(ItemType) /\ Outstanding(a) = Outstanding(b) + Outstanding(m)
  BY <1>2, <1>4, OutstandingSplit
<1>6. /\ Len(m) = Len(a) - (i - 1)
      /\ \A x \in 1 .. Len(a) - (i - 1) : m[x] = a[(i - 1) + x] /\ (i - 1) + x \in 1 .. Len(a)
  BY <1>2, <1>4, SubSeqFacts
<1>7. Len(b) = i - 1
  BY <1>2, <1>3, <1>4
<1> HIDE DEF b, m
<1>8. \A x \in 1 .. Len(m) : m[x] = ExitMark
  <2> SUFFICES ASSUME NEW x \in 1 .. Len(m) PROVE m[x] = ExitMark
    OBVIOUS
  <2>1. m[x] = a[(i - 1) + x] /\ (i - 1) + x \in 1 .. j /\ (i - 1) + x \in i .. j
    BY <1>1, <1>3, <1>6
  <2>2. p[(i - 1) + x] = ExitMark
    BY <2>1 DEF Marks
  <2> QED BY <1>3, <2>1, <2>2
<1>9. Outstanding(m) = 0
  BY <1>5, <1>8, OutstandingOne, OutstandingType
<1>10. /\ Outstanding(b) \in Nat /\ Outstanding(b) <= Len(b) /\ Outstanding(z) \in Nat /\ Outstanding(z) <= Len(z)
       /\ Outstanding(p) \in Nat /\ Outstanding(a) \in Nat
  BY <1>2, <1>5, OutstandingType
<1> QED BY ONLY <1>1, <1>2, <1>3, <1>5, <1>7, <1>9, <1>10

\* A read of n leaves no more exit marks, and less if it had one.
LEMMA FewLeft ==
  ASSUME NEW p \in Seq(ItemType), NEW n \in 0 .. Len(p), NEW z, z = SubSeq(p, n + 1, Len(p))
  PROVE  /\ Len(z) - Outstanding(z) <= Len(p) - Outstanding(p)
         /\ (\E j \in 1 .. n : p[j] = ExitMark) => Len(z) - Outstanding(z) + 1 <= Len(p) - Outstanding(p)
         /\ z \in Seq(ItemType) /\ Len(z) \in Nat /\ Outstanding(z) \in Nat
         /\ Len(p) \in Nat /\ Outstanding(p) \in Nat
<1> DEFINE a == SubSeq(p, 1, n)
<1>1. /\ a \in Seq(ItemType) /\ z \in Seq(ItemType) /\ Outstanding(p) = Outstanding(a) + Outstanding(z)
  BY OutstandingSplit
<1>2. Len(p) \in Nat /\ n \in Nat /\ Len(z) = Len(p) - n /\ Len(z) \in Nat
  BY SubSeqFacts
<1>3. Len(a) = n /\ \A j \in 1 .. n : a[j] = p[j]
  BY <1>2
<1> HIDE DEF a
<1>4. /\ Outstanding(a) \in Nat /\ Outstanding(z) \in Nat /\ Outstanding(p) \in Nat /\ Outstanding(a) <= n
  BY <1>1, <1>3, OutstandingType
<1>5. ASSUME NEW j \in 1 .. n, p[j] = ExitMark PROVE Outstanding(a) + 1 <= n
  <2>1. j \in 1 .. Len(a) /\ j <= j /\ j - j + 1 = 1
    BY <1>2, <1>3
  <2>2. Marks(a, j, j)
    BY <1>2, <1>3, <1>5 DEF Marks
  <2>3. j - j + 1 <= Len(a) - Outstanding(a)
    BY <1>1, <2>1, <2>2, RowIsFew
  <2> QED BY <1>2, <1>3, <1>4, <2>1, <2>3
<1>6. Len(z) - Outstanding(z) <= Len(p) - Outstanding(p)
  BY <1>1, <1>2, <1>4
<1>7. ASSUME NEW j \in 1 .. n, p[j] = ExitMark
      PROVE  Len(z) - Outstanding(z) + 1 <= Len(p) - Outstanding(p)
  <2>1. Outstanding(a) + 1 <= n
    BY <1>5, <1>7
  <2> QED BY <2>1, <1>1, <1>2, <1>4
<1> QED BY <1>1, <1>2, <1>4, <1>6, <1>7

\* One more exit mark, or one more item.
LEMMA FewMore ==
  ASSUME NEW p \in Seq(ItemType), NEW i \in ItemType
  PROVE  /\ Len(Append(p, i)) - Outstanding(Append(p, i))
              = (Len(p) - Outstanding(p)) + (IF i = ExitMark THEN 1 ELSE 0)
         /\ Len(p) \in Nat /\ Outstanding(p) \in Nat /\ Outstanding(p) <= Len(p)
<1>1. Outstanding(Append(p, i)) = Outstanding(p) + (IF i = ExitMark THEN 0 ELSE 1)
  BY OutstandingAppend
<1>2. Len(p) \in Nat /\ Outstanding(p) \in Nat /\ Outstanding(p) <= Len(p)
  BY OutstandingType
<1>3. Len(Append(p, i)) = Len(p) + 1
  BY AppendFacts
<1> QED BY <1>1, <1>2, <1>3

\* Where there are few exit marks, and an item behind them if a process that is told to
\* end still copies, all is well.
LEMMA FewSignals ==
  ASSUME NEW t, t.pipe \in Seq(ItemType), NEW f \in 0 .. MaxFaults, Few(t.pipe, f),
         t.exit /\ t.copy # <<>> =>
           f > 0 /\ Len(t.pipe) > 0 /\ t.pipe[Len(t.pipe)] # ExitMark
  PROVE  Signals(t, f)
<1> DEFINE p == t.pipe
<1>1. Len(p) \in Nat /\ MaxFaults \in Nat /\ f \in Nat /\ Outstanding(p) \in Nat
  BY ReplicationAssumption, OutstandingType DEF ReplicationAssumption
<1>2. ASSUME t.exit, t.copy # <<>>, NEW i \in 1 .. Len(p) + 1, Marks(p, i, Len(p))
      PROVE  Len(p) + 1 - i < f
  <2>1. f > 0 /\ Len(p) > 0 /\ p[Len(p)] # ExitMark
    BY <1>2
  <2>2. Len(p) \notin i .. Len(p)
    BY <1>2, <2>1 DEF Marks
  <2> QED BY <1>1, <2>1, <2>2
<1>3. ASSUME NEW i \in 1 .. Len(p), NEW j \in 1 .. Len(p), i <= j, Marks(p, i, j)
      PROVE  j - i < f
  <2>1. j - i + 1 <= Len(p) - Outstanding(p)
    BY <1>3, RowIsFew
  <2>2. Len(p) - Outstanding(p) <= f
    BY DEF Few
  <2> HIDE DEF p
  <2>3. i \in Nat /\ j \in Nat
    BY <1>1
  <2> QED BY ONLY <1>1, <2>1, <2>2, <2>3
<1> QED BY <1>2, <1>3 DEF Signals

\* Signals may have come that are not in the queue.
LEMMA SignalsGrow ==
  ASSUME NEW t, t.pipe \in Seq(ItemType), NEW f, NEW g \in 0 .. MaxFaults, f <= g, Signals(t, f)
  PROVE  Signals(t, g)
<1>1. /\ f \in Nat /\ g \in Nat /\ Len(t.pipe) \in Nat /\ Outstanding(t.pipe) \in Nat
  BY ReplicationAssumption, OutstandingType DEF Signals, ReplicationAssumption
<1>2. ~t.exit => Few(t.pipe, g)
  BY <1>1 DEF Signals, Few
<1>3. ASSUME t.exit, t.copy # <<>>, NEW i \in 1 .. Len(t.pipe) + 1, Marks(t.pipe, i, Len(t.pipe))
      PROVE  Len(t.pipe) + 1 - i < g
  <2>1. Len(t.pipe) + 1 - i < f
    BY <1>3 DEF Signals
  <2> QED BY <1>1, <2>1
<1>4. ASSUME NEW i \in 1 .. Len(t.pipe), NEW j \in 1 .. Len(t.pipe), i <= j, Marks(t.pipe, i, j)
      PROVE  j - i < g \/ (t.copy = <<>> /\ Marks(t.pipe, i, Len(t.pipe)))
  <2>1. j - i < f \/ (t.copy = <<>> /\ Marks(t.pipe, i, Len(t.pipe)))
    BY <1>4 DEF Signals
  <2> QED BY <1>1, <2>1
<1> QED BY <1>2, <1>3, <1>4 DEF Signals

\* An exit mark behind all that is queued: a row may be one longer.  If the process was
\* told to end before, and copies, the row was short enough.
LEMMA MarkedSignals ==
  ASSUME NEW s, s.pipe \in Seq(ItemType), NEW f, Signals(s, f), f + 1 <= MaxFaults,
         NEW t, t.pipe = Append(s.pipe, ExitMark), t.copy = s.copy, t.exit = s.exit
  PROVE  Signals(t, f + 1)
<1> DEFINE L == Len(s.pipe)
           g == f + 1
<1>1. /\ t.pipe \in Seq(ItemType) /\ Len(t.pipe) = L + 1 /\ L \in Nat
      /\ t.pipe[L + 1] = ExitMark /\ \A j \in 1 .. L : t.pipe[j] = s.pipe[j]
  BY ItemsHaveType, AppendFacts
<1>2. /\ f \in Nat /\ g \in 0 .. MaxFaults /\ g \in Nat /\ Outstanding(s.pipe) \in Nat
      /\ Len(t.pipe) - Outstanding(t.pipe) = (L - Outstanding(s.pipe)) + 1
  BY ItemsHaveType, ReplicationAssumption, FewMore DEF Signals, ReplicationAssumption
<1>9. Outstanding(t.pipe) \in Nat
  <2>1. \A q \in Seq(ItemType) : Outstanding(q) \in Nat
    BY OutstandingType
  <2> QED BY ONLY <1>1, <2>1
<1> HIDE DEF L
<1>3. ~t.exit => Few(t.pipe, g)
  <2>1. ~s.exit => L - Outstanding(s.pipe) <= f
    BY DEF Signals, Few, L
  <2> QED BY <1>1, <1>2, <2>1 DEF Few
<1>4. ASSUME NEW i \in 1 .. L + 1, NEW j \in i .. L, Marks(t.pipe, i, L + 1)
      PROVE  Marks(s.pipe, i, L)
  BY <1>1, <1>4 DEF Marks
<1>5. ASSUME NEW i \in 1 .. L + 1, Marks(t.pipe, i, L + 1) PROVE Marks(s.pipe, i, L)
  <2>1. \A x \in i .. L : x \in i .. L + 1 /\ x \in 1 .. L
    BY <1>1
  <2> QED BY <1>1, <1>5, <2>1 DEF Marks
<1>6. ASSUME t.exit, t.copy # <<>>, NEW i \in 1 .. Len(t.pipe) + 1, Marks(t.pipe, i, Len(t.pipe))
      PROVE  Len(t.pipe) + 1 - i < g
  <2>1. CASE i = L + 2
    <3>1. \A x \in L + 1 .. L : FALSE
      BY <1>1
    <3>2. Marks(s.pipe, L + 1, L) /\ L + 1 \in 1 .. L + 1
      BY <1>1, <3>1 DEF Marks
    <3>3. L + 1 - (L + 1) < f
      BY <1>6, <3>2 DEF Signals, L
    <3> QED BY <1>1, <1>2, <2>1, <3>3
  <2>2. CASE i # L + 2
    <3>1. i \in 1 .. L + 1
      BY <1>1, <1>6, <2>2
    <3>2. Marks(s.pipe, i, L)
      BY <1>1, <1>5, <1>6, <3>1
    <3>3. L + 1 - i < f
      BY <1>6, <3>1, <3>2 DEF Signals, L
    <3> QED BY <1>1, <1>2, <3>1, <3>3
  <2> QED BY <2>1, <2>2
<1>7. ASSUME NEW i \in 1 .. L + 1, NEW j \in 1 .. L + 1, i <= j, Marks(t.pipe, i, j)
      PROVE  j - i < g \/ (t.copy = <<>> /\ Marks(t.pipe, i, L + 1))
  <2>1. CASE j \in 1 .. L
    <3>1. i \in 1 .. L /\ \A x \in i .. j : x \in 1 .. L
      BY <1>1, <1>7, <2>1
    <3>2. Marks(s.pipe, i, j)
      BY <1>1, <1>7, <3>1 DEF Marks
    <3>3. j - i < f \/ (s.copy = <<>> /\ Marks(s.pipe, i, L))
      BY <1>7, <2>1, <3>1, <3>2 DEF Signals, L
    <3>4. Marks(s.pipe, i, L) => Marks(t.pipe, i, L + 1)
      <4>1. \A x \in i .. L + 1 : x = L + 1 \/ (x \in i .. L /\ x \in 1 .. L)
        BY <1>1, <3>1
      <4> QED BY <1>1, <4>1 DEF Marks
    <3>5. i \in Nat /\ j \in Nat
      BY <1>7
    <3> QED BY <1>2, <3>3, <3>4, <3>5
  <2>2. CASE j = L + 1
    <3>1. Marks(s.pipe, i, L)
      BY <1>5, <1>7, <2>2
    <3>2. CASE s.copy = <<>>
      BY <1>7, <2>2, <3>2
    <3>3. CASE s.copy # <<>> /\ s.exit
      <4>1. L + 1 - i < f
        BY <1>7, <3>1, <3>3 DEF Signals, L
      <4> QED BY <1>1, <1>2, <1>7, <2>2, <4>1
    <3>4. CASE ~s.exit
      <4>1. j - i + 1 <= Len(t.pipe) - Outstanding(t.pipe)
        BY <1>1, <1>7, RowIsFew
      <4>2. Len(t.pipe) - Outstanding(t.pipe) <= g
        BY <1>3, <3>4 DEF Few
      <4>3. Outstanding(t.pipe) \in Nat /\ Len(t.pipe) \in Nat /\ i \in Nat /\ j \in Nat
        <5>1. Outstanding(t.pipe) \in Nat /\ Len(t.pipe) \in Nat
          BY ONLY <1>1, <1>9
        <5>2. i \in Nat /\ j \in Nat
          BY <1>7
        <5> QED BY <5>1, <5>2
      <4> QED BY ONLY <1>2, <4>1, <4>2, <4>3
    <3> QED BY <3>2, <3>3, <3>4
  <2> QED BY <1>1, <1>7, <2>1, <2>2
<1>8. \A i, j \in 1 .. Len(t.pipe) :
        i <= j /\ Marks(t.pipe, i, j) =>
          j - i < g \/ (t.copy = <<>> /\ Marks(t.pipe, i, Len(t.pipe)))
  BY <1>1, <1>7
<1> QED BY <1>2, <1>3, <1>6, <1>8 DEF Signals

-------------------------------------------------------------------------------
(* What the peer will have of a source *)

\* What is sent in two parts is what is sent at once.
LEMMA ConcatAssociative ==
  ASSUME NEW S, NEW p \in Seq(S), NEW q \in Seq(S), NEW r \in Seq(S)
  PROVE  /\ p \o q \in Seq(S) /\ (p \o q) \o r \in Seq(S)
         /\ p \o (q \o r) = (p \o q) \o r
<1> DEFINE x == p \o q
           y == q \o r
           a == p \o y
           z == x \o r
<1>1. /\ x \in Seq(S) /\ y \in Seq(S) /\ Len(x) = Len(p) + Len(q) /\ Len(y) = Len(q) + Len(r)
      /\ \A j \in 1 .. Len(p) : x[j] = p[j]
      /\ \A j \in Len(p) + 1 .. Len(x) : x[j] = q[j - Len(p)]
      /\ \A j \in 1 .. Len(q) : y[j] = q[j]
      /\ \A j \in Len(q) + 1 .. Len(y) : y[j] = r[j - Len(q)]
  OBVIOUS
<1>2. Len(p) \in Nat /\ Len(q) \in Nat /\ Len(r) \in Nat
  OBVIOUS
<1> HIDE DEF x, y
<1>3. /\ a \in Seq(S) /\ z \in Seq(S) /\ Len(a) = Len(p) + Len(y) /\ Len(z) = Len(x) + Len(r)
      /\ \A j \in 1 .. Len(p) : a[j] = p[j]
      /\ \A j \in Len(p) + 1 .. Len(a) : a[j] = y[j - Len(p)]
      /\ \A j \in 1 .. Len(x) : z[j] = x[j]
      /\ \A j \in Len(x) + 1 .. Len(z) : z[j] = r[j - Len(x)]
  BY <1>1
<1> HIDE DEF a, z
<1>4. Len(a) = Len(z)
  BY <1>1, <1>2, <1>3
<1>5. ASSUME NEW j \in 1 .. Len(a) PROVE a[j] = z[j]
  <2>1. CASE j <= Len(p)
    BY <2>1, <1>1, <1>2, <1>3, <1>4
  <2>2. CASE j > Len(p) /\ j <= Len(p) + Len(q)
    <3>1. j - Len(p) \in 1 .. Len(q) /\ j \in Len(p) + 1 .. Len(a) /\ j \in 1 .. Len(x) /\ j \in Len(p) + 1 .. Len(x)
      BY <2>2, <1>1, <1>2, <1>3
    <3> QED BY <3>1, <1>1, <1>3
  <2>3. CASE j > Len(p) + Len(q)
    <3>1. j - Len(p) \in Len(q) + 1 .. Len(y) /\ j \in Len(p) + 1 .. Len(a) /\ j \in Len(x) + 1 .. Len(z)
      BY <2>3, <1>1, <1>2, <1>3, <1>4
    <3>2. a[j] = r[(j - Len(p)) - Len(q)] /\ z[j] = r[j - Len(x)]
      BY <3>1, <1>1, <1>3
    <3>3. (j - Len(p)) - Len(q) = j - Len(x)
      BY <1>1, <1>2
    <3> QED BY <3>2, <3>3
  <2> QED BY <2>1, <2>2, <2>3, <1>2
<1>6. a = z
  BY <1>3, <1>4, <1>5
<1> QED BY <1>1, <1>3, <1>6 DEF a, z, x, y

\* The marks are about no key.
LEMMA KeyIsNoMark ==
  ASSUME NEW k \in Key
  PROVE  k # NoKey /\ ExitMark.key # k /\ EndMark.key # k
BY ReplicationAssumption DEF ReplicationAssumption, ExitMark, EndMark, Item

\* What a read of the queue makes of it: every key that is no longer queued has its
\* present value as its last word.
LEMMA SourceTaken ==
  ASSUME NEW s, Account(s), NEW c \in Seq(Sent), NEW b, NEW R, NEW F, F \subseteq R, NEW X,
         SourceOf(s, c, b, R, F, X)
  PROVE  SourceOf(Taken(s), c, b, R, F, X)
<1> DEFINE t == Taken(s)
           n == ReadLen(s)
           u == Commanded(s)
           w == c \o s.wbuf
<1>1. s \in Process /\ s.wbuf \in Seq(Sent)
  BY DEF Account
<1>2. s.pipe \in Seq(ItemType) /\ Len(s.pipe) \in Nat /\ DOMAIN s.pipe = 1 .. Len(s.pipe)
  BY <1>1, ProcessFacts
<1>3. n \in 0 .. Len(s.pipe) /\ n \in Nat
  BY <1>1, ReadLenDoes
<1>4. /\ SameItems(s, t) /\ t.copy = s.copy
      /\ t.pipe = SubSeq(s.pipe, n + 1, Len(s.pipe)) /\ t.wbuf = s.wbuf \o u
  BY TakenDoes
<1>5. MadeOf(s, n, u)
  BY <1>1, CommandedDoes
<1> HIDE DEF n, u, t
<1>6. /\ DOMAIN t.pipe = 1 .. Len(s.pipe) - n
      /\ \A j \in 1 .. Len(s.pipe) - n : t.pipe[j] = s.pipe[n + j] /\ n + j \in 1 .. Len(s.pipe)
      /\ \A j \in n + 1 .. Len(s.pipe) : s.pipe[j] = t.pipe[j - n] /\ j - n \in 1 .. Len(s.pipe) - n
  BY <1>2, <1>3, <1>4, SubSeqFacts
<1>7. u \in Seq(Sent)
  BY <1>5 DEF MadeOf
<1>8. w \in Seq(Sent) /\ c \o t.wbuf = w \o u
  <2>1. w \in Seq(Sent)
    BY <1>1
  <2> DEFINE y == s.wbuf
  <2>2. y \in Seq(Sent)
    BY <1>1
  <2>3. t.wbuf = y \o u /\ w = c \o y
    BY <1>4
  <2> HIDE DEF y, w
  <2>4. c \o (y \o u) = (c \o y) \o u
    BY <1>7, <2>2, ConcatAssociative
  <2> QED BY <2>1, <2>3, <2>4
<1>9. \A k : Final(c \o t.wbuf, b[k], k) = Final(u, Final(w, b[k], k), k)
  <2> HIDE DEF w
  <2> QED BY <1>7, <1>8, FinalConcat
<1>10. \A k \in Key : Visible(t)[k] = Visible(s)[k]
  BY <1>4, VisibleIs DEF SameItems
<1>11. \A k : Asked(t, k) => Asked(s, k)
  BY <1>2, <1>6 DEF Asked
<1> HIDE DEF w
<1>12. ASSUME NEW k \in Key \ X, k \notin F, NEW m \in 1 .. Len(u), Speaks(u[m], k)
       PROVE  /\ u[m].value \in {None, Visible(s)[k]}
              /\ k \notin R => u[m].value = Visible(s)[k]
  <2>1. PICK j \in 1 .. n : s.pipe[j] # ExitMark /\ u[m] = replication_cmd(s, s.pipe[j])
    BY <1>5 DEF MadeOf
  <2> DEFINE i == s.pipe[j]
  <2>2. i \in ItemType /\ j \in DOMAIN s.pipe
    BY <1>2, <1>3
  <2>3. /\ u[m] \in Sent /\ u[m].key = i.key
        /\ i.op = "rep" => u[m].value = s.store[i.key] /\ u[m].op \in {"rep", "del"}
        /\ i.op # "rep" => u[m].value = None /\ u[m].op = i.op
    BY <1>1, <2>1, <2>2, replication_cmdDoes
  <2>4. /\ i.op \in {"rep", "del", "flush", "end", "exit"}
        /\ i.op \in {"flush", "end", "exit"} => i.key = NoKey
    BY <2>2, ItemFacts
  <2>5. CASE i.op = "rep"
    <3>1. i.key = k /\ u[m].value = s.store[k]
      BY <1>12, <2>3, <2>5 DEF Speaks
    <3>2. Asked(s, k)
      BY <2>2, <3>1 DEF Asked
    <3>3. k \notin s.hidden
      BY <1>12, <3>2 DEF SourceOf
    <3>4. Visible(s)[k] = IF s.store[k] # None /\ k \notin s.hidden THEN s.store[k] ELSE None
      BY <1>12, VisibleIs
    <3> QED BY <3>1, <3>3, <3>4
  <2>6. CASE i.op # "rep"
    <3>1. u[m].value = None
      BY <2>3, <2>6
    <3>2. k \in R
      <4>1. CASE u[m].op = "flush"
        <5>1. R = Key
          BY <2>2, <2>3, <2>6, <4>1 DEF SourceOf
        <5> QED BY <5>1
      <4>2. CASE u[m].op # "flush"
        <5>1. i.key = k
          BY <1>12, <2>3, <4>2 DEF Speaks
        <5>2. i.op = "del"
          BY <5>1, <2>4, <2>6, KeyIsNoMark
        <5> QED BY <2>2, <5>1, <5>2 DEF SourceOf
      <4> QED BY <4>1, <4>2
    <3> QED BY <3>1, <3>2
  <2> QED BY <2>5, <2>6
<1>13. ASSUME NEW k \in Key \ X, Asked(s, k), ~Asked(t, k)
       PROVE  \E m \in 1 .. Len(u) : Speaks(u[m], k)
  <2>1. PICK j \in 1 .. Len(s.pipe) : s.pipe[j].key = k
    BY <1>2, <1>13 DEF Asked
  <2>2. j \in 1 .. n
    <3>1. CASE j > n
      <4>1. j \in n + 1 .. Len(s.pipe)
        BY <3>1, <1>2, <1>3
      <4>2. t.pipe[j - n].key = k /\ j - n \in DOMAIN t.pipe
        BY <4>1, <2>1, <1>6
      <4> QED BY <4>2, <1>13 DEF Asked
    <3> QED BY <3>1, <1>3
  <2>3. s.pipe[j] \in ItemType /\ s.pipe[j] # ExitMark
    BY <2>1, <1>2, KeyIsNoMark
  <2>4. PICK m \in 1 .. Len(u) : u[m] = replication_cmd(s, s.pipe[j])
    BY <1>5, <2>2, <2>3 DEF MadeOf
  <2>5. u[m].key = k
    BY <1>1, <2>1, <2>3, <2>4, replication_cmdDoes
  <2> QED BY <2>5 DEF Speaks
<1>14. ASSUME NEW k \in Key \ X, ~Asked(t, k), k \notin F
       PROVE  Final(c \o t.wbuf, b[k], k) \in {None, Visible(t)[k]}
  <2> DEFINE V == {None, Visible(s)[k]}
             old == Final(w, b[k], k)
  <2>1. \A m \in 1 .. Len(u) : Speaks(u[m], k) => u[m].value \in V
    BY <1>12, <1>14
  <2>2. old \in V \/ \E m \in 1 .. Len(u) : Speaks(u[m], k)
    <3>1. CASE Asked(s, k)
      BY <1>13, <1>14, <3>1
    <3>2. CASE ~Asked(s, k)
      BY <1>14, <3>2 DEF SourceOf, w
    <3> QED BY <3>1, <3>2
  <2> HIDE DEF V, old
  <2>3. Final(u, old, k) \in V
    BY <1>7, <2>1, <2>2, FinalIn
  <2> QED BY <2>3, <1>9, <1>10 DEF V, old
<1>15. ASSUME NEW k \in Key \ X, ~Asked(t, k), ~Contains(t.copy, Item("rep", k)), k \notin R
       PROVE  Final(c \o t.wbuf, b[k], k) = Visible(t)[k]
  <2> DEFINE V == {Visible(s)[k]}
             old == Final(w, b[k], k)
  <2>0. k \notin F
    BY <1>15
  <2>1. \A m \in 1 .. Len(u) : Speaks(u[m], k) => u[m].value \in V
    BY <1>12, <1>15, <2>0
  <2>2. old \in V \/ \E m \in 1 .. Len(u) : Speaks(u[m], k)
    <3>1. CASE Asked(s, k)
      BY <1>13, <1>15, <3>1
    <3>2. CASE ~Asked(s, k)
      <4>1. ~Contains(s.copy, Item("rep", k))
        BY <1>4, <1>15
      <4> QED BY <1>15, <3>2, <4>1 DEF SourceOf, w
    <3> QED BY <3>1, <3>2
  <2> HIDE DEF V, old
  <2>3. Final(u, old, k) \in V
    BY <1>7, <2>1, <2>2, FinalIn
  <2> QED BY <2>3, <1>9, <1>10 DEF V, old
<1>16. \A k \in Key \ X : k \in t.hidden /\ k \notin F => ~Asked(t, k)
  BY <1>4, <1>11 DEF SourceOf, SameItems
<1>17. \A j \in DOMAIN t.pipe : /\ t.pipe[j].op = "del" => t.pipe[j].key \in R
                                /\ t.pipe[j].op = "flush" => R = Key
  BY <1>2, <1>6 DEF SourceOf
<1> QED BY <1>14, <1>15, <1>16, <1>17 DEF SourceOf, t

\* One more item at the end: of a key the source may queue.
LEMMA SourceAppend ==
  ASSUME NEW s, s.pipe \in Seq(ItemType), NEW i \in ItemType, NEW t,
         t.pipe = Append(s.pipe, i), t.wbuf = s.wbuf, t.copy = s.copy, SameItems(s, t),
         NEW c, NEW b, NEW R, NEW F, NEW X, SourceOf(s, c, b, R, F, X),
         i.op = "del" => i.key \in R,
         i.op = "flush" => R = Key,
         i.key \in Key \ X /\ i.key \in s.hidden => i.key \in F
  PROVE  SourceOf(t, c, b, R, F, X)
<1> DEFINE n == Len(s.pipe) + 1
<1>1. /\ DOMAIN s.pipe = 1 .. Len(s.pipe) /\ DOMAIN t.pipe = 1 .. n /\ Len(s.pipe) \in Nat
      /\ t.pipe[n] = i /\ \A j \in 1 .. Len(s.pipe) : t.pipe[j] = s.pipe[j]
  BY AppendFacts
<1>2. \A j \in DOMAIN t.pipe : (j \in DOMAIN s.pipe /\ t.pipe[j] = s.pipe[j]) \/ t.pipe[j] = i
  BY <1>1
<1>3. \A j \in DOMAIN s.pipe : j \in DOMAIN t.pipe /\ t.pipe[j] = s.pipe[j]
  BY <1>1
<1> HIDE DEF n
<1>4. \A k : Asked(s, k) => Asked(t, k)
  BY <1>3 DEF Asked
<1>5. \A k : Asked(t, k) => Asked(s, k) \/ i.key = k
  BY <1>2 DEF Asked
<1>6. \A k \in Key : Visible(t)[k] = Visible(s)[k]
  BY VisibleIs DEF SameItems
<1>7. ASSUME NEW k \in Key \ X, k \in t.hidden, k \notin F PROVE ~Asked(t, k)
  <2>1. k \in s.hidden
    BY <1>7 DEF SameItems
  <2>2. ~Asked(s, k)
    BY <1>7, <2>1 DEF SourceOf
  <2> QED BY <1>5, <1>7, <2>1, <2>2
<1>8. \A j \in DOMAIN t.pipe : /\ t.pipe[j].op = "del" => t.pipe[j].key \in R
                               /\ t.pipe[j].op = "flush" => R = Key
  <2> SUFFICES ASSUME NEW j \in DOMAIN t.pipe
               PROVE  /\ t.pipe[j].op = "del" => t.pipe[j].key \in R
                      /\ t.pipe[j].op = "flush" => R = Key
    OBVIOUS
  <2>1. CASE j \in DOMAIN s.pipe /\ t.pipe[j] = s.pipe[j]
    BY <2>1 DEF SourceOf
  <2>2. CASE t.pipe[j] = i
    BY <2>2
  <2> QED BY <1>2, <2>1, <2>2
<1>9. ASSUME NEW k \in Key \ X, ~Asked(t, k), k \notin F
      PROVE  Final(c \o t.wbuf, b[k], k) \in {None, Visible(t)[k]}
  BY <1>4, <1>6, <1>9 DEF SourceOf
<1>10. ASSUME NEW k \in Key \ X, ~Asked(t, k), ~Contains(t.copy, Item("rep", k)), k \notin R
       PROVE  Final(c \o t.wbuf, b[k], k) = Visible(t)[k]
  BY <1>4, <1>6, <1>10 DEF SourceOf
<1> QED BY <1>7, <1>8, <1>9, <1>10 DEF SourceOf

\* The key that a command was at work on is queued: it needs no exemption any more.
LEMMA SourceDone ==
  ASSUME NEW t, NEW c, NEW b, NEW R, NEW F, NEW k, SourceOf(t, c, b, R, F, {k}),
         Asked(t, k), k \in t.hidden => k \in F
  PROVE  SourceOf(t, c, b, R, F, {})
<1>1. \A j \in Key \ {} : j \in Key \ {k} \/ j = k
  OBVIOUS
<1>2. ASSUME NEW j \in Key \ {}, ~Asked(t, j) PROVE j \in Key \ {k}
  BY <1>1, <1>2
<1>3. ASSUME NEW j \in Key \ {}, j \in t.hidden, j \notin F PROVE j \in Key \ {k}
  BY <1>1, <1>3
<1>4. ASSUME NEW j \in Key \ {}, ~Asked(t, j), j \notin F
      PROVE  Final(c \o t.wbuf, b[j], j) \in {None, Visible(t)[j]}
  BY <1>2, <1>4 DEF SourceOf
<1>5. ASSUME NEW j \in Key \ {}, ~Asked(t, j), ~Contains(t.copy, Item("rep", j)), j \notin R
      PROVE  Final(c \o t.wbuf, b[j], j) = Visible(t)[j]
  BY <1>2, <1>5 DEF SourceOf
<1>6. ASSUME NEW j \in Key \ {}, j \in t.hidden, j \notin F PROVE ~Asked(t, j)
  BY <1>3, <1>6 DEF SourceOf
<1> QED BY <1>4, <1>5, <1>6 DEF SourceOf

\* The next item of a copy is queued, and every key it has is told of still.
LEMMA SourceMarugoto ==
  ASSUME NEW s, Account(s), CopyShape(s), s.copy # <<>>, s.free > 0 \/ s.count < QMax,
         NEW c, NEW b, NEW R, NEW F, F \subseteq R, NEW X, SourceOf(s, c, b, R, F, X)
  PROVE  SourceOf(replication_marugoto(s), c, b, R, F, X)
<1> DEFINE t == replication_marugoto(s)
<1>1. /\ Account(t) /\ SameRun(s, t) /\ SameShown(s, t) /\ t.wbuf = s.wbuf
      /\ \E n \in 1 .. Len(s.copy) :
           /\ t.pipe = Append(s.pipe, s.copy[n]) /\ t.copy = SubSeq(s.copy, n + 1, Len(s.copy))
           /\ s.copy[n] = EndMark \/ (s.copy[n].op = "rep" /\ Gettable(s, s.copy[n].key))
           /\ \A j \in 1 .. n - 1 : ~Gettable(s, s.copy[j].key)
  BY replication_marugotoDoes
<1> HIDE DEF t
<1>2. PICK n \in 1 .. Len(s.copy) :
        /\ t.pipe = Append(s.pipe, s.copy[n]) /\ t.copy = SubSeq(s.copy, n + 1, Len(s.copy))
        /\ s.copy[n] = EndMark \/ (s.copy[n].op = "rep" /\ Gettable(s, s.copy[n].key))
        /\ \A j \in 1 .. n - 1 : ~Gettable(s, s.copy[j].key)
  BY <1>1
<1> DEFINE i == s.copy[n]
<1>3. s.pipe \in Seq(ItemType) /\ s.copy \in Seq(ItemType) /\ Len(s.copy) \in Nat
  BY ProcessFacts DEF Account
<1>4. i \in ItemType
  BY <1>2, <1>3
<1>5. i.op \in {"rep", "end"} /\ (i.op = "rep" => i = Item("rep", i.key) /\ Gettable(s, i.key))
      /\ (i.op = "end" => i.key = NoKey)
  <2>1. /\ i.op = "end" <=> i = EndMark
        /\ i.op = "rep" => i = Item("rep", i.key)
        /\ i.op = "end" => i.key = NoKey
    BY <1>4, ItemFacts
  <2>2. i = EndMark \/ (i.op = "rep" /\ Gettable(s, i.key))
    BY <1>2
  <2>3. "rep" # "end"
    OBVIOUS
  <2> HIDE DEF i
  <2> QED BY <2>1, <2>2, <2>3
<1>6. /\ \A j \in DOMAIN t.pipe : (j \in DOMAIN s.pipe /\ t.pipe[j] = s.pipe[j]) \/ t.pipe[j] = i
      /\ \A j \in DOMAIN s.pipe : j \in DOMAIN t.pipe /\ t.pipe[j] = s.pipe[j]
      /\ \E j \in DOMAIN t.pipe : t.pipe[j] = i
  <2> HIDE DEF i
  <2> DEFINE l == Len(s.pipe) + 1
  <2>1. /\ DOMAIN s.pipe = 1 .. Len(s.pipe) /\ DOMAIN t.pipe = 1 .. l /\ Len(s.pipe) \in Nat
        /\ t.pipe[l] = i /\ \A j \in 1 .. Len(s.pipe) : t.pipe[j] = s.pipe[j]
    BY <1>2, <1>3, <1>4, AppendFacts DEF i
  <2> QED BY <2>1
<1>7. /\ \A j \in n + 1 .. Len(s.copy) : s.copy[j] = t.copy[j - n] /\ j - n \in 1 .. Len(s.copy) - n
      /\ Len(t.copy) = Len(s.copy) - n
  <2>1. n \in 0 .. Len(s.copy)
    BY <1>2, <1>3
  <2> QED BY <1>2, <1>3, <2>1, SubSeqFacts
<1> HIDE DEF i
<1>8. \A k : Asked(s, k) => Asked(t, k)
  BY <1>6 DEF Asked
<1>9. \A k : Asked(t, k) => Asked(s, k) \/ i.key = k
  BY <1>6 DEF Asked
<1>10. Asked(t, i.key)
  BY <1>6 DEF Asked
<1>11. \A k \in Key : Visible(t)[k] = Visible(s)[k]
  BY <1>1, ShownIsSame
<1>12. ASSUME NEW k \in Key \ X, ~Asked(t, k), k \notin F
       PROVE  Final(c \o t.wbuf, b[k], k) \in {None, Visible(t)[k]}
  BY <1>1, <1>8, <1>11, <1>12 DEF SourceOf
<1>13. ASSUME NEW k \in Key \ X, ~Asked(t, k), ~Contains(t.copy, Item("rep", k)), k \notin R
       PROVE  Final(c \o t.wbuf, b[k], k) = Visible(t)[k]
  <2>1. CASE ~Contains(s.copy, Item("rep", k))
    BY <1>1, <1>8, <1>11, <1>13, <2>1 DEF SourceOf
  <2>2. CASE Contains(s.copy, Item("rep", k))
    <3>1. PICK j \in 1 .. Len(s.copy) : s.copy[j] = Item("rep", k)
      BY <2>2 DEF Contains
    <3>2. Item("rep", k).key = k
      BY DEF Item
    <3>3. ~(j > n)
      <4> SUFFICES ASSUME j > n PROVE FALSE
        OBVIOUS
      <4>1. j \in n + 1 .. Len(s.copy)
        BY <1>3
      <4>2. t.copy[j - n] = Item("rep", k) /\ j - n \in 1 .. Len(t.copy)
        BY <4>1, <3>1, <1>7
      <4> QED BY <4>2, <1>13 DEF Contains
    <3>4. j # n
      BY <1>10, <1>13, <3>1, <3>2 DEF i
    <3>5. j \in 1 .. n - 1
      BY <3>3, <3>4, <1>3
    <3>6. ~Gettable(s, k)
      BY <3>1, <3>2, <3>5, <1>2
    <3>7. Visible(s)[k] = None
      BY <1>13, <3>6, VisibleIs
    <3>8. k \notin F
      BY <1>13
    <3> QED BY <1>11, <1>12, <1>13, <3>7, <3>8
  <2> QED BY <2>1, <2>2
<1>14. ASSUME NEW k \in Key \ X, k \in t.hidden, k \notin F PROVE ~Asked(t, k)
  <2>1. k \in s.hidden
    BY <1>1, <1>14 DEF SameShown
  <2>2. ~Asked(s, k)
    BY <1>14, <2>1 DEF SourceOf
  <2>3. i.key # k
    <3>1. CASE i.op = "rep"
      BY <1>5, <2>1, <3>1 DEF Gettable
    <3>2. CASE i.op = "end"
      BY <1>5, <1>14, <3>2, KeyIsNoMark
    <3> QED BY <1>5, <3>1, <3>2
  <2> QED BY <1>9, <2>2, <2>3
<1>15. \A j \in DOMAIN t.pipe : /\ t.pipe[j].op = "del" => t.pipe[j].key \in R
                                /\ t.pipe[j].op = "flush" => R = Key
  <2> SUFFICES ASSUME NEW j \in DOMAIN t.pipe
               PROVE  /\ t.pipe[j].op = "del" => t.pipe[j].key \in R
                      /\ t.pipe[j].op = "flush" => R = Key
    OBVIOUS
  <2>1. CASE j \in DOMAIN s.pipe /\ t.pipe[j] = s.pipe[j]
    BY <2>1 DEF SourceOf
  <2>2. CASE t.pipe[j] = i
    BY <2>2, <1>5
  <2> QED BY <1>6, <2>1, <2>2
<1> QED BY <1>12, <1>13, <1>14, <1>15 DEF SourceOf, t

-------------------------------------------------------------------------------
(* A read of the queue *)

\* The places of two sequences put together.
LEMMA ConcatFacts ==
  ASSUME NEW S, NEW p \in Seq(S), NEW q \in Seq(S), NEW r, r = p \o q
  PROVE  /\ r \in Seq(S) /\ Len(r) = Len(p) + Len(q) /\ Len(p) \in Nat /\ Len(q) \in Nat
         /\ DOMAIN r = 1 .. Len(p) + Len(q)
         /\ \A j \in 1 .. Len(p) : r[j] = p[j] /\ j \in 1 .. Len(p) + Len(q)
         /\ \A j \in 1 .. Len(q) : r[Len(p) + j] = q[j] /\ Len(p) + j \in 1 .. Len(p) + Len(q)
         /\ \A j \in 1 .. Len(p) + Len(q) : \/ j \in 1 .. Len(p) /\ r[j] = p[j]
                                            \/ j - Len(p) \in 1 .. Len(q) /\ r[j] = q[j - Len(p)]
<1>1. /\ r \in Seq(S) /\ Len(r) = Len(p) + Len(q) /\ Len(p) \in Nat /\ Len(q) \in Nat
      /\ \A j \in 1 .. Len(p) : r[j] = p[j]
      /\ \A j \in 1 .. Len(q) : r[Len(p) + j] = q[j]
      /\ \A j \in Len(p) + 1 .. Len(r) : r[j] = q[j - Len(p)]
  OBVIOUS
<1>2. DOMAIN r = 1 .. Len(p) + Len(q)
  BY <1>1
<1>3. \A j \in 1 .. Len(p) : j \in 1 .. Len(p) + Len(q)
  BY <1>1
<1>4. \A j \in 1 .. Len(q) : Len(p) + j \in 1 .. Len(p) + Len(q)
  BY <1>1
<1>5. ASSUME NEW j \in 1 .. Len(p) + Len(q)
      PROVE  \/ j \in 1 .. Len(p) /\ r[j] = p[j]
             \/ j - Len(p) \in 1 .. Len(q) /\ r[j] = q[j - Len(p)]
  <2>1. j \in 1 .. Len(p) \/ (j \in Len(p) + 1 .. Len(r) /\ j - Len(p) \in 1 .. Len(q))
    BY <1>1
  <2> QED BY <2>1, <1>1
<1>6. \A j \in 1 .. Len(p) : r[j] = p[j] /\ j \in 1 .. Len(p) + Len(q)
  BY <1>1, <1>3
<1>7. \A j \in 1 .. Len(q) : r[Len(p) + j] = q[j] /\ Len(p) + j \in 1 .. Len(p) + Len(q)
  BY <1>1, <1>4
<1>8. \A j \in 1 .. Len(p) + Len(q) : \/ j \in 1 .. Len(p) /\ r[j] = p[j]
                                      \/ j - Len(p) \in 1 .. Len(q) /\ r[j] = q[j - Len(p)]
  BY <1>5
<1> QED BY <1>1, <1>2, <1>6, <1>7, <1>8

\* The queue after a read, before the copy goes on.
Requeued(s) == IF Taken(s).exit THEN replication_item(Taken(s), ExitMark) ELSE Taken(s)

\* An exit mark that was read is queued again while items remain.
LEMMA RequeuedDoes ==
  ASSUME NEW s, Account(s)
  PROVE  LET t == Requeued(s)
             n == ReadLen(s)
             z == SubSeq(s.pipe, n + 1, Len(s.pipe))
         IN
         /\ Account(t) /\ SameItems(s, t) /\ t.copy = s.copy
         /\ t.up = s.up /\ t.started = s.started /\ t.link = s.link /\ t.sending = s.sending
         /\ t.exit <=> s.exit \/ \E j \in 1 .. n : s.pipe[j] = ExitMark
         /\ t.pipe = IF t.exit THEN Append(z, ExitMark) ELSE z
         /\ t.wbuf = s.wbuf \o Commanded(s) /\ t.count = s.count /\ t.free = Taken(s).free
         /\ t.exit = Taken(s).exit
<1> DEFINE a == Taken(s)
           t == Requeued(s)
           n == ReadLen(s)
           z == SubSeq(s.pipe, n + 1, Len(s.pipe))
<1>1. /\ Account(a) /\ SameItems(s, a) /\ a.copy = s.copy
      /\ a.up = s.up /\ a.started = s.started /\ a.link = s.link /\ a.sending = s.sending
      /\ a.exit <=> s.exit \/ \E j \in 1 .. n : s.pipe[j] = ExitMark
      /\ a.pipe = z /\ a.wbuf = s.wbuf \o Commanded(s) /\ a.count = s.count
  BY TakenDoes
<1> DEFINE b == replication_item(a, ExitMark)
<1>2. t = IF a.exit THEN b ELSE a
  BY DEF Requeued
<1> HIDE DEF a, t, n, z
<1>3. /\ Account(b) /\ SameRun(a, b) /\ SameItems(a, b)
      /\ b.pipe = Append(a.pipe, ExitMark) /\ b.wbuf = a.wbuf /\ b.copy = a.copy
      /\ b.count = a.count /\ b.free = a.free
  BY <1>1, MarkDoes
<1> HIDE DEF b
<1>4. CASE a.exit
  <2>1. t = b
    BY <1>2, <1>4
  <2>2. Account(t) /\ SameRun(a, t) /\ SameItems(a, t) /\ t.exit = a.exit
    BY <1>3, <2>1 DEF SameRun
  <2>3. t.pipe = Append(z, ExitMark) /\ t.wbuf = a.wbuf /\ t.copy = a.copy /\ t.count = a.count /\ t.free = a.free
    BY <1>1, <1>3, <2>1
  <2> QED BY <1>1, <1>4, <2>2, <2>3 DEF a, t, n, z, SameRun, SameItems
<1>5. CASE ~a.exit
  <2>1. t = a
    BY <1>2, <1>5
  <2> QED BY <1>1, <1>5, <2>1 DEF a, t, n, z
<1> QED BY <1>4, <1>5

\* A read of exit marks alone finds no copy under way.
LEMMA NoCopyBehindMarks ==
  ASSUME NEW s, Account(s), CopyOf(s), \A j \in 1 .. ReadLen(s) : s.pipe[j] = ExitMark
  PROVE  s.copy = <<>> /\ \A j \in 1 .. Len(s.pipe) : s.pipe[j] = ExitMark
<1> DEFINE n == ReadLen(s)
<1>1. s \in Process /\ s.pipe \in Seq(ItemType) /\ DOMAIN s.pipe = 1 .. Len(s.pipe) /\ Len(s.pipe) \in Nat
  BY ProcessFacts DEF Account
<1>2. n \in 0 .. Len(s.pipe) /\ n \in Nat /\ (n = Len(s.pipe) \/ n > MaxFaults)
  BY <1>1, ReadLenDoes
<1> HIDE DEF n
<1>3. \A j \in 1 .. n : s.pipe[j] = ExitMark
  BY DEF n
<1>4. CASE n = Len(s.pipe)
  <2>1. \A j \in 1 .. Len(s.pipe) : s.pipe[j] = ExitMark
    BY <1>3, <1>4
  <2>2. s.copy = <<>>
    BY <2>1, <1>1 DEF CopyOf, CopyAt
  <2> QED BY <2>1, <2>2
<1>5. CASE n > MaxFaults
  <2>1. faults \in 0 .. MaxFaults /\ MaxFaults \in Nat
    BY ReplicationAssumption DEF CopyOf, CopyAt, Signals, ReplicationAssumption
  <2>2. 1 \in 1 .. Len(s.pipe) /\ n \in 1 .. Len(s.pipe) /\ 1 <= n /\ ~(n - 1 < faults)
    BY <1>1, <1>2, <1>5, <2>1
  <2>3. Marks(s.pipe, 1, n)
    BY <1>3 DEF Marks
  <2>4. s.copy = <<>> /\ Marks(s.pipe, 1, Len(s.pipe))
    BY <2>2, <2>3 DEF CopyOf, CopyAt, Signals
  <2> QED BY <2>4 DEF Marks
<1> QED BY <1>2, <1>4, <1>5

\* A read that leaves a copy under way leaves room in the queue for its next item.
LEMMA RoomForCopy ==
  ASSUME NEW s, Account(s), CopyOf(s), s.copy # <<>>
  PROVE  Requeued(s).free > 0
<1> DEFINE n == ReadLen(s)
           a == SubSeq(s.pipe, 1, n)
<1>1. s \in Process /\ s.pipe \in Seq(ItemType) /\ Len(s.pipe) \in Nat /\ s.free \in 0 .. QMax /\ QMax \in Nat
  BY ProcessFacts, ReplicationAssumption DEF Account, ReplicationAssumption
<1>2. n \in 0 .. Len(s.pipe) /\ n \in Nat
  BY <1>1, ReadLenDoes
<1>3. PICK j \in 1 .. n : s.pipe[j] # ExitMark
  BY NoCopyBehindMarks
<1>4. Requeued(s).free = s.free + Outstanding(a)
  BY RequeuedDoes, TakenDoes
<1> HIDE DEF n
<1>5. a \in Seq(ItemType) /\ Len(a) = n /\ a[j] = s.pipe[j]
  BY <1>1, <1>2
<1> HIDE DEF a
<1>6. Outstanding(a) > 0 /\ Outstanding(a) \in Nat
  <2>1. \E l \in 1 .. Len(a) : a[l] # ExitMark
    BY <1>3, <1>5
  <2> QED BY <2>1, <1>5, OutstandingOne, OutstandingType
<1> QED BY <1>1, <1>4, <1>6

\* replication_pop keeps the account of the queue and the shape of the copy, and shows
\* the same values.
LEMMA replication_popDoes ==
  ASSUME NEW s, Account(s), CopyOf(s)
  PROVE  LET t == replication_pop(s) IN
         /\ Account(t) /\ CopyOf(t) /\ SameShown(s, t)
         /\ t.up = s.up /\ t.started = s.started /\ t.link = s.link /\ t.sending = s.sending
         /\ t.exit = Taken(s).exit /\ (s.exit => t.exit) /\ t.wbuf = s.wbuf \o Commanded(s)
         /\ ~s.exit => Few(t.pipe, faults) /\ (t.exit => faults > 0)
<1> DEFINE t == replication_pop(s)
           a == Requeued(s)
           n == ReadLen(s)
           z == SubSeq(s.pipe, n + 1, Len(s.pipe))
           r == Len(s.pipe) - n
           L == IF a.exit THEN r + 1 ELSE r
<1>1. s \in Process /\ s.pipe \in Seq(ItemType) /\ DOMAIN s.pipe = 1 .. Len(s.pipe) /\ Len(s.pipe) \in Nat
  BY ProcessFacts DEF Account
<1>2. n \in 0 .. Len(s.pipe) /\ n \in Nat
  BY <1>1, ReadLenDoes
<1>3. /\ Account(a) /\ SameItems(s, a) /\ a.copy = s.copy
      /\ a.up = s.up /\ a.started = s.started /\ a.link = s.link /\ a.sending = s.sending
      /\ a.exit <=> s.exit \/ \E j \in 1 .. n : s.pipe[j] = ExitMark
      /\ a.pipe = IF a.exit THEN Append(z, ExitMark) ELSE z
      /\ a.wbuf = s.wbuf \o Commanded(s) /\ a.exit = Taken(s).exit
  BY RequeuedDoes
<1>4. t = replication_marugoto(a)
  BY DEF replication_pop, Requeued
<1> HIDE DEF t, a, n
<1>5. /\ z \in Seq(ItemType) /\ Len(z) = r /\ r \in Nat
      /\ \A j \in 1 .. r : z[j] = s.pipe[n + j] /\ n + j \in 1 .. Len(s.pipe)
  BY <1>1, <1>2, SubSeqFacts
<1> HIDE DEF z
<1>6. /\ a.pipe \in Seq(ItemType) /\ Len(a.pipe) = L /\ L \in Nat /\ DOMAIN a.pipe = 1 .. L
      /\ \A j \in 1 .. r : a.pipe[j] = s.pipe[n + j] /\ n + j \in 1 .. Len(s.pipe)
      /\ a.exit => a.pipe[r + 1] = ExitMark
      /\ \A j \in 1 .. L : j \in 1 .. r \/ (a.exit /\ j = r + 1)
  <2>1. CASE a.exit
    <3>1. a.pipe = Append(z, ExitMark)
      BY <1>3, <2>1
    <3>2. /\ Append(z, ExitMark) \in Seq(ItemType) /\ Len(Append(z, ExitMark)) = r + 1
          /\ DOMAIN Append(z, ExitMark) = 1 .. r + 1 /\ Append(z, ExitMark)[r + 1] = ExitMark
          /\ \A j \in 1 .. r : Append(z, ExitMark)[j] = z[j]
      BY <1>5, ItemsHaveType, AppendFacts
    <3> HIDE DEF r
    <3> QED BY <2>1, <3>1, <3>2, <1>5
  <2>2. CASE ~a.exit
    <3>1. a.pipe = z
      BY <1>3, <2>2
    <3> HIDE DEF r
    <3> QED BY <2>2, <3>1, <1>5
  <2> QED BY <2>1, <2>2
<1>0. /\ faults \in 0 .. MaxFaults /\ faults \in Nat /\ Signals(s, faults)
      /\ CopyShape(s) /\ (s.copy # <<>> => \E j \in DOMAIN s.pipe : s.pipe[j] # ExitMark)
  BY ReplicationAssumption DEF CopyOf, CopyAt, Signals, ReplicationAssumption
<1>7. ~s.exit => Few(a.pipe, faults) /\ (a.exit => faults > 0)
  <2> SUFFICES ASSUME ~s.exit PROVE Few(a.pipe, faults) /\ (a.exit => faults > 0)
    OBVIOUS
  <2>1. Len(s.pipe) - Outstanding(s.pipe) <= faults
    BY <1>0 DEF Signals, Few
  <2>2. /\ Len(z) - Outstanding(z) <= Len(s.pipe) - Outstanding(s.pipe)
        /\ (\E j \in 1 .. n : s.pipe[j] = ExitMark) =>
             Len(z) - Outstanding(z) + 1 <= Len(s.pipe) - Outstanding(s.pipe)
        /\ Len(z) \in Nat /\ Outstanding(z) \in Nat /\ Outstanding(s.pipe) \in Nat
    BY <1>1, <1>2, FewLeft DEF z
  <2>3. /\ Len(Append(z, ExitMark)) - Outstanding(Append(z, ExitMark)) = (Len(z) - Outstanding(z)) + 1
        /\ Outstanding(z) <= Len(z)
    BY <1>5, ItemsHaveType, FewMore
  <2>4. CASE a.exit
    <3>1. Len(z) - Outstanding(z) + 1 <= Len(s.pipe) - Outstanding(s.pipe)
      BY <1>3, <2>2, <2>4
    <3> DEFINE x == Len(z)
               y == Outstanding(z)
               v == Len(s.pipe) - Outstanding(s.pipe)
    <3>2. x \in Nat /\ y \in Nat /\ y <= x /\ v \in Int /\ x - y + 1 <= v /\ v <= faults
      BY <1>1, <2>1, <2>2, <2>3, <3>1
    <3>3. Len(a.pipe) - Outstanding(a.pipe) = (x - y) + 1
      BY <1>3, <2>3, <2>4
    <3> HIDE DEF x, y, v
    <3>4. (x - y) + 1 <= faults /\ faults > 0
      BY ONLY <1>0, <3>2
    <3> QED BY <3>3, <3>4 DEF Few
  <2>5. CASE ~a.exit
    <3>1. a.pipe = z
      BY <1>3, <2>5
    <3>2. Len(z) - Outstanding(z) <= faults
      BY <1>0, <1>1, <2>1, <2>2
    <3> QED BY <2>5, <3>1, <3>2 DEF Few
  <2> QED BY <2>4, <2>5
<1>8. ASSUME s.exit, NEW i \in 1 .. L, NEW j \in 1 .. L, i <= j, Marks(a.pipe, i, j)
      PROVE  j - i < faults \/ (s.copy = <<>> /\ Marks(a.pipe, i, L))
  <2>1. a.exit /\ L = r + 1
    BY <1>3, <1>8
  <2>2. \A x \in 1 .. Len(s.pipe) : x > n => a.pipe[x - n] = s.pipe[x] /\ x - n \in 1 .. r
    <3> SUFFICES ASSUME NEW x \in 1 .. Len(s.pipe), x > n PROVE a.pipe[x - n] = s.pipe[x] /\ x - n \in 1 .. r
      OBVIOUS
    <3>1. x - n \in 1 .. r /\ n + (x - n) = x
      BY <1>1, <1>2
    <3> QED BY <1>6, <3>1
  <2>3. i \in Nat /\ j \in Nat /\ 1 <= i
    BY <1>8
  <2>4. CASE j \in 1 .. r
    <3>1. n + i \in 1 .. Len(s.pipe) /\ n + j \in 1 .. Len(s.pipe) /\ n + i <= n + j /\ (n + j) - (n + i) = j - i
      BY <1>1, <1>2, <1>8, <2>3, <2>4
    <3>2. Marks(s.pipe, n + i, n + j)
      <4> SUFFICES ASSUME NEW x \in n + i .. n + j PROVE s.pipe[x] = ExitMark
        BY DEF Marks
      <4>1. x \in 1 .. Len(s.pipe) /\ x > n /\ x - n \in i .. j
        BY <1>1, <1>2, <2>3, <3>1
      <4> QED BY <1>8, <2>2, <4>1 DEF Marks
    <3>3. (n + j) - (n + i) < faults \/ (s.copy = <<>> /\ Marks(s.pipe, n + i, Len(s.pipe)))
      BY <1>0, <3>1, <3>2 DEF Signals
    <3>4. ASSUME Marks(s.pipe, n + i, Len(s.pipe)) PROVE Marks(a.pipe, i, L)
      <4> SUFFICES ASSUME NEW x \in i .. L PROVE a.pipe[x] = ExitMark
        BY DEF Marks
      <4>1. CASE x \in 1 .. r
        <5>1. n + x \in n + i .. Len(s.pipe) /\ a.pipe[x] = s.pipe[n + x]
          BY <1>1, <1>2, <1>6, <2>3, <4>1
        <5> QED BY <3>4, <5>1 DEF Marks
      <4>2. CASE x \notin 1 .. r
        <5>1. x = r + 1
          BY <1>5, <2>1, <2>3, <4>2
        <5> QED BY <1>6, <2>1, <5>1
      <4> QED BY <4>1, <4>2
    <3> QED BY <3>1, <3>3, <3>4
  <2>5. CASE j = L /\ s.copy = <<>>
    BY <1>8, <2>5
  <2>6. CASE j = L /\ s.copy # <<>>
    <3>1. n + i \in 1 .. Len(s.pipe) + 1 /\ Len(s.pipe) + 1 - (n + i) = j - i
      BY <1>1, <1>2, <1>8, <2>1, <2>3, <2>6
    <3>2. Marks(s.pipe, n + i, Len(s.pipe))
      <4> SUFFICES ASSUME NEW x \in n + i .. Len(s.pipe) PROVE s.pipe[x] = ExitMark
        BY DEF Marks
      <4>1. x \in 1 .. Len(s.pipe) /\ x > n /\ x - n \in i .. j
        BY <1>1, <1>2, <2>1, <2>3, <2>6
      <4> QED BY <1>8, <2>2, <4>1 DEF Marks
    <3>3. Len(s.pipe) + 1 - (n + i) < faults
      BY <1>0, <1>8, <2>6, <3>1, <3>2 DEF Signals
    <3> QED BY <3>1, <3>3
  <2>7. j \in 1 .. r \/ j = L
    BY <1>5, <1>8, <2>1
  <2> QED BY <2>4, <2>5, <2>6, <2>7
<1> HIDE DEF L, r
<1>9. s.exit => a.exit
  BY <1>3
<1>10. CASE s.copy = <<>>
  <2>1. t = a
    BY <1>3, <1>4, <1>10 DEF replication_marugoto
  <2>2. SameShown(s, a)
    BY <1>3 DEF SameItems, SameShown
  <2>3. CopyOf(a)
    <3>1. a.copy = <<>> /\ DOMAIN a.copy = {}
      BY <1>3, <1>10
    <3>2. Signals(a, faults)
      <4>1. CASE ~s.exit
        BY <1>0, <1>6, <1>7, <3>1, <4>1, FewSignals
      <4>2. CASE s.exit
        BY <1>0, <1>6, <1>8, <1>9, <1>10, <3>1, <4>2 DEF Signals
      <4> QED BY <4>1, <4>2
    <3> QED BY <3>1, <3>2 DEF CopyOf, CopyAt, CopyShape
  <2> QED BY <1>3, <1>7, <1>9, <2>1, <2>2, <2>3 DEF t
<1>11. CASE s.copy # <<>>
  <2>0. a.free > 0
    BY <1>11, RoomForCopy DEF a
  <2>1. CopyShape(a) /\ a.copy # <<>>
    BY <1>0, <1>3, <1>11 DEF CopyShape
  <2>2. /\ Account(t) /\ SameRun(a, t) /\ SameShown(a, t) /\ t.wbuf = a.wbuf
        /\ \E l \in 1 .. Len(a.copy) :
             /\ t.pipe = Append(a.pipe, a.copy[l]) /\ t.copy = SubSeq(a.copy, l + 1, Len(a.copy))
             /\ a.copy[l] = EndMark \/ (a.copy[l].op = "rep" /\ Gettable(a, a.copy[l].key))
    BY <1>3, <1>4, <2>0, <2>1, replication_marugotoDoes
  <2>3. PICK l \in 1 .. Len(a.copy) :
          /\ t.pipe = Append(a.pipe, a.copy[l]) /\ t.copy = SubSeq(a.copy, l + 1, Len(a.copy))
          /\ a.copy[l] = EndMark \/ (a.copy[l].op = "rep" /\ Gettable(a, a.copy[l].key))
    BY <2>2
  <2> DEFINE i == a.copy[l]
             c == a.copy
  <2>4. c \in Seq(ItemType) /\ Len(c) \in Nat /\ DOMAIN c = 1 .. Len(c)
    BY <1>3, ProcessFacts DEF Account
  <2>5. i \in ItemType /\ i # ExitMark
    <3>1. i \in ItemType /\ i.op \in {"rep", "end"}
      BY <2>1, <2>4 DEF CopyShape
    <3>2. i.op # "exit"
      BY <3>1
    <3> QED BY <3>1, <3>2, ItemFacts
  <2>6. /\ DOMAIN t.pipe = 1 .. L + 1 /\ Len(t.pipe) = L + 1 /\ t.pipe[L + 1] = i
        /\ \A j \in 1 .. L : t.pipe[j] = a.pipe[j]
    <3> HIDE DEF i
    <3>1. t.pipe = Append(a.pipe, i)
      BY <2>3 DEF i
    <3>2. t.pipe \in Seq(ItemType) /\ Len(t.pipe) = Len(a.pipe) + 1
      BY <3>1, <1>6, <2>5, AppendFacts
    <3> QED BY <3>1, <3>2, <1>6, <2>5, AppendFacts
  <2>7. CopyShape(t)
    <3>1. /\ Len(t.copy) = Len(c) - l /\ DOMAIN t.copy = 1 .. Len(c) - l
          /\ \A j \in 1 .. Len(c) - l : t.copy[j] = c[l + j] /\ l + j \in 1 .. Len(c)
      BY <2>3, <2>4, SubSeqFacts
    <3>2. ASSUME NEW j \in 1 .. Len(c) - l PROVE t.copy[j].op = IF j < Len(c) - l THEN "rep" ELSE "end"
      <4>1. t.copy[j] = c[l + j] /\ l + j \in DOMAIN c /\ (l + j < Len(c) <=> j < Len(c) - l)
        BY <3>1, <2>4
      <4>2. c[l + j].op = IF l + j < Len(c) THEN "rep" ELSE "end"
        BY <4>1, <2>1 DEF CopyShape
      <4> QED BY <4>1, <4>2
    <3> QED BY <3>1, <3>2 DEF CopyShape
  <2> HIDE DEF i, c
  <2>8. t.pipe = Append(a.pipe, i) /\ t.pipe \in Seq(ItemType) /\ t.exit = a.exit
    BY <1>6, <2>2, <2>3, <2>5, AppendFacts DEF i, SameRun
  <2>10. ~s.exit => Few(t.pipe, faults)
    <3> SUFFICES ASSUME Few(a.pipe, faults) PROVE Few(t.pipe, faults)
      BY <1>7
    <3>1. Len(Append(a.pipe, i)) - Outstanding(Append(a.pipe, i)) = (Len(a.pipe) - Outstanding(a.pipe)) + 0
      BY <1>6, <2>5, FewMore
    <3>2. Len(a.pipe) \in Nat /\ Outstanding(a.pipe) \in Nat
      BY <1>6, OutstandingType
    <3> QED BY <2>8, <3>1, <3>2 DEF Few
  <2>12. Signals(t, faults)
    <3>1. CASE ~s.exit
      <4>1. Len(t.pipe) > 0 /\ t.pipe[Len(t.pipe)] # ExitMark
        BY <1>6, <2>5, <2>6
      <4> QED BY <1>0, <1>7, <2>8, <2>10, <3>1, <4>1, FewSignals
    <3>2. CASE s.exit
      <4>1. ASSUME NEW x \in 1 .. Len(t.pipe) + 1, Marks(t.pipe, x, Len(t.pipe))
            PROVE  Len(t.pipe) + 1 - x < faults
        <5>1. x = L + 2
          <6>1. L + 1 \notin x .. L + 1
            BY <2>5, <2>6, <4>1 DEF Marks
          <6> QED BY <1>6, <2>6, <6>1
        <5>2. Marks(s.pipe, Len(s.pipe) + 1, Len(s.pipe)) /\ Len(s.pipe) + 1 \in 1 .. Len(s.pipe) + 1
          <6>1. \A y \in Len(s.pipe) + 1 .. Len(s.pipe) : FALSE
            BY <1>1
          <6> QED BY <1>1, <6>1 DEF Marks
        <5>3. Len(s.pipe) + 1 - (Len(s.pipe) + 1) < faults
          BY <1>0, <1>11, <3>2, <5>2 DEF Signals
        <5> QED BY <1>1, <1>6, <2>6, <5>1, <5>3
      <4>2. ASSUME NEW x \in 1 .. Len(t.pipe), NEW y \in 1 .. Len(t.pipe), x <= y, Marks(t.pipe, x, y)
            PROVE  y - x < faults
        <5>1. y # L + 1
          BY <2>5, <2>6, <4>2 DEF Marks
        <5>2. x \in 1 .. L /\ y \in 1 .. L /\ \A v \in x .. y : v \in 1 .. L
          BY <1>6, <2>6, <4>2, <5>1
        <5>3. Marks(a.pipe, x, y)
          BY <2>6, <4>2, <5>2 DEF Marks
        <5> QED BY <1>8, <1>11, <3>2, <4>2, <5>2, <5>3
      <4> QED BY <1>0, <1>9, <2>8, <3>2, <4>1, <4>2 DEF Signals
    <3> QED BY <3>1, <3>2
  <2>9. CopyOf(t)
    <3>1. L + 1 \in DOMAIN t.pipe
      BY <1>6, <2>6
    <3>2. \E j \in DOMAIN t.pipe : t.pipe[j] # ExitMark
      BY <3>1, <2>5, <2>6
    <3> QED BY <2>7, <2>12, <3>2, Zenon DEF CopyOf, CopyAt
  <2>11. SameShown(s, t)
    <3>1. SameShown(s, a)
      BY <1>3 DEF SameItems, SameShown
    <3> QED BY <2>2, <3>1, ShownTwice
  <2> QED BY <1>3, <1>7, <1>9, <2>8, <2>2, <2>9, <2>10, <2>11 DEF t, SameRun
<1> QED BY <1>10, <1>11

\* A whole replication_pop tells the peer of what the queue was about.
LEMMA SourcePop ==
  ASSUME NEW s, Account(s), CopyOf(s), NEW c \in Seq(Sent), NEW b, NEW R, NEW F, F \subseteq R, NEW X,
         SourceOf(s, c, b, R, F, X)
  PROVE  SourceOf(replication_pop(s), c, b, R, F, X)
<1> DEFINE a == Taken(s)
           q == Requeued(s)
           m == replication_item(a, ExitMark)
<1>1. SourceOf(a, c, b, R, F, X) /\ Account(a)
  BY SourceTaken, TakenDoes
<1>2. q = IF a.exit THEN m ELSE a
  BY DEF Requeued
<1>3. Account(q) /\ q.copy = s.copy
  BY RequeuedDoes
<1>4. /\ Account(m) /\ SameItems(a, m)
      /\ m.pipe = Append(a.pipe, ExitMark) /\ m.wbuf = a.wbuf /\ m.copy = a.copy
  BY <1>1, MarkDoes
<1>5. replication_pop(s) = replication_marugoto(q)
  BY DEF replication_pop, Requeued
<1>9. s.copy # <<>> => q.free > 0
  BY RoomForCopy
<1> HIDE DEF a, q, m
<1>6. SourceOf(m, c, b, R, F, X)
  <2>1. a.pipe \in Seq(ItemType) /\ ExitMark \in ItemType
    BY <1>1, ProcessFacts, ItemsHaveType DEF Account
  <2>2. ExitMark.op # "del" /\ ExitMark.op # "flush" /\ ExitMark.key \notin Key
    BY KeyIsNoMark DEF ExitMark, Item
  <2> QED BY <1>1, <1>4, <2>1, <2>2, SourceAppend
<1>7. SourceOf(q, c, b, R, F, X)
  <2>1. CASE a.exit
    BY <1>2, <1>6, <2>1
  <2>2. CASE ~a.exit
    BY <1>1, <1>2, <2>2
  <2> QED BY <2>1, <2>2
<1>8. CASE s.copy = <<>>
  BY <1>3, <1>5, <1>7, <1>8 DEF replication_marugoto
<1>10. CASE s.copy # <<>>
  <2>1. CopyShape(q)
    BY <1>3 DEF CopyOf, CopyAt, CopyShape
  <2> QED BY <1>3, <1>5, <1>7, <1>9, <1>10, <2>1, SourceMarugoto
<1> QED BY <1>8, <1>10

-------------------------------------------------------------------------------
(* What a sink tells its peer *)

\* A peer that only answers the eviction of an item sends deletes of what was removed.
LEMMA SinkTaken ==
  ASSUME NEW s, Account(s), NEW c \in Seq(Sent), NEW F, SinkOf(s, c, F)
  PROVE  SinkOf(Taken(s), c, F)
<1> DEFINE t == Taken(s)
           n == ReadLen(s)
           u == Commanded(s)
           w == c \o s.wbuf
           v == c \o t.wbuf
<1>1. /\ s \in Process /\ s.wbuf \in Seq(Sent) /\ s.pipe \in Seq(ItemType)
      /\ DOMAIN s.pipe = 1 .. Len(s.pipe) /\ Len(s.pipe) \in Nat
  BY ProcessFacts DEF Account
<1>2. n \in 0 .. Len(s.pipe) /\ n \in Nat
  BY <1>1, ReadLenDoes
<1>3. t.copy = s.copy /\ t.pipe = SubSeq(s.pipe, n + 1, Len(s.pipe)) /\ t.wbuf = s.wbuf \o u
  BY TakenDoes
<1>4. MadeOf(s, n, u)
  BY <1>1, CommandedDoes
<1>5. u \in Seq(Sent)
  BY <1>4 DEF MadeOf
<1> HIDE DEF n, u, t
<1>6. /\ DOMAIN t.pipe = 1 .. Len(s.pipe) - n
      /\ \A j \in 1 .. Len(s.pipe) - n : t.pipe[j] = s.pipe[n + j] /\ n + j \in 1 .. Len(s.pipe)
  BY <1>1, <1>2, <1>3, SubSeqFacts
<1>7. w \in Seq(Sent)
  BY <1>1
<1>8. v = w \o u
  <2> DEFINE y == s.wbuf
  <2>1. y \in Seq(Sent)
    BY <1>1
  <2>2. v = c \o (y \o u) /\ w = c \o y
    BY <1>3
  <2> HIDE DEF y, w, v
  <2> QED BY <1>5, <2>1, <2>2, ConcatAssociative
<1> HIDE DEF w, v
<1>9. /\ DOMAIN v = 1 .. Len(w) + Len(u) /\ DOMAIN w = 1 .. Len(w)
      /\ \A j \in 1 .. Len(w) + Len(u) : \/ j \in 1 .. Len(w) /\ v[j] = w[j]
                                         \/ j - Len(w) \in 1 .. Len(u) /\ v[j] = u[j - Len(w)]
  BY <1>5, <1>7, <1>8, ConcatFacts
<1>10. \A j \in DOMAIN w : w[j].op = "del" /\ w[j].key \in F
  BY DEF SinkOf, w
<1>11. ASSUME NEW m \in 1 .. Len(u) PROVE u[m].op = "del" /\ u[m].key \in F
  <2>1. PICK j \in 1 .. n : s.pipe[j] # ExitMark /\ u[m] = replication_cmd(s, s.pipe[j])
    BY <1>4 DEF MadeOf
  <2>2. j \in DOMAIN s.pipe /\ s.pipe[j] \in ItemType
    BY <1>1, <1>2
  <2>3. s.pipe[j].op = "del" /\ s.pipe[j].key \in F
    BY <2>1, <2>2 DEF SinkOf
  <2> QED BY <1>1, <2>1, <2>2, <2>3, replication_cmdDoes
<1>12. \A j \in DOMAIN v : v[j].op = "del" /\ v[j].key \in F
  BY <1>9, <1>10, <1>11
<1>13. \A j \in DOMAIN t.pipe : t.pipe[j] = ExitMark \/ (t.pipe[j].op = "del" /\ t.pipe[j].key \in F)
  BY <1>1, <1>6 DEF SinkOf
<1>14. t.copy = <<>>
  BY <1>3 DEF SinkOf
<1> QED BY <1>12, <1>13, <1>14 DEF SinkOf, t, v

\* A mark or such a delete may be queued by it.
LEMMA SinkAppend ==
  ASSUME NEW s, s.pipe \in Seq(ItemType), NEW i \in ItemType, NEW t,
         t.pipe = Append(s.pipe, i), t.wbuf = s.wbuf, t.copy = s.copy,
         NEW c, NEW F, SinkOf(s, c, F), i = ExitMark \/ (i.op = "del" /\ i.key \in F)
  PROVE  SinkOf(t, c, F)
<1>1. \A j \in DOMAIN t.pipe : (j \in DOMAIN s.pipe /\ t.pipe[j] = s.pipe[j]) \/ t.pipe[j] = i
  <2> DEFINE n == Len(s.pipe) + 1
  <2>1. /\ DOMAIN s.pipe = 1 .. Len(s.pipe) /\ DOMAIN t.pipe = 1 .. n /\ Len(s.pipe) \in Nat
        /\ t.pipe[n] = i /\ \A j \in 1 .. Len(s.pipe) : t.pipe[j] = s.pipe[j]
    BY AppendFacts
  <2> QED BY <2>1
<1>2. ASSUME NEW j \in DOMAIN t.pipe
      PROVE  t.pipe[j] = ExitMark \/ (t.pipe[j].op = "del" /\ t.pipe[j].key \in F)
  <2>1. CASE j \in DOMAIN s.pipe /\ t.pipe[j] = s.pipe[j]
    BY <2>1 DEF SinkOf
  <2>2. CASE t.pipe[j] = i
    BY <2>2
  <2> QED BY <1>1, <2>1, <2>2
<1> QED BY <1>2 DEF SinkOf

\* And a whole replication_pop of it sends no more.
LEMMA SinkPop ==
  ASSUME NEW s, Account(s), NEW c \in Seq(Sent), NEW F, SinkOf(s, c, F)
  PROVE  SinkOf(replication_pop(s), c, F)
<1> DEFINE a == Taken(s)
           q == Requeued(s)
           m == replication_item(a, ExitMark)
<1>1. SinkOf(a, c, F) /\ Account(a)
  BY SinkTaken, TakenDoes
<1>2. q = IF a.exit THEN m ELSE a
  BY DEF Requeued
<1>4. m.pipe = Append(a.pipe, ExitMark) /\ m.wbuf = a.wbuf /\ m.copy = a.copy
  BY <1>1, MarkDoes
<1>5. replication_pop(s) = replication_marugoto(q)
  BY DEF replication_pop, Requeued
<1>3. q.copy = <<>>
  BY RequeuedDoes DEF SinkOf
<1> HIDE DEF a, q, m
<1>6. SinkOf(m, c, F)
  <2>1. a.pipe \in Seq(ItemType) /\ ExitMark \in ItemType
    BY <1>1, ProcessFacts, ItemsHaveType DEF Account
  <2> QED BY <1>1, <1>4, <2>1, SinkAppend
<1>7. SinkOf(q, c, F)
  BY <1>1, <1>2, <1>6
<1> QED BY <1>3, <1>5, <1>7 DEF replication_marugoto

-------------------------------------------------------------------------------
(* What the functions that the handlers call keep of a process *)

\* A process that is linked may have anything queued.
LEMMA SoundLinked ==
  ASSUME NEW t, Account(t), t.link = "linked", ~t.sending
  PROVE  Sound(t)
BY DEF Sound, Account

\* A process with an empty queue and no copy.
LEMMA CopyOfNothing ==
  ASSUME NEW t, t.pipe = <<>>, t.copy = <<>>, NEW f \in 0 .. MaxFaults
  PROVE  CopyAt(t, f)
<1>1. t.pipe \in Seq(ItemType) /\ Len(t.pipe) = 0 /\ Outstanding(t.pipe) = 0 /\ DOMAIN t.copy = {}
  BY OutstandingNone
<1>2. Few(t.pipe, f)
  BY <1>1 DEF Few
<1>3. Signals(t, f)
  BY <1>1, <1>2, FewSignals
<1> QED BY <1>1, <1>3 DEF CopyAt, CopyShape

\* A process without link has nothing queued.
LEMMA SoundUnlinked ==
  ASSUME NEW t, Account(t), t.link = "none", ~t.sending, t.up /\ ~t.exit => t.started,
         t.pipe = <<>>, t.wbuf = <<>>, t.copy = <<>>, faults \in 0 .. MaxFaults
  PROVE  Sound(t) /\ CopyOf(t)
<1>1. Sound(t)
  BY DEF Sound, Account
<1>2. CopyOf(t)
  BY CopyOfNothing DEF CopyOf
<1> QED BY <1>1, <1>2

\* A change of the items alone.
LEMMA SoundItems ==
  ASSUME NEW s, Sound(s), CopyOf(s), s.link # "connecting",
         NEW t \in Process, SameRun(s, t), SameQueue(s, t)
  PROVE  Sound(t) /\ CopyOf(t)
<1>1. Sound(t)
  BY DEF Sound, SameRun, SameQueue
<1>2. CopyOf(t)
  BY DEF CopyOf, CopyAt, CopyShape, Signals, SameRun, SameQueue
<1> QED BY <1>1, <1>2

\* An item that is queued leaves the copy and the exit marks as they are.
LEMMA EnqueueShape ==
  ASSUME NEW s, Account(s), CopyOf(s), Few(s.pipe, faults), s.exit => faults > 0,
         NEW i \in ItemType, i # ExitMark, s.free > 0 \/ s.count < QMax
  PROVE  CopyOf(Enqueue(s, i))
<1> DEFINE t == Enqueue(s, i)
           L == Len(s.pipe)
<1>1. /\ SameRun(s, t) /\ t.pipe = Append(s.pipe, i) /\ t.copy = s.copy
  BY EnqueueDoes
<1>2. s.pipe \in Seq(ItemType) /\ L \in Nat
  BY ProcessFacts DEF Account
<1> HIDE DEF t
<1>3. /\ t.pipe \in Seq(ItemType) /\ Len(t.pipe) = L + 1 /\ DOMAIN t.pipe = 1 .. L + 1 /\ DOMAIN s.pipe = 1 .. L
      /\ t.pipe[L + 1] = i /\ \A j \in 1 .. L : t.pipe[j] = s.pipe[j]
  BY <1>1, <1>2, AppendFacts
<1>4. Few(t.pipe, faults)
  <2>1. Len(Append(s.pipe, i)) - Outstanding(Append(s.pipe, i)) = (Len(s.pipe) - Outstanding(s.pipe)) + 0
    BY <1>2, FewMore
  <2>2. Len(s.pipe) \in Nat /\ Outstanding(s.pipe) \in Nat
    BY <1>2, OutstandingType
  <2> QED BY <1>1, <2>1, <2>2 DEF Few
<1> HIDE DEF L
<1>5. Len(t.pipe) > 0 /\ t.pipe[Len(t.pipe)] # ExitMark /\ \E j \in DOMAIN t.pipe : t.pipe[j] # ExitMark
  BY <1>2, <1>3
<1>6. Signals(t, faults)
  <2>1. faults \in 0 .. MaxFaults
    BY DEF CopyOf, CopyAt, Signals
  <2>2. t.exit => faults > 0
    BY <1>1 DEF SameRun
  <2> QED BY <1>3, <1>4, <1>5, <2>1, <2>2, FewSignals
<1>8. CopyShape(t)
  BY <1>1 DEF CopyOf, CopyAt, CopyShape
<1> QED BY <1>5, <1>6, <1>8, Zenon DEF CopyOf, CopyAt, t

\* No change is no difference.
LEMMA ShownItself == \A s : SameShown(s, s)
BY DEF SameShown

\* replication keeps what holds of a process that serves, or that executes for its peer.
LEMMA replicationDoes ==
  ASSUME NEW s, Sound(s), CopyOf(s), s.up, ~s.exit, ~s.sending,
         NEW i \in ItemType, i # ExitMark
  PROVE  LET t == replication(s, i) IN
         /\ Sound(t) /\ CopyOf(t) /\ SameShown(s, t) /\ t.up = s.up
         /\ s.link # "linked" => t = s
         /\ t.link \in {s.link, "none"}
         /\ t.link = "linked" => t.started = s.started
         /\ s.started => t.started
<1> DEFINE t == replication(s, i)
           p == replication_pop(s)
<1>1. Account(s) /\ Few(s.pipe, faults) /\ s \in Process
  BY DEF Sound, Account, CopyOf, CopyAt, Signals
<1>2. CASE s.link # "linked"
  <2>1. t = s
    BY <1>2 DEF replication
  <2> QED BY <2>1, <1>2, ShownItself
<1>3. CASE s.link = "linked" /\ CanAlloc(s, FALSE)
  <2> DEFINE e == Enqueue(s, i)
  <2>1. t = e
    BY <1>3 DEF replication
  <2>2. s.free > 0 \/ s.count < QMax
    BY <1>3 DEF CanAlloc
  <2>3. Account(e) /\ SameRun(s, e) /\ SameItems(s, e)
    BY <1>1, <2>2, EnqueueDoes
  <2>4. CopyOf(e)
    BY <1>1, <2>2, EnqueueShape
  <2> HIDE DEF e, t
  <2>5. Sound(e)
    BY <1>3, <2>3, <2>4, SoundLinked DEF SameRun
  <2>6. SameShown(s, e)
    BY <2>3 DEF SameItems, SameShown
  <2> QED BY <1>3, <2>1, <2>3, <2>4, <2>5, <2>6 DEF SameRun, t
<1>4. CASE s.link = "linked" /\ ~CanAlloc(s, FALSE)
  <2>1. /\ Account(p) /\ CopyOf(p) /\ SameShown(s, p)
        /\ p.up = s.up /\ p.started = s.started /\ p.link = s.link /\ p.sending = s.sending
        /\ Few(p.pipe, faults) /\ (p.exit => faults > 0)
    BY <1>1, replication_popDoes
  <2>2. t = IF CanAlloc(p, TRUE) THEN Enqueue(p, i) ELSE replication_close(p)
    BY <1>4 DEF replication
  <2> HIDE DEF p, t
  <2>3. CASE CanAlloc(p, TRUE)
    <3> DEFINE e == Enqueue(p, i)
    <3>1. t = e
      BY <2>2, <2>3
    <3>2. p.free > 0 \/ p.count < QMax
      BY <2>3 DEF CanAlloc
    <3>3. Account(e) /\ SameRun(p, e) /\ SameItems(p, e)
      BY <2>1, <3>2, EnqueueDoes
    <3>4. CopyOf(e)
      BY <2>1, <3>2, EnqueueShape
    <3> HIDE DEF e
    <3>5. Sound(e)
      BY <1>4, <2>1, <3>3, <3>4, SoundLinked DEF SameRun
    <3>6. SameShown(s, e)
      BY <2>1, <3>3 DEF SameItems, SameShown
    <3> QED BY <1>4, <2>1, <3>1, <3>3, <3>4, <3>5, <3>6 DEF SameRun, t
  <2>4. CASE ~CanAlloc(p, TRUE)
    <3> DEFINE e == replication_close(p)
    <3>1. t = e
      BY <2>2, <2>4
    <3>2. /\ Account(e) /\ SameItems(p, e) /\ e.link = "none" /\ ~e.sending
          /\ e.up = p.up /\ e.exit = p.exit /\ e.started = (p.started \/ ~p.exit)
          /\ e.pipe = <<>> /\ e.wbuf = <<>> /\ e.copy = <<>>
      BY <2>1, replication_closeDoes
    <3> HIDE DEF e
    <3>3. Sound(e) /\ CopyOf(e)
      <4>1. faults \in 0 .. MaxFaults
        BY DEF CopyOf, CopyAt, Signals
      <4> QED BY <3>2, <4>1, SoundUnlinked
    <3>4. SameShown(s, e)
      BY <2>1, <3>2 DEF SameItems, SameShown
    <3>5. s.started => e.started
      BY <2>1, <3>2
    <3> QED BY <1>4, <2>1, <3>1, <3>2, <3>3, <3>4, <3>5 DEF t
  <2> QED BY <2>3, <2>4
<1> QED BY <1>2, <1>3, <1>4

\* A source queues i, and the peer keeps up with it.
LEMMA SourceReplication ==
  ASSUME NEW s, Sound(s), CopyOf(s), ~s.exit, NEW i \in ItemType, i # ExitMark,
         replication(s, i).link = "linked",
         NEW c \in Seq(Sent), NEW b, NEW R, NEW F, F \subseteq R, NEW X, SourceOf(s, c, b, R, F, X),
         i.op = "del" => i.key \in R,
         i.op = "flush" => R = Key,
         i.key \in Key \ X /\ i.key \in s.hidden => i.key \in F
  PROVE  SourceOf(replication(s, i), c, b, R, F, X) /\ Asked(replication(s, i), i.key)
<1> DEFINE p == replication_pop(s)
           t == replication(s, i)
<1>1. Account(s)
  BY DEF Sound, Account
<1>2. SourceOf(p, c, b, R, F, X)
  BY <1>1, SourcePop
<1>3. Account(p) /\ SameShown(s, p)
  BY <1>1, replication_popDoes
<1>4. s.link = "linked"
  BY DEF replication
<1>5. \/ t = Enqueue(s, i) /\ (s.free > 0 \/ s.count < QMax)
      \/ t = Enqueue(p, i) /\ (p.free > 0 \/ p.count < QMax)
  <2>1. ~(t = replication_close(p))
    BY <1>3, replication_closeDoes
  <2> QED BY <1>4, <2>1 DEF replication, CanAlloc
<1> HIDE DEF p, t
<1>6. ASSUME NEW q, Account(q), SameShown(s, q), SourceOf(q, c, b, R, F, X), t = Enqueue(q, i),
             q.free > 0 \/ q.count < QMax
      PROVE  SourceOf(t, c, b, R, F, X) /\ Asked(t, i.key)
  <2>1. SameItems(q, t) /\ t.pipe = Append(q.pipe, i) /\ t.wbuf = q.wbuf /\ t.copy = q.copy
    BY <1>6, EnqueueDoes
  <2>2. q.pipe \in Seq(ItemType)
    BY <1>6, ProcessFacts DEF Account
  <2>3. i.key \in Key \ X /\ i.key \in q.hidden => i.key \in F
    BY <1>6 DEF SameShown
  <2>4. SourceOf(t, c, b, R, F, X)
    BY <1>6, <2>1, <2>2, <2>3, SourceAppend
  <2>5. Asked(t, i.key)
    <3> DEFINE n == Len(q.pipe) + 1
    <3>1. t.pipe[n] = i /\ n \in DOMAIN t.pipe
      BY <2>1, <2>2, AppendFacts
    <3> QED BY <3>1 DEF Asked
  <2> QED BY <2>4, <2>5
<1>7. CASE t = Enqueue(s, i) /\ (s.free > 0 \/ s.count < QMax)
  BY <1>1, <1>6, <1>7, ShownItself DEF t
<1>8. CASE t = Enqueue(p, i) /\ (p.free > 0 \/ p.count < QMax)
  BY <1>2, <1>3, <1>6, <1>8 DEF t
<1> QED BY <1>5, <1>7, <1>8

\* The delete of an evicted item, at a peer that only answers.
LEMMA SinkReplication ==
  ASSUME NEW s, Sound(s), CopyOf(s), ~s.exit, NEW i \in ItemType, i.op = "del",
         replication(s, i).link = "linked",
         NEW c \in Seq(Sent), NEW F, SinkOf(s, c, F), i.key \in F
  PROVE  SinkOf(replication(s, i), c, F)
<1> DEFINE p == replication_pop(s)
           t == replication(s, i)
<1>1. Account(s)
  BY DEF Sound, Account
<1>2. SinkOf(p, c, F)
  BY <1>1, SinkPop
<1>3. Account(p)
  BY <1>1, replication_popDoes
<1>4. s.link = "linked"
  BY DEF replication
<1>5. \/ t = Enqueue(s, i) /\ (s.free > 0 \/ s.count < QMax)
      \/ t = Enqueue(p, i) /\ (p.free > 0 \/ p.count < QMax)
  <2>1. ~(t = replication_close(p))
    BY <1>3, replication_closeDoes
  <2> QED BY <1>4, <2>1 DEF replication, CanAlloc
<1>0. i # ExitMark
  BY DEF ExitMark, Item
<1> HIDE DEF p, t
<1>6. ASSUME NEW q, Account(q), SinkOf(q, c, F), t = Enqueue(q, i), q.free > 0 \/ q.count < QMax
      PROVE  SinkOf(t, c, F)
  <2>1. t.pipe = Append(q.pipe, i) /\ t.wbuf = q.wbuf /\ t.copy = q.copy
    BY <1>0, <1>6, EnqueueDoes
  <2>2. q.pipe \in Seq(ItemType)
    BY <1>6, ProcessFacts DEF Account
  <2> QED BY <1>6, <2>1, <2>2, SinkAppend
<1>7. CASE t = Enqueue(s, i) /\ (s.free > 0 \/ s.count < QMax)
  BY <1>1, <1>6, <1>7 DEF t
<1>8. CASE t = Enqueue(p, i) /\ (p.free > 0 \/ p.count < QMax)
  BY <1>2, <1>3, <1>6, <1>8 DEF t
<1> QED BY <1>5, <1>7, <1>8

-------------------------------------------------------------------------------
(* A read of the queue while the items are copied *)

\* The next of the copy is alone in the queue.
LEMMA CopyGoesOn ==
  ASSUME NEW a, Account(a), CopyShape(a), a.pipe = <<>>, a.copy # <<>>, a.free > 0 \/ a.count < QMax,
         NEW p, p = replication_marugoto(a)
  PROVE  /\ Len(p.pipe) = 1 /\ DOMAIN p.pipe = 1 .. 1
         /\ p.pipe[1].op \in {"rep", "end"} /\ (p.pipe[1] = EndMark => p.copy = <<>>)
<1>1. PICK l \in 1 .. Len(a.copy) :
        p.pipe = Append(a.pipe, a.copy[l]) /\ p.copy = SubSeq(a.copy, l + 1, Len(a.copy))
  BY replication_marugotoDoes
<1> DEFINE i == a.copy[l]
<1>2. a.copy \in Seq(ItemType) /\ DOMAIN a.copy = 1 .. Len(a.copy) /\ Len(a.copy) \in Nat
  BY ProcessFacts DEF Account
<1>3. i \in ItemType /\ i.op = IF l < Len(a.copy) THEN "rep" ELSE "end"
  BY <1>1, <1>2 DEF CopyShape
<1>4. p.copy # <<>> <=> l < Len(a.copy)
  BY <1>1, <1>2, SubSeqFacts
<1>5. EndMark.op = "end"
  BY DEF EndMark, Item
<1>6. p.pipe = Append(<<>>, i)
  BY <1>1
<1> HIDE DEF i
<1>7. Len(p.pipe) = 1 /\ DOMAIN p.pipe = 1 .. 1 /\ p.pipe[1] = i
  BY <1>6
<1>8. i = EndMark => p.copy = <<>>
  BY <1>3, <1>4, <1>5
<1>9. i.op \in {"rep", "end"}
  BY <1>3
<1> QED BY <1>7, <1>8, <1>9

\* replication_pop while a copy is under way sends its end last.
LEMMA CopyingPop ==
  ASSUME NEW s, Account(s), CopyOf(s), ~Taken(s).exit, s.pipe # <<>>,
         NEW c \in Seq(Sent), CopyingOf(s, c)
  PROVE  CopyingOf(replication_pop(s), c)
<1> DEFINE n == ReadLen(s)
           a == Requeued(s)
           p == replication_pop(s)
           u == Commanded(s)
           w == c \o s.wbuf
           v == c \o p.wbuf
<1>1. /\ s \in Process /\ s.wbuf \in Seq(Sent) /\ s.pipe \in Seq(ItemType)
      /\ DOMAIN s.pipe = 1 .. Len(s.pipe) /\ Len(s.pipe) \in Nat /\ Len(s.pipe) # 0
  BY ProcessFacts DEF Account
<1>2. n \in 0 .. Len(s.pipe) /\ n \in Nat /\ (n = Len(s.pipe) \/ n >= 2)
  BY <1>1, ReadLenDoes
<1>3. /\ Account(a) /\ a.copy = s.copy
      /\ a.exit <=> s.exit \/ \E j \in 1 .. n : s.pipe[j] = ExitMark
      /\ a.pipe = IF a.exit THEN Append(SubSeq(s.pipe, n + 1, Len(s.pipe)), ExitMark)
                            ELSE SubSeq(s.pipe, n + 1, Len(s.pipe))
      /\ a.wbuf = s.wbuf \o u /\ a.exit = Taken(s).exit
  BY RequeuedDoes
<1>4. p = replication_marugoto(a)
  BY DEF replication_pop, Requeued
<1>5. s.copy # <<>> => a.free > 0
  BY RoomForCopy
<1>6. MadeOf(s, n, u)
  BY <1>1, CommandedDoes
<1>7. p.wbuf = s.wbuf \o u
  <2>1. ~s.exit
    BY <1>3
  <2>2. CASE s.copy = <<>>
    BY <1>3, <1>4, <2>2 DEF replication_marugoto
  <2>3. CASE s.copy # <<>>
    <3>1. CopyShape(a) /\ a.copy # <<>>
      BY <1>3, <2>3 DEF CopyOf, CopyAt, CopyShape, Signals
    <3> HIDE DEF a, p, u
    <3> QED BY <1>3, <1>4, <1>5, <2>3, <3>1, replication_marugotoDoes
  <2> QED BY <2>2, <2>3
<1> HIDE DEF n, a, p, u
<1>8. \A j \in 1 .. n : s.pipe[j] # ExitMark
  BY <1>3
<1>9. n = 1 /\ Len(s.pipe) = 1
  <2>1. \A i, j \in 1 .. n : i = j
    <3>1. \A j \in 1 .. n : j \in DOMAIN s.pipe
      BY <1>1, <1>2
    <3> QED BY <3>1, <1>8 DEF CopyingOf
  <2>2. ~(n >= 2)
    <3> SUFFICES ASSUME n >= 2 PROVE FALSE
      OBVIOUS
    <3>1. 1 \in 1 .. n /\ 2 \in 1 .. n
      BY <1>2
    <3>2. 1 = 2
      BY <2>1, <3>1
    <3> QED BY <3>2
  <2> DEFINE L == Len(s.pipe)
  <2>3. L \in Nat /\ L # 0 /\ n \in Nat /\ (n = L \/ n >= 2)
    BY <1>1, <1>2
  <2> HIDE DEF L
  <2>4. n = 1 /\ L = 1
    BY <2>2, <2>3
  <2> QED BY <2>4 DEF L
<1>10. a.pipe = <<>>
  <2>1. a.pipe = SubSeq(s.pipe, n + 1, Len(s.pipe))
    BY <1>3
  <2>2. SubSeq(s.pipe, n + 1, Len(s.pipe)) = <<>>
    BY <1>1, <1>2, <1>9, SubSeqFacts
  <2> QED BY <2>1, <2>2
<1>11. u \in Seq(Sent) /\ Len(u) \in Nat /\ Len(u) <= 1
  <2>1. u \in Seq(Sent) /\ Len(u) \in Nat
    BY <1>6 DEF MadeOf
  <2>2. ASSUME Len(u) > 1 PROVE FALSE
    <3>1. 1 \in 1 .. Len(u) /\ 2 \in 1 .. Len(u) /\ 1 < 2
      BY <2>1, <2>2
    <3>2. PICK i \in 1 .. n, j \in 1 .. n : i < j
      BY <1>6, <3>1 DEF MadeOf
    <3> QED BY <3>2, <1>9
  <2> QED BY <2>1, <2>2
<1>12. w \in Seq(Sent)
  BY <1>1
<1>13. v = w \o u
  <2> DEFINE y == s.wbuf
  <2>1. y \in Seq(Sent)
    BY <1>1
  <2>2. v = c \o (y \o u) /\ w = c \o y
    BY <1>7
  <2> HIDE DEF y, w, v
  <2> QED BY <1>11, <2>1, <2>2, ConcatAssociative
<1> HIDE DEF w, v
<1>14. /\ DOMAIN v = 1 .. Len(w) + Len(u) /\ DOMAIN w = 1 .. Len(w) /\ Len(v) = Len(w) + Len(u) /\ Len(w) \in Nat
       /\ \A j \in 1 .. Len(w) + Len(u) : \/ j \in 1 .. Len(w) /\ v[j] = w[j]
                                          \/ j - Len(w) \in 1 .. Len(u) /\ v[j] = u[j - Len(w)]
  BY <1>11, <1>12, <1>13, ConcatFacts
<1>15. ASSUME NEW j \in DOMAIN v, v[j].op = "end" PROVE j = Len(v) /\ s.copy = <<>>
  <2>1. 1 \in DOMAIN s.pipe /\ s.pipe[1] # ExitMark /\ s.pipe[1] \in ItemType
    BY <1>1, <1>8, <1>9
  <2>2. CASE j \in 1 .. Len(w) /\ v[j] = w[j]
    <3>1. j \in DOMAIN w /\ w[j].op = "end"
      BY <1>14, <1>15, <2>2
    <3>2. \A l \in DOMAIN s.pipe : s.pipe[l] = ExitMark
      BY <3>1 DEF CopyingOf, w
    <3> QED BY <2>1, <3>2
  <2>3. CASE j - Len(w) \in 1 .. Len(u) /\ v[j] = u[j - Len(w)]
    <3>1. j = Len(v) /\ j - Len(w) = 1
      BY <1>11, <1>14, <2>3
    <3>2. u[1].op = "end" /\ 1 \in 1 .. Len(u)
      BY <1>15, <2>3, <3>1
    <3>3. PICK l \in 1 .. n : u[1] = replication_cmd(s, s.pipe[l])
      BY <1>6, <3>2 DEF MadeOf
    <3>4. u[1] = replication_cmd(s, s.pipe[1])
      BY <1>9, <3>3
    <3>5. s.pipe[1].op = "end"
      BY <1>1, <2>1, <3>2, <3>4, replication_cmdDoes
    <3>6. s.pipe[1] = EndMark
      BY <2>1, <3>5, ItemFacts
    <3> QED BY <2>1, <3>1, <3>6 DEF CopyingOf
  <2> QED BY <1>14, <2>2, <2>3
<1>16. CASE s.copy = <<>>
  <2>1. p = a /\ p.copy = <<>> /\ p.pipe = <<>>
    BY <1>3, <1>4, <1>10, <1>16 DEF replication_marugoto
  <2>2. DOMAIN p.pipe = {}
    BY <2>1
  <2>3. \A j \in DOMAIN v : v[j].op = "end" => j = Len(v)
    BY <1>15
  <2> QED BY <2>1, <2>2, <2>3 DEF CopyingOf, p, v
<1>17. CASE s.copy # <<>>
  <2>1. CopyShape(a) /\ a.copy # <<>> /\ a.free > 0
    BY <1>3, <1>5, <1>17 DEF CopyOf, CopyAt, CopyShape, Signals
  <2>2. /\ Len(p.pipe) = 1 /\ DOMAIN p.pipe = 1 .. 1
        /\ p.pipe[1].op \in {"rep", "end"} /\ (p.pipe[1] = EndMark => p.copy = <<>>)
    BY <1>3, <1>4, <1>10, <2>1, CopyGoesOn
  <2>3. \A j \in DOMAIN v : v[j].op # "end"
    BY <1>15, <1>17
  <2>4. \A j \in DOMAIN p.pipe : j = 1
    BY <2>2
  <2> QED BY <2>2, <2>3, <2>4 DEF CopyingOf, p, v
<1> QED BY <1>16, <1>17

\* One readable event of the pipe.
LEMMA conn_pipe_recvDoes ==
  ASSUME NEW s, Sound(s), CopyOf(s), s.link = "linked", NEW t, t = conn_pipe_recv(replication_pop(s))
  PROVE  /\ Sound(t) /\ CopyOf(t) /\ SameShown(s, t)
         /\ t.up = s.up /\ t.started = s.started /\ t.link = s.link
         /\ t.exit = Taken(s).exit /\ (s.exit => t.exit)
         /\ t.pipe = replication_pop(s).pipe /\ t.copy = replication_pop(s).copy
         /\ t.wbuf = replication_pop(s).wbuf /\ SameItems(replication_pop(s), t)
<1> DEFINE p == replication_pop(s)
           e == p.wbuf # <<>>
<1>1. Account(s)
  BY DEF Sound, Account
<1>2. /\ Account(p) /\ CopyOf(p) /\ SameShown(s, p)
      /\ p.up = s.up /\ p.started = s.started /\ p.link = s.link
      /\ p.exit = Taken(s).exit /\ (s.exit => p.exit)
  BY <1>1, replication_popDoes
<1>3. t = [p EXCEPT !.sending = e] /\ e \in BOOLEAN
  BY DEF conn_pipe_recv
<1>4. p \in Process
  BY <1>2 DEF Account
<1> HIDE DEF p, e
<1>5. /\ t \in Process /\ t.sending = e /\ t.up = p.up /\ t.started = p.started /\ t.link = p.link /\ t.exit = p.exit
      /\ SameItems(p, t) /\ SameQueue(p, t)
  BY <1>3, <1>4 DEF Process, SameItems, SameQueue
<1>6. Sound(t)
  <2>1. t.sending => t.wbuf # <<>>
    BY <1>5 DEF e, SameQueue
  <2>2. ~(~t.sending /\ t.wbuf # <<>>)
    BY <1>5 DEF e, SameQueue
  <2>4. t.wbuf \in Seq(Sent) /\ t.count = t.free + Outstanding(t.pipe)
    BY <1>2, <1>5 DEF SameQueue, Account
  <2> QED BY <1>2, <1>5, <2>1, <2>2, <2>4 DEF Sound
<1>7. CopyOf(t)
  BY <1>2, <1>5 DEF CopyOf, CopyAt, CopyShape, Signals, SameQueue
<1>8. SameShown(s, t)
  BY <1>2, <1>5 DEF SameItems, SameShown
<1> QED BY <1>2, <1>5, <1>6, <1>7, <1>8 DEF p, SameQueue

-------------------------------------------------------------------------------
(* The two servers, and what one reads of the other *)

\* There are two servers.
LEMMA PeerFacts ==
  ASSUME NEW n \in Node
  PROVE  Peer(n) \in Node /\ Peer(n) # n /\ Peer(Peer(n)) = n /\ \A m \in Node : m = n \/ m = Peer(n)
<1>1. IsFiniteSet(Node) /\ Cardinality(Node) = 2
  BY ReplicationAssumption DEF ReplicationAssumption
<1>2. ASSUME NEW m \in Node PROVE \E q \in Node : q # m /\ \A l \in Node : l = m \/ l = q
  <2>1. IsFiniteSet(Node \ {m}) /\ Cardinality(Node \ {m}) = 1
    BY <1>1, FS_RemoveElement
  <2>2. PICK q : Node \ {m} = {q}
    BY <2>1, FS_Singleton
  <2> QED BY <2>2
<1>3. ASSUME NEW m \in Node PROVE Peer(m) \in Node /\ Peer(m) # m /\ \A l \in Node : l = m \/ l = Peer(m)
  <2>1. PICK q \in Node : q # m /\ \A l \in Node : l = m \/ l = q
    BY <1>2
  <2>2. Peer(m) \in Node /\ Peer(m) # m
    BY <2>1 DEF Peer
  <2> QED BY <2>1, <2>2
<1>4. Peer(n) \in Node /\ Peer(n) # n /\ \A m \in Node : m = n \/ m = Peer(n)
  BY <1>3
<1>5. Peer(Peer(n)) = n
  BY <1>3, <1>4
<1> QED BY <1>4, <1>5

\* The first message of a wire, and the rest.
LEMMA TailFacts ==
  ASSUME NEW S, NEW c \in Seq(S), c # <<>>
  PROVE  /\ Head(c) \in S /\ Tail(c) \in Seq(S) /\ Len(c) \in Nat /\ Len(c) > 0 /\ Len(Tail(c)) = Len(c) - 1
         /\ DOMAIN Tail(c) = 1 .. Len(c) - 1 /\ c = <<Head(c)>> \o Tail(c)
<1> DEFINE z == Tail(c)
           h == Head(c)
           d == <<h>> \o z
<1>1. h \in S /\ z \in Seq(S) /\ Len(c) \in Nat /\ Len(c) > 0 /\ Len(z) = Len(c) - 1 /\ c[1] = h
      /\ \A j \in 1 .. Len(c) - 1 : z[j] = c[j + 1]
  OBVIOUS
<1> HIDE DEF h, z
<1>2. /\ d \in Seq(S) /\ Len(d) = 1 + Len(z) /\ d[1] = h
      /\ \A j \in 2 .. 1 + Len(z) : d[j] = z[j - 1]
  BY <1>1
<1> HIDE DEF d
<1>3. Len(d) = Len(c)
  BY <1>1, <1>2
<1>4. ASSUME NEW j \in 1 .. Len(c) PROVE d[j] = c[j]
  <2>1. CASE j = 1
    BY <2>1, <1>1, <1>2
  <2>2. CASE j # 1
    <3>1. j \in 2 .. 1 + Len(z) /\ j - 1 \in 1 .. Len(c) - 1 /\ (j - 1) + 1 = j
      BY <2>2, <1>1
    <3> QED BY <3>1, <1>1, <1>2
  <2> QED BY <2>1, <2>2
<1>5. c = d
  BY <1>2, <1>3, <1>4
<1>6. DOMAIN z = 1 .. Len(c) - 1
  BY <1>1
<1> QED BY <1>1, <1>5, <1>6 DEF d, h, z

\* The first message, the rest and what is written are the wire and what is written.
LEMMA TailConcat ==
  ASSUME NEW S, NEW c \in Seq(S), c # <<>>, NEW w \in Seq(S)
  PROVE  Tail(c) \o w \in Seq(S) /\ <<Head(c)>> \o (Tail(c) \o w) = c \o w
<1> DEFINE h == <<Head(c)>>
           z == Tail(c)
<1>1. z \in Seq(S) /\ c = h \o z /\ h \in Seq(S)
  BY TailFacts
<1> HIDE DEF h, z
<1>2. z \o w \in Seq(S)
  BY <1>1
<1>3. h \o (z \o w) = (h \o z) \o w
  BY <1>1, ConcatAssociative
<1> QED BY <1>1, <1>2, <1>3 DEF h, z

\* The message at the head of the wire may be executed first.
LEMMA FinalTail ==
  ASSUME NEW c \in Seq(Sent), c # <<>>, NEW w \in Seq(Sent), NEW b, NEW k
  PROVE  Final(c \o w, b, k) = Final(Tail(c) \o w, Final(<<Head(c)>>, b, k), k)
<1> DEFINE h == <<Head(c)>>
           y == Tail(c) \o w
           x == c \o w
<1>1. h \in Seq(Sent) /\ y \in Seq(Sent) /\ h \o y = x
  BY TailFacts, TailConcat
<1> HIDE DEF h, x, y
<1>2. Final(h \o y, b, k) = Final(y, Final(h, b, k), k)
  <2>1. h \in Seq(Sent)
    BY <1>1
  <2>2. y \in Seq(Sent)
    BY <1>1
  <2>3. ASSUME NEW S, NEW v \in Seq(S), NEW z \in Seq(S)
        PROVE  Final(v \o z, b, k) = Final(z, Final(v, b, k), k)
    BY <2>3, FinalConcat
  <2> QED BY <2>1, <2>2, <2>3
<1> QED BY <1>1, <1>2 DEF h, x, y

\* A wire with one message before the rest of it.
LEMMA WireTail ==
  ASSUME NEW S, NEW m \in S, NEW y \in Seq(S), NEW x, x = <<m>> \o y
  PROVE  /\ Len(y) \in Nat /\ Len(x) = Len(y) + 1 /\ DOMAIN x = 1 .. Len(y) + 1
         /\ DOMAIN y = 1 .. Len(y) /\ x[1] = m /\ 1 \in DOMAIN x
         /\ \A j \in DOMAIN y : y[j] = x[j + 1] /\ j + 1 \in DOMAIN x
<1> DEFINE h == <<m>>
<1>1. h \in Seq(S) /\ Len(h) = 1 /\ h[1] = m
  OBVIOUS
<1>2. x = h \o y
  OBVIOUS
<1> HIDE DEF h
<1>3. /\ Len(x) = Len(h) + Len(y) /\ Len(y) \in Nat /\ DOMAIN x = 1 .. Len(h) + Len(y)
      /\ \A j \in 1 .. Len(h) : x[j] = h[j]
      /\ \A j \in 1 .. Len(y) : x[Len(h) + j] = y[j] /\ Len(h) + j \in 1 .. Len(h) + Len(y)
  BY <1>1, <1>2, ConcatFacts
<1>4. DOMAIN y = 1 .. Len(y)
  OBVIOUS
<1>5. /\ Len(x) = Len(y) + 1 /\ DOMAIN x = 1 .. Len(y) + 1 /\ x[1] = m /\ 1 \in DOMAIN x
  BY <1>1, <1>3
<1>6. ASSUME NEW j \in DOMAIN y PROVE y[j] = x[j + 1] /\ j + 1 \in DOMAIN x
  <2>1. x[1 + j] = y[j] /\ 1 + j \in DOMAIN x /\ 1 + j = j + 1
    BY <1>1, <1>3, <1>4
  <2> QED BY <2>1
<1> QED BY <1>3, <1>4, <1>5, <1>6

\* A message that is executed has its word.
LEMMA ExecutedDoes ==
  ASSUME NEW s \in Process, NEW m \in Sent, NEW recent
  PROVE  LET t == Executed(s, m, recent) IN
         /\ t \in Process /\ SameQueue(s, t)
         /\ t.up = s.up /\ t.link = s.link /\ t.exit = s.exit /\ t.sending = s.sending
         /\ t.started = (s.started \/ m.op = "end")
         /\ \A k \in Key : Visible(t)[k] = Final(<<m>>, Visible(s)[k], k)
         /\ m.op = "del" => t.hidden \subseteq s.hidden
         /\ m.op = "end" => SameItems(s, t)
<1> DEFINE t == Executed(s, m, recent)
<1>1. /\ m.op \in {"rep", "del", "flush", "end"}
      /\ m.op = "rep" => m.key \in Key /\ m.value \in Values
      /\ m.op = "del" => m.key \in Key
      /\ m.op \in {"flush", "end"} => m.key = NoKey
      /\ m.op # "rep" => m.value = None
  BY SentFacts
<1>2. \A k \in Key : Final(<<m>>, Visible(s)[k], k) = IF Speaks(m, k) THEN m.value ELSE Visible(s)[k]
  BY FinalOne
<1>3. s.started \in BOOLEAN
  BY ProcessFacts
<1>4. \A k \in Key : k # NoKey
  BY KeyIsNoMark
<1>5. CASE m.op = "rep"
  <2> DEFINE u == Store(s, m.key, m.value)
  <2>1. t = u
    BY <1>5 DEF Executed
  <2>2. /\ u \in Process /\ SameRun(s, u) /\ SameQueue(s, u)
        /\ \A j \in Key : u.store[j] = IF j = m.key THEN m.value ELSE s.store[j]
        /\ u.hidden = s.hidden \ {m.key}
    BY <1>1, <1>5, StoreDoes
  <2> HIDE DEF u, t
  <2>3. m.value # None
    BY <1>1, <1>5, ReplicationAssumption DEF Values, None, ReplicationAssumption
  <2>4. ASSUME NEW k \in Key PROVE Visible(u)[k] = IF Speaks(m, k) THEN m.value ELSE Visible(s)[k]
    <3>1. /\ Visible(u)[k] = IF u.store[k] # None /\ k \notin u.hidden THEN u.store[k] ELSE None
          /\ Visible(s)[k] = IF s.store[k] # None /\ k \notin s.hidden THEN s.store[k] ELSE None
      BY VisibleIs
    <3>2. Speaks(m, k) <=> m.key = k
      BY <1>5 DEF Speaks
    <3> QED BY <2>2, <2>3, <3>1, <3>2
  <2> QED BY <1>2, <1>3, <1>5, <2>1, <2>2, <2>4 DEF SameRun, t
<1>6. CASE m.op = "del"
  <2> DEFINE u == Unlink(s, {m.key})
  <2>1. t = u
    BY <1>6 DEF Executed
  <2>2. /\ u \in Process /\ SameRun(s, u) /\ SameQueue(s, u)
        /\ \A k \in Key : u.store[k] = IF k \in {m.key} THEN None ELSE s.store[k]
        /\ u.hidden = s.hidden \ {m.key}
    BY UnlinkDoes
  <2> HIDE DEF u, t
  <2>3. m.value = None
    BY <1>1, <1>6
  <2>4. ASSUME NEW k \in Key PROVE Visible(u)[k] = IF Speaks(m, k) THEN m.value ELSE Visible(s)[k]
    <3>1. /\ Visible(u)[k] = IF u.store[k] # None /\ k \notin u.hidden THEN u.store[k] ELSE None
          /\ Visible(s)[k] = IF s.store[k] # None /\ k \notin s.hidden THEN s.store[k] ELSE None
      BY VisibleIs
    <3>2. Speaks(m, k) <=> m.key = k
      BY <1>6 DEF Speaks
    <3> QED BY <2>2, <2>3, <3>1, <3>2
  <2>5. u.hidden \subseteq s.hidden
    BY <2>2
  <2> QED BY <1>2, <1>3, <1>6, <2>1, <2>2, <2>4, <2>5 DEF SameRun, t
<1>7. CASE m.op = "flush"
  <2> DEFINE u == item_flush_expired(s, recent)
  <2>1. t = u
    BY <1>7 DEF Executed
  <2>2. u \in Process /\ SameRun(s, u) /\ SameQueue(s, u) /\ \A k \in Key : Visible(u)[k] = None
    BY item_flush_expiredDoes
  <2> HIDE DEF u, t
  <2>3. m.value = None
    BY <1>1, <1>7
  <2>4. \A k \in Key : Speaks(m, k)
    BY <1>7 DEF Speaks
  <2> QED BY <1>2, <1>3, <1>7, <2>1, <2>2, <2>3, <2>4 DEF SameRun, t
<1>8. CASE m.op = "end"
  <2>1. t = [s EXCEPT !.started = TRUE]
    BY <1>8 DEF Executed
  <2> HIDE DEF t
  <2>2. /\ t \in Process /\ SameQueue(s, t) /\ SameItems(s, t)
        /\ t.up = s.up /\ t.link = s.link /\ t.exit = s.exit /\ t.sending = s.sending /\ t.started = TRUE
    BY <2>1 DEF Process, SameQueue, SameItems
  <2>3. \A k \in Key : ~Speaks(m, k)
    BY <1>1, <1>4, <1>8 DEF Speaks
  <2>4. \A k \in Key : Visible(t)[k] = Visible(s)[k]
    BY <2>2, VisibleIs DEF SameItems
  <2> QED BY <1>2, <1>8, <2>2, <2>3, <2>4 DEF t
<1> QED BY <1>1, <1>5, <1>6, <1>7, <1>8

\* The peer executes the message at the head: what it will show stays the same.
LEMMA SourceRead ==
  ASSUME NEW s, s.wbuf \in Seq(Sent), NEW c \in Seq(Sent), c # <<>>, NEW b, NEW d,
         \A k \in Key : d[k] = Final(<<Head(c)>>, b[k], k),
         NEW R, NEW F, NEW X, SourceOf(s, c, b, R, F, X)
  PROVE  SourceOf(s, Tail(c), d, R, F, X)
<1> DEFINE x == c \o s.wbuf
           y == Tail(c) \o s.wbuf
<1>2. ASSUME NEW k \in Key PROVE Final(y, d[k], k) = Final(x, b[k], k)
  <2>1. Final(x, b[k], k) = Final(y, Final(<<Head(c)>>, b[k], k), k)
    BY FinalTail
  <2> QED BY <2>1
<1> HIDE DEF x, y
<1>3. ASSUME NEW k \in Key \ X, ~Asked(s, k), k \notin F
      PROVE  Final(y, d[k], k) \in {None, Visible(s)[k]}
  BY <1>2, <1>3 DEF SourceOf, x
<1>4. ASSUME NEW k \in Key \ X, ~Asked(s, k), ~Contains(s.copy, Item("rep", k)), k \notin R
      PROVE  Final(y, d[k], k) = Visible(s)[k]
  BY <1>2, <1>4 DEF SourceOf, x
<1> QED BY <1>3, <1>4 DEF SourceOf, y

\* The items of the source, of its peer and what is known of them may change where that is allowed.
LEMMA SourceItems ==
  ASSUME NEW s, NEW t, SameQueue(s, t), NEW c, NEW b, NEW d, NEW R, NEW R2, NEW F, NEW F2, NEW X, NEW X2,
         R \subseteq R2, R2 \subseteq Key, F \subseteq F2, F2 \subseteq R2, X \subseteq X2 \cup F2,
         \A k \in Key \ X2 : k \in F2 \/ (Visible(t)[k] = Visible(s)[k] /\ (k \in t.hidden => k \in s.hidden)
                                         /\ d[k] = b[k]),
         SourceOf(s, c, b, R, F, X)
  PROVE  SourceOf(t, c, d, R2, F2, X2)
<1>1. t.pipe = s.pipe /\ t.wbuf = s.wbuf /\ t.copy = s.copy
  BY DEF SameQueue
<1>2. \A k : Asked(t, k) <=> Asked(s, k)
  BY <1>1 DEF Asked
<1>3. ASSUME NEW k \in Key \ X2, k \notin F2
      PROVE  k \in Key \ X /\ k \notin F /\ Visible(t)[k] = Visible(s)[k] /\ (k \in t.hidden => k \in s.hidden) /\ d[k] = b[k]
  BY <1>3
<1>4. ASSUME NEW k \in Key \ X2, ~Asked(t, k), k \notin F2
      PROVE  Final(c \o t.wbuf, d[k], k) \in {None, Visible(t)[k]}
  BY <1>1, <1>2, <1>3, <1>4 DEF SourceOf
<1>5. ASSUME NEW k \in Key \ X2, ~Asked(t, k), ~Contains(t.copy, Item("rep", k)), k \notin R2
      PROVE  Final(c \o t.wbuf, d[k], k) = Visible(t)[k]
  <2>1. k \notin F2 /\ k \notin R
    BY <1>5
  <2> QED BY <1>1, <1>2, <1>3, <1>5, <2>1 DEF SourceOf
<1>6. ASSUME NEW k \in Key \ X2, k \in t.hidden, k \notin F2 PROVE ~Asked(t, k)
  BY <1>2, <1>3, <1>6 DEF SourceOf
<1>7. ASSUME NEW j \in DOMAIN t.pipe
      PROVE  (t.pipe[j].op = "del" => t.pipe[j].key \in R2) /\ (t.pipe[j].op = "flush" => R2 = Key)
  BY <1>1, <1>7 DEF SourceOf
<1> QED BY <1>4, <1>5, <1>6, <1>7 DEF SourceOf

\* What a peer sends is read as deletes of what was removed.
LEMMA SinkRead ==
  ASSUME NEW s, s.wbuf \in Seq(Sent), NEW c \in Seq(Sent), c # <<>>, NEW F, SinkOf(s, c, F)
  PROVE  SinkOf(s, Tail(c), F) /\ Head(c).op = "del" /\ Head(c).key \in F
<1> DEFINE x == c \o s.wbuf
           y == Tail(c) \o s.wbuf
<1>0. Head(c) \in Sent /\ y \in Seq(Sent) /\ x = <<Head(c)>> \o y
  BY TailFacts, TailConcat
<1>2. \A j \in DOMAIN x : x[j].op = "del" /\ x[j].key \in F
  BY DEF SinkOf
<1> HIDE DEF x, y
<1>1. x[1] = Head(c) /\ 1 \in DOMAIN x /\ \A j \in DOMAIN y : y[j] = x[j + 1] /\ j + 1 \in DOMAIN x
  BY <1>0, WireTail
<1>3. \A j \in DOMAIN y : y[j].op = "del" /\ y[j].key \in F
  BY <1>1, <1>2
<1>4. Head(c).op = "del" /\ Head(c).key \in F
  BY <1>1, <1>2
<1> QED BY <1>3, <1>4 DEF SinkOf, y

\* More keys removed.
LEMMA SinkWider ==
  ASSUME NEW s, NEW t, SameQueue(s, t), NEW c, NEW F, NEW F2, F \subseteq F2, SinkOf(s, c, F)
  PROVE  SinkOf(t, c, F2)
BY DEF SinkOf, SameQueue

\* The end of the copy is the last that is read before the peer serves.
LEMMA CopyingRead ==
  ASSUME NEW s, s.wbuf \in Seq(Sent), NEW c \in Seq(Sent), c # <<>>, CopyingOf(s, c)
  PROVE  /\ CopyingOf(s, Tail(c))
         /\ Head(c).op = "end" => /\ s.copy = <<>> /\ \A j \in DOMAIN s.pipe : s.pipe[j] = ExitMark
                                  /\ DOMAIN (Tail(c) \o s.wbuf) = {}
<1> DEFINE x == c \o s.wbuf
           y == Tail(c) \o s.wbuf
<1>0. Head(c) \in Sent /\ y \in Seq(Sent) /\ x = <<Head(c)>> \o y
  BY TailFacts, TailConcat
<1>2. \A j \in DOMAIN x : x[j].op = "end" =>
        j = Len(x) /\ s.copy = <<>> /\ \A i \in DOMAIN s.pipe : s.pipe[i] = ExitMark
  BY DEF CopyingOf
<1> HIDE DEF x, y
<1>1. /\ Len(y) \in Nat /\ Len(x) = Len(y) + 1 /\ DOMAIN y = 1 .. Len(y) /\ x[1] = Head(c) /\ 1 \in DOMAIN x
      /\ \A j \in DOMAIN y : y[j] = x[j + 1] /\ j + 1 \in DOMAIN x
  BY <1>0, WireTail
<1>3. ASSUME NEW j \in DOMAIN y, y[j].op = "end"
      PROVE  j = Len(y) /\ s.copy = <<>> /\ \A i \in DOMAIN s.pipe : s.pipe[i] = ExitMark
  <2>1. x[j + 1].op = "end" /\ j + 1 \in DOMAIN x
    BY <1>1, <1>3
  <2>2. j + 1 = Len(x) /\ s.copy = <<>> /\ \A i \in DOMAIN s.pipe : s.pipe[i] = ExitMark
    BY <1>2, <2>1
  <2>3. j = Len(y)
    BY <1>1, <2>2
  <2> QED BY <2>2, <2>3
<1>4. ASSUME Head(c).op = "end"
      PROVE  s.copy = <<>> /\ (\A j \in DOMAIN s.pipe : s.pipe[j] = ExitMark) /\ DOMAIN y = {}
  <2>1. 1 = Len(x) /\ s.copy = <<>> /\ \A i \in DOMAIN s.pipe : s.pipe[i] = ExitMark
    BY <1>1, <1>2, <1>4
  <2>2. Len(y) = 0
    BY <1>1, <2>1
  <2> QED BY <1>1, <2>1, <2>2
<1>5. CopyingOf(s, Tail(c))
  BY <1>3 DEF CopyingOf, y
<1> QED BY <1>4, <1>5 DEF y

-------------------------------------------------------------------------------
(* Steps of one process *)

\* What is sent is of the type of the write buffer.
LEMMA SentAreMessages ==
  ASSUME NEW c \in Seq(Sent)
  PROVE  c \in Seq(MessageType)
<1>1. Len(c) \in Nat /\ \A j \in 1 .. Len(c) : c[j] \in Sent
  OBVIOUS
<1>2. DOMAIN c = 1 .. Len(c) /\ c = [j \in 1 .. Len(c) |-> c[j]]
  OBVIOUS
<1>3. \A j \in 1 .. Len(c) : c[j] \in MessageType
  BY <1>1, SentFacts
<1> QED BY <1>1, <1>2, <1>3

\* No difference in any reply.
LEMMA SameVisible ==
  ASSUME NEW s, NEW t, SameShown(s, t)
  PROVE  Visible(t) = Visible(s)
<1>1. \A k \in Key : Visible(t)[k] = Visible(s)[k]
  BY ShownIsSame
<1>2. /\ Visible(s) = [k \in Key |-> Visible(s)[k]]
      /\ Visible(t) = [k \in Key |-> Visible(t)[k]]
  BY DEF Visible
<1> QED BY <1>1, <1>2

\* The parts of the invariant at each server.
LEMMA IInvFacts ==
  ASSUME IInv
  PROVE  /\ node \in [Node -> Process] /\ chan \in [Node -> Seq(Sent)]
         /\ \A n \in Node : Sound(node[n]) /\ CopyOf(node[n]) /\ Account(node[n]) /\ Len(chan[n]) <= Window
                            /\ chan[n] \in Seq(Sent) /\ node[n] \in Process /\ node[n].wbuf \in Seq(Sent)
         /\ clientsAt \in Node /\ Peer(clientsAt) \in Node /\ ops \in 0 .. MaxOps /\ faults \in 0 .. MaxFaults
         /\ removed \subseteq Key /\ flushed \subseteq removed
<1>1. TypeOK /\ chan \in [Node -> Seq(Sent)] /\ \A n \in Node : Sound(node[n]) /\ CopyOf(node[n])
  BY DEF IInv
<1>2. \A n \in Node : Len(chan[n]) <= Window
  BY <1>1 DEF TypeOK
<1>3. clientsAt \in Node /\ Peer(clientsAt) \in Node
  BY <1>1, PeerFacts DEF TypeOK
<1>4. \A n \in Node : Account(node[n]) /\ node[n] \in Process /\ node[n].wbuf \in Seq(Sent)
  BY <1>1 DEF Sound, Account
<1> QED BY <1>1, <1>2, <1>3, <1>4 DEF TypeOK

\* What is left to show of a step: the types of what it changes, and that they stay in step.
LEMMA Wrapped ==
  ASSUME node' \in [Node -> Process], \A n \in Node : Sound(node[n])' /\ CopyOf(node[n])',
         chan' \in [Node -> Seq(Sent)], \A n \in Node : Len(chan'[n]) <= Window,
         clientsAt' \in Node, ops' \in 0 .. MaxOps, faults' \in 0 .. MaxFaults,
         removed' \subseteq Key, flushed' \subseteq removed', InStep'
  PROVE  IInv'
<1>1. \A n \in Node : chan'[n] \in Seq(Sent)
  OBVIOUS
<1>2. \A n \in Node : chan'[n] \in {c \in Seq(MessageType) : Len(c) <= Window}
  BY <1>1, SentAreMessages
<1>3. chan' \in [Node -> {c \in Seq(MessageType) : Len(c) <= Window}]
  BY <1>2
<1>4. TypeOK'
  BY <1>3 DEF TypeOK
<1> QED BY <1>4 DEF IInv

\* A server that is not linked is in step with nobody.
LEMMA NotLinkedInStep ==
  ASSUME NEW n \in Node, clientsAt' \in Node, ~(node'[n].up /\ node'[n].link = "linked")
  PROVE  InStep'
<1>0. PICK m \in Node : m = clientsAt'
  OBVIOUS
<1>1. n = m \/ n = Peer(m)
  BY PeerFacts
<1>2. ~(/\ node'[m].up /\ node'[m].link = "linked"
        /\ node'[Peer(m)].up /\ node'[Peer(m)].link = "linked")
  BY <1>1
<1> QED BY <1>0, <1>2 DEF InStep, Linked

\* A step that changes one process, and the wire from it.
LEMMA OneChanges ==
  ASSUME IInv, NEW n \in Node, NEW t, Sound(t), CopyOf(t) \/ CopyAt(t, faults'), node' = [node EXCEPT ![n] = t],
         chan' \in [Node -> Seq(Sent)], \A m \in Node : Len(chan'[m]) <= Window,
         clientsAt' = clientsAt, ops' \in 0 .. MaxOps, faults' \in 0 .. MaxFaults, faults' \in {faults, faults + 1},
         removed' \subseteq Key, flushed' \subseteq removed', InStep'
  PROVE  IInv'
<1>1. /\ node \in [Node -> Process] /\ clientsAt \in Node
      /\ \A m \in Node : Sound(node[m]) /\ CopyOf(node[m])
  BY IInvFacts
<1>2. t \in Process
  BY DEF Sound
<1>3. node' \in [Node -> Process] /\ \A m \in Node : node'[m] = IF m = n THEN t ELSE node[m]
  BY <1>1, <1>2
<1>4. ASSUME NEW m \in Node PROVE Sound(node'[m]) /\ CopyAt(node'[m], faults')
  <2>1. Sound(node'[m]) /\ (CopyOf(node'[m]) \/ CopyAt(node'[m], faults'))
    BY <1>1, <1>3
  <2>2. faults <= faults' /\ node'[m].pipe \in Seq(ItemType)
    <3>1. faults \in 0 .. MaxFaults /\ MaxFaults \in Nat
      BY IInvFacts, ReplicationAssumption DEF ReplicationAssumption
    <3> QED BY <1>3, <3>1, ProcessFacts
  <2>3. CASE CopyOf(node'[m])
    <3> DEFINE u == node'[m]
               f == faults'
    <3>1. CopyShape(u) /\ (u.copy # <<>> => \E j \in DOMAIN u.pipe : u.pipe[j] # ExitMark)
      BY <2>3 DEF CopyOf, CopyAt
    <3>2. Signals(u, faults) /\ f \in 0 .. MaxFaults /\ faults <= f /\ u.pipe \in Seq(ItemType)
      BY <2>2, <2>3 DEF CopyOf, CopyAt
    <3> HIDE DEF u, f
    <3>3. Signals(u, f)
      BY <3>2, SignalsGrow
    <3>4. CopyAt(u, f)
      BY <3>1, <3>3 DEF CopyAt
    <3> QED BY <2>1, <3>4 DEF u, f
  <2> QED BY <2>1, <2>3
<1>5. \A m \in Node : Sound(node[m])' /\ CopyOf(node[m])'
  BY <1>4 DEF CopyOf
<1> QED BY <1>1, <1>3, <1>5, Wrapped

\* A step by which one process is linked no more.
LEMMA UnlinkedStep ==
  ASSUME IInv, NEW n \in Node, NEW t, Sound(t), CopyOf(t), node' = [node EXCEPT ![n] = t],
         ~(t.up /\ t.link = "linked"),
         chan' \in [Node -> Seq(Sent)], \A m \in Node : Len(chan'[m]) <= Window,
         clientsAt' = clientsAt, ops' \in 0 .. MaxOps, faults' \in 0 .. MaxFaults, faults' \in {faults, faults + 1},
         removed' \subseteq Key, flushed' \subseteq removed'
  PROVE  IInv'
<1>1. clientsAt' \in Node /\ node'[n] = t
  BY IInvFacts
<1>2. InStep'
  BY <1>1, NotLinkedInStep
<1> QED BY <1>2, OneChanges

\* A step of the server that the clients use.
LEMMA ServedStep ==
  ASSUME IInv, NEW n \in Node, n = clientsAt, node[n].started,
         NEW t, Sound(t), CopyOf(t), node' = [node EXCEPT ![n] = t],
         t.up = node[n].up, t.started, t.link = "linked" => node[n].link = "linked",
         UNCHANGED <<chan, clientsAt, faults>>, ops' \in 0 .. MaxOps,
         removed' \subseteq Key, flushed \subseteq flushed', flushed' \subseteq removed',
         ASSUME t.link = "linked",
                SourceOf(node[n], chan[n], Visible(node[Peer(n)]), removed, flushed, {})
         PROVE  SourceOf(t, chan[n], Visible(node[Peer(n)]), removed', flushed', {})
  PROVE  IInv'
<1> DEFINE q == Peer(n)
<1>1. /\ node \in [Node -> Process] /\ chan \in [Node -> Seq(Sent)] /\ faults \in 0 .. MaxFaults
      /\ \A m \in Node : Len(chan[m]) <= Window
  BY IInvFacts
<1>2. q \in Node /\ q # n
  BY PeerFacts
<1> HIDE DEF q
<1>3. node'[n] = t /\ node'[q] = node[q]
  BY <1>1, <1>2
<1>4. InStep'
  <2> SUFFICES ASSUME t.up, t.link = "linked", node[q].up, node[q].link = "linked", ~node[q].exit
               PROVE  Source(n)' /\ Sink(q)'
    BY <1>3 DEF InStep, Linked, q
  <2>1. Source(n) /\ Sink(q)
    BY DEF IInv, InStep, Linked, q
  <2>2. SourceOf(node[n], chan[n], Visible(node[q]), removed, flushed, {})
    BY <2>1 DEF Source, q
  <2>3. SourceOf(t, chan[n], Visible(node[q]), removed', flushed', {})
    BY <2>2 DEF q
  <2>4. Source(n)'
    BY <1>3, <2>3 DEF Source, q
  <2>5. SinkOf(node[q], chan[q], flushed')
    BY <2>1, SinkWider DEF Sink, SameQueue
  <2>6. Sink(q)'
    BY <1>3, <2>5 DEF Sink
  <2> QED BY <2>4, <2>6
<1> QED BY <1>1, <1>4, OneChanges

\* A step of a process by itself, that may write to its peer.
LEMMA LoopStep ==
  ASSUME IInv, NEW n \in Node, NEW t, Sound(t), CopyOf(t) \/ CopyAt(t, faults'), node' = [node EXCEPT ![n] = t],
         NEW c \in Seq(Sent), Len(c) <= Window, chan' = [chan EXCEPT ![n] = c],
         UNCHANGED <<clientsAt, ops, removed, flushed>>, faults' \in 0 .. MaxFaults, faults' \in {faults, faults + 1},
         t.up = node[n].up, t.link = node[n].link, t.started = node[n].started, node[n].exit => t.exit,
         SameShown(node[n], t),
         \A b : SourceOf(node[n], chan[n], b, removed, flushed, {}) => SourceOf(t, c, b, removed, flushed, {}),
         SinkOf(node[n], chan[n], flushed) => SinkOf(t, c, flushed),
         ~t.exit /\ CopyingOf(node[n], chan[n]) => CopyingOf(t, c)
  PROVE  IInv'
<1>0. PICK m \in Node, q \in Node : m = clientsAt /\ q = Peer(m)
  BY IInvFacts
<1>1. /\ node \in [Node -> Process] /\ chan \in [Node -> Seq(Sent)] /\ ops \in 0 .. MaxOps
      /\ \A l \in Node : Len(chan[l]) <= Window
      /\ removed \subseteq Key /\ flushed \subseteq removed
  BY IInvFacts
<1>2. q # m /\ (n = m \/ n = q) /\ Peer(q) = m
  BY <1>0, PeerFacts
<1>3. Visible(t) = Visible(node[n])
  BY SameVisible
<1>4. /\ chan' \in [Node -> Seq(Sent)] /\ \A l \in Node : chan'[l] = IF l = n THEN c ELSE chan[l]
      /\ \A l \in Node : node'[l] = IF l = n THEN t ELSE node[l]
  BY <1>1
<1>5. \A l \in Node : Len(chan'[l]) <= Window
  BY <1>1, <1>4
<1>6. \A l \in Node : Visible(node[l])' = Visible(node[l])
  BY <1>3, <1>4
<1>7. \A l \in Node : /\ (Linked(l)' <=> Linked(l)) /\ node'[l].started = node[l].started
                      /\ node[l].exit => node'[l].exit
  BY <1>4 DEF Linked
<1>8. ASSUME NEW l \in Node, Peer(l) \in Node, Source(l) PROVE Source(l)'
  <2>1. SourceOf(node[l], chan[l], Visible(node[Peer(l)]), removed, flushed, {})
    BY <1>8 DEF Source
  <2>2. SourceOf(node'[l], chan'[l], Visible(node[Peer(l)]), removed, flushed, {})
    BY <1>4, <2>1
  <2>3. Visible(node[Peer(l)])' = Visible(node[Peer(l)])
    BY <1>6, <1>8
  <2> QED BY <2>2, <2>3 DEF Source
<1>9. ASSUME NEW l \in Node, Sink(l) PROVE Sink(l)'
  BY <1>4, <1>9 DEF Sink
<1>10. ASSUME NEW l \in Node, Copying(l), ~node'[l].exit PROVE Copying(l)'
  BY <1>4, <1>10 DEF Copying
<1>11. InStep'
  <2> SUFFICES ASSUME Linked(m)', Linked(q)', ~node'[q].exit
               PROVE  IF node'[m].started THEN Source(m)' /\ Sink(q)'
                      ELSE Source(q)' /\ Sink(m)' /\ Copying(q)' /\ removed' = {}
    BY <1>0 DEF InStep
  <2>1. Linked(m) /\ Linked(q) /\ ~node[q].exit
    BY <1>7
  <2>2. IF node[m].started THEN Source(m) /\ Sink(q)
        ELSE Source(q) /\ Sink(m) /\ Copying(q) /\ removed = {}
    BY <1>0, <2>1 DEF IInv, InStep
  <2>3. Peer(m) \in Node /\ Peer(q) \in Node
    BY <1>0, <1>2
  <2>4. node'[m].started = node[m].started
    BY <1>7
  <2> QED BY <1>8, <1>9, <1>10, <2>2, <2>3, <2>4
<1> QED BY <1>1, <1>4, <1>5, <1>11, OneChanges

-------------------------------------------------------------------------------
(* The commands of clients *)

\* A process that serves does not wait for a connection.
LEMMA StartedNotConnecting ==
  ASSUME NEW s, Sound(s), s.started \/ s.link = "linked"
  PROVE  s.link # "connecting"
<1>1. [Down EXCEPT !.up = TRUE, !.link = "connecting"].started = FALSE
  BY DEF Down
<1> QED BY <1>1 DEF Sound

\* What a change of a key is queued as.
LEMMA ChangeIsItem ==
  ASSUME NEW k \in Key, NEW op, op \in {"rep", "del"}
  PROVE  /\ Item(op, k) \in ItemType /\ Item(op, k) # ExitMark
         /\ Item(op, k).key = k /\ Item(op, k).op = op
BY DEF Item, ItemType, ExitMark

\* A process changes its items, and tells its peer.
LEMMA QueuedChange ==
  ASSUME NEW s, Sound(s), CopyOf(s), s.up, ~s.exit, ~s.sending, s.link # "connecting",
         NEW a \in Process, SameRun(s, a), SameQueue(s, a),
         NEW i \in ItemType, i # ExitMark, NEW t, t = replication(a, i)
  PROVE  /\ Sound(a) /\ CopyOf(a) /\ ~a.exit
         /\ Sound(t) /\ CopyOf(t) /\ t \in Process /\ SameShown(a, t) /\ t.up = s.up
         /\ t.link = "linked" => s.link = "linked" /\ t.started = s.started
         /\ t.link # "connecting"
         /\ s.started => t.started
<1>1. Sound(a) /\ CopyOf(a)
  BY SoundItems
<1>2. a.up = s.up /\ a.started = s.started /\ a.link = s.link /\ a.exit = s.exit /\ a.sending = s.sending
  BY DEF SameRun
<1>3. /\ Sound(t) /\ CopyOf(t) /\ SameShown(a, t) /\ t.up = a.up
      /\ a.link # "linked" => t = a
      /\ t.link \in {a.link, "none"}
      /\ t.link = "linked" => t.started = a.started
      /\ a.started => t.started
  <2> DEFINE u == replication(a, i)
  <2>1. a.up /\ ~a.exit /\ ~a.sending
    BY <1>2
  <2>2. /\ Sound(u) /\ CopyOf(u) /\ SameShown(a, u) /\ u.up = a.up
        /\ a.link # "linked" => u = a
        /\ u.link \in {a.link, "none"}
        /\ u.link = "linked" => u.started = a.started
        /\ a.started => u.started
    BY <1>1, <2>1, replicationDoes
  <2>3. t = u
    OBVIOUS
  <2> HIDE DEF u
  <2> QED BY <2>2, <2>3
<1>4. t.link = "linked" => s.link = "linked"
  BY <1>2, <1>3
<1>5. t.link # "connecting"
  BY <1>2, <1>3
<1>6. t \in Process
  BY <1>3 DEF Sound
<1> QED BY <1>1, <1>2, <1>3, <1>4, <1>5, <1>6

\* What a command of a client finds.
LEMMA CommandFacts ==
  ASSUME IInv, NEW n \in Node, NEW name, Command(n, name)
  PROVE  /\ n = clientsAt /\ node[n].up /\ node[n].started /\ ~node[n].exit /\ ~node[n].sending
         /\ node[n].link # "connecting" /\ node[n] \in Process /\ Sound(node[n]) /\ CopyOf(node[n])
         /\ ops' \in 0 .. MaxOps /\ ops + 1 \in Values /\ UNCHANGED <<chan, clientsAt, faults>>
         /\ chan[n] \in Seq(Sent) /\ removed \subseteq Key /\ flushed \subseteq removed
<1>1. /\ n = clientsAt /\ node[n].up /\ node[n].started /\ ~node[n].exit /\ ~node[n].sending
      /\ ops < MaxOps /\ ops' = ops + 1 /\ UNCHANGED <<chan, clientsAt, faults>>
  BY DEF Command, Serves, Runs
<1>2. /\ ops \in 0 .. MaxOps /\ node[n] \in Process /\ Sound(node[n]) /\ CopyOf(node[n])
      /\ chan[n] \in Seq(Sent) /\ removed \subseteq Key /\ flushed \subseteq removed
  BY IInvFacts
<1>3. node[n].link # "connecting"
  BY <1>1, <1>2, StartedNotConnecting
<1>4. ops + 1 \in 0 .. MaxOps /\ ops + 1 \in Values
  BY <1>1, <1>2, ReplicationAssumption DEF ReplicationAssumption, Values
<1> QED BY <1>1, <1>2, <1>3, <1>4

\* A set of a client.
LEMMA SetKeeps ==
  ASSUME IInv, NEW n \in Node, NEW k \in Key, Set(n, k)
  PROVE  IInv'
<1> DEFINE s == node[n]
           a == Store(s, k, ops + 1)
           i == Item("rep", k)
           t == replication(a, i)
<1>1. /\ Command(n, "set") /\ node' = [node EXCEPT ![n] = t] /\ UNCHANGED <<removed, flushed>>
  BY DEF Set
<1>2. /\ n = clientsAt /\ s.up /\ s.started /\ ~s.exit /\ ~s.sending
      /\ s.link # "connecting" /\ s \in Process /\ Sound(s) /\ CopyOf(s)
      /\ ops' \in 0 .. MaxOps /\ ops + 1 \in Values /\ UNCHANGED <<chan, clientsAt, faults>>
      /\ chan[n] \in Seq(Sent) /\ removed \subseteq Key /\ flushed \subseteq removed
  BY <1>1, CommandFacts
<1>3. /\ a \in Process /\ SameRun(s, a) /\ SameQueue(s, a)
      /\ \A j \in Key : a.store[j] = IF j = k THEN ops + 1 ELSE s.store[j]
      /\ a.hidden = s.hidden \ {k}
  BY <1>2, StoreDoes
<1>4. i \in ItemType /\ i # ExitMark /\ i.key = k /\ i.op = "rep"
  BY ChangeIsItem
<1> HIDE DEF i, a
<1>5. /\ Sound(a) /\ CopyOf(a) /\ ~a.exit
      /\ Sound(t) /\ CopyOf(t) /\ SameShown(a, t) /\ t.up = s.up /\ t.started
      /\ t.link = "linked" => s.link = "linked"
  BY <1>2, <1>3, <1>4, QueuedChange, ZenonT(60)
<1>6. ASSUME NEW b, t.link = "linked", SourceOf(s, chan[n], b, removed, flushed, {})
      PROVE  SourceOf(t, chan[n], b, removed, flushed, {})
  <2>1. \A j \in Key \ {k} : Visible(a)[j] = Visible(s)[j] /\ (j \in a.hidden => j \in s.hidden)
    BY <1>3, VisibleIs
  <2>2. SourceOf(a, chan[n], b, removed, flushed, {k})
    BY <1>2, <1>3, <1>6, <2>1, SourceItems
  <2>3. SourceOf(t, chan[n], b, removed, flushed, {k}) /\ Asked(t, k)
    BY <1>2, <1>4, <1>5, <1>6, <2>2, SourceReplication
  <2>4. k \notin t.hidden
    BY <1>3, <1>5 DEF SameShown
  <2> QED BY <2>3, <2>4, SourceDone
<1> HIDE DEF t
<1> QED BY <1>1, <1>2, <1>5, <1>6, ServedStep DEF s

\* A get of a client.
LEMMA GetKeeps ==
  ASSUME IInv, NEW n \in Node, NEW k \in Key, Get(n, k)
  PROVE  IInv'
<1> DEFINE s == node[n]
           t == item_get(s, k)
<1>1. Command(n, "get") /\ node' = [node EXCEPT ![n] = t] /\ UNCHANGED <<removed, flushed>>
  BY DEF Get
<1>2. /\ n = clientsAt /\ s.up /\ s.started /\ ~s.exit /\ ~s.sending
      /\ s.link # "connecting" /\ s \in Process /\ Sound(s) /\ CopyOf(s)
      /\ ops' \in 0 .. MaxOps /\ UNCHANGED <<chan, clientsAt, faults>>
      /\ removed \subseteq Key /\ flushed \subseteq removed
  BY <1>1, CommandFacts
<1>3. t \in Process /\ SameRun(s, t) /\ SameQueue(s, t) /\ SameShown(s, t)
  BY <1>2, item_getDoes
<1> HIDE DEF t
<1>4. Sound(t) /\ CopyOf(t) /\ t.up = s.up /\ t.started /\ t.link = s.link
  BY <1>2, <1>3, SoundItems DEF SameRun
<1>5. ASSUME NEW b, SourceOf(s, chan[n], b, removed, flushed, {})
      PROVE  SourceOf(t, chan[n], b, removed, flushed, {})
  <2>1. \A j \in Key \ {} : Visible(t)[j] = Visible(s)[j] /\ (j \in t.hidden => j \in s.hidden)
    BY <1>3, ShownIsSame DEF SameShown
  <2> QED BY <1>2, <1>3, <1>5, <2>1, SourceItems
<1> QED BY <1>1, <1>2, <1>4, <1>5, ServedStep DEF s

\* A delete of a client.
LEMMA DeleteKeeps ==
  ASSUME IInv, NEW n \in Node, NEW k \in Key, Delete(n, k)
  PROVE  IInv'
<1> DEFINE s == node[n]
           a == Unlink(s, {k})
           i == Item("del", k)
           r == replication(a, i)
           t == IF Gettable(s, k) THEN r ELSE a
<1>1. /\ Command(n, "delete") /\ node' = [node EXCEPT ![n] = t]
      /\ removed' = removed \cup {k} /\ flushed' = flushed
  BY DEF Delete
<1>2. /\ n = clientsAt /\ s.up /\ s.started /\ ~s.exit /\ ~s.sending
      /\ s.link # "connecting" /\ s \in Process /\ Sound(s) /\ CopyOf(s)
      /\ ops' \in 0 .. MaxOps /\ UNCHANGED <<chan, clientsAt, faults>>
      /\ chan[n] \in Seq(Sent) /\ removed \subseteq Key /\ flushed \subseteq removed
  BY <1>1, CommandFacts
<1>3. /\ a \in Process /\ SameRun(s, a) /\ SameQueue(s, a)
      /\ \A j \in Key : a.store[j] = IF j \in {k} THEN None ELSE s.store[j]
      /\ a.hidden = s.hidden \ {k}
  BY <1>2, UnlinkDoes
<1>4. i \in ItemType /\ i # ExitMark /\ i.key = k /\ i.op = "del"
  BY ChangeIsItem
<1> HIDE DEF i, a
<1>5. /\ Sound(a) /\ CopyOf(a) /\ ~a.exit
      /\ Sound(r) /\ CopyOf(r) /\ SameShown(a, r) /\ r.up = s.up /\ r.started
      /\ r.link = "linked" => s.link = "linked"
  BY <1>2, <1>3, <1>4, QueuedChange, ZenonT(60)
<1>6. a.up = s.up /\ a.started /\ a.link = s.link
  BY <1>2, <1>3 DEF SameRun
<1> HIDE DEF r
<1>7. /\ removed' \subseteq Key /\ flushed \subseteq flushed' /\ flushed' \subseteq removed' /\ removed \subseteq removed'
      /\ k \in removed'
  BY <1>1, <1>2
<1>8. \A j \in Key \ {k} : Visible(a)[j] = Visible(s)[j] /\ (j \in a.hidden => j \in s.hidden)
  BY <1>3, VisibleIs
<1>9. ASSUME NEW b, Gettable(s, k), r.link = "linked", SourceOf(s, chan[n], b, removed, flushed, {})
      PROVE  SourceOf(r, chan[n], b, removed', flushed', {})
  <2>2. SourceOf(a, chan[n], b, removed', flushed', {k})
    BY <1>3, <1>7, <1>8, <1>9, SourceItems
  <2>3. SourceOf(r, chan[n], b, removed', flushed', {k}) /\ Asked(r, k)
    BY <1>2, <1>4, <1>5, <1>7, <1>9, <2>2, SourceReplication DEF r
  <2>4. k \notin r.hidden
    BY <1>3, <1>5 DEF SameShown
  <2> QED BY <2>3, <2>4, SourceDone
<1>10. ASSUME NEW b, ~Gettable(s, k), SourceOf(s, chan[n], b, removed, flushed, {})
       PROVE  SourceOf(a, chan[n], b, removed', flushed', {})
  <2>1. Visible(a)[k] = Visible(s)[k] /\ k \notin a.hidden
    BY <1>3, <1>10, VisibleIs
  <2>2. \A j \in Key \ {} : Visible(a)[j] = Visible(s)[j] /\ (j \in a.hidden => j \in s.hidden)
    BY <1>8, <2>1
  <2> QED BY <1>3, <1>7, <1>10, <2>2, SourceItems
<1>11. /\ Sound(t) /\ CopyOf(t) /\ t.up = s.up /\ t.started /\ (t.link = "linked" => s.link = "linked")
  BY <1>5, <1>6
<1>12. ASSUME NEW b, t.link = "linked", SourceOf(s, chan[n], b, removed, flushed, {})
       PROVE  SourceOf(t, chan[n], b, removed', flushed', {})
  BY <1>9, <1>10, <1>12
<1> HIDE DEF t
<1> QED BY <1>1, <1>2, <1>7, <1>11, <1>12, ServedStep DEF s

\* A flush_all of a client.
LEMMA FlushAllKeeps ==
  ASSUME IInv, NEW n \in Node, FlushAll(n)
  PROVE  IInv'
<1> DEFINE s == node[n]
           i == Item("flush", NoKey)
           r == replication(s, i)
<1>1. PICK recent : node' = [node EXCEPT ![n] = item_flush_expired(r, recent)]
  BY DEF FlushAll
<1> DEFINE t == item_flush_expired(r, recent)
<1>2. /\ Command(n, "flush") /\ removed' = Key /\ flushed' = flushed \cup Present(s)
  BY DEF FlushAll
<1>3. /\ n = clientsAt /\ s.up /\ s.started /\ ~s.exit /\ ~s.sending
      /\ s.link # "connecting" /\ s \in Process /\ Sound(s) /\ CopyOf(s)
      /\ ops' \in 0 .. MaxOps /\ UNCHANGED <<chan, clientsAt, faults>>
      /\ chan[n] \in Seq(Sent) /\ removed \subseteq Key /\ flushed \subseteq removed
  BY <1>2, CommandFacts
<1>4. i \in ItemType /\ i # ExitMark /\ i.op = "flush" /\ i.key = NoKey /\ i.key \notin Key
  BY ItemsHaveType, KeyIsNoMark DEF Item, ExitMark
<1>5. SameRun(s, s) /\ SameQueue(s, s)
  BY DEF SameRun, SameQueue
<1> HIDE DEF i
<1>6. /\ Sound(r) /\ CopyOf(r) /\ r \in Process /\ SameShown(s, r) /\ r.up = s.up /\ r.started
      /\ (r.link = "linked" => s.link = "linked") /\ r.link # "connecting"
  BY <1>3, <1>4, <1>5, QueuedChange
<1>7. /\ t \in Process /\ SameRun(r, t) /\ SameQueue(r, t)
      /\ t.hidden \subseteq Present(r) /\ \A k \in Key : Visible(t)[k] = None
  BY <1>6, item_flush_expiredDoes
<1> HIDE DEF t
<1>8. Sound(t) /\ CopyOf(t) /\ t.up = s.up /\ t.started /\ t.link = r.link
  BY <1>6, <1>7, SoundItems DEF SameRun
<1>9. Present(s) \subseteq Key
  BY DEF Present
<1>10. ASSUME NEW k \in Key, k \notin Present(s)
       PROVE  Visible(t)[k] = Visible(r)[k] /\ k \notin t.hidden
  <2>1. s.store[k] = None /\ r.store[k] = None
    BY <1>6, <1>10, VisibleIs DEF SameShown
  <2>2. k \notin Present(r) /\ Visible(r)[k] = None
    BY <2>1, VisibleIs
  <2> QED BY <1>7, <2>2
<1>11. ASSUME NEW b, r.link = "linked", SourceOf(s, chan[n], b, removed, flushed, {})
       PROVE  SourceOf(t, chan[n], b, removed', flushed', {})
  <2>1. \A k \in Key \ {} : Visible(s)[k] = Visible(s)[k] /\ (k \in s.hidden => k \in s.hidden)
    OBVIOUS
  <2>2. SourceOf(s, chan[n], b, Key, flushed, {})
    BY <1>3, <1>5, <1>11, <2>1, SourceItems
  <2>3. SourceOf(r, chan[n], b, Key, flushed, {})
    BY <1>3, <1>4, <1>11, <2>2, SourceReplication
  <2>4. \A k \in Key \ {} : \/ k \in flushed'
                            \/ Visible(t)[k] = Visible(r)[k] /\ (k \in t.hidden => k \in r.hidden)
    BY <1>2, <1>10
  <2>5. flushed \subseteq flushed' /\ flushed' \subseteq Key
    BY <1>2, <1>3, <1>9
  <2>6. SourceOf(t, chan[n], b, Key, flushed', {})
    BY <1>7, <2>3, <2>4, <2>5, SourceItems
  <2> QED BY <1>2, <2>6
<1>12. removed' \subseteq Key /\ flushed \subseteq flushed' /\ flushed' \subseteq removed'
  BY <1>2, <1>3, <1>9
<1> HIDE DEF r
<1>13. node' = [node EXCEPT ![n] = t]
  BY <1>1 DEF r, t
<1> QED BY <1>3, <1>6, <1>8, <1>11, <1>12, <1>13, ServedStep DEF s

\* An eviction: the delete is queued, then the item unlinked.
LEMMA EvictedDoes ==
  ASSUME NEW s, Sound(s), CopyOf(s), s.up, ~s.exit, ~s.sending, s.link # "connecting", NEW k \in Key,
         NEW r, r = replication(s, Item("del", k)), NEW t, t = Unlink(r, {k})
  PROVE  /\ Sound(r) /\ CopyOf(r) /\ SameShown(s, r) /\ r \in Process
         /\ Sound(t) /\ CopyOf(t) /\ SameQueue(r, t) /\ t.up /\ t.link = r.link
         /\ t.link = "linked" => s.link = "linked" /\ t.started = s.started
         /\ s.started => t.started
         /\ k \notin t.hidden
         /\ \A j \in Key \ {k} : Visible(t)[j] = Visible(s)[j] /\ Visible(t)[j] = Visible(r)[j]
                                 /\ (j \in t.hidden => j \in r.hidden)
<1> DEFINE i == Item("del", k)
<1>1. i \in ItemType /\ i # ExitMark
  BY ChangeIsItem
<1>2. SameRun(s, s) /\ SameQueue(s, s) /\ s \in Process
  BY DEF SameRun, SameQueue, Sound
<1>3. r = replication(s, i)
  OBVIOUS
<1> HIDE DEF i
<1>4. /\ Sound(r) /\ CopyOf(r) /\ r \in Process /\ SameShown(s, r) /\ r.up = s.up
      /\ r.link = "linked" => s.link = "linked" /\ r.started = s.started
      /\ r.link # "connecting"
      /\ s.started => r.started
  BY <1>1, <1>2, <1>3, QueuedChange, ZenonT(60)
<1>5. /\ t \in Process /\ SameRun(r, t) /\ SameQueue(r, t)
      /\ \A j \in Key : t.store[j] = IF j \in {k} THEN None ELSE r.store[j]
      /\ t.hidden = r.hidden \ {k}
  BY <1>4, UnlinkDoes
<1>6. Sound(t) /\ CopyOf(t)
  BY <1>4, <1>5, SoundItems
<1>7. t.up = r.up /\ t.link = r.link /\ t.started = r.started
  BY <1>5 DEF SameRun
<1>8. ASSUME NEW j \in Key \ {k}
      PROVE  Visible(t)[j] = Visible(r)[j] /\ (j \in t.hidden => j \in r.hidden)
  <2>1. t.store[j] = r.store[j] /\ (j \in t.hidden <=> j \in r.hidden)
    BY <1>5
  <2> QED BY <2>1, VisibleIs
<1>9. \A j \in Key \ {k} : Visible(r)[j] = Visible(s)[j]
  BY <1>4, ShownIsSame
<1> QED BY <1>4, <1>5, <1>6, <1>7, <1>8, <1>9, ZenonT(60)

\* Nothing queued, and no item shown again.
LEMMA SourceSame ==
  ASSUME NEW s, NEW t, SameQueue(s, t), NEW c, NEW b, NEW R, NEW F, NEW X,
         \A j \in Key \ X : Visible(t)[j] = Visible(s)[j] /\ (j \in t.hidden => j \in s.hidden),
         SourceOf(s, c, b, R, F, X)
  PROVE  SourceOf(t, c, b, R, F, X)
<1>1. t.pipe = s.pipe /\ t.wbuf = s.wbuf /\ t.copy = s.copy
  BY DEF SameQueue
<1>2. \A k : Asked(t, k) <=> Asked(s, k)
  BY <1>1 DEF Asked
<1> QED BY <1>1, <1>2 DEF SourceOf

\* The server that the clients use evicts: its peer is told, as if it were a delete.
LEMMA SourceEvicts ==
  ASSUME NEW s, Sound(s), CopyOf(s), s.up, ~s.exit, ~s.sending, s.link # "connecting", NEW k \in Key,
         NEW r, r = replication(s, Item("del", k)), r.link = "linked", NEW t, t = Unlink(r, {k}),
         NEW c \in Seq(Sent), NEW b, NEW R, NEW F, F \subseteq R, R \subseteq Key, SourceOf(s, c, b, R, F, {})
  PROVE  SourceOf(t, c, b, R \cup {k}, F, {})
<1> DEFINE i == Item("del", k)
           R2 == R \cup {k}
<1>1. i \in ItemType /\ i # ExitMark /\ i.key = k /\ i.op = "del"
  BY ChangeIsItem
<1>2. r = replication(s, i)
  OBVIOUS
<1>3. /\ SameQueue(r, t) /\ k \notin t.hidden
      /\ \A j \in Key \ {k} : Visible(t)[j] = Visible(r)[j] /\ (j \in t.hidden => j \in r.hidden)
  BY EvictedDoes
<1>4. R \subseteq R2 /\ R2 \subseteq Key /\ F \subseteq R2 /\ k \in R2 /\ k \notin Key \ {k}
  OBVIOUS
<1>5. SameQueue(s, s)
  BY DEF SameQueue
<1> HIDE DEF i, R2
<1>6. SourceOf(s, c, b, R2, F, {k})
  BY <1>4, <1>5, SourceItems
<1>7. SourceOf(r, c, b, R2, F, {k}) /\ Asked(r, k)
  BY <1>1, <1>2, <1>4, <1>6, SourceReplication
<1>8. SourceOf(t, c, b, R2, F, {k})
  BY <1>3, <1>4, <1>7, SourceSame
<1>9. Asked(t, k)
  BY <1>3, <1>7 DEF Asked, SameQueue
<1> QED BY <1>3, <1>8, <1>9, SourceDone DEF R2

\* An eviction, here or at the peer.
LEMMA EvictKeeps ==
  ASSUME IInv, NEW n \in Node, NEW k \in Key, Evict(n, k)
  PROVE  IInv'
<1> DEFINE s == node[n]
           r == replication(s, Item("del", k))
           t == Unlink(r, {k})
<1>1. /\ Needs(n) /\ ops < MaxOps /\ ops' = ops + 1
      /\ node' = [node EXCEPT ![n] = t] /\ removed' = removed \cup {k}
      /\ flushed' = (IF n = clientsAt THEN flushed ELSE flushed \cup {k})
      /\ UNCHANGED <<chan, clientsAt, faults>>
  BY DEF Evict, Evicted
<1>2. /\ ops \in 0 .. MaxOps /\ faults \in 0 .. MaxFaults /\ Sound(s) /\ CopyOf(s)
      /\ chan \in [Node -> Seq(Sent)] /\ \A m \in Node : Len(chan[m]) <= Window /\ chan[m] \in Seq(Sent)
      /\ removed \subseteq Key /\ flushed \subseteq removed
      /\ node \in [Node -> Process] /\ \A m \in Node : node[m].wbuf \in Seq(Sent)
  BY IInvFacts
<1>3. ops' \in 0 .. MaxOps
  BY <1>1, <1>2, ReplicationAssumption DEF ReplicationAssumption
<1>4. removed' \subseteq Key /\ flushed \subseteq flushed' /\ flushed' \subseteq removed' /\ removed \subseteq removed'
  BY <1>1, <1>2
<1>5. s.up /\ ~s.exit /\ ~s.sending /\ (s.started \/ s.link = "linked")
  BY <1>1 DEF Needs, Serves, Runs
<1>6. s.link # "connecting"
  BY <1>2, <1>5, StartedNotConnecting
<1>7. /\ Sound(t) /\ CopyOf(t) /\ SameQueue(r, t) /\ t.up = s.up /\ t.link = r.link
      /\ t.link = "linked" => s.link = "linked" /\ t.started = s.started
      /\ s.started => t.started
      /\ \A j \in Key \ {k} : Visible(t)[j] = Visible(s)[j]
  <2>1. r = replication(s, Item("del", k)) /\ t = Unlink(r, {k})
    OBVIOUS
  <2>4. Sound(s) /\ CopyOf(s) /\ s.up /\ ~s.exit /\ ~s.sending /\ s.link # "connecting"
    BY <1>2, <1>5, <1>6
  <2> HIDE DEF r, t, s
  <2>2. /\ Sound(t) /\ CopyOf(t) /\ SameQueue(r, t) /\ t.up = s.up /\ t.link = r.link
        /\ t.link = "linked" => s.link = "linked" /\ t.started = s.started
        /\ s.started => t.started
    <3>1. Sound(t) /\ CopyOf(t)
      BY <2>1, <2>4, EvictedDoes
    <3>2. SameQueue(r, t)
      BY <2>1, <2>4, EvictedDoes
    <3>3. t.up = s.up
      <4>1. t.up
        BY <2>1, <2>4, EvictedDoes
      <4>2. t.up \in BOOLEAN /\ s.up \in BOOLEAN
        BY <2>4, <3>1, ProcessFacts DEF Sound
      <4> QED BY <2>4, <4>1, <4>2
    <3>6. t.link = r.link
      BY <2>1, <2>4, EvictedDoes
    <3>4. t.link = "linked" => s.link = "linked" /\ t.started = s.started
      BY <2>1, <2>4, EvictedDoes
    <3>5. s.started => t.started
      BY <2>1, <2>4, EvictedDoes
    <3> QED BY <3>1, <3>2, <3>3, <3>4, <3>5, <3>6
  <2>3. ASSUME NEW j \in Key \ {k} PROVE Visible(t)[j] = Visible(s)[j]
    <3>1. \A l \in Key \ {k} : Visible(t)[l] = Visible(s)[l] /\ Visible(t)[l] = Visible(r)[l]
                               /\ (l \in t.hidden => l \in r.hidden)
      BY <2>1, <2>4, EvictedDoes
    <3> QED BY <3>1
  <2> QED BY <2>2, <2>3
<1>8. CASE n = clientsAt
  <2>1. s.started
    BY <1>1, <1>8 DEF Needs, Serves
  <2>2. ASSUME NEW b, t.link = "linked", SourceOf(s, chan[n], b, removed, flushed, {})
        PROVE  SourceOf(t, chan[n], b, removed', flushed', {})
    <3>1. SourceOf(t, chan[n], b, removed \cup {k}, flushed, {})
      <4>1. r.link = "linked"
        BY <1>7, <2>2
      <4> QED BY <1>2, <1>5, <1>6, <2>2, <4>1, SourceEvicts
    <3>2. removed' = removed \cup {k} /\ flushed' = flushed
      BY <1>1, <1>8
    <3> QED BY <3>1, <3>2
  <2> HIDE DEF t, r
  <2> QED BY <1>1, <1>3, <1>4, <1>7, <1>8, <2>1, <2>2, ServedStep DEF s
<1>9. CASE n # clientsAt
  <2>0. PICK m \in Node : m = clientsAt
    BY IInvFacts
  <2>1. n = Peer(m) /\ m = Peer(n) /\ n # m
    BY <1>9, <2>0, PeerFacts
  <2>2. chan[m] # <<>> /\ Head(chan[m]).op = "rep" /\ flushed' = flushed \cup {k} /\ s.link = "linked"
    BY <1>1, <1>9, <2>0, <2>1 DEF Needs
  <2>3. node'[n] = t /\ node'[m] = node[m] /\ chan' = chan /\ clientsAt' = m
    BY <1>1, <1>2, <2>0, <2>1
  <2>4. InStep'
    <3> SUFFICES ASSUME node[m].up, node[m].link = "linked", t.up, t.link = "linked"
                 PROVE  node[m].started /\ Source(m)' /\ Sink(n)'
      BY <2>1, <2>3 DEF InStep, Linked
    <3>1. IF node[m].started THEN Source(m) /\ Sink(n) ELSE Sink(m)
      BY <1>5, <1>7, <2>0, <2>1, <2>2 DEF IInv, InStep, Linked
    <3>2. node[m].started
      <4> SUFFICES ASSUME Sink(m) PROVE FALSE
        BY <3>1
      <4>1. SinkOf(node[m], chan[m], flushed)
        BY DEF Sink
      <4>2. Head(chan[m]).op = "del"
        BY <1>2, <2>2, <4>1, SinkRead
      <4> QED BY <2>2, <4>2
    <3>3. Source(m)'
      <4>1. SourceOf(node[m], chan[m], Visible(s), removed, flushed, {})
        BY <2>1, <3>1, <3>2 DEF Source
      <4>2. \A j \in Key \ {} : j \in flushed' \/ Visible(t)[j] = Visible(s)[j]
        BY <1>7, <2>2
      <4>3. SameQueue(node[m], node[m])
        BY DEF SameQueue
      <4> HIDE DEF t
      <4>4. SourceOf(node[m], chan[m], Visible(t), removed', flushed', {})
        BY <1>4, <4>1, <4>2, <4>3, SourceItems
      <4> QED BY <2>1, <2>3, <4>4 DEF Source
    <3>4. Sink(n)'
      <4> DEFINE i == Item("del", k)
      <4>1. SinkOf(s, chan[n], flushed)
        BY <3>1, <3>2 DEF Sink
      <4>2. SinkOf(s, chan[n], flushed')
        BY <1>4, <4>1, SinkWider DEF SameQueue
      <4>3. i \in ItemType /\ i.op = "del" /\ i.key = k /\ k \in flushed' /\ r = replication(s, i)
        BY <2>2, ChangeIsItem
      <4>4. r.link = "linked"
        BY <1>7
      <4> HIDE DEF i, r
      <4>5. SinkOf(r, chan[n], flushed')
        BY <1>2, <1>5, <4>2, <4>3, <4>4, SinkReplication
      <4> HIDE DEF t
      <4>6. SinkOf(t, chan[n], flushed')
        BY <1>7, <4>5, SinkWider
      <4> QED BY <2>3, <4>6 DEF Sink
    <3> QED BY <3>2, <3>3, <3>4
  <2>5. clientsAt' = clientsAt /\ faults' \in 0 .. MaxFaults /\ chan' \in [Node -> Seq(Sent)]
        /\ \A l \in Node : Len(chan'[l]) <= Window
    BY <1>1, <1>2
  <2> HIDE DEF t, r
  <2> QED BY <1>1, <1>3, <1>4, <1>7, <2>4, <2>5, OneChanges
<1> QED BY <1>8, <1>9

-------------------------------------------------------------------------------
(* The loop of a process, and its end *)

\* The same is queued, made and copied of the same items.
SameTold(s, t) == t.pipe = s.pipe /\ t.wbuf = s.wbuf /\ t.copy = s.copy /\ SameItems(s, t)

\* The obligations towards the peer depend only on the queue, the wire and the items.
LEMMA ToldTheSame ==
  ASSUME NEW s, NEW t, SameTold(s, t), NEW c
  PROVE  /\ \A b, R, F, X : SourceOf(s, c, b, R, F, X) => SourceOf(t, c, b, R, F, X)
         /\ \A F : SinkOf(s, c, F) => SinkOf(t, c, F)
         /\ CopyingOf(s, c) => CopyingOf(t, c)
<1>1. t.pipe = s.pipe /\ t.wbuf = s.wbuf /\ t.copy = s.copy /\ t.hidden = s.hidden
  BY DEF SameTold, SameItems
<1>2. \A k \in Key : Visible(t)[k] = Visible(s)[k]
  BY VisibleIs DEF SameTold, SameItems
<1>3. \A k : Asked(t, k) <=> Asked(s, k)
  BY <1>1 DEF Asked
<1>4. ASSUME NEW b, NEW R, NEW F, NEW X, SourceOf(s, c, b, R, F, X) PROVE SourceOf(t, c, b, R, F, X)
  BY <1>1, <1>2, <1>3, <1>4 DEF SourceOf
<1>5. ASSUME NEW F, SinkOf(s, c, F) PROVE SinkOf(t, c, F)
  BY <1>1, <1>5 DEF SinkOf
<1>6. CopyingOf(s, c) => CopyingOf(t, c)
  BY <1>1 DEF CopyingOf
<1> QED BY <1>4, <1>5, <1>6

\* The pipe is readable.
LEMMA PipeReadableKeeps ==
  ASSUME IInv, NEW n \in Node, PipeReadable(n)
  PROVE  IInv'
<1> DEFINE s == node[n]
           p == replication_pop(s)
           t == conn_pipe_recv(p)
           c == chan[n]
<1>1. /\ s.up /\ s.link = "linked" /\ s.pipe # <<>> /\ node' = [node EXCEPT ![n] = t]
      /\ UNCHANGED <<chan, clientsAt, ops, faults, removed, flushed>>
  BY DEF PipeReadable, Runs, Linked
<1>2. /\ Sound(s) /\ CopyOf(s) /\ Account(s) /\ c \in Seq(Sent) /\ Len(c) <= Window
      /\ chan \in [Node -> Seq(Sent)] /\ faults \in 0 .. MaxFaults /\ flushed \subseteq removed
  BY IInvFacts
<1>3. t = conn_pipe_recv(replication_pop(s))
  OBVIOUS
<1> HIDE DEF t
<1>4. /\ Sound(t) /\ CopyOf(t) /\ SameShown(s, t)
      /\ t.up = s.up /\ t.started = s.started /\ t.link = s.link
      /\ t.exit = Taken(s).exit /\ (s.exit => t.exit)
      /\ t.pipe = p.pipe /\ t.copy = p.copy /\ t.wbuf = p.wbuf /\ SameItems(p, t)
  BY <1>1, <1>2, <1>3, conn_pipe_recvDoes, ZenonT(60)
<1>5. SameTold(p, t)
  BY <1>4 DEF SameTold
<1>6. chan' = [chan EXCEPT ![n] = c]
  BY <1>1, <1>2
<1>7. ASSUME NEW b, SourceOf(s, c, b, removed, flushed, {})
      PROVE  SourceOf(t, c, b, removed, flushed, {})
  <2>1. SourceOf(p, c, b, removed, flushed, {})
    BY <1>2, <1>7, SourcePop
  <2> HIDE DEF p, c
  <2> QED BY <1>5, <2>1, ToldTheSame
<1>8. ASSUME SinkOf(s, c, flushed)
      PROVE  SinkOf(t, c, flushed)
  <2>1. SinkOf(p, c, flushed)
    BY <1>2, <1>8, SinkPop
  <2> HIDE DEF p, c
  <2> QED BY <1>5, <2>1, ToldTheSame
<1>9. ASSUME ~t.exit, CopyingOf(s, c)
      PROVE  CopyingOf(t, c)
  <2>1. ~Taken(s).exit
    BY <1>4, <1>9
  <2>2. CopyingOf(p, c)
    BY <1>1, <1>2, <1>9, <2>1, CopyingPop
  <2> HIDE DEF p, c
  <2> QED BY <1>5, <2>2, ToldTheSame
<1>10. UNCHANGED <<clientsAt, ops, removed, flushed>> /\ faults' \in 0 .. MaxFaults
  BY <1>1, <1>2
<1> HIDE DEF c, p
<1> QED BY <1>1, <1>2, <1>4, <1>6, <1>7, <1>8, <1>9, <1>10, LoopStep DEF s, c

\* Two ways to write one more at the end.
LEMMA AppendIsConcat ==
  ASSUME NEW S, NEW p \in Seq(S), NEW i \in S
  PROVE  Append(p, i) = p \o <<i>>
OBVIOUS

\* Two ways to write that something is there.
LEMMA EmptyHasNoLength ==
  ASSUME NEW S, NEW p \in Seq(S)
  PROVE  p # <<>> <=> Len(p) > 0
OBVIOUS

\* A message is sent.
LEMMA SendKeeps ==
  ASSUME IInv, NEW n \in Node, Send(n)
  PROVE  IInv'
<1> DEFINE s == node[n]
           w == s.wbuf
           h == Head(w)
           y == Tail(w)
           b == Len(w) > 1
           t == [s EXCEPT !.wbuf = y, !.sending = b]
           c == Append(chan[n], h)
<1>1. /\ s.up /\ s.sending /\ Len(chan[n]) < Window /\ chan' = [chan EXCEPT ![n] = c]
      /\ node' = [node EXCEPT ![n].wbuf = Tail(@), ![n].sending = Len(node[n].wbuf) > 1]
      /\ UNCHANGED <<clientsAt, ops, faults, removed, flushed>>
  BY DEF Send
<1>2. /\ Sound(s) /\ CopyOf(s) /\ Account(s) /\ chan[n] \in Seq(Sent) /\ s \in Process /\ w \in Seq(Sent)
      /\ node \in [Node -> Process] /\ faults \in 0 .. MaxFaults
  BY IInvFacts
<1>3. w # <<>> /\ s.link = "linked" /\ s.sending \in BOOLEAN
  BY <1>1, <1>2, ProcessFacts DEF Sound
<1>4. h \in Sent /\ y \in Seq(Sent) /\ Len(y) = Len(w) - 1 /\ Len(w) \in Nat /\ w = <<h>> \o y /\ b \in BOOLEAN
  BY <1>2, <1>3, TailFacts
<1>5. node' = [node EXCEPT ![n] = t]
  BY <1>1, <1>2
<1>6. /\ c \in Seq(Sent) /\ Len(c) = Len(chan[n]) + 1 /\ Len(chan[n]) \in Nat /\ Window \in Nat
      /\ c = chan[n] \o <<h>>
  <2> DEFINE x == chan[n]
  <2>1. x \in Seq(Sent) /\ h \in Sent /\ c = Append(x, h)
    BY <1>2, <1>4
  <2> HIDE DEF x, c, h
  <2>2. c \in Seq(Sent) /\ Len(c) = Len(x) + 1 /\ Len(x) \in Nat
    BY <2>1, AppendFacts
  <2>3. c = x \o <<h>>
    BY <2>1, AppendIsConcat
  <2>4. Window \in Nat
    BY ReplicationAssumption DEF ReplicationAssumption
  <2> QED BY <2>2, <2>3, <2>4 DEF x
<1>7. Len(c) <= Window
  BY <1>1, <1>6
<1>8. c \o y = chan[n] \o w
  <2> DEFINE e == <<h>>
             x == chan[n]
  <2>1. e \in Seq(Sent) /\ x \in Seq(Sent) /\ c = x \o e /\ w = e \o y
    BY <1>2, <1>4, <1>6
  <2> HIDE DEF e, x, y, w, c
  <2>2. x \o (e \o y) = (x \o e) \o y
    BY <1>4, <2>1, ConcatAssociative
  <2> QED BY <2>1, <2>2 DEF x
<1>9. y # <<>> <=> b
  <2>1. y # <<>> <=> Len(y) > 0
    BY <1>4, EmptyHasNoLength
  <2> QED BY <1>4, <2>1
<1>10. y \in Seq(MessageType)
  BY <1>4, SentAreMessages
<1>11. t = [s EXCEPT !.wbuf = y, !.sending = b]
  OBVIOUS
<1> HIDE DEF t, y, b, c
<1>12. /\ t \in Process /\ t.wbuf = y /\ t.sending = b /\ t.up = s.up /\ t.started = s.started /\ t.link = s.link
       /\ t.exit = s.exit /\ t.pipe = s.pipe /\ t.copy = s.copy /\ t.count = s.count /\ t.free = s.free
       /\ SameItems(s, t)
  BY <1>2, <1>4, <1>10, <1>11 DEF Process, SameItems
<1>13. Sound(t)
  <2>1. t.sending => t.wbuf # <<>>
    BY <1>9, <1>12
  <2>2. ~(~t.sending /\ t.wbuf # <<>>)
    BY <1>9, <1>12
  <2>4. t.wbuf \in Seq(Sent) /\ t.count = t.free + Outstanding(t.pipe)
    BY <1>2, <1>4, <1>12 DEF Account
  <2> QED BY <1>3, <1>12, <2>1, <2>2, <2>4 DEF Sound
<1>14. CopyOf(t)
  BY <1>2, <1>12 DEF CopyOf, CopyAt, CopyShape, Signals
<1>15. c \o t.wbuf = chan[n] \o s.wbuf
  BY <1>8, <1>12 DEF w
<1>16. \A k : Asked(t, k) <=> Asked(s, k)
  BY <1>12 DEF Asked
<1>17. \A k \in Key : Visible(t)[k] = Visible(s)[k] /\ t.hidden = s.hidden
  BY <1>12, VisibleIs DEF SameItems
<1>18. ASSUME NEW d, SourceOf(s, chan[n], d, removed, flushed, {})
       PROVE  SourceOf(t, c, d, removed, flushed, {})
  BY <1>12, <1>15, <1>16, <1>17, <1>18 DEF SourceOf
<1>19. SinkOf(s, chan[n], flushed) => SinkOf(t, c, flushed)
  BY <1>12, <1>15 DEF SinkOf
<1>20. CopyingOf(s, chan[n]) => CopyingOf(t, c)
  BY <1>12, <1>15 DEF CopyingOf
<1>21. SameShown(s, t)
  BY <1>12 DEF SameItems, SameShown
<1>22. /\ UNCHANGED <<clientsAt, ops, removed, flushed>> /\ faults' \in 0 .. MaxFaults
       /\ faults' \in {faults, faults + 1}
  BY <1>1, <1>2
<1> QED BY <1>1, <1>5, <1>6, <1>7, <1>12, <1>13, <1>14, <1>18, <1>19, <1>20, <1>21, <1>22, LoopStep DEF s

\* A process that is not running, or that has just started, is as it should be.
LEMMA DownIsSound ==
  ASSUME faults \in 0 .. MaxFaults
  PROVE  LET d == [Down EXCEPT !.up = TRUE, !.link = "connecting"] IN
         /\ Sound(Down) /\ CopyOf(Down) /\ ~Down.up
         /\ Sound(d) /\ CopyOf(d) /\ d.link = "connecting" /\ d.up
<1> DEFINE d == [Down EXCEPT !.up = TRUE, !.link = "connecting"]
           no == <<>>
<1>1. /\ no \in Seq(ItemType) /\ no \in Seq(MessageType) /\ no \in Seq(Sent) /\ Len(no) = 0 /\ DOMAIN no = {}
      /\ [k \in Key |-> None] \in [Key -> {None} \cup Values] /\ 0 \in 0 .. QMax
  BY ReplicationAssumption DEF ReplicationAssumption
<1>2. Outstanding(no) = 0
  BY OutstandingNone
<1>3. /\ Down \in Process /\ Down.up = FALSE /\ Down.link = "none" /\ Down.exit = FALSE /\ Down.sending = FALSE
      /\ Down.pipe = no /\ Down.wbuf = no /\ Down.copy = no /\ Down.count = 0 /\ Down.free = 0
  BY <1>1 DEF Down, Process
<1>4. d = [Down EXCEPT !.up = TRUE, !.link = "connecting"]
  OBVIOUS
<1> HIDE DEF no, d
<1>5. /\ d \in Process /\ d.up = TRUE /\ d.link = "connecting" /\ d.exit = FALSE /\ d.sending = FALSE
      /\ d.pipe = no /\ d.wbuf = no /\ d.copy = no /\ d.count = 0 /\ d.free = 0
  BY <1>3, <1>4 DEF Process
<1>6. ASSUME NEW t \in Process, t.exit = FALSE, t.sending = FALSE,
             t.pipe = no, t.wbuf = no, t.copy = no, t.count = 0, t.free = 0,
             t.link # "linked", ~(t.up /\ t.link = "none"), t.link = "connecting" => t = d
      PROVE  Sound(t) /\ CopyOf(t)
  <2>1. t.count = t.free + Outstanding(t.pipe)
    BY <1>2, <1>6
  <2>2. Sound(t)
    BY <1>1, <1>2, <1>4, <1>6, <2>1 DEF Sound, no
  <2>3. CopyOf(t)
    BY <1>6, CopyOfNothing DEF CopyOf, no
  <2> QED BY <2>2, <2>3
<1>7. Sound(Down) /\ CopyOf(Down)
  BY <1>3, <1>6
<1>8. Sound(d) /\ CopyOf(d)
  BY <1>5, <1>6
<1> QED BY <1>3, <1>5, <1>7, <1>8 DEF d

\* The process is told to end.
LEMMA TerminateKeeps ==
  ASSUME IInv, NEW n \in Node, Terminate(n)
  PROVE  IInv'
<1> DEFINE s == node[n]
           m == replication_item(s, ExitMark)
           c == chan[n]
<1>1. /\ s.up /\ faults < MaxFaults /\ faults' = faults + 1
      /\ node' = [node EXCEPT ![n] = IF Linked(n) THEN m ELSE Down]
      /\ UNCHANGED <<chan, clientsAt, ops, removed, flushed>>
  BY DEF Terminate
<1>2. /\ Sound(s) /\ CopyOf(s) /\ Account(s) /\ c \in Seq(Sent) /\ Len(c) <= Window /\ s \in Process
      /\ chan \in [Node -> Seq(Sent)] /\ faults \in 0 .. MaxFaults /\ ops \in 0 .. MaxOps
      /\ removed \subseteq Key /\ flushed \subseteq removed /\ \A l \in Node : Len(chan[l]) <= Window
  BY IInvFacts
<1>3. faults' \in 0 .. MaxFaults /\ faults' \in {faults, faults + 1} /\ faults + 1 <= MaxFaults
  BY <1>1, <1>2, ReplicationAssumption DEF ReplicationAssumption
<1>4. CASE ~Linked(n)
  <2>1. node' = [node EXCEPT ![n] = Down]
    BY <1>1, <1>4
  <2> QED BY <1>1, <1>2, <1>3, <2>1, DownIsSound, UnlinkedStep
<1>5. CASE Linked(n)
  <2>1. s.link = "linked" /\ node' = [node EXCEPT ![n] = m]
    BY <1>1, <1>5 DEF Linked
  <2>2. /\ Account(m) /\ SameRun(s, m) /\ SameItems(s, m)
        /\ m.pipe = Append(s.pipe, ExitMark) /\ m.wbuf = s.wbuf /\ m.copy = s.copy
    BY <1>2, MarkDoes
  <2> HIDE DEF m
  <2>3. s.pipe \in Seq(ItemType) /\ ExitMark \in ItemType
    BY <1>2, ProcessFacts, ItemsHaveType
  <2> DEFINE L == Len(s.pipe)
  <2>4. /\ L \in Nat /\ Len(m.pipe) = L + 1 /\ DOMAIN m.pipe = 1 .. L + 1 /\ DOMAIN s.pipe = 1 .. L
        /\ m.pipe[L + 1] = ExitMark /\ \A j \in 1 .. L : m.pipe[j] = s.pipe[j]
    BY <2>2, <2>3, AppendFacts
  <2> HIDE DEF L
  <2>7. /\ m.up = s.up /\ m.link = s.link /\ m.started = s.started /\ m.exit = s.exit /\ m.sending = s.sending
    BY <2>2 DEF SameRun
  <2>8. Sound(m)
    BY <1>2, <2>1, <2>2, <2>7 DEF Sound, Account
  <2>9. CopyAt(m, faults')
    <3>1. CopyShape(m)
      BY <1>2, <2>2 DEF CopyOf, CopyAt, CopyShape
    <3>2. m.copy # <<>> => \E j \in DOMAIN m.pipe : m.pipe[j] # ExitMark
      <4> SUFFICES ASSUME m.copy # <<>> PROVE \E j \in DOMAIN m.pipe : m.pipe[j] # ExitMark
        OBVIOUS
      <4>1. PICK j \in DOMAIN s.pipe : s.pipe[j] # ExitMark
        BY <1>2, <2>2 DEF CopyOf, CopyAt
      <4> QED BY <2>4, <4>1
    <3>3. Signals(s, faults)
      BY <1>2 DEF CopyOf, CopyAt
    <3>4. Signals(m, faults + 1)
      BY <1>3, <2>2, <2>3, <2>7, <3>3, MarkedSignals
    <3> QED BY <1>1, <3>1, <3>2, <3>4 DEF CopyAt
  <2>10. ASSUME NEW b, SourceOf(s, c, b, removed, flushed, {})
         PROVE  SourceOf(m, c, b, removed, flushed, {})
    <3>1. ExitMark.op # "del" /\ ExitMark.op # "flush" /\ ExitMark.key \notin Key
      BY KeyIsNoMark DEF ExitMark, Item
    <3> HIDE DEF c
    <3> QED BY <2>2, <2>3, <2>10, <3>1, SourceAppend
  <2>11. ASSUME SinkOf(s, c, flushed) PROVE SinkOf(m, c, flushed)
    <3> HIDE DEF c
    <3> QED BY <2>2, <2>3, <2>11, SinkAppend
  <2>12. ASSUME CopyingOf(s, c) PROVE CopyingOf(m, c)
    <3>1. \A j \in DOMAIN m.pipe : m.pipe[j] = ExitMark \/ (j \in DOMAIN s.pipe /\ m.pipe[j] = s.pipe[j])
      BY <2>4
    <3>2. ExitMark.op = "exit" /\ ExitMark # EndMark
      BY DEF ExitMark, EndMark, Item
    <3>3. \A i, j \in DOMAIN m.pipe : m.pipe[i] # ExitMark /\ m.pipe[j] # ExitMark => i = j
      BY <2>12, <3>1 DEF CopyingOf
    <3>4. \A j \in DOMAIN m.pipe : m.pipe[j].op \in {"rep", "end", "exit"} /\ (m.pipe[j] = EndMark => m.copy = <<>>)
      BY <2>2, <2>12, <3>1, <3>2 DEF CopyingOf
    <3>5. ASSUME NEW j \in DOMAIN (c \o m.wbuf), (c \o m.wbuf)[j].op = "end"
          PROVE  j = Len(c \o m.wbuf) /\ m.copy = <<>> /\ \A i \in DOMAIN m.pipe : m.pipe[i] = ExitMark
      BY <2>2, <2>12, <3>1, <3>5 DEF CopyingOf
    <3> QED BY <3>3, <3>4, <3>5 DEF CopyingOf
  <2>13. SameShown(s, m)
    BY <2>2 DEF SameItems, SameShown
  <2>14. chan' = [chan EXCEPT ![n] = c] /\ UNCHANGED <<clientsAt, ops, removed, flushed>>
    BY <1>1, <1>2
  <2> HIDE DEF c
  <2> QED BY <1>2, <1>3, <2>1, <2>7, <2>8, <2>9, <2>10, <2>11, <2>12, <2>13, <2>14, LoopStep DEF s, c
<1> QED BY <1>4, <1>5

\* What is left on the wire after a crash or a close.
LEMMA CutWire ==
  ASSUME IInv, NEW n \in Node, NEW kept \in 0 .. Len(chan[n]),
         chan' = [m \in Node |-> IF m = n THEN SubSeq(chan[n], 1, kept) ELSE <<>>]
  PROVE  chan' \in [Node -> Seq(Sent)] /\ \A m \in Node : Len(chan'[m]) <= Window
<1> DEFINE c == chan[n]
           z == SubSeq(c, 1, kept)
<1>1. c \in Seq(Sent) /\ Len(c) <= Window /\ Len(c) \in Nat /\ Window \in Nat
  BY IInvFacts, ReplicationAssumption DEF ReplicationAssumption
<1>2. kept \in 0 .. Len(c)
  OBVIOUS
<1> HIDE DEF c
<1>3. z \in Seq(Sent) /\ Len(z) = kept
  BY <1>1, <1>2
<1>4. <<>> \in Seq(Sent) /\ Len(<<>>) = 0
  OBVIOUS
<1>5. \A m \in Node : chan'[m] = IF m = n THEN z ELSE <<>>
  BY DEF c
<1> HIDE DEF z
<1>6. ASSUME NEW m \in Node PROVE chan'[m] \in Seq(Sent) /\ Len(chan'[m]) <= Window
  <2>1. Len(z) <= Window /\ 0 <= Window
    BY <1>1, <1>2, <1>3
  <2>2. CASE m = n
    BY <2>1, <2>2, <1>3, <1>5
  <2>3. CASE m # n
    BY <2>1, <2>3, <1>4, <1>5
  <2> QED BY <2>2, <2>3
<1>7. chan' = [m \in Node |-> chan'[m]]
  OBVIOUS
<1> QED BY <1>6, <1>7

\* The process ends.
LEMMA ExitKeeps ==
  ASSUME IInv, NEW n \in Node, Exit(n)
  PROVE  IInv'
<1>1. /\ node' = [node EXCEPT ![n] = Down]
      /\ UNCHANGED <<clientsAt, ops, faults, removed, flushed>>
  BY DEF Exit
<1>2. PICK kept \in 0 .. Len(chan[n]) :
        chan' = [m \in Node |-> IF m = n THEN SubSeq(chan[n], 1, kept) ELSE <<>>]
  <2>1. Len(chan[n]) \in Nat
    BY IInvFacts
  <2>2. Len(chan[n]) \in 0 .. Len(chan[n])
    BY <2>1
  <2> QED BY <2>2 DEF Exit
<1>3. chan' \in [Node -> Seq(Sent)] /\ \A m \in Node : Len(chan'[m]) <= Window
  BY <1>2, CutWire
<1> QED BY <1>1, <1>3, DownIsSound, IInvFacts, UnlinkedStep

\* The process dies.
LEMMA CrashKeeps ==
  ASSUME IInv, NEW n \in Node, Crash(n)
  PROVE  IInv'
<1>1. /\ node' = [node EXCEPT ![n] = Down] /\ faults < MaxFaults /\ faults' = faults + 1
      /\ UNCHANGED <<clientsAt, ops, removed, flushed>>
  BY DEF Crash
<1>2. PICK kept \in 0 .. Len(chan[n]) :
        chan' = [m \in Node |-> IF m = n THEN SubSeq(chan[n], 1, kept) ELSE <<>>]
  BY DEF Crash
<1>3. chan' \in [Node -> Seq(Sent)] /\ \A m \in Node : Len(chan'[m]) <= Window
  BY <1>2, CutWire
<1>4. /\ faults' \in 0 .. MaxFaults /\ ops' \in 0 .. MaxOps /\ removed' \subseteq Key /\ flushed' \subseteq removed'
  BY <1>1, IInvFacts, ReplicationAssumption DEF ReplicationAssumption
<1>5. clientsAt' = clientsAt
  BY <1>1
<1> QED BY <1>1, <1>3, <1>4, <1>5, DownIsSound, IInvFacts, UnlinkedStep

\* A process is started.
LEMMA StartKeeps ==
  ASSUME IInv, NEW n \in Node, Start(n)
  PROVE  IInv'
<1> DEFINE d == [Down EXCEPT !.up = TRUE, !.link = "connecting"]
<1>1. /\ node' = [node EXCEPT ![n] = d]
      /\ UNCHANGED <<chan, clientsAt, ops, faults, removed, flushed>>
  BY DEF Start
<1>2. Sound(d) /\ CopyOf(d) /\ d.link # "linked"
  BY DownIsSound, IInvFacts
<1> HIDE DEF d
<1> QED BY <1>1, <1>2, IInvFacts, UnlinkedStep

\* Whoever closes, listens again.
LEMMA ClosingKeeps ==
  ASSUME IInv, NEW n \in Node, node' = [node EXCEPT ![n] = replication_close(@)],
         chan' = chan \/ chan' = [m \in Node |-> <<>>],
         UNCHANGED <<clientsAt, ops, faults, removed, flushed>>
  PROVE  IInv'
<1> DEFINE s == node[n]
           t == replication_close(s)
<1>1. Account(s) /\ s \in Process
  BY IInvFacts
<1>2. /\ Account(t) /\ t.link = "none" /\ ~t.sending
      /\ t.up = s.up /\ t.exit = s.exit /\ t.started = (s.started \/ ~s.exit)
      /\ t.pipe = <<>> /\ t.wbuf = <<>> /\ t.copy = <<>>
  BY <1>1, replication_closeDoes
<1>3. node' = [node EXCEPT ![n] = t]
  OBVIOUS
<1> HIDE DEF t
<1>4. Sound(t) /\ CopyOf(t)
  <2>1. t.up /\ ~t.exit => t.started
    BY <1>2
  <2>2. faults \in 0 .. MaxFaults
    BY IInvFacts
  <2> QED BY <1>2, <2>1, <2>2, SoundUnlinked
<1>5. chan' \in [Node -> Seq(Sent)] /\ \A m \in Node : Len(chan'[m]) <= Window
  <2>1. CASE chan' = chan
    BY <2>1, IInvFacts
  <2>2. CASE chan' = [m \in Node |-> <<>>]
    <3>1. <<>> \in Seq(Sent) /\ Len(<<>>) = 0 /\ Window \in Nat
      BY ReplicationAssumption DEF ReplicationAssumption
    <3> QED BY <2>2, <3>1
  <2> QED BY <2>1, <2>2
<1>6. /\ faults' \in 0 .. MaxFaults /\ ops' \in 0 .. MaxOps /\ removed' \subseteq Key /\ flushed' \subseteq removed'
      /\ clientsAt' = clientsAt
  BY IInvFacts
<1> QED BY <1>2, <1>3, <1>4, <1>5, <1>6, UnlinkedStep

\* A link is found broken.
LEMMA CloseKeeps ==
  ASSUME IInv, NEW n \in Node, SendFails(n) \/ SeeClose(n) \/ Refused(n)
  PROVE  IInv'
<1>1. CASE SendFails(n) \/ SeeClose(n)
  BY <1>1, ClosingKeeps DEF SendFails, SeeClose, Closed
<1>2. CASE Refused(n)
  BY <1>2, ClosingKeeps DEF Refused
<1> QED BY <1>1, <1>2

-------------------------------------------------------------------------------
(* What a server reads of its peer *)

\* A wire without messages says nothing.
LEMMA NothingSaid ==
  ASSUME NEW w \in Seq(Sent), DOMAIN w = {}, NEW b, NEW k
  PROVE  Final(w, b, k) = b
<1>1. DOMAIN w = 1 .. Len(w)
  OBVIOUS
<1> QED BY <1>1, FinalNone

\* What the server that the clients use has read from one that only follows: evictions.
LEMMA SourceExecutes ==
  ASSUME NEW s \in Process, NEW h \in Sent, NEW recent, NEW t, t = Executed(s, h, recent),
         NEW F, h.op = "del", h.key \in F,
         NEW c, NEW b, NEW R, F \subseteq R, R \subseteq Key, SourceOf(s, c, b, R, F, {})
  PROVE  SourceOf(t, c, b, R, F, {})
<1>1. /\ SameQueue(s, t) /\ t.hidden \subseteq s.hidden
      /\ \A k \in Key : Visible(t)[k] = Final(<<h>>, Visible(s)[k], k)
  BY ExecutedDoes
<1>2. ASSUME NEW k \in Key \ {} PROVE k \in F \/ (Visible(t)[k] = Visible(s)[k] /\ (k \in t.hidden => k \in s.hidden))
  <2>1. CASE k = h.key
    BY <2>1
  <2>2. CASE k # h.key
    <3>1. ~Speaks(h, k)
      BY <2>2 DEF Speaks
    <3>2. Final(<<h>>, Visible(s)[k], k) = Visible(s)[k]
      BY <3>1, FinalOne
    <3> QED BY <1>1, <3>2
  <2> QED BY <2>1, <2>2
<1> QED BY <1>1, <1>2, SourceItems

\* The peer that has read the end of the copy serves what it was sent: all, if nothing
\* was removed, and the other follows from now on.
LEMMA CopyEnds ==
  ASSUME NEW s, s \in Process, s.wbuf \in Seq(Sent), NEW c \in Seq(Sent), SinkOf(s, c, {}),
         NEW t, SameQueue(s, t),
         NEW p, p \in Process, p.wbuf \in Seq(Sent), NEW e \in Seq(Sent),
         p.copy = <<>>, \A j \in DOMAIN p.pipe : p.pipe[j] = ExitMark, DOMAIN (e \o p.wbuf) = {},
         SourceOf(p, e, Visible(t), {}, {}, {})
  PROVE  SourceOf(t, c, Visible(p), {}, {}, {}) /\ SinkOf(p, e, {})
<1>1. SinkOf(p, e, {})
  BY DEF SinkOf
<1>2. t.pipe = s.pipe /\ t.wbuf = s.wbuf /\ t.copy = <<>>
  BY DEF SameQueue, SinkOf
<1>3. \A j \in DOMAIN t.pipe : t.pipe[j] = ExitMark
  BY <1>2 DEF SinkOf
<1>4. DOMAIN (c \o t.wbuf) = {} /\ c \o t.wbuf \in Seq(Sent)
  BY <1>2 DEF SinkOf
<1>5. \A k \in Key : ~Asked(t, k) /\ ~Asked(p, k)
  BY <1>3, KeyIsNoMark DEF Asked
<1>6. ASSUME NEW k \in Key PROVE Visible(t)[k] = Visible(p)[k]
  <2>1. ~Contains(p.copy, Item("rep", k))
    BY DEF Contains
  <2>2. k \in Key \ {} /\ k \notin {}
    OBVIOUS
  <2>3. Final(e \o p.wbuf, Visible(t)[k], k) = Visible(p)[k]
    BY <1>5, <2>1, <2>2 DEF SourceOf
  <2>4. e \o p.wbuf \in Seq(Sent)
    OBVIOUS
  <2> DEFINE w == e \o p.wbuf
             v == Visible(t)[k]
  <2>6. w \in Seq(Sent) /\ DOMAIN w = {} /\ Final(w, v, k) = Visible(p)[k]
    BY <2>3, <2>4
  <2> HIDE DEF w, v
  <2>7. Final(w, v, k) = v
    BY <2>6, NothingSaid
  <2> QED BY <2>6, <2>7 DEF v
<1>7. ASSUME NEW k \in Key PROVE Final(c \o t.wbuf, Visible(p)[k], k) = Visible(t)[k]
  <2> DEFINE w == c \o t.wbuf
             v == Visible(p)[k]
  <2>1. w \in Seq(Sent) /\ DOMAIN w = {} /\ v = Visible(t)[k]
    BY <1>4, <1>6
  <2> HIDE DEF w, v
  <2>2. Final(w, v, k) = v
    BY <2>1, NothingSaid
  <2> QED BY <2>1, <2>2 DEF w, v
<1>8. \A j \in DOMAIN t.pipe : t.pipe[j].op # "del" /\ t.pipe[j].op # "flush"
  BY <1>3 DEF ExitMark, Item
<1>9. SourceOf(t, c, Visible(p), {}, {}, {})
  BY <1>5, <1>7, <1>8 DEF SourceOf
<1> QED BY <1>1, <1>9

\* A message is received.
LEMMA ReceiveKeeps ==
  ASSUME IInv, NEW n \in Node, Receive(n)
  PROVE  IInv'
<1>0. PICK p \in Node : p = Peer(n) /\ p # n /\ n = Peer(p) /\ \A l \in Node : l = n \/ l = p
  BY PeerFacts
<1> DEFINE s == node[n]
           h == Head(chan[p])
           c == Tail(chan[p])
<1>1. /\ s.up /\ ~s.sending /\ s.link = "linked" /\ ~s.exit /\ chan[p] # <<>>
      /\ chan' = [chan EXCEPT ![p] = c]
      /\ UNCHANGED <<clientsAt, ops, faults, removed, flushed>>
  BY <1>0 DEF Receive, Runs, Linked
<1>2. PICK recent : node' = [node EXCEPT ![n] = Executed(s, h, recent)]
  BY <1>0 DEF Receive
<1> DEFINE t == Executed(s, h, recent)
<1>3. /\ node \in [Node -> Process] /\ chan \in [Node -> Seq(Sent)]
      /\ \A m \in Node : /\ chan[m] \in Seq(Sent) /\ Len(chan[m]) <= Window
                         /\ node[m] \in Process /\ node[m].wbuf \in Seq(Sent)
      /\ clientsAt \in Node /\ ops \in 0 .. MaxOps /\ faults \in 0 .. MaxFaults
      /\ removed \subseteq Key /\ flushed \subseteq removed /\ Sound(s) /\ CopyOf(s)
  BY IInvFacts
<1>4. h \in Sent /\ c \in Seq(Sent) /\ Len(c) <= Window
  <2>1. h \in Sent /\ c \in Seq(Sent) /\ Len(c) = Len(chan[p]) - 1 /\ Len(chan[p]) \in Nat
    BY <1>1, <1>3, TailFacts
  <2>2. Len(chan[p]) <= Window /\ Window \in Nat
    BY <1>3, ReplicationAssumption DEF ReplicationAssumption
  <2> QED BY <2>1, <2>2
<1>5. /\ t \in Process /\ SameQueue(s, t)
      /\ t.up = s.up /\ t.link = s.link /\ t.exit = s.exit /\ t.sending = s.sending
      /\ t.started = (s.started \/ h.op = "end")
      /\ \A k \in Key : Visible(t)[k] = Final(<<h>>, Visible(s)[k], k)
  BY <1>3, <1>4, ExecutedDoes
<1>6. t = Executed(s, h, recent)
  OBVIOUS
<1> HIDE DEF h, c, t
<1>7. Sound(t)
  BY <1>1, <1>3, <1>5 DEF Sound, SameQueue
<1>8. CopyOf(t)
  BY <1>3, <1>5 DEF CopyOf, CopyAt, CopyShape, Signals, SameQueue
<1>9. /\ chan' \in [Node -> Seq(Sent)] /\ chan'[n] = chan[n] /\ chan'[p] = c
      /\ \A m \in Node : Len(chan'[m]) <= Window
  BY <1>0, <1>1, <1>3, <1>4
<1>10. node'[n] = t /\ node'[p] = node[p]
  BY <1>0, <1>2, <1>3 DEF t
<1>11. /\ Linked(p)' <=> Linked(p)
       /\ Linked(n)' /\ Linked(n)
  BY <1>1, <1>5, <1>10 DEF Linked
<1>12. s.started => t.started
  BY <1>5
<1>13. ASSUME Source(p), n = clientsAt \/ p = clientsAt
       PROVE  Source(p)'
  <2>1. SourceOf(node[p], chan[p], Visible(s), removed, flushed, {})
    BY <1>0, <1>13 DEF Source
  <2>2. SourceOf(node[p], c, Visible(t), removed, flushed, {})
    <3>1. \A k \in Key : Visible(t)[k] = Final(<<Head(chan[p])>>, Visible(s)[k], k)
      BY <1>5 DEF h
    <3> QED BY <1>1, <1>3, <2>1, <3>1, SourceRead DEF c
  <2> QED BY <1>0, <1>1, <1>9, <1>10, <2>2 DEF Source
<1>14. ASSUME Sink(p) PROVE Sink(p)' /\ h.op = "del" /\ h.key \in flushed
  <2>1. SinkOf(node[p], c, flushed) /\ h.op = "del" /\ h.key \in flushed
    BY <1>1, <1>3, <1>14, SinkRead DEF Sink, h, c
  <2> QED BY <1>1, <1>9, <1>10, <2>1 DEF Sink
<1>15. ASSUME Sink(n) PROVE Sink(n)'
  <2>1. SinkOf(t, chan[n], flushed)
    BY <1>5, <1>15, SinkWider DEF Sink
  <2> QED BY <1>1, <1>9, <1>10, <2>1 DEF Sink
<1>16. CASE n # clientsAt
  <2>1. p = clientsAt
    BY <1>0, <1>3, <1>16
  <2>2. InStep'
    <3> SUFFICES ASSUME Linked(p)'
                 PROVE  node[p].started /\ Source(p)' /\ Sink(n)'
      BY <1>0, <1>1, <1>10, <2>1 DEF InStep
    <3>1. IF node[p].started THEN Source(p) /\ Sink(n) ELSE Sink(p) /\ removed = {}
      BY <1>0, <1>1, <1>11, <2>1 DEF IInv, InStep
    <3>2. node[p].started
      BY <1>3, <1>14, <3>1
    <3> QED BY <1>13, <1>15, <2>1, <3>1, <3>2
  <2> QED BY <1>1, <1>2, <1>3, <1>7, <1>8, <1>9, <2>2, OneChanges DEF t
<1>17. CASE n = clientsAt
  <2>1. InStep'
    <3> SUFFICES ASSUME Linked(p)', ~node[p].exit
                 PROVE  IF t.started THEN Source(n)' /\ Sink(p)'
                        ELSE Source(p)' /\ Sink(n)' /\ Copying(p)' /\ removed' = {}
      BY <1>0, <1>1, <1>10, <1>17 DEF InStep
    <3>1. IF s.started THEN Source(n) /\ Sink(p)
          ELSE Source(p) /\ Sink(n) /\ Copying(p) /\ removed = {}
      BY <1>0, <1>11, <1>17 DEF IInv, InStep
    <3>2. CASE s.started
      <4>1. h.op = "del" /\ h.key \in flushed /\ Sink(p)'
        BY <1>14, <3>1, <3>2
      <4>2. SourceOf(s, chan[n], Visible(node[p]), removed, flushed, {})
        BY <1>0, <3>1, <3>2 DEF Source
      <4>3. SourceOf(t, chan[n], Visible(node[p]), removed, flushed, {})
        <5>1. s \in Process /\ chan[n] \in Seq(Sent) /\ flushed \subseteq removed /\ removed \subseteq Key
          BY <1>3
        <5> DEFINE e == chan[n]
                   b == Visible(node[p])
        <5>2. e \in Seq(Sent) /\ SourceOf(s, e, b, removed, flushed, {})
          BY <4>2, <5>1
        <5> HIDE DEF s, e, b
        <5>3. SourceOf(t, e, b, removed, flushed, {})
          BY <1>4, <1>6, <4>1, <5>1, <5>2, SourceExecutes
        <5> QED BY <5>3 DEF e, b
      <4>4. Source(n)'
        BY <1>0, <1>1, <1>9, <1>10, <4>3 DEF Source
      <4> QED BY <1>12, <3>2, <4>1, <4>4
    <3>3. CASE ~s.started
      <4>1. Source(p) /\ Sink(n) /\ Copying(p) /\ removed = {} /\ flushed = {}
        BY <1>3, <3>1, <3>3
      <4>2. Source(p)' /\ Sink(n)'
        BY <1>13, <1>15, <1>17, <4>1
      <4>3. /\ CopyingOf(node[p], c)
            /\ h.op = "end" => /\ node[p].copy = <<>> /\ \A j \in DOMAIN node[p].pipe : node[p].pipe[j] = ExitMark
                               /\ DOMAIN (c \o node[p].wbuf) = {}
        BY <1>1, <1>3, <4>1, CopyingRead DEF Copying, h, c
      <4>4. Copying(p)'
        BY <1>9, <1>10, <4>3 DEF Copying
      <4>5. CASE h.op # "end"
        <5>1. ~t.started
          BY <1>5, <3>3, <4>5
        <5> QED BY <1>1, <4>1, <4>2, <4>4, <5>1
      <4>6. CASE h.op = "end"
        <5>1. t.started
          BY <1>5, <4>6
        <5>2. SourceOf(node[p], c, Visible(t), {}, {}, {})
          BY <1>0, <1>1, <1>9, <1>10, <4>1, <4>2 DEF Source
        <5>3. SinkOf(s, chan[n], {})
          BY <4>1 DEF Sink
        <5>4. SourceOf(t, chan[n], Visible(node[p]), {}, {}, {}) /\ SinkOf(node[p], c, {})
          BY <1>3, <1>4, <1>5, <4>3, <4>6, <5>2, <5>3, CopyEnds
        <5>5. Source(n)' /\ Sink(p)'
          BY <1>0, <1>1, <1>9, <1>10, <4>1, <5>4 DEF Source, Sink
        <5> QED BY <5>1, <5>5
      <4> QED BY <4>5, <4>6
    <3> QED BY <3>2, <3>3
  <2> QED BY <1>1, <1>2, <1>3, <1>7, <1>8, <1>9, <2>1, OneChanges DEF t
<1> QED BY <1>16, <1>17

-------------------------------------------------------------------------------
(* A link is made *)

\* SetToSeqs orders all that is in a set.
LEMMA OrderFacts ==
  ASSUME NEW S, IsFiniteSet(S), NEW order \in SetToSeqs(S)
  PROVE  /\ Cardinality(S) \in Nat /\ DOMAIN order = 1 .. Cardinality(S)
         /\ order \in Seq(S) /\ Len(order) = Cardinality(S)
         /\ \A j \in 1 .. Cardinality(S) : order[j] \in S
         /\ \A k \in S : \E j \in 1 .. Cardinality(S) : order[j] = k
<1> DEFINE n == Cardinality(S)
           D == 1 .. n
<1>1. n \in Nat
  BY FS_CardinalityType
<1>2. order \in [D -> S] /\ \A i, j \in D : i # j => order[i] # order[j]
  BY DEF SetToSeqs
<1> HIDE DEF n
<1>3. IsFiniteSet(D) /\ Cardinality(D) = n
  <2>1. 1 \in Int /\ n \in Int
    BY <1>1
  <2>2. IsFiniteSet(1 .. n) /\ Cardinality(1 .. n) = IF 1 > n THEN 0 ELSE n - 1 + 1
    BY <2>1, FS_Interval
  <2>3. Cardinality(1 .. n) = n
    BY <1>1, <2>2
  <2> QED BY <2>2, <2>3
<1> HIDE DEF D
<1>4. order \in Injection(D, S)
  BY <1>2 DEF Injection, IsInjective
<1>5. order \in Surjection(D, S)
  BY <1>3, <1>4, FS_Injection DEF n
<1>6. \A k \in S : \E j \in D : order[j] = k
  BY <1>5 DEF Surjection
<1>7. order \in Seq(S) /\ Len(order) = n
  BY <1>1, <1>2 DEF D
<1> QED BY <1>1, <1>2, <1>6, <1>7 DEF n, D

\* A function on 1 .. n is a sequence.
LEMMA ArrayIsSeq ==
  ASSUME NEW S, NEW n \in Nat, NEW x \in [1 .. n -> S]
  PROVE  x \in Seq(S) /\ Len(x) = n
OBVIOUS

\* The copy of some keys.
LEMMA CopyIs ==
  ASSUME NEW order \in Seq(Key)
  PROVE  LET copy == [j \in DOMAIN order |-> Item("rep", order[j])] \o <<EndMark>> IN
         /\ copy \in Seq(ItemType) /\ copy # <<>>
         /\ \A j \in DOMAIN copy : copy[j].op = IF j < Len(copy) THEN "rep" ELSE "end"
         /\ \A j \in DOMAIN order : Contains(copy, Item("rep", order[j]))
<1> DEFINE n == Len(order)
           x == [j \in DOMAIN order |-> Item("rep", order[j])]
           e == EndMark
           copy == x \o <<e>>
<1>1. n \in Nat /\ DOMAIN order = 1 .. n /\ \A j \in 1 .. n : order[j] \in Key
  OBVIOUS
<1>2. \A j \in 1 .. n : x[j] = Item("rep", order[j]) /\ x[j] \in ItemType /\ x[j].op = "rep"
  BY <1>1, ChangeIsItem
<1>3. x \in [1 .. n -> ItemType]
  BY <1>1, <1>2
<1>4. e \in ItemType /\ e.op = "end"
  BY ItemsHaveType DEF EndMark, Item
<1> HIDE DEF n, x, e
<1>6. x \in Seq(ItemType) /\ Len(x) = n
  BY <1>1, <1>3, ArrayIsSeq
<1>7. copy = Append(x, e)
  BY <1>4, <1>6, AppendIsConcat
<1> HIDE DEF copy
<1>8. /\ copy \in Seq(ItemType) /\ Len(copy) = n + 1 /\ DOMAIN copy = 1 .. n + 1
      /\ copy[n + 1] = e /\ \A j \in 1 .. n : copy[j] = x[j]
  <2>1. /\ Append(x, e) \in Seq(ItemType) /\ Len(Append(x, e)) = Len(x) + 1
        /\ DOMAIN Append(x, e) = 1 .. Len(x) + 1
        /\ Append(x, e)[Len(x) + 1] = e /\ \A j \in 1 .. Len(x) : Append(x, e)[j] = x[j]
    BY <1>4, <1>6, AppendFacts
  <2> QED BY <2>1, <1>6, <1>7
<1>9. copy # <<>>
  BY <1>1, <1>8
<1>10. ASSUME NEW j \in DOMAIN copy PROVE copy[j].op = IF j < Len(copy) THEN "rep" ELSE "end"
  <2>1. CASE j = n + 1
    BY <2>1, <1>1, <1>4, <1>8
  <2>2. CASE j # n + 1
    <3>1. j \in 1 .. n /\ j < Len(copy)
      BY <2>2, <1>1, <1>8
    <3> QED BY <3>1, <1>2, <1>8
  <2> QED BY <2>1, <2>2
<1>11. ASSUME NEW j \in DOMAIN order PROVE Contains(copy, Item("rep", order[j]))
  <2>1. j \in DOMAIN copy /\ copy[j] = Item("rep", order[j])
    BY <1>1, <1>2, <1>8
  <2> QED BY <2>1 DEF Contains
<1> QED BY <1>8, <1>9, <1>10, <1>11 DEF copy, x, e

\* What accepts has its items to copy: nothing is queued, and nothing was told.
LEMMA AcceptsSource ==
  ASSUME NEW s, NEW a, SameItems(s, a), a.pipe = <<>>, a.wbuf = <<>>,
         \A k \in Present(s) : Contains(a.copy, Item("rep", k)),
         NEW b, \A k \in Key : b[k] = None
  PROVE  SourceOf(a, <<>>, b, {}, {}, {})
<1> DEFINE w == <<>> \o a.wbuf
<1>1. DOMAIN a.pipe = {} /\ w \in Seq(Sent) /\ DOMAIN w = {}
  OBVIOUS
<1> HIDE DEF w
<1>2. ASSUME NEW k \in Key PROVE Final(w, b[k], k) = None
  <2> DEFINE v == b[k]
  <2>1. v = None
    OBVIOUS
  <2> HIDE DEF v
  <2>2. Final(w, v, k) = v
    BY <1>1, NothingSaid
  <2> QED BY <2>1, <2>2 DEF v
<1>3. \A k : ~Asked(a, k)
  BY <1>1 DEF Asked
<1>4. ASSUME NEW k \in Key, ~Contains(a.copy, Item("rep", k)) PROVE Visible(a)[k] = None
  <2>1. s.store[k] = None
    BY <1>4, VisibleIs
  <2>2. a.store[k] = None
    BY <2>1 DEF SameItems
  <2> QED BY <2>2, VisibleIs
<1> QED BY <1>1, <1>2, <1>3, <1>4 DEF SourceOf, w

\* The first of the copy is queued alone.
LEMMA CopyStarts ==
  ASSUME NEW a, Account(a), CopyShape(a), a.pipe = <<>>, a.wbuf = <<>>, a.copy # <<>>,
         a.up, a.started, a.link = "linked", ~a.exit, ~a.sending, a.free > 0 \/ a.count < QMax,
         faults \in 0 .. MaxFaults,
         NEW t, t = replication_marugoto(a)
  PROVE  /\ Sound(t) /\ CopyOf(t) /\ t.up /\ t.started /\ t.link = "linked"
         /\ CopyingOf(t, <<>>)
<1>1. PICK l \in 1 .. Len(a.copy) :
        /\ t.pipe = Append(a.pipe, a.copy[l]) /\ t.copy = SubSeq(a.copy, l + 1, Len(a.copy))
        /\ Account(t) /\ SameRun(a, t) /\ t.wbuf = a.wbuf
  BY replication_marugotoDoes
<1>2. /\ Len(t.pipe) = 1 /\ DOMAIN t.pipe = 1 .. 1
      /\ t.pipe[1].op \in {"rep", "end"} /\ (t.pipe[1] = EndMark => t.copy = <<>>)
  BY CopyGoesOn
<1>3. \A j \in 1 .. 1 : j = 1
  OBVIOUS
<1>4. \A j \in DOMAIN t.pipe : j = 1
  BY <1>2, <1>3, Zenon
<1>5. t.pipe[1] # ExitMark /\ 1 \in DOMAIN t.pipe
  <2>1. ExitMark.op = "exit"
    BY DEF ExitMark, Item
  <2> QED BY <1>2, <2>1
<1>6. /\ t.up /\ t.started /\ t.link = "linked" /\ ~t.exit /\ ~t.sending
  BY <1>1 DEF SameRun
<1>7. Sound(t)
  BY <1>1, <1>6, SoundLinked
<1>8. CopyShape(t)
  <2> DEFINE c == a.copy
             d == t.copy
  <2>1. c \in Seq(ItemType) /\ Len(c) \in Nat /\ l \in 1 .. Len(c) /\ l \in 0 .. Len(c) /\ l \in Nat
        /\ \A j \in 1 .. Len(c) : c[j].op = IF j < Len(c) THEN "rep" ELSE "end"
    <3>1. c \in Seq(ItemType)
      BY ProcessFacts DEF Account
    <3>2. DOMAIN c = 1 .. Len(c) /\ Len(c) \in Nat
      BY <3>1
    <3> QED BY <3>1, <3>2 DEF CopyShape
  <2>2. d = SubSeq(c, l + 1, Len(c))
    BY <1>1
  <2> HIDE DEF c, d
  <2>3. /\ Len(d) = Len(c) - l /\ DOMAIN d = 1 .. Len(c) - l
        /\ \A j \in 1 .. Len(c) - l : d[j] = c[l + j] /\ l + j \in 1 .. Len(c)
    BY <2>1, <2>2, SubSeqFacts
  <2>4. ASSUME NEW j \in 1 .. Len(c) - l PROVE d[j].op = IF j < Len(c) - l THEN "rep" ELSE "end"
    <3>1. d[j] = c[l + j] /\ l + j \in 1 .. Len(c)
      BY <2>3
    <3>2. l + j < Len(c) <=> j < Len(c) - l
      <4>1. j \in Int /\ l \in Nat /\ Len(c) \in Nat
        BY <2>1
      <4> DEFINE n == Len(c)
      <4> HIDE DEF n
      <4> QED BY <4>1 DEF n
    <3>3. c[l + j].op = IF l + j < Len(c) THEN "rep" ELSE "end"
      BY <2>1, <3>1
    <3> QED BY <3>1, <3>2, <3>3
  <2> QED BY <2>3, <2>4 DEF CopyShape, d
<1>9. CopyOf(t)
  <2>1. \E j \in DOMAIN t.pipe : t.pipe[j] # ExitMark
    BY <1>5
  <2>2. t.pipe \in Seq(ItemType)
    BY <1>1, ProcessFacts DEF Account
  <2>3. Few(t.pipe, faults)
    <3>1. Outstanding(t.pipe) > 0 /\ Outstanding(t.pipe) \in Nat
      BY <1>2, <2>1, <2>2, OutstandingOne, OutstandingType
    <3>2. faults \in Nat
      BY ReplicationAssumption DEF ReplicationAssumption
    <3> QED BY <1>2, <3>1, <3>2 DEF Few
  <2>4. Signals(t, faults)
    BY <1>6, <2>2, <2>3, FewSignals
  <2> QED BY <1>8, <2>1, <2>4 DEF CopyOf, CopyAt
<1>10. CopyingOf(t, <<>>)
  <2>1. t.wbuf = <<>>
    BY <1>1
  <2>2. DOMAIN (<<>> \o t.wbuf) = {}
    BY <2>1
  <2>3. \A i, j \in DOMAIN t.pipe : i = j
    BY <1>4
  <2>4. \A j \in DOMAIN t.pipe : t.pipe[j].op \in {"rep", "end", "exit"} /\ (t.pipe[j] = EndMark => t.copy = <<>>)
    BY <1>2, <1>4
  <2> QED BY <2>2, <2>3, <2>4 DEF CopyingOf
<1> QED BY <1>6, <1>7, <1>9, <1>10

\* What accepts queues the first of its copy.
LEMMA AcceptsDoes ==
  ASSUME NEW s, Sound(s), s.up, s.link = "none", ~s.exit, faults \in 0 .. MaxFaults,
         NEW order, order \in SetToSeqs(Present(s)),
         NEW t, t = replication_marugoto([s EXCEPT
                      !.link = "linked",
                      !.copy = [j \in DOMAIN order |-> Item("rep", order[j])] \o <<EndMark>>])
  PROVE  /\ Sound(t) /\ CopyOf(t) /\ t.up /\ t.started /\ t.link = "linked"
         /\ \A b : (\A k \in Key : b[k] = None) => SourceOf(t, <<>>, b, {}, {}, {})
         /\ CopyingOf(t, <<>>)
<1> DEFINE copy == [j \in DOMAIN order |-> Item("rep", order[j])] \o <<EndMark>>
           a == [s EXCEPT !.link = "linked", !.copy = copy]
<1>1. /\ s \in Process /\ s.wbuf \in Seq(Sent) /\ s.count = s.free + Outstanding(s.pipe)
      /\ s.pipe = <<>> /\ s.wbuf = <<>> /\ s.started /\ ~s.sending
  BY DEF Sound
<1>2. /\ order \in Seq(Key) /\ \A k \in Present(s) : \E j \in DOMAIN order : order[j] = k
  <2> DEFINE P == Present(s)
  <2>1. P \subseteq Key /\ IsFiniteSet(P)
    <3>1. P \subseteq Key
      BY DEF Present
    <3> QED BY <3>1, ReplicationAssumption, FS_Subset DEF ReplicationAssumption
  <2>2. order \in SetToSeqs(P)
    OBVIOUS
  <2> HIDE DEF P
  <2>3. /\ Cardinality(P) \in Nat /\ DOMAIN order = 1 .. Cardinality(P)
        /\ order \in Seq(P) /\ Len(order) = Cardinality(P)
        /\ \A j \in 1 .. Cardinality(P) : order[j] \in P
        /\ \A k \in P : \E j \in 1 .. Cardinality(P) : order[j] = k
    BY <2>1, <2>2, OrderFacts
  <2>4. order \in Seq(Key)
    BY <2>1, <2>3
  <2> QED BY <2>3, <2>4 DEF P
<1>3. /\ copy \in Seq(ItemType) /\ copy # <<>>
      /\ \A j \in DOMAIN copy : copy[j].op = IF j < Len(copy) THEN "rep" ELSE "end"
      /\ \A j \in DOMAIN order : Contains(copy, Item("rep", order[j]))
  BY <1>2, CopyIs
<1>4. t = replication_marugoto(a)
  OBVIOUS
<1>5. a = [s EXCEPT !.link = "linked", !.copy = copy]
  OBVIOUS
<1> HIDE DEF copy, a
<1>6. /\ a \in Process /\ a.link = "linked" /\ a.copy = copy /\ a.up = s.up /\ a.started = s.started
      /\ a.exit = s.exit /\ a.sending = s.sending /\ a.pipe = s.pipe /\ a.wbuf = s.wbuf
      /\ a.count = s.count /\ a.free = s.free /\ SameItems(s, a)
  BY <1>1, <1>3, <1>5 DEF Process, SameItems
<1>7. Account(a) /\ CopyShape(a)
  BY <1>1, <1>3, <1>6 DEF Account, CopyShape
<1>8. a.free > 0 \/ a.count < QMax
  <2>1. a.count = a.free + 0 /\ a.free \in 0 .. QMax /\ QMax \in Nat /\ QMax > 1
    BY <1>1, <1>6, OutstandingNone, ProcessFacts, ReplicationAssumption DEF ReplicationAssumption
  <2> QED BY <2>1
<1>9. a.pipe = <<>> /\ a.wbuf = <<>> /\ a.copy # <<>> /\ a.up /\ a.started /\ ~a.exit /\ ~a.sending
  BY <1>1, <1>3, <1>6
<1>10. /\ Sound(t) /\ CopyOf(t) /\ t.up /\ t.started /\ t.link = "linked"
       /\ CopyingOf(t, <<>>)
  BY <1>4, <1>6, <1>7, <1>8, <1>9, CopyStarts
<1>17. ASSUME NEW b, \A k \in Key : b[k] = None PROVE SourceOf(t, <<>>, b, {}, {}, {})
  <2>1. \A k \in Present(s) : Contains(a.copy, Item("rep", k))
    BY <1>2, <1>3, <1>6
  <2>2. a.pipe = <<>> /\ a.wbuf = <<>> /\ a.copy # <<>>
    BY <1>1, <1>3, <1>6
  <2>3. SourceOf(a, <<>>, b, {}, {}, {})
    BY <1>6, <1>17, <2>1, <2>2, AcceptsSource
  <2> QED BY <1>4, <1>7, <1>8, <2>2, <2>3, SourceMarugoto
<1> QED BY <1>10, <1>17

\* What connected has nothing yet.
LEMMA JoinsDoes ==
  ASSUME NEW d, Sound(d), d.link = "connecting", faults \in 0 .. MaxFaults, NEW u, u = [d EXCEPT !.link = "linked"]
  PROVE  /\ Sound(u) /\ CopyOf(u) /\ u.up /\ ~u.started /\ u.link = "linked"
         /\ SinkOf(u, <<>>, {}) /\ \A k \in Key : Visible(u)[k] = None
<1> DEFINE no == <<>>
           e == [Down EXCEPT !.up = TRUE, !.link = "connecting"]
<1>1. d \in Process /\ d = e
  BY DEF Sound
<1>2. e = [Down EXCEPT !.up = TRUE, !.link = "connecting"]
  OBVIOUS
<1>3. /\ no \in Seq(ItemType) /\ no \in Seq(MessageType) /\ no \in Seq(Sent) /\ Len(no) = 0 /\ DOMAIN no = {}
      /\ [k \in Key |-> None] \in [Key -> {None} \cup Values] /\ 0 \in 0 .. QMax
  BY ReplicationAssumption DEF ReplicationAssumption
<1>4. Outstanding(no) = 0
  BY OutstandingNone
<1>5. /\ Down \in Process /\ Down.exit = FALSE /\ Down.sending = FALSE /\ Down.started = FALSE
      /\ Down.pipe = no /\ Down.wbuf = no /\ Down.copy = no /\ Down.count = 0 /\ Down.free = 0
      /\ \A k \in Key : Down.store[k] = None
  BY <1>3 DEF Down, Process
<1> HIDE DEF no, e
<1>6. /\ e \in Process /\ e.up = TRUE /\ e.exit = FALSE /\ e.sending = FALSE /\ e.started = FALSE
      /\ e.pipe = no /\ e.wbuf = no /\ e.copy = no /\ e.count = 0 /\ e.free = 0
      /\ \A k \in Key : e.store[k] = None
  BY <1>2, <1>5 DEF Process
<1>7. /\ u \in Process /\ u.up = TRUE /\ u.exit = FALSE /\ u.sending = FALSE /\ u.started = FALSE
      /\ u.link = "linked" /\ u.pipe = no /\ u.wbuf = no /\ u.copy = no /\ u.count = 0 /\ u.free = 0
      /\ \A k \in Key : u.store[k] = None
  BY <1>1, <1>6 DEF Process
<1>8. u.count = u.free + Outstanding(u.pipe)
  BY <1>4, <1>7
<1>9. Sound(u)
  <2>1. Account(u)
    BY <1>3, <1>4, <1>7, <1>8 DEF Account
  <2> QED BY <1>7, <2>1, SoundLinked
<1>10. CopyOf(u)
  BY <1>7, CopyOfNothing DEF CopyOf, no
<1>11. SinkOf(u, <<>>, {})
  <2>1. u.pipe = <<>> /\ u.copy = <<>> /\ u.wbuf = <<>>
    BY <1>7 DEF no
  <2>2. DOMAIN (<<>> \o u.wbuf) = {} /\ DOMAIN u.pipe = {}
    BY <2>1
  <2> QED BY <2>1, <2>2 DEF SinkOf
<1>12. \A k \in Key : Visible(u)[k] = None
  BY <1>7, VisibleIs
<1> QED BY <1>7, <1>9, <1>10, <1>11, <1>12

\* A connection is accepted, and the copy starts.
LEMMA AcceptKeeps ==
  ASSUME IInv, NEW n \in Node, Accept(n)
  PROVE  IInv'
<1>0. PICK p \in Node : p = Peer(n) /\ p # n /\ n = Peer(p) /\ \A l \in Node : l = n \/ l = p
  BY PeerFacts
<1> DEFINE s == node[n]
           u == [node[p] EXCEPT !.link = "linked"]
           A(order) == [s EXCEPT
                         !.link = "linked",
                         !.copy = [j \in DOMAIN order |-> Item("rep", order[j])] \o <<EndMark>>]
<1>1. /\ s.up /\ s.link = "none" /\ ~s.exit /\ node[p].up /\ node[p].link = "connecting"
      /\ chan' = [m \in Node |-> <<>>] /\ removed' = {} /\ flushed' = {}
      /\ UNCHANGED <<clientsAt, ops, faults>>
  BY <1>0 DEF Accept, Listens
<1>2. PICK order \in SetToSeqs(Present(s)) :
        node' = [node EXCEPT ![n] = replication_marugoto(A(order)), ![p].link = "linked"]
  BY <1>0 DEF Accept
<1> DEFINE t == replication_marugoto(A(order))
<1>3. /\ node \in [Node -> Process] /\ Sound(s) /\ Sound(node[p]) /\ clientsAt \in Node
      /\ ops \in 0 .. MaxOps /\ faults \in 0 .. MaxFaults
  BY IInvFacts
<1>4. /\ Sound(t) /\ CopyOf(t) /\ t.up /\ t.started /\ t.link = "linked"
      /\ \A b : (\A k \in Key : b[k] = None) => SourceOf(t, <<>>, b, {}, {}, {})
      /\ CopyingOf(t, <<>>)
  BY <1>1, <1>2, <1>3, AcceptsDoes
<1>5. /\ Sound(u) /\ CopyOf(u) /\ u.up /\ ~u.started /\ u.link = "linked"
      /\ SinkOf(u, <<>>, {}) /\ \A k \in Key : Visible(u)[k] = None
  <2> DEFINE d == node[p]
  <2>1. Sound(d) /\ d.link = "connecting" /\ u = [d EXCEPT !.link = "linked"]
    BY <1>1, <1>3
  <2> HIDE DEF u, d
  <2> QED BY <1>3, <2>1, JoinsDoes
<1>6. node' = [node EXCEPT ![n] = t, ![p].link = "linked"]
  BY <1>2
<1> HIDE DEF t
<1>7. node' = [node EXCEPT ![n] = t, ![p] = u]
  BY <1>0, <1>3, <1>6
<1> HIDE DEF u, s
<1>8. t \in Process /\ u \in Process
  BY <1>4, <1>5 DEF Sound
<1>9. node' \in [Node -> Process] /\ node'[n] = t /\ node'[p] = u
  BY <1>0, <1>3, <1>7, <1>8
<1>10. \A m \in Node : Sound(node[m])' /\ CopyOf(node[m])'
  BY <1>0, <1>1, <1>4, <1>5, <1>9 DEF CopyOf
<1>11. <<>> \in Seq(Sent) /\ Len(<<>>) = 0 /\ Window \in Nat
  BY ReplicationAssumption DEF ReplicationAssumption
<1>12. /\ chan' \in [Node -> Seq(Sent)] /\ \A m \in Node : chan'[m] = <<>> /\ Len(chan'[m]) <= Window
  BY <1>1, <1>11
<1>13. SourceOf(t, <<>>, Visible(u), {}, {}, {})
  BY <1>4, <1>5
<1>14. Source(n)' /\ Sink(p)' /\ Copying(n)'
  BY <1>0, <1>1, <1>4, <1>5, <1>9, <1>12, <1>13 DEF Source, Sink, Copying
<1>15. InStep'
  <2>1. CASE clientsAt = n
    BY <1>0, <1>1, <1>4, <1>9, <1>14, <2>1 DEF InStep
  <2>2. CASE clientsAt = p
    BY <1>0, <1>1, <1>5, <1>9, <1>14, <2>2 DEF InStep
  <2> QED BY <1>0, <1>3, <2>1, <2>2
<1>16. clientsAt' \in Node /\ ops' \in 0 .. MaxOps /\ faults' \in 0 .. MaxFaults
  BY <1>1, <1>3
<1>17. removed' \subseteq Key /\ flushed' \subseteq removed'
  BY <1>1
<1> QED BY <1>9, <1>10, <1>12, <1>15, <1>16, <1>17, Wrapped

\* The server that the clients turn to was sent what theirs had: it followed, or theirs
\* never served.
LEMMA FailoverKeeps ==
  ASSUME IInv, Failover
  PROVE  IInv'
<1>0. PICK m \in Node, q \in Node : m = clientsAt /\ q = Peer(m) /\ m = Peer(q) /\ q # m
  BY IInvFacts, PeerFacts
<1>1. /\ ~node[m].started \/ node[m].exit
      /\ node[q].started /\ ~node[q].exit /\ clientsAt' = q
      /\ UNCHANGED <<node, chan, ops, faults, removed, flushed>>
  BY <1>0 DEF Failover
<1>2. InStep'
  <2> SUFFICES ASSUME Linked(q), Linked(m), ~node[m].exit
               PROVE  Source(q)' /\ Sink(m)'
    BY <1>0, <1>1 DEF InStep, Linked
  <2>1. ~node[m].started
    BY <1>1
  <2>2. Source(q) /\ Sink(m)
    BY <1>0, <1>1, <2>1 DEF IInv, InStep
  <2>3. SourceOf(node[q], chan[q], Visible(node[m]), removed, flushed, {})
    BY <1>0, <2>2 DEF Source
  <2>4. Source(q)'
    BY <1>0, <1>1, <2>3 DEF Source
  <2>5. Sink(m)'
    BY <1>1, <2>2 DEF Sink
  <2> QED BY <2>4, <2>5
<1>3. /\ node' \in [Node -> Process] /\ \A n \in Node : Sound(node[n])' /\ CopyOf(node[n])'
      /\ chan' \in [Node -> Seq(Sent)] /\ (\A n \in Node : Len(chan'[n]) <= Window)
      /\ clientsAt' \in Node /\ ops' \in 0 .. MaxOps /\ faults' \in 0 .. MaxFaults
      /\ removed' \subseteq Key /\ flushed' \subseteq removed'
  BY <1>0, <1>1, IInvFacts DEF CopyOf
<1> QED BY <1>2, <1>3, Wrapped

\* No step at all.
LEMMA StutterKeeps ==
  ASSUME IInv, UNCHANGED vars
  PROVE  IInv'
<1>1. TypeOK' /\ chan' \in [Node -> Seq(Sent)]
  BY DEF IInv, TypeOK, vars
<1>2. \A n \in Node : Sound(node[n])' /\ CopyOf(node[n])'
  BY DEF IInv, CopyOf, vars
<1>3. InStep'
  BY DEF IInv, InStep, Linked, Source, Sink, Copying, vars
<1> QED BY <1>1, <1>2, <1>3 DEF IInv

\* Two processes that start.
LEMMA InitIsSound ==
  ASSUME Init
  PROVE  IInv
<1> USE DEF Init
<1>0. PICK m \in Node, q \in Node : m = clientsAt /\ q = Peer(m) /\ q # m
  BY PeerFacts
<1> HIDE DEF Init
<1>10. faults \in 0 .. MaxFaults
  BY ReplicationAssumption DEF Init, ReplicationAssumption
<1>1. Sound(Down) /\ CopyOf(Down) /\ ~Down.up /\ Down \in Process
  BY <1>10, DownIsSound DEF Sound
<1> USE DEF Init
<1>2. Sound(Alone) /\ CopyOf(Alone)
  <2> DEFINE no == <<>>
             a == Alone
  <2>1. no \in Seq(Sent) /\ Outstanding(no) = 0
    BY OutstandingNone
  <2>2. /\ Down.pipe = no /\ Down.wbuf = no /\ Down.copy = no /\ Down.count = 0 /\ Down.free = 0
        /\ Down.exit = FALSE /\ Down.sending = FALSE /\ Down.link = "none"
    BY DEF Down
  <2>3. a = [Down EXCEPT !.up = TRUE, !.started = TRUE]
    BY DEF Alone
  <2> HIDE DEF no, a
  <2>4. /\ a \in Process /\ a.pipe = no /\ a.wbuf = no /\ a.copy = no /\ a.count = 0 /\ a.free = 0
        /\ a.up = TRUE /\ a.started = TRUE /\ a.exit = FALSE /\ a.sending = FALSE /\ a.link = "none"
    BY <1>1, <2>2, <2>3 DEF Process
  <2>5. Account(a)
    BY <2>1, <2>4 DEF Account
  <2> QED BY <1>10, <2>4, <2>5, SoundUnlinked DEF a, no
<1>3. Alone \in Process
  BY <1>2 DEF Sound
<1>4. node \in [Node -> Process] /\ node[m] = Alone /\ node[q] = Down
  BY <1>0, <1>1, <1>3
<1>5. \A n \in Node : Sound(node[n]) /\ CopyOf(node[n])
  BY <1>1, <1>2
<1>6. <<>> \in Seq(Sent) /\ <<>> \in Seq(MessageType) /\ Len(<<>>) = 0 /\ Window \in Nat
  BY ReplicationAssumption DEF ReplicationAssumption
<1>7. chan \in [Node -> Seq(Sent)] /\ chan \in [Node -> {c \in Seq(MessageType) : Len(c) <= Window}]
  BY <1>6
<1>8. TypeOK
  BY <1>4, <1>7, ReplicationAssumption DEF TypeOK, ReplicationAssumption
<1>9. InStep
  BY <1>0, <1>1, <1>4 DEF InStep, Linked
<1> QED BY <1>5, <1>7, <1>8, <1>9 DEF IInv

\* No step breaks the inductive invariant.
LEMMA StepKeeps ==
  ASSUME IInv, [Next]_vars
  PROVE  IInv'
<1>1. ASSUME NEW n \in Node, NEW k \in Key, Set(n, k) \/ Get(n, k) \/ Delete(n, k) \/ Evict(n, k)
      PROVE  IInv'
  BY <1>1, SetKeeps, GetKeeps, DeleteKeeps, EvictKeeps
<1>2. ASSUME NEW n \in Node, FlushAll(n) \/ PipeReadable(n) \/ Exit(n) \/ Send(n) \/ Receive(n)
      PROVE  IInv'
  BY <1>2, FlushAllKeeps, PipeReadableKeeps, ExitKeeps, SendKeeps, ReceiveKeeps
<1>3. ASSUME NEW n \in Node, SendFails(n) \/ SeeClose(n) \/ Refused(n)
      PROVE  IInv'
  BY <1>3, CloseKeeps
<1>4. ASSUME NEW n \in Node, Start(n) \/ Accept(n) \/ Crash(n) \/ Terminate(n)
      PROVE  IInv'
  BY <1>4, StartKeeps, AcceptKeeps, CrashKeeps, TerminateKeeps
<1> QED BY <1>1, <1>2, <1>3, <1>4, FailoverKeeps, StutterKeeps DEF Next

-------------------------------------------------------------------------------
(* What the invariant implies, and the theorems *)

\* The invariant is inductive.
LEMMA AlwaysIInv == Spec => []IInv
BY InitIsSound, StepKeeps, PTL DEF Spec

\* The server that the clients use tells its peer what SourceOf says.
LEMMA ReplicatesToPeer ==
  ASSUME IInv, NEW n \in Node, Replicates(n)
  PROVE  Source(n)
BY DEF IInv, InStep, Replicates

\* The variables of two servers, their queues, what the kernel holds between them and
\* the history have their types, whatever commands, crashes and signals there were
\* (memcached.h's conn and memcached.c's rep_* variables).
THEOREM TypeCorrect == Spec => []TypeOK
<1>1. IInv => TypeOK
  BY DEF IInv
<1> QED BY <1>1, AlwaysIInv, PTL

\* qi_new, qi_free, replication_pop and replication_close keep account of the queue: an
\* item is in the free list or in the pipe, so a queue is never full of items lost.
THEOREM QueueAccounted == Spec => []QueueConserved
<1>1. IInv => QueueConserved
  BY DEF IInv, QueueConserved, Sound
<1> QED BY <1>1, AlwaysIInv, PTL

\* When the changes of a key are commands, their last word at the peer is the value here
\* or none: replication_pop reads the values when it makes the commands, so no order in
\* which it takes a batch leaves an older value at the backup.
THEOREM BackupNeverStale == Spec => []NoStaleBackup
<1>1. IInv => NoStaleBackup
  <2> SUFFICES ASSUME IInv, NEW n \in Node, NEW k \in Key,
                      Replicates(n), ~IsQueued(n, k), k \notin flushed
               PROVE  Delivered(n, k) \in {None, Visible(node[n])[k]}
    BY DEF NoStaleBackup
  <2>1. SourceOf(node[n], chan[n], Visible(node[Peer(n)]), removed, flushed, {})
    BY ReplicatesToPeer DEF Source
  <2>2. k \in Key \ {} /\ ~Asked(node[n], k)
    BY DEF Asked, IsQueued
  <2>3. Delivered(n, k) = Final(chan[n] \o node[n].wbuf, Visible(node[Peer(n)])[k], k)
    BY DeliveredIsFinal
  <2> QED BY <2>1, <2>2, <2>3 DEF SourceOf
<1> QED BY <1>1, AlwaysIInv, PTL

\* A key that was not deleted, evicted nor flushed since the link was made is on its way
\* to the peer as it is here, or it is queued, or the copy has still to come to it
\* (replication_marugoto): neither the limit of the queue nor an exit lets it slip.
THEOREM BackupAlwaysFollows == Spec => []BackupFollows
<1>1. IInv => BackupFollows
  <2> SUFFICES ASSUME IInv, NEW n \in Node, NEW k \in Key,
                      Replicates(n), ~IsQueued(n, k), ~Contains(node[n].copy, Item("rep", k)), k \notin removed
               PROVE  Delivered(n, k) = Visible(node[n])[k]
    BY DEF BackupFollows
  <2>1. SourceOf(node[n], chan[n], Visible(node[Peer(n)]), removed, flushed, {})
    BY ReplicatesToPeer DEF Source
  <2>2. k \in Key \ {} /\ ~Asked(node[n], k)
    BY DEF Asked, IsQueued
  <2>3. Delivered(n, k) = Final(chan[n] \o node[n].wbuf, Visible(node[Peer(n)])[k], k)
    BY DeliveredIsFinal
  <2> QED BY <2>1, <2>2, <2>3 DEF SourceOf
<1> QED BY <1>1, AlwaysIInv, PTL

\* A read after which a process ends finds no change in the queue, and no copy.
LEMMA FinishedHasTold ==
  ASSUME NEW s, Sound(s), CopyOf(s), Finished(s)
  PROVE  s.copy = <<>> /\ \A k \in Key : ~Asked(s, k)
<1> DEFINE u == Commanded(s)
           w == s.wbuf
           n == ReadLen(s)
<1>1. Account(s) /\ s \in Process /\ w \in Seq(Sent) /\ s.pipe \in Seq(ItemType)
  BY ProcessFacts DEF Sound, Account
<1>2. Taken(s).wbuf = w \o u /\ Taken(s).wbuf = <<>>
  BY <1>1, TakenDoes DEF Finished
<1>3. MadeOf(s, n, u)
  BY <1>1, CommandedDoes
<1> HIDE DEF u, w, n
<1>4. u \in Seq(Sent)
  BY <1>3 DEF MadeOf
<1>5. Len(w \o u) = 0 /\ Len(w \o u) = Len(w) + Len(u) /\ Len(w) \in Nat /\ Len(u) \in Nat
  <2>1. w \o u = <<>>
    BY <1>2
  <2>2. Len(w \o u) = 0
    BY <2>1
  <2>3. Len(w \o u) = Len(w) + Len(u) /\ Len(w) \in Nat /\ Len(u) \in Nat
    BY <1>1, <1>4
  <2> QED BY <2>2, <2>3
<1>6. Len(u) = 0
  BY <1>5
<1>7. \A j \in 1 .. n : s.pipe[j] = ExitMark
  BY <1>3, <1>6 DEF MadeOf
<1>8. s.copy = <<>> /\ \A j \in 1 .. Len(s.pipe) : s.pipe[j] = ExitMark
  BY <1>1, <1>7, NoCopyBehindMarks DEF n
<1>9. DOMAIN s.pipe = 1 .. Len(s.pipe)
  BY <1>1
<1> QED BY <1>8, <1>9, KeyIsNoMark DEF Asked

\* A process that ends on SIGTERM has written every change to its peer: replication_pop
\* exits only when nothing is queued behind the null pointer of sig_handler and wbuf is
\* empty, and a copy under way is finished first.
THEOREM ExitTakesAllAlong == Spec => ExitLosesNothing
<1>1. ASSUME IInv, NEW n \in Node, Exit(n), Replicates(n), NEW k \in Key \ removed
      PROVE  Delivered(n, k) = Visible(node[n])[k]
  <2>1. SourceOf(node[n], chan[n], Visible(node[Peer(n)]), removed, flushed, {})
    BY <1>1, ReplicatesToPeer DEF Source
  <2>2. Sound(node[n]) /\ CopyOf(node[n]) /\ Finished(node[n])
    BY <1>1, IInvFacts DEF Exit
  <2>3. node[n].copy = <<>> /\ ~Asked(node[n], k)
    BY <2>2, FinishedHasTold
  <2>4. ~Contains(node[n].copy, Item("rep", k)) /\ k \in Key \ {} /\ k \notin removed
    BY <2>3 DEF Contains
  <2>5. Delivered(n, k) = Final(chan[n] \o node[n].wbuf, Visible(node[Peer(n)])[k], k)
    BY DeliveredIsFinal
  <2> QED BY <2>1, <2>3, <2>4, <2>5 DEF SourceOf
<1>2. IInv /\ [Next]_vars =>
        [\A n \in Node :
           Exit(n) /\ Replicates(n)
             => \A k \in Key \ removed : Delivered(n, k) = Visible(node[n])[k]]_vars
  BY <1>1
<1> QED BY <1>2, AlwaysIInv, PTL DEF Spec, ExitLosesNothing
================================================================================
