--------------------------- MODULE EventLoopProofs ---------------------------
(***************************************************************************)
(* For every program, priority, timeout and signal: the queues and counts  *)
(* of the loop agree, it never waits for what cannot come, and a deleted   *)
(* event is not called.                                                    *)
(***************************************************************************)
EXTENDS EventLoop, FiniteSetTheorems, SequenceTheorems, TLAPS

\* The lists an event may be on.
Fit(e) == {"timeout", "active", Waits(e)}

\* Whoever waits for a signal is woken by the socket pair.
Fits(b) ==
  /\ \A e \in All : b.flags[e] \subseteq Fit(e)
  /\ \A e \in Signals : "signal" \in b.flags[e] => "inserted" \in b.flags[ev_signal]

Exact(b) == b \in Base /\ Fits(b) /\ QueuesExact(b) /\ CountsExact(b)

\* What a step in a callback may do to the calls still to be made of the running one.
Calmer(b, c) == c.ncalls = b.ncalls /\ c.pncalls = b.pncalls /\ c.calls \in {0, b.calls}

-----------------------------------------------------------------------------
(* Sequences *)

\* A sequence without its i-th element.
LEMMA CutOut ==
  ASSUME NEW S, NEW q \in Seq(S), NEW i \in 1 .. Len(q)
  PROVE  LET r == SubSeq(q, 1, i - 1) \o SubSeq(q, i + 1, Len(q)) IN
         /\ r \in Seq(S) /\ Len(r) = Len(q) - 1
         /\ \A k \in 1 .. Len(q) - 1 : r[k] = IF k < i THEN q[k] ELSE q[k + 1]
<1> DEFINE n == Len(q)
           a == SubSeq(q, 1, i - 1)
           d == SubSeq(q, i + 1, n)
           r == a \o d
<1>1. /\ n \in Nat /\ i \in Int /\ 1 <= i /\ i <= n /\ \A k \in 1 .. n : q[k] \in S
  OBVIOUS
<1>2. /\ a \in Seq(S)
      /\ Len(a) = IF 1 <= i - 1 THEN (i - 1) - 1 + 1 ELSE 0
      /\ \A k \in 1 .. (i - 1) - 1 + 1 : a[k] = q[1 + k - 1]
  <2>1. 1 \in Int /\ i - 1 \in Int /\ \A k \in 1 .. i - 1 : q[k] \in S
    BY <1>1
  <2> QED BY ONLY <2>1, SubSeqProperties DEF a
<1>3. /\ d \in Seq(S)
      /\ Len(d) = IF i + 1 <= n THEN n - (i + 1) + 1 ELSE 0
      /\ \A k \in 1 .. n - (i + 1) + 1 : d[k] = q[(i + 1) + k - 1]
  <2>1. i + 1 \in Int /\ n \in Int /\ \A k \in i + 1 .. n : q[k] \in S
    BY <1>1
  <2> QED BY ONLY <2>1, SubSeqProperties DEF d
<1> HIDE DEF n, a, d
<1>4. Len(a) = i - 1 /\ Len(d) = n - i
  BY ONLY <1>1, <1>2, <1>3
<1>5. /\ r \in Seq(S) /\ Len(r) = Len(a) + Len(d)
      /\ \A k \in 1 .. Len(a) + Len(d) : r[k] = IF k <= Len(a) THEN a[k] ELSE d[k - Len(a)]
  BY ONLY <1>2, <1>3, ConcatProperties DEF r
<1> HIDE DEF r
<1>6. Len(r) = n - 1
  BY ONLY <1>1, <1>4, <1>5
<1>7. ASSUME NEW k \in 1 .. n - 1 PROVE r[k] = IF k < i THEN q[k] ELSE q[k + 1]
  <2>1. k \in Int /\ 1 <= k /\ k <= n - 1 /\ k \in 1 .. Len(a) + Len(d)
    BY ONLY <1>1, <1>4, k \in 1 .. n - 1
  <2>2. CASE k < i
    <3>1. k <= Len(a) /\ k \in 1 .. (i - 1) - 1 + 1 /\ 1 + k - 1 = k
      BY ONLY <1>1, <1>4, <2>1, <2>2
    <3>2. r[k] = a[k] /\ a[k] = q[1 + k - 1]
      BY ONLY <1>2, <1>5, <2>1, <3>1
    <3> QED BY ONLY <2>2, <3>1, <3>2
  <2>3. CASE ~(k < i)
    <3>1. /\ ~(k <= Len(a)) /\ k - Len(a) \in 1 .. n - (i + 1) + 1
          /\ (i + 1) + (k - Len(a)) - 1 = k + 1
      BY ONLY <1>1, <1>4, <2>1, <2>3
    <3>2. r[k] = d[k - Len(a)] /\ d[k - Len(a)] = q[(i + 1) + (k - Len(a)) - 1]
      BY ONLY <1>3, <1>5, <2>1, <3>1
    <3> QED BY ONLY <2>3, <3>1, <3>2
  <2> QED BY ONLY <2>2, <2>3
<1> QED BY ONLY <1>5, <1>6, <1>7 DEF n, a, d, r

\* Without takes one occurrence out.
LEMMA WithoutOne ==
  ASSUME NEW S, NEW q \in Seq(S), NEW e,
         \E j \in DOMAIN q : q[j] = e,
         \A j, k \in DOMAIN q : q[j] = q[k] => j = k
  PROVE  LET r == Without(q, e) IN
         /\ r \in Seq(S)
         /\ \A j, k \in DOMAIN r : r[j] = r[k] => j = k
         /\ \A x : (\E j \in DOMAIN r : r[j] = x) <=> x # e /\ \E j \in DOMAIN q : q[j] = x
<1> DEFINE h == CHOOSE j \in DOMAIN q : q[j] = e
<1>0. PICK i \in 1 .. Len(q) : i = h /\ q[i] = e
  <2>1. h \in DOMAIN q /\ q[h] = e
    OBVIOUS
  <2> QED BY <2>1
<1> DEFINE r == SubSeq(q, 1, i - 1) \o SubSeq(q, i + 1, Len(q))
<1>1. i \in 1 .. Len(q) /\ q[i] = e
  BY <1>0
<1>2. Without(q, e) = r
  BY <1>0 DEF Without
<1> HIDE DEF h
<1>a. /\ r \in Seq(S) /\ Len(r) = Len(q) - 1
      /\ \A k \in 1 .. Len(q) - 1 : r[k] = IF k < i THEN q[k] ELSE q[k + 1]
  BY CutOut
<1> HIDE DEF r
<1>3. /\ r \in Seq(S) /\ Len(r) = Len(q) - 1
      /\ DOMAIN r = 1 .. Len(q) - 1
      /\ \A k \in 1 .. Len(q) - 1 : r[k] = IF k < i THEN q[k] ELSE q[k + 1]
  BY <1>a
<1>4. ASSUME NEW j \in DOMAIN r, NEW k \in DOMAIN r, r[j] = r[k]
      PROVE  j = k
  <2>1. j \in 1 .. Len(q) - 1 /\ k \in 1 .. Len(q) - 1
    BY <1>3
  <2>2. CASE j < i /\ k < i
    BY <1>1, <1>3, <1>4, <2>1, <2>2
  <2>3. CASE j < i /\ k >= i
    <3>0. r[j] = q[j]
      BY <1>1, <1>3, <2>1, <2>3
    <3>a. r[k] = q[k + 1]
      BY <1>1, <1>3, <2>1, <2>3
    <3>b. k + 1 \in DOMAIN q /\ j \in DOMAIN q
      BY <1>1, <2>1, <2>3
    <3>1. q[j] = q[k + 1] /\ k + 1 \in DOMAIN q /\ j \in DOMAIN q
      BY <1>4, <3>0, <3>a, <3>b
    <3> QED BY <1>1, <2>1, <2>3, <3>1
  <2>4. CASE j >= i /\ k < i
    <3>1. q[k] = q[j + 1] /\ j + 1 \in DOMAIN q /\ k \in DOMAIN q
      BY <1>1, <1>3, <1>4, <2>1, <2>4
    <3> QED BY <1>1, <2>1, <2>4, <3>1
  <2>5. CASE j >= i /\ k >= i
    <3>1. q[j + 1] = q[k + 1] /\ j + 1 \in DOMAIN q /\ k + 1 \in DOMAIN q
      BY <1>1, <1>3, <1>4, <2>1, <2>5
    <3>2. j + 1 = k + 1
      BY <3>1
    <3> QED BY <2>1, <3>2
  <2> QED BY <1>1, <2>1, <2>2, <2>3, <2>4, <2>5
<1>5. ASSUME NEW x, x # e, NEW j \in DOMAIN q, q[j] = x
      PROVE  \E k \in DOMAIN r : r[k] = x
  <2>1. CASE j < i
    BY <1>1, <1>3, <1>5, <2>1
  <2>2. CASE j > i
    <3>1. j - 1 \in DOMAIN r /\ r[j - 1] = x
      BY <1>1, <1>3, <1>5, <2>2
    <3> QED BY <3>1
  <2> QED BY <1>1, <1>5, <2>1, <2>2
<1>6. ASSUME NEW k \in DOMAIN r
      PROVE  r[k] # e /\ \E j \in DOMAIN q : q[j] = r[k]
  <2>1. k \in 1 .. Len(q) - 1
    BY <1>3
  <2>2. CASE k < i
    BY <1>1, <1>3, <2>1, <2>2
  <2>3. CASE k >= i
    <3>1. r[k] = q[k + 1] /\ k + 1 \in DOMAIN q
      BY <1>1, <1>3, <2>1, <2>3
    <3> QED BY <1>1, <2>1, <2>3, <3>1
  <2> QED BY <1>1, <2>1, <2>2, <2>3
<1>7. \A x : (\E j \in DOMAIN r : r[j] = x) <=> x # e /\ \E j \in DOMAIN q : q[j] = x
  BY <1>5, <1>6
<1> QED BY <1>2, <1>3, <1>4, <1>7

\* Append puts one at the end.
LEMMA AppendOne ==
  ASSUME NEW S, NEW q \in Seq(S), NEW e \in S,
         ~\E j \in DOMAIN q : q[j] = e,
         \A j, k \in DOMAIN q : q[j] = q[k] => j = k
  PROVE  LET r == Append(q, e) IN
         /\ r \in Seq(S)
         /\ \A j, k \in DOMAIN r : r[j] = r[k] => j = k
         /\ \A x : (\E j \in DOMAIN r : r[j] = x) <=> x = e \/ \E j \in DOMAIN q : q[j] = x
<1> DEFINE r == Append(q, e)
<1>1. /\ r \in Seq(S) /\ Len(r) = Len(q) + 1 /\ r[Len(r)] = e
      /\ \A k \in 1 .. Len(q) : r[k] = q[k]
  OBVIOUS
<1> HIDE DEF r
<1>2. \A j, k \in DOMAIN r : r[j] = r[k] => j = k
  BY <1>1
<1>3. ASSUME NEW x
      PROVE  (\E j \in DOMAIN r : r[j] = x) <=> x = e \/ \E j \in DOMAIN q : q[j] = x
  BY <1>1
<1> QED BY <1>1, <1>2, <1>3 DEF r

-----------------------------------------------------------------------------
(* The queues *)

USE EventLoopAssumption DEF EventLoopAssumption

\* The sets that are counted are finite.
LEMMA Finite ==
  ASSUME NEW b \in Base
  PROVE  IsFiniteSet(OnLists(b)) /\ IsFiniteSet(ActiveOnes(b))
<1>1. IsFiniteSet(All)
  BY FS_AddElement DEF All
<1>2. IsFiniteSet(Lists)
  <2>1. IsFiniteSet({"timeout"}) /\ IsFiniteSet({"timeout"} \cup {"inserted"})
    BY FS_Singleton, FS_AddElement
  <2>2. IsFiniteSet(({"timeout"} \cup {"inserted"}) \cup {"signal"})
    BY <2>1, FS_AddElement
  <2>3. IsFiniteSet((({"timeout"} \cup {"inserted"}) \cup {"signal"}) \cup {"active"})
    BY <2>2, FS_AddElement
  <2>4. Lists = (({"timeout"} \cup {"inserted"}) \cup {"signal"}) \cup {"active"}
    BY DEF Lists
  <2> QED BY <2>3, <2>4
<1>3. IsFiniteSet(Event \X Lists)
  BY <1>2, FS_Product
<1> QED BY <1>1, <1>3, FS_Subset DEF OnLists, ActiveOnes

\* Changes of single fields keep the type.
LEMMA FlagsTyped ==
  ASSUME NEW b \in Base, NEW F \in [All -> SUBSET Lists], NEW n \in Int
  PROVE  [b EXCEPT !.flags = F, !.event_count = n] \in Base
  BY DEF Base

LEMMA QueuesTyped ==
  ASSUME NEW b \in Base, NEW Q \in [0 .. NQueues - 1 -> Seq(All)], NEW n \in Int
  PROVE  [b EXCEPT !.event_count_active = n, !.activequeues = Q] \in Base
  BY DEF Base

LEMMA TimesTyped ==
  ASSUME NEW b \in Base, NEW T \in [All -> Int]
  PROVE  [b EXCEPT !.timeout = T] \in Base
  BY DEF Base

\* Whether an event is active is one of its flags.
LEMMA SameActive ==
  ASSUME NEW b, NEW c, NEW e \in All, NEW list, list # "active",
         \/ c.flags[e] = b.flags[e] \cup {list} \/ c.flags[e] = b.flags[e] \ {list},
         \A x \in All \ {e} : c.flags[x] = b.flags[x]
  PROVE  ActiveOnes(c) = ActiveOnes(b)
<1>1. \A x \in All : "active" \in c.flags[x] <=> "active" \in b.flags[x]
  OBVIOUS
<1> QED BY <1>1 DEF ActiveOnes

LEMMA InsertExact ==
  ASSUME NEW b, Exact(b), NEW e \in All, NEW list \in Fit(e), list \notin b.flags[e],
         list = "signal" => "inserted" \in b.flags[ev_signal]
  PROVE  LET c == event_queue_insert(b, e, list) IN
         /\ Exact(c) /\ Calmer(b, c) /\ c.calls = b.calls
         /\ c.flags = [b.flags EXCEPT ![e] = @ \cup {list}]
<1> DEFINE c == event_queue_insert(b, e, list)
<1>0. b \in Base /\ list \in Lists /\ Priority(e) \in 0 .. NQueues - 1
  BY DEF Exact, Fit, Waits, Lists, Priority, All
<1>1. /\ c.flags = [b.flags EXCEPT ![e] = @ \cup {list}]
      /\ c.event_count = b.event_count + Counted(e)
      /\ c.event_count_active = b.event_count_active + (IF list = "active" THEN 1 ELSE 0)
      /\ c.activequeues = IF list = "active"
                          THEN Queued(b.activequeues, e)
                          ELSE b.activequeues
      /\ c.calls = b.calls /\ c.ncalls = b.ncalls /\ c.pncalls = b.pncalls
  BY <1>0 DEF event_queue_insert, Base
<1>g. /\ c.flags[e] = b.flags[e] \cup {list}
      /\ \A x \in All \ {e} : c.flags[x] = b.flags[x]
  <2>1. b.flags \in [All -> SUBSET Lists]
    BY <1>0 DEF Base
  <2>2. c.flags = [b.flags EXCEPT ![e] = @ \cup {list}]
    BY <1>1
  <2> HIDE DEF c
  <2> QED BY ONLY <2>1, <2>2, e \in All
<1>2. QueuesExact(c) /\ c.activequeues \in [0 .. NQueues - 1 -> Seq(All)]
  <2>1. CASE list # "active"
    <3>1. ActiveOnes(c) = ActiveOnes(b)
      BY <1>g, <2>1, SameActive
    <3>2. c.activequeues = b.activequeues /\ b.activequeues \in [0 .. NQueues - 1 -> Seq(All)]
      BY <1>0, <1>1, <2>1 DEF Base
    <3>3. QueuesExact(b)
      BY DEF Exact
    <3> QED BY <3>1, <3>2, <3>3 DEF QueuesExact
  <2>2. CASE list = "active"
    <3>1. ActiveOnes(c) = ActiveOnes(b) \cup {e}
      BY <1>g, <2>2 DEF ActiveOnes
    <3>2. e \notin ActiveOnes(b)
      BY <2>2 DEF ActiveOnes
    <3> DEFINE p == Priority(e)
               q == b.activequeues[p]
               r == Append(q, e)
    <3>3. q \in Seq(All) /\ ~\E j \in DOMAIN q : q[j] = e
      BY <1>0, <3>2 DEF Exact, QueuesExact, Base
    <3>4. \A j, k \in DOMAIN q : q[j] = q[k] => j = k
      BY <1>0 DEF Exact, QueuesExact
    <3> HIDE DEF p, q
    <3>5. /\ r \in Seq(All)
          /\ \A j, k \in DOMAIN r : r[j] = r[k] => j = k
          /\ \A x : (\E j \in DOMAIN r : r[j] = x) <=> x = e \/ \E j \in DOMAIN q : q[j] = x
      BY <3>3, <3>4, AppendOne
    <3>6. /\ c.activequeues[p] = r
          /\ \A i \in 0 .. NQueues - 1 : i # p => c.activequeues[i] = b.activequeues[i]
          /\ c.activequeues \in [0 .. NQueues - 1 -> Seq(All)]
      <4>1. b.activequeues \in [0 .. NQueues - 1 -> Seq(All)] /\ p \in 0 .. NQueues - 1
        BY <1>0 DEF Base, p
      <4>2. c.activequeues = Queued(b.activequeues, e)
        BY <1>1, <2>2
      <4>3. c.activequeues = [b.activequeues EXCEPT ![p] = r]
        BY <4>2 DEF Queued, p, q
      <4> HIDE DEF c, r
      <4>a. \A i \in 0 .. NQueues - 1 : i # p => c.activequeues[i] = b.activequeues[i]
        BY ONLY <4>1, <4>3
      <4>b. c.activequeues[p] = r
        BY ONLY <4>1, <4>3
      <4>c. c.activequeues \in [0 .. NQueues - 1 -> Seq(All)]
        <5> DEFINE Q == Seq(All)
        <5>1. r \in Q /\ b.activequeues \in [0 .. NQueues - 1 -> Q]
          BY ONLY <3>5, <4>1
        <5> HIDE DEF Q
        <5>2. c.activequeues \in [0 .. NQueues - 1 -> Q]
          BY ONLY <4>1, <4>3, <5>1
        <5> QED BY ONLY <5>2 DEF Q
      <4> QED BY ONLY <4>a, <4>b, <4>c
    <3> HIDE DEF r, c
    <3>a. p = Priority(e) /\ p \in 0 .. NQueues - 1
      BY <1>0 DEF p
    <3>b. \A i \in 0 .. NQueues - 1 :
            /\ \A j, k \in DOMAIN b.activequeues[i] : b.activequeues[i][j] = b.activequeues[i][k] => j = k
            /\ \A x \in All : (\E j \in DOMAIN b.activequeues[i] : b.activequeues[i][j] = x)
                              <=> x \in ActiveOnes(b) /\ Priority(x) = i
      BY DEF Exact, QueuesExact
    <3> SUFFICES ASSUME NEW i \in 0 .. NQueues - 1
                 PROVE
                   /\ \A j, k \in DOMAIN c.activequeues[i] : c.activequeues[i][j] = c.activequeues[i][k] => j = k
                   /\ \A x \in All : (\E j \in DOMAIN c.activequeues[i] : c.activequeues[i][j] = x)
                                    <=> x \in ActiveOnes(c) /\ Priority(x) = i
      BY <3>6 DEF QueuesExact
    <3>7. CASE i = p
      <4>1. \A x \in All : (\E j \in DOMAIN q : q[j] = x) <=> x \in ActiveOnes(b) /\ Priority(x) = p
        BY <3>a, <3>b DEF q
      <4>2. \A x \in All : (\E j \in DOMAIN r : r[j] = x) <=> x \in ActiveOnes(c) /\ Priority(x) = p
        BY <3>1, <3>5, <3>a, <4>1
      <4> QED BY <3>5, <3>6, <3>7, <4>2
    <3>8. CASE i # p
      <4>1. c.activequeues[i] = b.activequeues[i]
        BY <3>6, <3>8
      <4>2. \A x \in All : x \in ActiveOnes(b) /\ Priority(x) = i <=> x \in ActiveOnes(c) /\ Priority(x) = i
        BY <3>1, <3>8, <3>a
      <4> QED BY <3>b, <4>1, <4>2
    <3> QED BY <3>7, <3>8
  <2> QED BY <2>1, <2>2
<1>3. c \in Base
  <2> DEFINE d == [b EXCEPT !.flags[e] = @ \cup {list}, !.event_count = @ + Counted(e)]
  <2>1. d \in Base
    <3> DEFINE F == [b.flags EXCEPT ![e] = @ \cup {list}]
    <3>1. F \in [All -> SUBSET Lists] /\ b.event_count + Counted(e) \in Int
      BY <1>0 DEF Base, Counted
    <3>2. d = [b EXCEPT !.flags = F, !.event_count = b.event_count + Counted(e)]
      OBVIOUS
    <3> QED BY <1>0, <3>1, <3>2, FlagsTyped
  <2>2. CASE list # "active"
    BY <2>1, <2>2 DEF event_queue_insert
  <2>3. CASE list = "active"
    <3>1. c.activequeues = Queued(d.activequeues, e)
      BY <1>0, <2>1, <2>3 DEF event_queue_insert, Base
    <3>2. Queued(d.activequeues, e) \in [0 .. NQueues - 1 -> Seq(All)]
      BY <1>2, <3>1
    <3>3. c = [d EXCEPT !.event_count_active = d.event_count_active + 1,
                       !.activequeues = Queued(d.activequeues, e)]
      BY <2>3 DEF event_queue_insert
    <3> HIDE DEF d, c
    <3>4. d.event_count_active + 1 \in Int
      BY <2>1 DEF Base
    <3> QED BY <2>1, <3>2, <3>3, <3>4, QueuesTyped
  <2> QED BY <2>2, <2>3
<1>4. c.event_count = Cardinality(OnLists(c))
  <2>1. CASE e = ev_signal
    <3>1. OnLists(c) = OnLists(b)
      <4>1. \A x \in Event : c.flags[x] = b.flags[x]
        BY <1>g, <2>1 DEF All
      <4> QED BY <4>1 DEF OnLists
    <3> QED BY <1>0, <1>1, <2>1, <3>1 DEF Counted, Exact, CountsExact, Base
  <2>2. CASE e # ev_signal
    <3>1. OnLists(c) = OnLists(b) \cup {<<e, list>>} /\ <<e, list>> \notin OnLists(b)
      <4>1. e \in Event /\ list \notin b.flags[e] /\ list \in c.flags[e]
        BY <1>g, <2>2 DEF All
      <4> HIDE DEF c
      <4>2. \A x \in Event, l \in Lists :
              l \in c.flags[x] <=> l \in b.flags[x] \/ (x = e /\ l = list)
        <5> SUFFICES ASSUME NEW x \in Event, NEW l \in Lists
                     PROVE  l \in c.flags[x] <=> l \in b.flags[x] \/ (x = e /\ l = list)
          OBVIOUS
        <5>1. CASE x = e
          BY <1>g, <5>1
        <5>2. CASE x # e
          BY <1>g, <5>2 DEF All
        <5> QED BY <5>1, <5>2
      <4> QED BY <1>0, <4>1, <4>2 DEF OnLists
    <3>2. Cardinality(OnLists(c)) = Cardinality(OnLists(b)) + 1
      BY <1>0, <3>1, Finite, FS_AddElement
    <3> QED BY <1>1, <2>2, <3>2 DEF Counted, Exact, CountsExact
  <2> QED BY <2>1, <2>2
<1>5. c.event_count_active = Cardinality(ActiveOnes(c))
  <2>1. CASE list # "active"
    <3>1. ActiveOnes(c) = ActiveOnes(b)
      BY <1>g, <2>1, SameActive
    <3> QED BY <1>0, <1>1, <2>1, <3>1 DEF Exact, CountsExact, Base
  <2>2. CASE list = "active"
    <3>1. ActiveOnes(c) = ActiveOnes(b) \cup {e} /\ e \notin ActiveOnes(b)
      BY <1>g, <2>2 DEF ActiveOnes
    <3>2. Cardinality(ActiveOnes(c)) = Cardinality(ActiveOnes(b)) + 1
      BY <1>0, <3>1, Finite, FS_AddElement
    <3> QED BY <1>1, <2>2, <3>2 DEF Exact, CountsExact
  <2> QED BY <2>1, <2>2
<1> HIDE DEF c
<1>6. Fits(c)
  <2>1. \A x \in All : b.flags[x] \subseteq c.flags[x] /\ c.flags[x] \subseteq Fit(x)
    <3> SUFFICES ASSUME NEW x \in All
                 PROVE  b.flags[x] \subseteq c.flags[x] /\ c.flags[x] \subseteq Fit(x)
      OBVIOUS
    <3>1. b.flags[x] \subseteq Fit(x)
      BY DEF Exact, Fits
    <3>2. CASE x = e
      BY <1>g, <3>1, <3>2
    <3>3. CASE x # e
      BY <1>g, <3>1, <3>3
    <3> QED BY <3>2, <3>3
  <2>2. \A x \in Signals : "signal" \in c.flags[x] => "signal" \in b.flags[x] \/ list = "signal"
    BY <1>g DEF All
  <2>3. Signals \subseteq All /\ ev_signal \in All
    BY DEF All
  <2> QED BY <2>1, <2>2, <2>3 DEF Exact, Fits
<1> QED BY <1>1, <1>2, <1>3, <1>4, <1>5, <1>6 DEF Exact, Calmer, CountsExact, c

LEMMA RemoveExact ==
  ASSUME NEW b, Exact(b), NEW e \in All, NEW list \in Fit(e), list \in b.flags[e],
         list = "inserted" => e # ev_signal
  PROVE  LET c == event_queue_remove(b, e, list) IN
         /\ Exact(c) /\ Calmer(b, c) /\ c.calls = b.calls
         /\ c.flags = [b.flags EXCEPT ![e] = @ \ {list}]
<1> DEFINE c == event_queue_remove(b, e, list)
           d == [b EXCEPT !.flags[e] = @ \ {list}, !.event_count = @ - Counted(e)]
<1>0. b \in Base /\ list \in Lists /\ Priority(e) \in 0 .. NQueues - 1
  BY DEF Exact, Fit, Waits, Lists, Priority, All
<1>d. d \in Base
  <2> DEFINE F == [b.flags EXCEPT ![e] = @ \ {list}]
  <2>1. F \in [All -> SUBSET Lists] /\ b.event_count - Counted(e) \in Int
    BY <1>0 DEF Base, Counted
  <2>2. d = [b EXCEPT !.flags = F, !.event_count = b.event_count - Counted(e)]
    OBVIOUS
  <2> QED BY <1>0, <2>1, <2>2, FlagsTyped
<1>f. /\ d.flags = [b.flags EXCEPT ![e] = @ \ {list}]
      /\ d.event_count = b.event_count - Counted(e)
      /\ d.event_count_active = b.event_count_active /\ d.activequeues = b.activequeues
      /\ d.calls = b.calls /\ d.ncalls = b.ncalls /\ d.pncalls = b.pncalls
  BY <1>0 DEF Base
<1>c. c = CASE list = "active"  -> [d EXCEPT !.event_count_active = d.event_count_active - 1,
                                             !.activequeues = Unqueued(d.activequeues, e)]
            [] list = "timeout" -> [d EXCEPT !.timeout = [d.timeout EXCEPT ![e] = 0]]
            [] OTHER            -> d
  BY DEF event_queue_remove
<1> HIDE DEF c, d
<1>1. /\ c.flags = [b.flags EXCEPT ![e] = @ \ {list}]
      /\ c.event_count = b.event_count - Counted(e)
      /\ c.event_count_active = b.event_count_active - (IF list = "active" THEN 1 ELSE 0)
      /\ c.activequeues = IF list = "active" THEN Unqueued(b.activequeues, e) ELSE b.activequeues
      /\ c.calls = b.calls /\ c.ncalls = b.ncalls /\ c.pncalls = b.pncalls
  <2>1. CASE list = "active"
    <3>1. c = [d EXCEPT !.event_count_active = d.event_count_active - 1,
                        !.activequeues = Unqueued(d.activequeues, e)]
      BY <1>c, <2>1
    <3>2. c.event_count_active = d.event_count_active - 1
          /\ c.activequeues = Unqueued(d.activequeues, e)
          /\ c.flags = d.flags /\ c.event_count = d.event_count
          /\ c.calls = d.calls /\ c.ncalls = d.ncalls /\ c.pncalls = d.pncalls
      BY <1>d, <3>1 DEF Base
    <3> QED BY <1>f, <2>1, <3>2
  <2>2. CASE list # "active"
    <3>1. PICK T : c = d \/ c = [d EXCEPT !.timeout = T]
      BY <1>c, <2>2
    <3>2. c.event_count_active = d.event_count_active /\ c.activequeues = d.activequeues
          /\ c.flags = d.flags /\ c.event_count = d.event_count
          /\ c.calls = d.calls /\ c.ncalls = d.ncalls /\ c.pncalls = d.pncalls
      BY <1>d, <3>1 DEF Base
    <3>3. d.event_count_active \in Int
      BY <1>d DEF Base
    <3> QED BY <1>f, <2>2, <3>2, <3>3
  <2> QED BY <2>1, <2>2
<1>g. /\ c.flags[e] = b.flags[e] \ {list}
      /\ \A x \in All \ {e} : c.flags[x] = b.flags[x]
  <2>1. b.flags \in [All -> SUBSET Lists]
    BY <1>0 DEF Base
  <2>2. c.flags = [b.flags EXCEPT ![e] = @ \ {list}]
    BY <1>1
  <2> QED BY ONLY <2>1, <2>2, e \in All
<1>2. QueuesExact(c) /\ c.activequeues \in [0 .. NQueues - 1 -> Seq(All)]
  <2>1. CASE list # "active"
    <3>1. ActiveOnes(c) = ActiveOnes(b)
      BY <1>g, <2>1, SameActive
    <3>2. c.activequeues = b.activequeues /\ b.activequeues \in [0 .. NQueues - 1 -> Seq(All)]
      BY <1>0, <1>1, <2>1 DEF Base
    <3>3. QueuesExact(b)
      BY DEF Exact
    <3> QED BY <3>1, <3>2, <3>3 DEF QueuesExact
  <2>2. CASE list = "active"
    <3>1. ActiveOnes(c) = ActiveOnes(b) \ {e}
      BY <1>g, <2>2 DEF ActiveOnes
    <3>2. e \in ActiveOnes(b)
      BY <2>2 DEF ActiveOnes
    <3> DEFINE p == Priority(e)
               q == b.activequeues[p]
               r == Without(q, e)
    <3>3. q \in Seq(All) /\ \E j \in DOMAIN q : q[j] = e
      BY <1>0, <3>2 DEF Exact, QueuesExact, Base
    <3>4. \A j, k \in DOMAIN q : q[j] = q[k] => j = k
      BY <1>0 DEF Exact, QueuesExact
    <3> HIDE DEF p, q
    <3>5. /\ r \in Seq(All)
          /\ \A j, k \in DOMAIN r : r[j] = r[k] => j = k
          /\ \A x : (\E j \in DOMAIN r : r[j] = x) <=> x # e /\ \E j \in DOMAIN q : q[j] = x
      BY <3>3, <3>4, WithoutOne
    <3> HIDE DEF r
    <3>6. /\ c.activequeues[p] = r
          /\ \A i \in 0 .. NQueues - 1 : i # p => c.activequeues[i] = b.activequeues[i]
          /\ c.activequeues \in [0 .. NQueues - 1 -> Seq(All)]
      <4>1. b.activequeues \in [0 .. NQueues - 1 -> Seq(All)] /\ p \in 0 .. NQueues - 1
        BY <1>0 DEF Base, p
      <4>2. c.activequeues = Unqueued(b.activequeues, e)
        BY <1>1, <2>2
      <4>3. c.activequeues = [b.activequeues EXCEPT ![p] = r]
        BY <4>2 DEF Unqueued, p, q, r
      <4>a. \A i \in 0 .. NQueues - 1 : i # p => c.activequeues[i] = b.activequeues[i]
        BY ONLY <4>1, <4>3
      <4>b. c.activequeues[p] = r
        BY ONLY <4>1, <4>3
      <4>c. c.activequeues \in [0 .. NQueues - 1 -> Seq(All)]
        <5> DEFINE Q == Seq(All)
        <5>1. r \in Q /\ b.activequeues \in [0 .. NQueues - 1 -> Q]
          BY ONLY <3>5, <4>1
        <5> HIDE DEF Q
        <5>2. c.activequeues \in [0 .. NQueues - 1 -> Q]
          BY ONLY <4>1, <4>3, <5>1
        <5> QED BY ONLY <5>2 DEF Q
      <4> QED BY ONLY <4>a, <4>b, <4>c
    <3>a. p = Priority(e) /\ p \in 0 .. NQueues - 1
      BY <1>0 DEF p
    <3>b. \A i \in 0 .. NQueues - 1 :
            /\ \A j, k \in DOMAIN b.activequeues[i] : b.activequeues[i][j] = b.activequeues[i][k] => j = k
            /\ \A x \in All : (\E j \in DOMAIN b.activequeues[i] : b.activequeues[i][j] = x)
                              <=> x \in ActiveOnes(b) /\ Priority(x) = i
      BY DEF Exact, QueuesExact
    <3> SUFFICES ASSUME NEW i \in 0 .. NQueues - 1
                 PROVE
                   /\ \A j, k \in DOMAIN c.activequeues[i] : c.activequeues[i][j] = c.activequeues[i][k] => j = k
                   /\ \A x \in All : (\E j \in DOMAIN c.activequeues[i] : c.activequeues[i][j] = x)
                                    <=> x \in ActiveOnes(c) /\ Priority(x) = i
      BY <3>6 DEF QueuesExact
    <3>7. CASE i = p
      <4>1. \A x \in All : (\E j \in DOMAIN q : q[j] = x) <=> x \in ActiveOnes(b) /\ Priority(x) = p
        BY <3>a, <3>b DEF q
      <4>2. \A x \in All : (\E j \in DOMAIN r : r[j] = x) <=> x \in ActiveOnes(c) /\ Priority(x) = p
        BY <3>1, <3>5, <3>a, <4>1
      <4> QED BY <3>5, <3>6, <3>7, <4>2
    <3>8. CASE i # p
      <4>1. c.activequeues[i] = b.activequeues[i]
        BY <3>6, <3>8
      <4>2. \A x \in All : x \in ActiveOnes(b) /\ Priority(x) = i <=> x \in ActiveOnes(c) /\ Priority(x) = i
        BY <3>1, <3>8, <3>a
      <4> QED BY <3>b, <4>1, <4>2
    <3> QED BY <3>7, <3>8
  <2> QED BY <2>1, <2>2
<1>3. c \in Base
  <2>1. CASE list = "active"
    <3>1. Unqueued(d.activequeues, e) \in [0 .. NQueues - 1 -> Seq(All)]
      BY <1>1, <1>2, <1>f, <2>1
    <3>2. d.event_count_active - 1 \in Int
      BY <1>d DEF Base
    <3> QED BY <1>c, <1>d, <2>1, <3>1, <3>2, QueuesTyped
  <2>2. CASE list = "timeout"
    <3>1. [d.timeout EXCEPT ![e] = 0] \in [All -> Int]
      BY <1>d DEF Base
    <3>2. c = [d EXCEPT !.timeout = [d.timeout EXCEPT ![e] = 0]]
      BY <1>c, <2>2
    <3> QED BY <1>d, <3>1, <3>2, TimesTyped
  <2>3. CASE list \notin {"active", "timeout"}
    BY <1>c, <1>d, <2>3
  <2> QED BY <2>1, <2>2, <2>3
<1>4. c.event_count = Cardinality(OnLists(c))
  <2>1. CASE e = ev_signal
    <3>1. OnLists(c) = OnLists(b)
      <4>1. \A x \in Event : c.flags[x] = b.flags[x]
        BY <1>g, <2>1 DEF All
      <4> QED BY <4>1 DEF OnLists
    <3> QED BY <1>0, <1>1, <2>1, <3>1 DEF Counted, Exact, CountsExact, Base
  <2>2. CASE e # ev_signal
    <3>1. OnLists(c) = OnLists(b) \ {<<e, list>>} /\ <<e, list>> \in OnLists(b)
      <4>1. e \in Event /\ list \in b.flags[e] /\ list \notin c.flags[e]
        BY <1>g, <2>2 DEF All
      <4>2. \A x \in Event, l \in Lists :
              l \in c.flags[x] <=> l \in b.flags[x] /\ ~(x = e /\ l = list)
        <5> SUFFICES ASSUME NEW x \in Event, NEW l \in Lists
                     PROVE  l \in c.flags[x] <=> l \in b.flags[x] /\ ~(x = e /\ l = list)
          OBVIOUS
        <5>1. CASE x = e
          BY <1>g, <5>1
        <5>2. CASE x # e
          BY <1>g, <5>2 DEF All
        <5> QED BY <5>1, <5>2
      <4> QED BY <1>0, <4>1, <4>2 DEF OnLists
    <3>2. Cardinality(OnLists(c)) = Cardinality(OnLists(b)) - 1
      <4>1. IsFiniteSet(OnLists(b))
        BY <1>0, Finite
      <4>2. Cardinality(OnLists(b) \ {<<e, list>>}) = Cardinality(OnLists(b)) - 1
        BY <3>1, <4>1, FS_RemoveElement
      <4> QED BY <3>1, <4>2
    <3> QED BY <1>1, <2>2, <3>2 DEF Counted, Exact, CountsExact
  <2> QED BY <2>1, <2>2
<1>5. c.event_count_active = Cardinality(ActiveOnes(c))
  <2>1. CASE list # "active"
    <3>1. ActiveOnes(c) = ActiveOnes(b)
      BY <1>g, <2>1, SameActive
    <3> QED BY <1>0, <1>1, <2>1, <3>1 DEF Exact, CountsExact, Base
  <2>2. CASE list = "active"
    <3>1. ActiveOnes(c) = ActiveOnes(b) \ {e} /\ e \in ActiveOnes(b)
      BY <1>g, <2>2 DEF ActiveOnes
    <3>2. Cardinality(ActiveOnes(c)) = Cardinality(ActiveOnes(b)) - 1
      <4>1. IsFiniteSet(ActiveOnes(b))
        BY <1>0, Finite
      <4>2. Cardinality(ActiveOnes(b) \ {e}) = Cardinality(ActiveOnes(b)) - 1
        BY <3>1, <4>1, FS_RemoveElement
      <4> QED BY <3>1, <4>2
    <3> QED BY <1>1, <2>2, <3>2 DEF Exact, CountsExact
  <2> QED BY <2>1, <2>2
<1>6. Fits(c)
  <2>1. \A x \in All : c.flags[x] \subseteq b.flags[x]
    BY <1>g
  <2>2. "inserted" \in b.flags[ev_signal] => "inserted" \in c.flags[ev_signal]
    <3>1. CASE e = ev_signal
      <4>1. list # "inserted"
        BY <3>1
      <4> QED BY <1>g, <3>1, <4>1
    <3>2. CASE e # ev_signal
      BY <1>g, <3>2 DEF All
    <3> QED BY <3>1, <3>2
  <2>3. Signals \subseteq All
    BY DEF All
  <2> QED BY <2>1, <2>2, <2>3 DEF Exact, Fits
<1> QED BY <1>1, <1>2, <1>3, <1>4, <1>5, <1>6 DEF Exact, Calmer, CountsExact, c

\* What the queues and counts do not speak of may change.
LEMMA SameQueues ==
  ASSUME NEW b, Exact(b), NEW c \in Base,
         c.flags = b.flags, c.activequeues = b.activequeues,
         c.event_count = b.event_count, c.event_count_active = b.event_count_active
  PROVE  Exact(c)
<1>1. OnLists(c) = OnLists(b) /\ ActiveOnes(c) = ActiveOnes(b)
  BY DEF OnLists, ActiveOnes
<1>2. QueuesExact(c)
  BY <1>1 DEF Exact, QueuesExact
<1> QED BY <1>1, <1>2 DEF Exact, Fits, CountsExact

LEMMA RemovedExact ==
  ASSUME NEW b, Exact(b), NEW e \in All, NEW list \in Fit(e), list = "inserted" => e # ev_signal
  PROVE  LET c == Removed(b, e, list) IN
         /\ Exact(c) /\ Calmer(b, c) /\ c.calls = b.calls
         /\ c.flags = [b.flags EXCEPT ![e] = @ \ {list}]
<1>1. CASE list \in b.flags[e]
  BY <1>1, RemoveExact DEF Removed
<1>2. CASE list \notin b.flags[e]
  <2>1. b.flags = [b.flags EXCEPT ![e] = @ \ {list}]
    BY <1>2 DEF Exact, Base
  <2> QED BY <1>2, <2>1 DEF Removed, Calmer
<1> QED BY <1>1, <1>2

LEMMA CallsTyped ==
  ASSUME NEW b \in Base
  PROVE  /\ [b EXCEPT !.calls = 0] \in Base
         /\ [b EXCEPT !.stray = TRUE] \in Base
  BY DEF Base

\* The calls of a running event are given up.
LEMMA AbortExact ==
  ASSUME NEW b, Exact(b), NEW e \in All
  PROVE  LET c == AbortLoop(b, e) IN
         /\ Exact(c) /\ Calmer(b, c) /\ c.flags = b.flags
         /\ b.ncalls[e] # 0 /\ b.pncalls[e] = "live" => c.calls = 0
<1> DEFINE c == AbortLoop(b, e)
<1>0. b \in Base
  BY DEF Exact
<1>1. c \in {b, [b EXCEPT !.calls = 0], [b EXCEPT !.stray = TRUE]}
  BY DEF AbortLoop
<1>2. c \in Base
  BY <1>0, <1>1, CallsTyped
<1>3. /\ c.flags = b.flags /\ c.activequeues = b.activequeues
      /\ c.event_count = b.event_count /\ c.event_count_active = b.event_count_active
      /\ c.ncalls = b.ncalls /\ c.pncalls = b.pncalls /\ c.calls \in {0, b.calls}
  <2> HIDE DEF c
  <2> QED BY <1>0, <1>1 DEF Base
<1>4. b.ncalls[e] # 0 /\ b.pncalls[e] = "live" => c.calls = 0
  BY <1>0 DEF AbortLoop, Base
<1> HIDE DEF c
<1>5. Exact(c)
  BY <1>2, <1>3, SameQueues
<1> QED BY <1>3, <1>4, <1>5 DEF Calmer, c

\* A deleted event is on no list, and its callback is not called again.
LEMMA DelExact ==
  ASSUME NEW b, Exact(b), NEW e \in Event
  PROVE  LET c == event_del(b, e) IN
         /\ Exact(c) /\ Calmer(b, c) /\ c.flags = [b.flags EXCEPT ![e] = {}]
         /\ b.ncalls[e] # 0 /\ b.pncalls[e] = "live" => c.calls = 0
<1> DEFINE b1 == AbortLoop(b, e)
           b2 == Removed(b1, e, "timeout")
           b3 == Removed(b2, e, "active")
           b4 == Removed(b3, e, Waits(e))
<1>0. e \in All /\ e # ev_signal /\ "timeout" \in Fit(e) /\ "active" \in Fit(e) /\ Waits(e) \in Fit(e)
  BY DEF All, Fit
<1>1. /\ Exact(b1) /\ Calmer(b, b1) /\ b1.flags = b.flags
      /\ b.ncalls[e] # 0 /\ b.pncalls[e] = "live" => b1.calls = 0
  BY <1>0, AbortExact
<1> HIDE DEF b1
<1>2. /\ Exact(b2) /\ Calmer(b1, b2) /\ b2.calls = b1.calls
      /\ b2.flags = [b1.flags EXCEPT ![e] = @ \ {"timeout"}]
  BY <1>0, <1>1, RemovedExact
<1> HIDE DEF b2
<1>3. /\ Exact(b3) /\ Calmer(b2, b3) /\ b3.calls = b2.calls
      /\ b3.flags = [b2.flags EXCEPT ![e] = @ \ {"active"}]
  BY <1>0, <1>2, RemovedExact
<1> HIDE DEF b3
<1>4. /\ Exact(b4) /\ Calmer(b3, b4) /\ b4.calls = b3.calls
      /\ b4.flags = [b3.flags EXCEPT ![e] = @ \ {Waits(e)}]
  BY <1>0, <1>3, RemovedExact
<1>5. event_del(b, e) = b4
  BY DEF event_del, b1, b2, b3
<1> HIDE DEF b4
<1>6. b4.flags = [b.flags EXCEPT ![e] = {}]
  <2> DEFINE F == b.flags
             F2 == b2.flags
             F3 == b3.flags
             F4 == b4.flags
             w == Waits(e)
  <2>1. F \in [All -> SUBSET Lists] /\ F[e] \subseteq {"timeout", "active", w}
    BY <1>0 DEF Exact, Base, Fits, Fit
  <2>2. /\ F2 = [F EXCEPT ![e] = @ \ {"timeout"}]
        /\ F3 = [F2 EXCEPT ![e] = @ \ {"active"}]
        /\ F4 = [F3 EXCEPT ![e] = @ \ {w}]
    BY <1>1, <1>2, <1>3, <1>4
  <2> HIDE DEF F, F2, F3, F4, w
  <2>3. F2[e] = F[e] \ {"timeout"} /\ F3[e] = F2[e] \ {"active"} /\ F4[e] = F3[e] \ {w}
    BY ONLY <1>0, <2>1, <2>2
  <2>4. F4[e] = {}
    BY ONLY <2>1, <2>3
  <2>5. DOMAIN F4 = All /\ \A x \in All \ {e} : F4[x] = F[x]
    BY ONLY <1>0, <2>1, <2>2
  <2>6. F4 = [x \in All |-> F4[x]]
    BY ONLY <2>2, <2>5
  <2>7. [F EXCEPT ![e] = {}] = [x \in All |-> IF x = e THEN {} ELSE F[x]]
    BY ONLY <2>1
  <2>8. \A x \in All : F4[x] = IF x = e THEN {} ELSE F[x]
    BY ONLY <2>4, <2>5
  <2>9. F4 = [F EXCEPT ![e] = {}]
    BY ONLY <2>6, <2>7, <2>8
  <2> QED BY <2>9 DEF F, F4
<1>7. Calmer(b, b4) /\ b4.calls = b1.calls
  BY <1>1, <1>2, <1>3, <1>4 DEF Calmer
<1> QED BY <1>1, <1>4, <1>5, <1>6, <1>7

LEMMA ResTyped ==
  ASSUME NEW b \in Base, NEW R \in [All -> SUBSET {"timeout"}]
  PROVE  [b EXCEPT !.res = R] \in Base
  BY DEF Base

LEMMA ActiveTyped ==
  ASSUME NEW b \in Base, NEW R \in [All -> SUBSET {"timeout"}], NEW N \in [All -> Nat],
         NEW P \in [All -> {"null", "live", "dead"}]
  PROVE  [b EXCEPT !.res = R, !.ncalls = N, !.pncalls = P] \in Base
  BY DEF Base

LEMMA ActiveExact ==
  ASSUME NEW b, Exact(b), NEW e \in All, NEW res \in SUBSET {"timeout"}, NEW n \in Nat
  PROVE  LET c == event_active(b, e, res, n) IN
         /\ Exact(c) /\ c.calls = b.calls
         /\ c.flags = [b.flags EXCEPT ![e] = @ \cup {"active"}]
         /\ \A x \in All : x # e => c.ncalls[x] = b.ncalls[x] /\ c.pncalls[x] = b.pncalls[x]
         /\ c.ncalls[e] \in {b.ncalls[e], n}
<1> DEFINE c == event_active(b, e, res, n)
<1>0. b \in Base
  BY DEF Exact
<1>1. CASE "active" \in b.flags[e]
  <2> DEFINE R == [b.res EXCEPT ![e] = @ \cup res]
  <2>1. R \in [All -> SUBSET {"timeout"}]
    BY <1>0 DEF Base
  <2>2. c = [b EXCEPT !.res = R]
    BY <1>1 DEF event_active
  <2> HIDE DEF R, c
  <2>3. c \in Base
    BY <1>0, <2>1, <2>2, ResTyped
  <2>4. /\ c.flags = b.flags /\ c.activequeues = b.activequeues
        /\ c.event_count = b.event_count /\ c.event_count_active = b.event_count_active
        /\ c.ncalls = b.ncalls /\ c.pncalls = b.pncalls /\ c.calls = b.calls
    BY <1>0, <2>2 DEF Base
  <2>5. Exact(c)
    BY <2>3, <2>4, SameQueues
  <2>6. b.flags = [b.flags EXCEPT ![e] = @ \cup {"active"}]
    BY <1>0, <1>1 DEF Base
  <2> QED BY <2>4, <2>5, <2>6 DEF c
<1>2. CASE "active" \notin b.flags[e]
  <2> DEFINE R == [b.res EXCEPT ![e] = res]
             N == [b.ncalls EXCEPT ![e] = n]
             P == [b.pncalls EXCEPT ![e] = "null"]
             d == [b EXCEPT !.res = R, !.ncalls = N, !.pncalls = P]
  <2>1. R \in [All -> SUBSET {"timeout"}] /\ N \in [All -> Nat] /\ P \in [All -> {"null", "live", "dead"}]
    BY <1>0 DEF Base
  <2>2. c = event_queue_insert(d, e, "active")
    BY <1>2 DEF event_active
  <2>N. \A x \in All : x # e => N[x] = b.ncalls[x] /\ P[x] = b.pncalls[x]
    BY <1>0 DEF Base
  <2>n. N[e] = n
    BY <1>0 DEF Base
  <2> HIDE DEF R, N, P, c
  <2>3. d \in Base
    BY <1>0, <2>1, ActiveTyped
  <2>4. /\ d.flags = b.flags /\ d.activequeues = b.activequeues
        /\ d.event_count = b.event_count /\ d.event_count_active = b.event_count_active
        /\ d.ncalls = N /\ d.pncalls = P /\ d.calls = b.calls
    BY <1>0 DEF Base
  <2> HIDE DEF d
  <2>5. Exact(d)
    BY <2>3, <2>4, SameQueues
  <2>6. "active" \in Fit(e) /\ "active" \notin d.flags[e]
    BY <1>2, <2>4 DEF Fit
  <2>7. /\ Exact(c) /\ Calmer(d, c) /\ c.calls = d.calls
        /\ c.flags = [d.flags EXCEPT ![e] = @ \cup {"active"}]
    BY <2>2, <2>5, <2>6, InsertExact
  <2> QED BY <2>4, <2>7, <2>N, <2>n DEF Calmer, c
<1> QED BY <1>1, <1>2

\* Whether the time comes from the cache or the clock, it is a number.
LEMMA TimeIsNat ==
  ASSUME NEW b \in Base, clock \in Nat
  PROVE  gettime(b) \in Nat
  BY DEF gettime, Base

\* The timeout of an event is set; other events are left alone.
LEMMA ScheduledExact ==
  ASSUME NEW b, Exact(b), NEW e \in Event, NEW tv \in Nat, clock \in Nat
  PROVE  LET c == Scheduled(b, e, tv) IN
         /\ Exact(c) /\ Calmer(b, c)
         /\ \A x \in All : x # e => c.flags[x] = b.flags[x]
<1> DEFINE off  == Removed(b, e, "timeout")
           quiet == AbortLoop(off, e)
           idle == IF "active" \in b.flags[e] /\ "timeout" \in b.res[e] THEN Removed(quiet, e, "active") ELSE off
           T    == [idle.timeout EXCEPT ![e] = gettime(b) + tv]
           set  == [idle EXCEPT !.timeout = T]
           c    == event_queue_insert(set, e, "timeout")
<1>0. /\ e \in All /\ e # ev_signal /\ "timeout" \in Fit(e) /\ "active" \in Fit(e)
      /\ b \in Base
  BY DEF All, Fit, Exact
<1>1. /\ Exact(off) /\ Calmer(b, off)
      /\ off.flags = [b.flags EXCEPT ![e] = @ \ {"timeout"}]
  BY <1>0, RemovedExact
<1>2. /\ Exact(quiet) /\ Calmer(off, quiet) /\ quiet.flags = off.flags
  <2> HIDE DEF off
  <2> QED BY <1>0, <1>1, AbortExact
<1>3. /\ Exact(Removed(quiet, e, "active")) /\ Calmer(quiet, Removed(quiet, e, "active"))
      /\ Removed(quiet, e, "active").flags = [quiet.flags EXCEPT ![e] = @ \ {"active"}]
  <2> HIDE DEF quiet
  <2> QED BY <1>0, <1>2, RemovedExact
<1>4. /\ Exact(idle) /\ Calmer(b, idle) /\ "timeout" \notin idle.flags[e]
      /\ \A x \in All : x # e => idle.flags[x] = b.flags[x]
  <2> HIDE DEF off, quiet
  <2>1. b.flags \in [All -> SUBSET Lists]
    BY <1>0 DEF Base
  <2>2. CASE "active" \in b.flags[e] /\ "timeout" \in b.res[e]
    <3>1. idle = Removed(quiet, e, "active")
      BY <2>2
    <3> HIDE DEF idle
    <3> QED BY <1>0, <1>1, <1>2, <1>3, <2>1, <3>1 DEF Calmer
  <2>3. CASE ~("active" \in b.flags[e] /\ "timeout" \in b.res[e])
    <3>1. idle = off
      BY <2>3
    <3> HIDE DEF idle
    <3> QED BY <1>0, <1>1, <2>1, <3>1
  <2> QED BY <2>2, <2>3
<1>c. Scheduled(b, e, tv) = c
  BY DEF Scheduled
<1> HIDE DEF idle
<1>5. T \in [All -> Int]
  <2>1. gettime(b) \in Nat
    BY <1>0, TimeIsNat
  <2>2. idle.timeout \in [All -> Int]
    BY <1>4 DEF Exact, Base
  <2>3. gettime(b) + tv \in Int
    BY <2>1
  <2> QED BY <2>2, <2>3
<1> HIDE DEF T
<1>6. set \in Base
  BY <1>4, <1>5, TimesTyped DEF Exact
<1>7. /\ set.flags = idle.flags /\ set.activequeues = idle.activequeues
      /\ set.event_count = idle.event_count /\ set.event_count_active = idle.event_count_active
      /\ set.ncalls = idle.ncalls /\ set.pncalls = idle.pncalls /\ set.calls = idle.calls
  BY <1>4 DEF Exact, Base
<1> HIDE DEF set
<1>8. Exact(set)
  BY <1>4, <1>6, <1>7, SameQueues
<1>9. /\ Exact(c) /\ Calmer(set, c)
      /\ c.flags = [set.flags EXCEPT ![e] = @ \cup {"timeout"}]
  BY <1>0, <1>4, <1>7, <1>8, InsertExact
<1> HIDE DEF c
<1>10. \A x \in All : x # e => c.flags[x] = b.flags[x]
  BY <1>4, <1>7, <1>8, <1>9 DEF Exact, Base
<1>11. Calmer(b, c)
  BY <1>4, <1>7, <1>9 DEF Calmer
<1> QED BY <1>c, <1>9, <1>10, <1>11

\* The event of the socket pair may become one that is waited for, and nothing else of it changes.
Woken(b, c) == c.flags[ev_signal] \in {b.flags[ev_signal], b.flags[ev_signal] \cup {"inserted"}}

LEMMA SelAddExact ==
  ASSUME NEW b, Exact(b), NEW e \in Event, NeedsAdd(b, e)
  PROVE  LET c == evsel_add(b, e) IN
         /\ Exact(c) /\ Calmer(b, c) /\ Woken(b, c)
         /\ \A x \in Event : x # e => c.flags[x] = b.flags[x]
<1> DEFINE c == evsel_add(b, e)
<1>0. e \in All /\ ev_signal \in All /\ e # ev_signal /\ Event \subseteq All /\ b \in Base
      /\ Waits(e) \in Fit(e) /\ "inserted" \in Fit(ev_signal)
  BY DEF All, Fit, Waits, Exact
<1>1. Waits(e) \notin b.flags[e]
  BY DEF NeedsAdd, Waits
<1>2. CASE e \in Signals /\ "inserted" \notin b.flags[ev_signal]
  <2> DEFINE d == event_queue_insert(b, ev_signal, "inserted")
  <2>1. /\ Exact(d) /\ Calmer(b, d)
        /\ d.flags = [b.flags EXCEPT ![ev_signal] = @ \cup {"inserted"}]
    BY <1>0, <1>2, InsertExact
  <2>2. c = event_queue_insert(d, e, "signal") /\ Waits(e) = "signal"
    BY <1>2 DEF evsel_add, Waits
  <2> HIDE DEF d, c
  <2>3. "signal" \in Fit(e) /\ "signal" \notin d.flags[e] /\ "inserted" \in d.flags[ev_signal]
    BY <1>0, <1>1, <2>1, <2>2 DEF Base
  <2>4. /\ Exact(c) /\ Calmer(d, c)
        /\ c.flags = [d.flags EXCEPT ![e] = @ \cup {"signal"}]
    <3>1. "signal" \in Fit(e) /\ "signal" \notin d.flags[e] /\ "inserted" \in d.flags[ev_signal] /\ Exact(d)
      BY <2>1, <2>3
    <3>2. LET x == event_queue_insert(d, e, "signal") IN
          /\ Exact(x) /\ Calmer(d, x) /\ x.calls = d.calls
          /\ x.flags = [d.flags EXCEPT ![e] = @ \cup {"signal"}]
      BY <1>0, <3>1, InsertExact
    <3> QED BY <2>2, <3>2
  <2>5. Woken(b, c) /\ \A x \in Event : x # e => c.flags[x] = b.flags[x]
    BY <1>0, <2>1, <2>4 DEF Base, Woken
  <2> QED BY <2>1, <2>4, <2>5 DEF Calmer, c
<1>3. CASE ~(e \in Signals /\ "inserted" \notin b.flags[ev_signal])
  <2>1. c = event_queue_insert(b, e, Waits(e))
    BY <1>3 DEF evsel_add
  <2>2. Waits(e) = "signal" => "inserted" \in b.flags[ev_signal]
    BY <1>3 DEF Waits
  <2> HIDE DEF c
  <2>3. /\ Exact(c) /\ Calmer(b, c)
        /\ c.flags = [b.flags EXCEPT ![e] = @ \cup {Waits(e)}]
    BY <1>0, <1>1, <2>1, <2>2, InsertExact
  <2>4. Woken(b, c) /\ \A x \in Event : x # e => c.flags[x] = b.flags[x]
    BY <1>0, <2>3 DEF Base, Woken
  <2> QED BY <2>3, <2>4 DEF c
<1> QED BY <1>2, <1>3

\* The timeout alone, when evsel->add fails, and all of event_add.
LEMMA AddExact ==
  ASSUME NEW b, Exact(b), NEW e \in Event, NEW tv \in Durations \cup {NULL}, clock \in Nat
  PROVE  LET d == IF tv = NULL THEN b ELSE Scheduled(b, e, tv)
             c == event_add(b, e, tv)
         IN /\ Exact(c) /\ Calmer(b, c) /\ Woken(b, c)
            /\ \A x \in Event : x # e => c.flags[x] = b.flags[x]
            /\ Exact(d) /\ Calmer(b, d) /\ Woken(b, d)
            /\ \A x \in Event : x # e => d.flags[x] = b.flags[x]
            /\ tv = NULL => d = b
<1> DEFINE d == IF tv = NULL THEN b ELSE Scheduled(b, e, tv)
           c == event_add(b, e, tv)
<1>0. ev_signal \in All /\ e # ev_signal /\ Event \subseteq All
  BY DEF All
<1>1. /\ Exact(d) /\ Calmer(b, d) /\ Woken(b, d)
      /\ \A x \in Event : x # e => d.flags[x] = b.flags[x]
  <2>1. CASE tv = NULL
    BY <2>1 DEF Calmer, Woken
  <2>2. CASE tv # NULL
    <3>1. d = Scheduled(b, e, tv) /\ tv \in Nat
      BY <2>2
    <3> HIDE DEF d
    <3>2. /\ Exact(d) /\ Calmer(b, d)
          /\ \A x \in All : x # e => d.flags[x] = b.flags[x]
      BY <3>1, ScheduledExact
    <3> QED BY <1>0, <3>2 DEF Woken
  <2> QED BY <2>1, <2>2
<1>2. c = IF NeedsAdd(d, e) THEN evsel_add(d, e) ELSE d
  BY DEF event_add
<1>3. tv = NULL => d = b
  OBVIOUS
<1> HIDE DEF d, c
<1>4. CASE NeedsAdd(d, e)
  <2>1. c = evsel_add(d, e)
    BY <1>2, <1>4
  <2>2. /\ Exact(c) /\ Calmer(d, c) /\ Woken(d, c)
        /\ \A x \in Event : x # e => c.flags[x] = d.flags[x]
    BY <1>1, <1>4, <2>1, SelAddExact
  <2>3. Calmer(b, c) /\ Woken(b, c)
    BY <1>1, <2>2 DEF Calmer, Woken
  <2> QED BY <1>1, <1>3, <2>2, <2>3 DEF d, c
<1>5. CASE ~NeedsAdd(d, e)
  BY <1>1, <1>2, <1>3, <1>5 DEF d, c
<1> QED BY <1>4, <1>5

-----------------------------------------------------------------------------
(* The inductive invariant *)

\* What select and the scan for signals have found is still waited for.
Found ==
  /\ selected # {} => at \in {"scan", "reset", "activate"}
  /\ \A e \in selected : "inserted" \in base.flags[e]
  /\ scan # {} => at \in {"scan", "reset"}
  /\ \A e \in scan : "signal" \in base.flags[e]

\* A deleted event is on no list, and if its callback runs it is the last time.
Gone ==
  /\ \A e \in deleted : base.flags[e] = {}
  /\ at \in {"calls", "callback"} /\ cur \in deleted => base.calls = 0

\* The running event points to the calls still to be made.
Points ==
  at \in {"calls", "callback"} /\ base.calls # 0 =>
    base.ncalls[cur] = base.calls /\ base.pncalls[cur] = "live"

\* Bytes are in the socket pair when its event is selected or active; it is called once.
Pair ==
  /\ ev_signal \in selected \/ "active" \in base.flags[ev_signal] => sig.bytes > 0
  /\ base.ncalls[ev_signal] <= 1
  /\ at \in {"calls", "callback"} /\ cur = ev_signal =>
       /\ "active" \notin base.flags[ev_signal]
       /\ at = "callback" => base.calls = 0 /\ sig.bytes > 0
       /\ base.calls <= 1 /\ (base.calls = 1 => sig.bytes > 0)

\* Select has a timeout or a socket.
Bounded == at = "select" /\ Sockets = {} => wait # Forever

IInv == TypeOK /\ Exact(base) /\ Found /\ Gone /\ Points /\ Pair /\ Bounded

LEMMA InitIInv ==
  Init => IInv
<1> SUFFICES ASSUME Init PROVE IInv
  OBVIOUS
<1>1. base \in Base
  BY DEF Init, Base, Lists
<1>2. OnLists(base) = {} /\ ActiveOnes(base) = {}
  BY DEF Init, OnLists, ActiveOnes, All
<1>3. QueuesExact(base)
  <2>1. \A i \in 0 .. NQueues - 1 : base.activequeues[i] = <<>>
    BY DEF Init
  <2>2. DOMAIN <<>> = {}
    OBVIOUS
  <2> QED BY <1>2, <2>1, <2>2 DEF QueuesExact
<1>4. CountsExact(base)
  BY <1>2, FS_EmptySet DEF Init, CountsExact
<1>5. Fits(base)
  BY DEF Init, Fits, All
<1>6. TypeOK
  BY <1>1 DEF Init, TypeOK, All
<1>7. Found /\ Gone /\ Points /\ Pair /\ Bounded
  BY DEF Init, Found, Gone, Points, Pair, Bounded, All
<1> QED BY <1>1, <1>3, <1>4, <1>5, <1>6, <1>7 DEF IInv, Exact

-----------------------------------------------------------------------------
(* The program's steps *)

\* What has nothing to do with the queues.
LEMMA AskTyped ==
  ASSUME NEW b \in Base
  PROVE  /\ [b EXCEPT !.event_gotterm = TRUE] \in Base /\ [b EXCEPT !.event_break = TRUE] \in Base
         /\ [b EXCEPT !.event_gotterm = FALSE] \in Base /\ [b EXCEPT !.event_break = FALSE] \in Base
  BY DEF Base

LEMMA ClockTyped ==
  ASSUME NEW b \in Base, NEW n \in Nat
  PROVE  [b EXCEPT !.tv_cache = n] \in Base /\ [b EXCEPT !.event_tv = n] \in Base
  BY DEF Base

LEMMA RunTyped ==
  ASSUME NEW b \in Base, NEW n \in Nat, NEW N \in [All -> Nat]
  PROVE  [b EXCEPT !.calls = n, !.ncalls = N] \in Base
  BY DEF Base

LEMMA PointTyped ==
  ASSUME NEW b \in Base, NEW n \in Nat, NEW P \in [All -> {"null", "live", "dead"}]
  PROVE  [b EXCEPT !.calls = n, !.pncalls = P] \in Base
  BY DEF Base

\* Any call of the program that keeps to its own events.
LEMMA ProgramStep ==
  ASSUME IInv, Programs,
         UNCHANGED <<sig, at, cur, queue, selected, scan, wait, flags, clock, ready, nsignals>>,
         ncalled' \in 0 .. MaxCalls, deleted' \subseteq Event,
         Exact(base'), Woken(base, base'),
         base'.ncalls[ev_signal] = base.ncalls[ev_signal],
         \A e \in deleted' : base'.flags[e] = {},
         at = "callback" => \/ base'.calls = 0
                            \/ /\ base'.calls = base.calls /\ cur \notin deleted' \ deleted
                               /\ base'.ncalls[cur] = base.ncalls[cur]
                               /\ base'.pncalls[cur] = base.pncalls[cur]
  PROVE  IInv'
<1>1. TypeOK'
  BY DEF IInv, TypeOK, Exact
<1>2. selected = {} /\ scan = {} /\ (at = "program" \/ (at = "callback" /\ cur # ev_signal))
  BY DEF IInv, Found, Programs
<1>3. Found'
  BY <1>2 DEF Found
<1>4. Gone'
  BY <1>2 DEF IInv, Gone
<1>5. Points'
  BY <1>2 DEF IInv, Points
<1>6. Pair'
  BY <1>2 DEF IInv, Pair, Woken
<1>7. Bounded'
  BY <1>2 DEF Bounded
<1> QED BY <1>1, <1>3, <1>4, <1>5, <1>6, <1>7 DEF IInv

LEMMA AddStep ==
  ASSUME IInv, NEW e \in Event, NEW tv \in Durations \cup {NULL}, Add(e, tv) \/ AddFails(e, tv)
  PROVE  IInv'
<1> DEFINE d == IF tv = NULL THEN base ELSE Scheduled(base, e, tv)
           c == event_add(base, e, tv)
<1>0. clock \in Nat /\ Exact(base)
  BY DEF IInv, TypeOK
<1>1. /\ Exact(c) /\ Calmer(base, c) /\ Woken(base, c)
      /\ \A x \in Event : x # e => c.flags[x] = base.flags[x]
      /\ Exact(d) /\ Calmer(base, d) /\ Woken(base, d)
      /\ \A x \in Event : x # e => d.flags[x] = base.flags[x]
      /\ tv = NULL => d = base
  BY <1>0, AddExact
<1>2. /\ (base' = c /\ deleted' = deleted \ {e})
         \/ (base' = d /\ deleted' = IF tv = NULL THEN deleted ELSE deleted \ {e})
      /\ Programs /\ ncalled' \in 0 .. MaxCalls
      /\ UNCHANGED <<sig, at, cur, queue, selected, scan, wait, flags, clock, ready, nsignals>>
  BY DEF Add, AddFails, Call, IInv, TypeOK
<1> HIDE DEF c, d
<1>3. deleted' \subseteq deleted /\ deleted \subseteq Event
  BY <1>2 DEF IInv, TypeOK
<1>4. Exact(base') /\ Calmer(base, base') /\ Woken(base, base')
  BY <1>1, <1>2
<1>5. \A x \in deleted' : base'.flags[x] = {}
  BY <1>1, <1>2, <1>3 DEF IInv, Gone
<1> QED BY <1>2, <1>3, <1>4, <1>5, ProgramStep DEF Calmer

LEMMA DelStep ==
  ASSUME IInv, NEW e \in Event, Del(e)
  PROVE  IInv'
<1> DEFINE c == event_del(base, e)
<1>0. Exact(base) /\ ev_signal # e /\ base \in Base /\ Event \subseteq All /\ ev_signal \in All
  BY DEF IInv, Exact, All
<1>1. /\ Exact(c) /\ Calmer(base, c) /\ c.flags = [base.flags EXCEPT ![e] = {}]
      /\ base.ncalls[e] # 0 /\ base.pncalls[e] = "live" => c.calls = 0
  BY <1>0, DelExact
<1>2. /\ base' = c /\ deleted' = deleted \cup {e}
      /\ Programs /\ ncalled' \in 0 .. MaxCalls
      /\ UNCHANGED <<sig, at, cur, queue, selected, scan, wait, flags, clock, ready, nsignals>>
  BY DEF Del, Call, IInv, TypeOK
<1> HIDE DEF c
<1>3. Woken(base, base') /\ \A x \in deleted' : base'.flags[x] = {}
  BY <1>0, <1>1, <1>2 DEF Woken, IInv, Gone, TypeOK, Base
<1>4. at = "callback" => \/ base'.calls = 0
                         \/ base'.calls = base.calls /\ cur \notin deleted' \ deleted
  <2>1. CASE cur = e
    BY <1>1, <1>2, <2>1 DEF IInv, Points, Calmer
  <2>2. CASE cur # e
    BY <1>1, <1>2, <2>2 DEF Calmer
  <2> QED BY <2>1, <2>2
<1>5. deleted' \subseteq Event
  BY <1>2 DEF IInv, TypeOK
<1> QED BY <1>1, <1>2, <1>3, <1>4, <1>5, ProgramStep DEF Calmer

LEMMA ActiveStep ==
  ASSUME IInv, "activeself" \notin Calls, NEW e \in Event, NEW n \in Times, Active(e, n)
  PROVE  IInv'
<1> DEFINE c == event_active(base, e, {}, n)
<1>0. /\ Exact(base) /\ ev_signal # e /\ base \in Base /\ Event \subseteq All /\ ev_signal \in All
      /\ n \in Nat /\ cur \in All
  BY DEF IInv, Exact, All, TypeOK
<1>1. /\ Exact(c) /\ c.calls = base.calls
      /\ c.flags = [base.flags EXCEPT ![e] = @ \cup {"active"}]
      /\ \A x \in All : x # e => c.ncalls[x] = base.ncalls[x] /\ c.pncalls[x] = base.pncalls[x]
  <2> DEFINE none == {}
  <2>1. none \in SUBSET {"timeout"} /\ e \in All
    BY <1>0
  <2> HIDE DEF none
  <2>2. LET x == event_active(base, e, none, n) IN
        /\ Exact(x) /\ x.calls = base.calls
        /\ x.flags = [base.flags EXCEPT ![e] = @ \cup {"active"}]
        /\ \A y \in All : y # e => x.ncalls[y] = base.ncalls[y] /\ x.pncalls[y] = base.pncalls[y]
        /\ x.ncalls[e] \in {base.ncalls[e], n}
    BY <1>0, <2>1, ActiveExact
  <2> QED BY <2>2 DEF none
<1>2. /\ base' = c /\ deleted' = deleted \ {e}
      /\ Programs /\ ncalled' \in 0 .. MaxCalls /\ (at = "callback" => e # cur)
      /\ UNCHANGED <<sig, at, cur, queue, selected, scan, wait, flags, clock, ready, nsignals>>
  BY DEF Active, Call, IInv, TypeOK
<1> HIDE DEF c
<1>3. Woken(base, base') /\ \A x \in deleted' : base'.flags[x] = {}
  BY <1>0, <1>1, <1>2 DEF Woken, IInv, Gone, TypeOK, Base
<1>4. deleted' \subseteq Event /\ deleted' \ deleted = {}
  BY <1>2 DEF IInv, TypeOK
<1> QED BY <1>0, <1>1, <1>2, <1>3, <1>4, ProgramStep

\* Leaving the loop is asked for.
LEMMA BreakStep ==
  ASSUME IInv, event_base_loopbreak \/ event_loopexit_cb
  PROVE  IInv'
<1>1. /\ base' \in {[base EXCEPT !.event_break = TRUE], [base EXCEPT !.event_gotterm = TRUE]}
      /\ Programs /\ ncalled' \in 0 .. MaxCalls
      /\ UNCHANGED <<sig, at, cur, queue, selected, scan, wait, flags, clock, ready, nsignals, deleted>>
  BY DEF event_base_loopbreak, event_loopexit_cb, Call, IInv, TypeOK
<1>2. base \in Base /\ Exact(base) /\ deleted \subseteq Event
  BY DEF IInv, Exact, TypeOK
<1>3. base' \in Base
  BY <1>1, <1>2, AskTyped
<1>4. /\ base'.flags = base.flags /\ base'.activequeues = base.activequeues
      /\ base'.event_count = base.event_count /\ base'.event_count_active = base.event_count_active
      /\ base'.ncalls = base.ncalls /\ base'.pncalls = base.pncalls /\ base'.calls = base.calls
  BY <1>1, <1>2 DEF Base
<1>5. Exact(base')
  BY <1>2, <1>3, <1>4, SameQueues
<1>6. Woken(base, base') /\ \A x \in deleted' : base'.flags[x] = {}
  BY <1>1, <1>4 DEF Woken, IInv, Gone
<1> QED BY <1>1, <1>2, <1>4, <1>5, <1>6, ProgramStep

LEMMA ReadStep ==
  ASSUME IInv, ReadDescriptor
  PROVE  IInv'
  BY DEF ReadDescriptor, IInv, TypeOK, Exact, Found, Gone, Points, Pair, Bounded, Sockets

LEMMA EnterStep ==
  ASSUME IInv, EnterLoop
  PROVE  IInv'
<1>1. TypeOK' /\ Exact(base)'
  BY DEF EnterLoop, IInv, TypeOK
<1>2. Found' /\ Gone' /\ Points' /\ Pair' /\ Bounded'
  BY DEF EnterLoop, IInv, Found, Gone, Points, Pair, Bounded
<1> QED BY <1>1, <1>2 DEF IInv

-----------------------------------------------------------------------------
(* The world's steps *)

LEMMA TimeStep ==
  ASSUME IInv, Tick \/ ClockSetBack
  PROVE  IInv'
<1>1. /\ UNCHANGED <<base, at, cur, queue, selected, scan, flags, ncalled, deleted, sig, ready, nsignals>>
      /\ clock' \in 1 .. MaxTime /\ wait' \in Int
      /\ wait # Forever => wait' # Forever
  <2>1. CASE Tick
    <3>1. wait' = IF at = "select" /\ wait > 0 THEN wait - 1 ELSE wait
      BY <2>1 DEF Tick
    <3>2. wait \in Int /\ clock \in 1 .. MaxTime
      BY DEF IInv, TypeOK
    <3>3. wait' \in Int /\ (wait # Forever => wait' # Forever)
      BY <3>1, <3>2 DEF Forever
    <3> QED BY <2>1, <3>2, <3>3 DEF Tick, Outside
  <2>2. CASE ClockSetBack
    BY <2>2 DEF ClockSetBack, Outside, IInv, TypeOK
  <2> QED BY <2>1, <2>2
<1>2. TypeOK' /\ Exact(base)'
  BY <1>1 DEF IInv, TypeOK
<1>3. Found' /\ Gone' /\ Points' /\ Pair' /\ Bounded'
  BY <1>1 DEF IInv, Found, Gone, Points, Pair, Bounded, Sockets
<1> QED BY <1>2, <1>3 DEF IInv

LEMMA ReadableStep ==
  ASSUME IInv, NEW e \in Reads, Readable(e)
  PROVE  IInv'
<1>1. TypeOK' /\ Exact(base)'
  BY DEF Readable, Outside, IInv, TypeOK
<1>2. Found' /\ Gone' /\ Points' /\ Pair' /\ Bounded'
  BY DEF Readable, Outside, IInv, Found, Gone, Points, Pair, Bounded, Sockets
<1> QED BY <1>1, <1>2 DEF IInv

LEMMA HandlerStep ==
  ASSUME IInv, NEW e \in Signals, evsignal_handler(e)
  PROVE  IInv'
<1>1. /\ UNCHANGED <<base, at, cur, queue, selected, scan, wait, flags, ncalled, deleted, clock, ready>>
      /\ sig' \in [caught : BOOLEAN, count : [Signals -> Nat], bytes : Nat]
      /\ sig'.bytes > 0 /\ nsignals' \in 0 .. MaxSignals
  BY DEF evsignal_handler, Outside, IInv, TypeOK
<1>2. TypeOK' /\ Exact(base)'
  BY <1>1 DEF IInv, TypeOK
<1>3. Found' /\ Gone' /\ Points' /\ Pair' /\ Bounded'
  BY <1>1 DEF IInv, Found, Gone, Points, Pair, Bounded, Sockets
<1> QED BY <1>2, <1>3 DEF IInv

-----------------------------------------------------------------------------
(* The loop's steps *)

\* A clock set back moves the timeouts and nothing else.
LEMMA CorrectExact ==
  ASSUME NEW b, Exact(b), clock \in Nat
  PROVE  LET c == timeout_correct(b) IN
         Exact(c) /\ Calmer(b, c) /\ c.calls = b.calls /\ c.flags = b.flags
         /\ c.event_count_active = b.event_count_active /\ c.event_count = b.event_count
<1> DEFINE T == [e \in All |-> IF e \in Timed(b) THEN b.timeout[e] - (b.event_tv - gettime(b))
                                                 ELSE b.timeout[e]]
           c == timeout_correct(b)
<1>0. b \in Base /\ gettime(b) \in Nat
  BY TimeIsNat DEF Exact
<1>1. T \in [All -> Int]
  BY <1>0 DEF Base
<1>2. c = [b EXCEPT !.event_tv = gettime(b)] \/ c = [b EXCEPT !.timeout = T]
  BY DEF timeout_correct
<1> HIDE DEF T, c
<1>3. c \in Base
  <2>1. [b EXCEPT !.event_tv = gettime(b)] \in Base
    BY <1>0, ClockTyped
  <2>2. [b EXCEPT !.timeout = T] \in Base
    BY <1>0, <1>1, TimesTyped
  <2> QED BY <1>2, <2>1, <2>2
<1>4. /\ c.flags = b.flags /\ c.activequeues = b.activequeues
      /\ c.event_count = b.event_count /\ c.event_count_active = b.event_count_active
      /\ c.ncalls = b.ncalls /\ c.pncalls = b.pncalls /\ c.calls = b.calls
  BY <1>0, <1>2 DEF Base
<1>5. Exact(c)
  BY <1>3, <1>4, SameQueues
<1> QED BY <1>4, <1>5 DEF Calmer, c

\* Steps between callbacks that leave the lists alone.
LEMMA QuietStep ==
  ASSUME IInv, Exact(base'), base'.flags = base.flags, base'.calls = base.calls,
         base'.ncalls = base.ncalls, base'.pncalls = base.pncalls,
         at \notin {"calls", "callback"}, at' \notin {"select", "calls", "callback"},
         cur' \in All, queue' \in 0 .. NQueues - 1, wait' \in Int,
         selected' = selected, selected # {} => at' \in {"scan", "reset", "activate"},
         scan' \subseteq scan, scan' # {} => at' \in {"scan", "reset"},
         sig' \in [caught : BOOLEAN, count : [Signals -> Nat], bytes : Nat], sig'.bytes = sig.bytes,
         at' \in {"program", "loop", "select", "scan", "reset", "activate", "timeouts", "process"},
         UNCHANGED <<flags, clock, ready, ncalled, nsignals, deleted>>
  PROVE  IInv'
<1>1. TypeOK'
  BY DEF IInv, TypeOK, Exact
<1>2. Found' /\ Gone' /\ Points' /\ Bounded'
  BY DEF IInv, Found, Gone, Points, Bounded
<1>3. Pair'
  BY DEF IInv, Pair
<1> QED BY <1>1, <1>2, <1>3 DEF IInv

LEMMA ExitStep ==
  ASSUME IInv, Exit
  PROVE  IInv'
<1>1. /\ base' \in {[base EXCEPT !.event_break = FALSE], [base EXCEPT !.event_gotterm = FALSE]}
      /\ at = "loop" /\ at' = "program"
      /\ UNCHANGED <<sig, cur, queue, selected, scan, wait, flags, clock, ready, ncalled, nsignals, deleted>>
  BY DEF Exit, Loops
<1>2. base \in Base /\ Exact(base)
  BY DEF IInv, Exact
<1>3. base' \in Base
  BY <1>1, <1>2, AskTyped
<1>4. /\ base'.flags = base.flags /\ base'.activequeues = base.activequeues
      /\ base'.event_count = base.event_count /\ base'.event_count_active = base.event_count_active
      /\ base'.ncalls = base.ncalls /\ base'.pncalls = base.pncalls /\ base'.calls = base.calls
  BY <1>1, <1>2 DEF Base
<1>5. Exact(base')
  BY <1>2, <1>3, <1>4, SameQueues
<1>6. selected = {} /\ scan = {} /\ cur \in All /\ queue \in 0 .. NQueues - 1 /\ wait \in Int
      /\ sig \in [caught : BOOLEAN, count : [Signals -> Nat], bytes : Nat]
  BY <1>1 DEF IInv, Found, TypeOK
<1> QED BY <1>1, <1>4, <1>5, <1>6, QuietStep

LEMMA NoEventsStep ==
  ASSUME IInv, NoEvents
  PROVE  IInv'
<1> DEFINE c == timeout_correct(base)
<1>1. Exact(base) /\ clock \in Nat
  BY DEF IInv, TypeOK
<1>2. /\ Exact(c) /\ Calmer(base, c) /\ c.calls = base.calls /\ c.flags = base.flags
  BY <1>1, CorrectExact
<1>3. /\ base' = c /\ at = "loop" /\ at' = "program"
      /\ UNCHANGED <<sig, cur, queue, selected, scan, wait, flags, clock, ready, ncalled, nsignals, deleted>>
  BY DEF NoEvents, GoesOn, Loops
<1> HIDE DEF c
<1>4. selected = {} /\ scan = {} /\ cur \in All /\ queue \in 0 .. NQueues - 1 /\ wait \in Int
      /\ sig \in [caught : BOOLEAN, count : [Signals -> Nat], bytes : Nat]
  BY <1>3 DEF IInv, Found, TypeOK
<1> QED BY <1>2, <1>3, <1>4, QuietStep DEF Calmer

\* A step that only moves on, or reads the time.
LEMMA MovedOn ==
  ASSUME IInv, ScanDone \/ ResetSignal \/ TimeoutsDone \/ Dispatched
  PROVE  IInv'
<1>0. /\ base \in Base /\ Exact(base) /\ cur \in All /\ ev_signal \in All /\ clock \in Nat
      /\ queue \in 0 .. NQueues - 1 /\ wait \in Int
      /\ sig \in [caught : BOOLEAN, count : [Signals -> Nat], bytes : Nat]
  BY DEF IInv, Exact, TypeOK, All
<1>1. CASE ScanDone
  BY <1>0, <1>1, QuietStep DEF ScanDone, Loops
<1>2. CASE ResetSignal
  <2>1. sig' \in [caught : BOOLEAN, count : [Signals -> Nat], bytes : Nat] /\ sig'.bytes = sig.bytes
    BY <1>0, <1>2 DEF ResetSignal
  <2> QED BY <1>0, <1>2, <2>1, QuietStep DEF ResetSignal, Loops
<1>3. CASE TimeoutsDone
  <2>1. /\ UNCHANGED <<base, sig, cur, selected, scan, wait, flags, clock, ready, ncalled, nsignals, deleted>>
        /\ at = "timeouts" /\ at' \in {"process", "program", "loop"} /\ queue' \in 0 .. NQueues - 1
    BY <1>0, <1>3 DEF TimeoutsDone, Loops
  <2>2. selected = {} /\ scan = {}
    BY <2>1 DEF IInv, Found
  <2> QED BY <1>0, <2>1, <2>2, QuietStep
<1>4. CASE Dispatched
  <2>1. /\ base' = [base EXCEPT !.tv_cache = clock] /\ selected = {}
        /\ UNCHANGED <<sig, cur, queue, selected, scan, wait, flags, clock, ready, ncalled, nsignals, deleted>>
        /\ at = "activate" /\ at' = "timeouts"
    BY <1>4 DEF Dispatched, Loops
  <2>2. base' \in Base
    BY <1>0, <2>1, ClockTyped
  <2>3. /\ base'.flags = base.flags /\ base'.activequeues = base.activequeues
        /\ base'.event_count = base.event_count /\ base'.event_count_active = base.event_count_active
        /\ base'.ncalls = base.ncalls /\ base'.pncalls = base.pncalls /\ base'.calls = base.calls
    BY <1>0, <2>1 DEF Base
  <2>4. Exact(base') /\ scan = {}
    BY <1>0, <2>1, <2>2, <2>3, SameQueues DEF IInv, Found
  <2> QED BY <1>0, <2>1, <2>3, <2>4, QuietStep
<1> QED BY <1>1, <1>2, <1>3, <1>4

\* Something is waited for when the count says so: a timeout, or a socket.
LEMMA SomethingComes ==
  ASSUME NEW b, Exact(b), b.event_count > 0, ~(b.event_count_active > 0)
  PROVE  Timed(b) # {} \/ \E e \in All : "inserted" \in b.flags[e]
<1>0. b \in Base /\ IsFiniteSet(OnLists(b)) /\ IsFiniteSet(ActiveOnes(b))
  BY Finite DEF Exact
<1>1. OnLists(b) # {}
  <2>1. Cardinality(OnLists(b)) # 0
    BY DEF Exact, CountsExact
  <2> QED BY <1>0, <2>1, FS_EmptySet
<1>2. ActiveOnes(b) = {}
  <2>1. Cardinality(ActiveOnes(b)) \in Nat /\ b.event_count_active = Cardinality(ActiveOnes(b))
    BY <1>0, FS_CardinalityType DEF Exact, CountsExact
  <2>2. Cardinality(ActiveOnes(b)) = 0
    BY <2>1
  <2> QED BY <1>0, <2>2, FS_EmptySet
<1>3. PICK e \in Event, list \in Lists : list \in b.flags[e]
  BY <1>1 DEF OnLists
<1>4. e \in All /\ ev_signal \in All
  BY DEF All
<1>5. list \in {"timeout", Waits(e)}
  BY <1>2, <1>3, <1>4 DEF Exact, Fits, Fit, ActiveOnes
<1>6. CASE list = "timeout"
  BY <1>3, <1>4, <1>6 DEF Timed
<1>7. CASE list = "inserted"
  BY <1>3, <1>4, <1>7
<1>8. CASE list = "signal" /\ e \in Signals
  BY <1>3, <1>4, <1>8 DEF Exact, Fits
<1> QED BY <1>5, <1>6, <1>7, <1>8 DEF Waits

LEMMA SelectStep ==
  ASSUME IInv, Select
  PROVE  IInv'
<1> DEFINE b == timeout_correct(base)
           n == gettime(b)
<1>0. /\ base \in Base /\ Exact(base) /\ clock \in Nat
  BY DEF IInv, Exact, TypeOK
<1>1. /\ Exact(b) /\ Calmer(base, b) /\ b.calls = base.calls /\ b.flags = base.flags
      /\ b.event_count_active = base.event_count_active /\ b.event_count = base.event_count
  BY <1>0, CorrectExact
<1>2. /\ base' = [b EXCEPT !.event_tv = n, !.tv_cache = 0]
      /\ IF Polls THEN wait' = 0 ELSE timeout_next(b)
      /\ at = "loop" /\ at' = "select" /\ base.event_count > 0
      /\ UNCHANGED <<sig, cur, queue, selected, scan, flags, clock, ready, ncalled, nsignals, deleted>>
  BY DEF Select, GoesOn, Loops
<1> HIDE DEF b
<1>3. b \in Base /\ n \in Nat
  BY <1>0, <1>1, TimeIsNat DEF Exact
<1> HIDE DEF n
<1>4. base' \in Base
  <2>1. [b EXCEPT !.event_tv = n] \in Base
    BY <1>3, ClockTyped
  <2> DEFINE d == [b EXCEPT !.event_tv = n]
  <2>2. base' = [d EXCEPT !.tv_cache = 0]
    BY <1>2
  <2> HIDE DEF d
  <2> QED BY <2>1, <2>2, ClockTyped DEF d
<1>5. /\ base'.flags = b.flags /\ base'.activequeues = b.activequeues
      /\ base'.event_count = b.event_count /\ base'.event_count_active = b.event_count_active
      /\ base'.ncalls = b.ncalls /\ base'.pncalls = b.pncalls /\ base'.calls = b.calls
  BY <1>2, <1>3 DEF Base
<1>6. Exact(base')
  BY <1>1, <1>4, <1>5, SameQueues
<1>7. wait' \in Int /\ (wait' = Forever => Timed(b) = {} /\ ~(base.event_count_active > 0))
  <2>1. CASE Polls
    BY <1>2, <2>1 DEF Forever
  <2>2. CASE ~Polls
    <3>1. timeout_next(b) /\ ~(base.event_count_active > 0)
      BY <1>2, <2>2 DEF Polls
    <3>2. CASE Timed(b) = {}
      BY <3>1, <3>2 DEF timeout_next, Forever
    <3>3. CASE Timed(b) # {}
      <4>1. PICK e \in Event : wait' = Remaining(b, e)
        BY <3>1, <3>3 DEF timeout_next
      <4>2. b.timeout[e] \in Int /\ gettime(b) \in Nat
        BY <1>0, <1>3, TimeIsNat DEF Base, All
      <4> QED BY <4>1, <4>2 DEF Remaining, Forever
    <3> QED BY <3>2, <3>3
  <2> QED BY <2>1, <2>2
<1>8. Bounded'
  BY <1>1, <1>2, <1>5, <1>7, SomethingComes DEF Bounded, Sockets
<1>9. TypeOK'
  BY <1>2, <1>4, <1>7 DEF IInv, TypeOK
<1>10. selected' = {} /\ scan' = {} /\ base'.flags = base.flags /\ base'.ncalls = base.ncalls
  BY <1>1, <1>2, <1>5 DEF IInv, Found, Calmer
<1>11. Found' /\ Gone' /\ Points' /\ Pair'
  BY <1>2, <1>10 DEF IInv, Found, Gone, Points, Pair
<1> QED BY <1>6, <1>8, <1>9, <1>11 DEF IInv

LEMMA SelectReturnsStep ==
  ASSUME IInv, SelectReturns
  PROVE  IInv'
<1>1. /\ at = "select" /\ selected' = {e \in All : IsReady(e)}
      /\ \/ at' = "scan" /\ scan' = {e \in Signals : "signal" \in base.flags[e]}
         \/ at' = "activate" /\ scan' = scan
      /\ sig' \in {sig, [sig EXCEPT !.caught = FALSE]} /\ wait' = 0
      /\ UNCHANGED <<base, cur, queue, flags, clock, ready, ncalled, nsignals, deleted>>
  BY DEF SelectReturns, Loops
<1>2. scan = {} /\ sig \in [caught : BOOLEAN, count : [Signals -> Nat], bytes : Nat]
  BY <1>1 DEF IInv, Found, TypeOK
<1>3. sig' \in [caught : BOOLEAN, count : [Signals -> Nat], bytes : Nat] /\ sig'.bytes = sig.bytes
  BY <1>1, <1>2
<1>4. selected' \subseteq All /\ scan' \subseteq Signals
  BY <1>1, <1>2
<1>5. TypeOK' /\ Exact(base)'
  BY <1>1, <1>3, <1>4 DEF IInv, TypeOK
<1>6. Found'
  BY <1>1, <1>2 DEF IInv, Found, IsReady
<1>7. Pair'
  BY <1>1, <1>3 DEF IInv, Pair, IsReady
<1>8. Gone' /\ Points' /\ Bounded'
  BY <1>1 DEF IInv, Gone, Points, Bounded
<1> QED BY <1>5, <1>6, <1>7, <1>8 DEF IInv

\* A step of the loop that makes one event active, of which it may have taken off the rest.
LEMMA MadeActive ==
  ASSUME IInv, Exact(base'), NEW e \in All, e \notin deleted,
         at \in {"scan", "activate", "timeouts"}, at' \in {"scan", "reset", "activate", "timeouts"},
         \A x \in All : x # e => base'.flags[x] = base.flags[x],
         e # ev_signal => base'.ncalls[ev_signal] = base.ncalls[ev_signal],
         e = ev_signal => /\ base'.flags[e] = base.flags[e] \cup {"active"}
                          /\ sig.bytes > 0 /\ base'.ncalls[e] \in {base.ncalls[e], 1},
         selected' \subseteq selected \ {e}, selected' # {} => at' \in {"scan", "reset", "activate"},
         scan' \subseteq scan \ {e}, scan' # {} => at' \in {"scan", "reset"}, cur' \in All,
         UNCHANGED <<sig, queue, wait, flags, clock, ready, ncalled, nsignals, deleted>>
  PROVE  IInv'
<1>1. TypeOK'
  BY DEF IInv, TypeOK, Exact
<1>2. selected \subseteq All /\ scan \subseteq All /\ deleted \subseteq All /\ ev_signal \in All
  BY DEF IInv, TypeOK, All
<1>3. Found'
  BY <1>2 DEF IInv, Found
<1>4. Gone'
  BY <1>2 DEF IInv, Gone
<1>5. Points' /\ Bounded'
  BY DEF Points, Bounded
<1>6. Pair'
  <2>1. CASE e = ev_signal
    BY <1>2, <2>1 DEF IInv, Pair
  <2>2. CASE e # ev_signal
    BY <1>2, <2>2 DEF IInv, Pair
  <2> QED BY <2>1, <2>2
<1> QED BY <1>1, <1>3, <1>4, <1>5, <1>6 DEF IInv

LEMMA ScanSignalStep ==
  ASSUME IInv, NEW e \in Signals, ScanSignal(e)
  PROVE  IInv'
<1>0. /\ base \in Base /\ Exact(base) /\ e \in Event /\ e \in All /\ e # ev_signal
      /\ sig \in [caught : BOOLEAN, count : [Signals -> Nat], bytes : Nat] /\ sig.count[e] \in Nat
      /\ cur \in All /\ queue \in 0 .. NQueues - 1 /\ wait \in Int
  BY DEF IInv, Exact, TypeOK, All
<1>1. /\ at = "scan" /\ e \in scan /\ scan' = scan \ {e}
      /\ UNCHANGED <<sig, queue, selected, wait, flags, clock, ready, ncalled, nsignals, deleted>>
  BY DEF ScanSignal, Loops
<1>2. CASE sig.count[e] = 0
  <2>1. UNCHANGED <<base, at, cur>>
    BY <1>2 DEF ScanSignal
  <2> QED BY <1>0, <1>1, <2>1, QuietStep
<1>3. CASE sig.count[e] # 0
  <2> DEFINE d == IF e \in Persist THEN base ELSE event_del(base, e)
             none == {}
             n == sig.count[e]
             c == event_active(d, e, none, n)
  <2>1. base' = c /\ at' = "reset" /\ cur' = e
    BY <1>3 DEF ScanSignal
  <2>2. /\ Exact(d) /\ d.ncalls = base.ncalls
        /\ \A x \in All : x # e => d.flags[x] = base.flags[x]
    <3>1. CASE e \in Persist
      BY <1>0, <3>1
    <3>2. CASE e \notin Persist
      <4>1. d = event_del(base, e)
        BY <3>2
      <4> HIDE DEF d
      <4>2. Exact(d) /\ Calmer(base, d) /\ d.flags = [base.flags EXCEPT ![e] = {}]
        BY <1>0, <4>1, DelExact
      <4> QED BY <1>0, <4>2 DEF Calmer, Base
    <3> QED BY <3>1, <3>2
  <2>n. none \in SUBSET {"timeout"} /\ n \in Nat
    BY <1>0
  <2> HIDE DEF d, none, n
  <2>3. /\ Exact(c) /\ c.flags = [d.flags EXCEPT ![e] = @ \cup {"active"}]
        /\ \A x \in All : x # e => c.ncalls[x] = d.ncalls[x]
    <3>1. LET x == event_active(d, e, none, n) IN
          /\ Exact(x) /\ x.calls = d.calls
          /\ x.flags = [d.flags EXCEPT ![e] = @ \cup {"active"}]
          /\ \A y \in All : y # e => x.ncalls[y] = d.ncalls[y] /\ x.pncalls[y] = d.pncalls[y]
          /\ x.ncalls[e] \in {d.ncalls[e], n}
      BY <1>0, <2>2, <2>n, ActiveExact
    <3> QED BY <3>1
  <2> HIDE DEF c
  <2>4. /\ \A x \in All : x # e => base'.flags[x] = base.flags[x]
        /\ base'.ncalls[ev_signal] = base.ncalls[ev_signal]
    BY <1>0, <2>1, <2>2, <2>3 DEF Exact, Base, All
  <2>5. e \notin selected
    BY <1>0 DEF IInv, Found, Exact, Fits, Fit, Waits
  <2>6. e \notin deleted
    BY <1>1 DEF IInv, Found, Gone
  <2> QED BY <1>0, <1>1, <2>1, <2>3, <2>4, <2>5, <2>6, MadeActive
<1> QED BY <1>2, <1>3

LEMMA ActivateStep ==
  ASSUME IInv, NEW e \in All, Activate(e)
  PROVE  IInv'
<1> DEFINE none == {}
           c == event_active(base, e, none, 1)
<1>0. /\ base \in Base /\ Exact(base) /\ ev_signal \in All /\ cur \in All
      /\ none \in SUBSET {"timeout"}
  BY DEF IInv, Exact, TypeOK, All
<1>1. /\ at = "activate" /\ at' = "activate" /\ e \in selected /\ selected' = selected \ {e}
      /\ base' = c
      /\ UNCHANGED <<sig, cur, queue, scan, wait, flags, clock, ready, ncalled, nsignals, deleted>>
  BY DEF Activate, Loops
<1> HIDE DEF none
<1>2. /\ Exact(c) /\ c.flags = [base.flags EXCEPT ![e] = @ \cup {"active"}]
      /\ \A x \in All : x # e => c.ncalls[x] = base.ncalls[x]
      /\ c.ncalls[e] \in {base.ncalls[e], 1}
  <2>1. LET x == event_active(base, e, none, 1) IN
        /\ Exact(x) /\ x.calls = base.calls
        /\ x.flags = [base.flags EXCEPT ![e] = @ \cup {"active"}]
        /\ \A y \in All : y # e => x.ncalls[y] = base.ncalls[y] /\ x.pncalls[y] = base.pncalls[y]
        /\ x.ncalls[e] \in {base.ncalls[e], 1}
    BY <1>0, ActiveExact
  <2> QED BY <2>1
<1> HIDE DEF c
<1>3. e \notin deleted /\ scan = {}
  BY <1>1 DEF IInv, Found, Gone
<1>4. e = ev_signal => sig.bytes > 0
  BY <1>1 DEF IInv, Pair
<1>5. /\ \A x \in All : x # e => base'.flags[x] = base.flags[x]
      /\ base'.flags[e] = base.flags[e] \cup {"active"}
  BY <1>0, <1>1, <1>2 DEF Base
<1> QED BY <1>0, <1>1, <1>2, <1>3, <1>4, <1>5, MadeActive

LEMMA TimeoutProcessStep ==
  ASSUME IInv, NEW e \in Event, TimeoutProcess(e)
  PROVE  IInv'
<1> DEFINE d == event_del(base, e)
           due == {"timeout"}
           c == event_active(d, e, due, 1)
<1>0. /\ base \in Base /\ Exact(base) /\ ev_signal \in All /\ e \in All /\ e # ev_signal /\ cur \in All
      /\ due \in SUBSET {"timeout"}
  BY DEF IInv, Exact, TypeOK, All
<1>1. /\ at = "timeouts" /\ at' = "timeouts" /\ "timeout" \in base.flags[e] /\ base' = c
      /\ UNCHANGED <<sig, cur, queue, selected, scan, wait, flags, clock, ready, ncalled, nsignals, deleted>>
  BY DEF TimeoutProcess, Due, Top, Timed, Loops
<1> HIDE DEF due
<1>2. /\ Exact(d) /\ Calmer(base, d) /\ d.flags = [base.flags EXCEPT ![e] = {}]
  BY <1>0, DelExact
<1> HIDE DEF d
<1>3. /\ Exact(c) /\ c.flags = [d.flags EXCEPT ![e] = @ \cup {"active"}]
      /\ \A x \in All : x # e => c.ncalls[x] = d.ncalls[x]
  BY <1>0, <1>2, ActiveExact
<1> HIDE DEF c
<1>4. e \notin deleted /\ scan = {} /\ selected = {}
  BY <1>1 DEF IInv, Found, Gone
<1>5. /\ \A x \in All : x # e => base'.flags[x] = base.flags[x]
      /\ base'.ncalls[ev_signal] = base.ncalls[ev_signal]
  BY <1>0, <1>1, <1>2, <1>3 DEF Exact, Base, Calmer
<1> QED BY <1>0, <1>1, <1>3, <1>4, <1>5, MadeActive

LEMMA NextActiveStep ==
  ASSUME IInv, NextActive
  PROVE  IInv'
<1> DEFINE q == base.activequeues[queue]
           e == Head(q)
           b == IF e \in Persist \cup {ev_signal} THEN event_queue_remove(base, e, "active")
                                                  ELSE event_del(base, e)
           n == b.ncalls[e]
           P == [b.pncalls EXCEPT ![e] = "live"]
<1>0. /\ base \in Base /\ Exact(base) /\ ev_signal \in All /\ queue \in 0 .. NQueues - 1
  BY DEF IInv, Exact, TypeOK, All
<1>1. /\ at = "process" /\ at' = "calls" /\ q # <<>> /\ cur' = e
      /\ base' = [b EXCEPT !.calls = n, !.pncalls = P]
      /\ UNCHANGED <<sig, queue, selected, scan, wait, flags, clock, ready, ncalled, nsignals, deleted>>
  BY DEF NextActive, Loops
<1>2. e \in All /\ "active" \in base.flags[e]
  <2>1. q \in Seq(All)
    BY <1>0 DEF Base
  <2> HIDE DEF q
  <2>2. 1 \in DOMAIN q /\ e = q[1] /\ e \in All
    BY <1>1, <2>1
  <2>3. \A x \in All : (\E j \in DOMAIN q : q[j] = x) => x \in ActiveOnes(base)
    BY <1>0 DEF Exact, QueuesExact, q
  <2> QED BY <2>2, <2>3 DEF ActiveOnes
<1> HIDE DEF q, e
<1>3. /\ Exact(b) /\ b.ncalls = base.ncalls /\ b.pncalls = base.pncalls
      /\ \A x \in All : b.flags[x] \subseteq base.flags[x]
      /\ \A x \in All : x # e => b.flags[x] = base.flags[x]
      /\ e = ev_signal => b.flags[e] = base.flags[e] \ {"active"}
  <2>1. CASE e \in Persist \cup {ev_signal}
    <3>1. b = event_queue_remove(base, e, "active") /\ "active" \in Fit(e)
      BY <2>1 DEF Fit
    <3> HIDE DEF b
    <3>2. Exact(b) /\ Calmer(base, b) /\ b.flags = [base.flags EXCEPT ![e] = @ \ {"active"}]
      BY <1>0, <1>2, <3>1, RemoveExact
    <3> QED BY <1>0, <1>2, <3>2 DEF Calmer, Base
  <2>2. CASE e \notin Persist \cup {ev_signal}
    <3>1. b = event_del(base, e) /\ e \in Event
      BY <1>2, <2>2 DEF All
    <3> HIDE DEF b
    <3>2. Exact(b) /\ Calmer(base, b) /\ b.flags = [base.flags EXCEPT ![e] = {}]
      BY <1>0, <3>1, DelExact
    <3> QED BY <1>0, <1>2, <2>2, <3>2 DEF Calmer, Base
  <2> QED BY <2>1, <2>2
<1> HIDE DEF b
<1>4. b \in Base /\ n \in Nat /\ P \in [All -> {"null", "live", "dead"}] /\ P[e] = "live"
  BY <1>2, <1>3 DEF Exact, Base
<1> HIDE DEF P
<1>n. n = base.ncalls[e]
  BY <1>3
<1> HIDE DEF n
<1>5. /\ base' \in Base /\ base'.calls = n /\ base'.pncalls = P
      /\ base'.flags = b.flags /\ base'.activequeues = b.activequeues
      /\ base'.event_count = b.event_count /\ base'.event_count_active = b.event_count_active
      /\ base'.ncalls = base.ncalls
  <2>1. base' \in Base
    BY <1>1, <1>4, PointTyped
  <2> QED BY <1>1, <1>3, <1>4, <2>1 DEF Base
<1>6. Exact(base')
  BY <1>3, <1>5, SameQueues
<1>7. TypeOK'
  BY <1>1, <1>2, <1>5 DEF IInv, TypeOK
<1>8. selected = {} /\ scan = {}
  BY <1>1 DEF IInv, Found
<1>9. Found' /\ Bounded'
  BY <1>1, <1>8 DEF Found, Bounded
<1>10. Gone'
  <2>1. deleted \subseteq All
    BY DEF IInv, TypeOK, All
  <2>2. e \notin deleted
    BY <1>2 DEF IInv, Gone
  <2> QED BY <1>1, <1>3, <1>5, <2>1, <2>2 DEF IInv, Gone
<1>11. Points'
  BY <1>1, <1>4, <1>5, <1>n DEF Points
<1>12. Pair'
  <2>1. CASE e = ev_signal
    BY <1>0, <1>1, <1>2, <1>3, <1>5, <1>8, <1>n, <2>1 DEF IInv, Pair
  <2>2. CASE e # ev_signal
    BY <1>0, <1>1, <1>3, <1>5, <1>8, <2>2 DEF IInv, Pair
  <2> QED BY <2>1, <2>2
<1> QED BY <1>6, <1>7, <1>9, <1>10, <1>11, <1>12 DEF IInv

LEMMA CallbackStep ==
  ASSUME IInv, Callback
  PROVE  IInv'
<1> DEFINE n == base.calls - 1
           N == [base.ncalls EXCEPT ![cur] = n]
<1>0. /\ base \in Base /\ Exact(base) /\ cur \in All /\ ev_signal \in All /\ base.calls \in Nat
  BY DEF IInv, Exact, TypeOK, All, Base
<1>1. /\ at = "calls" /\ at' = "callback" /\ base.calls > 0
      /\ base' = [base EXCEPT !.calls = n, !.ncalls = N]
      /\ UNCHANGED <<sig, cur, queue, selected, scan, wait, flags, clock, ready, ncalled, nsignals, deleted>>
  BY DEF Callback, Loops
<1>2. /\ n \in Nat /\ N \in [All -> Nat] /\ N[cur] = n /\ \A x \in All : x # cur => N[x] = base.ncalls[x]
  BY <1>0, <1>1 DEF Base
<1> HIDE DEF N
<1>3. /\ base' \in Base /\ base'.calls = n /\ base'.ncalls = N
      /\ base'.flags = base.flags /\ base'.activequeues = base.activequeues
      /\ base'.event_count = base.event_count /\ base'.event_count_active = base.event_count_active
      /\ base'.pncalls = base.pncalls
  <2>1. base' \in Base
    BY <1>0, <1>1, <1>2, RunTyped
  <2> HIDE DEF n
  <2> QED BY <1>0, <1>1, <2>1 DEF Base
<1>4. Exact(base')
  BY <1>0, <1>3, SameQueues
<1>5. TypeOK'
  BY <1>1, <1>3 DEF IInv, TypeOK
<1>6. selected = {} /\ scan = {} /\ cur \notin deleted
  BY <1>0, <1>1 DEF IInv, Found, Gone
<1>7. Found' /\ Gone' /\ Bounded'
  BY <1>1, <1>3, <1>6 DEF IInv, Found, Gone, Bounded
<1>8. Points'
  BY <1>0, <1>1, <1>2, <1>3 DEF IInv, Points
<1>9. Pair'
  <2>1. CASE cur = ev_signal
    BY <1>0, <1>1, <1>2, <1>3, <1>6, <2>1 DEF IInv, Pair
  <2>2. CASE cur # ev_signal
    BY <1>0, <1>1, <1>2, <1>3, <1>6, <2>2 DEF IInv, Pair
  <2> QED BY <2>1, <2>2
<1> QED BY <1>4, <1>5, <1>7, <1>8, <1>9 DEF IInv

\* After a callback the next call is made, or a break ends them all.
LEMMA ReturnStep ==
  ASSUME IInv, Return \/ evsignal_cb
  PROVE  IInv'
<1> DEFINE P == [e \in All |-> IF base.pncalls[e] = "live" THEN "dead" ELSE base.pncalls[e]]
<1>0. /\ base \in Base /\ Exact(base) /\ ev_signal \in All /\ cur \in All
      /\ sig \in [caught : BOOLEAN, count : [Signals -> Nat], bytes : Nat]
      /\ 0 \in 0 .. NQueues - 1 /\ selected \subseteq All
  BY DEF IInv, Exact, TypeOK, All
<1>1. /\ at = "callback" /\ Returned
      /\ \/ cur # ev_signal /\ sig' = sig
         \/ cur = ev_signal /\ sig' = [sig EXCEPT !.bytes = 0]
      /\ UNCHANGED <<selected, scan, wait, flags, clock, ready, ncalled, nsignals, deleted>>
  BY DEF Return, evsignal_cb, Loops
<1>2. /\ selected = {} /\ scan = {}
      /\ sig' \in [caught : BOOLEAN, count : [Signals -> Nat], bytes : Nat]
      /\ cur # ev_signal => sig' = sig
      /\ cur = ev_signal => "active" \notin base.flags[ev_signal] /\ base.calls = 0
  BY <1>0, <1>1 DEF IInv, Found, Pair
<1>3. CASE base.event_break
  <2>1. /\ base' = [base EXCEPT !.calls = 0, !.pncalls = P] /\ at' \in {"program", "loop"}
        /\ cur' = ev_signal /\ queue' = 0
    BY <1>0, <1>1, <1>3 DEF Returned, Unwind, Base
  <2>2. P \in [All -> {"null", "live", "dead"}]
    BY <1>0 DEF Base
  <2> HIDE DEF P
  <2>3. /\ base' \in Base /\ base'.calls = 0 /\ base'.ncalls = base.ncalls
        /\ base'.flags = base.flags /\ base'.activequeues = base.activequeues
        /\ base'.event_count = base.event_count /\ base'.event_count_active = base.event_count_active
    <3>1. base' \in Base
      BY <1>0, <2>1, <2>2, PointTyped
    <3> QED BY <1>0, <2>1, <3>1 DEF Base
  <2>4. Exact(base')
    BY <1>0, <2>3, SameQueues
  <2>5. TypeOK'
    BY <1>0, <1>1, <1>2, <2>1, <2>3 DEF IInv, TypeOK
  <2>6. Found' /\ Gone' /\ Points' /\ Bounded'
    BY <1>1, <1>2, <2>1, <2>3 DEF IInv, Found, Gone, Points, Bounded
  <2>7. Pair'
    BY <1>1, <1>2, <2>1, <2>3 DEF IInv, Pair
  <2> QED BY <2>4, <2>5, <2>6, <2>7 DEF IInv
<1>4. CASE ~base.event_break
  <2>1. at' = "calls" /\ UNCHANGED <<base, cur, queue>>
    BY <1>1, <1>4 DEF Returned
  <2>2. TypeOK' /\ Exact(base)'
    BY <1>1, <1>2, <2>1 DEF IInv, TypeOK
  <2>3. Found' /\ Gone' /\ Points' /\ Bounded'
    BY <1>1, <1>2, <2>1 DEF IInv, Found, Gone, Points, Bounded
  <2>4. Pair'
    BY <1>1, <1>2, <2>1 DEF IInv, Pair
  <2> QED BY <2>2, <2>3, <2>4 DEF IInv
<1> QED BY <1>3, <1>4

LEMMA CallsDoneStep ==
  ASSUME IInv, CallsDone
  PROVE  IInv'
<1>1. /\ at = "calls" /\ at' = "process"
      /\ UNCHANGED <<base, sig, cur, queue, selected, scan, wait, flags, clock, ready, ncalled, nsignals, deleted>>
  BY DEF CallsDone, Loops
<1>2. TypeOK' /\ Exact(base)'
  BY <1>1 DEF IInv, TypeOK
<1>3. Found' /\ Gone' /\ Points' /\ Pair' /\ Bounded'
  BY <1>1 DEF IInv, Found, Gone, Points, Pair, Bounded
<1> QED BY <1>2, <1>3 DEF IInv

LEMMA ProcessDoneStep ==
  ASSUME IInv, ProcessDone
  PROVE  IInv'
<1> DEFINE P == [e \in All |-> IF base.pncalls[e] = "live" THEN "dead" ELSE base.pncalls[e]]
<1>0. /\ base \in Base /\ Exact(base) /\ ev_signal \in All /\ 0 \in 0 .. NQueues - 1
  BY DEF IInv, Exact, All
<1>1. /\ at = "process" /\ at' \in {"program", "loop"} /\ cur' = ev_signal /\ queue' = 0
      /\ base' = [base EXCEPT !.calls = 0, !.pncalls = P]
      /\ UNCHANGED <<sig, selected, scan, wait, flags, clock, ready, ncalled, nsignals, deleted>>
  BY <1>0 DEF ProcessDone, Unwind, Loops, Base
<1>2. P \in [All -> {"null", "live", "dead"}]
  BY <1>0 DEF Base
<1> HIDE DEF P
<1>3. /\ base' \in Base /\ base'.calls = 0 /\ base'.ncalls = base.ncalls
      /\ base'.flags = base.flags /\ base'.activequeues = base.activequeues
      /\ base'.event_count = base.event_count /\ base'.event_count_active = base.event_count_active
  <2>1. base' \in Base
    BY <1>0, <1>1, <1>2, PointTyped
  <2> QED BY <1>0, <1>1, <2>1 DEF Base
<1>4. Exact(base')
  BY <1>0, <1>3, SameQueues
<1>5. TypeOK'
  BY <1>0, <1>1, <1>3 DEF IInv, TypeOK
<1>6. selected = {} /\ scan = {}
  BY <1>1 DEF IInv, Found
<1>7. Found' /\ Gone' /\ Points' /\ Bounded' /\ Pair'
  BY <1>1, <1>3, <1>6 DEF IInv, Found, Gone, Points, Bounded, Pair
<1> QED BY <1>4, <1>5, <1>7 DEF IInv

-----------------------------------------------------------------------------
(* The theorems *)

LEMMA NextIInv ==
  ASSUME IInv, [Next]_vars, "activeself" \notin Calls
  PROVE  IInv'
<1>1. CASE Program
  BY <1>1, AddStep, DelStep, ActiveStep, BreakStep, ReadStep, EnterStep DEF Program
<1>2. CASE World
  BY <1>2, TimeStep, ReadableStep, HandlerStep DEF World
<1>3. CASE event_base_loop
  <2>1. Signals \subseteq Event
    OBVIOUS
  <2> QED BY <1>3, <2>1, ExitStep, NoEventsStep, SelectStep, SelectReturnsStep, ScanSignalStep, MovedOn,
             ActivateStep, TimeoutProcessStep, NextActiveStep, CallbackStep, ReturnStep, CallsDoneStep,
             ProcessDoneStep DEF event_base_loop
<1>4. CASE UNCHANGED vars
  <2>1. TypeOK' /\ Exact(base)'
    BY <1>4 DEF IInv, TypeOK, vars
  <2>2. Found' /\ Gone' /\ Points' /\ Pair' /\ Bounded'
    BY <1>4 DEF IInv, Found, Gone, Points, Pair, Bounded, Sockets, vars
  <2> QED BY <2>1, <2>2 DEF IInv
<1> QED BY <1>1, <1>2, <1>3, <1>4 DEF Next

\* The inductive invariant holds as long as no callback activates its own event.
THEOREM Inductive ==
  ASSUME "activeself" \notin Calls
  PROVE  Spec => []IInv
<1>1. IInv /\ [Next]_vars => IInv'
  BY NextIInv
<1> QED BY <1>1, InitIInv, PTL DEF Spec

\* Every variable, and every field of the event_base, stays in its type.
THEOREM TypeInvariant ==
  ASSUME "activeself" \notin Calls
  PROVE  Spec => []TypeOK
<1>1. IInv => TypeOK
  BY DEF IInv
<1> QED BY <1>1, Inductive, PTL

\* For any events, priorities, timeouts and calls of the callbacks the active queues and the
\* counts agree with the flags of the events (event_queue_insert and event_queue_remove).
THEOREM QueuesAlwaysAgree ==
  ASSUME "activeself" \notin Calls
  PROVE  Spec => []QueuesAgree
<1>1. IInv => QueuesAgree
  BY DEF IInv, Exact, QueuesAgree
<1> QED BY <1>1, Inductive, PTL

\* The loop never sleeps without a timeout or a socket that could wake it, and evsignal_cb is
\* never called without a byte to read (event_base_loop and evsignal_add).
THEOREM NeverSleepsForGood ==
  ASSUME "activeself" \notin Calls
  PROVE  Spec => []NeverStuck
<1>1. IInv => NeverStuck
  BY DEF IInv, Bounded, Pair, NeverStuck
<1> QED BY <1>1, Inductive, PTL

\* However often an event was activated, once it is deleted its callback is not called again
\* (event_del and event_process_active).
THEOREM DeletedNotCalled ==
  ASSUME "activeself" \notin Calls
  PROVE  Spec => NotCalledIfDeleted
<1>1. IInv /\ [Next]_vars => [at = "calls" /\ at' = "callback" => cur \notin deleted]_vars
  <2> SUFFICES ASSUME IInv, Next, at = "calls", at' = "callback"
               PROVE  cur \notin deleted
    BY DEF vars
  <2>1. Callback
    BY DEF Next, Program, World, event_base_loop, Add, AddFails, Del, Active, Call, Programs,
           event_base_loopbreak, event_loopexit_cb, ReadDescriptor, EnterLoop, Tick, ClockSetBack,
           Readable, evsignal_handler, Outside, Exit, NoEvents, GoesOn, Select, SelectReturns, ScanSignal,
           ResetSignal, ScanDone, Activate, Dispatched, TimeoutProcess, TimeoutsDone, NextActive,
           Return, evsignal_cb, CallsDone, ProcessDone
  <2>2. base.calls > 0
    BY <2>1 DEF Callback
  <2> QED BY <2>2 DEF IInv, Gone
<1> QED BY <1>1, Inductive, PTL DEF Spec, NotCalledIfDeleted

=============================================================================
