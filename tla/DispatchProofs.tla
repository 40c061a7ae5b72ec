---------------------------- MODULE DispatchProofs ----------------------------
(* The safety properties of Dispatch for any number of clients, threads and   *)
(* file descriptors.                                                          *)
EXTENDS Dispatch, TLAPS

\* What is appended to a sequence comes last and leaves the rest alone.
LEMMA AppendFacts ==
  ASSUME NEW S, NEW q \in Seq(S), NEW x \in S
  PROVE  /\ Append(q, x) \in Seq(S)
         /\ Len(Append(q, x)) = Len(q) + 1
         /\ DOMAIN Append(q, x) = 1 .. Len(q) + 1
         /\ \A j \in 1 .. Len(q) : Append(q, x)[j] = q[j]
         /\ Append(q, x)[Len(q) + 1] = x
  OBVIOUS

\* The tail of a sequence that is not empty is the sequence moved by one.
LEMMA TailFacts ==
  ASSUME NEW S, NEW q \in Seq(S), q # <<>>
  PROVE  /\ Tail(q) \in Seq(S)
         /\ Len(q) \in Nat \ {0}
         /\ Len(Tail(q)) = Len(q) - 1
         /\ DOMAIN Tail(q) = 1 .. Len(q) - 1
         /\ \A j \in 1 .. Len(q) - 1 : Tail(q)[j] = q[j + 1]
         /\ Head(q) = q[1] /\ Head(q) \in S
  OBVIOUS

LEMMA NextThreadType ==
  ASSUME last_thread \in Threads
  PROVE  NextThread \in Threads
  BY DispatchAssumption DEF Threads, NextThread

\* A worker has a client in hand only on its way to conn_new.
LEMMA WorkerType ==
  ASSUME TypeOK, NEW t \in Threads
  PROVE  /\ worker[t].at # "new" => worker[t].c = {}
         /\ worker = [u \in Threads |-> worker[u]]
  BY DEF TypeOK, At

\* Every variable keeps its type.
THEOREM TypeInvariant == Spec => []TypeOK
<1>1. Init => TypeOK
  BY DispatchAssumption DEF Init, TypeOK, Threads, Loop
<1>2. TypeOK /\ [Next]_vars => TypeOK'
  <2> SUFFICES ASSUME TypeOK, [Next]_vars PROVE TypeOK'
    OBVIOUS
  <2> USE DEF TypeOK
  <2>1. CASE \E c \in Clients : Connect(c)
    BY <2>1 DEF Connect, Move
  <2>2. CASE \E c \in Clients : Accept(c)
    <3>1. PICK c \in Clients : Accept(c)
      BY <2>2
    <3>2. NextThread \in Threads
      BY NextThreadType
    <3>3. new_conn_queue' \in [Threads -> Seq(Clients)]
      BY <3>1, <3>2, AppendFacts DEF Accept
    <3> QED
      BY <3>1, <3>2, <3>3 DEF Accept, Move
  <2>3. CASE \E c \in Clients : AcceptFails(c)
    BY <2>3 DEF AcceptFails, Move
  <2>4. CASE Notify
    BY <2>4 DEF Notify
  <2>5. CASE TooManyOpen
    BY <2>5 DEF TooManyOpen
  <2>6. CASE DisableListen
    BY <2>6 DEF DisableListen
  <2>7. CASE \E t \in Threads : ReadNotify(t)
    BY <2>7 DEF ReadNotify
  <2>8. CASE \E t \in Threads : Pop(t)
    <3>1. PICK t \in Threads : Pop(t)
      BY <2>8
    <3>2. new_conn_queue[t] \in Seq(Clients)
      OBVIOUS
    <3>3. CASE new_conn_queue[t] = <<>>
      BY <3>1, <3>2, <3>3 DEF Pop, TakeHead, Loop
    <3>4. CASE new_conn_queue[t] # <<>>
      <4>1. Tail(new_conn_queue[t]) \in Seq(Clients) /\ Head(new_conn_queue[t]) \in Clients
        BY <3>2, <3>4, TailFacts
      <4> QED
        BY <3>1, <3>4, <4>1 DEF Pop, TakeHead
    <3> QED
      BY <3>3, <3>4
  <2>9. CASE \E t \in Threads : EnableListen(t)
    BY <2>9 DEF EnableListen, Loop
  <2>10. CASE \E t \in Threads, c \in Clients : ConnNew(t, c)
    BY <2>10 DEF ConnNew, Move, Loop
  <2>11. CASE \E t \in Threads, c \in Clients : ConnNewFails(t, c)
    BY <2>11 DEF ConnNewFails, Move, Loop
  <2>12. CASE \E t \in Threads, c \in Clients : ConnClose(t, c)
    BY <2>12 DEF ConnClose, Move
  <2>13. CASE UNCHANGED vars
    BY <2>13 DEF vars
  <2> QED
    BY <2>1, <2>2, <2>3, <2>4, <2>5, <2>6, <2>7, <2>8, <2>9, <2>10, <2>11, <2>12, <2>13
    DEF Next, MainStep, WorkerStep
<1> QED
  BY <1>1, <1>2, PTL DEF Spec

-----------------------------------------------------------------------------
\* No connection waits in a queue for a wakeup that was never sent: the bytes in
\* a thread's pipe are as many as its queue has connections, but for the one
\* about to be written and the one just read.
THEOREM Notified == Spec => []NotifiedOfEach
<1>1. Init => NotifiedOfEach
  BY DEF Init, NotifiedOfEach, Loop, Threads
<1>2. TypeOK /\ NotifiedOfEach /\ [Next]_vars => NotifiedOfEach'
  <2> SUFFICES ASSUME TypeOK, NotifiedOfEach, [Next]_vars,
                      NEW u \in Threads
               PROVE  (Len(new_conn_queue[u]) =
                        notify_pipe[u] + (IF main = "notify" /\ last_thread = u THEN 1 ELSE 0)
                                       + (IF worker[u].at = "pop" THEN 1 ELSE 0))'
    BY DEF NotifiedOfEach
  <2>0. /\ new_conn_queue[u] \in Seq(Clients) /\ notify_pipe[u] \in Nat
        /\ Len(new_conn_queue[u]) =
             notify_pipe[u] + (IF main = "notify" /\ last_thread = u THEN 1 ELSE 0)
                            + (IF worker[u].at = "pop" THEN 1 ELSE 0)
    BY DEF TypeOK, NotifiedOfEach
  <2>1. CASE \E c \in Clients : Connect(c) \/ AcceptFails(c)
    BY <2>0, <2>1 DEF Connect, AcceptFails
  <2>2. CASE \E c \in Clients : Accept(c)
    <3>1. PICK c \in Clients : Accept(c)
      BY <2>2
    <3>2. NextThread \in Threads
      BY NextThreadType DEF TypeOK
    <3>3. CASE u = NextThread
      <4>1. Len(new_conn_queue'[u]) = Len(new_conn_queue[u]) + 1
        BY <2>0, <3>1, <3>2, <3>3, AppendFacts DEF Accept, TypeOK
      <4> QED
        BY <2>0, <3>1, <3>3, <4>1 DEF Accept
    <3>4. CASE u # NextThread
      BY <2>0, <3>1, <3>4 DEF Accept, TypeOK
    <3> QED
      BY <3>3, <3>4
  <2>4. CASE Notify
    BY <2>0, <2>4 DEF Notify, TypeOK
  <2>5. CASE TooManyOpen \/ DisableListen
    BY <2>0, <2>5 DEF TooManyOpen, DisableListen
  <2>7. CASE \E t \in Threads : ReadNotify(t)
    BY <2>0, <2>7 DEF ReadNotify, TypeOK, Loop
  <2>8. CASE \E t \in Threads : Pop(t)
    <3>1. PICK t \in Threads : Pop(t)
      BY <2>8
    <3>2. CASE t # u
      BY <2>0, <3>1, <3>2 DEF Pop, TakeHead, TypeOK
    <3>3. CASE t = u
      <4>1. Len(new_conn_queue[u]) > 0
        BY <2>0, <3>1, <3>3 DEF Pop, TakeHead
      <4>2. new_conn_queue[u] # <<>>
        BY <4>1
      <4>3. Len(new_conn_queue'[u]) = Len(new_conn_queue[u]) - 1
        BY <2>0, <3>1, <3>3, <4>2, TailFacts DEF Pop, TypeOK
      <4>4. worker'[u].at = "new"
        BY <3>1, <3>3, <4>2 DEF Pop, TakeHead, TypeOK, At
      <4> QED
        BY <2>0, <3>1, <3>3, <4>3, <4>4 DEF Pop, TakeHead
    <3> QED
      BY <3>2, <3>3
  <2>9. CASE \E t \in Threads : EnableListen(t)
    BY <2>0, <2>9 DEF EnableListen, TypeOK, Loop
  <2>10. CASE \E t \in Threads, c \in Clients : ConnNew(t, c) \/ ConnNewFails(t, c)
    <3>1. PICK t \in Threads, c \in Clients : ConnNew(t, c) \/ ConnNewFails(t, c)
      BY <2>10
    <3>2. worker[t].at # "pop" /\ worker'[t].at # "pop"
      BY <3>1 DEF ConnNew, ConnNewFails, TypeOK, Loop, At
    <3>3. u # t => worker'[u] = worker[u]
      BY <3>1 DEF ConnNew, ConnNewFails, TypeOK
    <3>4. UNCHANGED <<main, last_thread, new_conn_queue, notify_pipe>>
      BY <3>1 DEF ConnNew, ConnNewFails
    <3> QED
      BY <2>0, <3>2, <3>3, <3>4
  <2>12. CASE \E t \in Threads, c \in Clients : ConnClose(t, c)
    BY <2>0, <2>12 DEF ConnClose, TypeOK, Loop
  <2>13. CASE UNCHANGED vars
    BY <2>0, <2>13 DEF vars
  <2> QED
    BY <2>1, <2>2, <2>4, <2>5, <2>7, <2>8, <2>9, <2>10, <2>12, <2>13
    DEF Next, MainStep, WorkerStep
<1> QED
  BY <1>1, <1>2, TypeInvariant, PTL DEF Spec

-----------------------------------------------------------------------------
\* An accepted connection is never lost, duplicated or given to two threads.
THEOREM OwnedByOne == Spec => []OneOwner
<1>1. Init => OneOwner
  BY DEF Init, OneOwner, InQueue, Loop, Threads
<1>2. TypeOK /\ OneOwner /\ [Next]_vars => OneOwner'
  <2> SUFFICES ASSUME TypeOK, OneOwner, [Next]_vars PROVE OneOwner'
    OBVIOUS
  <2>1. CASE \E c \in Clients : Connect(c)
    BY <2>1 DEF Connect, Move, TypeOK, OneOwner, InQueue
  <2>2. CASE \E c \in Clients : Accept(c)
    <3>1. PICK c \in Clients : Accept(c)
      BY <2>2
    <3> DEFINE n == NextThread
               q == new_conn_queue[n]
    <3>2. n \in Threads /\ q \in Seq(Clients)
      BY NextThreadType DEF TypeOK
    <3>3. /\ client[c] = "backlog" /\ client' = [client EXCEPT ![c] = "queued"]
          /\ UNCHANGED <<worker, conns>>
      BY <3>1 DEF Accept, Move, Backlog
    <3>4. /\ \A t \in Threads : t # n => new_conn_queue'[t] = new_conn_queue[t]
          /\ new_conn_queue'[n] = Append(q, c)
      BY <3>1, <3>2 DEF Accept, TypeOK
    <3>5. /\ DOMAIN q = 1 .. Len(q) /\ Len(q) \in Nat
          /\ DOMAIN new_conn_queue'[n] = 1 .. Len(q) + 1
          /\ \A j \in 1 .. Len(q) : new_conn_queue'[n][j] = q[j]
          /\ new_conn_queue'[n][Len(q) + 1] = c
      BY <3>2, <3>4, AppendFacts
    <3>6. \A t \in Threads : ~InQueue(t, c) /\ c \notin worker[t].c /\ c \notin conns[t]
      BY <3>3 DEF OneOwner
    <3>7. \A t \in Threads, d \in Clients :
            InQueue(t, d)' <=> InQueue(t, d) \/ (t = n /\ d = c)
      <4> SUFFICES ASSUME NEW t \in Threads, NEW d \in Clients
                   PROVE  InQueue(t, d)' <=> InQueue(t, d) \/ (t = n /\ d = c)
        OBVIOUS
      <4>1. CASE t # n
        BY <3>4, <4>1 DEF InQueue
      <4>2. CASE t = n
        BY <3>5, <4>2 DEF InQueue
      <4> QED
        BY <4>1, <4>2
    <3>8. \A d \in Clients :
            /\ client'[d] = "queued" <=> \E t \in Threads : InQueue(t, d)' \/ d \in worker'[t].c
            /\ client'[d] = "served" <=> \E t \in Threads : d \in conns'[t]
      BY <3>2, <3>3, <3>6, <3>7 DEF OneOwner, TypeOK
    <3>9. \A t, u \in Threads, d \in Clients :
            /\ d \in conns'[t] /\ d \in conns'[u] => t = u
            /\ d \in worker'[t].c /\ d \in worker'[u].c => t = u
            /\ d \in worker'[t].c => ~InQueue(u, d)'
      BY <3>3, <3>6, <3>7 DEF OneOwner
    <3>10. \A t, u \in Threads :
             \A j \in DOMAIN new_conn_queue'[t], k \in DOMAIN new_conn_queue'[u] :
               new_conn_queue'[t][j] = new_conn_queue'[u][k] => t = u /\ j = k
      <4> SUFFICES ASSUME NEW t \in Threads, NEW u \in Threads,
                          NEW j \in DOMAIN new_conn_queue'[t], NEW k \in DOMAIN new_conn_queue'[u],
                          new_conn_queue'[t][j] = new_conn_queue'[u][k]
                   PROVE  t = u /\ j = k
        OBVIOUS
      <4>1. \A w \in Threads : \A i \in DOMAIN new_conn_queue[w] : new_conn_queue[w][i] # c
        BY <3>6 DEF InQueue
      <4>2. \/ j \in DOMAIN new_conn_queue[t] /\ new_conn_queue'[t][j] = new_conn_queue[t][j]
            \/ t = n /\ j = Len(q) + 1 /\ new_conn_queue'[t][j] = c
        BY <3>4, <3>5
      <4>3. \/ k \in DOMAIN new_conn_queue[u] /\ new_conn_queue'[u][k] = new_conn_queue[u][k]
            \/ u = n /\ k = Len(q) + 1 /\ new_conn_queue'[u][k] = c
        BY <3>4, <3>5
      <4> QED
        BY <4>1, <4>2, <4>3 DEF OneOwner
    <3> QED
      BY <3>8, <3>9, <3>10 DEF OneOwner
  <2>3. CASE \E c \in Clients : AcceptFails(c)
    BY <2>3 DEF AcceptFails, Move, Backlog, TypeOK, OneOwner, InQueue
  <2>4. CASE Notify \/ TooManyOpen \/ DisableListen
    BY <2>4 DEF Notify, TooManyOpen, DisableListen, OneOwner, InQueue
  <2>7. CASE \E t \in Threads : ReadNotify(t)
    <3>1. PICK t \in Threads : ReadNotify(t)
      BY <2>7
    <3>2. /\ worker[t].c = {} /\ worker'[t].c = {}
          /\ \A u \in Threads : u # t => worker'[u] = worker[u]
      BY <3>1, WorkerType DEF ReadNotify, Loop
    <3>3. \A u \in Threads : worker'[u].c = worker[u].c
      BY <3>2
    <3> QED
      BY <3>1, <3>3 DEF ReadNotify, OneOwner, InQueue
  <2>8. CASE \E t \in Threads : Pop(t)
    <3>1. PICK t \in Threads : Pop(t)
      BY <2>8
    <3> DEFINE q == new_conn_queue[t]
    <3>2. q \in Seq(Clients) /\ worker[t].c = {} /\ UNCHANGED <<client, conns>>
      BY <3>1, WorkerType DEF Pop, TakeHead, TypeOK
    <3>3. CASE q = <<>>
      <4>1. new_conn_queue' = new_conn_queue
        BY <3>1, <3>3 DEF Pop, TypeOK
      <4>2. \A u \in Threads : worker'[u].c = worker[u].c
        BY <3>1, <3>2, <3>3 DEF Pop, TakeHead, TypeOK, Loop
      <4> QED
        BY <3>2, <4>1, <4>2 DEF OneOwner, InQueue
    <3>4. CASE q # <<>>
      <4>0. PICK h \in Clients : h = q[1]
        BY <3>2, <3>4, TailFacts
      <4>1. /\ Len(q) \in Nat \ {0} /\ h \in Clients /\ DOMAIN q = 1 .. Len(q)
            /\ new_conn_queue'[t] = Tail(q) /\ DOMAIN Tail(q) = 1 .. Len(q) - 1
            /\ \A j \in 1 .. Len(q) - 1 : new_conn_queue'[t][j] = q[j + 1]
            /\ Head(q) = h /\ q[1] = h
        BY <4>0, <3>1, <3>2, <3>4, TailFacts DEF Pop, TypeOK
      <4>2. /\ \A u \in Threads : u # t => new_conn_queue'[u] = new_conn_queue[u]
            /\ \A u \in Threads : u # t => worker'[u] = worker[u]
            /\ worker'[t].c = {h}
        BY <3>1, <3>4, <4>1 DEF Pop, TakeHead, TypeOK, At
      <4>3. InQueue(t, h) /\ ~InQueue(t, h)'
        <5>1. 1 \in DOMAIN q /\ q[1] = h
          BY <4>1
        <5>2. ASSUME NEW j \in 1 .. Len(q) - 1, q[j + 1] = h PROVE FALSE
          <6>1. j + 1 \in DOMAIN q /\ j + 1 # 1
            BY <4>1
          <6> QED
            BY <5>1, <5>2, <6>1 DEF OneOwner
        <5>3. InQueue(t, h)
          BY <5>1 DEF InQueue
        <5>4. \A j \in DOMAIN new_conn_queue'[t] : new_conn_queue'[t][j] # h
          BY <4>1, <5>2
        <5> QED
          BY <5>3, <5>4 DEF InQueue
      <4>4. \A u \in Threads : (u # t => ~InQueue(u, h)) /\ h \notin worker[u].c
        BY <4>1, <4>3 DEF InQueue, OneOwner
      <4>5. \A u \in Threads, d \in Clients : InQueue(u, d)' <=> InQueue(u, d) /\ d # h
        <5> SUFFICES ASSUME NEW u \in Threads, NEW d \in Clients
                     PROVE  InQueue(u, d)' <=> InQueue(u, d) /\ d # h
          OBVIOUS
        <5>1. CASE u # t
          BY <4>2, <4>4, <5>1 DEF InQueue
        <5>2. CASE u = t /\ d = h
          BY <4>3, <5>2 DEF InQueue
        <5>3. CASE u = t /\ d # h
          <6>1. InQueue(t, d) => InQueue(t, d)'
            <7> SUFFICES ASSUME NEW j \in 1 .. Len(q), q[j] = d PROVE InQueue(t, d)'
              BY <4>1 DEF InQueue
            <7>1. j # 1 /\ j - 1 \in 1 .. Len(q) - 1
              BY <4>1, <5>3
            <7>2. new_conn_queue'[t][j - 1] = d
              BY <4>1, <7>1
            <7> QED
              BY <4>1, <7>1, <7>2 DEF InQueue
          <6>2. InQueue(t, d)' => InQueue(t, d)
            BY <4>1 DEF InQueue
          <6> QED
            BY <5>3, <6>1, <6>2
        <5> QED
          BY <5>1, <5>2, <5>3
      <4>6. \A d \in Clients :
              /\ client'[d] = "queued" <=> \E u \in Threads : InQueue(u, d)' \/ d \in worker'[u].c
              /\ client'[d] = "served" <=> \E u \in Threads : d \in conns'[u]
        BY <3>2, <4>2, <4>3, <4>5 DEF OneOwner
      <4>7. \A u, w \in Threads, d \in Clients :
              /\ d \in conns'[u] /\ d \in conns'[w] => u = w
              /\ d \in worker'[u].c /\ d \in worker'[w].c => u = w
              /\ d \in worker'[u].c => ~InQueue(w, d)'
        BY <3>2, <4>2, <4>4, <4>5 DEF OneOwner
      <4>8. \A u, w \in Threads :
              \A j \in DOMAIN new_conn_queue'[u], k \in DOMAIN new_conn_queue'[w] :
                new_conn_queue'[u][j] = new_conn_queue'[w][k] => u = w /\ j = k
        <5> SUFFICES ASSUME NEW u \in Threads, NEW w \in Threads,
                            NEW j \in DOMAIN new_conn_queue'[u], NEW k \in DOMAIN new_conn_queue'[w],
                            new_conn_queue'[u][j] = new_conn_queue'[w][k]
                     PROVE  u = w /\ j = k
          OBVIOUS
        <5> DEFINE jj == IF u = t THEN j + 1 ELSE j
                   kk == IF w = t THEN k + 1 ELSE k
        <5>1. jj \in DOMAIN new_conn_queue[u] /\ new_conn_queue[u][jj] = new_conn_queue'[u][j]
          <6>1. CASE u = t
            <7>1. j \in 1 .. Len(q) - 1
              BY <4>1, <6>1
            <7>2. j + 1 \in DOMAIN q /\ q[j + 1] = new_conn_queue'[t][j]
              BY <4>1, <7>1
            <7> QED
              BY <6>1, <7>2
          <6>2. CASE u # t
            BY <4>2, <6>2
          <6> QED
            BY <6>1, <6>2
        <5>2. kk \in DOMAIN new_conn_queue[w] /\ new_conn_queue[w][kk] = new_conn_queue'[w][k]
          <6>1. CASE w = t
            <7>1. k \in 1 .. Len(q) - 1
              BY <4>1, <6>1
            <7>2. k + 1 \in DOMAIN q /\ q[k + 1] = new_conn_queue'[t][k]
              BY <4>1, <7>1
            <7> QED
              BY <6>1, <7>2
          <6>2. CASE w # t
            BY <4>2, <6>2
          <6> QED
            BY <6>1, <6>2
        <5>3. u = w /\ jj = kk
          BY <5>1, <5>2 DEF OneOwner
        <5>4. CASE u = t
          <6>1. j \in 1 .. Len(q) - 1 /\ k \in 1 .. Len(q) - 1 /\ j + 1 = k + 1
            BY <4>1, <5>3, <5>4
          <6>2. j = k
            BY <4>1, <6>1
          <6> QED
            BY <5>3, <6>2
        <5>5. CASE u # t
          BY <5>3, <5>5
        <5> QED
          BY <5>4, <5>5
      <4> QED
        BY <4>6, <4>7, <4>8 DEF OneOwner
    <3> QED
      BY <3>3, <3>4
  <2>9. CASE \E t \in Threads : EnableListen(t)
    <3>1. PICK t \in Threads : EnableListen(t)
      BY <2>9
    <3>2. /\ worker[t].c = {} /\ worker'[t].c = {}
          /\ \A u \in Threads : u # t => worker'[u] = worker[u]
      BY <3>1, WorkerType DEF EnableListen, Loop
    <3>3. \A u \in Threads : worker'[u].c = worker[u].c
      BY <3>2
    <3> QED
      BY <3>1, <3>3 DEF EnableListen, OneOwner, InQueue
  <2>10. CASE \E t \in Threads, c \in Clients : ConnNew(t, c) \/ ConnNewFails(t, c)
    <3>1. PICK t \in Threads, c \in Clients : ConnNew(t, c) \/ ConnNewFails(t, c)
      BY <2>10
    <3>2. /\ worker[t].c = {c} /\ worker'[t].c = {}
          /\ \A u \in Threads : u # t => worker'[u] = worker[u]
          /\ new_conn_queue' = new_conn_queue
      BY <3>1 DEF ConnNew, ConnNewFails, TypeOK, Loop, At
    <3>3. client[c] = "queued" /\ \A u \in Threads : c \notin conns[u]
      BY <3>2 DEF OneOwner
    <3>4. \A u \in Threads : ~InQueue(u, c) /\ c \notin worker'[u].c
      BY <3>2 DEF OneOwner
    <3>5. CASE ConnNew(t, c)
      <4>1. /\ client' = [client EXCEPT ![c] = "served"]
            /\ conns' = [conns EXCEPT ![t] = @ \cup {c}]
        BY <3>5 DEF ConnNew, Move
      <4>2. client'[c] = "served" /\ \A d \in Clients : d # c => client'[d] = client[d]
        BY <4>1 DEF TypeOK
      <4>3. \A u \in Threads, d \in Clients :
              d \in conns'[u] <=> d \in conns[u] \/ (u = t /\ d = c)
        BY <4>1 DEF TypeOK
      <4>4. \A u \in Threads, d \in Clients :
              d \in worker'[u].c <=> d \in worker[u].c /\ d # c
        BY <3>2, <3>4
      <4>5. \A d \in Clients :
              /\ client'[d] = "queued" <=> \E u \in Threads : InQueue(u, d)' \/ d \in worker'[u].c
              /\ client'[d] = "served" <=> \E u \in Threads : d \in conns'[u]
        BY <3>2, <3>4, <4>2, <4>3, <4>4 DEF OneOwner, InQueue
      <4>6. \A u, w \in Threads, d \in Clients :
              /\ d \in conns'[u] /\ d \in conns'[w] => u = w
              /\ d \in worker'[u].c /\ d \in worker'[w].c => u = w
              /\ d \in worker'[u].c => ~InQueue(w, d)'
        BY <3>2, <3>3, <4>3, <4>4 DEF OneOwner, InQueue
      <4> QED
        BY <3>2, <4>5, <4>6 DEF OneOwner
    <3>6. CASE ConnNewFails(t, c)
      <4>1. client' = [client EXCEPT ![c] = "away"] /\ conns' = conns
        BY <3>6 DEF ConnNewFails, Move
      <4>2. client'[c] = "away" /\ \A d \in Clients : d # c => client'[d] = client[d]
        BY <4>1 DEF TypeOK
      <4>3. \A u \in Threads, d \in Clients :
              d \in worker'[u].c <=> d \in worker[u].c /\ d # c
        BY <3>2, <3>4
      <4>4. \A d \in Clients :
              /\ client'[d] = "queued" <=> \E u \in Threads : InQueue(u, d)' \/ d \in worker'[u].c
              /\ client'[d] = "served" <=> \E u \in Threads : d \in conns'[u]
        BY <3>2, <3>3, <3>4, <4>1, <4>2, <4>3 DEF OneOwner, InQueue
      <4>5. \A u, w \in Threads, d \in Clients :
              /\ d \in conns'[u] /\ d \in conns'[w] => u = w
              /\ d \in worker'[u].c /\ d \in worker'[w].c => u = w
              /\ d \in worker'[u].c => ~InQueue(w, d)'
        BY <3>2, <4>1, <4>3 DEF OneOwner, InQueue
      <4> QED
        BY <3>2, <4>4, <4>5 DEF OneOwner
    <3> QED
      BY <3>1, <3>5, <3>6
  <2>12. CASE \E t \in Threads, c \in Clients : ConnClose(t, c)
    <3>1. PICK t \in Threads, c \in Clients : ConnClose(t, c)
      BY <2>12
    <3>0. /\ worker[t].c = {} /\ worker'[t].c = {}
          /\ \A u \in Threads : u # t => worker'[u] = worker[u]
      BY <3>1, WorkerType DEF ConnClose, Loop
    <3>2. /\ \A u \in Threads : worker'[u].c = worker[u].c
          /\ new_conn_queue' = new_conn_queue
          /\ client' = [client EXCEPT ![c] = "away"]
          /\ conns' = [conns EXCEPT ![t] = @ \ {c}] /\ c \in conns[t]
      BY <3>0, <3>1 DEF ConnClose, Move
    <3>3. client[c] = "served"
      BY <3>2 DEF OneOwner
    <3>4. client'[c] = "away" /\ \A d \in Clients : d # c => client'[d] = client[d]
      BY <3>2 DEF TypeOK
    <3>5. \A u \in Threads, d \in Clients : d \in conns'[u] <=> d \in conns[u] /\ d # c
      BY <3>2 DEF OneOwner, TypeOK
    <3>6. \A d \in Clients :
            /\ client'[d] = "queued" <=> \E u \in Threads : InQueue(u, d)' \/ d \in worker'[u].c
            /\ client'[d] = "served" <=> \E u \in Threads : d \in conns'[u]
      BY <3>2, <3>3, <3>4, <3>5 DEF OneOwner, InQueue
    <3>7. \A u, w \in Threads, d \in Clients :
            /\ d \in conns'[u] /\ d \in conns'[w] => u = w
            /\ d \in worker'[u].c /\ d \in worker'[w].c => u = w
            /\ d \in worker'[u].c => ~InQueue(w, d)'
      BY <3>2, <3>5 DEF OneOwner, InQueue
    <3> QED
      BY <3>2, <3>6, <3>7 DEF OneOwner
  <2>13. CASE UNCHANGED vars
    BY <2>13 DEF vars, OneOwner, InQueue
  <2> QED
    BY <2>1, <2>2, <2>3, <2>4, <2>7, <2>8, <2>9, <2>10, <2>12, <2>13
    DEF Next, MainStep, WorkerStep
<1> QED
  BY <1>1, <1>2, TypeInvariant, PTL DEF Spec
=============================================================================
