------------------------------- MODULE Dispatch -------------------------------
(***************************************************************************)
(* How a client of memcached 1.4.5 gets its connection: the main thread    *)
(* accepts it and hands it to a worker thread through a queue and a wakeup *)
(* pipe (thread.c); when file descriptors run out the main thread stops    *)
(* listening, and a worker that closes a connection makes it listen again  *)
(* (drive_machine, conn_close and do_accept_new_conns in memcached.c).     *)
(*                                                                         *)
(* A client stands for its socket.  Each step of a thread is one hold of a *)
(* lock or one system call that other threads can see.                     *)
(***************************************************************************)
EXTENDS Integers, Sequences, FiniteSets

CONSTANTS
  Clients,
  NumThreads,    \* settings.num_threads
  MaxFds,        \* client sockets the limit on open files leaves room for
  MayFail        \* whether conn_new and fcntl may fail

ASSUME DispatchAssumption ==
  /\ IsFiniteSet(Clients)
  /\ NumThreads \in Nat \ {0} /\ MaxFds \in Nat \ {0} /\ MayFail \in BOOLEAN

Threads == 0 .. NumThreads - 1

VARIABLES
  client,       \* where each client's connection is
  listening,    \* the listening socket's event waits for EV_READ
  main,         \* what the main thread does next: its event loop, or a call
  last_thread,
  new_conn_queue, notify_pipe,   \* of each thread: its queue, bytes in its pipe
  worker,       \* what each worker does next, and for which client
  conns         \* the clients each worker serves

vars == <<client, listening, main, last_thread, new_conn_queue, notify_pipe, worker, conns>>

Loop == [at |-> "loop", c |-> {}]
At(label, c) == [at |-> label, c |-> {c}]

Init ==
  /\ client = [c \in Clients |-> "away"]
  /\ listening = TRUE
  /\ main = "loop"
  /\ last_thread = NumThreads - 1
  /\ new_conn_queue = [t \in Threads |-> <<>>]
  /\ notify_pipe = [t \in Threads |-> 0]
  /\ worker = [t \in Threads |-> Loop]
  /\ conns = [t \in Threads |-> {}]

Backlog == {c \in Clients : client[c] = "backlog"}
Open    == {c \in Clients : client[c] \in {"queued", "served"}}

Move(c, place) == client' = [client EXCEPT ![c] = place]

\* A client connects: the kernel puts it into the backlog of the socket.
Connect(c) ==
  /\ client[c] = "away"
  /\ Move(c, "backlog")
  /\ UNCHANGED <<listening, main, last_thread, new_conn_queue, notify_pipe, worker, conns>>

-----------------------------------------------------------------------------
(* The main thread: conn_listening *)

NextThread == (last_thread + 1) % NumThreads

\* accept, and dispatch_conn_new as far as cq_push.
Accept(c) ==
  /\ main = "loop" /\ listening
  /\ c \in Backlog
  /\ Cardinality(Open) < MaxFds
  /\ last_thread' = NextThread
  /\ new_conn_queue' = [new_conn_queue EXCEPT ![NextThread] = Append(@, c)]
  /\ Move(c, "queued")
  /\ main' = "notify"
  /\ UNCHANGED <<listening, notify_pipe, worker, conns>>

\* The new socket cannot be made non-blocking and is closed at once.
AcceptFails(c) ==
  /\ MayFail
  /\ main = "loop" /\ listening
  /\ c \in Backlog
  /\ Cardinality(Open) < MaxFds
  /\ Move(c, "away")
  /\ UNCHANGED <<listening, main, last_thread, new_conn_queue, notify_pipe, worker, conns>>

\* Mutant: a worker that has a byte to read gets no other.
Notify_Once ==
  /\ main = "notify"
  /\ notify_pipe' = [notify_pipe EXCEPT ![last_thread] = 1]
  /\ main' = "loop"
  /\ UNCHANGED <<client, listening, last_thread, new_conn_queue, worker, conns>>

\* The byte that tells the worker of its new connection.
Notify ==
  /\ main = "notify"
  /\ notify_pipe' = [notify_pipe EXCEPT ![last_thread] = @ + 1]
  /\ main' = "loop"
  /\ UNCHANGED <<client, listening, last_thread, new_conn_queue, worker, conns>>

\* accept returns EMFILE ...
TooManyOpen ==
  /\ main = "loop" /\ listening
  /\ Backlog # {}
  /\ Cardinality(Open) >= MaxFds
  /\ main' = "disable"
  /\ UNCHANGED <<client, listening, last_thread, new_conn_queue, notify_pipe, worker, conns>>

\* ... and after it accept_new_conns(false) takes conn_lock.
DisableListen ==
  /\ main = "disable"
  /\ listening' = FALSE
  /\ main' = "loop"
  /\ UNCHANGED <<client, last_thread, new_conn_queue, notify_pipe, worker, conns>>

MainStep ==
  \/ Notify \/ TooManyOpen \/ DisableListen
  \/ \E c \in Clients : Accept(c) \/ AcceptFails(c)

-----------------------------------------------------------------------------
(* A worker thread *)

\* thread_libevent_process: the byte is read ...
ReadNotify(t) ==
  /\ worker[t] = Loop
  /\ notify_pipe[t] > 0
  /\ notify_pipe' = [notify_pipe EXCEPT ![t] = @ - 1]
  /\ worker' = [worker EXCEPT ![t] = [at |-> "pop", c |-> {}]]
  /\ UNCHANGED <<client, listening, main, last_thread, new_conn_queue, conns>>

\* What the worker does with the head of its queue; there may be none.
TakeHead(t) ==
  /\ worker[t].at = "pop"
  /\ worker' = [worker EXCEPT ![t] = IF new_conn_queue[t] = <<>> THEN Loop
                                     ELSE At("new", Head(new_conn_queue[t]))]
  /\ UNCHANGED <<client, listening, main, last_thread, notify_pipe, conns>>

\* Mutant: one wakeup takes all there is off the queue and serves the first.
Pop_All(t) ==
  /\ TakeHead(t)
  /\ new_conn_queue' = [new_conn_queue EXCEPT ![t] = <<>>]

\* Mutant: the head of the queue is not moved on.
Pop_Again(t) ==
  /\ TakeHead(t)
  /\ UNCHANGED new_conn_queue

\* ... and cq_pop takes the oldest connection off the queue.
Pop(t) ==
  /\ TakeHead(t)
  /\ new_conn_queue' = [new_conn_queue EXCEPT ![t] = IF @ = <<>> THEN <<>> ELSE Tail(@)]

ConnNew(t, c) ==
  /\ worker[t] = At("new", c)
  /\ Move(c, "served")
  /\ conns' = [conns EXCEPT ![t] = @ \cup {c}]
  /\ worker' = [worker EXCEPT ![t] = Loop]
  /\ UNCHANGED <<listening, main, last_thread, new_conn_queue, notify_pipe>>

\* conn_new fails: the socket is closed, and nobody is told that one is free.
ConnNewFails(t, c) ==
  /\ MayFail
  /\ worker[t] = At("new", c)
  /\ Move(c, "away")
  /\ worker' = [worker EXCEPT ![t] = Loop]
  /\ UNCHANGED <<listening, main, last_thread, new_conn_queue, notify_pipe, conns>>

\* conn_close, because the client has hung up or by an error: the socket is
\* closed ...
ConnClose(t, c) ==
  /\ worker[t] = Loop
  /\ c \in conns[t]
  /\ conns' = [conns EXCEPT ![t] = @ \ {c}]
  /\ Move(c, "away")
  /\ worker' = [worker EXCEPT ![t] = [at |-> "enable", c |-> {}]]
  /\ UNCHANGED <<listening, main, last_thread, new_conn_queue, notify_pipe>>

\* ... and after it accept_new_conns(true) takes conn_lock.
EnableListen(t) ==
  /\ worker[t].at = "enable"
  /\ listening' = TRUE
  /\ worker' = [worker EXCEPT ![t] = Loop]
  /\ UNCHANGED <<client, main, last_thread, new_conn_queue, notify_pipe, conns>>

WorkerStep(t) ==
  \/ ReadNotify(t) \/ Pop(t) \/ EnableListen(t)
  \/ \E c \in Clients : ConnNew(t, c) \/ ConnNewFails(t, c)

Next ==
  \/ \E c \in Clients : Connect(c)
  \/ MainStep
  \/ \E t \in Threads : WorkerStep(t)
  \/ \E t \in Threads, c \in Clients : ConnClose(t, c)

Spec == Init /\ [][Next]_vars

\* Threads keep running; clients need neither come nor go.
FairSpec == Spec /\ WF_vars(MainStep) /\ \A t \in Threads : WF_vars(WorkerStep(t))
-----------------------------------------------------------------------------
(* Properties *)

TypeOK ==
  /\ client \in [Clients -> {"away", "backlog", "queued", "served"}]
  /\ listening \in BOOLEAN
  /\ main \in {"loop", "notify", "disable"}
  /\ last_thread \in Threads
  /\ new_conn_queue \in [Threads -> Seq(Clients)]
  /\ notify_pipe \in [Threads -> Nat]
  /\ worker \in [Threads -> [at : {"loop", "pop", "enable"}, c : {{}}]
                             \cup {At("new", c) : c \in Clients}]
  /\ conns \in [Threads -> SUBSET Clients]

InQueue(t, c) == \E j \in DOMAIN new_conn_queue[t] : new_conn_queue[t][j] = c

\* An accepted connection is in the hands of exactly one thread, once: in its
\* queue, just off it, or among its connections.
OneOwner ==
  /\ \A c \in Clients :
       /\ client[c] = "queued" <=> \E t \in Threads : InQueue(t, c) \/ c \in worker[t].c
       /\ client[c] = "served" <=> \E t \in Threads : c \in conns[t]
  /\ \A t, u \in Threads, c \in Clients :
       /\ c \in conns[t] /\ c \in conns[u] => t = u
       /\ c \in worker[t].c /\ c \in worker[u].c => t = u
       /\ c \in worker[t].c => ~InQueue(u, c)
  /\ \A t, u \in Threads :
       \A j \in DOMAIN new_conn_queue[t], k \in DOMAIN new_conn_queue[u] :
         new_conn_queue[t][j] = new_conn_queue[u][k] => t = u /\ j = k

\* Every connection in a queue has a byte in the pipe, or one that is about to be
\* written or has just been read: none waits for a later one to wake the
\* worker.
NotifiedOfEach ==
  \A t \in Threads :
    Len(new_conn_queue[t]) =
      notify_pipe[t] + (IF main = "notify" /\ last_thread = t THEN 1 ELSE 0)
                     + (IF worker[t].at = "pop" THEN 1 ELSE 0)

\* An accepted connection gets its worker's attention, or is closed.
Attended == \A c \in Clients : client[c] = "queued" ~> client[c] # "queued"

\* A server that has stopped listening listens again when a connection is closed:
\* that it "would never restart accepting connections after hitting the maximum
\* connection limit" is called a critical bug, and fixed (ChangeLog:3-5).
AcceptsAgain == (~listening /\ Cardinality(Open) < MaxFds) ~> listening
=============================================================================
