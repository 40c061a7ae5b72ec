------------------------------ MODULE EventLoop ------------------------------
(***************************************************************************)
(* The event loop of libevent 1.4.4 (event.c), on which the server's       *)
(* threads wait: one event_base in one thread, with its signals (signal.c) *)
(* and its select (WIN32-Code/win32.c).                                    *)
(*                                                                         *)
(* The loop asks select which descriptors are ready, puts their events and *)
(* those whose time has come into the active queues, and calls the         *)
(* callbacks of the first queue that is not empty.  A callback may add,    *)
(* delete and activate events, itself included; a signal may interrupt     *)
(* anything.                                                               *)
(***************************************************************************)
EXTENDS Integers, Sequences, FiniteSets

CONSTANTS
  Event,           \* the program's events
  ev_signal,       \* the event of the socket pair that signals write to
  Reads, Signals,  \* those of a descriptor and those of a signal; the others are timers
  Persist,         \* EV_PERSIST
  NQueues, Pri,    \* nactivequeues, ev_pri
  Durations,       \* what event_add is given for a timeout
  Times,           \* what event_active is given for ncalls
  LoopFlags,       \* the flags event_base_loop is called with: "once", "nonblock"
  Calls,           \* what the program calls: "add" "del" "active" "break" "exit", and
                   \* "activeself", event_active on the event whose callback runs
  MayFail,         \* evsel->add may fail
  SetBack,         \* the clock may be set back
  MaxCalls, MaxSignals, MaxTime   \* bounds

All == Event \cup {ev_signal}

ASSUME EventLoopAssumption ==
  /\ ev_signal \notin Event
  /\ Reads \subseteq Event /\ Signals \subseteq Event /\ Reads \cap Signals = {}
  /\ Persist \subseteq Event /\ IsFiniteSet(Event)
  /\ NQueues \in Nat \ {0} /\ Pri \in [Event -> 0 .. NQueues - 1]
  /\ Durations \subseteq Nat /\ Times \subseteq Nat \ {0}
  /\ LoopFlags \subseteq {"once", "nonblock"}
  /\ Calls \subseteq {"add", "del", "active", "activeself", "break", "exit"}
  /\ MayFail \in BOOLEAN /\ SetBack \in BOOLEAN
  /\ MaxCalls \in Nat /\ MaxSignals \in Nat /\ MaxTime \in Nat \ {0}

VARIABLES
  base,      \* the event_base and its events
  sig,       \* evsignal_caught, evsigcaught and the bytes in the socket pair
  at,        \* where the thread is
  cur,       \* the event at hand
  queue,     \* the queue event_process_active works on
  selected,  \* the events of the descriptors select returned, still to be activated
  scan,      \* the signal events evsignal_process has still to look at
  wait,      \* how long select still waits
  flags,     \* event_base_loop's argument
  clock, ready,           \* the time of day, and the events whose descriptor is ready
  ncalled, nsignals,      \* how much of MaxCalls and MaxSignals is used
  deleted    \* history: what the program deleted, or never added

vars == <<base, sig, at, cur, queue, selected, scan, wait, flags, clock, ready, ncalled, nsignals, deleted>>

NULL == -1        \* no timeout
Forever == -1     \* select has no timeout

\* The list an event is on when it waits for its descriptor or signal.
Waits(e) == IF e \in Signals THEN "signal" ELSE "inserted"

Lists == {"timeout", "inserted", "signal", "active"}
Priority(e) == IF e = ev_signal THEN 0 ELSE Pri[e]

(***************************************************************************)
(* calls is the variable ncalls of event_process_active, which ev_pncalls  *)
(* of an event may point to: "live" while the function runs, "dead" later. *)
(* stray: something was written through a dead one.                        *)
(***************************************************************************)
Init ==
  /\ base = [flags |-> [e \in All |-> {}], activequeues |-> [i \in 0 .. NQueues - 1 |-> <<>>],
             event_count |-> 0, event_count_active |-> 0,
             event_gotterm |-> FALSE, event_break |-> FALSE,
             res |-> [e \in All |-> {}], ncalls |-> [e \in All |-> 0],
             pncalls |-> [e \in All |-> "null"], timeout |-> [e \in All |-> 0],
             calls |-> 0, stray |-> FALSE, event_tv |-> 1, tv_cache |-> 0]
  /\ sig = [caught |-> FALSE, count |-> [e \in Signals |-> 0], bytes |-> 0]
  /\ at = "program" /\ cur = ev_signal /\ queue = 0 /\ selected = {} /\ scan = {} /\ wait = 0 /\ flags = {}
  /\ clock = 1 /\ ready = {} /\ ncalled = 0 /\ nsignals = 0 /\ deleted = Event

-----------------------------------------------------------------------------
(* The queues *)

gettime(b) == IF b.tv_cache # 0 THEN b.tv_cache ELSE clock

\* Mutant: the loop's own event counts as one of the program's.
Counted_All(e) == 1

\* event_count leaves out the loop's own event (EVLIST_INTERNAL).
Counted(e) == IF e = ev_signal THEN 0 ELSE 1

\* TAILQ_INSERT_TAIL.
Queued(queues, e) == [queues EXCEPT ![Priority(e)] = Append(@, e)]

\* TAILQ_REMOVE.
Without(q, e) ==
  LET i == CHOOSE j \in DOMAIN q : q[j] = e
  IN SubSeq(q, 1, i - 1) \o SubSeq(q, i + 1, Len(q))

Unqueued(queues, e) == [queues EXCEPT ![Priority(e)] = Without(@, e)]

\* Double insertion is possible for active events; for others it ends the process, and
\* is never tried.
event_queue_insert(b, e, list) ==
  LET c == [b EXCEPT !.flags[e] = @ \cup {list}, !.event_count = @ + Counted(e)]
  IN IF list # "active" THEN c
     ELSE [c EXCEPT !.event_count_active = @ + 1, !.activequeues = Queued(@, e)]

\* The time of an event off the heap is of no more use.
event_queue_remove(b, e, list) ==
  LET c == [b EXCEPT !.flags[e] = @ \ {list}, !.event_count = @ - Counted(e)]
  IN CASE list = "active"  -> [c EXCEPT !.event_count_active = @ - 1, !.activequeues = Unqueued(@, e)]
       [] list = "timeout" -> [c EXCEPT !.timeout[e] = 0]
       [] OTHER            -> c

Removed(b, e, list) == IF list \in b.flags[e] THEN event_queue_remove(b, e, list) ELSE b

\* Mutant: the callbacks still due are made.
AbortLoop_Not(b, e) == b

\* *ev->ev_pncalls = 0: the event's callback, should it be running, is not called again.
AbortLoop(b, e) ==
  IF b.ncalls[e] = 0 \/ b.pncalls[e] = "null" THEN b
  ELSE IF b.pncalls[e] = "live" THEN [b EXCEPT !.calls = 0] ELSE [b EXCEPT !.stray = TRUE]

event_del(b, e) ==
  Removed(Removed(Removed(AbortLoop(b, e), e, "timeout"), e, "active"), e, Waits(e))

\* Of what is in ev_res only EV_TIMEOUT is ever asked for.
event_active(b, e, res, ncalls) ==
  IF "active" \in b.flags[e] THEN [b EXCEPT !.res[e] = @ \cup res]
  ELSE event_queue_insert([b EXCEPT !.res[e] = res, !.ncalls[e] = ncalls, !.pncalls[e] = "null"],
                          e, "active")

\* The part of event_add that is about the timeout.  Rescheduling an event that is active
\* for its timeout takes it off the active queue.
Scheduled(b, e, tv) ==
  LET off == Removed(b, e, "timeout")
      idle == IF "active" \in b.flags[e] /\ "timeout" \in b.res[e]
              THEN Removed(AbortLoop(off, e), e, "active") ELSE off
  IN event_queue_insert([idle EXCEPT !.timeout[e] = gettime(b) + tv], e, "timeout")

\* Mutant: the event of the socket pair is never added.
evsel_add_NoPair(b, e) == event_queue_insert(b, e, Waits(e))

\* evsignal_add: the first signal adds the event of the socket pair.
evsel_add(b, e) ==
  IF e \in Signals /\ "inserted" \notin b.flags[ev_signal]
  THEN event_queue_insert(event_queue_insert(b, ev_signal, "inserted"), e, "signal")
  ELSE event_queue_insert(b, e, Waits(e))

NeedsAdd(b, e) ==
  \/ e \in Reads /\ b.flags[e] \cap {"inserted", "active"} = {}
  \/ e \in Signals /\ "signal" \notin b.flags[e]

event_add(b, e, tv) ==
  LET timed == IF tv = NULL THEN b ELSE Scheduled(b, e, tv)
  IN IF NeedsAdd(timed, e) THEN evsel_add(timed, e) ELSE timed

-----------------------------------------------------------------------------
(* The program: outside of the loop, and in the callbacks *)

Programs == at = "program" \/ (at = "callback" /\ cur # ev_signal)

Call(name) ==
  /\ name \in Calls /\ Programs /\ ncalled < MaxCalls
  /\ ncalled' = ncalled + 1
  /\ UNCHANGED <<sig, at, cur, queue, selected, scan, wait, flags, clock, ready, nsignals>>

Add(e, tv) ==
  /\ Call("add") /\ (tv # NULL \/ e \in Reads \cup Signals)
  /\ base' = event_add(base, e, tv)
  /\ deleted' = deleted \ {e}

\* evsel->add fails and event_add returns -1.  What the timeout was made stays.
AddFails(e, tv) ==
  /\ Call("add") /\ MayFail
  /\ LET timed == IF tv = NULL THEN base ELSE Scheduled(base, e, tv)
     IN NeedsAdd(timed, e) /\ base' = timed
  /\ deleted' = IF tv = NULL THEN deleted ELSE deleted \ {e}

Del(e) ==
  /\ Call("del")
  /\ base' = event_del(base, e)
  /\ deleted' = deleted \cup {e}

Active(e, n) ==
  /\ Call(IF at = "callback" /\ e = cur THEN "activeself" ELSE "active")
  /\ base' = event_active(base, e, {}, n)
  /\ deleted' = deleted \ {e}

event_base_loopbreak ==
  /\ Call("break")
  /\ base' = [base EXCEPT !.event_break = TRUE]
  /\ UNCHANGED deleted

\* A callback that event_base_loopexit has scheduled.
event_loopexit_cb ==
  /\ Call("exit") /\ at = "callback" /\ "timeout" \in base.res[cur]
  /\ base' = [base EXCEPT !.event_gotterm = TRUE]
  /\ UNCHANGED deleted

ReadDescriptor ==
  /\ at = "callback" /\ cur \in ready
  /\ ready' = ready \ {cur}
  /\ UNCHANGED <<base, sig, at, cur, queue, selected, scan, wait, flags, clock, ncalled, nsignals, deleted>>

EnterLoop ==
  /\ at = "program" /\ at' = "loop"
  /\ flags' \in SUBSET LoopFlags
  /\ UNCHANGED <<base, sig, cur, queue, selected, scan, wait, clock, ready, ncalled, nsignals, deleted>>

-----------------------------------------------------------------------------
(* The world: time, descriptors and signals.  What they do while the loop  *)
(* only computes is as good as done a little later.                        *)

Outside == UNCHANGED <<base, at, cur, queue, selected, scan, flags, ncalled, deleted>>

Tick ==
  /\ at \in {"program", "select", "callback"} /\ clock < MaxTime
  /\ clock' = clock + 1 /\ wait' = IF at = "select" /\ wait > 0 THEN wait - 1 ELSE wait
  /\ Outside /\ UNCHANGED <<sig, ready, nsignals>>

ClockSetBack ==
  /\ SetBack /\ at \in {"program", "select", "callback"} /\ clock > 1
  /\ clock' \in 1 .. clock - 1
  /\ Outside /\ UNCHANGED <<sig, ready, nsignals, wait>>

Readable(e) ==
  /\ at \in {"program", "select", "callback"} /\ e \notin ready
  /\ ready' = ready \cup {e}
  /\ Outside /\ UNCHANGED <<sig, clock, nsignals, wait>>

\* A signal whose event is added.
evsignal_handler(e) ==
  /\ at \in {"program", "select", "scan", "reset", "callback"}
  /\ "signal" \in base.flags[e] /\ nsignals < MaxSignals /\ nsignals' = nsignals + 1
  /\ sig' = [caught |-> TRUE, count |-> [sig.count EXCEPT ![e] = @ + 1], bytes |-> sig.bytes + 1]
  /\ Outside /\ UNCHANGED <<clock, ready, wait>>

-----------------------------------------------------------------------------
(* event_base_loop *)

Loops == UNCHANGED <<flags, clock, ready, ncalled, nsignals, deleted>>

Timed(b) == {e \in All : "timeout" \in b.flags[e]}

\* The top of the heap.
Top(b, e) == e \in Timed(b) /\ \A f \in Timed(b) : b.timeout[e] <= b.timeout[f]

\* Against a clock that was set back all timeouts are moved by as much.
timeout_correct(b) ==
  IF gettime(b) >= b.event_tv THEN [b EXCEPT !.event_tv = gettime(b)]
  ELSE [b EXCEPT !.timeout = [e \in All |-> IF e \in Timed(b) THEN @[e] - (b.event_tv - gettime(b))
                                                              ELSE @[e]]]

\* How long select may wait for the event at the top.
Remaining(b, e) == IF b.timeout[e] <= gettime(b) THEN 0 ELSE b.timeout[e] - gettime(b)

timeout_next(b) ==
  IF Timed(b) = {} THEN wait' = Forever
  ELSE \E e \in Event : Top(b, e) /\ wait' = Remaining(b, e)

\* Mutant: it waits although events are active that an earlier break left behind.
Polls_Never == "nonblock" \in flags

Polls == base.event_count_active > 0 \/ "nonblock" \in flags

Exit ==
  /\ at = "loop" /\ (base.event_gotterm \/ base.event_break)
  /\ base' = IF base.event_gotterm THEN [base EXCEPT !.event_gotterm = FALSE]
                                   ELSE [base EXCEPT !.event_break = FALSE]
  /\ at' = "program"
  /\ UNCHANGED <<sig, cur, queue, selected, scan, wait>> /\ Loops

GoesOn == at = "loop" /\ ~base.event_gotterm /\ ~base.event_break

NoEvents ==
  /\ GoesOn /\ base.event_count = 0
  /\ base' = timeout_correct(base) /\ at' = "program"
  /\ UNCHANGED <<sig, cur, queue, selected, scan, wait>> /\ Loops

Select ==
  /\ GoesOn /\ base.event_count > 0
  /\ LET b == timeout_correct(base)
     IN  /\ base' = [b EXCEPT !.event_tv = gettime(b), !.tv_cache = 0]
         /\ IF Polls THEN wait' = 0 ELSE timeout_next(b)
  /\ at' = "select"
  /\ UNCHANGED <<sig, cur, queue, selected, scan>> /\ Loops

-----------------------------------------------------------------------------
(* win32_dispatch and evsignal_process *)

IsReady(e) == "inserted" \in base.flags[e] /\ IF e = ev_signal THEN sig.bytes > 0 ELSE e \in ready

Sockets == {e \in All : "inserted" \in base.flags[e]}

\* Without a socket the thread sleeps.  At the horizon of the model every wait ends.
Wakes ==
  \/ \E e \in All : IsReady(e)
  \/ wait = 0 \/ (wait # Forever /\ clock = MaxTime)

SelectReturns ==
  /\ at = "select" /\ Wakes
  /\ selected' = {e \in All : IsReady(e)}
  /\ IF selected' = {} \/ sig.caught
     THEN /\ at' = "scan" /\ scan' = {e \in Signals : "signal" \in base.flags[e]}
          /\ sig' = [sig EXCEPT !.caught = FALSE]
     ELSE at' = "activate" /\ UNCHANGED <<scan, sig>>
  /\ wait' = 0
  /\ UNCHANGED <<base, cur, queue>> /\ Loops

\* The count of a signal is read, and then reset.
ScanSignal(e) ==
  /\ at = "scan" /\ e \in scan
  /\ scan' = scan \ {e}
  /\ IF sig.count[e] = 0 THEN UNCHANGED <<base, at, cur>>
     ELSE /\ base' = event_active(IF e \in Persist THEN base ELSE event_del(base, e),
                                  e, {}, sig.count[e])
          /\ at' = "reset" /\ cur' = e
  /\ UNCHANGED <<sig, queue, selected, wait>> /\ Loops

ResetSignal ==
  /\ at = "reset" /\ at' = "scan"
  /\ sig' = [sig EXCEPT !.count[cur] = 0]
  /\ cur' = ev_signal
  /\ UNCHANGED <<base, queue, selected, scan, wait>> /\ Loops

ScanDone ==
  /\ at = "scan" /\ scan = {} /\ at' = "activate"
  /\ UNCHANGED <<base, sig, cur, queue, selected, scan, wait>> /\ Loops

Activate(e) ==
  /\ at = "activate" /\ e \in selected
  /\ selected' = selected \ {e}
  /\ base' = event_active(base, e, {}, 1)
  /\ UNCHANGED <<sig, at, cur, queue, scan, wait>> /\ Loops

\* Dispatch returns, and the time is read for all that follows.
Dispatched ==
  /\ at = "activate" /\ selected = {} /\ at' = "timeouts"
  /\ base' = [base EXCEPT !.tv_cache = clock]
  /\ UNCHANGED <<sig, cur, queue, selected, scan, wait>> /\ Loops

-----------------------------------------------------------------------------
(* timeout_process and event_process_active *)

Due(b, e) == Top(b, e) /\ b.timeout[e] <= gettime(b)

\* The event is taken off the I/O queues, and off the active one.
TimeoutProcess(e) ==
  /\ at = "timeouts" /\ Due(base, e)
  /\ base' = event_active(event_del(base, e), e, {"timeout"}, 1)
  /\ UNCHANGED <<sig, at, cur, queue, selected, scan, wait>> /\ Loops

\* The first queue that is not empty.
First(i) == base.activequeues[i] # <<>> /\ \A j \in 0 .. i - 1 : base.activequeues[j] = <<>>

TimeoutsDone ==
  /\ at = "timeouts" /\ \A e \in All : ~Due(base, e)
  /\ IF base.event_count_active > 0
     THEN \E i \in 0 .. NQueues - 1 : First(i) /\ queue' = i /\ at' = "process"
     ELSE at' = (IF "nonblock" \in flags THEN "program" ELSE "loop") /\ UNCHANGED queue
  /\ UNCHANGED <<base, sig, cur, selected, scan, wait>> /\ Loops

NextActive ==
  /\ at = "process" /\ base.activequeues[queue] # <<>>
  /\ LET e == Head(base.activequeues[queue])
         b == IF e \in Persist \cup {ev_signal} THEN event_queue_remove(base, e, "active")
                                                ELSE event_del(base, e)
     IN base' = [b EXCEPT !.calls = b.ncalls[e], !.pncalls[e] = "live"] /\ cur' = e
  /\ at' = "calls"
  /\ UNCHANGED <<sig, queue, selected, scan, wait>> /\ Loops

Callback ==
  /\ at = "calls" /\ base.calls > 0 /\ at' = "callback"
  /\ base' = [base EXCEPT !.calls = @ - 1, !.ncalls[cur] = base.calls - 1]
  /\ UNCHANGED <<sig, cur, queue, selected, scan, wait>> /\ Loops

\* event_process_active returns, and its ncalls is no more.  EVLOOP_ONCE leaves the loop when
\* nothing is active, after a break too, whose event_break then stays for the next loop.
Unwind ==
  /\ base' = [base EXCEPT !.calls = 0, !.pncalls = [e \in All |-> IF @[e] = "live" THEN "dead" ELSE @[e]]]
  /\ at' = IF base.event_count_active = 0 /\ "once" \in flags THEN "program" ELSE "loop"
  /\ cur' = ev_signal /\ queue' = 0

Returned ==
  IF base.event_break THEN Unwind ELSE at' = "calls" /\ UNCHANGED <<base, cur, queue>>

Return ==
  /\ at = "callback" /\ cur # ev_signal
  /\ Returned
  /\ UNCHANGED <<sig, selected, scan, wait>> /\ Loops

\* All bytes of the socket pair are read; without one it would wait for the next.
evsignal_cb ==
  /\ at = "callback" /\ cur = ev_signal /\ sig.bytes > 0
  /\ sig' = [sig EXCEPT !.bytes = 0]
  /\ Returned
  /\ UNCHANGED <<selected, scan, wait>> /\ Loops

CallsDone ==
  /\ at = "calls" /\ base.calls = 0 /\ at' = "process"
  /\ UNCHANGED <<base, sig, cur, queue, selected, scan, wait>> /\ Loops

ProcessDone ==
  /\ at = "process" /\ base.activequeues[queue] = <<>>
  /\ Unwind
  /\ UNCHANGED <<sig, selected, scan, wait>> /\ Loops

-----------------------------------------------------------------------------
Program ==
  \/ \E e \in Event, tv \in Durations \cup {NULL} : Add(e, tv) \/ AddFails(e, tv)
  \/ \E e \in Event : Del(e) \/ \E n \in Times : Active(e, n)
  \/ event_base_loopbreak \/ event_loopexit_cb
  \/ ReadDescriptor \/ EnterLoop

World ==
  \/ Tick \/ ClockSetBack
  \/ \E e \in Reads : Readable(e)
  \/ \E e \in Signals : evsignal_handler(e)

\* What the loop does by itself; callbacks return.
event_base_loop ==
  \/ Exit \/ NoEvents \/ Select \/ SelectReturns
  \/ \E e \in Signals : ScanSignal(e)
  \/ ResetSignal \/ ScanDone
  \/ \E e \in All : Activate(e)
  \/ Dispatched
  \/ \E e \in Event : TimeoutProcess(e)
  \/ TimeoutsDone \/ NextActive \/ Callback \/ Return \/ evsignal_cb \/ CallsDone \/ ProcessDone

Next == Program \/ World \/ event_base_loop

Spec == Init /\ [][Next]_vars

\* The thread runs and time passes; nothing else has to happen.
FairSpec == Spec /\ WF_vars(event_base_loop) /\ WF_vars(Tick)

-----------------------------------------------------------------------------
(* Properties *)

Base ==
  [flags : [All -> SUBSET Lists], activequeues : [0 .. NQueues - 1 -> Seq(All)],
   event_count : Int, event_count_active : Int, event_gotterm : BOOLEAN, event_break : BOOLEAN,
   res : [All -> SUBSET {"timeout"}], ncalls : [All -> Nat], pncalls : [All -> {"null", "live", "dead"}],
   timeout : [All -> Int], calls : Nat, stray : BOOLEAN, event_tv : Nat, tv_cache : Nat]

TypeOK ==
  /\ base \in Base
  /\ sig \in [caught : BOOLEAN, count : [Signals -> Nat], bytes : Nat]
  /\ at \in {"program", "loop", "select", "scan", "reset", "activate", "timeouts", "process",
             "calls", "callback"}
  /\ cur \in All /\ queue \in 0 .. NQueues - 1 /\ selected \subseteq All /\ scan \subseteq Signals
  /\ wait \in Int /\ flags \subseteq LoopFlags
  /\ clock \in 1 .. MaxTime /\ ready \subseteq Reads
  /\ ncalled \in 0 .. MaxCalls /\ nsignals \in 0 .. MaxSignals /\ deleted \subseteq Event

OnLists(b) == {p \in Event \X Lists : p[2] \in b.flags[p[1]]}
ActiveOnes(b) == {e \in All : "active" \in b.flags[e]}

QueuesExact(b) ==
  \A i \in 0 .. NQueues - 1 :
    LET q == b.activequeues[i] IN
    /\ \A j, k \in DOMAIN q : q[j] = q[k] => j = k
    /\ \A e \in All : (\E j \in DOMAIN q : q[j] = e) <=> e \in ActiveOnes(b) /\ Priority(e) = i

CountsExact(b) ==
  /\ b.event_count = Cardinality(OnLists(b))
  /\ b.event_count_active = Cardinality(ActiveOnes(b))

\* An active event is in the queue of its priority, once, and nothing else is in the queues;
\* the counts that decide whether the loop sleeps and whether it ends are right
\* (event_queue_insert and event_queue_remove).
QueuesAgree == QueuesExact(base) /\ CountsExact(base)

\* An event that was deleted, and neither added nor activated since, is not called
\* ("event_del() will cancel the event", event.h:610).
NotCalledIfDeleted ==
  [][at = "calls" /\ at' = "callback" => cur \notin deleted]_vars

\* The thread sleeps for ever only where a socket can wake it, and reads no byte of the socket
\* pair that is not there.
NeverStuck ==
  /\ at = "select" /\ Sockets = {} => wait # Forever
  /\ at = "callback" /\ cur = ev_signal => sig.bytes > 0

\* An active event of the first queue and an event whose time has come are called, or taken
\* off by the program, unless the loop is left.
Heard ==
  \A e \in Event :
    /\ "active" \in base.flags[e] /\ Pri[e] = 0 ~> "active" \notin base.flags[e] \/ at = "program"
    /\ "timeout" \in base.flags[e] /\ base.timeout[e] <= clock
         ~> "timeout" \notin base.flags[e] \/ base.timeout[e] > clock \/ at = "program"

\* A signal whose event stays added is counted for a callback.
SignalSeen ==
  \A e \in Signals : sig.count[e] > 0 ~> "active" \in base.flags[e] \/ "signal" \notin base.flags[e] \/ at = "program"

\* What event_add and event_del write through ev_pncalls is the ncalls of a running function.
NoStrayWrite == ~base.stray
=============================================================================
