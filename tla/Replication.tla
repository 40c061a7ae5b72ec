------------------------------ MODULE Replication ------------------------------
(***************************************************************************)
(* Replication in repcached 2.2 (memcached.c, replication.c): two servers, *)
(* each one thread, that send each other what their clients change.        *)
(*                                                                         *)
(* A change is queued by its key in a pipe.  When the pipe is readable     *)
(* replication_pop turns a buffer of queued keys into commands, with the   *)
(* values of that moment, and replication_send writes them to the peer,    *)
(* which executes them as a client's.  A server that starts connects to    *)
(* its peer and is sent every key before it serves clients.                *)
(***************************************************************************)
EXTENDS Integers, Sequences, FiniteSets, SequencesExt, FiniteSetsExt

CONSTANTS
  Node, Key,
  Batch,          \* how many queued pointers one read of the pipe returns
  QMax,           \* settings.rep_qmax
  Window,         \* how many commands the kernel holds between the servers
  Commands,       \* what clients do: "set" "get" "delete" "flush", and "evict"
  BackupEvicts,   \* whether the copy of a key may push another out
  MaxOps,         \* bound on the commands of clients
  MaxFaults       \* bound on the crashes and SIGTERMs

NoKey == "nokey"

\* A read returns 256 pointers: it is taken for granted that fewer signals come before one.
ASSUME ReplicationAssumption ==
  /\ IsFiniteSet(Node) /\ Cardinality(Node) = 2 /\ IsFiniteSet(Key) /\ Key # {} /\ NoKey \notin Key
  /\ Batch \in Nat /\ Batch > 1 /\ Batch > MaxFaults
  /\ QMax \in Nat /\ QMax > 1 /\ Window \in Nat \ {0}
  /\ Commands \subseteq {"set", "get", "delete", "flush", "evict"} /\ BackupEvicts \in BOOLEAN
  /\ MaxOps \in Nat /\ MaxFaults \in Nat

VARIABLES
  node,        \* the state of each process
  chan,        \* chan[n]: what n has written to its peer, not yet read
  clientsAt,   \* the server the clients use
  ops,         \* how many commands there were: also the latest value
  faults,
  removed,     \* history: the keys deleted or evicted since the link was made; all after a flush
  flushed      \* history: those that a flush removed, or an eviction for a copied key

vars == <<node, chan, clientsAt, ops, faults, removed, flushed>>

Peer(n) == CHOOSE m \in Node : m # n

None == 0
Values == 1 .. MaxOps

(***************************************************************************)
(* A queue item names the command and its key, "exit" is the null pointer  *)
(* that a signal queues; a message has the value besides.                  *)
(***************************************************************************)
Item(op, k) == [op |-> op, key |-> k]
ExitMark == Item("exit", NoKey)
EndMark == Item("end", NoKey)
ItemType == [op : {"rep", "del"}, key : Key] \cup [op : {"flush", "end", "exit"}, key : {NoKey}]
MessageType == [op : {"rep", "del", "flush", "end"}, key : Key \cup {NoKey}, value : {None} \cup Values]

(***************************************************************************)
(* link is "none" (the port for the peer is listened on), "connecting" or  *)
(* "linked" (rep_conn is set).  store is the hash table; hidden are the    *)
(* items in it that a flush made invisible.  copy is what marugoto has     *)
(* still to queue.  count is q_itemcount and free the length of its list.  *)
(***************************************************************************)
Process ==
  [up : BOOLEAN, started : BOOLEAN, link : {"none", "connecting", "linked"},
   exit : BOOLEAN, sending : BOOLEAN,
   store : [Key -> {None} \cup Values], hidden : SUBSET Key,
   pipe : Seq(ItemType), wbuf : Seq(MessageType), copy : Seq(ItemType),
   count : 0 .. QMax, free : 0 .. QMax]

Down ==
  [up |-> FALSE, started |-> FALSE, link |-> "none", exit |-> FALSE, sending |-> FALSE,
   store |-> [k \in Key |-> None], hidden |-> {},
   pipe |-> <<>>, wbuf |-> <<>>, copy |-> <<>>, count |-> 0, free |-> 0]

\* A server that found no peer.
Alone == [Down EXCEPT !.up = TRUE, !.started = TRUE]

Init ==
  /\ clientsAt \in Node
  /\ node = [n \in Node |-> IF n = clientsAt THEN Alone ELSE Down]
  /\ chan = [n \in Node |-> <<>>]
  /\ ops = 0 /\ faults = 0 /\ removed = {} /\ flushed = {}

-------------------------------------------------------------------------------
(* The items of a server. *)

Present(s) == {k \in Key : s.store[k] # None}

Gettable(s, k) == k \in Present(s) \ s.hidden

Unlink(s, K) ==
  [s EXCEPT !.store = [k \in Key |-> IF k \in K THEN None ELSE @[k]], !.hidden = @ \ K]

\* item_get unlinks the flushed item it finds.
item_get(s, k) == IF Gettable(s, k) THEN s ELSE Unlink(s, {k})

Store(s, k, v) == [s EXCEPT !.store[k] = v, !.hidden = @ \ {k}]

\* The items of the last second are unlinked, and the older ones hidden.
item_flush_expired(s, recent) ==
  LET t == Unlink(s, recent) IN [t EXCEPT !.hidden = Present(t)]

-------------------------------------------------------------------------------
(* The queue. *)

\* How many queue items are in a pipe: the exit mark is none.
Outstanding(pipe) == Cardinality({j \in DOMAIN pipe : pipe[j] # ExitMark})

\* Mutant: the items still in the pipe are forgotten, not given back.
replication_close_Leak(s) ==
  [s EXCEPT !.link = "none", !.started = @ \/ ~s.exit, !.sending = FALSE,
            !.pipe = <<>>, !.wbuf = <<>>, !.copy = <<>>]

\* What is queued or unsent is dropped, and the server listens for its peer again.
replication_close(s) ==
  [s EXCEPT !.link = "none", !.started = @ \/ ~s.exit, !.sending = FALSE,
            !.pipe = <<>>, !.wbuf = <<>>, !.copy = <<>>,
            !.free = @ + Outstanding(s.pipe)]

\* Mutant: the queue has no limit.
CanAlloc_NoLimit(s, reuse) == s.free > 0 \/ ~reuse

\* An item of the list, or below the limit a new one.
CanAlloc(s, reuse) == s.free > 0 \/ (~reuse /\ s.count < QMax)

qi_new(s) == IF s.free > 0 THEN [s EXCEPT !.free = @ - 1] ELSE [s EXCEPT !.count = @ + 1]

replication_item(s, i) == [s EXCEPT !.pipe = Append(@, i)]

Enqueue(s, i) == replication_item(qi_new(s), i)

\* Mutant: the copy ends at the first key that is gone.
replication_marugoto_Stop(s) ==
  IF s.copy = <<>> THEN s
  ELSE LET i == s.copy[1] IN
       IF i = EndMark \/ Gettable(s, i.key)
       THEN Enqueue([s EXCEPT !.copy = Tail(@)], i)
       ELSE Enqueue([s EXCEPT !.copy = <<>>], EndMark)

(***************************************************************************)
(* replication_marugoto(0) queues the next key of the copy that is still   *)
(* there, and the end after the last.  There is an item to allocate: a     *)
(* read of the pipe gives one back unless none was out.                    *)
(***************************************************************************)
replication_marugoto(s) ==
  IF s.copy = <<>> THEN s
  ELSE LET next == SelectInSeq(s.copy, LAMBDA i : i = EndMark \/ Gettable(s, i.key))
           gone == {s.copy[j].key : j \in 1 .. next - 1}
       IN Enqueue([Unlink(s, gone) EXCEPT !.copy = SubSeq(@, next + 1, Len(@))], s.copy[next])

\* assoc_find also finds an item that is hidden.
replication_cmd(s, i) ==
  IF i.op = "rep" /\ s.store[i.key] # None
  THEN [op |-> "rep", key |-> i.key, value |-> s.store[i.key]]
  ELSE [op |-> IF i.op = "rep" THEN "del" ELSE i.op, key |-> i.key, value |-> None]

\* The commands of what one read of the pipe returns: it is taken from its end.
ReadLen(s) == IF Len(s.pipe) < Batch THEN Len(s.pipe) ELSE Batch

Commanded(s) ==
  LET made[j \in 0 .. ReadLen(s)] ==
        IF j = 0 THEN <<>>
        ELSE IF s.pipe[j] = ExitMark THEN made[j - 1]
             ELSE <<replication_cmd(s, s.pipe[j])>> \o made[j - 1]
  IN made[ReadLen(s)]

\* The pipe was read: commands are in wbuf, the items given back.
Taken(s) ==
  LET read == SubSeq(s.pipe, 1, ReadLen(s))
  IN [s EXCEPT !.pipe = SubSeq(@, ReadLen(s) + 1, Len(@)),
               !.wbuf = @ \o Commanded(s),
               !.free = @ + Outstanding(read),
               !.exit = @ \/ (\E j \in DOMAIN read : read[j] = ExitMark)]

\* Mutant: the process ends at once, whatever it has not sent.
Finished_Now(s) == Taken(s).exit

\* replication_pop ends the process, when nothing is left to send.
Finished(s) == Taken(s).exit /\ Taken(s).wbuf = <<>>

\* replication_pop otherwise: an exit that cannot be yet is queued again.
replication_pop(s) ==
  LET t == Taken(s)
  IN replication_marugoto(IF t.exit THEN replication_item(t, ExitMark) ELSE t)

\* Mutant: at the limit of the queue it is popped, and the change forgotten.
replication_Forget(s, i) ==
  IF s.link # "linked" THEN s
  ELSE IF CanAlloc(s, FALSE) THEN Enqueue(s, i)
  ELSE replication_pop(s)

replication(s, i) ==
  IF s.link # "linked" THEN s
  ELSE IF CanAlloc(s, FALSE) THEN Enqueue(s, i)
  ELSE LET t == replication_pop(s)
       IN IF CanAlloc(t, TRUE) THEN Enqueue(t, i) ELSE replication_close(t)

-------------------------------------------------------------------------------
(***************************************************************************)
(* The clients.  A server runs nothing else while it is in                 *)
(* replication_send, and once it is exiting it serves no connection.       *)
(***************************************************************************)
Runs(n) == node[n].up /\ ~node[n].sending
Serves(n) == Runs(n) /\ node[n].started /\ ~node[n].exit

Command(n, name) ==
  /\ name \in Commands /\ n = clientsAt /\ Serves(n) /\ ops < MaxOps
  /\ ops' = ops + 1
  /\ UNCHANGED <<chan, clientsAt, faults>>

Set(n, k) ==
  /\ Command(n, "set")
  /\ node' = [node EXCEPT ![n] = replication(Store(@, k, ops + 1), Item("rep", k))]
  /\ UNCHANGED <<removed, flushed>>

\* Finding a flushed item unlinks it.
Get(n, k) ==
  /\ Command(n, "get") /\ k \in node[n].hidden
  /\ node' = [node EXCEPT ![n] = item_get(@, k)]
  /\ UNCHANGED <<removed, flushed>>

Delete(n, k) ==
  /\ Command(n, "delete") /\ k \in Present(node[n])
  /\ node' = [node EXCEPT ![n] = IF Gettable(@, k)
                                 THEN replication(Unlink(@, {k}), Item("del", k))
                                 ELSE Unlink(@, {k})]
  /\ removed' = removed \cup {k}
  /\ UNCHANGED flushed

\* Queued before the items are flushed here.
FlushAll(n) ==
  /\ Command(n, "flush") /\ Present(node[n]) # {}
  /\ \E recent \in SUBSET Present(node[n]) :
       node' = [node EXCEPT ![n] = item_flush_expired(replication(@, Item("flush", NoKey)), recent)]
  /\ removed' = Key /\ flushed' = flushed \cup Present(node[n])

\* item_alloc queues the eviction before it unlinks.
Evicted(s, k) == Unlink(replication(s, Item("del", k)), {k})

\* A client's value needs memory, or one that the peer copies.
Needs(n) ==
  \/ n = clientsAt /\ Serves(n)
  \/ /\ BackupEvicts /\ n # clientsAt /\ Runs(n) /\ ~node[n].exit
     /\ node[n].link = "linked" /\ chan[Peer(n)] # <<>> /\ Head(chan[Peer(n)]).op = "rep"

Evict(n, k) ==
  /\ "evict" \in Commands /\ Needs(n) /\ k \in Present(node[n]) /\ ops < MaxOps
  /\ ops' = ops + 1
  /\ node' = [node EXCEPT ![n] = Evicted(@, k)]
  /\ removed' = removed \cup {k}
  /\ flushed' = IF n = clientsAt THEN flushed ELSE flushed \cup {k}
  /\ UNCHANGED <<chan, clientsAt, faults>>

-------------------------------------------------------------------------------
(* The link. *)

Linked(n) == node[n].up /\ node[n].link = "linked"

\* Mutant: the commands are made, and not written.
conn_pipe_recv_NoSend(s) == s

conn_pipe_recv(s) == [s EXCEPT !.sending = s.wbuf # <<>>]

PipeReadable(n) ==
  /\ Runs(n) /\ Linked(n) /\ node[n].pipe # <<>> /\ ~Finished(node[n])
  /\ node' = [node EXCEPT ![n] = conn_pipe_recv(replication_pop(@))]
  /\ UNCHANGED <<chan, clientsAt, ops, faults, removed, flushed>>

\* What was not read of the peer makes the kernel reset the connection.
Exit(n) ==
  /\ Runs(n) /\ Linked(n) /\ node[n].pipe # <<>> /\ Finished(node[n])
  /\ node' = [node EXCEPT ![n] = Down]
  /\ \E kept \in IF chan[Peer(n)] = <<>> THEN {Len(chan[n])} ELSE 0 .. Len(chan[n]) :
       chan' = [m \in Node |-> IF m = n THEN SubSeq(chan[n], 1, kept) ELSE <<>>]
  /\ UNCHANGED <<clientsAt, ops, faults, removed, flushed>>

\* replication_send: write until wbuf is empty, whatever it takes.
Send(n) ==
  /\ node[n].up /\ node[n].sending /\ Linked(Peer(n)) /\ Len(chan[n]) < Window
  /\ chan' = [chan EXCEPT ![n] = Append(@, Head(node[n].wbuf))]
  /\ node' = [node EXCEPT ![n].wbuf = Tail(@), ![n].sending = Len(node[n].wbuf) > 1]
  /\ UNCHANGED <<clientsAt, ops, faults, removed, flushed>>

Closed(n) ==
  /\ node' = [node EXCEPT ![n] = replication_close(@)]
  /\ chan' = [m \in Node |-> <<>>]
  /\ UNCHANGED <<clientsAt, ops, faults, removed, flushed>>

SendFails(n) == node[n].up /\ node[n].sending /\ ~Linked(Peer(n)) /\ Closed(n)

\* A command of the peer is executed as a client's, but is not queued.
Executed(s, m, recent) ==
  CASE m.op = "rep"   -> Store(s, m.key, m.value)
    [] m.op = "del"   -> Unlink(s, {m.key})
    [] m.op = "flush" -> item_flush_expired(s, recent)
    [] m.op = "end"   -> [s EXCEPT !.started = TRUE]

Receive(n) ==
  /\ Runs(n) /\ Linked(n) /\ ~node[n].exit /\ chan[Peer(n)] # <<>>
  /\ \E recent \in IF Head(chan[Peer(n)]).op = "flush" THEN SUBSET Present(node[n]) ELSE {{}} :
       node' = [node EXCEPT ![n] = Executed(@, Head(chan[Peer(n)]), recent)]
  /\ chan' = [chan EXCEPT ![Peer(n)] = Tail(@)]
  /\ UNCHANGED <<clientsAt, ops, faults, removed, flushed>>

SeeClose(n) ==
  /\ Runs(n) /\ Linked(n) /\ ~node[n].exit /\ ~Linked(Peer(n)) /\ chan[Peer(n)] = <<>>
  /\ Closed(n)

-------------------------------------------------------------------------------
(* Processes. *)

\* A client that starts connects; the listening peer accepts it and starts the copy.
Start(n) ==
  /\ ~node[n].up
  /\ node' = [node EXCEPT ![n] = [Down EXCEPT !.up = TRUE, !.link = "connecting"]]
  /\ UNCHANGED <<chan, clientsAt, ops, faults, removed, flushed>>

Listens(n) == node[n].up /\ node[n].link = "none" /\ ~node[n].exit

Accept(n) ==
  LET p == Peer(n)
      Keys == SetToSeqs(Present(node[n]))
      Copy(order) == [j \in DOMAIN order |-> Item("rep", order[j])] \o <<EndMark>>
  IN /\ Listens(n) /\ node[p].up /\ node[p].link = "connecting"
     /\ \E order \in Keys :
          node' = [node EXCEPT
            ![n] = replication_marugoto([@ EXCEPT !.link = "linked", !.copy = Copy(order)]),
            ![p].link = "linked"]
     /\ chan' = [m \in Node |-> <<>>]
     /\ removed' = {} /\ flushed' = {}
     /\ UNCHANGED <<clientsAt, ops, faults>>

\* The connection is refused: the server listens, and serves what it has.
Refused(n) ==
  /\ node[n].up /\ node[n].link = "connecting" /\ ~Listens(Peer(n))
  /\ node' = [node EXCEPT ![n] = replication_close(@)]
  /\ UNCHANGED <<chan, clientsAt, ops, faults, removed, flushed>>

\* What is in flight from n is lost from some point on; what is in flight to it is lost.
Crash(n) ==
  /\ node[n].up /\ faults < MaxFaults /\ faults' = faults + 1
  /\ node' = [node EXCEPT ![n] = Down]
  /\ \E kept \in 0 .. Len(chan[n]) :
       chan' = [m \in Node |-> IF m = n THEN SubSeq(chan[n], 1, kept) ELSE <<>>]
  /\ UNCHANGED <<clientsAt, ops, removed, flushed>>

\* sig_handler: linked, the exit waits for its turn in the queue, as often as it is asked for.
Terminate(n) ==
  /\ node[n].up
  /\ faults < MaxFaults /\ faults' = faults + 1
  /\ node' = [node EXCEPT ![n] = IF Linked(n) THEN replication_item(@, ExitMark) ELSE Down]
  /\ UNCHANGED <<chan, clientsAt, ops, removed, flushed>>

\* The clients turn to the other server when theirs no longer accepts them.
Failover ==
  /\ ~node[clientsAt].started \/ node[clientsAt].exit
  /\ node[Peer(clientsAt)].started /\ ~node[Peer(clientsAt)].exit
  /\ clientsAt' = Peer(clientsAt)
  /\ UNCHANGED <<node, chan, ops, faults, removed, flushed>>

Next ==
  \/ \E n \in Node, k \in Key :
       Set(n, k) \/ Get(n, k) \/ Delete(n, k) \/ Evict(n, k)
  \/ \E n \in Node :
       \/ FlushAll(n) \/ PipeReadable(n) \/ Exit(n) \/ Send(n) \/ SendFails(n) \/ Receive(n) \/ SeeClose(n)
       \/ Start(n) \/ Accept(n) \/ Refused(n) \/ Crash(n) \/ Terminate(n)
  \/ Failover

Spec == Init /\ [][Next]_vars

\* What the event loop of a process does without its clients.
Loop(n) == PipeReadable(n) \/ Exit(n) \/ Send(n) \/ SendFails(n) \/ Receive(n) \/ SeeClose(n)

\* A process with something to do does something; nobody has to start or to accept.
FairSpec == Spec /\ \A n \in Node : WF_vars(Loop(n))

-------------------------------------------------------------------------------
TypeOK ==
  /\ node \in [Node -> Process]
  /\ chan \in [Node -> {c \in Seq(MessageType) : Len(c) <= Window}]
  /\ clientsAt \in Node /\ ops \in 0 .. MaxOps /\ faults \in 0 .. MaxFaults
  /\ removed \subseteq Key /\ flushed \subseteq removed

Visible(s) == [k \in Key |-> IF Gettable(s, k) THEN s.store[k] ELSE None]

\* What the peer of n will show of k when it has all that n has made commands of.
Delivered(n, k) ==
  LET wire == chan[n] \o node[n].wbuf
      About == {j \in DOMAIN wire : wire[j].key = k \/ wire[j].op = "flush"}
  IN IF About = {} THEN Visible(node[Peer(n)])[k] ELSE wire[Max(About)].value

\* n serves the clients, and its peer still reads what it is sent.
Replicates(n) == n = clientsAt /\ node[n].started /\ Linked(n) /\ Linked(Peer(n)) /\ ~node[Peer(n)].exit

IsQueued(n, k) == \E j \in DOMAIN node[n].pipe : node[n].pipe[j].key = k

\* The server that its clients leave to does not hold an older value than they wrote:
\* once the changes of a key are commands, they end in its value or in none.
NoStaleBackup ==
  \A n \in Node, k \in Key :
    Replicates(n) /\ ~IsQueued(n, k) /\ k \notin flushed
      => Delivered(n, k) \in {None, Visible(node[n])[k]}

\* A key that nobody removed since the link was made is on its way to the peer as it
\* is, unless it is queued or still to be copied.
BackupFollows ==
  \A n \in Node, k \in Key :
    Replicates(n) /\ ~IsQueued(n, k) /\ ~Contains(node[n].copy, Item("rep", k)) /\ k \notin removed
      => Delivered(n, k) = Visible(node[n])[k]

\* qi_new and qi_free keep account: every queue item is in the free list or in the pipe.
QueueConserved ==
  \A n \in Node : node[n].count = node[n].free + Outstanding(node[n].pipe)

\* A process that ends on SIGTERM has written every change to its peer.
ExitLosesNothing ==
  [][\A n \in Node :
       Exit(n) /\ Replicates(n)
         => \A k \in Key \ removed : Delivered(n, k) = Visible(node[n])[k]]_vars

Quiet ==
  \A n \in Node :
    /\ node[n].started /\ ~node[n].exit
    /\ node[n].pipe = <<>> /\ node[n].wbuf = <<>> /\ node[n].copy = <<>> /\ chan[n] = <<>>

BothLinked == \A n \in Node : Linked(n)

\* Two servers that stay linked both come to serve, with nothing on its way between them.
Settles == BothLinked ~> (Quiet \/ ~BothLinked)

\* Two servers that are linked and quiet show the same values.  The tests of t.rep expect
\* it once REP_LAG has passed; a batch that is taken from its end breaks it.
Converged == BothLinked /\ Quiet => \A m, n \in Node : Visible(node[m]) = Visible(node[n])

===============================================================================
