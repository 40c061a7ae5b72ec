--------------------------------- MODULE Conn ---------------------------------
(***************************************************************************)
(* One TCP connection of memcached 1.4.5, under the text or the binary     *)
(* protocol: the state machine of memcached.c (drive_machine) between two  *)
(* sockets' buffers.  A client sends requests without waiting for replies; *)
(* reads and writes are short, would block or fail.  What a request does   *)
(* to the cache is in Server; here it is an answer.                        *)
(*                                                                         *)
(* A request line, and the data block of a set, are two units each, of     *)
(* which the second holds the newline.  A binary header is two units, the  *)
(* key with the extras one, a value one.  A read or write moves any number *)
(* of units there is room for: buffer sizes are abstracted.  One iteration *)
(* of drive_machine's loop is one action.                                  *)
(***************************************************************************)
EXTENDS Integers, Sequences, FiniteSets, SequencesExt, FiniteSetsExt

CONSTANTS
  Kinds,          \* the kinds of request the client sends
  MaxRequests, MaxUnits,   \* bounds on what it sends
  Window,         \* replies the client's side of the socket can buffer
  ReqsPerEvent,   \* settings.reqs_per_event
  Failures        \* what may fail: item_alloc of a set, by its kind; the growing of
                  \* the buffer ("rbuf"); update_event where the loop goes on ("event")
                  \* or stops after it ("yield")

\* A get, a command with a one-line reply, the same with noreply, a set, a set
\* with noreply, quit, a line that is no command.
TextKinds == {"get", "touch", "quiet", "set", "setq", "quit", "junk"}

\* noop or version; a get; a set; a command with a key (delete, increment) or extras
\* (flush); quit; the quiet versions of these; an opcode there is not, with a body; a
\* header whose lengths are wrong; one whose first byte is.
BinaryKinds == {"noop", "bget", "bgetq", "bset", "bsetq", "bdel", "bdelq", "bquit", "bquitq",
                "unknown", "bad", "magic"}

SetKinds == {"set", "setq", "bset", "bsetq"}

ASSUME ConnAssumption ==
  /\ Kinds \subseteq TextKinds \cup BinaryKinds
  /\ Failures \subseteq SetKinds \cup {"rbuf", "event", "yield"}
  /\ {MaxRequests, MaxUnits, Window, ReqsPerEvent} \subseteq Nat \ {0}

IsNoreply(kind) == kind \in {"quiet", "setq"}
IsQuiet(kind)   == kind \in {"bgetq", "bsetq", "bdelq", "bquitq"}
Parts(kind)     == IF kind \in SetKinds THEN 4
                   ELSE IF kind \in {"bget", "bgetq", "bdel", "bdelq", "unknown"} THEN 3 ELSE 2

VARIABLES
  stream,     \* every unit the client sends: its request, kind and part
  arrived,    \* how many of them have reached the socket
  hungup,     \* the client has closed its side
  written,    \* every reply written to the socket
  seen,       \* how many of them the client has taken
  taken,      \* how many units the machine has consumed: rcurr
  running,    \* drive_machine runs; otherwise the event loop has the connection
  c           \* the connection

vars == <<stream, arrived, hungup, written, seen, taken, running, c>>
clientVars == <<stream, arrived, hungup, seen>>

\* conn_new: what the state machine keeps of a conn.
Init ==
  /\ stream = <<>> /\ written = <<>>
  /\ arrived = 0 /\ seen = 0 /\ taken = 0
  /\ hungup = FALSE /\ running = FALSE
  /\ c = [protocol |-> "negotiating",
          state |-> "conn_new_cmd", substate |-> "none", write_and_go |-> "conn_new_cmd", ev_flags |-> "read",
          nreqs |-> 0,          \* drive_machine's own count
          done |-> 0,           \* requests processed in this run of drive_machine
          noreply |-> FALSE,
          rbytes |-> 0, rlbytes |-> 0, sbytes |-> 0,
          wbuf |-> <<>>,        \* the line out_string left
          iovused |-> FALSE,    \* the reply has been put together
          msgs |-> <<>>,        \* what is left of it to write
          item |-> FALSE,       \* holds the item of a set
          ileft |-> 0]          \* hits of a get to be released

-----------------------------------------------------------------------------
(* The client and the network *)

Requests == IF stream = <<>> THEN 0 ELSE Last(stream).req

\* The client decides what to send next when the last of a request is sent;
\* it waits for no reply, and keeps to one protocol.
Request(kind) ==
  /\ ~hungup /\ arrived = Len(stream)
  /\ IF stream = <<>> THEN kind # "magic"
     ELSE kind \in BinaryKinds <=> stream[1].kind \in BinaryKinds
  /\ Requests < MaxRequests /\ Len(stream) + Parts(kind) <= MaxUnits
  /\ stream' = stream \o [p \in 1 .. Parts(kind) |-> [req |-> Requests + 1, kind |-> kind, part |-> p]]
  /\ UNCHANGED <<arrived, hungup, written, seen, taken, running, c>>

Deliver ==
  /\ ~hungup
  /\ arrived < Len(stream)
  /\ arrived' = arrived + 1
  /\ UNCHANGED <<stream, hungup, written, seen, taken, running, c>>

ReadReply ==
  /\ ~hungup
  /\ seen < Len(written)
  /\ seen' = seen + 1
  /\ UNCHANGED <<stream, arrived, hungup, written, taken, running, c>>

\* The client may stop in the middle of a request.
HangUp ==
  /\ ~hungup
  /\ hungup' = TRUE
  /\ UNCHANGED <<stream, arrived, written, seen, taken, running, c>>

InSocket == arrived - taken - c.rbytes
Room == Window - (Len(written) - seen)

-----------------------------------------------------------------------------
(* Helpers of the machine *)

At(state) == running /\ c.state = state

Keep == UNCHANGED <<stream, arrived, hungup, written, seen, taken>>

\* The loop goes on with connection d, or stops.
Continue(d) == c' = d /\ running' = TRUE
Stop(d) == c' = d /\ running' = FALSE

Go(d, state) == [d EXCEPT !.state = state]

\* update_event(c, flags), after which the loop stops.  When it fails the event
\* may be gone, and the loop goes on to close the connection.
StopWaiting(d, flags) ==
  \/ Stop([d EXCEPT !.ev_flags = flags])
  \/ /\ "event" \in Failures /\ d.ev_flags # flags
     /\ \E left \in {d.ev_flags, "none"} :
          Continue([Go(d, "conn_closing") EXCEPT !.ev_flags = left])

\* Mutant: noreply stays set.
out_string_KeepsNoreply(d, line) ==
  IF d.noreply
  THEN Go(d, "conn_new_cmd")
  ELSE [Go(d, "conn_write") EXCEPT !.wbuf = line, !.write_and_go = "conn_new_cmd"]

out_string(d, line) ==
  IF d.noreply
  THEN [Go(d, "conn_new_cmd") EXCEPT !.noreply = FALSE]
  ELSE [Go(d, "conn_write") EXCEPT !.wbuf = line, !.write_and_go = "conn_new_cmd"]

\* Mutant: the bytes already read are forgotten.
reset_cmd_handler_Waits(d) ==
  [Go(d, "conn_waiting") EXCEPT !.item = FALSE, !.substate = "none"]

reset_cmd_handler(d) ==
  [Go(d, IF d.rbytes > 0 THEN "conn_parse_cmd" ELSE "conn_waiting") EXCEPT
     !.item = FALSE, !.substate = "none"]

-----------------------------------------------------------------------------
(* The event loop calls event_handler *)

Ready ==
  \/ c.ev_flags = "read" /\ (InSocket > 0 \/ hungup)
  \/ c.ev_flags = "write" /\ (Room > 0 \/ hungup)

Event ==
  /\ ~running /\ Ready
  /\ Continue([c EXCEPT !.nreqs = ReqsPerEvent, !.done = 0])
  /\ Keep

\* The socket was reported readable and there is nothing to read.
FalseAlarm ==
  /\ ~running /\ c.ev_flags = "read" /\ ~Ready
  /\ Continue([c EXCEPT !.nreqs = ReqsPerEvent, !.done = 0])
  /\ Keep

-----------------------------------------------------------------------------
(* Reading requests *)

Waiting ==
  /\ At("conn_waiting")
  /\ StopWaiting(Go(c, "conn_read"), "read")
  /\ Keep

\* try_read_network
ReadData ==
  /\ At("conn_read")
  /\ \E n \in 1 .. InSocket :
       Continue([Go(c, "conn_parse_cmd") EXCEPT !.rbytes = @ + n])
  /\ Keep

ReadNothing ==
  /\ At("conn_read")
  /\ InSocket = 0 /\ ~hungup
  /\ Continue(Go(c, "conn_waiting"))
  /\ Keep

\* The end of the stream or an error, alone or behind data that filled the buffer
\* exactly and goes unanswered.
ReadEof ==
  /\ At("conn_read")
  /\ hungup
  /\ Continue(Go(c, "conn_closing"))
  /\ Keep

Start == stream[taken + 1]
Reply(what) == [req |-> Start.req, what |-> what]

\* try_read_command looks at the first byte of all, once.
Protocol == IF c.protocol # "negotiating" THEN c.protocol
            ELSE IF Start.kind \in BinaryKinds THEN "binary" ELSE "ascii"

EndsLine(u) == u.part \in {2, 4}
LineEnds == {n \in 1 .. c.rbytes : EndsLine(stream[taken + n])}

\* A whole line is in the buffer, or a whole header.
HasHead == IF Protocol = "binary" THEN c.rbytes >= 2 ELSE LineEnds # {}
HeadLen == IF Protocol = "binary" THEN 2 ELSE Min(LineEnds)

NeedMore ==
  /\ At("conn_parse_cmd")
  /\ ~HasHead
  /\ Continue([Go(c, "conn_waiting") EXCEPT !.protocol = Protocol])
  /\ Keep

-----------------------------------------------------------------------------
(* process_command and dispatch_bin_command: the first request of the buffer *)

AtRequest(kinds) ==
  /\ At("conn_parse_cmd") /\ HasHead
  /\ Start.part = 1 /\ Start.kind \in kinds

\* The connection before the command looks at its tokens or its opcode.
Clean == [c EXCEPT !.protocol = Protocol, !.msgs = <<>>, !.iovused = FALSE, !.done = @ + 1,
                   !.rbytes = @ - HeadLen]

Processed(d) ==
  /\ Continue(d)
  /\ taken' = taken + HeadLen
  /\ UNCHANGED <<stream, arrived, hungup, written, seen>>

\* set_noreply_maybe
Quieted(d) == [d EXCEPT !.noreply = @ \/ IsNoreply(Start.kind)]

ProcessGet ==
  /\ AtRequest({"get"})
  /\ \E hits \in 0 .. 1 :
       Processed([Go(Clean, "conn_mwrite") EXCEPT
                    !.msgs = [h \in 1 .. hits |-> Reply("VALUE")] \o <<Reply("END")>>,
                    !.iovused = TRUE, !.ileft = hits])

ProcessShort ==
  /\ AtRequest({"touch", "quiet"})
  /\ Processed(out_string(Quieted(Clean), <<Reply("LINE")>>))

ProcessUpdate ==
  /\ AtRequest({"set", "setq"})
  /\ Processed([Go(Quieted(Clean), "conn_nread") EXCEPT !.item = TRUE, !.rlbytes = 2])

\* Mutant: the data line is not swallowed.
ProcessUpdateFails_KeepsData ==
  /\ AtRequest({"set", "setq"} \cap Failures)
  /\ Processed(out_string(Quieted(Clean), <<Reply("LINE")>>))

\* item_alloc fails: the data block is to be swallowed.
ProcessUpdateFails ==
  /\ AtRequest({"set", "setq"} \cap Failures)
  /\ Processed([out_string(Quieted(Clean), <<Reply("LINE")>>) EXCEPT
                   !.write_and_go = "conn_swallow", !.sbytes = 2])

ProcessQuit ==
  /\ AtRequest({"quit"})
  /\ Processed(Go(Clean, "conn_closing"))

\* The line is no command, or it is a data block.
ProcessUnknown ==
  /\ At("conn_parse_cmd") /\ Protocol = "ascii" /\ HasHead
  /\ Start.part # 1 \/ Start.kind = "junk"
  /\ Processed(out_string(Clean, <<Reply("ERROR")>>))

-----------------------------------------------------------------------------
(* The binary protocol: a header, and then what it announces *)

\* dispatch_bin_command: noreply is set by each request.
Headed == [Clean EXCEPT !.noreply = IsQuiet(Start.kind)]

write_bin_error(d, reply, swallow) ==
  [Go(d, "conn_mwrite") EXCEPT
     !.msgs = <<reply>>, !.iovused = TRUE,
     !.sbytes = IF swallow > 0 THEN swallow ELSE @,
     !.write_and_go = IF swallow > 0 THEN "conn_swallow" ELSE "conn_new_cmd"]

write_bin_response(d, reply) ==
  IF d.noreply THEN Go(d, "conn_new_cmd")
  ELSE [Go(d, "conn_mwrite") EXCEPT
          !.msgs = <<reply>>, !.iovused = TRUE, !.write_and_go = "conn_new_cmd"]

BinNoop ==
  /\ AtRequest({"noop"})
  /\ Processed(write_bin_response(Headed, Reply("LINE")))

\* Mutant: a quiet quit is only noted for when a reply is written.
BinQuit_Later ==
  /\ AtRequest({"bquit", "bquitq"})
  /\ Processed([write_bin_response(Headed, Reply("LINE")) EXCEPT !.write_and_go = "conn_closing"])

BinQuit ==
  /\ AtRequest({"bquit", "bquitq"})
  /\ LET d == [write_bin_response(Headed, Reply("LINE")) EXCEPT !.write_and_go = "conn_closing"]
     IN Processed(IF d.noreply THEN Go(d, "conn_closing") ELSE d)

\* bin_read_key: the key is read behind the header, in a buffer it may have to grow.
BinReadKey ==
  /\ AtRequest({"bget", "bgetq", "bset", "bsetq", "bdel", "bdelq"})
  /\ \/ Processed([Go(Headed, "conn_nread") EXCEPT !.substate = "key", !.rlbytes = 1])
     \/ "rbuf" \in Failures
        /\ Processed([Go(Headed, "conn_closing") EXCEPT !.substate = "key", !.rlbytes = 1])

BinUnknown ==
  /\ AtRequest({"unknown"})
  /\ Processed(write_bin_error(Headed, Reply("ERROR"), 1))

\* handle_binary_protocol_error
BinBad ==
  /\ AtRequest({"bad"})
  /\ Processed([write_bin_error(Headed, Reply("ERROR"), 0) EXCEPT !.write_and_go = "conn_closing"])

\* No request begins like this.
BinMagic ==
  /\ At("conn_parse_cmd") /\ Protocol = "binary" /\ HasHead
  /\ Start.part # 1 \/ Start.kind = "magic"
  /\ Continue(Go(c, "conn_closing"))
  /\ Keep

\* complete_nread_binary has the key, or the value, of the last request.
Current == stream[taken]
BinReply(what) == [req |-> Current.req, what |-> what]

KeyRead(kinds) ==
  /\ At("conn_nread") /\ c.rlbytes = 0 /\ c.substate = "key"
  /\ Current.kind \in kinds

\* A hit, and the miss of a getk, leave write_and_go as it was.
BinGet ==
  /\ KeyRead({"bget", "bgetq"})
  /\ \/ Continue([Go(c, "conn_mwrite") EXCEPT
                    !.msgs = <<BinReply("LINE")>>, !.iovused = TRUE, !.item = TRUE])
     \/ c.noreply /\ Continue(Go(c, "conn_new_cmd"))
     \/ ~c.noreply /\ Continue(write_bin_error(c, BinReply("ERROR"), 0))
     \/ ~c.noreply /\ Continue([Go(c, "conn_mwrite") EXCEPT
                                  !.msgs = <<BinReply("ERROR")>>, !.iovused = TRUE])
  /\ Keep

\* process_bin_delete, complete_incr_bin, process_bin_flush
BinKeyed ==
  /\ KeyRead({"bdel", "bdelq"})
  /\ \/ Continue(write_bin_response(c, BinReply("LINE")))
     \/ Continue(write_bin_error(c, BinReply("ERROR"), 0))
  /\ Keep

\* process_bin_update, process_bin_append_prepend
BinUpdate ==
  /\ KeyRead({"bset", "bsetq"})
  /\ \/ Continue([Go(c, "conn_nread") EXCEPT !.item = TRUE, !.rlbytes = 1, !.substate = "value"])
     \/ /\ Current.kind \in Failures
        /\ Continue([write_bin_error(c, BinReply("ERROR"), 1) EXCEPT !.write_and_go = "conn_swallow"])
  /\ Keep

\* complete_update_bin: an error is told, quiet or not.
BinStore ==
  /\ At("conn_nread") /\ c.rlbytes = 0 /\ c.substate = "value"
  /\ \/ Continue([write_bin_response(c, BinReply("LINE")) EXCEPT !.item = FALSE])
     \/ Continue([write_bin_error(c, BinReply("ERROR"), 0) EXCEPT !.item = FALSE])
  /\ Keep

-----------------------------------------------------------------------------
(* The next request: conn_new_cmd *)

NextRequest ==
  /\ At("conn_new_cmd")
  /\ c.nreqs > 0
  /\ Continue(reset_cmd_handler([c EXCEPT !.nreqs = @ - 1]))
  /\ Keep

\* Mutant: the machine waits for the next read event as ever.
Yield_Reads ==
  /\ At("conn_new_cmd")
  /\ c.nreqs = 0
  /\ Stop(c)
  /\ Keep

\* Enough for this event.  What is in the buffer already raises no read event,
\* and so the machine waits until it may write.
Yield ==
  /\ At("conn_new_cmd")
  /\ c.nreqs = 0
  /\ \/ Stop([c EXCEPT !.ev_flags = IF c.rbytes > 0 THEN "write" ELSE @])
     \/ /\ "yield" \in Failures
        /\ c.rbytes > 0 /\ c.ev_flags # "write"
        /\ \E left \in {c.ev_flags, "none"} :
             Stop([Go(c, "conn_closing") EXCEPT !.ev_flags = left])
  /\ Keep

-----------------------------------------------------------------------------
(* The data block: conn_nread reads it, conn_swallow throws it away *)

\* complete_nread_ascii
NreadDone ==
  /\ At("conn_nread") /\ c.rlbytes = 0 /\ c.protocol = "ascii"
  /\ Continue([out_string(c, <<[req |-> stream[taken].req, what |-> "LINE"]>>)
               EXCEPT !.item = FALSE])
  /\ Keep

Wanted == IF c.state = "conn_nread" THEN c.rlbytes ELSE c.sbytes
Got(n) == IF c.state = "conn_nread" THEN [c EXCEPT !.rlbytes = @ - n]
                                    ELSE [c EXCEPT !.sbytes = @ - n]

WantsData == (At("conn_nread") \/ At("conn_swallow")) /\ Wanted > 0

\* Leftovers of the buffer come first.  For conn_swallow that is an iteration;
\* conn_nread reads on in the same one if they are not enough.
LeftoversDo == c.rbytes > 0 /\ (c.state = "conn_swallow" \/ c.rbytes >= Wanted)

DataFromBuffer ==
  /\ WantsData /\ LeftoversDo
  /\ LET tocopy == Min({c.rbytes, Wanted})
     IN  /\ Continue([Got(tocopy) EXCEPT !.rbytes = @ - tocopy])
         /\ taken' = taken + tocopy
  /\ UNCHANGED <<stream, arrived, hungup, written, seen>>

\* The connection with the leftovers and n units more of the data block.
Copied(n) == [Got(c.rbytes + n) EXCEPT !.rbytes = 0]
ReadOn(n) ==
  /\ taken' = taken + c.rbytes + n
  /\ UNCHANGED <<stream, arrived, hungup, written, seen>>

DataFromSocket ==
  /\ WantsData /\ ~LeftoversDo
  /\ \E n \in 1 .. Min({InSocket, Wanted - c.rbytes}) : Continue(Copied(n)) /\ ReadOn(n)

\* The end of the stream, or an error: a client that is gone may have reset the
\* connection.
DataEof ==
  /\ WantsData /\ ~LeftoversDo
  /\ hungup
  /\ Continue(Go(Copied(0), "conn_closing")) /\ ReadOn(0)

DataWouldBlock ==
  /\ WantsData /\ ~LeftoversDo
  /\ InSocket = 0 /\ ~hungup
  /\ StopWaiting(Copied(0), "read") /\ ReadOn(0)

SwallowDone ==
  /\ At("conn_swallow") /\ c.sbytes = 0
  /\ Continue(Go(c, "conn_new_cmd"))
  /\ Keep

-----------------------------------------------------------------------------
(* Writing: conn_write and conn_mwrite *)

Writing == At("conn_write") \/ At("conn_mwrite")

\* What conn_write still has to send: the line joins an empty list only.
ToSend == IF c.state = "conn_write" /\ ~c.iovused THEN c.wbuf ELSE c.msgs
Built(left) == [c EXCEPT !.msgs = left, !.iovused = TRUE]

\* transmit: sendmsg takes some of it, be the client there or not
Transmit ==
  /\ Writing /\ ToSend # <<>>
  /\ \E n \in 1 .. Min({Room, Len(ToSend)}) :
       /\ written' = written \o SubSeq(ToSend, 1, n)
       /\ Continue(Built(SubSeq(ToSend, n + 1, Len(ToSend))))
  /\ UNCHANGED <<stream, arrived, hungup, seen, taken>>

TransmitWouldBlock ==
  /\ Writing /\ ToSend # <<>> /\ ~hungup /\ Room = 0
  /\ StopWaiting(Built(ToSend), "write")
  /\ Keep

TransmitFails ==
  /\ Writing /\ ToSend # <<>> /\ hungup
  /\ Continue(Go(Built(ToSend), "conn_closing"))
  /\ Keep

\* Mutant: the hits stay with the connection.
Transmitted_Holds ==
  /\ Writing /\ ToSend = <<>>
  /\ Continue(Go(c, IF c.state = "conn_mwrite" /\ c.protocol = "ascii" THEN "conn_new_cmd"
                    ELSE c.write_and_go))
  /\ Keep

\* TRANSMIT_COMPLETE; the hits of a get are given back.
Transmitted ==
  /\ Writing /\ ToSend = <<>>
  /\ Continue(IF c.state = "conn_mwrite"
              THEN [Go(c, IF c.protocol = "binary" THEN c.write_and_go ELSE "conn_new_cmd")
                    EXCEPT !.ileft = 0]
              ELSE Go(c, c.write_and_go))
  /\ Keep

\* conn_close
Close ==
  /\ At("conn_closing")
  /\ Stop([Go(c, "closed") EXCEPT !.ev_flags = "none", !.item = FALSE, !.ileft = 0])
  /\ Keep

Drive ==
  \/ Waiting \/ ReadData \/ ReadNothing \/ ReadEof \/ NeedMore
  \/ ProcessGet \/ ProcessShort \/ ProcessUpdate \/ ProcessUpdateFails
  \/ ProcessQuit \/ ProcessUnknown
  \/ BinNoop \/ BinQuit \/ BinReadKey \/ BinUnknown \/ BinBad \/ BinMagic
  \/ BinGet \/ BinKeyed \/ BinUpdate \/ BinStore
  \/ NextRequest \/ Yield
  \/ NreadDone \/ DataFromBuffer \/ DataFromSocket \/ DataEof \/ DataWouldBlock
  \/ SwallowDone
  \/ Transmit \/ TransmitWouldBlock \/ TransmitFails \/ Transmitted
  \/ Close

Next ==
  \/ \E kind \in Kinds : Request(kind)
  \/ Deliver \/ ReadReply \/ HangUp
  \/ Event \/ FalseAlarm
  \/ Drive

Spec == Init /\ [][Next]_vars

\* The event loop and the machine run, and the client takes its replies; it need
\* not send anything, nor the network deliver it.
FairSpec == Spec /\ WF_vars(Event) /\ WF_vars(Drive) /\ WF_vars(ReadReply)
-----------------------------------------------------------------------------
(* Properties *)

States == {"conn_new_cmd", "conn_waiting", "conn_read", "conn_parse_cmd", "conn_nread",
           "conn_swallow", "conn_write", "conn_mwrite", "conn_closing", "closed"}

Replies == [req : 1 .. MaxRequests, what : {"VALUE", "END", "LINE", "ERROR"}]

TypeOK ==
  /\ stream \in Seq([req : 1 .. MaxRequests, kind : Kinds, part : 1 .. 4])
  /\ Len(stream) <= MaxUnits
  /\ written \in Seq(Replies)
  /\ arrived \in 0 .. Len(stream) /\ taken \in Nat /\ taken + c.rbytes <= arrived
  /\ seen \in 0 .. Len(written) /\ Room >= 0
  /\ hungup \in BOOLEAN /\ running \in BOOLEAN
  /\ c \in [protocol : {"negotiating", "ascii", "binary"}, substate : {"none", "key", "value"},
            state : States, write_and_go : States, ev_flags : {"read", "write", "none"},
            nreqs : 0 .. ReqsPerEvent, done : Nat, noreply : BOOLEAN,
            rbytes : Nat, rlbytes : 0 .. 2, sbytes : 0 .. 2, wbuf : Seq(Replies),
            iovused : BOOLEAN, msgs : Seq(Replies), item : BOOLEAN, ileft : 0 .. 1]

\* Between requests the machine stands at the first byte of a request: no data
\* block is taken for a command ("swallow the data line", memcached.c:2754).
DataNeverCommand ==
  c.state \in {"conn_waiting", "conn_read", "conn_parse_cmd"} /\ taken < Len(stream)
    => stream[taken + 1].part = 1

KindOf(i) == stream[CHOOSE p \in DOMAIN stream : stream[p].req = i].kind

\* A quiet request is answered when it has something to say; the others always.
NeverAnswered == {"quiet", "setq", "quit", "bquitq", "magic"}
AlwaysAnswered(kind) == kind \notin NeverAnswered /\ ~IsQuiet(kind)

Pending == IF Writing THEN ToSend ELSE <<>>
Answers == written \o Pending
Finals  == {r.req : r \in {x \in Range(Answers) : x.what # "VALUE"}}

\* What a quiet request does not tell: that a change was made, that a key is absent.
Untold(r) == \/ r.what = "LINE" /\ KindOf(r.req) \in {"bsetq", "bdelq"}
             \/ r.what = "ERROR" /\ KindOf(r.req) = "bgetq"

\* Each request that wants a reply has one, in the order of the requests and each
\* before the next begins; nothing answers a noreply, and a quiet request is answered
\* once at most ("Quiet mutations only return responses on failure",
\* doc/protocol-binary.xml:603).
RepliesInOrder ==
  /\ \A i \in 1 .. Len(Answers) - 1 :
       IF Answers[i].what = "VALUE" THEN Answers[i + 1].req = Answers[i].req
                                    ELSE Answers[i + 1].req > Answers[i].req
  /\ \A r \in Range(Answers) : KindOf(r.req) \notin NeverAnswered /\ ~Untold(r)
  /\ \A i \in Finals, j \in 1 .. MaxRequests :
       j < i /\ AlwaysAnswered(KindOf(j)) => j \in Finals

\* Nothing that was sent behind a quit or a broken header is answered, nor run.
QuitIsLast ==
  \A p \in 1 .. taken :
    stream[p].kind \in {"quit", "bquit", "bquitq", "bad"} =>
      /\ \A i \in Finals : i <= stream[p].req
      /\ taken - p < 2

\* A connection that has a whole line or header in its buffer and is not being driven
\* waits for a write event: a read event might never come.
NoLineForgotten ==
  ~running /\ c.state \notin {"conn_closing", "closed"} /\ c.rbytes > 0 /\ HasHead
    => c.ev_flags = "write"

\* One event serves at most one request more than the "Maximum number of
\* requests per event" (-R): that read by an event in conn_read is not counted.
EventIsShort == c.done <= ReqsPerEvent + 1

\* No item is held for a connection that is between requests or closed.
ItemsGivenBack ==
  c.state \in {"conn_waiting", "conn_read", "conn_parse_cmd", "closed"} => ~c.item /\ c.ileft = 0

\* A request that has arrived in full is answered, or the connection is given up.
HasArrived(i) ==
  \E p \in 1 .. arrived : stream[p].req = i /\ stream[p].part = Parts(stream[p].kind)
Answered ==
  \A i \in 1 .. MaxRequests :
    HasArrived(i) /\ AlwaysAnswered(KindOf(i))
      ~> (c.state \in {"conn_closing", "closed"} \/ \E r \in Range(written) : r.req = i /\ r.what # "VALUE")
=============================================================================
