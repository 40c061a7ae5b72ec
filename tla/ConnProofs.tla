-------------------------------- MODULE ConnProofs -------------------------------
(***************************************************************************)
(* For every client, every bound and every choice of what may fail: what   *)
(* the connection's state machine holds, counts and waits for, where it    *)
(* stands in the client's bytes, and which replies the client has.         *)
(***************************************************************************)
EXTENDS Conn, TLAPS

USE ConnAssumption DEF ConnAssumption

-------------------------------------------------------------------------------
(* The inductive invariant, in parts *)

\* What of the last request is still to come: the rest of its body.
Left == IF taken = 0 THEN 0 ELSE Parts(stream[taken].kind) - stream[taken].part

KeyedKinds == {"bget", "bgetq", "bset", "bsetq", "bdel", "bdelq"}

Between == {"conn_new_cmd", "conn_waiting", "conn_read", "conn_parse_cmd"}

\* What the client sends: whole requests of one protocol, numbered in order.
OneProtocol ==
  \A p \in 1 .. Len(stream) : /\ stream[p].kind \in BinaryKinds <=> stream[1].kind \in BinaryKinds
                              /\ stream[1].kind # "magic"
WholeRequests ==
  /\ stream # <<>> => /\ stream[1].part = 1
                      /\ stream[Len(stream)].part = Parts(stream[Len(stream)].kind)
  /\ \A p \in 1 .. Len(stream) : stream[p].part <= Parts(stream[p].kind)
Successive ==
  \A p \in 1 .. Len(stream) - 1 :
    \/ /\ stream[p].part = Parts(stream[p].kind)
       /\ stream[p + 1].part = 1 /\ stream[p + 1].req = stream[p].req + 1
    \/ /\ stream[p].part < Parts(stream[p].kind)
       /\ stream[p + 1].part = stream[p].part + 1
       /\ stream[p + 1].req = stream[p].req /\ stream[p + 1].kind = stream[p].kind
Ordered ==
  \A p \in 1 .. Len(stream) : \A q \in p .. Len(stream) :
    stream[p].req <= stream[q].req /\ (stream[p].req = stream[q].req => stream[p].kind = stream[q].kind)
Numbered ==
  \A p \in 1 .. Len(stream) : \A j \in 1 .. stream[p].req : \E q \in 1 .. p : stream[q].req = j
Whole == OneProtocol /\ WholeRequests /\ Successive /\ Ordered /\ Numbered

\* What the connection holds is given back before it looks for the next request.
Holds ==
  /\ c.state \in {"conn_waiting", "conn_read", "conn_parse_cmd", "closed"} => ~c.item
  /\ c.ileft # 0 => c.state \in {"conn_mwrite", "conn_closing"}
  /\ c.write_and_go \in {"conn_new_cmd", "conn_swallow", "conn_closing"}
  /\ c.state = "conn_nread" => taken > 0

Counts ==
  /\ c.done + c.nreqs <= ReqsPerEvent + 1
  /\ c.state \in {"conn_waiting", "conn_read", "conn_parse_cmd"} => c.done + c.nreqs <= ReqsPerEvent

\* The protocol, once found, is that of the stream, and noreply outlives no request.
Dialect ==
  /\ c.protocol # "negotiating" =>
       stream # <<>> /\ (c.protocol = "binary" <=> stream[1].kind \in BinaryKinds)
  /\ c.protocol = "negotiating" => taken = 0 /\ c.state \in (Between \cup {"conn_closing", "closed"})
  /\ c.noreply => \/ c.protocol = "binary"
                  \/ c.protocol = "ascii" /\ c.state \in {"conn_nread", "conn_closing", "closed"}
  /\ c.state \in {"conn_waiting", "conn_read", "conn_parse_cmd"} => c.substate = "none"
  /\ c.state = "conn_parse_cmd" => c.rbytes > 0

\* Where the machine stands in the stream.
Place ==
  /\ c.state \in Between => Left = 0 /\ c.sbytes = 0
  /\ c.state = "conn_swallow" => Left = c.sbytes
  /\ c.state = "conn_nread" =>
       LET kind == stream[taken].kind IN
       /\ taken > 0 /\ c.sbytes = 0
       /\ c.substate = "none" => kind \in {"set", "setq"} /\ Left = c.rlbytes
       /\ c.substate = "key" => kind \in KeyedKinds /\ Left = c.rlbytes + (IF kind \in SetKinds THEN 1 ELSE 0)
       /\ c.substate = "value" => kind \in {"bset", "bsetq"} /\ Left = c.rlbytes
  /\ c.state = "conn_mwrite" /\ c.protocol # "binary" => Left = 0 /\ c.sbytes = 0
  /\ c.state \in {"conn_write", "conn_mwrite"} =>
       /\ c.write_and_go = "conn_new_cmd" => Left = 0 /\ c.sbytes = 0
       /\ c.write_and_go = "conn_swallow" => Left = c.sbytes

\* A machine that has not the next request in its buffer says so before it waits.
Looked ==
  /\ c.state \in {"conn_waiting", "conn_read"} /\ c.rbytes > 0 => ~HasHead
  /\ ~running =>
       \/ c.state \in {"conn_new_cmd"} /\ (c.rbytes > 0 => c.ev_flags = "write")
       \/ c.state \in {"conn_read", "conn_closing", "closed"}
       \/ c.state \in {"conn_nread", "conn_swallow"} /\ c.rbytes = 0
       \/ c.state \in {"conn_write", "conn_mwrite"} /\ c.ev_flags = "write"

\* The number of the last request taken, and of the last one that is done with.
LastReq == IF taken = 0 THEN 0 ELSE stream[taken].req
Settling == IF c.state = "conn_nread" THEN LastReq - 1 ELSE LastReq

\* All replies the client has or will have if nothing fails.
Unsent == IF c.state \in {"conn_write", "conn_mwrite"} THEN ToSend ELSE <<>>
Out == written \o Unsent

\* KindOf, and what RepliesInOrder says, of any stream st and any replies s.
KindIn(st, i) == st[CHOOSE p \in DOMAIN st : st[p].req = i].kind

Honest(kind, what) ==
  /\ kind \notin NeverAnswered
  /\ ~(what = "LINE" /\ kind \in {"bsetq", "bdelq"}) /\ ~(what = "ERROR" /\ kind = "bgetq")

Sorted(s) ==
  /\ \A i, j \in 1 .. Len(s) : i < j =>
       s[i].req <= s[j].req /\ (s[i].req = s[j].req => s[i].what = "VALUE")
  /\ \A i \in 1 .. Len(s) - 1 : s[i].what = "VALUE" => s[i + 1].req = s[i].req
Truthful(st, s) == \A i \in 1 .. Len(s) : Honest(KindIn(st, s[i].req), s[i].what)
Complete(st, s, n) ==
  \A j \in 1 .. n : AlwaysAnswered(KindIn(st, j)) =>
    \E i \in 1 .. Len(s) : s[i].req = j /\ s[i].what # "VALUE"
Gapless(st, s) == \A i \in 1 .. Len(s) : s[i].what # "VALUE" => Complete(st, s, s[i].req - 1)
Good(st, s) == Sorted(s) /\ Truthful(st, s) /\ Gapless(st, s)

UpTo(s, n) == \A i \in 1 .. Len(s) : s[i].req <= n
Settled(st, s, n) == UpTo(s, n) /\ Complete(st, s, n) /\ (Len(s) > 0 => s[Len(s)].what # "VALUE")

Replied ==
  /\ Good(stream, Out) /\ UpTo(Out, LastReq)
  /\ c.state \notin {"conn_closing", "closed"} => Settled(stream, Out, Settling)

\* A request that waits for its data is answered, or not, as its kind says.
Noting ==
  c.state = "conn_nread" =>
    /\ c.noreply <=> IsQuiet(stream[taken].kind) \/ IsNoreply(stream[taken].kind)
    /\ c.protocol = "ascii" => ~c.iovused

\* Behind a quit the connection is as good as closed.
Quits == {"quit", "bquit", "bquitq", "bad"}
Shut == \/ c.state \in {"conn_closing", "closed"}
        \/ c.state = "conn_mwrite" /\ c.protocol = "binary" /\ c.write_and_go = "conn_closing"
Quitting ==
  \A p \in 1 .. taken : stream[p].kind \in Quits =>
    Shut /\ taken - p < 2 /\ stream[p].req = stream[taken].req

-------------------------------------------------------------------------------
(* Sequences, and the helpers of the machine *)

\* The connection as a record of TypeOK.
ConnType ==
  [protocol : {"negotiating", "ascii", "binary"}, substate : {"none", "key", "value"},
   state : States, write_and_go : States, ev_flags : {"read", "write", "none"},
   nreqs : 0 .. ReqsPerEvent, done : Nat, noreply : BOOLEAN,
   rbytes : Nat, rlbytes : 0 .. 2, sbytes : 0 .. 2, wbuf : Seq(Replies),
   iovused : BOOLEAN, msgs : Seq(Replies), item : BOOLEAN, ileft : 0 .. 1]

\* What two states of the connection have in common.
SameMode(e, d)  == e.protocol = d.protocol /\ e.noreply = d.noreply /\ e.substate = d.substate
SameCount(e, d) == e.nreqs = d.nreqs /\ e.done = d.done
SameData(e, d)  == e.rbytes = d.rbytes /\ e.rlbytes = d.rlbytes /\ e.sbytes = d.sbytes
SameOut(e, d)   == e.wbuf = d.wbuf /\ e.iovused = d.iovused /\ e.msgs = d.msgs
SameHeld(e, d)  == e.item = d.item /\ e.ileft = d.ileft

LEMMA ConcatFacts ==
  ASSUME NEW S, NEW s \in Seq(S), NEW t \in Seq(S)
  PROVE  /\ s \o t \in Seq(S) /\ Len(s) \in Nat /\ Len(t) \in Nat /\ Len(s \o t) = Len(s) + Len(t)
         /\ \A i \in 1 .. Len(s) : (s \o t)[i] = s[i]
         /\ \A i \in 1 .. Len(t) : (s \o t)[Len(s) + i] = t[i]
OBVIOUS

LEMMA GoDoes ==
  ASSUME NEW d \in ConnType, NEW st \in States
  PROVE  /\ Go(d, st) \in ConnType /\ Go(d, st).state = st
         /\ Go(d, st).write_and_go = d.write_and_go /\ Go(d, st).ev_flags = d.ev_flags
         /\ SameMode(Go(d, st), d) /\ SameCount(Go(d, st), d) /\ SameData(Go(d, st), d)
         /\ SameOut(Go(d, st), d) /\ SameHeld(Go(d, st), d)
BY DEF ConnType, Go, SameMode, SameCount, SameData, SameOut, SameHeld

LEMMA StopWaitingDoes ==
  ASSUME NEW d \in ConnType, NEW flags \in {"read", "write"}, StopWaiting(d, flags)
  PROVE  /\ c' \in ConnType /\ running' \in BOOLEAN
         /\ \/ ~running' /\ c'.state = d.state /\ c'.ev_flags = flags
            \/ running' /\ c'.state = "conn_closing"
         /\ c'.write_and_go = d.write_and_go
         /\ SameMode(c', d) /\ SameCount(c', d) /\ SameData(c', d) /\ SameOut(c', d) /\ SameHeld(c', d)
<1>1. CASE running' = FALSE /\ c' = [d EXCEPT !.ev_flags = flags]
  BY <1>1 DEF ConnType, SameMode, SameCount, SameData, SameOut, SameHeld
<1>2. CASE running' = TRUE /\ \E left \in {d.ev_flags, "none"} : c' = [Go(d, "conn_closing") EXCEPT !.ev_flags = left]
  <2> DEFINE e == Go(d, "conn_closing")
  <2>1. /\ e \in ConnType /\ e.state = "conn_closing" /\ e.write_and_go = d.write_and_go
        /\ SameMode(e, d) /\ SameCount(e, d) /\ SameData(e, d) /\ SameOut(e, d) /\ SameHeld(e, d)
    BY GoDoes DEF States
  <2>2. PICK left \in {"read", "write", "none"} : c' = [e EXCEPT !.ev_flags = left]
    BY <1>2 DEF ConnType
  <2> HIDE DEF e
  <2>3. c' \in ConnType /\ c'.state = e.state /\ c'.write_and_go = e.write_and_go
    BY <2>1, <2>2 DEF ConnType
  <2>4. SameMode(c', e) /\ SameCount(c', e) /\ SameData(c', e) /\ SameOut(c', e) /\ SameHeld(c', e)
    BY <2>1, <2>2 DEF ConnType, SameMode, SameCount, SameData, SameOut, SameHeld
  <2> QED BY <1>2, <2>1, <2>3, <2>4 DEF SameMode, SameCount, SameData, SameOut, SameHeld
<1> QED BY <1>1, <1>2 DEF StopWaiting, Stop, Continue

LEMMA ConnHasType == ASSUME TypeOK PROVE c \in ConnType
BY DEF TypeOK, ConnType

LEMMA out_stringDoes ==
  ASSUME NEW d \in ConnType, NEW line \in Seq(Replies)
  PROVE  LET e == out_string(d, line) IN
         /\ e \in ConnType /\ e.ev_flags = d.ev_flags
         /\ \/ d.noreply /\ e.state = "conn_new_cmd" /\ e.wbuf = d.wbuf /\ e.write_and_go = d.write_and_go
            \/ ~d.noreply /\ e.state = "conn_write" /\ e.wbuf = line /\ e.write_and_go = "conn_new_cmd"
         /\ ~e.noreply /\ e.protocol = d.protocol /\ e.substate = d.substate
         /\ e.iovused = d.iovused /\ e.msgs = d.msgs
         /\ SameCount(e, d) /\ SameData(e, d) /\ SameHeld(e, d)
<1> DEFINE e == out_string(d, line)
<1>1. CASE d.noreply
  <2> DEFINE g == Go(d, "conn_new_cmd")
  <2>1. /\ g \in ConnType /\ g.state = "conn_new_cmd" /\ g.write_and_go = d.write_and_go /\ g.ev_flags = d.ev_flags
        /\ SameMode(g, d) /\ SameCount(g, d) /\ SameData(g, d) /\ SameOut(g, d) /\ SameHeld(g, d)
    BY GoDoes DEF States
  <2>2. e = [g EXCEPT !.noreply = FALSE]
    BY <1>1 DEF out_string
  <2> HIDE DEF g, e
  <2>3. /\ e \in ConnType /\ e.state = g.state /\ e.wbuf = g.wbuf /\ e.write_and_go = g.write_and_go
        /\ e.ev_flags = g.ev_flags
        /\ ~e.noreply /\ e.protocol = g.protocol /\ e.substate = g.substate
        /\ e.iovused = g.iovused /\ e.msgs = g.msgs
        /\ SameCount(e, g) /\ SameData(e, g) /\ SameHeld(e, g)
    BY <2>1, <2>2 DEF ConnType, SameCount, SameData, SameHeld
  <2> QED BY <1>1, <2>1, <2>3 DEF SameMode, SameCount, SameData, SameOut, SameHeld, e
<1>2. CASE ~d.noreply
  <2> DEFINE g == Go(d, "conn_write")
             go == "conn_new_cmd"
  <2>1. /\ g \in ConnType /\ g.state = "conn_write" /\ g.write_and_go = d.write_and_go /\ g.ev_flags = d.ev_flags
        /\ SameMode(g, d) /\ SameCount(g, d) /\ SameData(g, d) /\ SameOut(g, d) /\ SameHeld(g, d)
    BY GoDoes DEF States
  <2>2. e = [g EXCEPT !.wbuf = line, !.write_and_go = go]
    BY <1>2 DEF out_string
  <2>3. go \in States
    BY DEF States
  <2> HIDE DEF g, e, go
  <2>4. e \in ConnType
    BY <2>1, <2>2, <2>3 DEF ConnType
  <2>5. /\ e.state = g.state /\ e.wbuf = line /\ e.write_and_go = go
        /\ e.ev_flags = g.ev_flags
        /\ e.noreply = g.noreply /\ e.protocol = g.protocol /\ e.substate = g.substate
        /\ e.iovused = g.iovused /\ e.msgs = g.msgs
    BY <2>1, <2>2 DEF ConnType
  <2>6. SameCount(e, g) /\ SameData(e, g) /\ SameHeld(e, g)
    BY <2>1, <2>2 DEF ConnType, SameCount, SameData, SameHeld
  <2> QED BY <1>2, <2>1, <2>4, <2>5, <2>6 DEF SameMode, SameCount, SameData, SameOut, SameHeld, e, go
<1> QED BY <1>1, <1>2

LEMMA reset_cmd_handlerDoes ==
  ASSUME NEW d \in ConnType
  PROVE  LET e == reset_cmd_handler(d) IN
         /\ e \in ConnType /\ e.write_and_go = d.write_and_go /\ e.ev_flags = d.ev_flags
         /\ \/ d.rbytes > 0 /\ e.state = "conn_parse_cmd"
            \/ d.rbytes = 0 /\ e.state = "conn_waiting"
         /\ e.noreply = d.noreply /\ e.protocol = d.protocol /\ e.substate = "none"
         /\ ~e.item /\ e.ileft = d.ileft
         /\ SameCount(e, d) /\ SameData(e, d) /\ SameOut(e, d)
<1> DEFINE e == reset_cmd_handler(d)
           st == IF d.rbytes > 0 THEN "conn_parse_cmd" ELSE "conn_waiting"
           g == Go(d, st)
<1>1. d.rbytes \in Nat /\ st \in States /\ (d.rbytes > 0 => st = "conn_parse_cmd") /\ (d.rbytes = 0 => st = "conn_waiting")
  BY DEF ConnType, States
<1>2. e = [g EXCEPT !.item = FALSE, !.substate = "none"]
  BY DEF reset_cmd_handler
<1> HIDE DEF st
<1>3. /\ g \in ConnType /\ g.state = st /\ g.write_and_go = d.write_and_go /\ g.ev_flags = d.ev_flags
      /\ SameMode(g, d) /\ SameCount(g, d) /\ SameData(g, d) /\ SameOut(g, d) /\ SameHeld(g, d)
  BY <1>1, GoDoes
<1> HIDE DEF g, e
<1>4. /\ e \in ConnType /\ e.state = g.state /\ e.write_and_go = g.write_and_go /\ e.ev_flags = g.ev_flags
      /\ e.noreply = g.noreply /\ e.protocol = g.protocol /\ e.substate = "none"
      /\ ~e.item /\ e.ileft = g.ileft
      /\ SameCount(e, g) /\ SameData(e, g) /\ SameOut(e, g)
  BY <1>2, <1>3 DEF ConnType, SameCount, SameData, SameOut
<1> QED BY <1>1, <1>3, <1>4 DEF SameMode, SameCount, SameData, SameOut, SameHeld, e

LEMMA write_bin_errorDoes ==
  ASSUME NEW d \in ConnType, NEW r \in Replies, NEW swallow \in 0 .. 1
  PROVE  LET e == write_bin_error(d, r, swallow) IN
         /\ e \in ConnType /\ e.state = "conn_mwrite" /\ e.ev_flags = d.ev_flags
         /\ e.msgs = <<r>> /\ e.iovused /\ e.wbuf = d.wbuf
         /\ e.rbytes = d.rbytes /\ e.rlbytes = d.rlbytes
         /\ swallow = 0 => e.sbytes = d.sbytes /\ e.write_and_go = "conn_new_cmd"
         /\ swallow = 1 => e.sbytes = 1 /\ e.write_and_go = "conn_swallow"
         /\ SameMode(e, d) /\ SameCount(e, d) /\ SameHeld(e, d)
<1> DEFINE e == write_bin_error(d, r, swallow)
           g == Go(d, "conn_mwrite")
           sb == IF swallow > 0 THEN swallow ELSE g.sbytes
           wg == IF swallow > 0 THEN "conn_swallow" ELSE "conn_new_cmd"
           m == <<r>>
<1>1. /\ g \in ConnType /\ g.state = "conn_mwrite" /\ g.write_and_go = d.write_and_go /\ g.ev_flags = d.ev_flags
      /\ SameMode(g, d) /\ SameCount(g, d) /\ SameData(g, d) /\ SameOut(g, d) /\ SameHeld(g, d)
  BY GoDoes DEF States
<1>2. e = [g EXCEPT !.msgs = m, !.iovused = TRUE, !.sbytes = sb, !.write_and_go = wg]
  BY DEF write_bin_error
<1>3. m \in Seq(Replies)
  OBVIOUS
<1> HIDE DEF g
<1>4. sb \in 0 .. 2 /\ wg \in States
  BY <1>1 DEF ConnType, States
<1>5. swallow = 0 => sb = g.sbytes /\ wg = "conn_new_cmd"
  OBVIOUS
<1>6. swallow = 1 => sb = 1 /\ wg = "conn_swallow"
  OBVIOUS
<1> HIDE DEF e, sb, wg, m
<1>7. /\ e \in ConnType /\ e.state = g.state /\ e.ev_flags = g.ev_flags
      /\ e.msgs = m /\ e.iovused /\ e.wbuf = g.wbuf
      /\ e.rbytes = g.rbytes /\ e.rlbytes = g.rlbytes /\ e.sbytes = sb /\ e.write_and_go = wg
      /\ SameMode(e, g) /\ SameCount(e, g) /\ SameHeld(e, g)
  BY <1>1, <1>2, <1>3, <1>4 DEF ConnType, SameMode, SameCount, SameHeld
<1> QED BY <1>1, <1>5, <1>6, <1>7 DEF SameMode, SameCount, SameData, SameOut, SameHeld, e, m

LEMMA write_bin_responseDoes ==
  ASSUME NEW d \in ConnType, NEW r \in Replies
  PROVE  LET e == write_bin_response(d, r) IN
         /\ e \in ConnType /\ e.ev_flags = d.ev_flags
         /\ \/ d.noreply /\ e.state = "conn_new_cmd" /\ e.write_and_go = d.write_and_go /\ SameOut(e, d)
            \/ ~d.noreply /\ e.state = "conn_mwrite" /\ e.write_and_go = "conn_new_cmd"
               /\ e.msgs = <<r>> /\ e.iovused /\ e.wbuf = d.wbuf
         /\ SameMode(e, d) /\ SameCount(e, d) /\ SameData(e, d) /\ SameHeld(e, d)
<1> DEFINE e == write_bin_response(d, r)
<1>1. CASE d.noreply
  BY <1>1, GoDoes DEF write_bin_response, States
<1>2. CASE ~d.noreply
  <2> DEFINE g == Go(d, "conn_mwrite")
             m == <<r>>
             go == "conn_new_cmd"
  <2>1. /\ g \in ConnType /\ g.state = "conn_mwrite" /\ g.write_and_go = d.write_and_go /\ g.ev_flags = d.ev_flags
        /\ SameMode(g, d) /\ SameCount(g, d) /\ SameData(g, d) /\ SameOut(g, d) /\ SameHeld(g, d)
    BY GoDoes DEF States
  <2>2. e = [g EXCEPT !.msgs = m, !.iovused = TRUE, !.write_and_go = go]
    BY <1>2 DEF write_bin_response
  <2>3. m \in Seq(Replies) /\ go \in States
    BY DEF States
  <2> HIDE DEF g, e, m, go
  <2>4. e \in ConnType
    BY <2>1, <2>2, <2>3 DEF ConnType
  <2>5. /\ e.state = g.state /\ e.ev_flags = g.ev_flags
        /\ e.msgs = m /\ e.iovused /\ e.wbuf = g.wbuf /\ e.write_and_go = go
    BY <2>1, <2>2 DEF ConnType
  <2>6. SameMode(e, g) /\ SameCount(e, g) /\ SameData(e, g) /\ SameHeld(e, g)
    BY <2>1, <2>2 DEF ConnType, SameMode, SameCount, SameData, SameHeld
  <2> QED BY <1>2, <2>1, <2>4, <2>5, <2>6 DEF SameMode, SameCount, SameData, SameOut, SameHeld, e, m, go
<1> QED BY <1>1, <1>2

LEMMA BareErrorDoes ==
  ASSUME NEW d \in ConnType, NEW r \in Replies
  PROVE  LET e == write_bin_error(d, r, 0) IN
         /\ e \in ConnType /\ e.state = "conn_mwrite" /\ e.ev_flags = d.ev_flags
         /\ e.msgs = <<r>> /\ e.iovused /\ e.wbuf = d.wbuf /\ e.write_and_go = "conn_new_cmd"
         /\ SameMode(e, d) /\ SameCount(e, d) /\ SameData(e, d) /\ SameHeld(e, d)
<1> DEFINE zero == 0
<1>1. zero \in 0 .. 1 /\ zero = 0
  OBVIOUS
<1> HIDE DEF zero
<1> DEFINE e == write_bin_error(d, r, zero)
<1>2. /\ e \in ConnType /\ e.state = "conn_mwrite" /\ e.ev_flags = d.ev_flags
      /\ e.msgs = <<r>> /\ e.iovused /\ e.wbuf = d.wbuf /\ e.write_and_go = "conn_new_cmd"
      /\ e.rbytes = d.rbytes /\ e.rlbytes = d.rlbytes /\ e.sbytes = d.sbytes
      /\ SameMode(e, d) /\ SameCount(e, d) /\ SameHeld(e, d)
  BY <1>1, write_bin_errorDoes
<1> QED BY <1>1, <1>2 DEF SameData

\* The units of the stream.
LEMMA UnitAt ==
  ASSUME TypeOK
  PROVE  /\ Len(stream) \in Nat /\ arrived \in Nat /\ taken \in Nat /\ c.rbytes \in Nat
         /\ taken + c.rbytes <= arrived /\ arrived <= Len(stream)
         /\ \A p \in 1 .. Len(stream) :
              /\ stream[p].req \in 1 .. MaxRequests /\ stream[p].kind \in Kinds /\ stream[p].part \in 1 .. 4
<1>1. Len(stream) \in Nat /\ arrived \in 0 .. Len(stream) /\ taken \in Nat /\ c.rbytes \in Nat
      /\ taken + c.rbytes <= arrived
  BY DEF TypeOK
<1>2. \A p \in 1 .. Len(stream) :
        /\ stream[p].req \in 1 .. MaxRequests /\ stream[p].kind \in Kinds /\ stream[p].part \in 1 .. 4
  <2> DEFINE Unit == [req : 1 .. MaxRequests, kind : Kinds, part : 1 .. 4]
  <2>1. stream \in Seq(Unit)
    BY DEF TypeOK
  <2>2. TAKE p \in 1 .. Len(stream)
  <2> HIDE DEF Unit
  <2>3. stream[p] \in Unit
    BY <2>1, <2>2
  <2> QED BY <2>3 DEF Unit
<1> QED BY <1>1, <1>2

\* The reply to the request that the buffer begins with, or to the last one taken.
LEMMA ReplyIs ==
  ASSUME TypeOK, NEW what \in {"VALUE", "END", "LINE", "ERROR"}
  PROVE  /\ c.rbytes > 0 => /\ Reply(what) \in Replies /\ <<Reply(what)>> \in Seq(Replies)
                            /\ Reply(what).req = Start.req /\ Reply(what).what = what
         /\ taken > 0 => /\ BinReply(what) \in Replies /\ <<BinReply(what)>> \in Seq(Replies)
                         /\ BinReply(what).req = Current.req /\ BinReply(what).what = what
<1>1. c.rbytes > 0 => taken + 1 \in 1 .. Len(stream)
  BY UnitAt
<1>2. taken > 0 => taken \in 1 .. Len(stream)
  BY UnitAt
<1>3. c.rbytes > 0 => Start.req \in 1 .. MaxRequests
  BY <1>1, UnitAt DEF Start
<1>4. taken > 0 => Current.req \in 1 .. MaxRequests
  BY <1>2, UnitAt DEF Current
<1> QED BY <1>3, <1>4 DEF Reply, BinReply, Replies

LEMMA PartsIs == \A kind : Parts(kind) \in 2 .. 4
BY DEF Parts

\* A whole line or header is some units of the buffer; at the start of a request, two.
LEMMA HeadIs ==
  ASSUME TypeOK, Whole, HasHead
  PROVE  /\ HeadLen \in 1 .. c.rbytes /\ c.rbytes > 0
         /\ Start.part = 1 => HeadLen = 2
<1>1. CASE Protocol = "binary"
  BY <1>1, UnitAt DEF HasHead, HeadLen
<1>2. CASE Protocol # "binary"
  <2> DEFINE E == LineEnds
             P(n) == stream[taken + n].part
  <2>1. taken \in Nat /\ c.rbytes \in Nat /\ Len(stream) \in Nat /\ taken + c.rbytes <= Len(stream)
    BY UnitAt
  <2>2. E # {} /\ HeadLen = Min(E) /\ E \subseteq 1 .. c.rbytes /\ c.rbytes \in Nat
    BY <1>2, UnitAt DEF HasHead, HeadLen, LineEnds
  <2>3. \A n \in 1 .. c.rbytes : P(n) \in 1 .. 4 /\ (n \in E <=> P(n) \in {2, 4})
    BY UnitAt DEF LineEnds, EndsLine
  <2>4. \A n \in 1 .. c.rbytes - 1 : P(n + 1) = 1 \/ P(n + 1) = P(n) + 1
    <3>1. TAKE n \in 1 .. c.rbytes - 1
    <3> DEFINE p == taken + n
    <3>2. p \in 1 .. Len(stream) - 1 /\ p + 1 = taken + (n + 1)
      BY <2>1
    <3>3. Successive
      BY DEF Whole
    <3> HIDE DEF p
    <3>4. stream[p + 1].part = 1 \/ stream[p + 1].part = stream[p].part + 1
      BY <3>2, <3>3 DEF Successive
    <3>5. P(n + 1) = stream[p + 1].part
      BY <3>2
    <3> QED BY <3>4, <3>5 DEF p
  <2>5. ASSUME NEW n \in 1 .. c.rbytes - 1, P(n) = 1 PROVE P(n + 1) = 2
    <3> DEFINE p == taken + n
    <3>1. p \in 1 .. Len(stream) - 1 /\ p + 1 = taken + (n + 1)
      BY <2>1
    <3>2. stream[p].part = 1
      BY <2>5
    <3> HIDE DEF p
    <3>3. Parts(stream[p].kind) \in 2 .. 4
      BY PartsIs
    <3>4. stream[p].part = Parts(stream[p].kind) \/ stream[p + 1].part = stream[p].part + 1
      BY <3>1 DEF Whole, Successive
    <3>5. stream[p + 1].part = 2
      BY ONLY <3>2, <3>4, <3>3
    <3> QED BY <3>1, <3>5 DEF p
  <2>6. \E m \in E : m \in 1 .. 3 /\ (P(1) = 1 => m = 2) /\ \A n \in E : m <= n
    <3> HIDE DEF E, P
    <3>1. CASE 1 \in E
      BY <2>2, <2>3, <3>1
    <3>2. CASE 1 \notin E /\ 2 \in E
      BY <2>2, <2>3, <3>2
    <3>3. CASE 1 \notin E /\ 2 \notin E /\ 3 \in E
      BY <2>2, <2>3, <2>5, <3>3
    <3>4. CASE 1 \notin E /\ 2 \notin E /\ 3 \notin E
      <4>1. PICK n \in E : n \in 1 .. c.rbytes
        BY <2>2
      <4>2. 3 < n /\ 1 + 1 = 2 /\ 2 + 1 = 3 /\ {1, 2, 3} \subseteq 1 .. c.rbytes /\ {1, 2} \subseteq 1 .. c.rbytes - 1
        BY <2>2, <3>4, <4>1
      <4>3. P(1) \in {1, 3} /\ P(2) \in {1, 3} /\ P(3) \in {1, 3}
        BY <2>3, <3>4, <4>2
      <4> QED BY <2>4, <2>5, <4>2, <4>3
    <3> QED BY <3>1, <3>2, <3>3, <3>4
  <2>7. Min(E) \in E /\ Min(E) \in 1 .. 3 /\ (P(1) = 1 => Min(E) = 2)
    <3> HIDE DEF E, P
    <3>1. PICK m \in E : m \in 1 .. 3 /\ (P(1) = 1 => m = 2) /\ \A n \in E : m <= n
      BY <2>6
    <3>2. Min(E) \in E /\ \A n \in E : Min(E) <= n
      BY <3>1 DEF Min
    <3>3. Min(E) \in 1 .. c.rbytes /\ m \in 1 .. c.rbytes /\ Min(E) <= m /\ m <= Min(E)
      BY <2>2, <3>1, <3>2
    <3> DEFINE k == Min(E)
    <3> HIDE DEF k
    <3>4. k = m
      BY <2>2, <3>3 DEF k
    <3> QED BY <3>1, <3>2, <3>4 DEF k
  <2> QED BY <2>2, <2>7 DEF Start
<1> QED BY <1>1, <1>2

\* The connection after a head has been taken from its buffer.
LEMMA CleanDoes ==
  ASSUME TypeOK, Whole, HasHead
  PROVE  /\ Clean \in ConnType /\ Clean.state = c.state
         /\ Clean.write_and_go = c.write_and_go /\ Clean.ev_flags = c.ev_flags
         /\ Clean.protocol = Protocol /\ Clean.noreply = c.noreply /\ Clean.substate = c.substate
         /\ Clean.nreqs = c.nreqs /\ Clean.done = c.done + 1
         /\ Clean.rbytes = c.rbytes - HeadLen /\ Clean.rlbytes = c.rlbytes /\ Clean.sbytes = c.sbytes
         /\ Clean.msgs = <<>> /\ ~Clean.iovused /\ Clean.wbuf = c.wbuf
         /\ SameHeld(Clean, c)
<1> DEFINE e == Clean
           rb == c.rbytes - HeadLen
           pr == Protocol
           nil == <<>>
           n == c.done + 1
           d == [c EXCEPT !.protocol = pr, !.msgs = nil, !.iovused = FALSE]
<1>1. e = [c EXCEPT !.protocol = pr, !.msgs = nil, !.iovused = FALSE, !.done = n, !.rbytes = rb]
  BY DEF Clean
<1>2. c \in ConnType
  BY ConnHasType
<1>3. rb \in Nat /\ n \in Nat
  <2>1. c.rbytes \in Nat /\ HeadLen \in 1 .. c.rbytes /\ c.done \in Nat
    BY <1>2, HeadIs, UnitAt DEF ConnType
  <2> QED BY <2>1
<1>4. pr \in {"negotiating", "ascii", "binary"} /\ nil \in Seq(Replies)
  BY <1>2 DEF Protocol, ConnType
<1> HIDE DEF pr, nil
<1>5. d \in ConnType
  BY <1>2, <1>4 DEF ConnType
<1>6. e = [d EXCEPT !.done = n, !.rbytes = rb]
  BY <1>1, <1>2
<1> HIDE DEF e, rb, n, d
<1>7. e \in ConnType
  BY <1>3, <1>5, <1>6 DEF ConnType
<1>8. /\ e.state = c.state /\ e.write_and_go = c.write_and_go /\ e.ev_flags = c.ev_flags
      /\ e.protocol = pr /\ e.noreply = c.noreply /\ e.substate = c.substate
      /\ e.nreqs = c.nreqs /\ e.done = n
      /\ e.rbytes = rb /\ e.rlbytes = c.rlbytes /\ e.sbytes = c.sbytes
      /\ e.msgs = nil /\ ~e.iovused /\ e.wbuf = c.wbuf
      /\ SameHeld(e, c)
  BY <1>1, <1>2 DEF ConnType, SameHeld
<1> QED BY <1>7, <1>8 DEF e, rb, pr, nil, n

LEMMA QuietedDoes ==
  ASSUME NEW d \in ConnType
  PROVE  LET e == Quieted(d) IN
         /\ e \in ConnType /\ e.state = d.state /\ e.write_and_go = d.write_and_go /\ e.ev_flags = d.ev_flags
         /\ e.protocol = d.protocol /\ e.substate = d.substate
         /\ e.noreply = (d.noreply \/ IsNoreply(Start.kind))
         /\ SameCount(e, d) /\ SameData(e, d) /\ SameOut(e, d) /\ SameHeld(e, d)
<1> DEFINE e == Quieted(d)
           q == d.noreply \/ IsNoreply(Start.kind)
<1>1. e = [d EXCEPT !.noreply = q]
  BY DEF Quieted
<1>2. q \in BOOLEAN
  OBVIOUS
<1> HIDE DEF e, q
<1>3. /\ e \in ConnType /\ e.state = d.state /\ e.write_and_go = d.write_and_go /\ e.ev_flags = d.ev_flags
      /\ e.protocol = d.protocol /\ e.substate = d.substate /\ e.noreply = q
      /\ SameCount(e, d) /\ SameData(e, d) /\ SameOut(e, d) /\ SameHeld(e, d)
  BY <1>1, <1>2 DEF ConnType, SameCount, SameData, SameOut, SameHeld
<1> QED BY <1>3 DEF e, q

LEMMA HeadedDoes ==
  ASSUME TypeOK, Whole, HasHead
  PROVE  /\ Headed \in ConnType /\ Headed.state = c.state
         /\ Headed.write_and_go = c.write_and_go /\ Headed.ev_flags = c.ev_flags
         /\ Headed.protocol = Protocol /\ Headed.noreply = IsQuiet(Start.kind) /\ Headed.substate = c.substate
         /\ Headed.nreqs = c.nreqs /\ Headed.done = c.done + 1
         /\ Headed.rbytes = c.rbytes - HeadLen /\ Headed.rlbytes = c.rlbytes /\ Headed.sbytes = c.sbytes
         /\ Headed.msgs = <<>> /\ ~Headed.iovused /\ Headed.wbuf = c.wbuf
         /\ SameHeld(Headed, c)
<1> DEFINE e == Headed
           d == Clean
           q == IsQuiet(Start.kind)
<1>1. e = [d EXCEPT !.noreply = q]
  BY DEF Headed
<1>2. q \in BOOLEAN
  BY DEF IsQuiet
<1> HIDE DEF e, q, d
<1>3. d \in ConnType
  BY CleanDoes DEF d
<1>4. /\ e \in ConnType /\ e.state = d.state /\ e.write_and_go = d.write_and_go /\ e.ev_flags = d.ev_flags
      /\ e.protocol = d.protocol /\ e.substate = d.substate /\ e.noreply = q
      /\ SameCount(e, d) /\ SameData(e, d) /\ SameOut(e, d) /\ SameHeld(e, d)
  BY <1>1, <1>2, <1>3 DEF ConnType, SameCount, SameData, SameOut, SameHeld
<1> QED BY <1>4, CleanDoes DEF e, q, d, SameCount, SameData, SameOut, SameHeld

\* The connection with n units more of the data block.
LEMMA GotDoes ==
  ASSUME NEW n \in Nat, c \in ConnType, WantsData, n <= Wanted
  PROVE  LET e == Got(n) IN
         /\ e \in ConnType /\ e.state = c.state /\ e.write_and_go = c.write_and_go /\ e.ev_flags = c.ev_flags
         /\ e.rbytes = c.rbytes
         /\ \/ c.state = "conn_nread" /\ e.rlbytes = c.rlbytes - n /\ e.sbytes = c.sbytes
            \/ c.state = "conn_swallow" /\ e.sbytes = c.sbytes - n /\ e.rlbytes = c.rlbytes
         /\ SameMode(e, c) /\ SameCount(e, c) /\ SameOut(e, c) /\ SameHeld(e, c)
<1> DEFINE e == Got(n)
           r == c.rlbytes - n
           s == c.sbytes - n
<1>1. c.state = "conn_nread" \/ c.state = "conn_swallow"
  BY DEF WantsData, At
<1>2. CASE c.state = "conn_nread"
  <2>1. e = [c EXCEPT !.rlbytes = r] /\ r \in 0 .. 2
    BY <1>2 DEF Got, Wanted, ConnType
  <2> HIDE DEF e, r
  <2>2. /\ e \in ConnType /\ e.state = c.state /\ e.write_and_go = c.write_and_go /\ e.ev_flags = c.ev_flags
        /\ e.rbytes = c.rbytes /\ e.rlbytes = r /\ e.sbytes = c.sbytes
        /\ SameMode(e, c) /\ SameCount(e, c) /\ SameOut(e, c) /\ SameHeld(e, c)
    BY <2>1 DEF ConnType, SameMode, SameCount, SameOut, SameHeld
  <2> QED BY <1>2, <2>2 DEF e, r
<1>3. CASE c.state = "conn_swallow"
  <2>1. e = [c EXCEPT !.sbytes = s] /\ s \in 0 .. 2
    BY <1>3 DEF Got, Wanted, ConnType
  <2> HIDE DEF e, s
  <2>2. /\ e \in ConnType /\ e.state = c.state /\ e.write_and_go = c.write_and_go /\ e.ev_flags = c.ev_flags
        /\ e.rbytes = c.rbytes /\ e.sbytes = s /\ e.rlbytes = c.rlbytes
        /\ SameMode(e, c) /\ SameCount(e, c) /\ SameOut(e, c) /\ SameHeld(e, c)
    BY <2>1 DEF ConnType, SameMode, SameCount, SameOut, SameHeld
  <2> QED BY <1>3, <2>2 DEF e, s
<1> QED BY <1>1, <1>2, <1>3

LEMMA CopiedDoes ==
  ASSUME NEW n \in Nat, c \in ConnType, WantsData, c.rbytes + n <= Wanted
  PROVE  LET e == Copied(n) IN
         /\ e \in ConnType /\ e.state = c.state /\ e.write_and_go = c.write_and_go /\ e.ev_flags = c.ev_flags
         /\ e.rbytes = 0
         /\ \/ c.state = "conn_nread" /\ e.rlbytes = c.rlbytes - (c.rbytes + n) /\ e.sbytes = c.sbytes
            \/ c.state = "conn_swallow" /\ e.sbytes = c.sbytes - (c.rbytes + n) /\ e.rlbytes = c.rlbytes
         /\ SameMode(e, c) /\ SameCount(e, c) /\ SameOut(e, c) /\ SameHeld(e, c)
<1> DEFINE e == Copied(n)
           m == c.rbytes + n
           g == Got(m)
<1>1. m \in Nat /\ m <= Wanted
  BY DEF ConnType
<1> HIDE DEF m
<1>2. /\ g \in ConnType /\ g.state = c.state /\ g.write_and_go = c.write_and_go /\ g.ev_flags = c.ev_flags
      /\ \/ c.state = "conn_nread" /\ g.rlbytes = c.rlbytes - m /\ g.sbytes = c.sbytes
         \/ c.state = "conn_swallow" /\ g.sbytes = c.sbytes - m /\ g.rlbytes = c.rlbytes
      /\ SameMode(g, c) /\ SameCount(g, c) /\ SameOut(g, c) /\ SameHeld(g, c)
  BY <1>1, GotDoes
<1>3. e = [g EXCEPT !.rbytes = 0]
  BY DEF Copied, m
<1> HIDE DEF e, g
<1>4. /\ e \in ConnType /\ e.state = g.state /\ e.write_and_go = g.write_and_go /\ e.ev_flags = g.ev_flags
      /\ e.rbytes = 0 /\ e.rlbytes = g.rlbytes /\ e.sbytes = g.sbytes
      /\ SameMode(e, g) /\ SameCount(e, g) /\ SameOut(e, g) /\ SameHeld(e, g)
  BY <1>2, <1>3 DEF ConnType, SameMode, SameCount, SameOut, SameHeld
<1> QED BY <1>2, <1>4 DEF SameMode, SameCount, SameOut, SameHeld, e, m

LEMMA BuiltDoes ==
  ASSUME NEW left \in Seq(Replies), c \in ConnType
  PROVE  LET e == Built(left) IN
         /\ e \in ConnType /\ e.state = c.state /\ e.write_and_go = c.write_and_go /\ e.ev_flags = c.ev_flags
         /\ e.msgs = left /\ e.iovused /\ e.wbuf = c.wbuf
         /\ SameMode(e, c) /\ SameCount(e, c) /\ SameData(e, c) /\ SameHeld(e, c)
<1> DEFINE e == Built(left)
<1>1. e = [c EXCEPT !.msgs = left, !.iovused = TRUE]
  BY DEF Built
<1> HIDE DEF e
<1>2. /\ e \in ConnType /\ e.state = c.state /\ e.write_and_go = c.write_and_go /\ e.ev_flags = c.ev_flags
      /\ e.msgs = left /\ e.iovused /\ e.wbuf = c.wbuf
      /\ SameMode(e, c) /\ SameCount(e, c) /\ SameData(e, c) /\ SameHeld(e, c)
  BY <1>1 DEF ConnType, SameMode, SameCount, SameData, SameHeld
<1> QED BY <1>2 DEF e

-------------------------------------------------------------------------------
(* What each action does to the connection *)

LEMMA WaitingDoes ==
  ASSUME TypeOK, Waiting
  PROVE  /\ c' \in ConnType /\ running' \in BOOLEAN
         /\ \/ ~running' /\ c'.state = "conn_read" /\ c'.ev_flags = "read"
            \/ running' /\ c'.state = "conn_closing"
         /\ c'.write_and_go = c.write_and_go
         /\ SameMode(c', c) /\ SameCount(c', c) /\ SameData(c', c) /\ SameOut(c', c) /\ SameHeld(c', c)
<1> DEFINE d == Go(c, "conn_read")
<1>1. /\ d \in ConnType /\ d.state = "conn_read" /\ d.write_and_go = c.write_and_go
      /\ SameMode(d, c) /\ SameCount(d, c) /\ SameData(d, c) /\ SameOut(d, c) /\ SameHeld(d, c)
  BY ConnHasType, GoDoes DEF States
<1>2. StopWaiting(d, "read")
  BY DEF Waiting
<1> HIDE DEF d
<1>3. /\ c' \in ConnType /\ running' \in BOOLEAN
      /\ \/ ~running' /\ c'.state = d.state /\ c'.ev_flags = "read"
         \/ running' /\ c'.state = "conn_closing"
      /\ c'.write_and_go = d.write_and_go
      /\ SameMode(c', d) /\ SameCount(c', d) /\ SameData(c', d) /\ SameOut(c', d) /\ SameHeld(c', d)
  BY <1>1, <1>2, StopWaitingDoes
<1> QED BY <1>1, <1>3 DEF SameMode, SameCount, SameData, SameOut, SameHeld

LEMMA ReadDataDoes ==
  ASSUME TypeOK, ReadData
  PROVE  /\ c' \in ConnType /\ running' = TRUE /\ c'.state = "conn_parse_cmd"
         /\ c'.rbytes > c.rbytes /\ taken + c'.rbytes <= arrived
         /\ c'.rlbytes = c.rlbytes /\ c'.sbytes = c.sbytes
         /\ c'.write_and_go = c.write_and_go /\ c'.ev_flags = c.ev_flags
         /\ SameMode(c', c) /\ SameCount(c', c) /\ SameOut(c', c) /\ SameHeld(c', c)
<1> DEFINE d == Go(c, "conn_parse_cmd")
<1>1. /\ d \in ConnType /\ d.state = "conn_parse_cmd" /\ d.write_and_go = c.write_and_go /\ d.ev_flags = c.ev_flags
      /\ SameMode(d, c) /\ SameCount(d, c) /\ SameData(d, c) /\ SameOut(d, c) /\ SameHeld(d, c)
  BY ConnHasType, GoDoes DEF States
<1>2. PICK n \in 1 .. InSocket : c' = [d EXCEPT !.rbytes = @ + n] /\ running' = TRUE
  BY DEF ReadData, Continue
<1> HIDE DEF d
<1>3. d.rbytes = c.rbytes /\ c.rbytes \in Nat /\ n \in Nat \ {0} /\ taken + (c.rbytes + n) <= arrived
  BY <1>1, UnitAt DEF InSocket, SameData
<1> DEFINE m == d.rbytes + n
<1>4. c' = [d EXCEPT !.rbytes = m] /\ m \in Nat
  BY <1>2, <1>3
<1> HIDE DEF m
<1>5. /\ c' \in ConnType /\ c'.state = d.state
      /\ c'.rbytes = m /\ c'.rlbytes = d.rlbytes /\ c'.sbytes = d.sbytes
      /\ c'.write_and_go = d.write_and_go /\ c'.ev_flags = d.ev_flags
      /\ SameMode(c', d) /\ SameCount(c', d) /\ SameOut(c', d) /\ SameHeld(c', d)
  BY <1>1, <1>4 DEF ConnType, SameMode, SameCount, SameOut, SameHeld
<1>6. m > c.rbytes /\ taken + m <= arrived
  BY <1>3 DEF m
<1> QED BY <1>1, <1>2, <1>5, <1>6 DEF SameMode, SameCount, SameData, SameOut, SameHeld

\* ReadNothing, ReadEof, BinMagic, SwallowDone and some of the others only go to another state.
LEMMA GoesDoes ==
  ASSUME TypeOK, NEW st \in States, Continue(Go(c, st))
  PROVE  /\ c' \in ConnType /\ running' = TRUE /\ c'.state = st
         /\ c'.write_and_go = c.write_and_go /\ c'.ev_flags = c.ev_flags
         /\ SameMode(c', c) /\ SameCount(c', c) /\ SameData(c', c) /\ SameOut(c', c) /\ SameHeld(c', c)
BY ConnHasType, GoDoes DEF Continue

LEMMA NeedMoreDoes ==
  ASSUME TypeOK, NeedMore
  PROVE  /\ c' \in ConnType /\ running' = TRUE /\ c'.state = "conn_waiting"
         /\ c'.protocol = Protocol /\ c'.noreply = c.noreply /\ c'.substate = c.substate
         /\ c'.write_and_go = c.write_and_go /\ c'.ev_flags = c.ev_flags
         /\ SameCount(c', c) /\ SameData(c', c) /\ SameOut(c', c) /\ SameHeld(c', c)
<1> DEFINE d == Go(c, "conn_waiting")
           pr == Protocol
<1>1. /\ d \in ConnType /\ d.state = "conn_waiting" /\ d.write_and_go = c.write_and_go /\ d.ev_flags = c.ev_flags
      /\ SameMode(d, c) /\ SameCount(d, c) /\ SameData(d, c) /\ SameOut(d, c) /\ SameHeld(d, c)
  BY ConnHasType, GoDoes DEF States
<1>2. c' = [d EXCEPT !.protocol = pr] /\ running' = TRUE
  BY DEF NeedMore, Continue
<1>3. pr \in {"negotiating", "ascii", "binary"}
  BY ConnHasType DEF Protocol, ConnType
<1> HIDE DEF d, pr
<1>4. /\ c' \in ConnType /\ c'.state = d.state
      /\ c'.protocol = pr /\ c'.noreply = d.noreply /\ c'.substate = d.substate
      /\ c'.write_and_go = d.write_and_go /\ c'.ev_flags = d.ev_flags
      /\ SameCount(c', d) /\ SameData(c', d) /\ SameOut(c', d) /\ SameHeld(c', d)
  BY <1>1, <1>2, <1>3 DEF ConnType, SameCount, SameData, SameOut, SameHeld
<1> QED BY <1>1, <1>2, <1>4 DEF SameMode, SameCount, SameData, SameOut, SameHeld, pr

\* What all text and binary requests do to the connection.
Took(e) ==
  /\ running' = TRUE /\ taken' = taken + HeadLen
  /\ e.protocol = Protocol /\ e.nreqs = c.nreqs /\ e.done = c.done + 1
  /\ e.rbytes = c.rbytes - HeadLen /\ e.ev_flags = c.ev_flags

LEMMA ProcessGetDoes ==
  ASSUME TypeOK, Whole, ProcessGet
  PROVE  /\ c' \in ConnType /\ Took(c') /\ c'.state = "conn_mwrite"
         /\ c'.write_and_go = c.write_and_go /\ c'.noreply = c.noreply /\ c'.substate = c.substate
         /\ c'.rlbytes = c.rlbytes /\ c'.sbytes = c.sbytes /\ c'.wbuf = c.wbuf /\ c'.iovused /\ c'.item = c.item
         /\ Len(c'.msgs) \in 1 .. 2 /\ c'.msgs[Len(c'.msgs)] = Reply("END")
         /\ Len(c'.msgs) = 2 => c'.msgs[1] = Reply("VALUE")
<1> DEFINE d == Clean
           e == Go(d, "conn_mwrite")
<1>1. HasHead
  BY DEF ProcessGet, AtRequest
<1>2. /\ d \in ConnType /\ d.write_and_go = c.write_and_go /\ d.ev_flags = c.ev_flags
      /\ d.protocol = Protocol /\ d.noreply = c.noreply /\ d.substate = c.substate
      /\ d.nreqs = c.nreqs /\ d.done = c.done + 1
      /\ d.rbytes = c.rbytes - HeadLen /\ d.rlbytes = c.rlbytes /\ d.sbytes = c.sbytes
      /\ d.wbuf = c.wbuf /\ SameHeld(d, c)
  BY <1>1, CleanDoes
<1> HIDE DEF d
<1>3. /\ e \in ConnType /\ e.state = "conn_mwrite" /\ e.write_and_go = d.write_and_go /\ e.ev_flags = d.ev_flags
      /\ SameMode(e, d) /\ SameCount(e, d) /\ SameData(e, d) /\ SameOut(e, d) /\ SameHeld(e, d)
  BY <1>2, GoDoes DEF States
<1>4. PICK hits \in 0 .. 1 :
        /\ c' = [e EXCEPT !.msgs = [h \in 1 .. hits |-> Reply("VALUE")] \o <<Reply("END")>>, !.iovused = TRUE, !.ileft = hits]
        /\ running' = TRUE /\ taken' = taken + HeadLen
  BY DEF ProcessGet, Processed, Continue, d
<1> DEFINE m == [h \in 1 .. hits |-> Reply("VALUE")] \o <<Reply("END")>>
<1>5. m \in Seq(Replies) /\ Len(m) = hits + 1 /\ m[hits + 1] = Reply("END") /\ (hits = 1 => m[1] = Reply("VALUE"))
  <2> DEFINE v == Reply("VALUE")
             w == Reply("END")
             pre == [h \in 1 .. hits |-> v]
             suf == <<w>>
  <2>1. v \in Replies /\ w \in Replies
    BY <1>1, HeadIs, ReplyIs
  <2> HIDE DEF v, w
  <2>2. pre \in Seq(Replies) /\ Len(pre) = hits /\ \A h \in 1 .. hits : pre[h] = v
    BY <2>1
  <2>3. suf \in Seq(Replies) /\ Len(suf) = 1 /\ suf[1] = w
    BY <2>1
  <2> HIDE DEF pre, suf
  <2>4. /\ pre \o suf \in Seq(Replies) /\ Len(pre \o suf) = hits + 1 /\ (pre \o suf)[hits + 1] = w
        /\ hits = 1 => (pre \o suf)[1] = v
    <3> DEFINE m1 == pre \o suf
    <3>1. /\ m1 \in Seq(Replies) /\ Len(m1) = Len(pre) + Len(suf)
          /\ \A i \in 1 .. Len(pre) : m1[i] = pre[i]
          /\ \A i \in 1 .. Len(suf) : m1[Len(pre) + i] = suf[i]
      BY <2>2, <2>3, ConcatFacts
    <3> HIDE DEF m1
    <3>2. m1[hits + 1] = w
      BY <2>2, <2>3, <3>1
    <3>3. hits = 1 => m1[1] = v
      BY <2>2, <3>1
    <3> QED BY <2>2, <2>3, <3>1, <3>2, <3>3 DEF m1
  <2> QED BY <2>4 DEF v, w, pre, suf
<1>6. Len(m) \in 1 .. 2 /\ m[Len(m)] = Reply("END") /\ (Len(m) = 2 => m[1] = Reply("VALUE")) /\ m \in Seq(Replies)
  BY ONLY <1>5, hits \in 0 .. 1
<1> HIDE DEF e, m
<1>7. c' = [e EXCEPT !.msgs = m, !.iovused = TRUE, !.ileft = hits]
  BY <1>4 DEF m
<1>8. c' \in ConnType
  BY <1>3, <1>6, <1>7 DEF ConnType
<1>9. /\ c'.state = e.state /\ c'.write_and_go = e.write_and_go /\ c'.ev_flags = e.ev_flags
      /\ c'.wbuf = e.wbuf /\ c'.iovused /\ c'.item = e.item /\ c'.msgs = m
  BY <1>3, <1>7 DEF ConnType
<1>10. SameMode(c', e) /\ SameCount(c', e) /\ SameData(c', e)
  BY <1>3, <1>7 DEF ConnType, SameMode, SameCount, SameData
<1> QED BY <1>2, <1>3, <1>4, <1>6, <1>8, <1>9, <1>10 DEF Took, SameMode, SameCount, SameData, SameOut, SameHeld

\* A text request that has its answer at once.
Answered1(e, q, what) ==
  /\ \/ q /\ e.state = "conn_new_cmd" /\ e.wbuf = c.wbuf
     \/ ~q /\ e.state = "conn_write" /\ e.wbuf = <<Reply(what)>>
  /\ ~e.noreply /\ e.substate = c.substate /\ e.rlbytes = c.rlbytes
  /\ e.msgs = <<>> /\ ~e.iovused /\ SameHeld(e, c)

LEMMA LineDoes ==
  ASSUME TypeOK, Whole, HasHead, NEW what \in {"LINE", "ERROR"}, NEW d \in {Clean, Quieted(Clean)}
  PROVE  LET e == out_string(d, <<Reply(what)>>) IN
         /\ e \in ConnType /\ e.protocol = Protocol /\ e.nreqs = c.nreqs /\ e.done = c.done + 1
         /\ e.rbytes = c.rbytes - HeadLen /\ e.ev_flags = c.ev_flags /\ e.sbytes = c.sbytes
         /\ Answered1(e, d.noreply, what)
         /\ d.noreply => e.write_and_go = c.write_and_go
         /\ ~d.noreply => e.write_and_go = "conn_new_cmd"
<1> DEFINE line == <<Reply(what)>>
           e == out_string(d, line)
           b == Clean
<1>1. line \in Seq(Replies)
  BY HeadIs, ReplyIs
<1>2. /\ b \in ConnType /\ b.write_and_go = c.write_and_go /\ b.ev_flags = c.ev_flags
      /\ b.protocol = Protocol /\ b.substate = c.substate
      /\ b.nreqs = c.nreqs /\ b.done = c.done + 1
      /\ b.rbytes = c.rbytes - HeadLen /\ b.rlbytes = c.rlbytes /\ b.sbytes = c.sbytes
      /\ b.msgs = <<>> /\ ~b.iovused /\ b.wbuf = c.wbuf /\ SameHeld(b, c)
  BY CleanDoes
<1> HIDE DEF b
<1>3. /\ d \in ConnType /\ d.write_and_go = b.write_and_go /\ d.ev_flags = b.ev_flags
      /\ d.protocol = b.protocol /\ d.substate = b.substate
      /\ SameCount(d, b) /\ SameData(d, b) /\ SameOut(d, b) /\ SameHeld(d, b)
  BY <1>2, QuietedDoes DEF b, SameCount, SameData, SameOut, SameHeld
<1> HIDE DEF line
<1>4. /\ e \in ConnType /\ e.ev_flags = d.ev_flags
      /\ \/ d.noreply /\ e.state = "conn_new_cmd" /\ e.wbuf = d.wbuf /\ e.write_and_go = d.write_and_go
         \/ ~d.noreply /\ e.state = "conn_write" /\ e.wbuf = line /\ e.write_and_go = "conn_new_cmd"
      /\ ~e.noreply /\ e.protocol = d.protocol /\ e.substate = d.substate
      /\ e.iovused = d.iovused /\ e.msgs = d.msgs
      /\ SameCount(e, d) /\ SameData(e, d) /\ SameHeld(e, d)
  BY <1>1, <1>3, out_stringDoes
<1> QED BY <1>2, <1>3, <1>4 DEF line, Answered1, SameCount, SameData, SameOut, SameHeld

Noted == c.noreply \/ IsNoreply(Start.kind)

LEMMA ProcessShortDoes ==
  ASSUME TypeOK, Whole, ProcessShort
  PROVE  /\ c' \in ConnType /\ Took(c') /\ Answered1(c', Noted, "LINE") /\ c'.sbytes = c.sbytes
         /\ Noted => c'.write_and_go = c.write_and_go
         /\ ~Noted => c'.write_and_go = "conn_new_cmd"
<1>1. HasHead /\ c' = out_string(Quieted(Clean), <<Reply("LINE")>>) /\ running' = TRUE /\ taken' = taken + HeadLen
  BY DEF ProcessShort, AtRequest, Processed, Continue
<1>2. Quieted(Clean).noreply = Noted
  BY <1>1, CleanDoes, QuietedDoes DEF Noted
<1> QED BY <1>1, <1>2, LineDoes DEF Took

LEMMA ProcessUnknownDoes ==
  ASSUME TypeOK, Whole, ProcessUnknown
  PROVE  /\ c' \in ConnType /\ Took(c') /\ Answered1(c', c.noreply, "ERROR") /\ c'.sbytes = c.sbytes
         /\ c.noreply => c'.write_and_go = c.write_and_go
         /\ ~c.noreply => c'.write_and_go = "conn_new_cmd"
<1>1. HasHead /\ c' = out_string(Clean, <<Reply("ERROR")>>) /\ running' = TRUE /\ taken' = taken + HeadLen
  BY DEF ProcessUnknown, Processed, Continue
<1>2. Clean.noreply = c.noreply
  BY <1>1, CleanDoes
<1> QED BY <1>1, <1>2, LineDoes DEF Took

LEMMA ProcessUpdateFailsDoes ==
  ASSUME TypeOK, Whole, ProcessUpdateFails
  PROVE  /\ c' \in ConnType /\ Took(c') /\ Answered1(c', Noted, "LINE")
         /\ c'.write_and_go = "conn_swallow" /\ c'.sbytes = 2
<1> DEFINE e == out_string(Quieted(Clean), <<Reply("LINE")>>)
<1>1. HasHead /\ c' = [e EXCEPT !.write_and_go = "conn_swallow", !.sbytes = 2] /\ running' = TRUE /\ taken' = taken + HeadLen
  BY DEF ProcessUpdateFails, AtRequest, Processed, Continue
<1>2. Quieted(Clean).noreply = Noted
  BY <1>1, CleanDoes, QuietedDoes DEF Noted
<1>3. /\ e \in ConnType /\ e.protocol = Protocol /\ e.nreqs = c.nreqs /\ e.done = c.done + 1
      /\ e.rbytes = c.rbytes - HeadLen /\ e.ev_flags = c.ev_flags
      /\ Answered1(e, Noted, "LINE")
  BY <1>1, <1>2, LineDoes
<1> DEFINE two == 2
           go == "conn_swallow"
<1> HIDE DEF e
<1>4. c' = [e EXCEPT !.write_and_go = go, !.sbytes = two] /\ two \in 0 .. 2 /\ go \in States
  BY <1>1 DEF States
<1> HIDE DEF two, go
<1>5. c' \in ConnType
  BY <1>4, <1>3 DEF ConnType
<1>6. /\ c'.protocol = e.protocol /\ c'.nreqs = e.nreqs /\ c'.done = e.done
      /\ c'.rbytes = e.rbytes /\ c'.ev_flags = e.ev_flags
      /\ c'.state = e.state /\ c'.wbuf = e.wbuf /\ c'.noreply = e.noreply /\ c'.substate = e.substate
      /\ c'.rlbytes = e.rlbytes /\ c'.msgs = e.msgs /\ c'.iovused = e.iovused /\ SameHeld(c', e)
      /\ c'.write_and_go = "conn_swallow" /\ c'.sbytes = 2
  BY <1>1, <1>3 DEF ConnType, SameHeld
<1> QED BY <1>1, <1>3, <1>5, <1>6 DEF Took, Answered1, SameHeld

LEMMA ProcessUpdateDoes ==
  ASSUME TypeOK, Whole, ProcessUpdate
  PROVE  /\ c' \in ConnType /\ Took(c') /\ c'.state = "conn_nread"
         /\ c'.write_and_go = c.write_and_go /\ c'.noreply = Noted /\ c'.substate = c.substate
         /\ c'.rlbytes = 2 /\ c'.sbytes = c.sbytes
         /\ c'.msgs = <<>> /\ ~c'.iovused /\ c'.wbuf = c.wbuf /\ c'.item /\ c'.ileft = c.ileft
<1> DEFINE b == Clean
           d == Quieted(b)
           e == Go(d, "conn_nread")
<1>1. HasHead /\ c' = [e EXCEPT !.item = TRUE, !.rlbytes = 2] /\ running' = TRUE /\ taken' = taken + HeadLen
  BY DEF ProcessUpdate, AtRequest, Processed, Continue
<1>2. /\ b \in ConnType /\ b.write_and_go = c.write_and_go /\ b.ev_flags = c.ev_flags
      /\ b.protocol = Protocol /\ b.noreply = c.noreply /\ b.substate = c.substate
      /\ b.nreqs = c.nreqs /\ b.done = c.done + 1
      /\ b.rbytes = c.rbytes - HeadLen /\ b.rlbytes = c.rlbytes /\ b.sbytes = c.sbytes
      /\ b.msgs = <<>> /\ ~b.iovused /\ b.wbuf = c.wbuf /\ SameHeld(b, c)
  BY <1>1, CleanDoes
<1> HIDE DEF b
<1>3. /\ d \in ConnType /\ d.write_and_go = b.write_and_go /\ d.ev_flags = b.ev_flags
      /\ d.protocol = b.protocol /\ d.substate = b.substate
      /\ d.noreply = (b.noreply \/ IsNoreply(Start.kind))
      /\ SameCount(d, b) /\ SameData(d, b) /\ SameOut(d, b) /\ SameHeld(d, b)
  BY <1>2, QuietedDoes
<1> HIDE DEF d
<1>4. /\ e \in ConnType /\ e.state = "conn_nread" /\ e.write_and_go = d.write_and_go /\ e.ev_flags = d.ev_flags
      /\ SameMode(e, d) /\ SameCount(e, d) /\ SameData(e, d) /\ SameOut(e, d) /\ SameHeld(e, d)
  BY <1>3, GoDoes DEF States
<1> HIDE DEF e
<1> DEFINE two == 2
<1>5. c' = [e EXCEPT !.item = TRUE, !.rlbytes = two] /\ two \in 0 .. 2
  BY <1>1
<1> HIDE DEF two
<1>6. /\ c' \in ConnType /\ c'.state = e.state /\ c'.write_and_go = e.write_and_go /\ c'.ev_flags = e.ev_flags
      /\ SameMode(c', e) /\ SameCount(c', e) /\ c'.rbytes = e.rbytes /\ c'.sbytes = e.sbytes
      /\ c'.rlbytes = two /\ c'.item /\ c'.ileft = e.ileft /\ SameOut(c', e)
  BY <1>5, <1>4 DEF ConnType, SameMode, SameCount, SameOut
<1> QED BY <1>1, <1>2, <1>3, <1>4, <1>6 DEF Took, Noted, two, SameMode, SameCount, SameData, SameOut, SameHeld

LEMMA ProcessQuitDoes ==
  ASSUME TypeOK, Whole, ProcessQuit
  PROVE  /\ c' \in ConnType /\ Took(c') /\ c'.state = "conn_closing"
         /\ c'.write_and_go = c.write_and_go /\ c'.noreply = c.noreply
         /\ c'.msgs = <<>> /\ c'.wbuf = c.wbuf
<1>1. HasHead /\ c' = Go(Clean, "conn_closing") /\ running' = TRUE /\ taken' = taken + HeadLen
  BY DEF ProcessQuit, AtRequest, Processed, Continue
<1> QED BY <1>1, CleanDoes, GoDoes DEF Took, States, SameMode, SameCount, SameData, SameOut

LEMMA BinNoopDoes ==
  ASSUME TypeOK, Whole, BinNoop
  PROVE  /\ c' \in ConnType /\ Took(c') /\ c'.state = "conn_mwrite" /\ c'.write_and_go = "conn_new_cmd"
         /\ ~c'.noreply /\ c'.substate = c.substate
         /\ c'.rlbytes = c.rlbytes /\ c'.sbytes = c.sbytes
         /\ c'.msgs = <<Reply("LINE")>> /\ c'.iovused /\ c'.wbuf = c.wbuf /\ SameHeld(c', c)
<1> DEFINE d == Headed
           r == Reply("LINE")
<1>1. /\ HasHead /\ Start.kind = "noop"
      /\ c' = write_bin_response(d, r) /\ running' = TRUE /\ taken' = taken + HeadLen
  BY DEF BinNoop, AtRequest, Processed, Continue
<1>2. /\ d \in ConnType /\ d.ev_flags = c.ev_flags /\ d.protocol = Protocol /\ ~d.noreply /\ d.substate = c.substate
      /\ d.nreqs = c.nreqs /\ d.done = c.done + 1
      /\ d.rbytes = c.rbytes - HeadLen /\ d.rlbytes = c.rlbytes /\ d.sbytes = c.sbytes
      /\ d.wbuf = c.wbuf /\ SameHeld(d, c)
  BY <1>1, HeadedDoes DEF IsQuiet
<1>3. r \in Replies
  BY <1>1, HeadIs, ReplyIs
<1> HIDE DEF d, r
<1>4. /\ c' \in ConnType /\ c'.ev_flags = d.ev_flags /\ c'.state = "conn_mwrite" /\ c'.write_and_go = "conn_new_cmd"
      /\ c'.msgs = <<r>> /\ c'.iovused /\ c'.wbuf = d.wbuf
      /\ SameMode(c', d) /\ SameCount(c', d) /\ SameData(c', d) /\ SameHeld(c', d)
  BY <1>1, <1>2, <1>3, write_bin_responseDoes
<1> QED BY <1>1, <1>2, <1>4 DEF r, Took, SameMode, SameCount, SameData, SameHeld

LEMMA BinQuitDoes ==
  ASSUME TypeOK, Whole, BinQuit
  PROVE  /\ c' \in ConnType /\ Took(c') /\ c'.write_and_go = "conn_closing"
         /\ c'.noreply = (Start.kind = "bquitq") /\ c'.substate = c.substate
         /\ c'.rlbytes = c.rlbytes /\ c'.sbytes = c.sbytes /\ c'.wbuf = c.wbuf /\ SameHeld(c', c)
         /\ \/ c'.noreply /\ c'.state = "conn_closing" /\ c'.msgs = <<>>
            \/ ~c'.noreply /\ c'.state = "conn_mwrite" /\ c'.msgs = <<Reply("LINE")>> /\ c'.iovused
<1> DEFINE d == Headed
           r == Reply("LINE")
           e == write_bin_response(d, r)
           g == [e EXCEPT !.write_and_go = "conn_closing"]
<1>1. /\ HasHead /\ Start.kind \in {"bquit", "bquitq"}
      /\ c' = (IF g.noreply THEN Go(g, "conn_closing") ELSE g) /\ running' = TRUE /\ taken' = taken + HeadLen
  BY DEF BinQuit, AtRequest, Processed, Continue
<1>2. /\ d \in ConnType /\ d.ev_flags = c.ev_flags /\ d.protocol = Protocol /\ d.substate = c.substate
      /\ d.noreply = IsQuiet(Start.kind)
      /\ d.nreqs = c.nreqs /\ d.done = c.done + 1
      /\ d.rbytes = c.rbytes - HeadLen /\ d.rlbytes = c.rlbytes /\ d.sbytes = c.sbytes
      /\ d.msgs = <<>> /\ d.wbuf = c.wbuf /\ SameHeld(d, c)
  BY <1>1, HeadedDoes
<1>3. d.noreply = (Start.kind = "bquitq")
  BY <1>1, <1>2 DEF IsQuiet
<1>4. r \in Replies
  BY <1>1, HeadIs, ReplyIs
<1> HIDE DEF d, r
<1>5. /\ e \in ConnType /\ e.ev_flags = d.ev_flags
      /\ \/ d.noreply /\ SameOut(e, d)
         \/ ~d.noreply /\ e.state = "conn_mwrite" /\ e.msgs = <<r>> /\ e.iovused /\ e.wbuf = d.wbuf
      /\ SameMode(e, d) /\ SameCount(e, d) /\ SameData(e, d) /\ SameHeld(e, d)
  BY <1>2, <1>4, write_bin_responseDoes
<1> HIDE DEF e
<1>6. /\ g \in ConnType /\ g.state = e.state /\ g.ev_flags = e.ev_flags /\ g.write_and_go = "conn_closing"
      /\ SameMode(g, e) /\ SameCount(g, e) /\ SameData(g, e) /\ SameOut(g, e) /\ SameHeld(g, e)
  BY <1>5 DEF ConnType, States, SameMode, SameCount, SameData, SameOut, SameHeld
<1> HIDE DEF g
<1>7. CASE g.noreply
  <2>1. c' = Go(g, "conn_closing") /\ d.noreply
    BY <1>1, <1>5, <1>6, <1>7 DEF SameMode
  <2>2. /\ c' \in ConnType /\ c'.state = "conn_closing" /\ c'.ev_flags = g.ev_flags /\ c'.write_and_go = "conn_closing"
        /\ SameMode(c', g) /\ SameCount(c', g) /\ SameData(c', g) /\ SameOut(c', g) /\ SameHeld(c', g)
    BY <1>6, <2>1, GoDoes DEF States
  <2> QED BY <1>1, <1>2, <1>3, <1>5, <1>6, <1>7, <2>1, <2>2 DEF r, Took, SameMode, SameCount, SameData, SameOut, SameHeld
<1>8. CASE ~g.noreply
  BY <1>1, <1>2, <1>3, <1>5, <1>6, <1>8 DEF r, Took, SameMode, SameCount, SameData, SameOut, SameHeld
<1> QED BY <1>7, <1>8

LEMMA BinReadKeyDoes ==
  ASSUME TypeOK, Whole, BinReadKey
  PROVE  /\ c' \in ConnType /\ Took(c') /\ c'.state \in {"conn_nread", "conn_closing"}
         /\ c'.write_and_go = c.write_and_go /\ c'.noreply = IsQuiet(Start.kind) /\ c'.substate = "key"
         /\ c'.rlbytes = 1 /\ c'.sbytes = c.sbytes
         /\ c'.msgs = <<>> /\ ~c'.iovused /\ c'.wbuf = c.wbuf /\ SameHeld(c', c)
<1> DEFINE d == Headed
           one == 1
           key == "key"
<1>1. /\ HasHead /\ running' = TRUE /\ taken' = taken + HeadLen
      /\ \E st \in {"conn_nread", "conn_closing"} : c' = [Go(d, st) EXCEPT !.substate = key, !.rlbytes = one]
  BY DEF BinReadKey, AtRequest, Processed, Continue
<1>2. PICK st \in {"conn_nread", "conn_closing"} : c' = [Go(d, st) EXCEPT !.substate = key, !.rlbytes = one]
  BY <1>1
<1>3. /\ d \in ConnType /\ d.ev_flags = c.ev_flags /\ d.write_and_go = c.write_and_go
      /\ d.protocol = Protocol /\ d.noreply = IsQuiet(Start.kind)
      /\ d.nreqs = c.nreqs /\ d.done = c.done + 1
      /\ d.rbytes = c.rbytes - HeadLen /\ d.sbytes = c.sbytes
      /\ d.msgs = <<>> /\ ~d.iovused /\ d.wbuf = c.wbuf /\ SameHeld(d, c)
  BY <1>1, HeadedDoes
<1> HIDE DEF d
<1> DEFINE e == Go(d, st)
<1>4. /\ e \in ConnType /\ e.state = st /\ e.write_and_go = d.write_and_go /\ e.ev_flags = d.ev_flags
      /\ SameMode(e, d) /\ SameCount(e, d) /\ SameData(e, d) /\ SameOut(e, d) /\ SameHeld(e, d)
  BY <1>2, <1>3, GoDoes DEF States
<1>5. one \in 0 .. 2 /\ key \in {"none", "key", "value"} /\ c' = [e EXCEPT !.substate = key, !.rlbytes = one]
  BY <1>2
<1> HIDE DEF e, one, key
<1>6. /\ c' \in ConnType /\ c'.state = e.state /\ c'.write_and_go = e.write_and_go /\ c'.ev_flags = e.ev_flags
      /\ c'.protocol = e.protocol /\ c'.noreply = e.noreply /\ c'.substate = key /\ SameCount(c', e)
      /\ c'.rbytes = e.rbytes /\ c'.sbytes = e.sbytes /\ c'.rlbytes = one /\ SameOut(c', e) /\ SameHeld(c', e)
  BY <1>4, <1>5 DEF ConnType, SameCount, SameOut, SameHeld
<1> QED BY <1>1, <1>2, <1>3, <1>4, <1>6 DEF one, key, Took, SameMode, SameCount, SameData, SameOut, SameHeld

LEMMA BinUnknownDoes ==
  ASSUME TypeOK, Whole, BinUnknown
  PROVE  /\ c' \in ConnType /\ Took(c') /\ c'.state = "conn_mwrite" /\ c'.write_and_go = "conn_swallow"
         /\ c'.noreply = IsQuiet(Start.kind) /\ c'.substate = c.substate
         /\ c'.rlbytes = c.rlbytes /\ c'.sbytes = 1
         /\ c'.msgs = <<Reply("ERROR")>> /\ c'.iovused /\ c'.wbuf = c.wbuf /\ SameHeld(c', c)
<1> DEFINE d == Headed
           r == Reply("ERROR")
<1>1. /\ HasHead /\ c' = write_bin_error(d, r, 1) /\ running' = TRUE /\ taken' = taken + HeadLen
  BY DEF BinUnknown, AtRequest, Processed, Continue
<1>2. /\ d \in ConnType /\ d.ev_flags = c.ev_flags /\ d.protocol = Protocol
      /\ d.noreply = IsQuiet(Start.kind) /\ d.substate = c.substate
      /\ d.nreqs = c.nreqs /\ d.done = c.done + 1
      /\ d.rbytes = c.rbytes - HeadLen /\ d.rlbytes = c.rlbytes /\ d.wbuf = c.wbuf /\ SameHeld(d, c)
  BY <1>1, HeadedDoes
<1>3. r \in Replies
  BY <1>1, HeadIs, ReplyIs
<1> HIDE DEF d, r
<1>4. /\ c' \in ConnType /\ c'.ev_flags = d.ev_flags /\ c'.state = "conn_mwrite" /\ c'.write_and_go = "conn_swallow"
      /\ c'.msgs = <<r>> /\ c'.iovused /\ c'.wbuf = d.wbuf
      /\ c'.rbytes = d.rbytes /\ c'.rlbytes = d.rlbytes /\ c'.sbytes = 1
      /\ SameMode(c', d) /\ SameCount(c', d) /\ SameHeld(c', d)
  BY <1>1, <1>2, <1>3, write_bin_errorDoes
<1> QED BY <1>1, <1>2, <1>4 DEF r, Took, SameMode, SameCount, SameHeld

LEMMA BinBadDoes ==
  ASSUME TypeOK, Whole, BinBad
  PROVE  /\ c' \in ConnType /\ Took(c') /\ c'.state = "conn_mwrite" /\ c'.write_and_go = "conn_closing"
         /\ c'.noreply = IsQuiet(Start.kind) /\ c'.substate = c.substate
         /\ c'.rlbytes = c.rlbytes /\ c'.sbytes = c.sbytes
         /\ c'.msgs = <<Reply("ERROR")>> /\ c'.iovused /\ c'.wbuf = c.wbuf /\ SameHeld(c', c)
<1> DEFINE d == Headed
           r == Reply("ERROR")
           e == write_bin_error(d, r, 0)
<1>1. /\ HasHead /\ c' = [e EXCEPT !.write_and_go = "conn_closing"] /\ running' = TRUE /\ taken' = taken + HeadLen
  BY DEF BinBad, AtRequest, Processed, Continue
<1>2. /\ d \in ConnType /\ d.ev_flags = c.ev_flags /\ d.protocol = Protocol
      /\ d.noreply = IsQuiet(Start.kind) /\ d.substate = c.substate
      /\ d.nreqs = c.nreqs /\ d.done = c.done + 1 /\ d.sbytes = c.sbytes
      /\ d.rbytes = c.rbytes - HeadLen /\ d.rlbytes = c.rlbytes /\ d.wbuf = c.wbuf /\ SameHeld(d, c)
  BY <1>1, HeadedDoes
<1>3. r \in Replies
  BY <1>1, HeadIs, ReplyIs
<1> HIDE DEF d, r
<1>4. /\ e \in ConnType /\ e.ev_flags = d.ev_flags /\ e.state = "conn_mwrite"
      /\ e.msgs = <<r>> /\ e.iovused /\ e.wbuf = d.wbuf
      /\ e.rbytes = d.rbytes /\ e.rlbytes = d.rlbytes /\ e.sbytes = d.sbytes
      /\ SameMode(e, d) /\ SameCount(e, d) /\ SameHeld(e, d)
  BY <1>2, <1>3, write_bin_errorDoes
<1> HIDE DEF e
<1>5. /\ c' \in ConnType /\ c'.ev_flags = e.ev_flags /\ c'.state = e.state /\ c'.write_and_go = "conn_closing"
      /\ SameOut(c', e) /\ SameData(c', e) /\ SameMode(c', e) /\ SameCount(c', e) /\ SameHeld(c', e)
  BY <1>1, <1>4 DEF ConnType, States, SameOut, SameData, SameMode, SameCount, SameHeld
<1> QED BY <1>1, <1>2, <1>4, <1>5 DEF r, Took, SameOut, SameData, SameMode, SameCount, SameHeld

\* A binary request with its key, or its value, becomes an answer or none.
LEMMA BinGetDoes ==
  ASSUME TypeOK, taken > 0, BinGet
  PROVE  /\ c' \in ConnType /\ running' = TRUE
         /\ \/ c'.state = "conn_mwrite" /\ c'.iovused
               /\ c'.write_and_go \in {c.write_and_go, "conn_new_cmd"}
               /\ \/ c'.msgs = <<BinReply("LINE")>>
                  \/ ~c.noreply /\ c'.msgs = <<BinReply("ERROR")>>
            \/ c.noreply /\ c'.state = "conn_new_cmd" /\ c'.write_and_go = c.write_and_go /\ c'.msgs = c.msgs
         /\ c'.wbuf = c.wbuf /\ c'.ev_flags = c.ev_flags /\ c'.ileft = c.ileft
         /\ SameMode(c', c) /\ SameCount(c', c) /\ SameData(c', c)
<1>1. c \in ConnType /\ running' = TRUE
  BY ConnHasType DEF BinGet, Continue
<1>2. BinReply("LINE") \in Replies /\ <<BinReply("LINE")>> \in Seq(Replies)
      /\ BinReply("ERROR") \in Replies /\ <<BinReply("ERROR")>> \in Seq(Replies)
  BY ReplyIs
<1> DEFINE e == Go(c, "conn_mwrite")
           hit == <<BinReply("LINE")>>
           miss == <<BinReply("ERROR")>>
<1>3. \/ c' = [e EXCEPT !.msgs = hit, !.iovused = TRUE, !.item = TRUE]
      \/ c.noreply /\ c' = Go(c, "conn_new_cmd")
      \/ ~c.noreply /\ c' = write_bin_error(c, BinReply("ERROR"), 0)
      \/ ~c.noreply /\ c' = [e EXCEPT !.msgs = miss, !.iovused = TRUE]
  BY DEF BinGet, Continue
<1>4. /\ e \in ConnType /\ e.state = "conn_mwrite" /\ e.write_and_go = c.write_and_go /\ e.ev_flags = c.ev_flags
      /\ SameMode(e, c) /\ SameCount(e, c) /\ SameData(e, c) /\ SameOut(e, c) /\ SameHeld(e, c)
  BY <1>1, GoDoes DEF States
<1> HIDE DEF e, hit, miss
<1>5. CASE c' = [e EXCEPT !.msgs = hit, !.iovused = TRUE, !.item = TRUE]
  <2>1. /\ c' \in ConnType /\ c'.state = e.state /\ c'.iovused /\ c'.write_and_go = e.write_and_go
        /\ c'.msgs = hit /\ c'.wbuf = e.wbuf /\ c'.ev_flags = e.ev_flags /\ c'.ileft = e.ileft
        /\ SameMode(c', e) /\ SameCount(c', e) /\ SameData(c', e)
    BY <1>2, <1>4, <1>5 DEF ConnType, hit, SameMode, SameCount, SameData
  <2> QED BY <1>1, <1>4, <2>1 DEF hit, SameMode, SameCount, SameData, SameOut, SameHeld
<1>6. CASE c.noreply /\ c' = Go(c, "conn_new_cmd")
  BY <1>1, <1>6, GoDoes DEF States, SameOut, SameHeld
<1>7. CASE ~c.noreply /\ c' = write_bin_error(c, BinReply("ERROR"), 0)
  BY <1>1, <1>2, <1>7, BareErrorDoes DEF SameHeld
<1>8. CASE ~c.noreply /\ c' = [e EXCEPT !.msgs = miss, !.iovused = TRUE]
  <2>1. /\ c' \in ConnType /\ c'.state = e.state /\ c'.iovused /\ c'.write_and_go = e.write_and_go
        /\ c'.msgs = miss /\ c'.wbuf = e.wbuf /\ c'.ev_flags = e.ev_flags /\ c'.ileft = e.ileft
        /\ SameMode(c', e) /\ SameCount(c', e) /\ SameData(c', e)
    BY <1>2, <1>4, <1>8 DEF ConnType, miss, SameMode, SameCount, SameData
  <2> QED BY <1>1, <1>4, <1>8, <2>1 DEF miss, SameMode, SameCount, SameData, SameOut, SameHeld
<1> QED BY <1>3, <1>5, <1>6, <1>7, <1>8

LEMMA BinKeyedDoes ==
  ASSUME TypeOK, taken > 0, BinKeyed
  PROVE  /\ c' \in ConnType /\ running' = TRUE
         /\ \/ c'.state = "conn_mwrite" /\ c'.iovused /\ c'.write_and_go = "conn_new_cmd"
               /\ \/ ~c.noreply /\ c'.msgs = <<BinReply("LINE")>>
                  \/ c'.msgs = <<BinReply("ERROR")>>
            \/ c.noreply /\ c'.state = "conn_new_cmd" /\ c'.write_and_go = c.write_and_go /\ c'.msgs = c.msgs
         /\ c'.wbuf = c.wbuf /\ c'.ev_flags = c.ev_flags /\ SameHeld(c', c)
         /\ SameMode(c', c) /\ SameCount(c', c) /\ SameData(c', c)
<1>1. c \in ConnType /\ running' = TRUE
  BY ConnHasType DEF BinKeyed, Continue
<1>2. BinReply("LINE") \in Replies /\ BinReply("ERROR") \in Replies
  BY ReplyIs
<1>3. \/ c' = write_bin_response(c, BinReply("LINE"))
      \/ c' = write_bin_error(c, BinReply("ERROR"), 0)
  BY DEF BinKeyed, Continue
<1>4. CASE c' = write_bin_response(c, BinReply("LINE"))
  BY <1>1, <1>2, <1>4, write_bin_responseDoes DEF SameOut
<1>5. CASE c' = write_bin_error(c, BinReply("ERROR"), 0)
  BY <1>1, <1>2, <1>5, BareErrorDoes
<1> QED BY <1>3, <1>4, <1>5

LEMMA BinUpdateDoes ==
  ASSUME TypeOK, taken > 0, BinUpdate
  PROVE  /\ c' \in ConnType /\ running' = TRUE
         /\ \/ c'.state = "conn_nread" /\ c'.substate = "value" /\ c'.rlbytes = 1 /\ c'.sbytes = c.sbytes
               /\ c'.write_and_go = c.write_and_go /\ SameOut(c', c)
            \/ c'.state = "conn_mwrite" /\ c'.substate = c.substate /\ c'.rlbytes = c.rlbytes /\ c'.sbytes = 1
               /\ c'.write_and_go = "conn_swallow" /\ c'.msgs = <<BinReply("ERROR")>> /\ c'.iovused
         /\ c'.wbuf = c.wbuf /\ c'.ev_flags = c.ev_flags /\ c'.rbytes = c.rbytes /\ c'.ileft = c.ileft
         /\ c'.protocol = c.protocol /\ c'.noreply = c.noreply /\ SameCount(c', c)
<1> DEFINE e == Go(c, "conn_nread")
           g == write_bin_error(c, BinReply("ERROR"), 1)
           one == 1
           value == "value"
           go == "conn_swallow"
<1>1. c \in ConnType /\ running' = TRUE
  BY ConnHasType DEF BinUpdate, Continue
<1>2. BinReply("ERROR") \in Replies
  BY ReplyIs
<1>3. \/ c' = [e EXCEPT !.item = TRUE, !.rlbytes = one, !.substate = value]
      \/ c' = [g EXCEPT !.write_and_go = go]
  BY DEF BinUpdate, Continue
<1>4. /\ e \in ConnType /\ e.state = "conn_nread" /\ e.write_and_go = c.write_and_go /\ e.ev_flags = c.ev_flags
      /\ SameMode(e, c) /\ SameCount(e, c) /\ SameData(e, c) /\ SameOut(e, c) /\ SameHeld(e, c)
  BY <1>1, GoDoes DEF States
<1>5. /\ g \in ConnType /\ g.state = "conn_mwrite" /\ g.ev_flags = c.ev_flags
      /\ g.msgs = <<BinReply("ERROR")>> /\ g.iovused /\ g.wbuf = c.wbuf
      /\ g.rbytes = c.rbytes /\ g.rlbytes = c.rlbytes /\ g.sbytes = 1
      /\ SameMode(g, c) /\ SameCount(g, c) /\ SameHeld(g, c)
  BY <1>1, <1>2, write_bin_errorDoes
<1>6. one \in 0 .. 2 /\ value \in {"none", "key", "value"} /\ go \in States
  BY DEF States
<1> HIDE DEF e, g, one, value, go
<1>7. CASE c' = [e EXCEPT !.item = TRUE, !.rlbytes = one, !.substate = value]
  <2>1. /\ c' \in ConnType /\ c'.state = e.state /\ c'.substate = value /\ c'.rlbytes = one /\ c'.sbytes = e.sbytes
        /\ c'.write_and_go = e.write_and_go /\ SameOut(c', e)
        /\ c'.ev_flags = e.ev_flags /\ c'.rbytes = e.rbytes /\ c'.ileft = e.ileft
        /\ c'.protocol = e.protocol /\ c'.noreply = e.noreply /\ SameCount(c', e)
    BY <1>4, <1>6, <1>7 DEF ConnType, SameOut, SameCount
  <2> QED BY <1>1, <1>4, <2>1 DEF one, value, SameMode, SameCount, SameData, SameOut, SameHeld
<1>8. CASE c' = [g EXCEPT !.write_and_go = go]
  <2>1. /\ c' \in ConnType /\ c'.state = g.state /\ c'.ev_flags = g.ev_flags /\ c'.write_and_go = go
        /\ SameOut(c', g) /\ SameData(c', g) /\ SameMode(c', g) /\ SameCount(c', g) /\ SameHeld(c', g)
    BY <1>5, <1>6, <1>8 DEF ConnType, SameOut, SameData, SameMode, SameCount, SameHeld
  <2> QED BY <1>1, <1>5, <2>1 DEF go, SameMode, SameCount, SameData, SameOut, SameHeld
<1> QED BY <1>3, <1>7, <1>8

LEMMA BinStoreDoes ==
  ASSUME TypeOK, taken > 0, BinStore
  PROVE  /\ c' \in ConnType /\ running' = TRUE
         /\ \/ c'.state = "conn_mwrite" /\ c'.iovused /\ c'.write_and_go = "conn_new_cmd"
               /\ \/ ~c.noreply /\ c'.msgs = <<BinReply("LINE")>>
                  \/ c'.msgs = <<BinReply("ERROR")>>
            \/ c.noreply /\ c'.state = "conn_new_cmd" /\ c'.write_and_go = c.write_and_go /\ c'.msgs = c.msgs
         /\ c'.wbuf = c.wbuf /\ c'.ev_flags = c.ev_flags /\ ~c'.item /\ c'.ileft = c.ileft
         /\ SameMode(c', c) /\ SameCount(c', c) /\ SameData(c', c)
<1>1. c \in ConnType /\ running' = TRUE
  BY ConnHasType DEF BinStore, Continue
<1>2. BinReply("LINE") \in Replies /\ BinReply("ERROR") \in Replies
  BY ReplyIs
<1>3. PICK e \in {write_bin_response(c, BinReply("LINE")), write_bin_error(c, BinReply("ERROR"), 0)} :
        c' = [e EXCEPT !.item = FALSE]
  BY DEF BinStore, Continue
<1>4. /\ e \in ConnType
      /\ \/ e.state = "conn_mwrite" /\ e.iovused /\ e.write_and_go = "conn_new_cmd"
            /\ \/ ~c.noreply /\ e.msgs = <<BinReply("LINE")>>
               \/ e.msgs = <<BinReply("ERROR")>>
         \/ c.noreply /\ e.state = "conn_new_cmd" /\ e.write_and_go = c.write_and_go /\ e.msgs = c.msgs
      /\ e.wbuf = c.wbuf /\ e.ev_flags = c.ev_flags /\ SameHeld(e, c)
      /\ SameMode(e, c) /\ SameCount(e, c) /\ SameData(e, c)
  <2>1. CASE e = write_bin_response(c, BinReply("LINE"))
    BY <1>1, <1>2, <2>1, write_bin_responseDoes DEF SameOut
  <2>2. CASE e = write_bin_error(c, BinReply("ERROR"), 0)
    BY <1>1, <1>2, <2>2, BareErrorDoes
  <2> QED BY <1>3, <2>1, <2>2
<1>5. /\ c' \in ConnType /\ c'.state = e.state /\ c'.ev_flags = e.ev_flags /\ c'.write_and_go = e.write_and_go
      /\ SameOut(c', e) /\ SameData(c', e) /\ SameMode(c', e) /\ SameCount(c', e) /\ ~c'.item /\ c'.ileft = e.ileft
  BY <1>3, <1>4 DEF ConnType, SameOut, SameData, SameMode, SameCount
<1> QED BY <1>1, <1>4, <1>5 DEF SameMode, SameCount, SameData, SameOut, SameHeld

LEMMA NreadDoneDoes ==
  ASSUME TypeOK, taken > 0, NreadDone
  PROVE  /\ c' \in ConnType /\ running' = TRUE
         /\ \/ c.noreply /\ c'.state = "conn_new_cmd" /\ c'.wbuf = c.wbuf /\ c'.write_and_go = c.write_and_go
            \/ ~c.noreply /\ c'.state = "conn_write" /\ c'.wbuf = <<BinReply("LINE")>> /\ c'.write_and_go = "conn_new_cmd"
         /\ ~c'.noreply /\ c'.protocol = c.protocol /\ c'.substate = c.substate
         /\ c'.iovused = c.iovused /\ c'.msgs = c.msgs /\ ~c'.item /\ c'.ileft = c.ileft
         /\ c'.ev_flags = c.ev_flags /\ SameCount(c', c) /\ SameData(c', c)
<1> DEFINE line == <<BinReply("LINE")>>
           e == out_string(c, line)
<1>1. c \in ConnType /\ running' = TRUE /\ c' = [e EXCEPT !.item = FALSE] /\ line \in Seq(Replies)
  BY ConnHasType, ReplyIs DEF NreadDone, Continue, BinReply, Current
<1> HIDE DEF line
<1>2. /\ e \in ConnType /\ e.ev_flags = c.ev_flags
      /\ \/ c.noreply /\ e.state = "conn_new_cmd" /\ e.wbuf = c.wbuf /\ e.write_and_go = c.write_and_go
         \/ ~c.noreply /\ e.state = "conn_write" /\ e.wbuf = line /\ e.write_and_go = "conn_new_cmd"
      /\ ~e.noreply /\ e.protocol = c.protocol /\ e.substate = c.substate
      /\ e.iovused = c.iovused /\ e.msgs = c.msgs
      /\ SameCount(e, c) /\ SameData(e, c) /\ SameHeld(e, c)
  BY <1>1, out_stringDoes
<1> HIDE DEF e
<1>3. /\ c' \in ConnType /\ c'.state = e.state /\ c'.ev_flags = e.ev_flags /\ c'.write_and_go = e.write_and_go
      /\ SameOut(c', e) /\ SameData(c', e) /\ SameMode(c', e) /\ SameCount(c', e) /\ ~c'.item /\ c'.ileft = e.ileft
  BY <1>1, <1>2 DEF ConnType, SameOut, SameData, SameMode, SameCount
<1> QED BY <1>1, <1>2, <1>3 DEF line, SameMode, SameCount, SameData, SameOut, SameHeld

LEMMA NextRequestDoes ==
  ASSUME TypeOK, NextRequest
  PROVE  /\ c' \in ConnType /\ running' = TRUE
         /\ \/ c.rbytes > 0 /\ c'.state = "conn_parse_cmd"
            \/ c.rbytes = 0 /\ c'.state = "conn_waiting"
         /\ c'.nreqs = c.nreqs - 1 /\ c'.done = c.done
         /\ c'.write_and_go = c.write_and_go /\ c'.ev_flags = c.ev_flags
         /\ c'.noreply = c.noreply /\ c'.protocol = c.protocol /\ c'.substate = "none"
         /\ ~c'.item /\ c'.ileft = c.ileft
         /\ SameData(c', c) /\ SameOut(c', c)
<1> DEFINE n == c.nreqs - 1
           d == [c EXCEPT !.nreqs = n]
<1>1. c \in ConnType /\ c' = reset_cmd_handler(d) /\ running' = TRUE
  BY ConnHasType DEF NextRequest, Continue
<1>2. n \in 0 .. ReqsPerEvent
  BY <1>1 DEF NextRequest, ConnType
<1> HIDE DEF n
<1>3. /\ d \in ConnType /\ d.write_and_go = c.write_and_go /\ d.ev_flags = c.ev_flags /\ d.nreqs = n /\ d.done = c.done
      /\ SameMode(d, c) /\ SameData(d, c) /\ SameOut(d, c) /\ SameHeld(d, c)
  BY <1>1, <1>2 DEF ConnType, SameMode, SameData, SameOut, SameHeld
<1> HIDE DEF d
<1>4. /\ c' \in ConnType /\ c'.write_and_go = d.write_and_go /\ c'.ev_flags = d.ev_flags
      /\ \/ d.rbytes > 0 /\ c'.state = "conn_parse_cmd"
         \/ d.rbytes = 0 /\ c'.state = "conn_waiting"
      /\ c'.noreply = d.noreply /\ c'.protocol = d.protocol /\ c'.substate = "none"
      /\ ~c'.item /\ c'.ileft = d.ileft
      /\ SameCount(c', d) /\ SameData(c', d) /\ SameOut(c', d)
  BY <1>1, <1>3, reset_cmd_handlerDoes
<1> QED BY <1>1, <1>3, <1>4 DEF n, SameMode, SameCount, SameData, SameOut, SameHeld

LEMMA YieldDoes ==
  ASSUME TypeOK, Yield
  PROVE  /\ c' \in ConnType /\ running' = FALSE
         /\ \/ c'.state = c.state /\ (c.rbytes > 0 => c'.ev_flags = "write")
            \/ c'.state = "conn_closing"
         /\ c'.write_and_go = c.write_and_go
         /\ SameMode(c', c) /\ SameCount(c', c) /\ SameData(c', c) /\ SameOut(c', c) /\ SameHeld(c', c)
<1> DEFINE f == IF c.rbytes > 0 THEN "write" ELSE c.ev_flags
           e == Go(c, "conn_closing")
<1>1. c \in ConnType /\ running' = FALSE
  BY ConnHasType DEF Yield, Stop
<1>2. f \in {"read", "write", "none"} /\ (c.rbytes > 0 => f = "write") /\ c.ev_flags \in {"read", "write", "none"}
  BY <1>1 DEF ConnType
<1>3. /\ e \in ConnType /\ e.state = "conn_closing" /\ e.write_and_go = c.write_and_go
      /\ SameMode(e, c) /\ SameCount(e, c) /\ SameData(e, c) /\ SameOut(e, c) /\ SameHeld(e, c)
  BY <1>1, GoDoes DEF States
<1>4. \/ c' = [c EXCEPT !.ev_flags = f]
      \/ \E left \in {c.ev_flags, "none"} : c' = [e EXCEPT !.ev_flags = left]
  BY DEF Yield, Stop
<1> HIDE DEF f, e
<1>5. CASE c' = [c EXCEPT !.ev_flags = f]
  <2>1. /\ c' \in ConnType /\ c'.state = c.state /\ c'.ev_flags = f /\ c'.write_and_go = c.write_and_go
        /\ SameMode(c', c) /\ SameCount(c', c) /\ SameData(c', c) /\ SameOut(c', c) /\ SameHeld(c', c)
    BY <1>1, <1>2, <1>5 DEF ConnType, SameMode, SameCount, SameData, SameOut, SameHeld
  <2> QED BY <1>1, <1>2, <2>1
<1>6. CASE \E left \in {c.ev_flags, "none"} : c' = [e EXCEPT !.ev_flags = left]
  <2>1. PICK left \in {"read", "write", "none"} : c' = [e EXCEPT !.ev_flags = left]
    BY <1>2, <1>6
  <2>2. /\ c' \in ConnType /\ c'.state = e.state /\ c'.write_and_go = e.write_and_go
        /\ SameMode(c', e) /\ SameCount(c', e) /\ SameData(c', e) /\ SameOut(c', e) /\ SameHeld(c', e)
    BY <1>3, <2>1 DEF ConnType, SameMode, SameCount, SameData, SameOut, SameHeld
  <2> QED BY <1>1, <1>3, <2>2 DEF SameMode, SameCount, SameData, SameOut, SameHeld
<1> QED BY <1>4, <1>5, <1>6

\* n units more of the data block.
Advanced(e, n) ==
  /\ n \in 0 .. 2 /\ n <= Wanted /\ taken' = taken + n /\ taken' + e.rbytes <= arrived
  /\ \/ c.state = "conn_nread" /\ e.rlbytes = c.rlbytes - n /\ e.sbytes = c.sbytes
     \/ c.state = "conn_swallow" /\ e.sbytes = c.sbytes - n /\ e.rlbytes = c.rlbytes
  /\ e.write_and_go = c.write_and_go
  /\ SameMode(e, c) /\ SameCount(e, c) /\ SameOut(e, c) /\ SameHeld(e, c)

LEMMA MinIs ==
  ASSUME NEW a \in Nat, NEW b \in Nat
  PROVE  Min({a, b}) \in {a, b} /\ Min({a, b}) <= a /\ Min({a, b}) <= b
BY DEF Min

LEMMA WantedIs ==
  ASSUME TypeOK, WantsData
  PROVE  Wanted \in 1 .. 2
BY ConnHasType DEF WantsData, Wanted, ConnType

LEMMA DataFromBufferDoes ==
  ASSUME TypeOK, DataFromBuffer
  PROVE  /\ c' \in ConnType /\ running' = TRUE /\ c'.state = c.state /\ c'.ev_flags = c.ev_flags
         /\ \E n \in 1 .. 2 : Advanced(c', n)
<1> DEFINE n == Min({c.rbytes, Wanted})
           e == Got(n)
           rb == c.rbytes - n
<1>1. c \in ConnType /\ running' = TRUE /\ c' = [e EXCEPT !.rbytes = @ - n] /\ taken' = taken + n
      /\ WantsData /\ LeftoversDo
  BY ConnHasType DEF DataFromBuffer, Continue
<1>2. Wanted \in 1 .. 2 /\ c.rbytes \in Nat /\ c.rbytes > 0 /\ taken \in Nat /\ arrived \in Nat /\ taken + c.rbytes <= arrived
  BY <1>1, WantedIs, UnitAt DEF LeftoversDo
<1>3. n \in {c.rbytes, Wanted} /\ n <= c.rbytes /\ n <= Wanted
  <2>1. Wanted \in Nat
    BY <1>2
  <2> QED BY <1>2, <2>1, MinIs
<1> HIDE DEF n
<1>4. n \in 1 .. 2 /\ n \in Nat /\ n \in 0 .. 2 /\ rb \in Nat /\ taken' + rb <= arrived
  BY <1>1, <1>2, <1>3
<1>5. /\ e \in ConnType /\ e.state = c.state /\ e.write_and_go = c.write_and_go /\ e.ev_flags = c.ev_flags
      /\ e.rbytes = c.rbytes
      /\ \/ c.state = "conn_nread" /\ e.rlbytes = c.rlbytes - n /\ e.sbytes = c.sbytes
         \/ c.state = "conn_swallow" /\ e.sbytes = c.sbytes - n /\ e.rlbytes = c.rlbytes
      /\ SameMode(e, c) /\ SameCount(e, c) /\ SameOut(e, c) /\ SameHeld(e, c)
  BY <1>1, <1>3, <1>4, GotDoes
<1> HIDE DEF e
<1>6. c' = [e EXCEPT !.rbytes = rb]
  BY <1>1, <1>5
<1> HIDE DEF rb
<1>7. /\ c' \in ConnType /\ c'.state = e.state /\ c'.write_and_go = e.write_and_go /\ c'.ev_flags = e.ev_flags
      /\ c'.rbytes = rb /\ c'.rlbytes = e.rlbytes /\ c'.sbytes = e.sbytes
      /\ SameMode(c', e) /\ SameCount(c', e) /\ SameOut(c', e) /\ SameHeld(c', e)
  BY <1>4, <1>5, <1>6 DEF ConnType, SameMode, SameCount, SameOut, SameHeld
<1>8. Advanced(c', n)
  BY <1>1, <1>3, <1>4, <1>5, <1>7 DEF Advanced, SameMode, SameCount, SameOut, SameHeld
<1> QED BY <1>1, <1>4, <1>5, <1>7, <1>8

\* The connection after all that is in the buffer, and n units of the socket.
LEMMA CopiedAdvances ==
  ASSUME TypeOK, WantsData, ~LeftoversDo, NEW n \in Nat, c.rbytes + n <= Wanted, n <= InSocket,
         taken' = taken + c.rbytes + n
  PROVE  LET e == Copied(n) IN
         /\ e \in ConnType /\ e.state = c.state /\ e.ev_flags = c.ev_flags
         /\ e.rbytes = 0 /\ Advanced(e, c.rbytes + n)
<1> DEFINE e == Copied(n)
<1>1. /\ e \in ConnType /\ e.state = c.state /\ e.write_and_go = c.write_and_go /\ e.ev_flags = c.ev_flags
      /\ e.rbytes = 0
      /\ \/ c.state = "conn_nread" /\ e.rlbytes = c.rlbytes - (c.rbytes + n) /\ e.sbytes = c.sbytes
         \/ c.state = "conn_swallow" /\ e.sbytes = c.sbytes - (c.rbytes + n) /\ e.rlbytes = c.rlbytes
      /\ SameMode(e, c) /\ SameCount(e, c) /\ SameOut(e, c) /\ SameHeld(e, c)
  BY ConnHasType, CopiedDoes
<1> HIDE DEF e
<1>2. Wanted \in 1 .. 2 /\ c.rbytes \in Nat /\ taken \in Nat /\ arrived \in Nat /\ taken + c.rbytes <= arrived
  BY WantedIs, UnitAt
<1>3. c.rbytes + n \in 0 .. 2 /\ taken' = taken + (c.rbytes + n) /\ taken' + 0 <= arrived
  BY <1>2 DEF InSocket
<1> QED BY <1>1, <1>3 DEF Advanced, e

\* What the buffer has is less than what is wanted.
LEMMA LeftoversFew ==
  ASSUME TypeOK, WantsData, ~LeftoversDo
  PROVE  c.rbytes < Wanted /\ c.rbytes \in Nat /\ InSocket \in Nat
<1>1. Wanted \in 1 .. 2 /\ c.rbytes \in Nat /\ taken \in Nat /\ arrived \in Nat /\ taken + c.rbytes <= arrived
  BY WantedIs, UnitAt
<1> QED BY <1>1 DEF LeftoversDo, InSocket

LEMMA DataFromSocketDoes ==
  ASSUME TypeOK, DataFromSocket
  PROVE  /\ c' \in ConnType /\ running' = TRUE /\ c'.state = c.state /\ c'.ev_flags = c.ev_flags
         /\ \E n \in 1 .. 2 : Advanced(c', n)
<1>1. PICK n \in 1 .. Min({InSocket, Wanted - c.rbytes}) :
        c' = Copied(n) /\ running' = TRUE /\ taken' = taken + c.rbytes + n
  BY DEF DataFromSocket, Continue, ReadOn
<1>2. WantsData /\ ~LeftoversDo
  BY DEF DataFromSocket
<1>3. Wanted \in 1 .. 2 /\ c.rbytes < Wanted /\ c.rbytes \in Nat /\ InSocket \in Nat /\ Wanted - c.rbytes \in Nat
  <2>1. Wanted \in 1 .. 2 /\ c.rbytes < Wanted /\ c.rbytes \in Nat /\ InSocket \in Nat
    BY <1>2, LeftoversFew, WantedIs
  <2> QED BY <2>1
<1>4. n \in Nat \ {0} /\ n <= InSocket /\ n <= Wanted - c.rbytes
  <2> DEFINE a == InSocket
             b == Wanted - c.rbytes
  <2> HIDE DEF a, b
  <2>1. Min({a, b}) \in {a, b} /\ Min({a, b}) <= a /\ Min({a, b}) <= b /\ a \in Nat /\ b \in Nat
    BY <1>3, MinIs DEF a, b
  <2>2. n \in 1 .. Min({a, b})
    BY <1>1 DEF a, b
  <2>3. n \in Nat \ {0} /\ n <= a /\ n <= b
    BY <2>1, <2>2
  <2> QED BY <2>3 DEF a, b
<1>5. c.rbytes + n <= Wanted /\ c.rbytes + n \in 1 .. 2
  BY <1>3, <1>4
<1> QED BY <1>1, <1>2, <1>4, <1>5, CopiedAdvances

LEMMA DataEofDoes ==
  ASSUME TypeOK, DataEof
  PROVE  /\ c' \in ConnType /\ running' = TRUE /\ c'.state = "conn_closing" /\ c'.ev_flags = c.ev_flags
         /\ c'.rbytes = 0 /\ \E n \in 0 .. 2 : Advanced(c', n)
<1> DEFINE zero == 0
           e == Copied(zero)
           m == c.rbytes + zero
<1>1. c' = Go(e, "conn_closing") /\ running' = TRUE /\ taken' = taken + c.rbytes + zero /\ WantsData /\ ~LeftoversDo
  BY DEF DataEof, Continue, ReadOn
<1>2. zero \in Nat /\ zero <= InSocket /\ m <= Wanted
  BY <1>1, LeftoversFew, WantedIs
<1> HIDE DEF zero
<1>3. e \in ConnType /\ e.state = c.state /\ e.ev_flags = c.ev_flags /\ e.rbytes = 0 /\ Advanced(e, m)
  BY <1>1, <1>2, CopiedAdvances
<1> HIDE DEF e
<1>4. /\ c' \in ConnType /\ c'.state = "conn_closing" /\ c'.write_and_go = e.write_and_go /\ c'.ev_flags = e.ev_flags
      /\ SameMode(c', e) /\ SameCount(c', e) /\ SameData(c', e) /\ SameOut(c', e) /\ SameHeld(c', e)
  BY <1>1, <1>3, GoDoes DEF States
<1> HIDE DEF m
<1>5. m \in 0 .. 2 /\ Advanced(c', m)
  BY <1>3, <1>4 DEF Advanced, SameMode, SameCount, SameData, SameOut, SameHeld
<1> QED BY <1>1, <1>3, <1>4, <1>5 DEF SameData

LEMMA DataWouldBlockDoes ==
  ASSUME TypeOK, DataWouldBlock
  PROVE  /\ c' \in ConnType /\ running' \in BOOLEAN
         /\ \/ ~running' /\ c'.state = c.state
            \/ running' /\ c'.state = "conn_closing"
         /\ c'.rbytes = 0 /\ \E n \in 0 .. 2 : Advanced(c', n)
<1> DEFINE zero == 0
           e == Copied(zero)
           m == c.rbytes + zero
<1>1. StopWaiting(e, "read") /\ taken' = taken + c.rbytes + zero /\ WantsData /\ ~LeftoversDo
  BY DEF DataWouldBlock, ReadOn
<1>2. zero \in Nat /\ zero <= InSocket /\ m <= Wanted
  BY <1>1, LeftoversFew, WantedIs
<1> HIDE DEF zero
<1>3. e \in ConnType /\ e.state = c.state /\ e.ev_flags = c.ev_flags /\ e.rbytes = 0 /\ Advanced(e, m)
  BY <1>1, <1>2, CopiedAdvances
<1> HIDE DEF e
<1>4. /\ c' \in ConnType /\ running' \in BOOLEAN
      /\ \/ ~running' /\ c'.state = e.state
         \/ running' /\ c'.state = "conn_closing"
      /\ c'.write_and_go = e.write_and_go
      /\ SameMode(c', e) /\ SameCount(c', e) /\ SameData(c', e) /\ SameOut(c', e) /\ SameHeld(c', e)
  BY <1>1, <1>3, StopWaitingDoes
<1> HIDE DEF m
<1>5. m \in 0 .. 2 /\ Advanced(c', m)
  BY <1>3, <1>4 DEF Advanced, SameMode, SameCount, SameData, SameOut, SameHeld
<1> QED BY <1>3, <1>4, <1>5 DEF SameData

LEMMA ToSendType == ASSUME TypeOK PROVE ToSend \in Seq(Replies) /\ Len(ToSend) \in Nat
BY ConnHasType DEF ToSend, ConnType

\* The first n replies are sent, and what follows them is left.
LEMMA CutFacts ==
  ASSUME NEW S, NEW s \in Seq(S), NEW n \in 1 .. Len(s)
  PROVE  /\ SubSeq(s, 1, n) \in Seq(S) /\ Len(SubSeq(s, 1, n)) = n
         /\ \A i \in 1 .. n : SubSeq(s, 1, n)[i] = s[i]
         /\ SubSeq(s, n + 1, Len(s)) \in Seq(S) /\ Len(SubSeq(s, n + 1, Len(s))) = Len(s) - n
         /\ \A i \in 1 .. Len(s) - n : SubSeq(s, n + 1, Len(s))[i] = s[n + i]
OBVIOUS

LEMMA TransmitDoes ==
  ASSUME TypeOK, Transmit
  PROVE  /\ c' \in ConnType /\ running' = TRUE /\ c'.state = c.state
         /\ c'.write_and_go = c.write_and_go /\ c'.ev_flags = c.ev_flags
         /\ \E n \in 1 .. Len(ToSend) :
              /\ n <= Room /\ written' = written \o SubSeq(ToSend, 1, n)
              /\ c'.msgs = SubSeq(ToSend, n + 1, Len(ToSend))
         /\ c'.iovused /\ c'.wbuf = c.wbuf
         /\ SameMode(c', c) /\ SameCount(c', c) /\ SameData(c', c) /\ SameHeld(c', c)
<1>1. PICK n \in 1 .. Min({Room, Len(ToSend)}) :
        /\ written' = written \o SubSeq(ToSend, 1, n)
        /\ c' = Built(SubSeq(ToSend, n + 1, Len(ToSend))) /\ running' = TRUE
  BY DEF Transmit, Continue
<1>2. n \in 1 .. Len(ToSend) /\ n <= Room
  <2> DEFINE a == Room
             b == Len(ToSend)
  <2>1. a \in Nat /\ b \in Nat
    BY ToSendType, UnitAt DEF TypeOK, Room
  <2> HIDE DEF a, b
  <2>2. Min({a, b}) \in {a, b} /\ Min({a, b}) <= a /\ Min({a, b}) <= b
    BY <2>1, MinIs
  <2>3. n \in 1 .. Min({a, b})
    BY <1>1 DEF a, b
  <2>4. n \in 1 .. b /\ n <= a
    BY <2>1, <2>2, <2>3
  <2> QED BY <2>4 DEF a, b
<1> DEFINE left == SubSeq(ToSend, n + 1, Len(ToSend))
<1>3. left \in Seq(Replies)
  BY <1>2, ToSendType, CutFacts
<1> HIDE DEF left
<1>4. c' = Built(left) /\ c \in ConnType
  BY <1>1, ConnHasType DEF left
<1>5. /\ c' \in ConnType /\ c'.state = c.state /\ c'.write_and_go = c.write_and_go /\ c'.ev_flags = c.ev_flags
      /\ c'.msgs = left /\ c'.iovused /\ c'.wbuf = c.wbuf
      /\ SameMode(c', c) /\ SameCount(c', c) /\ SameData(c', c) /\ SameHeld(c', c)
  BY <1>3, <1>4, BuiltDoes
<1> QED BY <1>1, <1>2, <1>5 DEF left

LEMMA TransmitWouldBlockDoes ==
  ASSUME TypeOK, TransmitWouldBlock
  PROVE  /\ c' \in ConnType /\ running' \in BOOLEAN
         /\ \/ ~running' /\ c'.state = c.state /\ c'.ev_flags = "write"
            \/ running' /\ c'.state = "conn_closing"
         /\ c'.write_and_go = c.write_and_go
         /\ c'.msgs = ToSend /\ c'.iovused /\ c'.wbuf = c.wbuf
         /\ SameMode(c', c) /\ SameCount(c', c) /\ SameData(c', c) /\ SameHeld(c', c)
<1> DEFINE e == Built(ToSend)
<1>1. StopWaiting(e, "write")
  BY DEF TransmitWouldBlock
<1>2. /\ e \in ConnType /\ e.state = c.state /\ e.write_and_go = c.write_and_go
      /\ e.msgs = ToSend /\ e.iovused /\ e.wbuf = c.wbuf
      /\ SameMode(e, c) /\ SameCount(e, c) /\ SameData(e, c) /\ SameHeld(e, c)
  BY ConnHasType, ToSendType, BuiltDoes
<1> HIDE DEF e
<1>3. /\ c' \in ConnType /\ running' \in BOOLEAN
      /\ \/ ~running' /\ c'.state = e.state /\ c'.ev_flags = "write"
         \/ running' /\ c'.state = "conn_closing"
      /\ c'.write_and_go = e.write_and_go
      /\ SameMode(c', e) /\ SameCount(c', e) /\ SameData(c', e) /\ SameOut(c', e) /\ SameHeld(c', e)
  BY <1>1, <1>2, StopWaitingDoes
<1> QED BY <1>2, <1>3 DEF SameMode, SameCount, SameData, SameOut, SameHeld

LEMMA TransmitFailsDoes ==
  ASSUME TypeOK, TransmitFails
  PROVE  /\ c' \in ConnType /\ running' = TRUE /\ c'.state = "conn_closing"
         /\ c'.write_and_go = c.write_and_go
         /\ c'.msgs = ToSend /\ c'.wbuf = c.wbuf
         /\ SameMode(c', c) /\ SameCount(c', c) /\ SameData(c', c) /\ SameHeld(c', c)
<1> DEFINE e == Built(ToSend)
<1>1. c' = Go(e, "conn_closing") /\ running' = TRUE
  BY DEF TransmitFails, Continue
<1>2. /\ e \in ConnType /\ e.write_and_go = c.write_and_go
      /\ e.msgs = ToSend /\ e.wbuf = c.wbuf
      /\ SameMode(e, c) /\ SameCount(e, c) /\ SameData(e, c) /\ SameHeld(e, c)
  BY ConnHasType, ToSendType, BuiltDoes
<1> HIDE DEF e
<1> QED BY <1>1, <1>2, GoDoes DEF States, SameMode, SameCount, SameData, SameOut, SameHeld

LEMMA TransmittedDoes ==
  ASSUME TypeOK, Transmitted
  PROVE  /\ c' \in ConnType /\ running' = TRUE
         /\ \/ /\ c.state = "conn_mwrite" /\ c'.ileft = 0
               /\ c'.state = (IF c.protocol = "binary" THEN c.write_and_go ELSE "conn_new_cmd")
            \/ c.state = "conn_write" /\ c'.state = c.write_and_go /\ c'.ileft = c.ileft
         /\ c'.item = c.item /\ c'.write_and_go = c.write_and_go /\ c'.ev_flags = c.ev_flags
         /\ SameMode(c', c) /\ SameCount(c', c) /\ SameData(c', c) /\ SameOut(c', c)
<1> DEFINE st == IF c.protocol = "binary" THEN c.write_and_go ELSE "conn_new_cmd"
           e == Go(c, st)
           zero == 0
<1>1. c \in ConnType /\ running' = TRUE /\ (c.state = "conn_mwrite" \/ c.state = "conn_write")
  BY ConnHasType DEF Transmitted, Continue, Writing, At
<1>2. st \in States /\ c.write_and_go \in States /\ zero \in 0 .. 1
  BY <1>1 DEF ConnType, States
<1>3. /\ c.state = "conn_mwrite" => c' = [e EXCEPT !.ileft = zero]
      /\ c.state = "conn_write" => c' = Go(c, c.write_and_go)
  BY DEF Transmitted, Continue
<1>4. CASE c.state = "conn_mwrite"
  <2> HIDE DEF st, zero
  <2>1. /\ e \in ConnType /\ e.state = st /\ e.write_and_go = c.write_and_go /\ e.ev_flags = c.ev_flags
        /\ SameMode(e, c) /\ SameCount(e, c) /\ SameData(e, c) /\ SameOut(e, c) /\ SameHeld(e, c)
    BY <1>1, <1>2, GoDoes
  <2>2. c' = [e EXCEPT !.ileft = zero]
    BY <1>3, <1>4
  <2> HIDE DEF e
  <2>3. /\ c' \in ConnType /\ c'.state = e.state /\ c'.write_and_go = e.write_and_go /\ c'.ev_flags = e.ev_flags
        /\ c'.ileft = zero /\ c'.item = e.item
        /\ SameMode(c', e) /\ SameCount(c', e) /\ SameData(c', e) /\ SameOut(c', e)
    BY <1>2, <2>1, <2>2 DEF ConnType, SameMode, SameCount, SameData, SameOut
  <2> QED BY <1>1, <1>4, <2>1, <2>3 DEF st, zero, SameMode, SameCount, SameData, SameOut, SameHeld
<1>5. CASE c.state = "conn_write"
  <2>1. c' = Go(c, c.write_and_go)
    BY <1>3, <1>5
  <2> QED BY <1>1, <1>2, <1>5, <2>1, GoDoes DEF SameHeld
<1> QED BY <1>1, <1>4, <1>5

LEMMA CloseDoes ==
  ASSUME TypeOK, Close
  PROVE  /\ c' \in ConnType /\ running' = FALSE /\ c'.state = "closed"
         /\ c'.write_and_go = c.write_and_go /\ ~c'.item /\ c'.ileft = 0
         /\ SameMode(c', c) /\ SameCount(c', c) /\ SameData(c', c) /\ SameOut(c', c)
<1> DEFINE e == Go(c, "closed")
           zero == 0
           f == "none"
<1>1. c' = [e EXCEPT !.ev_flags = f, !.item = FALSE, !.ileft = zero] /\ running' = FALSE
  BY DEF Close, Stop
<1>2. /\ e \in ConnType /\ e.state = "closed" /\ e.write_and_go = c.write_and_go
      /\ SameMode(e, c) /\ SameCount(e, c) /\ SameData(e, c) /\ SameOut(e, c) /\ SameHeld(e, c)
  BY ConnHasType, GoDoes DEF States
<1>3. zero \in 0 .. 1 /\ f \in {"read", "write", "none"}
  OBVIOUS
<1> HIDE DEF e, zero, f
<1>4. /\ c' \in ConnType /\ c'.state = e.state /\ c'.write_and_go = e.write_and_go
      /\ ~c'.item /\ c'.ileft = zero
      /\ SameMode(c', e) /\ SameCount(c', e) /\ SameData(c', e) /\ SameOut(c', e)
  BY <1>1, <1>2, <1>3 DEF ConnType, SameMode, SameCount, SameData, SameOut
<1> QED BY <1>1, <1>2, <1>4 DEF zero, SameMode, SameCount, SameData, SameOut

\* The event loop calls event_handler, with or without reason.
LEMMA EventDoes ==
  ASSUME TypeOK, Event \/ FalseAlarm
  PROVE  /\ c' \in ConnType /\ running' = TRUE /\ c'.state = c.state
         /\ c'.write_and_go = c.write_and_go /\ c'.ev_flags = c.ev_flags
         /\ c'.nreqs = ReqsPerEvent /\ c'.done = 0
         /\ SameMode(c', c) /\ SameData(c', c) /\ SameOut(c', c) /\ SameHeld(c', c)
<1> DEFINE zero == 0
           n == ReqsPerEvent
<1>1. c' = [c EXCEPT !.nreqs = n, !.done = zero] /\ running' = TRUE /\ c \in ConnType
  BY ConnHasType DEF Event, FalseAlarm, Continue
<1>2. zero \in Nat /\ n \in 0 .. ReqsPerEvent
  OBVIOUS
<1> HIDE DEF zero, n
<1>3. /\ c' \in ConnType /\ c'.state = c.state
      /\ c'.write_and_go = c.write_and_go /\ c'.ev_flags = c.ev_flags
      /\ c'.nreqs = n /\ c'.done = zero
      /\ SameMode(c', c) /\ SameData(c', c) /\ SameOut(c', c) /\ SameHeld(c', c)
  BY <1>1, <1>2 DEF ConnType, SameMode, SameData, SameOut, SameHeld
<1> QED BY <1>1, <1>3 DEF zero, n

-------------------------------------------------------------------------------
(* Items, counts and lines *)

\* Types, the shape of the stream, and what needs no look at its requests.
Base == TypeOK /\ Whole /\ Holds /\ Counts /\ Looked

LEMMA ConnFields ==
  ASSUME TypeOK
  PROVE  /\ c.rbytes \in Nat /\ c.nreqs \in 0 .. ReqsPerEvent /\ c.done \in Nat
         /\ c.item \in BOOLEAN /\ c.noreply \in BOOLEAN /\ c.rlbytes \in 0 .. 2 /\ c.sbytes \in 0 .. 2
         /\ ReqsPerEvent \in Nat
BY ConnHasType DEF ConnType

LEMMA KeptType ==
  ASSUME TypeOK, Whole, Keep, c' \in ConnType, running' \in BOOLEAN, taken + c'.rbytes <= arrived
  PROVE  TypeOK' /\ Whole'
BY DEF Keep, TypeOK, ConnType, Room, Whole, OneProtocol, WholeRequests, Successive, Ordered, Numbered

LEMMA TookType ==
  ASSUME TypeOK, Whole, HasHead, UNCHANGED <<stream, arrived, hungup, written, seen>>, c' \in ConnType, Took(c')
  PROVE  TypeOK' /\ Whole' /\ taken' > 0
<1>1. taken' \in Nat /\ taken' > 0 /\ taken' + c'.rbytes <= arrived /\ running' \in BOOLEAN
  BY HeadIs, UnitAt DEF Took
<1> QED BY <1>1 DEF TypeOK, ConnType, Room, Whole, OneProtocol, WholeRequests, Successive, Ordered, Numbered

\* What the buffer begins with changes with the bytes alone.
LEMMA SameHead ==
  ASSUME stream' = stream, taken' = taken, c'.rbytes = c.rbytes, c'.protocol \in {c.protocol, Protocol}
  PROVE  HasHead' <=> HasHead
<1>1. Start' = Start
  BY DEF Start
<1>2. Protocol' = Protocol
  BY <1>1 DEF Protocol
<1>3. LineEnds' = LineEnds
  BY DEF LineEnds, EndsLine
<1> QED BY <1>2, <1>3 DEF HasHead

LEMMA DataType ==
  ASSUME TypeOK, Whole, NEW n \in 0 .. 2, Advanced(c', n), c' \in ConnType, running' \in BOOLEAN,
         UNCHANGED <<stream, arrived, hungup, written, seen>>
  PROVE  TypeOK' /\ Whole' /\ taken' \in Nat /\ taken' >= taken
<1>1. taken' \in Nat /\ taken' >= taken /\ taken' + c'.rbytes <= arrived
  BY UnitAt DEF Advanced
<1> QED BY <1>1 DEF TypeOK, ConnType, Room, Whole, OneProtocol, WholeRequests, Successive, Ordered, Numbered

LEMMA TransmitType ==
  ASSUME TypeOK, Whole, Transmit
  PROVE  TypeOK' /\ Whole'
<1>1. PICK n \in 1 .. Len(ToSend) : n <= Room /\ written' = written \o SubSeq(ToSend, 1, n)
  BY TransmitDoes
<1> DEFINE w == SubSeq(ToSend, 1, n)
<1>2. w \in Seq(Replies) /\ Len(w) = n
  BY ToSendType, CutFacts
<1> HIDE DEF w
<1>3. written \in Seq(Replies) /\ seen \in 0 .. Len(written) /\ n \in Nat /\ n <= Window - (Len(written) - seen)
      /\ Window \in Nat
  <2>1. n \in Nat
    BY ToSendType
  <2>2. n <= Window - (Len(written) - seen)
    BY <1>1 DEF Room
  <2>3. written \in Seq(Replies) /\ seen \in 0 .. Len(written)
    BY DEF TypeOK
  <2> QED BY <2>1, <2>2, <2>3
<1>4. written' = written \o w
  BY <1>1 DEF w
<1>5. written' \in Seq(Replies) /\ Len(written) \in Nat /\ Len(written') = Len(written) + n
  BY <1>2, <1>3, <1>4, ConcatFacts
<1>6. UNCHANGED <<stream, arrived, hungup, seen, taken>> /\ c' \in ConnType /\ running' = TRUE /\ c'.rbytes = c.rbytes
  BY TransmitDoes DEF Transmit, SameData
<1>7. seen' \in 0 .. Len(written') /\ Room' >= 0
  BY <1>3, <1>5, <1>6 DEF Room
<1> QED BY <1>5, <1>6, <1>7 DEF TypeOK, ConnType, Whole, OneProtocol, WholeRequests, Successive, Ordered, Numbered

LEMMA DriveKeepsBase ==
  ASSUME Base, Drive
  PROVE  Base'
<1>1. TypeOK /\ Whole /\ Holds /\ Counts /\ Looked
  BY DEF Base
<1>2. CASE Waiting
  <2>1. At("conn_waiting") /\ Keep
    BY <1>1, <1>2 DEF Waiting
  <2>2. TypeOK' /\ Whole'
    BY <1>1, <1>2, <2>1, WaitingDoes, KeptType, UnitAt DEF SameData
  <2>3. c.rbytes > 0 => ~HasHead'
    BY <1>1, <1>2, <2>1, WaitingDoes, SameHead DEF Looked, SameData, SameMode, At, Keep
  <2> QED BY <1>1, <1>2, <2>1, <2>2, <2>3, WaitingDoes, ConnFields DEF Base, Holds, Counts, Looked, At, Keep, SameMode, SameCount, SameData, SameOut, SameHeld
<1>3. CASE ReadData
  <2>1. At("conn_read") /\ Keep
    BY <1>1, <1>3 DEF ReadData
  <2>2. TypeOK' /\ Whole'
    BY <1>1, <1>3, <2>1, ReadDataDoes, KeptType, UnitAt DEF SameData
  <2> QED BY <1>1, <1>3, <2>1, <2>2, ReadDataDoes, ConnFields DEF Base, Holds, Counts, Looked, At, Keep, SameMode, SameCount, SameData, SameOut, SameHeld
<1>4. CASE ReadNothing
  <2>1. At("conn_read") /\ Keep /\ Continue(Go(c, "conn_waiting"))
    BY <1>1, <1>4 DEF ReadNothing
  <2>2. c' \in ConnType /\ running' = TRUE /\ c'.state \in States /\ SameHeld(c', c) /\ SameData(c', c) /\ SameMode(c', c) /\ SameCount(c', c) /\ c'.write_and_go = c.write_and_go /\ c'.state = "conn_waiting"
    BY <1>1, <2>1, GoesDoes DEF States
  <2>3. TypeOK' /\ Whole'
    BY <1>1, <1>4, <2>1, <2>2, KeptType, UnitAt DEF SameData
  <2>4. c.rbytes > 0 => ~HasHead'
    BY <1>1, <1>4, <2>1, <2>2, SameHead DEF Looked, SameData, SameMode, At, Keep
  <2> QED BY <1>1, <1>4, <2>1, <2>3, <2>4, <2>2, ConnFields DEF Base, Holds, Counts, Looked, At, Keep, SameMode, SameCount, SameData, SameOut, SameHeld
<1>5. CASE ReadEof
  <2>1. At("conn_read") /\ Keep /\ Continue(Go(c, "conn_closing"))
    BY <1>1, <1>5 DEF ReadEof
  <2>2. c' \in ConnType /\ running' = TRUE /\ c'.state \in States /\ SameHeld(c', c) /\ SameData(c', c) /\ SameMode(c', c) /\ SameCount(c', c) /\ c'.write_and_go = c.write_and_go /\ c'.state = "conn_closing"
    BY <1>1, <2>1, GoesDoes DEF States
  <2>3. TypeOK' /\ Whole'
    BY <1>1, <1>5, <2>1, <2>2, KeptType, UnitAt DEF SameData
  <2> QED BY <1>1, <1>5, <2>1, <2>3, <2>2, ConnFields DEF Base, Holds, Counts, Looked, At, Keep, SameMode, SameCount, SameData, SameOut, SameHeld
<1>6. CASE NeedMore
  <2>1. At("conn_parse_cmd") /\ Keep /\ ~HasHead
    BY <1>1, <1>6 DEF NeedMore
  <2>2. TypeOK' /\ Whole'
    BY <1>1, <1>6, <2>1, NeedMoreDoes, KeptType, UnitAt DEF SameData
  <2>3. c.rbytes > 0 => ~HasHead'
    BY <1>1, <1>6, <2>1, NeedMoreDoes, SameHead DEF Looked, SameData, SameMode, At, Keep
  <2> QED BY <1>1, <1>6, <2>1, <2>2, <2>3, NeedMoreDoes, ConnFields DEF Base, Holds, Counts, Looked, At, Keep, SameMode, SameCount, SameData, SameOut, SameHeld
<1>7. CASE ProcessGet
  <2>1. At("conn_parse_cmd") /\ HasHead /\ UNCHANGED <<stream, arrived, hungup, written, seen>>
    BY <1>1, <1>7 DEF ProcessGet, AtRequest, Processed
  <2>2. TypeOK' /\ Whole' /\ taken' > 0
    BY <1>1, <1>7, <2>1, ProcessGetDoes, HeadIs, TookType DEF Took
  <2> QED BY <1>1, <1>7, <2>1, <2>2, ProcessGetDoes, ConnFields DEF Base, Holds, Counts, Looked, At, Keep, Took, Answered1, SameMode, SameCount, SameData, SameOut, SameHeld
<1>8. CASE ProcessShort
  <2>1. At("conn_parse_cmd") /\ HasHead /\ UNCHANGED <<stream, arrived, hungup, written, seen>>
    BY <1>1, <1>8 DEF ProcessShort, AtRequest, Processed
  <2>2. TypeOK' /\ Whole' /\ taken' > 0
    BY <1>1, <1>8, <2>1, ProcessShortDoes, HeadIs, TookType DEF Took
  <2> QED BY <1>1, <1>8, <2>1, <2>2, ProcessShortDoes, ConnFields DEF Base, Holds, Counts, Looked, At, Keep, Took, Answered1, SameMode, SameCount, SameData, SameOut, SameHeld
<1>9. CASE ProcessUpdate
  <2>1. At("conn_parse_cmd") /\ HasHead /\ UNCHANGED <<stream, arrived, hungup, written, seen>>
    BY <1>1, <1>9 DEF ProcessUpdate, AtRequest, Processed
  <2>2. TypeOK' /\ Whole' /\ taken' > 0
    BY <1>1, <1>9, <2>1, ProcessUpdateDoes, HeadIs, TookType DEF Took
  <2> QED BY <1>1, <1>9, <2>1, <2>2, ProcessUpdateDoes, ConnFields DEF Base, Holds, Counts, Looked, At, Keep, Took, Answered1, SameMode, SameCount, SameData, SameOut, SameHeld
<1>10. CASE ProcessUpdateFails
  <2>1. At("conn_parse_cmd") /\ HasHead /\ UNCHANGED <<stream, arrived, hungup, written, seen>>
    BY <1>1, <1>10 DEF ProcessUpdateFails, AtRequest, Processed
  <2>2. TypeOK' /\ Whole' /\ taken' > 0
    BY <1>1, <1>10, <2>1, ProcessUpdateFailsDoes, HeadIs, TookType DEF Took
  <2> QED BY <1>1, <1>10, <2>1, <2>2, ProcessUpdateFailsDoes, ConnFields DEF Base, Holds, Counts, Looked, At, Keep, Took, Answered1, SameMode, SameCount, SameData, SameOut, SameHeld
<1>11. CASE ProcessQuit
  <2>1. At("conn_parse_cmd") /\ HasHead /\ UNCHANGED <<stream, arrived, hungup, written, seen>>
    BY <1>1, <1>11 DEF ProcessQuit, AtRequest, Processed
  <2>2. TypeOK' /\ Whole' /\ taken' > 0
    BY <1>1, <1>11, <2>1, ProcessQuitDoes, HeadIs, TookType DEF Took
  <2> QED BY <1>1, <1>11, <2>1, <2>2, ProcessQuitDoes, ConnFields DEF Base, Holds, Counts, Looked, At, Keep, Took, Answered1, SameMode, SameCount, SameData, SameOut, SameHeld
<1>12. CASE ProcessUnknown
  <2>1. At("conn_parse_cmd") /\ HasHead /\ UNCHANGED <<stream, arrived, hungup, written, seen>>
    BY <1>1, <1>12 DEF ProcessUnknown, Processed
  <2>2. TypeOK' /\ Whole' /\ taken' > 0
    BY <1>1, <1>12, <2>1, ProcessUnknownDoes, HeadIs, TookType DEF Took
  <2> QED BY <1>1, <1>12, <2>1, <2>2, ProcessUnknownDoes, ConnFields DEF Base, Holds, Counts, Looked, At, Keep, Took, Answered1, SameMode, SameCount, SameData, SameOut, SameHeld
<1>13. CASE BinNoop
  <2>1. At("conn_parse_cmd") /\ HasHead /\ UNCHANGED <<stream, arrived, hungup, written, seen>>
    BY <1>1, <1>13 DEF BinNoop, AtRequest, Processed
  <2>2. TypeOK' /\ Whole' /\ taken' > 0
    BY <1>1, <1>13, <2>1, BinNoopDoes, HeadIs, TookType DEF Took
  <2> QED BY <1>1, <1>13, <2>1, <2>2, BinNoopDoes, ConnFields DEF Base, Holds, Counts, Looked, At, Keep, Took, Answered1, SameMode, SameCount, SameData, SameOut, SameHeld
<1>14. CASE BinQuit
  <2>1. At("conn_parse_cmd") /\ HasHead /\ UNCHANGED <<stream, arrived, hungup, written, seen>>
    BY <1>1, <1>14 DEF BinQuit, AtRequest, Processed
  <2>2. TypeOK' /\ Whole' /\ taken' > 0
    BY <1>1, <1>14, <2>1, BinQuitDoes, HeadIs, TookType DEF Took
  <2> QED BY <1>1, <1>14, <2>1, <2>2, BinQuitDoes, ConnFields DEF Base, Holds, Counts, Looked, At, Keep, Took, Answered1, SameMode, SameCount, SameData, SameOut, SameHeld
<1>15. CASE BinReadKey
  <2>1. At("conn_parse_cmd") /\ HasHead /\ UNCHANGED <<stream, arrived, hungup, written, seen>>
    BY <1>1, <1>15 DEF BinReadKey, AtRequest, Processed
  <2>2. TypeOK' /\ Whole' /\ taken' > 0
    BY <1>1, <1>15, <2>1, BinReadKeyDoes, HeadIs, TookType DEF Took
  <2> QED BY <1>1, <1>15, <2>1, <2>2, BinReadKeyDoes, ConnFields DEF Base, Holds, Counts, Looked, At, Keep, Took, Answered1, SameMode, SameCount, SameData, SameOut, SameHeld
<1>16. CASE BinUnknown
  <2>1. At("conn_parse_cmd") /\ HasHead /\ UNCHANGED <<stream, arrived, hungup, written, seen>>
    BY <1>1, <1>16 DEF BinUnknown, AtRequest, Processed
  <2>2. TypeOK' /\ Whole' /\ taken' > 0
    BY <1>1, <1>16, <2>1, BinUnknownDoes, HeadIs, TookType DEF Took
  <2> QED BY <1>1, <1>16, <2>1, <2>2, BinUnknownDoes, ConnFields DEF Base, Holds, Counts, Looked, At, Keep, Took, Answered1, SameMode, SameCount, SameData, SameOut, SameHeld
<1>17. CASE BinBad
  <2>1. At("conn_parse_cmd") /\ HasHead /\ UNCHANGED <<stream, arrived, hungup, written, seen>>
    BY <1>1, <1>17 DEF BinBad, AtRequest, Processed
  <2>2. TypeOK' /\ Whole' /\ taken' > 0
    BY <1>1, <1>17, <2>1, BinBadDoes, HeadIs, TookType DEF Took
  <2> QED BY <1>1, <1>17, <2>1, <2>2, BinBadDoes, ConnFields DEF Base, Holds, Counts, Looked, At, Keep, Took, Answered1, SameMode, SameCount, SameData, SameOut, SameHeld
<1>18. CASE BinMagic
  <2>1. At("conn_parse_cmd") /\ Keep /\ Continue(Go(c, "conn_closing"))
    BY <1>1, <1>18 DEF BinMagic
  <2>2. c' \in ConnType /\ running' = TRUE /\ c'.state \in States /\ SameHeld(c', c) /\ SameData(c', c) /\ SameMode(c', c) /\ SameCount(c', c) /\ c'.write_and_go = c.write_and_go /\ c'.state = "conn_closing"
    BY <1>1, <2>1, GoesDoes DEF States
  <2>3. TypeOK' /\ Whole'
    BY <1>1, <1>18, <2>1, <2>2, KeptType, UnitAt DEF SameData
  <2> QED BY <1>1, <1>18, <2>1, <2>3, <2>2, ConnFields DEF Base, Holds, Counts, Looked, At, Keep, SameMode, SameCount, SameData, SameOut, SameHeld
<1>19. CASE BinGet
  <2>1. At("conn_nread") /\ Keep
    BY <1>1, <1>19 DEF BinGet, KeyRead
  <2>2. taken > 0
    BY <1>1, <2>1 DEF Holds, At
  <2>3. TypeOK' /\ Whole'
    BY <1>1, <1>19, <2>1, <2>2, BinGetDoes, KeptType, UnitAt DEF SameData
  <2> QED BY <1>1, <1>19, <2>1, <2>2, <2>3, BinGetDoes, ConnFields DEF Base, Holds, Counts, Looked, At, Keep, SameMode, SameCount, SameData, SameOut, SameHeld
<1>20. CASE BinKeyed
  <2>1. At("conn_nread") /\ Keep
    BY <1>1, <1>20 DEF BinKeyed, KeyRead
  <2>2. taken > 0
    BY <1>1, <2>1 DEF Holds, At
  <2>3. TypeOK' /\ Whole'
    BY <1>1, <1>20, <2>1, <2>2, BinKeyedDoes, KeptType, UnitAt DEF SameData
  <2> QED BY <1>1, <1>20, <2>1, <2>2, <2>3, BinKeyedDoes, ConnFields DEF Base, Holds, Counts, Looked, At, Keep, SameMode, SameCount, SameData, SameOut, SameHeld
<1>21. CASE BinUpdate
  <2>1. At("conn_nread") /\ Keep
    BY <1>1, <1>21 DEF BinUpdate, KeyRead
  <2>2. taken > 0
    BY <1>1, <2>1 DEF Holds, At
  <2>3. TypeOK' /\ Whole'
    BY <1>1, <1>21, <2>1, <2>2, BinUpdateDoes, KeptType, UnitAt DEF SameData
  <2> QED BY <1>1, <1>21, <2>1, <2>2, <2>3, BinUpdateDoes, ConnFields DEF Base, Holds, Counts, Looked, At, Keep, SameMode, SameCount, SameData, SameOut, SameHeld
<1>22. CASE BinStore
  <2>1. At("conn_nread") /\ Keep
    BY <1>1, <1>22 DEF BinStore
  <2>2. taken > 0
    BY <1>1, <2>1 DEF Holds, At
  <2>3. TypeOK' /\ Whole'
    BY <1>1, <1>22, <2>1, <2>2, BinStoreDoes, KeptType, UnitAt DEF SameData
  <2> QED BY <1>1, <1>22, <2>1, <2>2, <2>3, BinStoreDoes, ConnFields DEF Base, Holds, Counts, Looked, At, Keep, SameMode, SameCount, SameData, SameOut, SameHeld
<1>23. CASE NextRequest
  <2>1. At("conn_new_cmd") /\ Keep /\ c.nreqs > 0
    BY <1>1, <1>23 DEF NextRequest
  <2>2. TypeOK' /\ Whole'
    BY <1>1, <1>23, <2>1, NextRequestDoes, KeptType, UnitAt DEF SameData
  <2> QED BY <1>1, <1>23, <2>1, <2>2, NextRequestDoes, ConnFields DEF Base, Holds, Counts, Looked, At, Keep, SameMode, SameCount, SameData, SameOut, SameHeld
<1>24. CASE Yield
  <2>1. At("conn_new_cmd") /\ Keep
    BY <1>1, <1>24 DEF Yield
  <2>2. TypeOK' /\ Whole'
    BY <1>1, <1>24, <2>1, YieldDoes, KeptType, UnitAt DEF SameData
  <2> QED BY <1>1, <1>24, <2>1, <2>2, YieldDoes, ConnFields DEF Base, Holds, Counts, Looked, At, Keep, SameMode, SameCount, SameData, SameOut, SameHeld
<1>25. CASE NreadDone
  <2>1. At("conn_nread") /\ Keep
    BY <1>1, <1>25 DEF NreadDone
  <2>2. taken > 0
    BY <1>1, <2>1 DEF Holds, At
  <2>3. TypeOK' /\ Whole'
    BY <1>1, <1>25, <2>1, <2>2, NreadDoneDoes, KeptType, UnitAt DEF SameData
  <2> QED BY <1>1, <1>25, <2>1, <2>2, <2>3, NreadDoneDoes, ConnFields DEF Base, Holds, Counts, Looked, At, Keep, SameMode, SameCount, SameData, SameOut, SameHeld
<1>26. CASE SwallowDone
  <2>1. At("conn_swallow") /\ Keep /\ Continue(Go(c, "conn_new_cmd"))
    BY <1>1, <1>26 DEF SwallowDone
  <2>2. c' \in ConnType /\ running' = TRUE /\ c'.state \in States /\ SameHeld(c', c) /\ SameData(c', c) /\ SameMode(c', c) /\ SameCount(c', c) /\ c'.write_and_go = c.write_and_go /\ c'.state = "conn_new_cmd"
    BY <1>1, <2>1, GoesDoes DEF States
  <2>3. TypeOK' /\ Whole'
    BY <1>1, <1>26, <2>1, <2>2, KeptType, UnitAt DEF SameData
  <2> QED BY <1>1, <1>26, <2>1, <2>3, <2>2, ConnFields DEF Base, Holds, Counts, Looked, At, Keep, SameMode, SameCount, SameData, SameOut, SameHeld
<1>27. CASE TransmitWouldBlock
  <2>1. Writing /\ Keep
    BY <1>1, <1>27 DEF TransmitWouldBlock
  <2>2. TypeOK' /\ Whole'
    BY <1>1, <1>27, <2>1, TransmitWouldBlockDoes, KeptType, UnitAt DEF SameData
  <2> QED BY <1>1, <1>27, <2>1, <2>2, TransmitWouldBlockDoes, ConnFields DEF Base, Holds, Counts, Looked, At, Keep, Writing, SameMode, SameCount, SameData, SameOut, SameHeld
<1>28. CASE TransmitFails
  <2>1. Writing /\ Keep
    BY <1>1, <1>28 DEF TransmitFails
  <2>2. TypeOK' /\ Whole'
    BY <1>1, <1>28, <2>1, TransmitFailsDoes, KeptType, UnitAt DEF SameData
  <2> QED BY <1>1, <1>28, <2>1, <2>2, TransmitFailsDoes, ConnFields DEF Base, Holds, Counts, Looked, At, Keep, Writing, SameMode, SameCount, SameData, SameOut, SameHeld
<1>29. CASE Transmitted
  <2>1. Writing /\ Keep
    BY <1>1, <1>29 DEF Transmitted
  <2>2. TypeOK' /\ Whole'
    BY <1>1, <1>29, <2>1, TransmittedDoes, KeptType, UnitAt DEF SameData
  <2> QED BY <1>1, <1>29, <2>1, <2>2, TransmittedDoes, ConnFields DEF Base, Holds, Counts, Looked, At, Keep, Writing, SameMode, SameCount, SameData, SameOut, SameHeld
<1>30. CASE Close
  <2>1. At("conn_closing") /\ Keep
    BY <1>1, <1>30 DEF Close
  <2>2. TypeOK' /\ Whole'
    BY <1>1, <1>30, <2>1, CloseDoes, KeptType, UnitAt DEF SameData
  <2> QED BY <1>1, <1>30, <2>1, <2>2, CloseDoes, ConnFields DEF Base, Holds, Counts, Looked, At, Keep, SameMode, SameCount, SameData, SameOut, SameHeld
<1>31. CASE DataFromBuffer
  <2>1. WantsData /\ running' = TRUE /\ UNCHANGED <<stream, arrived, hungup, written, seen>>
    BY <1>1, <1>31, DataFromBufferDoes DEF DataFromBuffer
  <2>2. PICK n \in 0 .. 2 : Advanced(c', n) /\ c' \in ConnType /\ c'.state = c.state
    BY <1>1, <1>31, DataFromBufferDoes
  <2>3. TypeOK' /\ Whole' /\ taken' \in Nat /\ taken' >= taken /\ taken \in Nat
    BY <1>1, <2>1, <2>2, DataType, UnitAt
  <2> QED BY <1>1, <2>1, <2>2, <2>3, ConnFields DEF Base, Holds, Counts, Looked, At, WantsData, Advanced, SameCount, SameHeld
<1>32. CASE DataFromSocket
  <2>1. WantsData /\ running' = TRUE /\ UNCHANGED <<stream, arrived, hungup, written, seen>>
    BY <1>1, <1>32, DataFromSocketDoes DEF DataFromSocket, ReadOn
  <2>2. PICK n \in 0 .. 2 : Advanced(c', n) /\ c' \in ConnType /\ c'.state = c.state
    BY <1>1, <1>32, DataFromSocketDoes
  <2>3. TypeOK' /\ Whole' /\ taken' \in Nat /\ taken' >= taken /\ taken \in Nat
    BY <1>1, <2>1, <2>2, DataType, UnitAt
  <2> QED BY <1>1, <2>1, <2>2, <2>3, ConnFields DEF Base, Holds, Counts, Looked, At, WantsData, Advanced, SameCount, SameHeld
<1>33. CASE DataEof
  <2>1. WantsData /\ running' = TRUE /\ UNCHANGED <<stream, arrived, hungup, written, seen>>
    BY <1>1, <1>33, DataEofDoes DEF DataEof, ReadOn
  <2>2. PICK n \in 0 .. 2 : Advanced(c', n) /\ c' \in ConnType /\ c'.state = "conn_closing"
    BY <1>1, <1>33, DataEofDoes
  <2>3. TypeOK' /\ Whole' /\ taken' \in Nat /\ taken' >= taken /\ taken \in Nat
    BY <1>1, <2>1, <2>2, DataType, UnitAt
  <2> QED BY <1>1, <2>1, <2>2, <2>3, ConnFields DEF Base, Holds, Counts, Looked, At, WantsData, Advanced, SameCount, SameHeld
<1>34. CASE DataWouldBlock
  <2>1. WantsData /\ running' \in BOOLEAN /\ UNCHANGED <<stream, arrived, hungup, written, seen>>
    BY <1>1, <1>34, DataWouldBlockDoes DEF DataWouldBlock, ReadOn
  <2>2. PICK n \in 0 .. 2 : Advanced(c', n)
    BY <1>1, <1>34, DataWouldBlockDoes
  <2>3. c' \in ConnType /\ c'.rbytes = 0 /\ ((~running' /\ c'.state = c.state) \/ (running' /\ c'.state = "conn_closing"))
    BY <1>1, <1>34, DataWouldBlockDoes
  <2>4. TypeOK' /\ Whole' /\ taken' \in Nat /\ taken' >= taken /\ taken \in Nat
    BY <1>1, <2>1, <2>2, <2>3, DataType, UnitAt
  <2> QED BY <1>1, <2>1, <2>2, <2>3, <2>4, ConnFields DEF Base, Holds, Counts, Looked, At, WantsData, Advanced, SameCount, SameHeld
<1>35. CASE Transmit
  <2>1. Writing /\ taken' = taken
    BY <1>1, <1>35 DEF Transmit
  <2>2. /\ c' \in ConnType /\ running' = TRUE /\ c'.state = c.state /\ c'.write_and_go = c.write_and_go
        /\ SameCount(c', c) /\ SameHeld(c', c)
    BY <1>1, <1>35, TransmitDoes
  <2>3. TypeOK' /\ Whole'
    BY <1>1, <1>35, TransmitType
  <2> QED BY <1>1, <2>1, <2>2, <2>3, ConnFields DEF Base, Holds, Counts, Looked, At, Writing, SameCount, SameHeld
<1> QED BY <1>2, <1>3, <1>4, <1>5, <1>6, <1>7, <1>8, <1>9, <1>10, <1>11, <1>12, <1>13, <1>14, <1>15, <1>16, <1>17, <1>18, <1>19, <1>20, <1>21, <1>22, <1>23, <1>24, <1>25, <1>26, <1>27, <1>28, <1>29, <1>30, <1>31, <1>32, <1>33, <1>34, <1>35 DEF Drive

LEMMA InitBase == Init => Base
<1>1. SUFFICES ASSUME Init PROVE Base
  OBVIOUS
<1>2. stream = <<>> /\ written = <<>> /\ arrived = 0 /\ seen = 0 /\ taken = 0 /\ hungup = FALSE /\ running = FALSE
  BY <1>1 DEF Init
<1>3. /\ c.protocol = "negotiating" /\ c.state = "conn_new_cmd" /\ c.substate = "none" /\ c.write_and_go = "conn_new_cmd"
      /\ c.ev_flags = "read" /\ c.nreqs = 0 /\ c.done = 0 /\ c.noreply = FALSE
      /\ c.rbytes = 0 /\ c.rlbytes = 0 /\ c.sbytes = 0 /\ ~c.item /\ c.ileft = 0
      /\ c \in ConnType
  BY <1>1 DEF Init, ConnType, States
<1>4. Len(stream) = 0 /\ Len(written) = 0 /\ stream \in Seq([req : 1 .. MaxRequests, kind : Kinds, part : 1 .. 4])
      /\ written \in Seq(Replies)
  BY <1>2
<1>5. TypeOK
  <2>1. Window \in Nat /\ MaxUnits \in Nat
    OBVIOUS
  <2>2. Room = Window
    BY <1>2, <1>4, <2>1 DEF Room
  <2>3. arrived \in 0 .. Len(stream) /\ taken \in Nat /\ taken + c.rbytes <= arrived /\ seen \in 0 .. Len(written)
    BY <1>2, <1>3, <1>4
  <2>4. Len(stream) <= MaxUnits /\ Room >= 0
    BY <1>4, <2>1, <2>2
  <2>5. hungup \in BOOLEAN /\ running \in BOOLEAN
    BY <1>2
  <2>6. c \in ConnType
    BY <1>3
  <2> QED BY <1>4, <2>3, <2>4, <2>5, <2>6 DEF TypeOK, ConnType
<1>6. Whole
  BY <1>2, <1>4 DEF Whole, OneProtocol, WholeRequests, Successive, Ordered, Numbered
<1> QED BY <1>2, <1>3, <1>5, <1>6 DEF Base, Holds, Counts, Looked

\* The units of a request are put behind what the client has sent.
LEMMA RequestDoes ==
  ASSUME TypeOK, Whole, NEW kind \in Kinds, Request(kind)
  PROVE  LET k == Parts(kind) IN
         /\ k \in 2 .. 4 /\ arrived = Len(stream)
         /\ stream' \in Seq([req : 1 .. MaxRequests, kind : Kinds, part : 1 .. 4])
         /\ Len(stream') = Len(stream) + k /\ Len(stream') <= MaxUnits
         /\ \A p \in 1 .. Len(stream) : stream'[p] = stream[p]
         /\ \A p \in 1 .. k :
              /\ stream'[Len(stream) + p].req = Requests + 1
              /\ stream'[Len(stream) + p].kind = kind /\ stream'[Len(stream) + p].part = p
         /\ Requests = IF stream = <<>> THEN 0 ELSE stream[Len(stream)].req
         /\ IF stream = <<>> THEN kind # "magic" ELSE kind \in BinaryKinds <=> stream[1].kind \in BinaryKinds
<1> DEFINE Unit == [req : 1 .. MaxRequests, kind : Kinds, part : 1 .. 4]
           k == Parts(kind)
           n == Requests + 1
           new == [p \in 1 .. k |-> [req |-> n, kind |-> kind, part |-> p]]
<1>1. k \in 2 .. 4 /\ stream \in Seq(Unit) /\ stream' = stream \o new /\ arrived = Len(stream) /\ Len(stream) + k <= MaxUnits
      /\ Requests < MaxRequests
      /\ IF stream = <<>> THEN kind # "magic" ELSE kind \in BinaryKinds <=> stream[1].kind \in BinaryKinds
  BY PartsIs DEF Request, TypeOK
<1>2. Requests = IF stream = <<>> THEN 0 ELSE stream[Len(stream)].req
  BY DEF Requests, Last
<1>3. Requests \in Nat
  <2>1. stream = <<>> \/ Len(stream) \in 1 .. Len(stream)
    BY <1>1
  <2> QED BY <1>2, <2>1, UnitAt
<1> HIDE DEF k
<1>4. n \in 1 .. MaxRequests
  BY <1>1, <1>3
<1> HIDE DEF n
<1>5. new \in Seq(Unit) /\ Len(new) = k /\ \A p \in 1 .. k : new[p].req = n /\ new[p].kind = kind /\ new[p].part = p
  BY <1>1, <1>4
<1> HIDE DEF new, Unit
<1>6. /\ stream' \in Seq(Unit) /\ Len(stream) \in Nat /\ Len(stream') = Len(stream) + k
      /\ \A p \in 1 .. Len(stream) : stream'[p] = stream[p]
      /\ \A p \in 1 .. k : stream'[Len(stream) + p] = new[p]
  BY <1>1, <1>5, ConcatFacts
<1> QED BY <1>1, <1>2, <1>5, <1>6 DEF k, n, Unit

LEMMA RequestKeepsWhole ==
  ASSUME TypeOK, Whole, NEW kind \in Kinds, Request(kind)
  PROVE  Whole'
<1> DEFINE k == Parts(kind)
           L == Len(stream)
           n == Requests + 1
<1>1. /\ k \in 2 .. 4 /\ L \in Nat /\ Len(stream') = L + k
      /\ \A p \in 1 .. L : stream'[p] = stream[p]
      /\ \A p \in 1 .. k : stream'[L + p].req = n /\ stream'[L + p].kind = kind /\ stream'[L + p].part = p
  BY RequestDoes, UnitAt
<1>2. IF stream = <<>> THEN kind # "magic" ELSE kind \in BinaryKinds <=> stream[1].kind \in BinaryKinds
  BY RequestDoes
<1>3. /\ stream = <<>> <=> L = 0
      /\ L = 0 => n = 1
      /\ L > 0 => n = stream[L].req + 1 /\ stream[L].req \in Nat
  <2>1. stream \in Seq([req : 1 .. MaxRequests, kind : Kinds, part : 1 .. 4])
    BY DEF TypeOK
  <2>2. stream = <<>> <=> L = 0
    BY <2>1
  <2>3. Requests = IF stream = <<>> THEN 0 ELSE stream[Len(stream)].req
    BY RequestDoes
  <2>4. L > 0 => stream[L].req \in Nat
    BY <1>1, UnitAt
  <2> QED BY <1>1, <2>2, <2>3, <2>4
<1>4. OneProtocol /\ WholeRequests /\ Successive /\ Ordered /\ Numbered
  BY DEF Whole
<1>5. Parts(kind) = k /\ stream' # <<>>
  BY <1>1
<1> HIDE DEF k, n
<1>6. ASSUME NEW p \in 1 .. L + k PROVE \/ p \in 1 .. L /\ stream'[p] = stream[p]
                                        \/ p > L /\ stream'[p].req = n /\ stream'[p].kind = kind /\ stream'[p].part = p - L
  <2>1. CASE p \in 1 .. L
    BY <1>1, <2>1
  <2>2. CASE p > L
    <3>1. p - L \in 1 .. k /\ L + (p - L) = p
      BY <1>1, <2>2
    <3> QED BY <1>1, <2>2, <3>1
  <2> QED BY <1>1, <2>1, <2>2
<1> DEFINE S == stream'
           T == stream
<1>7. \A p \in 1 .. L + k : \/ p \in 1 .. L /\ S[p] = T[p]
                            \/ p > L /\ S[p].req = n /\ S[p].kind = kind /\ S[p].part = p - L
  BY <1>6
<1>8. L > 0 => T[L].part = Parts(T[L].kind) /\ T[1].part = 1 /\ L \in 1 .. L /\ 1 \in 1 .. L
  BY <1>1, <1>3, <1>4 DEF WholeRequests
<1>9. 1 \in 1 .. L + k /\ L + k \in 1 .. L + k
  BY <1>1
<1>10. OneProtocol'
  <2>1. L = 0 => S[1].kind = kind
    BY <1>1, <1>7, <1>9
  <2>2. L > 0 => S[1] = T[1] /\ T[1].kind # "magic" /\ (kind \in BinaryKinds <=> T[1].kind \in BinaryKinds)
    BY <1>1, <1>2, <1>3, <1>4, <1>8, <1>9 DEF OneProtocol
  <2>3. S[1].kind # "magic"
    BY <1>1, <1>2, <1>3, <2>1, <2>2
  <2>4. ASSUME NEW p \in 1 .. L + k PROVE S[p].kind \in BinaryKinds <=> S[1].kind \in BinaryKinds
    <3>1. CASE p \in 1 .. L /\ S[p] = T[p]
      BY <1>1, <1>4, <2>2, <3>1 DEF OneProtocol
    <3>2. CASE p > L /\ S[p].kind = kind
      BY <1>1, <2>1, <2>2, <3>2
    <3> QED BY <1>7, <3>1, <3>2
  <2> QED BY <1>1, <2>3, <2>4 DEF OneProtocol
<1>11. WholeRequests'
  <2>1. S[1].part = 1
    <3>1. CASE L = 0
      BY <1>1, <1>7, <1>9, <3>1
    <3>2. CASE L > 0
      BY <1>1, <1>8, <3>2
    <3> QED BY <1>1, <3>1, <3>2
  <2>2. S[L + k].part = k /\ S[L + k].kind = kind
    <3>1. k \in 1 .. k
      BY <1>1
    <3> QED BY <1>1, <3>1
  <2>3. ASSUME NEW p \in 1 .. L + k PROVE S[p].part <= Parts(S[p].kind)
    <3>1. CASE p \in 1 .. L /\ S[p] = T[p]
      BY <1>4, <3>1 DEF WholeRequests
    <3>2. CASE p > L /\ S[p].kind = kind /\ S[p].part = p - L
      <4>1. S[p].part <= k
        BY <1>1, <3>2
      <4> QED BY <1>5, <3>2, <4>1
    <3> QED BY <1>7, <3>1, <3>2
  <2> QED BY <1>1, <1>5, <2>1, <2>2, <2>3 DEF WholeRequests
<1>12. Successive'
  <2> DEFINE After(p) == \/ /\ S[p].part = Parts(S[p].kind)
                            /\ S[p + 1].part = 1 /\ S[p + 1].req = S[p].req + 1
                         \/ /\ S[p].part < Parts(S[p].kind)
                            /\ S[p + 1].part = S[p].part + 1
                            /\ S[p + 1].req = S[p].req /\ S[p + 1].kind = S[p].kind
  <2>1. Successive' <=> \A p \in 1 .. Len(S) - 1 : After(p)
    BY DEF Successive
  <2> HIDE DEF After
  <2>2. SUFFICES ASSUME NEW p \in 1 .. L + k - 1 PROVE After(p)
    BY <1>1, <2>1
  <2>3. p \in 1 .. L + k /\ p + 1 \in 1 .. L + k
    BY <1>1
  <2>4. CASE p < L
    <3>1. p \in 1 .. L - 1 /\ S[p] = T[p] /\ S[p + 1] = T[p + 1]
      BY <1>1, <2>4
    <3> QED BY <1>4, <3>1 DEF Successive, After
  <2>5. CASE p = L
    <3>1. S[p] = T[L] /\ S[p + 1].req = n /\ S[p + 1].part = 1
      BY <1>1, <1>7, <2>3, <2>5
    <3>2. T[L].part = Parts(T[L].kind) /\ n = T[L].req + 1
      BY <1>3, <1>8, <2>5
    <3> QED BY <3>1, <3>2 DEF After
  <2>6. CASE p > L
    <3>1. S[p].req = n /\ S[p].kind = kind /\ S[p].part = p - L
      BY <1>1, <1>7, <2>3, <2>6
    <3>2. S[p + 1].req = n /\ S[p + 1].kind = kind /\ S[p + 1].part = (p + 1) - L
      BY <1>1, <1>7, <2>3, <2>6
    <3>3. S[p].part < k /\ S[p + 1].part = S[p].part + 1
      BY <1>1, <2>2, <3>1, <3>2
    <3> QED BY <1>5, <3>1, <3>2, <3>3 DEF After
  <2> QED BY <1>1, <2>4, <2>5, <2>6
<1>13. Ordered'
  <2>1. SUFFICES ASSUME NEW p \in 1 .. L + k, NEW q \in p .. L + k
                 PROVE  S[p].req <= S[q].req /\ (S[p].req = S[q].req => S[p].kind = S[q].kind)
    BY <1>1 DEF Ordered
  <2>2. q \in 1 .. L + k
    BY <1>1
  <2>3. CASE q \in 1 .. L
    <3>1. p \in 1 .. L /\ q \in p .. L /\ S[p] = T[p] /\ S[q] = T[q]
      BY <1>1, <2>3
    <3> QED BY <1>4, <3>1 DEF Ordered
  <2>4. CASE q > L /\ p \in 1 .. L
    <3>1. S[p] = T[p] /\ S[q].req = n
      BY <1>1, <1>7, <2>2, <2>4
    <3>2. T[p].req <= T[L].req /\ L \in p .. L
      BY <1>1, <1>4, <2>4 DEF Ordered
    <3>3. n = T[L].req + 1 /\ T[L].req \in Nat /\ T[p].req \in Nat
      BY <1>1, <1>3, <2>4, UnitAt
    <3> QED BY <3>1, <3>2, <3>3
  <2>5. CASE q > L /\ p > L
    <3>1. S[p].req = n /\ S[p].kind = kind /\ S[q].req = n /\ S[q].kind = kind /\ n \in Nat
      BY <1>1, <1>3, <1>7, <2>2, <2>5
    <3> QED BY <3>1
  <2> QED BY <1>1, <2>2, <2>3, <2>4, <2>5
<1>14. Numbered'
  <2>1. SUFFICES ASSUME NEW p \in 1 .. L + k, NEW j \in 1 .. S[p].req
                 PROVE  \E q \in 1 .. p : S[q].req = j
    BY <1>1 DEF Numbered
  <2>2. CASE p \in 1 .. L
    <3>1. S[p] = T[p]
      BY <1>1, <2>2
    <3>2. PICK q \in 1 .. p : T[q].req = j
      BY <1>4, <2>2, <3>1 DEF Numbered
    <3>3. q \in 1 .. L /\ S[q] = T[q]
      BY <1>1, <2>2, <3>2
    <3> QED BY <3>2, <3>3
  <2>3. CASE p > L
    <3>1. S[p].req = n
      BY <1>1, <1>7, <2>3
    <3>2. CASE j = n
      BY <3>1, <3>2, <1>1
    <3>3. CASE j # n
      <4>1. L > 0 /\ j \in 1 .. T[L].req
        BY <1>1, <1>3, <3>1, <3>3
      <4>2. PICK q \in 1 .. L : T[q].req = j
        BY <1>4, <1>8, <4>1 DEF Numbered
      <4> QED BY <1>1, <2>3, <4>2
    <3> QED BY <3>2, <3>3
  <2> QED BY <1>1, <2>2, <2>3
<1> QED BY <1>10, <1>11, <1>12, <1>13, <1>14 DEF Whole

\* A request that is appended changes nothing of the buffer.
LEMMA AppendedHead ==
  ASSUME TypeOK, Whole, NEW kind \in Kinds, Request(kind), c.rbytes > 0
  PROVE  HasHead' <=> HasHead
<1>1. taken \in Nat /\ c.rbytes \in Nat /\ Len(stream) \in Nat /\ taken + c.rbytes <= Len(stream)
  BY UnitAt
<1>2. \A p \in 1 .. Len(stream) : stream'[p] = stream[p]
  BY RequestDoes
<1>3. taken' = taken /\ c' = c
  BY DEF Request
<1>4. \A n \in 1 .. c.rbytes : taken + n \in 1 .. Len(stream)
  BY <1>1
<1>5. taken + 1 \in 1 .. Len(stream)
  BY <1>1
<1>6. Start' = Start
  BY <1>2, <1>3, <1>5 DEF Start
<1>7. LineEnds' = LineEnds
  BY <1>2, <1>3, <1>4 DEF LineEnds, EndsLine
<1> QED BY <1>3, <1>6, <1>7 DEF HasHead, Protocol

LEMMA NextKeepsBase == Base /\ [Next]_vars => Base'
<1>1. SUFFICES ASSUME Base, [Next]_vars PROVE Base'
  OBVIOUS
<1>2. TypeOK /\ Whole /\ Holds /\ Counts /\ Looked
  BY <1>1 DEF Base
<1>3. ASSUME NEW kind \in Kinds, Request(kind) PROVE Base'
  <2>1. UNCHANGED <<arrived, hungup, written, seen, taken, running, c>>
    BY <1>3 DEF Request
  <2>2. Whole'
    BY <1>2, <1>3, RequestKeepsWhole
  <2>3. stream' \in Seq([req : 1 .. MaxRequests, kind : Kinds, part : 1 .. 4]) /\ Len(stream') <= MaxUnits
        /\ Len(stream') >= Len(stream) /\ Len(stream') \in Nat /\ Len(stream) \in Nat
    <3> DEFINE k == Parts(kind)
    <3>1. /\ k \in 2 .. 4 /\ stream' \in Seq([req : 1 .. MaxRequests, kind : Kinds, part : 1 .. 4])
          /\ Len(stream') = Len(stream) + k /\ Len(stream') <= MaxUnits /\ Len(stream) \in Nat
      BY <1>2, <1>3, RequestDoes, UnitAt
    <3> HIDE DEF k
    <3> QED BY <3>1
  <2>4. TypeOK'
    BY <1>2, <2>1, <2>3 DEF TypeOK, Room
  <2>5. c.rbytes > 0 => (HasHead' <=> HasHead)
    BY <1>2, <1>3, AppendedHead
  <2> QED BY <1>2, <2>1, <2>2, <2>4, <2>5 DEF Base, Holds, Counts, Looked
<1>4. CASE Deliver \/ ReadReply \/ HangUp
  <2>1. UNCHANGED <<stream, taken, running, c>>
    BY <1>4 DEF Deliver, ReadReply, HangUp
  <2>2. TypeOK'
    <3>1. UNCHANGED <<stream, taken, running, c, written>>
      BY <1>4 DEF Deliver, ReadReply, HangUp
    <3>2. CASE Deliver
      <4>1. arrived' = arrived + 1 /\ arrived < Len(stream) /\ UNCHANGED <<hungup, seen>>
        BY <3>2 DEF Deliver
      <4>2. /\ Len(stream) \in Nat /\ arrived \in Nat /\ taken \in Nat /\ c.rbytes \in Nat
            /\ taken + c.rbytes <= arrived
        BY <1>2, UnitAt
      <4>3. arrived' \in 0 .. Len(stream) /\ taken + c.rbytes <= arrived'
        BY <4>1, <4>2
      <4> QED BY <1>2, <3>1, <4>1, <4>3 DEF TypeOK, Room
    <3>3. CASE ReadReply
      <4>1. seen \in Nat /\ seen' = seen + 1 /\ seen < Len(written) /\ Len(written) \in Nat /\ Window \in Nat
            /\ UNCHANGED <<arrived, hungup>>
        BY <1>2, <3>3 DEF ReadReply, TypeOK
      <4>2. seen' \in 0 .. Len(written) /\ Window - (Len(written) - seen') >= Window - (Len(written) - seen)
            /\ Window - (Len(written) - seen) \in Int /\ Window - (Len(written) - seen') \in Int
        BY <4>1
      <4>3. Room' >= 0
        BY <1>2, <3>1, <4>1, <4>2 DEF TypeOK, Room
      <4> QED BY <1>2, <3>1, <4>1, <4>2, <4>3 DEF TypeOK
    <3>4. CASE HangUp
      <4>1. hungup' \in BOOLEAN /\ UNCHANGED <<arrived, seen>>
        BY <3>4 DEF HangUp
      <4> QED BY <1>2, <3>1, <4>1 DEF TypeOK, Room
    <3> QED BY <1>4, <3>2, <3>3, <3>4
  <2>3. Whole'
    BY <1>2, <2>1 DEF Whole, OneProtocol, WholeRequests, Successive, Ordered, Numbered
  <2>4. HasHead' <=> HasHead
    BY <2>1, SameHead
  <2> QED BY <1>2, <2>1, <2>2, <2>3, <2>4 DEF Base, Holds, Counts, Looked
<1>5. CASE Event \/ FalseAlarm
  <2>1. Keep
    BY <1>5 DEF Event, FalseAlarm
  <2>2. /\ c' \in ConnType /\ running' = TRUE /\ c'.state = c.state
        /\ c'.write_and_go = c.write_and_go /\ c'.ev_flags = c.ev_flags
        /\ c'.nreqs = ReqsPerEvent /\ c'.done = 0
        /\ SameMode(c', c) /\ SameData(c', c) /\ SameOut(c', c) /\ SameHeld(c', c)
    BY <1>2, <1>5, EventDoes
  <2>3. TypeOK' /\ Whole'
    BY <1>2, <2>1, <2>2, KeptType, UnitAt DEF SameData
  <2>4. HasHead' <=> HasHead
    BY <2>1, <2>2, SameHead DEF Keep, SameMode, SameData
  <2> QED BY <1>2, <2>1, <2>2, <2>3, <2>4, ConnFields DEF Base, Holds, Counts, Looked, Keep, SameMode, SameData, SameOut, SameHeld
<1>6. CASE Drive
  BY <1>1, <1>6, DriveKeepsBase
<1>7. CASE UNCHANGED vars
  <2>1. TypeOK' /\ Whole'
    BY <1>2, <1>7 DEF vars, TypeOK, Room, Whole, OneProtocol, WholeRequests, Successive, Ordered, Numbered
  <2>2. HasHead' <=> HasHead
    BY <1>7, SameHead DEF vars
  <2> QED BY <1>2, <1>7, <2>1, <2>2 DEF vars, Base, Holds, Counts, Looked
<1> QED BY <1>1, <1>3, <1>4, <1>5, <1>6, <1>7 DEF Next

LEMMA AlwaysBase == Spec => []Base
BY InitBase, NextKeepsBase, PTL DEF Spec

-------------------------------------------------------------------------------
(* Types, items, counts and lines: the theorems *)

\* The types of the connection, for clients of any length: what the machine takes
\* and buffers is never more than has arrived, and what it writes never more than
\* the socket has room for (drive_machine, memcached.c).
THEOREM TypeCorrect == Spec => []TypeOK
<1>1. Base => TypeOK
  BY DEF Base
<1> QED BY <1>1, AlwaysBase, PTL

\* conn_mwrite, complete_nread and conn_close give back every item the connection
\* holds before it waits, reads or parses, whatever the client sends and whichever
\* allocations, writes and registrations fail.
THEOREM ItemsAlwaysGivenBack == Spec => []ItemsGivenBack
<1>1. Base => ItemsGivenBack
  <2>1. SUFFICES ASSUME Base, c.state \in {"conn_waiting", "conn_read", "conn_parse_cmd", "closed"}
                 PROVE  ~c.item /\ c.ileft = 0
    BY DEF ItemsGivenBack
  <2> QED BY <2>1 DEF Base, Holds
<1> QED BY <1>1, AlwaysBase, PTL

\* conn_new_cmd lets an event serve reqs_per_event requests and one more, however
\* much has been read.
THEOREM EventsAreShort == Spec => []EventIsShort
<1>1. Base => EventIsShort
  <2>1. SUFFICES ASSUME Base PROVE c.done <= ReqsPerEvent + 1
    BY DEF EventIsShort
  <2>2. c.done + c.nreqs <= ReqsPerEvent + 1 /\ c.done \in Nat /\ c.nreqs \in Nat /\ ReqsPerEvent \in Nat
    BY <2>1, ConnFields DEF Base, Counts
  <2> QED BY <2>2
<1> QED BY <1>1, AlwaysBase, PTL

\* A connection that is left to the event loop with a whole line or header in its
\* buffer waits to write: drive_machine's special case in conn_new_cmd.
THEOREM NoLineEverForgotten == Spec => []NoLineForgotten
<1>1. Base => NoLineForgotten
  <2>1. SUFFICES ASSUME Base, ~running, c.state \notin {"conn_closing", "closed"}, c.rbytes > 0, HasHead
                 PROVE  c.ev_flags = "write"
    BY DEF NoLineForgotten
  <2> QED BY <2>1 DEF Base, Looked
<1> QED BY <1>1, AlwaysBase, PTL

-------------------------------------------------------------------------------
(* Where the machine stands *)

\* Behind the last unit of a request comes the first one of the next.
LEMMA AtStart ==
  ASSUME TypeOK, Whole, Left = 0, taken < Len(stream)
  PROVE  stream[taken + 1].part = 1
<1>1. taken \in Nat /\ Len(stream) \in Nat
  BY UnitAt
<1>2. WholeRequests /\ Successive
  BY DEF Whole
<1>3. CASE taken = 0
  <2>1. stream # <<>>
    BY <1>1, <1>3
  <2> QED BY <1>2, <1>3, <2>1 DEF WholeRequests
<1>4. CASE taken > 0
  <2>1. taken \in 1 .. Len(stream) - 1 /\ taken \in 1 .. Len(stream)
    BY <1>1, <1>4
  <2>2. stream[taken].part \in 1 .. 4 /\ Parts(stream[taken].kind) \in 2 .. 4
    BY <2>1, UnitAt, PartsIs
  <2>3. stream[taken].part = Parts(stream[taken].kind)
    BY <1>4, <2>2 DEF Left
  <2>4. ~(stream[taken].part < Parts(stream[taken].kind))
    BY <2>2, <2>3
  <2> QED BY <1>2, <2>1, <2>4 DEF Successive
<1> QED BY <1>1, <1>3, <1>4

\* A request goes on with its next unit.
LEMMA Within ==
  ASSUME TypeOK, Whole, NEW p \in 1 .. Len(stream), stream[p].part < Parts(stream[p].kind)
  PROVE  /\ p + 1 \in 1 .. Len(stream) /\ stream[p + 1].part = stream[p].part + 1
         /\ stream[p + 1].req = stream[p].req /\ stream[p + 1].kind = stream[p].kind
<1>1. Len(stream) \in Nat /\ stream[p].part \in 1 .. 4 /\ Parts(stream[p].kind) \in 2 .. 4
  BY UnitAt, PartsIs
<1>2. WholeRequests /\ Successive
  BY DEF Whole
<1>3. p # Len(stream)
  <2>1. stream # <<>>
    BY <1>1
  <2> QED BY <1>1, <1>2, <2>1 DEF WholeRequests
<1>4. p \in 1 .. Len(stream) - 1 /\ p + 1 \in 1 .. Len(stream)
  BY <1>1, <1>3
<1>5. stream[p].part # Parts(stream[p].kind)
  BY <1>1
<1> QED BY <1>2, <1>4, <1>5 DEF Successive

\* The line or header of a request has been taken.
LEMMA HeadTaken ==
  ASSUME TypeOK, Whole, HasHead, Start.part = 1, taken' = taken + HeadLen, stream' = stream
  PROVE  /\ taken' = taken + 2 /\ taken' > 0 /\ taken' \in 1 .. Len(stream)
         /\ stream'[taken'].kind = Start.kind /\ stream'[taken'].req = Start.req
         /\ Left' = Parts(Start.kind) - 2
<1>1. taken \in Nat /\ Len(stream) \in Nat /\ c.rbytes \in Nat /\ taken + c.rbytes <= Len(stream)
  BY UnitAt
<1>2. HeadLen = 2 /\ HeadLen \in 1 .. c.rbytes
  BY HeadIs
<1>3. taken' = taken + 2 /\ taken' > 0 /\ taken + 1 \in 1 .. Len(stream) /\ (taken + 1) + 1 = taken'
  BY <1>1, <1>2
<1>4. Parts(Start.kind) \in 2 .. 4 /\ Start = stream[taken + 1]
  BY PartsIs DEF Start
<1>5. /\ taken' \in 1 .. Len(stream) /\ stream[taken'].part = 2
      /\ stream[taken'].req = Start.req /\ stream[taken'].kind = Start.kind
  <2> DEFINE p == taken + 1
  <2>1. p \in 1 .. Len(stream) /\ stream[p] = Start /\ p + 1 = taken'
    BY <1>3, <1>4
  <2> HIDE DEF p
  <2>2. stream[p].part < Parts(stream[p].kind)
    BY <1>4, <2>1
  <2> QED BY <2>1, <2>2, Within
<1>6. Left' = Parts(stream[taken'].kind) - stream[taken'].part
  BY <1>3 DEF Left
<1> QED BY <1>3, <1>5, <1>6

\* Some of what is left of the last request has been taken.
LEMMA DataTaken ==
  ASSUME TypeOK, Whole, taken > 0, NEW n \in 0 .. 2, n <= Left, taken' = taken + n, stream' = stream
  PROVE  /\ taken' > 0 /\ Left' = Left - n
         /\ stream'[taken'].kind = stream[taken].kind /\ stream'[taken'].req = stream[taken].req
<1>1. taken \in Nat /\ Len(stream) \in Nat /\ taken \in 1 .. Len(stream)
  BY UnitAt
<1>2. stream[taken].part \in 1 .. 4 /\ Parts(stream[taken].kind) \in 2 .. 4
  BY <1>1, UnitAt, PartsIs
<1>3. Left = Parts(stream[taken].kind) - stream[taken].part
  BY <1>1 DEF Left
<1>4. taken' > 0 /\ Left' = Parts(stream[taken'].kind) - stream[taken'].part
  BY <1>1 DEF Left
<1> DEFINE x == stream[taken].part
           y == Parts(stream[taken].kind)
           p == taken + 1
<1>5. x \in 1 .. 4 /\ y \in 2 .. 4 /\ Left = y - x
  BY <1>2, <1>3
<1>6. stream[taken].part = x /\ Parts(stream[taken].kind) = y /\ p = taken + 1
  OBVIOUS
<1> HIDE DEF x, y, p
<1>7. CASE n = 0
  <2>1. taken' = taken
    BY <1>1, <1>7
  <2> QED BY <1>3, <1>4, <1>5, <1>7, <2>1
<1>8. n > 0 => /\ p \in 1 .. Len(stream) /\ stream[p].part = x + 1
               /\ stream[p].req = stream[taken].req /\ stream[p].kind = stream[taken].kind
  <2>1. n > 0 => x < y
    BY <1>5
  <2>2. x < y => stream[taken].part < Parts(stream[taken].kind)
    BY <1>6
  <2>3. n > 0 => /\ taken + 1 \in 1 .. Len(stream) /\ stream[taken + 1].part = stream[taken].part + 1
                 /\ stream[taken + 1].req = stream[taken].req /\ stream[taken + 1].kind = stream[taken].kind
    BY <1>1, <2>1, <2>2, Within
  <2> QED BY <1>6, <2>3
<1>9. CASE n = 1
  <2>1. taken' = p
    BY <1>6, <1>9
  <2>2. stream[taken'].kind = stream[taken].kind /\ stream[taken'].req = stream[taken].req
        /\ stream[taken'].part = x + 1
    BY <1>8, <1>9, <2>1
  <2>3. Left' = y - (x + 1)
    BY <1>4, <1>6, <2>2
  <2> QED BY <1>4, <1>5, <1>9, <2>2, <2>3
<1>10. CASE n = 2
  <2>1. p \in 1 .. Len(stream) /\ stream[p].part = x + 1 /\ p + 1 = taken'
        /\ stream[p].req = stream[taken].req /\ stream[p].kind = stream[taken].kind
    BY <1>1, <1>6, <1>8, <1>10
  <2>2. Parts(stream[p].kind) = y
    BY <1>6, <2>1
  <2>3. x + 1 < y
    BY <1>5, <1>10
  <2>4. stream[p].part < Parts(stream[p].kind)
    BY <2>1, <2>2, <2>3
  <2>5. stream[taken'].part = stream[p].part + 1 /\ stream[taken'].req = stream[p].req /\ stream[taken'].kind = stream[p].kind
    BY <2>1, <2>4, Within
  <2>6. Parts(stream[taken'].kind) = y /\ stream[taken'].part = (x + 1) + 1
    BY <2>1, <2>2, <2>5
  <2>7. Left' = y - ((x + 1) + 1)
    BY <1>4, <2>6
  <2>8. Left' = Left - n
    BY <1>5, <1>10, <2>7
  <2> QED BY <1>4, <2>1, <2>5, <2>8
<1> QED BY <1>7, <1>9, <1>10

\* The protocol that is found is that of the first request, and of them all.
LEMMA ProtocolIs ==
  ASSUME TypeOK, Whole, Dialect, c.rbytes > 0
  PROVE  /\ Protocol \in {"ascii", "binary"} /\ stream # <<>>
         /\ Protocol = "binary" <=> stream[1].kind \in BinaryKinds
         /\ Protocol = "binary" <=> Start.kind \in BinaryKinds
         /\ c.protocol # "negotiating" => Protocol = c.protocol
<1>1. taken \in Nat /\ Len(stream) \in Nat /\ c.rbytes \in Nat /\ taken + c.rbytes <= Len(stream)
  BY UnitAt
<1>2. taken + 1 \in 1 .. Len(stream) /\ stream # <<>>
  BY <1>1
<1>3. stream[1].kind \in BinaryKinds <=> Start.kind \in BinaryKinds
  BY <1>2 DEF Whole, OneProtocol, Start
<1>4. c.protocol \in {"negotiating", "ascii", "binary"}
  BY ConnHasType DEF ConnType
<1>5. CASE c.protocol = "negotiating"
  BY <1>2, <1>3, <1>5 DEF Protocol
<1>6. CASE c.protocol # "negotiating"
  BY <1>2, <1>3, <1>4, <1>6 DEF Protocol, Dialect
<1> QED BY <1>5, <1>6

\* Once it is found, it is that of the last request taken.
LEMMA CurrentDialect ==
  ASSUME TypeOK, Whole, Dialect, taken > 0
  PROVE  c.protocol \in {"ascii", "binary"} /\ (c.protocol = "binary" <=> stream[taken].kind \in BinaryKinds)
<1>1. taken \in 1 .. Len(stream)
  BY UnitAt
<1>2. stream[1].kind \in BinaryKinds <=> stream[taken].kind \in BinaryKinds
  BY <1>1 DEF Whole, OneProtocol
<1>3. c.protocol \in {"negotiating", "ascii", "binary"} /\ c.protocol # "negotiating"
  BY ConnHasType DEF ConnType, Dialect
<1> QED BY <1>2, <1>3 DEF Dialect

\* A command is looked for at the start of a request only.
LEMMA ParsesAtStart ==
  ASSUME TypeOK, Whole, Place, Dialect, c.state = "conn_parse_cmd"
  PROVE  Start.part = 1 /\ c.rbytes > 0 /\ c.sbytes = 0 /\ c.substate = "none"
<1>1. Left = 0 /\ c.sbytes = 0 /\ c.rbytes > 0 /\ c.substate = "none"
  BY DEF Place, Dialect, Between
<1>2. taken < Len(stream)
  BY <1>1, UnitAt
<1> QED BY <1>1, <1>2, AtStart DEF Start

LEMMA SameLeft == ASSUME stream' = stream, taken' = taken PROVE Left' = Left
BY DEF Left

\* What is known of a request when its line or header has been taken.
LEMMA ParsedFacts ==
  ASSUME TypeOK, Whole, Dialect, Place, At("conn_parse_cmd"), HasHead, taken' = taken + HeadLen, stream' = stream
  PROVE  /\ Start.part = 1 /\ c.sbytes = 0 /\ c.substate = "none"
         /\ Protocol \in {"ascii", "binary"} /\ stream' # <<>>
         /\ Protocol = "binary" <=> stream'[1].kind \in BinaryKinds
         /\ Protocol = "binary" <=> Start.kind \in BinaryKinds
         /\ c.noreply => Protocol = "binary"
         /\ taken' > 0 /\ stream'[taken'].kind = Start.kind /\ Left' = Parts(Start.kind) - 2
<1>1. c.state = "conn_parse_cmd"
  BY DEF At
<1>2. Start.part = 1 /\ c.rbytes > 0 /\ c.sbytes = 0 /\ c.substate = "none"
  BY <1>1, ParsesAtStart
<1>3. taken' > 0 /\ stream'[taken'].kind = Start.kind /\ Left' = Parts(Start.kind) - 2
  BY <1>2, HeadTaken
<1>4. /\ Protocol \in {"ascii", "binary"} /\ stream' # <<>>
      /\ Protocol = "binary" <=> stream'[1].kind \in BinaryKinds
      /\ Protocol = "binary" <=> Start.kind \in BinaryKinds
      /\ c.protocol # "negotiating" => Protocol = c.protocol
  BY <1>2, ProtocolIs
<1>5. c.noreply => Protocol = "binary"
  BY <1>1, <1>4 DEF Dialect
<1> QED BY <1>2, <1>3, <1>4, <1>5

LEMMA ParsedDialect ==
  ASSUME TypeOK, Whole, Dialect, Place, At("conn_parse_cmd"), HasHead, Took(c'), stream' = stream,
         c'.state \notin {"conn_waiting", "conn_read", "conn_parse_cmd"},
         c'.noreply => Protocol = "binary" \/ c'.state \in {"conn_nread", "conn_closing"}
  PROVE  Dialect'
<1>1. taken' = taken + HeadLen /\ c'.protocol = Protocol
  BY DEF Took
<1>2. /\ Protocol \in {"ascii", "binary"} /\ stream' # <<>>
      /\ Protocol = "binary" <=> stream'[1].kind \in BinaryKinds
  BY <1>1, ParsedFacts
<1> QED BY <1>1, <1>2 DEF Dialect

\* A step that takes nothing of the stream and keeps the protocol.
LEMMA KeptDialect ==
  ASSUME Dialect, stream' = stream, taken' = taken \/ c.protocol # "negotiating", c'.protocol = c.protocol,
         c.protocol = "negotiating" => c'.state \in (Between \cup {"conn_closing", "closed"}),
         c'.noreply => \/ c.protocol = "binary"
                       \/ c.protocol = "ascii" /\ c'.state \in {"conn_nread", "conn_closing", "closed"},
         c'.state \in {"conn_waiting", "conn_read", "conn_parse_cmd"} => c'.substate = "none",
         c'.state = "conn_parse_cmd" => c'.rbytes > 0
  PROVE  Dialect'
BY DEF Dialect

\* What conn_nread and conn_swallow take is of the last request.
LEMMA DataOfRequest ==
  ASSUME TypeOK, Whole, Place, WantsData, stream' = stream, NEW n \in 0 .. 2, Advanced(c', n)
  PROVE  /\ taken > 0 /\ taken' > 0 /\ Left' = Left - n
         /\ stream'[taken'].kind = stream[taken].kind /\ stream'[taken'].req = stream[taken].req
<1>1. n <= Wanted /\ taken' = taken + n
  BY DEF Advanced
<1>2. Wanted \in 1 .. 2 /\ c.state \in {"conn_nread", "conn_swallow"}
  BY WantedIs DEF WantsData, At
<1>3. /\ c.state = "conn_nread" => Wanted = c.rlbytes
      /\ c.state = "conn_swallow" => Wanted = c.sbytes
  BY DEF Wanted
<1>4. n <= Left /\ taken > 0
  <2>1. CASE c.state = "conn_nread"
    <3>1. taken > 0
      BY <2>1 DEF Place
    <3>2. Left = c.rlbytes \/ Left = c.rlbytes + 1
      BY <2>1, ConnHasType DEF Place, ConnType
    <3> QED BY <1>1, <1>2, <1>3, <2>1, <3>1, <3>2
  <2>2. CASE c.state = "conn_swallow"
    <3>1. Left = c.sbytes
      BY <2>2 DEF Place
    <3>2. taken # 0
      BY <1>2, <1>3, <2>2, <3>1 DEF Left
    <3> QED BY <1>1, <1>2, <1>3, <2>2, <3>1, <3>2, UnitAt
  <2> QED BY <1>2, <2>1, <2>2
<1> QED BY <1>1, <1>4, DataTaken

LEMMA DataKeepsPlace ==
  ASSUME TypeOK, Whole, Holds, Dialect, Place, WantsData, stream' = stream,
         NEW n \in 0 .. 2, Advanced(c', n), c'.state \in {c.state, "conn_closing"}
  PROVE  Dialect' /\ Place'
<1>1. /\ taken' = taken + n
      /\ \/ c.state = "conn_nread" /\ c'.rlbytes = c.rlbytes - n /\ c'.sbytes = c.sbytes
         \/ c.state = "conn_swallow" /\ c'.sbytes = c.sbytes - n /\ c'.rlbytes = c.rlbytes
      /\ c'.write_and_go = c.write_and_go /\ SameMode(c', c)
  BY DEF Advanced
<1>2. taken > 0 /\ taken' > 0 /\ Left' = Left - n /\ stream'[taken'].kind = stream[taken].kind
  BY DataOfRequest
<1>3. c.protocol \in {"ascii", "binary"}
  BY <1>2, CurrentDialect
<1>4. Dialect'
  BY <1>1, <1>3, KeptDialect DEF Dialect, SameMode
<1>5. CASE c.state = "conn_nread"
  <2>1. taken > 0 /\ c.sbytes = 0 /\ c.substate \in {"none", "key", "value"}
    BY <1>5, ConnHasType DEF Place, ConnType
  <2> DEFINE k == IF stream[taken].kind \in SetKinds THEN 1 ELSE 0
  <2>2. k \in 0 .. 1 /\ k' = k /\ c.rlbytes \in 0 .. 2
    BY <1>2, ConnFields
  <2>3. /\ c.substate = "none" => stream[taken].kind \in {"set", "setq"} /\ Left = c.rlbytes
        /\ c.substate = "key" => stream[taken].kind \in KeyedKinds /\ Left = c.rlbytes + k
        /\ c.substate = "value" => stream[taken].kind \in {"bset", "bsetq"} /\ Left = c.rlbytes
    BY <1>5 DEF Place
  <2> HIDE DEF k
  <2>4. /\ c'.substate = "none" => stream'[taken'].kind \in {"set", "setq"} /\ Left' = c'.rlbytes
        /\ c'.substate = "key" => stream'[taken'].kind \in KeyedKinds /\ Left' = c'.rlbytes + k'
        /\ c'.substate = "value" => stream'[taken'].kind \in {"bset", "bsetq"} /\ Left' = c'.rlbytes
    BY <1>1, <1>2, <1>5, <2>1, <2>2, <2>3 DEF SameMode
  <2> USE DEF k
  <2>5. c'.sbytes = 0 /\ c'.state \in {"conn_nread", "conn_closing"}
    BY <1>1, <1>5, <2>1
  <2> QED BY <1>2, <1>4, <2>4, <2>5 DEF Place, Between
<1>6. CASE c.state = "conn_swallow"
  <2>1. Left = c.sbytes /\ c.sbytes \in 0 .. 2
    BY <1>6, ConnFields DEF Place
  <2>2. Left' = c'.sbytes /\ c'.state \in {"conn_swallow", "conn_closing"}
    BY <1>1, <1>2, <1>6, <2>1
  <2> QED BY <1>4, <2>2 DEF Place, Between
<1> QED BY <1>1, <1>5, <1>6

LEMMA DriveKeepsPlace ==
  ASSUME Base, Dialect, Place, Drive, "setq" \notin Failures
  PROVE  Dialect' /\ Place'
<1>1. TypeOK /\ Whole /\ Holds /\ Dialect /\ Place
  BY DEF Base
<1>2. CASE Waiting
  <2>1. At("conn_waiting") /\ Keep
    BY <1>2 DEF Waiting
  <2>2. Dialect'
    BY <1>1, <2>1, <1>2, WaitingDoes, KeptDialect, ConnFields DEF Dialect, Between, At, Keep, SameMode, SameCount, SameData, SameOut, SameHeld
  <2>3. Left' = Left
    BY <2>1, SameLeft DEF Keep
  <2> QED BY <1>1, <2>1, <1>2, WaitingDoes, <2>2, <2>3 DEF Place, Between, At, Keep, SameMode, SameCount, SameData, SameOut, SameHeld
<1>3. CASE ReadData
  <2>1. At("conn_read") /\ Keep
    BY <1>3 DEF ReadData
  <2>2. /\ c'.state = "conn_parse_cmd" /\ c'.rbytes > c.rbytes /\ c' \in ConnType
        /\ c'.rlbytes = c.rlbytes /\ c'.sbytes = c.sbytes /\ SameMode(c', c)
    BY <1>1, <1>3, ReadDataDoes
  <2>3. c'.rbytes > 0
    BY <1>1, <2>2, ConnFields DEF ConnType
  <2>4. Dialect'
    BY <1>1, <2>1, <2>2, <2>3, KeptDialect DEF Dialect, Between, At, Keep, SameMode
  <2>5. Left' = Left
    BY <2>1, SameLeft DEF Keep
  <2> QED BY <1>1, <2>1, <2>2, <2>4, <2>5 DEF Place, Between, At
<1>4. CASE ReadNothing
  <2>1. At("conn_read") /\ Keep /\ Continue(Go(c, "conn_waiting"))
    BY <1>4 DEF ReadNothing
  <2>2. c'.state = "conn_waiting" /\ SameMode(c', c) /\ SameData(c', c) /\ c'.write_and_go = c.write_and_go
    BY <1>1, <2>1, GoesDoes DEF States
  <2>3. Dialect'
    BY <1>1, <2>1, <2>2, KeptDialect, ConnFields DEF Dialect, Between, At, Keep, SameMode, SameCount, SameData, SameOut, SameHeld
  <2>4. Left' = Left
    BY <2>1, SameLeft DEF Keep
  <2> QED BY <1>1, <2>1, <2>2, <2>3, <2>4 DEF Place, Between, At, Keep, SameMode, SameCount, SameData, SameOut, SameHeld
<1>5. CASE ReadEof
  <2>1. At("conn_read") /\ Keep /\ Continue(Go(c, "conn_closing"))
    BY <1>5 DEF ReadEof
  <2>2. c'.state = "conn_closing" /\ SameMode(c', c) /\ SameData(c', c) /\ c'.write_and_go = c.write_and_go
    BY <1>1, <2>1, GoesDoes DEF States
  <2>3. Dialect'
    BY <1>1, <2>1, <2>2, KeptDialect, ConnFields DEF Dialect, Between, At, Keep, SameMode, SameCount, SameData, SameOut, SameHeld
  <2>4. Left' = Left
    BY <2>1, SameLeft DEF Keep
  <2> QED BY <1>1, <2>1, <2>2, <2>3, <2>4 DEF Place, Between, At, Keep, SameMode, SameCount, SameData, SameOut, SameHeld
<1>6. CASE NeedMore
  <2>1. At("conn_parse_cmd") /\ Keep
    BY <1>6 DEF NeedMore
  <2>2. c.rbytes > 0 /\ c.substate = "none"
    BY <1>1, <2>1 DEF Dialect, At
  <2>3. /\ Protocol \in {"ascii", "binary"} /\ stream # <<>>
        /\ Protocol = "binary" <=> stream[1].kind \in BinaryKinds
        /\ c.protocol # "negotiating" => Protocol = c.protocol
    BY <1>1, <2>2, ProtocolIs
  <2>4. c.noreply => Protocol = "binary"
    BY <1>1, <2>1, <2>3 DEF Dialect, At
  <2>5. /\ c'.state = "conn_waiting" /\ c'.protocol = Protocol /\ c'.noreply = c.noreply /\ c'.substate = c.substate
        /\ SameData(c', c)
    BY <1>1, <1>6, NeedMoreDoes
  <2>6. Dialect'
    BY <2>1, <2>2, <2>3, <2>4, <2>5 DEF Dialect, Keep
  <2>7. Left' = Left
    BY <2>1, SameLeft DEF Keep
  <2> QED BY <1>1, <2>1, <2>5, <2>6, <2>7 DEF Place, Between, At, SameData
<1>7. CASE ProcessGet
  <2>1. At("conn_parse_cmd") /\ HasHead /\ stream' = stream
    BY <1>7 DEF ProcessGet, AtRequest, Processed
  <2>2. Took(c')
    BY <1>1, <1>7, ProcessGetDoes
  <2>3. /\ Start.part = 1 /\ c.sbytes = 0 /\ c.substate = "none"
        /\ Protocol = "binary" <=> Start.kind \in BinaryKinds
        /\ c.noreply => Protocol = "binary"
        /\ taken' > 0 /\ stream'[taken'].kind = Start.kind /\ Left' = Parts(Start.kind) - 2
    BY <1>1, <2>1, <2>2, ParsedFacts DEF Took
  <2>4. Start.kind \in {"get"}
    BY <1>7, <2>3 DEF ProcessGet, AtRequest
  <2>5. Left' = 0
    BY <2>3, <2>4 DEF Parts, SetKinds
  <2>6. Dialect'
    BY <1>1, <1>7, <2>1, <2>2, <2>3, <2>5, ProcessGetDoes, ParsedDialect DEF At
  <2> QED BY <1>1, <1>7, <2>2, <2>3, <2>4, <2>5, <2>6, ProcessGetDoes DEF Place, Between, Took, KeyedKinds, SameMode, SameCount, SameData, SameOut, SameHeld
<1>8. CASE ProcessShort
  <2>1. At("conn_parse_cmd") /\ HasHead /\ stream' = stream
    BY <1>8 DEF ProcessShort, AtRequest, Processed
  <2>2. Took(c')
    BY <1>1, <1>8, ProcessShortDoes
  <2>3. /\ Start.part = 1 /\ c.sbytes = 0 /\ c.substate = "none"
        /\ Protocol = "binary" <=> Start.kind \in BinaryKinds
        /\ c.noreply => Protocol = "binary"
        /\ taken' > 0 /\ stream'[taken'].kind = Start.kind /\ Left' = Parts(Start.kind) - 2
    BY <1>1, <2>1, <2>2, ParsedFacts DEF Took
  <2>4. Start.kind \in {"touch", "quiet"}
    BY <1>8, <2>3 DEF ProcessShort, AtRequest
  <2>5. Left' = 0
    BY <2>3, <2>4 DEF Parts, SetKinds
  <2>6. Dialect'
    BY <1>1, <1>8, <2>1, <2>2, <2>3, <2>5, ProcessShortDoes, ParsedDialect DEF Answered1, At
  <2> QED BY <1>1, <1>8, <2>2, <2>3, <2>4, <2>5, <2>6, ProcessShortDoes DEF Place, Between, Took, Answered1, KeyedKinds, SameMode, SameCount, SameData, SameOut, SameHeld
<1>9. CASE ProcessUpdate
  <2>1. At("conn_parse_cmd") /\ HasHead /\ stream' = stream
    BY <1>9 DEF ProcessUpdate, AtRequest, Processed
  <2>2. Took(c')
    BY <1>1, <1>9, ProcessUpdateDoes
  <2>3. /\ Start.part = 1 /\ c.sbytes = 0 /\ c.substate = "none"
        /\ Protocol = "binary" <=> Start.kind \in BinaryKinds
        /\ c.noreply => Protocol = "binary"
        /\ taken' > 0 /\ stream'[taken'].kind = Start.kind /\ Left' = Parts(Start.kind) - 2
    BY <1>1, <2>1, <2>2, ParsedFacts DEF Took
  <2>4. Start.kind \in {"set", "setq"}
    BY <1>9, <2>3 DEF ProcessUpdate, AtRequest
  <2>5. Left' = 2
    BY <2>3, <2>4 DEF Parts, SetKinds
  <2>6. Dialect'
    BY <1>1, <1>9, <2>1, <2>2, <2>3, <2>5, ProcessUpdateDoes, ParsedDialect DEF At
  <2> QED BY <1>1, <1>9, <2>2, <2>3, <2>4, <2>5, <2>6, ProcessUpdateDoes DEF Place, Between, Took, KeyedKinds, SameMode, SameCount, SameData, SameOut, SameHeld
<1>10. CASE ProcessUpdateFails
  <2>1. At("conn_parse_cmd") /\ HasHead /\ stream' = stream
    BY <1>10 DEF ProcessUpdateFails, AtRequest, Processed
  <2>2. Took(c')
    BY <1>1, <1>10, ProcessUpdateFailsDoes
  <2>3. /\ Start.part = 1 /\ c.sbytes = 0 /\ c.substate = "none"
        /\ Protocol = "binary" <=> Start.kind \in BinaryKinds
        /\ c.noreply => Protocol = "binary"
        /\ taken' > 0 /\ stream'[taken'].kind = Start.kind /\ Left' = Parts(Start.kind) - 2
    BY <1>1, <2>1, <2>2, ParsedFacts DEF Took
  <2>4. Start.kind \in {"set"}
    BY <1>10, <2>3 DEF ProcessUpdateFails, AtRequest
  <2>5. Left' = 2
    BY <2>3, <2>4 DEF Parts, SetKinds
  <2>6. ~Noted
    BY <2>3, <2>4 DEF Noted, IsNoreply, BinaryKinds
  <2>7. Dialect'
    BY <1>1, <1>10, <2>1, <2>2, <2>3, <2>5, <2>6, ProcessUpdateFailsDoes, ParsedDialect DEF Answered1, At
  <2> QED BY <1>1, <1>10, <2>2, <2>3, <2>4, <2>5, <2>6, <2>7, ProcessUpdateFailsDoes DEF Place, Between, Took, Answered1, KeyedKinds, SameMode, SameCount, SameData, SameOut, SameHeld
<1>11. CASE ProcessQuit
  <2>1. At("conn_parse_cmd") /\ HasHead /\ stream' = stream
    BY <1>11 DEF ProcessQuit, AtRequest, Processed
  <2>2. Took(c')
    BY <1>1, <1>11, ProcessQuitDoes
  <2>3. /\ Start.part = 1 /\ c.sbytes = 0 /\ c.substate = "none"
        /\ Protocol = "binary" <=> Start.kind \in BinaryKinds
        /\ c.noreply => Protocol = "binary"
        /\ taken' > 0 /\ stream'[taken'].kind = Start.kind /\ Left' = Parts(Start.kind) - 2
    BY <1>1, <2>1, <2>2, ParsedFacts DEF Took
  <2>4. Start.kind \in {"quit"}
    BY <1>11, <2>3 DEF ProcessQuit, AtRequest
  <2>5. Left' = 0
    BY <2>3, <2>4 DEF Parts, SetKinds
  <2>6. Dialect'
    BY <1>1, <1>11, <2>1, <2>2, <2>3, <2>5, ProcessQuitDoes, ParsedDialect DEF At
  <2> QED BY <1>1, <1>11, <2>2, <2>3, <2>4, <2>5, <2>6, ProcessQuitDoes DEF Place, Between, Took, KeyedKinds, SameMode, SameCount, SameData, SameOut, SameHeld
<1>12. CASE ProcessUnknown
  <2>1. At("conn_parse_cmd") /\ HasHead /\ stream' = stream
    BY <1>12 DEF ProcessUnknown, Processed
  <2>2. Took(c')
    BY <1>1, <1>12, ProcessUnknownDoes
  <2>3. /\ Start.part = 1 /\ c.sbytes = 0 /\ c.substate = "none"
        /\ Protocol = "binary" <=> Start.kind \in BinaryKinds
        /\ c.noreply => Protocol = "binary"
        /\ taken' > 0 /\ stream'[taken'].kind = Start.kind /\ Left' = Parts(Start.kind) - 2
    BY <1>1, <2>1, <2>2, ParsedFacts DEF Took
  <2>4. Start.kind \in {"junk"}
    BY <1>12, <2>3 DEF ProcessUnknown
  <2>5. Left' = 0
    BY <2>3, <2>4 DEF Parts, SetKinds
  <2>6. Dialect'
    BY <1>1, <1>12, <2>1, <2>2, <2>3, <2>5, ProcessUnknownDoes, ParsedDialect DEF Answered1, At
  <2> QED BY <1>1, <1>12, <2>2, <2>3, <2>4, <2>5, <2>6, ProcessUnknownDoes DEF Place, Between, Took, Answered1, KeyedKinds, SameMode, SameCount, SameData, SameOut, SameHeld
<1>13. CASE BinNoop
  <2>1. At("conn_parse_cmd") /\ HasHead /\ stream' = stream
    BY <1>13 DEF BinNoop, AtRequest, Processed
  <2>2. Took(c')
    BY <1>1, <1>13, BinNoopDoes
  <2>3. /\ Start.part = 1 /\ c.sbytes = 0 /\ c.substate = "none"
        /\ Protocol = "binary" <=> Start.kind \in BinaryKinds
        /\ c.noreply => Protocol = "binary"
        /\ taken' > 0 /\ stream'[taken'].kind = Start.kind /\ Left' = Parts(Start.kind) - 2
    BY <1>1, <2>1, <2>2, ParsedFacts DEF Took
  <2>4. Start.kind \in {"noop"}
    BY <1>13, <2>3 DEF BinNoop, AtRequest
  <2>5. Left' = 0 /\ Start.kind \in BinaryKinds
    BY <2>3, <2>4 DEF Parts, SetKinds, BinaryKinds
  <2>6. Dialect'
    BY <1>1, <1>13, <2>1, <2>2, <2>3, <2>5, BinNoopDoes, ParsedDialect DEF At
  <2> QED BY <1>1, <1>13, <2>2, <2>3, <2>4, <2>5, <2>6, BinNoopDoes DEF Place, Between, Took, KeyedKinds, SameMode, SameCount, SameData, SameOut, SameHeld
<1>14. CASE BinQuit
  <2>1. At("conn_parse_cmd") /\ HasHead /\ stream' = stream
    BY <1>14 DEF BinQuit, AtRequest, Processed
  <2>2. Took(c')
    BY <1>1, <1>14, BinQuitDoes
  <2>3. /\ Start.part = 1 /\ c.sbytes = 0 /\ c.substate = "none"
        /\ Protocol = "binary" <=> Start.kind \in BinaryKinds
        /\ c.noreply => Protocol = "binary"
        /\ taken' > 0 /\ stream'[taken'].kind = Start.kind /\ Left' = Parts(Start.kind) - 2
    BY <1>1, <2>1, <2>2, ParsedFacts DEF Took
  <2>4. Start.kind \in {"bquit", "bquitq"}
    BY <1>14, <2>3 DEF BinQuit, AtRequest
  <2>5. Left' = 0 /\ Start.kind \in BinaryKinds
    BY <2>3, <2>4 DEF Parts, SetKinds, BinaryKinds
  <2>6. Dialect'
    BY <1>1, <1>14, <2>1, <2>2, <2>3, <2>5, BinQuitDoes, ParsedDialect DEF At
  <2> QED BY <1>1, <1>14, <2>2, <2>3, <2>4, <2>5, <2>6, BinQuitDoes DEF Place, Between, Took, KeyedKinds, SameMode, SameCount, SameData, SameOut, SameHeld
<1>15. CASE BinReadKey
  <2>1. At("conn_parse_cmd") /\ HasHead /\ stream' = stream
    BY <1>15 DEF BinReadKey, AtRequest, Processed
  <2>2. Took(c')
    BY <1>1, <1>15, BinReadKeyDoes
  <2>3. /\ Start.part = 1 /\ c.sbytes = 0 /\ c.substate = "none"
        /\ Protocol = "binary" <=> Start.kind \in BinaryKinds
        /\ c.noreply => Protocol = "binary"
        /\ taken' > 0 /\ stream'[taken'].kind = Start.kind /\ Left' = Parts(Start.kind) - 2
    BY <1>1, <2>1, <2>2, ParsedFacts DEF Took
  <2>4. Start.kind \in KeyedKinds
    BY <1>15, <2>3 DEF BinReadKey, AtRequest, KeyedKinds
  <2>5. Left' = 1 + (IF Start.kind \in SetKinds THEN 1 ELSE 0) /\ Start.kind \in BinaryKinds
    BY <2>3, <2>4 DEF Parts, SetKinds, KeyedKinds, BinaryKinds
  <2>6. Dialect'
    BY <1>1, <1>15, <2>1, <2>2, <2>3, <2>5, BinReadKeyDoes, ParsedDialect DEF At
  <2> QED BY <1>1, <1>15, <2>2, <2>3, <2>4, <2>5, <2>6, BinReadKeyDoes DEF Place, Between, Took, KeyedKinds, SameMode, SameCount, SameData, SameOut, SameHeld
<1>16. CASE BinUnknown
  <2>1. At("conn_parse_cmd") /\ HasHead /\ stream' = stream
    BY <1>16 DEF BinUnknown, AtRequest, Processed
  <2>2. Took(c')
    BY <1>1, <1>16, BinUnknownDoes
  <2>3. /\ Start.part = 1 /\ c.sbytes = 0 /\ c.substate = "none"
        /\ Protocol = "binary" <=> Start.kind \in BinaryKinds
        /\ c.noreply => Protocol = "binary"
        /\ taken' > 0 /\ stream'[taken'].kind = Start.kind /\ Left' = Parts(Start.kind) - 2
    BY <1>1, <2>1, <2>2, ParsedFacts DEF Took
  <2>4. Start.kind \in {"unknown"}
    BY <1>16, <2>3 DEF BinUnknown, AtRequest
  <2>5. Left' = 1 /\ Start.kind \in BinaryKinds
    BY <2>3, <2>4 DEF Parts, SetKinds, BinaryKinds
  <2>6. Dialect'
    BY <1>1, <1>16, <2>1, <2>2, <2>3, <2>5, BinUnknownDoes, ParsedDialect DEF At
  <2> QED BY <1>1, <1>16, <2>2, <2>3, <2>4, <2>5, <2>6, BinUnknownDoes DEF Place, Between, Took, KeyedKinds, SameMode, SameCount, SameData, SameOut, SameHeld
<1>17. CASE BinBad
  <2>1. At("conn_parse_cmd") /\ HasHead /\ stream' = stream
    BY <1>17 DEF BinBad, AtRequest, Processed
  <2>2. Took(c')
    BY <1>1, <1>17, BinBadDoes
  <2>3. /\ Start.part = 1 /\ c.sbytes = 0 /\ c.substate = "none"
        /\ Protocol = "binary" <=> Start.kind \in BinaryKinds
        /\ c.noreply => Protocol = "binary"
        /\ taken' > 0 /\ stream'[taken'].kind = Start.kind /\ Left' = Parts(Start.kind) - 2
    BY <1>1, <2>1, <2>2, ParsedFacts DEF Took
  <2>4. Start.kind \in {"bad"}
    BY <1>17, <2>3 DEF BinBad, AtRequest
  <2>5. Left' = 0 /\ Start.kind \in BinaryKinds
    BY <2>3, <2>4 DEF Parts, SetKinds, BinaryKinds
  <2>6. Dialect'
    BY <1>1, <1>17, <2>1, <2>2, <2>3, <2>5, BinBadDoes, ParsedDialect DEF At
  <2> QED BY <1>1, <1>17, <2>2, <2>3, <2>4, <2>5, <2>6, BinBadDoes DEF Place, Between, Took, KeyedKinds, SameMode, SameCount, SameData, SameOut, SameHeld
<1>18. CASE BinMagic
  <2>1. At("conn_parse_cmd") /\ Keep /\ Continue(Go(c, "conn_closing"))
    BY <1>18 DEF BinMagic
  <2>2. c'.state = "conn_closing" /\ SameMode(c', c) /\ SameData(c', c) /\ c'.write_and_go = c.write_and_go
    BY <1>1, <2>1, GoesDoes DEF States
  <2>3. Dialect'
    BY <1>1, <2>1, <2>2, KeptDialect, ConnFields DEF Dialect, Between, At, Keep, SameMode, SameCount, SameData, SameOut, SameHeld
  <2>4. Left' = Left
    BY <2>1, SameLeft DEF Keep
  <2> QED BY <1>1, <2>1, <2>2, <2>3, <2>4 DEF Place, Between, At, Keep, SameMode, SameCount, SameData, SameOut, SameHeld
<1>19. CASE BinGet
  <2>1. At("conn_nread") /\ Keep /\ c.rlbytes = 0 /\ c.substate = "key"
    BY <1>19 DEF BinGet, KeyRead
  <2>2. taken > 0 /\ c.sbytes = 0
    BY <1>1, <2>1 DEF Place, At
  <2>3. c.protocol \in {"ascii", "binary"} /\ (c.protocol = "binary" <=> stream[taken].kind \in BinaryKinds)
    BY <1>1, <2>2, CurrentDialect
  <2>4. stream[taken].kind \in {"bget", "bgetq"}
    BY <1>19 DEF BinGet, KeyRead, Current
  <2>5. Left = 0 /\ Left' = Left
    <3>1. Left' = Left
      BY <2>1, SameLeft DEF Keep
    <3> QED BY <1>1, <2>1, <2>2, <2>4, <3>1 DEF Place, At, SetKinds, KeyedKinds
  <2>6. c.protocol = "binary"
    BY <2>3, <2>4 DEF BinaryKinds
  <2>7. Dialect'
    BY <1>1, <1>19, <2>1, <2>2, <2>6, BinGetDoes, KeptDialect DEF Between, Keep, SameMode, SameCount, SameData, SameOut, SameHeld
  <2> QED BY <1>1, <1>19, <2>1, <2>2, <2>4, <2>5, <2>6, <2>7, BinGetDoes DEF Place, Between, At, Keep, KeyedKinds, SameMode, SameCount, SameData, SameOut, SameHeld
<1>20. CASE BinKeyed
  <2>1. At("conn_nread") /\ Keep /\ c.rlbytes = 0 /\ c.substate = "key"
    BY <1>20 DEF BinKeyed, KeyRead
  <2>2. taken > 0 /\ c.sbytes = 0
    BY <1>1, <2>1 DEF Place, At
  <2>3. c.protocol \in {"ascii", "binary"} /\ (c.protocol = "binary" <=> stream[taken].kind \in BinaryKinds)
    BY <1>1, <2>2, CurrentDialect
  <2>4. stream[taken].kind \in {"bdel", "bdelq"}
    BY <1>20 DEF BinKeyed, KeyRead, Current
  <2>5. Left = 0 /\ Left' = Left
    <3>1. Left' = Left
      BY <2>1, SameLeft DEF Keep
    <3> QED BY <1>1, <2>1, <2>2, <2>4, <3>1 DEF Place, At, SetKinds, KeyedKinds
  <2>6. c.protocol = "binary"
    BY <2>3, <2>4 DEF BinaryKinds
  <2>7. Dialect'
    BY <1>1, <1>20, <2>1, <2>2, <2>6, BinKeyedDoes, KeptDialect DEF Between, Keep, SameMode, SameCount, SameData, SameOut, SameHeld
  <2> QED BY <1>1, <1>20, <2>1, <2>2, <2>4, <2>5, <2>6, <2>7, BinKeyedDoes DEF Place, Between, At, Keep, KeyedKinds, SameMode, SameCount, SameData, SameOut, SameHeld
<1>21. CASE BinUpdate
  <2>1. At("conn_nread") /\ Keep /\ c.rlbytes = 0 /\ c.substate = "key"
    BY <1>21 DEF BinUpdate, KeyRead
  <2>2. taken > 0 /\ c.sbytes = 0
    BY <1>1, <2>1 DEF Place, At
  <2>3. c.protocol \in {"ascii", "binary"} /\ (c.protocol = "binary" <=> stream[taken].kind \in BinaryKinds)
    BY <1>1, <2>2, CurrentDialect
  <2>4. stream[taken].kind \in {"bset", "bsetq"}
    BY <1>21 DEF BinUpdate, KeyRead, Current
  <2>5. Left = 1 /\ Left' = Left
    <3>1. Left' = Left
      BY <2>1, SameLeft DEF Keep
    <3> QED BY <1>1, <2>1, <2>2, <2>4, <3>1 DEF Place, At, SetKinds, KeyedKinds
  <2>6. c.protocol = "binary"
    BY <2>3, <2>4 DEF BinaryKinds
  <2>7. Dialect'
    BY <1>1, <1>21, <2>1, <2>2, <2>6, BinUpdateDoes, KeptDialect DEF Between, Keep, SameMode, SameCount, SameData, SameOut, SameHeld
  <2> QED BY <1>1, <1>21, <2>1, <2>2, <2>4, <2>5, <2>6, <2>7, BinUpdateDoes DEF Place, Between, At, Keep, KeyedKinds, SameMode, SameCount, SameData, SameOut, SameHeld
<1>22. CASE BinStore
  <2>1. At("conn_nread") /\ Keep /\ c.rlbytes = 0 /\ c.substate = "value"
    BY <1>22 DEF BinStore, At
  <2>2. taken > 0 /\ c.sbytes = 0
    BY <1>1, <2>1 DEF Place, At
  <2>3. c.protocol \in {"ascii", "binary"} /\ (c.protocol = "binary" <=> stream[taken].kind \in BinaryKinds)
    BY <1>1, <2>2, CurrentDialect
  <2>4. stream[taken].kind \in {"bset", "bsetq"}
    BY <1>1, <2>1 DEF Place, At
  <2>5. Left = 0 /\ Left' = Left
    <3>1. Left' = Left
      BY <2>1, SameLeft DEF Keep
    <3> QED BY <1>1, <2>1, <2>2, <2>4, <3>1 DEF Place, At, SetKinds, KeyedKinds
  <2>6. c.protocol = "binary"
    BY <2>3, <2>4 DEF BinaryKinds
  <2>7. Dialect'
    BY <1>1, <1>22, <2>1, <2>2, <2>6, BinStoreDoes, KeptDialect DEF Between, Keep, SameMode, SameCount, SameData, SameOut, SameHeld
  <2> QED BY <1>1, <1>22, <2>1, <2>2, <2>4, <2>5, <2>6, <2>7, BinStoreDoes DEF Place, Between, At, Keep, KeyedKinds, SameMode, SameCount, SameData, SameOut, SameHeld
<1>23. CASE NreadDone
  <2>1. At("conn_nread") /\ Keep /\ c.rlbytes = 0 /\ c.protocol = "ascii"
    BY <1>23 DEF NreadDone, At
  <2>2. taken > 0 /\ c.sbytes = 0
    BY <1>1, <2>1 DEF Place, At
  <2>3. c.protocol \in {"ascii", "binary"} /\ (c.protocol = "binary" <=> stream[taken].kind \in BinaryKinds)
    BY <1>1, <2>2, CurrentDialect
  <2>4. stream[taken].kind \in {"set", "setq"}
    BY <1>1, <2>1, <2>3, ConnHasType DEF Place, At, ConnType, KeyedKinds, BinaryKinds
  <2>5. Left = 0 /\ Left' = Left
    <3>1. Left' = Left
      BY <2>1, SameLeft DEF Keep
    <3> QED BY <1>1, <2>1, <2>2, <2>4, <3>1, ConnHasType DEF Place, At, SetKinds, KeyedKinds, ConnType, BinaryKinds
  <2>6. c.protocol = "ascii"
    BY <2>1
  <2>7. Dialect'
    BY <1>1, <1>23, <2>1, <2>2, <2>6, NreadDoneDoes, KeptDialect DEF Between, Keep, SameMode, SameCount, SameData, SameOut, SameHeld
  <2> QED BY <1>1, <1>23, <2>1, <2>2, <2>4, <2>5, <2>6, <2>7, NreadDoneDoes DEF Place, Between, At, Keep, KeyedKinds, SameMode, SameCount, SameData, SameOut, SameHeld
<1>24. CASE NextRequest
  <2>1. At("conn_new_cmd") /\ Keep
    BY <1>24 DEF NextRequest
  <2>2. Dialect'
    BY <1>1, <2>1, <1>24, NextRequestDoes, KeptDialect, ConnFields DEF Dialect, Between, At, Keep, SameMode, SameCount, SameData, SameOut, SameHeld
  <2>3. Left' = Left
    BY <2>1, SameLeft DEF Keep
  <2> QED BY <1>1, <2>1, <1>24, NextRequestDoes, <2>2, <2>3 DEF Place, Between, At, Keep, SameMode, SameCount, SameData, SameOut, SameHeld
<1>25. CASE Yield
  <2>1. At("conn_new_cmd") /\ Keep
    BY <1>25 DEF Yield
  <2>2. Dialect'
    BY <1>1, <2>1, <1>25, YieldDoes, KeptDialect, ConnFields DEF Dialect, Between, At, Keep, SameMode, SameCount, SameData, SameOut, SameHeld
  <2>3. Left' = Left
    BY <2>1, SameLeft DEF Keep
  <2> QED BY <1>1, <2>1, <1>25, YieldDoes, <2>2, <2>3 DEF Place, Between, At, Keep, SameMode, SameCount, SameData, SameOut, SameHeld
<1>26. CASE SwallowDone
  <2>1. At("conn_swallow") /\ Keep /\ c.sbytes = 0 /\ Continue(Go(c, "conn_new_cmd"))
    BY <1>26 DEF SwallowDone
  <2>2. c'.state = "conn_new_cmd" /\ SameMode(c', c) /\ SameData(c', c)
    BY <1>1, <2>1, GoesDoes DEF States
  <2>3. Dialect'
    BY <1>1, <2>1, <2>2, KeptDialect DEF Dialect, Between, At, Keep, SameMode, SameCount, SameData, SameOut, SameHeld
  <2>4. Left' = Left
    BY <2>1, SameLeft DEF Keep
  <2> QED BY <1>1, <2>1, <2>2, <2>3, <2>4 DEF Place, Between, At, SameMode, SameCount, SameData, SameOut, SameHeld
<1>27. CASE DataFromBuffer
  <2>1. WantsData /\ stream' = stream
    BY <1>27 DEF DataFromBuffer
  <2>2. PICK n \in 0 .. 2 : Advanced(c', n) /\ c'.state = c.state
    BY <1>1, <1>27, DataFromBufferDoes
  <2> QED BY <1>1, <2>1, <2>2, DataKeepsPlace
<1>28. CASE DataFromSocket
  <2>1. WantsData /\ stream' = stream
    BY <1>28 DEF DataFromSocket, ReadOn
  <2>2. PICK n \in 0 .. 2 : Advanced(c', n) /\ c'.state = c.state
    BY <1>1, <1>28, DataFromSocketDoes
  <2> QED BY <1>1, <2>1, <2>2, DataKeepsPlace
<1>29. CASE DataEof
  <2>1. WantsData /\ stream' = stream
    BY <1>29 DEF DataEof, ReadOn
  <2>2. PICK n \in 0 .. 2 : Advanced(c', n) /\ c'.state = "conn_closing"
    BY <1>1, <1>29, DataEofDoes
  <2> QED BY <1>1, <2>1, <2>2, DataKeepsPlace
<1>30. CASE DataWouldBlock
  <2>1. WantsData /\ stream' = stream
    BY <1>30 DEF DataWouldBlock, ReadOn
  <2>2. PICK n \in 0 .. 2 : Advanced(c', n) /\ (c'.state = c.state \/ c'.state = "conn_closing")
    BY <1>1, <1>30, DataWouldBlockDoes
  <2> QED BY <1>1, <2>1, <2>2, DataKeepsPlace
<1>31. CASE Transmit
  <2>1. Writing /\ stream' = stream /\ taken' = taken
    BY <1>31 DEF Transmit, Keep
  <2>2. c'.state = c.state /\ c'.write_and_go = c.write_and_go /\ SameMode(c', c) /\ SameData(c', c)
    BY <1>1, <1>31, TransmitDoes
  <2>3. Dialect'
    BY <1>1, <2>1, <2>2, KeptDialect DEF Dialect, Between, Writing, At, SameMode, SameCount, SameData, SameOut, SameHeld
  <2>4. Left' = Left
    BY <2>1, SameLeft
  <2> QED BY <1>1, <2>1, <2>2, <2>3, <2>4 DEF Place, Between, Writing, At, SameMode, SameCount, SameData, SameOut, SameHeld
<1>32. CASE TransmitWouldBlock
  <2>1. Writing /\ stream' = stream /\ taken' = taken
    BY <1>32 DEF TransmitWouldBlock, Keep
  <2>2. c'.state \in {c.state, "conn_closing"} /\ c'.write_and_go = c.write_and_go /\ SameMode(c', c) /\ SameData(c', c)
    BY <1>1, <1>32, TransmitWouldBlockDoes
  <2>3. Dialect'
    BY <1>1, <2>1, <2>2, KeptDialect DEF Dialect, Between, Writing, At, SameMode, SameCount, SameData, SameOut, SameHeld
  <2>4. Left' = Left
    BY <2>1, SameLeft
  <2> QED BY <1>1, <2>1, <2>2, <2>3, <2>4 DEF Place, Between, Writing, At, SameMode, SameCount, SameData, SameOut, SameHeld
<1>33. CASE TransmitFails
  <2>1. Writing /\ stream' = stream /\ taken' = taken
    BY <1>33 DEF TransmitFails, Keep
  <2>2. c'.state \in {c.state, "conn_closing"} /\ c'.write_and_go = c.write_and_go /\ SameMode(c', c) /\ SameData(c', c)
    BY <1>1, <1>33, TransmitFailsDoes
  <2>3. Dialect'
    BY <1>1, <2>1, <2>2, KeptDialect DEF Dialect, Between, Writing, At, SameMode, SameCount, SameData, SameOut, SameHeld
  <2>4. Left' = Left
    BY <2>1, SameLeft
  <2> QED BY <1>1, <2>1, <2>2, <2>3, <2>4 DEF Place, Between, Writing, At, SameMode, SameCount, SameData, SameOut, SameHeld
<1>34. CASE Transmitted
  <2>1. Writing /\ Keep
    BY <1>34 DEF Transmitted
  <2>2. /\ \/ c.state = "conn_mwrite" /\ c'.state = (IF c.protocol = "binary" THEN c.write_and_go ELSE "conn_new_cmd")
           \/ c.state = "conn_write" /\ c'.state = c.write_and_go
        /\ SameMode(c', c) /\ SameData(c', c)
    BY <1>1, <1>34, TransmittedDoes
  <2>3. c.write_and_go \in {"conn_new_cmd", "conn_swallow", "conn_closing"}
    BY <1>1 DEF Holds
  <2>4. Dialect'
    BY <1>1, <2>1, <2>2, <2>3, KeptDialect DEF Dialect, Between, Writing, At, Keep, SameMode, SameCount, SameData, SameOut, SameHeld
  <2>5. Left' = Left
    BY <2>1, SameLeft DEF Keep
  <2> QED BY <1>1, <2>1, <2>2, <2>3, <2>4, <2>5 DEF Place, Between, Writing, At, SameMode, SameCount, SameData, SameOut, SameHeld
<1>35. CASE Close
  <2>1. At("conn_closing") /\ Keep
    BY <1>35 DEF Close
  <2>2. c'.state = "closed" /\ SameMode(c', c)
    BY <1>1, <1>35, CloseDoes
  <2>3. Dialect'
    BY <1>1, <2>1, <2>2, KeptDialect DEF Dialect, Between, At, Keep, SameMode, SameCount, SameData, SameOut, SameHeld
  <2> QED BY <2>2, <2>3 DEF Place, Between
<1> QED BY <1>2, <1>3, <1>4, <1>5, <1>6, <1>7, <1>8, <1>9, <1>10, <1>11, <1>12, <1>13, <1>14, <1>15, <1>16, <1>17, <1>18, <1>19, <1>20, <1>21, <1>22, <1>23, <1>24, <1>25, <1>26, <1>27, <1>28, <1>29, <1>30, <1>31, <1>32, <1>33, <1>34, <1>35 DEF Drive

LEMMA InitPlace == Init => Dialect /\ Place
<1>1. SUFFICES ASSUME Init PROVE Dialect /\ Place
  OBVIOUS
<1>2. stream = <<>> /\ taken = 0
  BY <1>1 DEF Init
<1>3. /\ c.protocol = "negotiating" /\ c.state = "conn_new_cmd" /\ c.noreply = FALSE /\ c.sbytes = 0
  BY <1>1 DEF Init
<1>4. Left = 0
  BY <1>2 DEF Left
<1> QED BY <1>2, <1>3, <1>4 DEF Dialect, Place, Between

LEMMA NextKeepsPlace ==
  ASSUME "setq" \notin Failures
  PROVE  Base /\ Dialect /\ Place /\ [Next]_vars => Dialect' /\ Place'
<1>1. SUFFICES ASSUME Base, Dialect, Place, [Next]_vars PROVE Dialect' /\ Place'
  OBVIOUS
<1>2. TypeOK /\ Whole /\ Dialect /\ Place
  BY <1>1 DEF Base
<1>3. ASSUME NEW kind \in Kinds, Request(kind) PROVE Dialect' /\ Place'
  <2>1. UNCHANGED <<taken, c>>
    BY <1>3 DEF Request
  <2>2. /\ Len(stream) \in Nat /\ taken \in Nat /\ taken <= Len(stream)
        /\ \A p \in 1 .. Len(stream) : stream'[p] = stream[p]
    <3>1. /\ Len(stream) \in Nat /\ arrived \in Nat /\ taken \in Nat /\ c.rbytes \in Nat
          /\ taken + c.rbytes <= arrived /\ arrived <= Len(stream)
      BY <1>2, UnitAt
    <3>2. taken <= Len(stream)
      BY <3>1
    <3> QED BY <1>2, <1>3, <3>1, <3>2, RequestDoes
  <2>3. taken > 0 => stream'[taken] = stream[taken]
    BY <2>2
  <2>4. stream # <<>> => 1 \in 1 .. Len(stream)
    BY <1>2, <2>2 DEF TypeOK
  <2>5. stream # <<>> => stream' # <<>> /\ stream'[1] = stream[1]
    <3>1. ASSUME stream # <<>> PROVE stream' # <<>>
      <4> DEFINE k == Parts(kind)
      <4>1. Len(stream') = Len(stream) + k /\ k \in 2 .. 4
        BY <1>2, <1>3, RequestDoes
      <4> HIDE DEF k
      <4>2. Len(stream') # 0
        BY <2>2, <4>1
      <4> QED BY <4>2
    <3> QED BY <2>2, <2>4, <3>1
  <2>6. Left' = Left
    BY <2>1, <2>2, <2>3 DEF Left
  <2>7. Dialect'
    BY <1>2, <2>1, <2>5 DEF Dialect
  <2>8. c.state = "conn_nread" => taken > 0
    BY <1>2 DEF Place
  <2> QED BY <1>2, <2>1, <2>3, <2>6, <2>7, <2>8 DEF Place
<1>4. CASE Deliver \/ ReadReply \/ HangUp \/ UNCHANGED vars
  <2>1. UNCHANGED <<stream, taken, c>>
    BY <1>4 DEF Deliver, ReadReply, HangUp, vars
  <2> QED BY <1>2, <2>1 DEF Dialect, Place, Left
<1>5. CASE Event \/ FalseAlarm
  <2>1. Keep
    BY <1>5 DEF Event, FalseAlarm
  <2>2. c'.state = c.state /\ c'.write_and_go = c.write_and_go /\ SameMode(c', c) /\ SameData(c', c)
    BY <1>2, <1>5, EventDoes
  <2>3. Left' = Left
    BY <2>1, SameLeft DEF Keep
  <2> QED BY <1>2, <2>1, <2>2, <2>3 DEF Dialect, Place, Keep, SameMode, SameData
<1>6. CASE Drive
  BY <1>1, <1>6, DriveKeepsPlace
<1> QED BY <1>1, <1>3, <1>4, <1>5, <1>6 DEF Next

LEMMA AlwaysPlace ==
  ASSUME "setq" \notin Failures
  PROVE  Spec => [](Base /\ Dialect /\ Place)
<1>1. Base /\ Dialect /\ Place /\ [Next]_vars => (Base /\ Dialect /\ Place)'
  BY NextKeepsBase, NextKeepsPlace
<1>2. Init => Base /\ Dialect /\ Place
  BY InitBase, InitPlace
<1> QED BY <1>1, <1>2, PTL DEF Spec

\* No data block is ever taken for a command, in either protocol and wherever the
\* client's bytes are cut: what item_alloc's failure leaves is swallowed
\* (process_update_command, conn_swallow).  The failure of a set with noreply is left
\* out: there out_string sends the machine to conn_new_cmd (run conn_swallow).
THEOREM DataIsNeverCommand ==
  ASSUME "setq" \notin Failures
  PROVE  Spec => []DataNeverCommand
<1>1. Base /\ Dialect /\ Place => DataNeverCommand
  <2>1. SUFFICES ASSUME Base, Place, c.state \in {"conn_waiting", "conn_read", "conn_parse_cmd"}, taken < Len(stream)
                 PROVE  stream[taken + 1].part = 1
    BY DEF DataNeverCommand
  <2>2. TypeOK /\ Whole
    BY <2>1 DEF Base
  <2>3. Left = 0
    BY <2>1 DEF Place, Between
  <2> QED BY <2>1, <2>2, <2>3, AtStart
<1> QED BY <1>1, AlwaysPlace, PTL

-------------------------------------------------------------------------------
(* Sequences of replies *)

LEMMA ReplyAt ==
  ASSUME NEW s \in Seq(Replies)
  PROVE  Len(s) \in Nat /\ \A i \in 1 .. Len(s) : s[i].req \in 1 .. MaxRequests /\ s[i].req \in Nat
<1>1. Len(s) \in Nat /\ \A i \in 1 .. Len(s) : s[i] \in Replies
  OBVIOUS
<1>2. \A r \in Replies : r.req \in 1 .. MaxRequests /\ r.req \in Nat
  BY DEF Replies
<1> QED BY <1>1, <1>2

\* s is what u begins with.
Begins(u, s) == Len(s) <= Len(u) /\ \A i \in 1 .. Len(s) : u[i] = s[i]

LEMMA GoodBegins ==
  ASSUME NEW st, NEW u \in Seq(Replies), NEW s \in Seq(Replies), Begins(u, s), Good(st, u)
  PROVE  Good(st, s)
<1>1. /\ Len(s) \in Nat /\ Len(u) \in Nat /\ Len(s) <= Len(u)
      /\ \A i \in 1 .. Len(s) : s[i] = u[i] /\ i \in 1 .. Len(u)
      /\ \A i \in 1 .. Len(u) : u[i].req \in Nat
  BY ReplyAt DEF Begins
<1>2. Sorted(u) /\ Truthful(st, u) /\ Gapless(st, u)
  BY DEF Good
<1>3. Sorted(s)
  <2>1. ASSUME NEW i \in 1 .. Len(s), NEW j \in 1 .. Len(s), i < j
        PROVE  s[i].req <= s[j].req /\ (s[i].req = s[j].req => s[i].what = "VALUE")
    BY <1>1, <1>2, <2>1 DEF Sorted
  <2>2. ASSUME NEW i \in 1 .. Len(s) - 1, s[i].what = "VALUE" PROVE s[i + 1].req = s[i].req
    <3>1. i \in 1 .. Len(u) - 1 /\ i \in 1 .. Len(s) /\ i + 1 \in 1 .. Len(s)
      BY <1>1
    <3> QED BY <1>1, <1>2, <2>2, <3>1 DEF Sorted
  <2> QED BY <2>1, <2>2 DEF Sorted
<1>4. Truthful(st, s)
  BY <1>1, <1>2 DEF Truthful
<1>5. Gapless(st, s)
  <2>1. SUFFICES ASSUME NEW i \in 1 .. Len(s), s[i].what # "VALUE",
                        NEW j \in 1 .. s[i].req - 1, AlwaysAnswered(KindIn(st, j))
                 PROVE  \E k \in 1 .. Len(s) : s[k].req = j /\ s[k].what # "VALUE"
    BY DEF Gapless, Complete
  <2>2. i \in 1 .. Len(u) /\ u[i] = s[i] /\ u[i].req \in Nat
    BY <1>1
  <2>3. PICK k \in 1 .. Len(u) : u[k].req = j /\ u[k].what # "VALUE"
    BY <1>2, <2>1, <2>2 DEF Gapless, Complete
  <2>4. j < u[i].req /\ j \in Nat
    BY <2>1, <2>2
  <2>5. k < i
    <3>1. CASE k = i
      BY <2>3, <2>4, <3>1
    <3>2. CASE i < k
      <4>1. u[i].req <= u[k].req
        BY <1>2, <2>2, <3>2 DEF Sorted
      <4> QED BY <2>2, <2>3, <2>4, <4>1
    <3> QED BY <1>1, <2>2, <3>1, <3>2
  <2>6. k \in 1 .. Len(s) /\ s[k] = u[k]
    BY <1>1, <2>1, <2>5
  <2> QED BY <2>3, <2>6
<1> QED BY <1>3, <1>4, <1>5 DEF Good

\* The next request is answered, with a line or with a value and its end.
LEMMA GoodAppend ==
  ASSUME NEW st, NEW s \in Seq(Replies), NEW u \in Seq(Replies), NEW n \in Nat, Begins(u, s),
         Good(st, s), Settled(st, s, n - 1),
         Len(u) \in {Len(s) + 1, Len(s) + 2},
         \A i \in 1 .. Len(u) : i > Len(s) => u[i].req = n /\ Honest(KindIn(st, n), u[i].what),
         u[Len(u)].what # "VALUE",
         Len(u) = Len(s) + 2 => u[Len(s) + 1].what = "VALUE"
  PROVE  Good(st, u) /\ Settled(st, u, n)
<1> DEFINE m == n - 1
<1>1. /\ Len(s) \in Nat /\ Len(u) \in Nat /\ m \in Int /\ m < n
      /\ \A i \in 1 .. Len(s) : u[i] = s[i] /\ i \in 1 .. Len(u) /\ s[i].req \in Nat
      /\ \A i \in 1 .. Len(u) : u[i].req \in Nat
  <2>1. /\ Len(s) \in Nat /\ \A i \in 1 .. Len(s) : s[i].req \in Nat
        /\ Len(u) \in Nat /\ \A i \in 1 .. Len(u) : u[i].req \in Nat
    BY ReplyAt
  <2>2. Len(s) <= Len(u) /\ \A i \in 1 .. Len(s) : u[i] = s[i]
    BY DEF Begins
  <2>3. m \in Int /\ m < n
    OBVIOUS
  <2> QED BY <2>1, <2>2, <2>3
<1>2. /\ Sorted(s) /\ Truthful(st, s) /\ Gapless(st, s)
      /\ \A i \in 1 .. Len(s) : s[i].req <= m
      /\ Complete(st, s, m)
      /\ Len(s) > 0 => s[Len(s)].what # "VALUE"
  BY DEF Good, Settled, UpTo
<1>3. \A i \in 1 .. Len(u) : \/ i \in 1 .. Len(s) /\ u[i] = s[i] /\ u[i].req < n
                             \/ i > Len(s) /\ u[i].req = n
  <2>1. TAKE i \in 1 .. Len(u)
  <2>2. CASE i \in 1 .. Len(s)
    <3>1. u[i] = s[i] /\ s[i].req \in Nat /\ s[i].req <= m
      BY <1>1, <1>2, <2>2
    <3>2. u[i].req < n
      BY <1>1, <3>1
    <3> QED BY <2>2, <3>1, <3>2
  <2>3. CASE i > Len(s)
    BY <2>1, <2>3
  <2> QED BY <1>1, <2>1, <2>2, <2>3
<1>4. UpTo(u, n)
  BY <1>1, <1>3 DEF UpTo
<1>5. Complete(st, u, m)
  <2>1. SUFFICES ASSUME NEW j \in 1 .. m, AlwaysAnswered(KindIn(st, j))
                 PROVE  \E i \in 1 .. Len(u) : u[i].req = j /\ u[i].what # "VALUE"
    BY DEF Complete
  <2>2. PICK i \in 1 .. Len(s) : s[i].req = j /\ s[i].what # "VALUE"
    BY <1>2, <2>1 DEF Complete
  <2> QED BY <1>1, <2>2
<1>6. Complete(st, u, n)
  <2>1. SUFFICES ASSUME NEW j \in 1 .. n, AlwaysAnswered(KindIn(st, j))
                 PROVE  \E i \in 1 .. Len(u) : u[i].req = j /\ u[i].what # "VALUE"
    BY DEF Complete
  <2>2. CASE j = n
    <3>1. Len(u) \in 1 .. Len(u) /\ Len(u) > Len(s)
      BY <1>1
    <3> QED BY <2>2, <3>1
  <2>3. CASE j # n
    <3>1. j \in 1 .. m
      BY <2>3
    <3> QED BY <1>5, <2>1, <3>1 DEF Complete
  <2> QED BY <2>2, <2>3
<1>7. Sorted(u)
  <2>1. ASSUME NEW i \in 1 .. Len(u), NEW j \in 1 .. Len(u), i < j
        PROVE  u[i].req <= u[j].req /\ (u[i].req = u[j].req => u[i].what = "VALUE")
    <3>1. CASE j \in 1 .. Len(s)
      <4>1. i \in 1 .. Len(s) /\ u[i] = s[i] /\ u[j] = s[j]
        BY <1>1, <2>1, <3>1
      <4> QED BY <1>2, <2>1, <3>1, <4>1 DEF Sorted
    <3>2. CASE i \in 1 .. Len(s) /\ j > Len(s)
      <4>1. ~(i > Len(s)) /\ ~(j \in 1 .. Len(s))
        BY <1>1, <3>2
      <4>2. u[i].req < n /\ u[j].req = n
        BY <1>3, <4>1
      <4> DEFINE a == u[i].req
                 b == u[j].req
      <4>3. a \in Nat /\ a < n /\ b = n
        BY <1>1, <4>2
      <4> HIDE DEF a, b
      <4>4. a <= b /\ a # b
        BY <4>3
      <4> QED BY <4>4 DEF a, b
    <3>3. CASE i > Len(s)
      <4>1. j > Len(s) /\ u[i].req = n /\ u[j].req = n
        BY <1>1, <2>1, <3>3
      <4>2. Len(u) = Len(s) + 2 /\ i = Len(s) + 1
        BY <1>1, <2>1, <3>3
      <4> QED BY <4>1, <4>2
    <3> QED BY <1>1, <3>1, <3>2, <3>3
  <2>2. ASSUME NEW i \in 1 .. Len(u) - 1, u[i].what = "VALUE" PROVE u[i + 1].req = u[i].req
    <3>1. i \in 1 .. Len(u) /\ i + 1 \in 1 .. Len(u)
      BY <1>1
    <3>2. CASE i \in 1 .. Len(s) - 1
      <4>1. i \in 1 .. Len(s) /\ i + 1 \in 1 .. Len(s)
        BY <1>1, <3>2
      <4> QED BY <1>1, <1>2, <2>2, <3>2, <4>1 DEF Sorted
    <3>3. CASE i = Len(s)
      <4>1. Len(s) > 0 /\ Len(s) \in 1 .. Len(s) /\ u[i] = s[Len(s)]
        BY <1>1, <3>1, <3>3
      <4> QED BY <1>2, <2>2, <4>1
    <3>4. CASE i > Len(s)
      <4>1. i + 1 > Len(s)
        BY <1>1, <3>4
      <4> QED BY <3>1, <3>4, <4>1
    <3> QED BY <1>1, <3>1, <3>2, <3>3, <3>4
  <2> QED BY <2>1, <2>2 DEF Sorted
<1>8. Truthful(st, u)
  <2>1. SUFFICES ASSUME NEW i \in 1 .. Len(u) PROVE Honest(KindIn(st, u[i].req), u[i].what)
    BY DEF Truthful
  <2>2. CASE i \in 1 .. Len(s)
    BY <1>1, <1>2, <2>2 DEF Truthful
  <2>3. CASE i > Len(s)
    BY <2>3
  <2> QED BY <1>1, <2>2, <2>3
<1>9. Gapless(st, u)
  <2>1. SUFFICES ASSUME NEW i \in 1 .. Len(u), NEW j \in 1 .. u[i].req - 1, AlwaysAnswered(KindIn(st, j))
                 PROVE  \E k \in 1 .. Len(u) : u[k].req = j /\ u[k].what # "VALUE"
    BY DEF Gapless, Complete
  <2>2. u[i].req <= n /\ u[i].req \in Nat
    BY <1>1, <1>4 DEF UpTo
  <2>3. j \in 1 .. n
    BY <2>2
  <2> QED BY <1>6, <2>1, <2>3 DEF Complete
<1>10. Len(u) > 0 => u[Len(u)].what # "VALUE"
  OBVIOUS
<1> QED BY <1>4, <1>6, <1>7, <1>8, <1>9, <1>10 DEF Good, Settled

\* The next request says nothing, and need not.
LEMMA SettledSkip ==
  ASSUME NEW st, NEW s \in Seq(Replies), NEW n \in Nat, Settled(st, s, n - 1), ~AlwaysAnswered(KindIn(st, n))
  PROVE  Settled(st, s, n)
<1> DEFINE m == n - 1
<1>1. /\ Len(s) \in Nat /\ m \in Int /\ m < n
      /\ \A i \in 1 .. Len(s) : s[i].req \in Nat /\ s[i].req <= m
      /\ Complete(st, s, m) /\ (Len(s) > 0 => s[Len(s)].what # "VALUE")
  BY ReplyAt DEF Settled, UpTo
<1>2. UpTo(s, n)
  BY <1>1 DEF UpTo
<1>3. Complete(st, s, n)
  <2>1. SUFFICES ASSUME NEW j \in 1 .. n, AlwaysAnswered(KindIn(st, j))
                 PROVE  \E i \in 1 .. Len(s) : s[i].req = j /\ s[i].what # "VALUE"
    BY DEF Complete
  <2>2. j \in 1 .. m
    BY <2>1
  <2> QED BY <1>1, <2>1, <2>2 DEF Complete
<1> QED BY <1>1, <1>2, <1>3 DEF Settled

\* Two sequences of the same replies.
LEMMA SettledSame ==
  ASSUME NEW st, NEW u \in Seq(Replies), NEW s \in Seq(Replies), Begins(u, s), Len(u) = Len(s), NEW n,
         Settled(st, u, n)
  PROVE  Settled(st, s, n)
<1>1. Len(s) \in Nat /\ \A i \in 1 .. Len(s) : u[i] = s[i]
  BY ReplyAt DEF Begins
<1>2. Len(s) > 0 => Len(s) \in 1 .. Len(s)
  BY <1>1
<1> QED BY <1>1, <1>2 DEF Settled, UpTo, Complete

LEMMA UpToBegins ==
  ASSUME NEW u \in Seq(Replies), NEW s \in Seq(Replies), Begins(u, s), NEW m \in Nat, NEW n \in Nat, m <= n, UpTo(u, m)
  PROVE  UpTo(s, n)
<1>1. /\ Len(s) \in Nat /\ Len(u) \in Nat
      /\ \A i \in 1 .. Len(s) : u[i] = s[i] /\ i \in 1 .. Len(u)
      /\ \A i \in 1 .. Len(u) : u[i].req \in Nat
  BY ReplyAt DEF Begins
<1> QED BY <1>1 DEF UpTo

\* What has been sent and what has not.
LEMMA ConcatBegins ==
  ASSUME NEW s \in Seq(Replies), NEW t \in Seq(Replies)
  PROVE  s \o t \in Seq(Replies) /\ Begins(s \o t, s) /\ (Len(t) = 0 => Begins(s, s \o t))
<1> DEFINE u == s \o t
<1>1. /\ u \in Seq(Replies) /\ Len(s) \in Nat /\ Len(t) \in Nat /\ Len(u) = Len(s) + Len(t)
      /\ \A i \in 1 .. Len(s) : u[i] = s[i]
  BY ConcatFacts
<1> HIDE DEF u
<1>2. Begins(u, s)
  BY <1>1 DEF Begins
<1>3. Len(t) = 0 => Begins(s, u)
  BY <1>1 DEF Begins
<1> QED BY <1>1, <1>2, <1>3 DEF u

\* The first n of t move from what is to be sent to what has been sent.
LEMMA CutBegins ==
  ASSUME NEW s \in Seq(Replies), NEW t \in Seq(Replies), NEW n \in 1 .. Len(t)
  PROVE  LET u == (s \o SubSeq(t, 1, n)) \o SubSeq(t, n + 1, Len(t)) IN
         u \in Seq(Replies) /\ Len(u) = Len(s \o t) /\ Begins(u, s \o t) /\ Begins(s \o t, u)
<1> DEFINE a == SubSeq(t, 1, n)
           b == SubSeq(t, n + 1, Len(t))
           sa == s \o a
           u == sa \o b
           w == s \o t
<1>1. /\ a \in Seq(Replies) /\ Len(a) = n /\ \A i \in 1 .. n : a[i] = t[i]
      /\ b \in Seq(Replies) /\ Len(b) = Len(t) - n /\ \A i \in 1 .. Len(t) - n : b[i] = t[n + i]
  BY CutFacts
<1> HIDE DEF a, b
<1>2. /\ sa \in Seq(Replies) /\ Len(s) \in Nat /\ Len(t) \in Nat /\ Len(sa) = Len(s) + n
      /\ \A i \in 1 .. Len(s) : sa[i] = s[i]
      /\ \A i \in 1 .. n : sa[Len(s) + i] = a[i]
  BY <1>1, ConcatFacts
<1> HIDE DEF sa
<1>3. /\ u \in Seq(Replies) /\ Len(u) = Len(sa) + Len(b)
      /\ \A i \in 1 .. Len(sa) : u[i] = sa[i]
      /\ \A i \in 1 .. Len(b) : u[Len(sa) + i] = b[i]
  <2>1. sa \in Seq(Replies) /\ b \in Seq(Replies)
    BY <1>1, <1>2
  <2> QED BY <2>1, ConcatFacts
<1>4. /\ w \in Seq(Replies) /\ Len(w) = Len(s) + Len(t)
      /\ \A i \in 1 .. Len(s) : w[i] = s[i]
      /\ \A i \in 1 .. Len(t) : w[Len(s) + i] = t[i]
  BY ConcatFacts
<1> HIDE DEF u, w
<1>5. Len(u) = Len(w)
  BY <1>1, <1>2, <1>3, <1>4
<1>6. ASSUME NEW i \in 1 .. Len(w) PROVE u[i] = w[i]
  <2>1. CASE i \in 1 .. Len(s)
    <3>1. i \in 1 .. Len(sa)
      BY <1>2, <2>1
    <3> QED BY <1>2, <1>3, <1>4, <2>1, <3>1
  <2>2. CASE i > Len(s) /\ i <= Len(s) + n
    <3> DEFINE k == i - Len(s)
    <3>1. k \in 1 .. n /\ k \in 1 .. Len(t) /\ Len(s) + k = i /\ i \in 1 .. Len(sa)
      BY <1>2, <1>4, <2>2
    <3> HIDE DEF k
    <3>2. sa[i] = a[k] /\ a[k] = t[k]
      BY <1>1, <1>2, <3>1
    <3> QED BY <1>3, <1>4, <3>1, <3>2
  <2>3. CASE i > Len(s) + n
    <3> DEFINE k == i - (Len(s) + n)
    <3>1. k \in 1 .. Len(t) - n /\ n + k \in 1 .. Len(t) /\ Len(sa) + k = i /\ Len(s) + (n + k) = i
      BY <1>2, <1>4, <2>3
    <3> HIDE DEF k
    <3>2. u[i] = b[k] /\ b[k] = t[n + k]
      BY <1>1, <1>3, <3>1
    <3>3. w[i] = t[n + k]
      BY <1>4, <3>1
    <3> QED BY <3>2, <3>3
  <2> QED BY <1>2, <1>4, <2>1, <2>2, <2>3
<1>7. Len(u) \in Nat /\ Begins(u, w) /\ Begins(w, u)
  BY <1>3, <1>4, <1>5, <1>6 DEF Begins
<1> QED BY <1>3, <1>5, <1>7 DEF u, w, sa, a, b

\* The kind of a request is that of each of its units.
LEMMA KindInIs ==
  ASSUME NEW st, NEW p \in DOMAIN st, \A q \in DOMAIN st : st[q].req = st[p].req => st[q].kind = st[p].kind
  PROVE  KindIn(st, st[p].req) = st[p].kind
<1> DEFINE q == CHOOSE q \in DOMAIN st : st[q].req = st[p].req
<1>1. q \in DOMAIN st /\ st[q].req = st[p].req
  OBVIOUS
<1> HIDE DEF q
<1>2. st[q].kind = st[p].kind
  BY <1>1
<1> QED BY <1>2 DEF q, KindIn

LEMMA KindIs ==
  ASSUME TypeOK, Whole, NEW p \in 1 .. Len(stream)
  PROVE  KindIn(stream, stream[p].req) = stream[p].kind
<1>1. DOMAIN stream = 1 .. Len(stream) /\ Len(stream) \in Nat
  BY DEF TypeOK
<1>2. ASSUME NEW q \in 1 .. Len(stream), stream[q].req = stream[p].req PROVE stream[q].kind = stream[p].kind
  <2>1. CASE p <= q
    BY <1>1, <1>2, <2>1 DEF Whole, Ordered
  <2>2. CASE q <= p
    BY <1>1, <1>2, <2>2 DEF Whole, Ordered
  <2> QED BY <1>1, <2>1, <2>2
<1> QED BY <1>1, <1>2, KindInIs

-------------------------------------------------------------------------------
(* Requests and their answers *)

Told == {"conn_write", "conn_mwrite"}
Ended == {"conn_closing", "closed"}

LEMMA OutType ==
  ASSUME TypeOK
  PROVE  /\ written \in Seq(Replies) /\ Unsent \in Seq(Replies) /\ Out \in Seq(Replies)
         /\ Begins(Out, written)
         /\ c.state \notin Told => Unsent = <<>> /\ Len(Out) = Len(written) /\ Begins(written, Out)
<1>1. written \in Seq(Replies) /\ Unsent \in Seq(Replies)
  BY ToSendType DEF TypeOK, Unsent
<1>2. Out \in Seq(Replies) /\ Begins(Out, written) /\ (Len(Unsent) = 0 => Begins(written, Out))
  BY <1>1, ConcatBegins DEF Out
<1>3. c.state \notin Told => Unsent = <<>> /\ Len(Unsent) = 0
  BY DEF Unsent, Told
<1>4. Len(Out) = Len(written) + Len(Unsent) /\ Len(written) \in Nat
  BY <1>1, ConcatFacts DEF Out
<1> QED BY <1>1, <1>2, <1>3, <1>4

\* The number and the kind of the last request taken.
LEMMA LastIs ==
  ASSUME TypeOK, Whole
  PROVE  /\ LastReq \in Nat
         /\ taken > 0 => /\ LastReq = stream[taken].req /\ LastReq > 0 /\ taken \in 1 .. Len(stream)
                         /\ KindIn(stream, LastReq) = stream[taken].kind
<1>1. taken \in Nat /\ (taken > 0 => taken \in 1 .. Len(stream))
  BY UnitAt
<1>2. taken > 0 => LastReq = stream[taken].req /\ stream[taken].req \in 1 .. MaxRequests
  BY <1>1, UnitAt DEF LastReq
<1>3. taken = 0 => LastReq = 0
  BY DEF LastReq
<1>4. taken > 0 => KindIn(stream, LastReq) = stream[taken].kind
  BY <1>1, <1>2, KindIs
<1> QED BY <1>1, <1>2, <1>3, <1>4

LEMMA SameLast ==
  ASSUME stream' = stream, taken' = taken
  PROVE  LastReq' = LastReq
BY DEF LastReq

\* The next line or header is that of the next request.
LEMMA ParsedReq ==
  ASSUME TypeOK, Whole, Dialect, Place, At("conn_parse_cmd"), HasHead, taken' = taken + HeadLen, stream' = stream
  PROVE  /\ LastReq \in Nat /\ LastReq' \in Nat /\ LastReq' = LastReq + 1 /\ Start.req = LastReq'
         /\ KindIn(stream, LastReq') = Start.kind
<1>1. Start.part = 1 /\ c.rbytes > 0 /\ Left = 0
  BY ParsesAtStart DEF At, Place, Between
<1>2. taken' > 0 /\ taken' \in 1 .. Len(stream) /\ stream[taken'].kind = Start.kind /\ stream[taken'].req = Start.req
  BY <1>1, HeadTaken
<1>3. LastReq' = Start.req
  BY <1>2 DEF LastReq
<1>4. LastReq \in Nat /\ taken \in Nat /\ Len(stream) \in Nat /\ taken < Len(stream)
      /\ \A p \in 1 .. Len(stream) : stream[p].req \in 1 .. MaxRequests /\ stream[p].part \in 1 .. 4
  BY <1>1, LastIs, UnitAt
<1>5. Start.req = LastReq + 1
  <2>1. CASE taken = 0
    <3>1. 1 \in 1 .. Len(stream) /\ Start = stream[1] /\ LastReq = 0
      BY <1>4, <2>1 DEF Start, LastReq
    <3>2. stream[1].req \in 1 .. MaxRequests
      BY <1>4, <3>1
    <3>3. 1 \in 1 .. stream[1].req
      BY <3>2
    <3>4. \E q \in 1 .. 1 : stream[q].req = 1
      BY <3>1, <3>3 DEF Whole, Numbered
    <3> QED BY <3>1, <3>4
  <2>2. CASE taken > 0
    <3>1. taken \in 1 .. Len(stream) - 1 /\ taken \in 1 .. Len(stream) /\ LastReq = stream[taken].req
          /\ Start = stream[taken + 1]
      BY <1>4, <2>2 DEF LastReq, Start
    <3>2. stream[taken].part \in 1 .. 4 /\ Parts(stream[taken].kind) \in 2 .. 4
      BY <1>4, <3>1, PartsIs
    <3>3. stream[taken].part = Parts(stream[taken].kind)
      BY <1>1, <2>2, <3>2 DEF Left
    <3>4. ~(stream[taken].part < Parts(stream[taken].kind))
      BY <3>2, <3>3
    <3> QED BY <3>1, <3>4 DEF Whole, Successive
  <2> QED BY <1>4, <2>1, <2>2
<1>6. KindIn(stream, LastReq') = Start.kind
  BY <1>2, <1>3, KindIs
<1> QED BY <1>3, <1>4, <1>5, <1>6

\* A step that adds no reply.
LEMMA QuietStep ==
  ASSUME TypeOK, TypeOK', Whole, Replied, stream' = stream, Begins(Out, Out'), LastReq' \in Nat, LastReq <= LastReq',
         c'.state \notin Ended =>
           /\ c.state \notin Ended /\ Len(Out') = Len(Out)
           /\ \/ Settling' = Settling
              \/ Settling = Settling' - 1 /\ Settling' \in Nat /\ ~AlwaysAnswered(KindIn(stream, Settling'))
  PROVE  Replied'
<1> DEFINE u == Out
           s == Out'
           st == stream
           n == Settling'
<1>1. u \in Seq(Replies) /\ s \in Seq(Replies)
  <2>1. Out \in Seq(Replies)
    BY OutType
  <2>2. ToSend' \in Seq(Replies) /\ written' \in Seq(Replies)
    BY DEF TypeOK, ToSend
  <2>3. Unsent' \in Seq(Replies)
    BY <2>2 DEF Unsent
  <2> QED BY <2>1, <2>2, <2>3 DEF Out
<1>2. Good(st, u) /\ UpTo(u, LastReq) /\ (c.state \notin Ended => Settled(st, u, Settling)) /\ LastReq \in Nat
  BY LastIs DEF Replied, Ended
<1> HIDE DEF u, s, st, n
<1>3. Begins(u, s)
  BY DEF u, s
<1>4. Good(st, s)
  BY <1>1, <1>2, <1>3, GoodBegins
<1>5. UpTo(s, LastReq')
  BY <1>1, <1>2, <1>3, UpToBegins
<1>6. ASSUME c'.state \notin Ended PROVE Settled(st, s, n)
  <2>1. Settled(st, u, Settling) /\ Len(u) = Len(s)
    BY <1>2, <1>6 DEF u, s
  <2>2. CASE n = Settling
    BY <1>1, <1>3, <2>1, <2>2, SettledSame
  <2>3. CASE Settling = n - 1 /\ n \in Nat /\ ~AlwaysAnswered(KindIn(st, n))
    <3>1. Settled(st, u, n - 1)
      BY <2>1, <2>3
    <3>2. Settled(st, u, n)
      BY <1>1, <2>3, <3>1, SettledSkip
    <3> QED BY <1>1, <1>3, <2>1, <3>2, SettledSame
  <2> QED BY <1>6, <2>2, <2>3 DEF n, st
<1> QED BY <1>4, <1>5, <1>6 DEF u, s, st, n, Replied, Ended

\* A step between states that have nothing to send.
LEMMA NoTellStep ==
  ASSUME TypeOK, TypeOK', Whole, Replied, UNCHANGED <<stream, written>>, c.state \notin Told, c'.state \notin Told,
         LastReq' \in Nat, LastReq <= LastReq',
         c'.state \notin Ended =>
           /\ c.state \notin Ended
           /\ \/ Settling' = Settling
              \/ Settling = Settling' - 1 /\ Settling' \in Nat /\ ~AlwaysAnswered(KindIn(stream, Settling'))
  PROVE  Replied'
<1>1. Unsent = <<>> /\ Unsent' = <<>>
  BY DEF Unsent, Told
<1>2. Out' = Out
  BY <1>1 DEF Out
<1>3. Out \in Seq(Replies) /\ Len(Out) \in Nat
  BY OutType, ReplyAt
<1>4. Begins(Out, Out')
  BY <1>2, <1>3 DEF Begins
<1> QED BY <1>2, <1>4, QuietStep

\* A step that puts the answer of the next request together.
LEMMA TellStep ==
  ASSUME TypeOK, TypeOK', Whole, Replied, UNCHANGED <<stream, written>>, c.state \notin Told, c.state \notin Ended,
         c'.state \in Told, NEW m \in Seq(Replies), ToSend' = m, NEW n \in Nat, Settling = n - 1, LastReq' = n,
         Len(m) \in 1 .. 2, \A i \in 1 .. Len(m) : m[i].req = n /\ Honest(KindIn(stream, n), m[i].what),
         m[Len(m)].what # "VALUE", Len(m) = 2 => m[1].what = "VALUE"
  PROVE  Replied'
<1> DEFINE s == Out
           u == written \o m
<1>1. written \in Seq(Replies) /\ s \in Seq(Replies) /\ Len(s) = Len(written) /\ Begins(written, s)
  BY OutType
<1>2. Out' = u
  BY DEF Out, Unsent, Told
<1>3. /\ u \in Seq(Replies) /\ Len(written) \in Nat /\ Len(m) \in Nat /\ Len(u) = Len(written) + Len(m)
      /\ \A i \in 1 .. Len(written) : u[i] = written[i]
      /\ \A i \in 1 .. Len(m) : u[Len(written) + i] = m[i]
  BY <1>1, ConcatFacts
<1>4. Good(stream, s) /\ Settled(stream, s, n - 1)
  BY DEF Replied, Ended
<1> HIDE DEF s, u
<1>5. Begins(u, s)
  BY <1>1, <1>3 DEF Begins
<1>6. Len(u) \in {Len(s) + 1, Len(s) + 2}
  BY <1>1, <1>3
<1>7. ASSUME NEW i \in 1 .. Len(u), i > Len(s) PROVE u[i].req = n /\ Honest(KindIn(stream, n), u[i].what)
  <2> DEFINE k == i - Len(s)
  <2>1. k \in 1 .. Len(m) /\ Len(written) + k = i
    BY <1>1, <1>3, <1>7
  <2> HIDE DEF k
  <2>2. u[i] = m[k]
    BY <1>3, <2>1
  <2> QED BY <2>1, <2>2
<1>8. u[Len(u)].what # "VALUE"
  <2>1. Len(m) \in 1 .. Len(m)
    <3> DEFINE k == Len(m)
    <3>1. k \in 1 .. 2
      OBVIOUS
    <3> HIDE DEF k
    <3>2. k \in 1 .. k
      BY <3>1
    <3> QED BY <3>2 DEF k
  <2>2. u[Len(u)] = m[Len(m)]
    BY <1>3, <2>1
  <2> QED BY <2>2
<1>9. Len(u) = Len(s) + 2 => u[Len(s) + 1].what = "VALUE"
  <2>1. SUFFICES ASSUME Len(u) = Len(s) + 2 PROVE u[Len(s) + 1].what = "VALUE"
    OBVIOUS
  <2>2. Len(m) = 2 /\ 1 \in 1 .. Len(m)
    BY <1>1, <1>3, <2>1
  <2>3. u[Len(written) + 1] = m[1]
    BY <1>3, <2>2
  <2> QED BY <1>1, <2>2, <2>3
<1>10. Good(stream, u) /\ Settled(stream, u, n)
  BY <1>1, <1>3, <1>4, <1>5, <1>6, <1>7, <1>8, <1>9, GoodAppend
<1>11. Settling' = n
  BY DEF Settling, Told
<1>12. UpTo(u, n)
  BY <1>10 DEF Settled
<1> QED BY <1>2, <1>10, <1>11, <1>12 DEF Replied

LEMMA Tell1Step ==
  ASSUME TypeOK, TypeOK', Whole, Replied, UNCHANGED <<stream, written>>, c.state \notin Told, c.state \notin Ended,
         c'.state \in Told, NEW r \in Replies, ToSend' = <<r>>, NEW n \in Nat, Settling = n - 1, LastReq' = n,
         r.req = n, r.what # "VALUE", Honest(KindIn(stream, n), r.what)
  PROVE  Replied'
<1> DEFINE m == <<r>>
<1>1. m \in Seq(Replies) /\ Len(m) = 1 /\ m[1] = r
  OBVIOUS
<1> HIDE DEF m
<1>2. ToSend' = m
  BY DEF m
<1>3. Len(m) \in 1 .. 2 /\ Len(m) # 2 /\ m[Len(m)] = r /\ \A i \in 1 .. Len(m) : m[i] = r
  BY <1>1
<1> QED BY <1>1, <1>2, <1>3, TellStep

\* The number of the last request stays, and nothing is said.
LEMMA KeptQuiet ==
  ASSUME TypeOK, TypeOK', Whole, Replied, UNCHANGED <<stream, written>>, LastReq' = LastReq,
         c.state \notin Told, c'.state \notin Told,
         c'.state \notin Ended => c.state \notin Ended /\ (c'.state = "conn_nread" <=> c.state = "conn_nread")
  PROVE  Replied'
<1>1. LastReq \in Nat /\ LastReq' \in Nat /\ LastReq <= LastReq'
  BY LastIs
<1>2. (c'.state = "conn_nread" <=> c.state = "conn_nread") => Settling' = Settling
  BY DEF Settling
<1> QED BY <1>1, <1>2, NoTellStep

\* The next request says nothing, or nothing yet.
LEMMA ParsedQuiet ==
  ASSUME TypeOK, TypeOK', Whole, Dialect, Place, Replied, At("conn_parse_cmd"), HasHead,
         taken' = taken + HeadLen, UNCHANGED <<stream, written>>,
         \/ c'.state \in {"conn_nread", "conn_closing"}
         \/ c'.state = "conn_new_cmd" /\ ~AlwaysAnswered(Start.kind)
  PROVE  Replied'
<1>1. LastReq \in Nat /\ LastReq' \in Nat /\ LastReq' = LastReq + 1 /\ KindIn(stream, LastReq') = Start.kind
  BY ParsedReq
<1>2. c.state \notin Told /\ c'.state \notin Told /\ c.state \notin Ended /\ Settling = LastReq
  BY DEF At, Told, Ended, Settling
<1>3. c'.state = "conn_nread" => Settling' = Settling
  BY <1>1, <1>2 DEF Settling
<1>4. c'.state = "conn_new_cmd" =>
        Settling = Settling' - 1 /\ Settling' \in Nat /\ ~AlwaysAnswered(KindIn(stream, Settling'))
  <2>1. SUFFICES ASSUME c'.state = "conn_new_cmd"
                 PROVE  Settling = Settling' - 1 /\ Settling' \in Nat /\ ~AlwaysAnswered(KindIn(stream, Settling'))
    OBVIOUS
  <2>2. Settling' = LastReq' /\ ~AlwaysAnswered(Start.kind)
    BY <2>1 DEF Settling
  <2> QED BY <1>1, <1>2, <2>2
<1>5. LastReq <= LastReq' /\ (c'.state \notin Ended => c'.state \in {"conn_nread", "conn_new_cmd"})
  BY <1>1 DEF Ended
<1> QED BY <1>1, <1>2, <1>3, <1>4, <1>5, NoTellStep

\* The next request is answered at once.
LEMMA ParsedTells ==
  ASSUME TypeOK, TypeOK', Whole, Dialect, Place, Replied, At("conn_parse_cmd"), HasHead,
         taken' = taken + HeadLen, UNCHANGED <<stream, written>>, c'.state \in Told,
         NEW r \in Replies, ToSend' = <<r>>, r.req = Start.req, r.what # "VALUE", Honest(Start.kind, r.what)
  PROVE  Replied'
<1> DEFINE n == LastReq'
<1>1. LastReq \in Nat /\ n \in Nat /\ n = LastReq + 1 /\ Start.req = n /\ KindIn(stream, n) = Start.kind
  BY ParsedReq
<1>2. c.state \notin Told /\ c.state \notin Ended /\ Settling = LastReq
  BY DEF At, Told, Ended, Settling
<1>3. LastReq' = n
  OBVIOUS
<1> HIDE DEF n
<1>4. Settling = n - 1 /\ r.req = n /\ Honest(KindIn(stream, n), r.what)
  BY <1>1, <1>2
<1> QED BY <1>1, <1>2, <1>3, <1>4, Tell1Step

\* The request whose data has come says nothing.
LEMMA NreadQuiet ==
  ASSUME TypeOK, TypeOK', Whole, Replied, Keep, At("conn_nread"), taken > 0,
         c'.state = "conn_new_cmd", ~AlwaysAnswered(stream[taken].kind)
  PROVE  Replied'
<1>1. LastReq' = LastReq /\ UNCHANGED <<stream, written>>
  BY SameLast DEF Keep
<1>2. LastReq \in Nat /\ KindIn(stream, LastReq) = stream[taken].kind
  BY LastIs
<1>3. c.state \notin Told /\ c'.state \notin Told /\ c.state \notin Ended /\ Settling = LastReq - 1 /\ Settling' = LastReq'
  BY DEF At, Told, Ended, Settling
<1>4. Settling = Settling' - 1 /\ Settling' \in Nat /\ ~AlwaysAnswered(KindIn(stream, Settling'))
  BY <1>1, <1>2, <1>3
<1>5. LastReq' \in Nat /\ LastReq <= LastReq'
  BY <1>1, <1>2
<1> QED BY <1>1, <1>3, <1>4, <1>5, NoTellStep

LEMMA NreadTells ==
  ASSUME TypeOK, TypeOK', Whole, Replied, Keep, At("conn_nread"), taken > 0, c'.state \in Told,
         NEW r \in Replies, ToSend' = <<r>>, r.req = stream[taken].req, r.what # "VALUE",
         Honest(stream[taken].kind, r.what)
  PROVE  Replied'
<1> DEFINE n == LastReq
<1>1. LastReq' = n /\ UNCHANGED <<stream, written>>
  BY SameLast DEF Keep
<1>2. n \in Nat /\ n = stream[taken].req /\ KindIn(stream, n) = stream[taken].kind
  BY LastIs
<1>3. c.state \notin Told /\ c.state \notin Ended /\ Settling = n - 1
  BY DEF At, Told, Ended, Settling
<1> HIDE DEF n
<1>4. r.req = n /\ Honest(KindIn(stream, n), r.what)
  BY <1>2
<1> QED BY <1>1, <1>2, <1>3, <1>4, Tell1Step

\* The data of the last request leaves its number as it is.
LEMMA DataQuiet ==
  ASSUME TypeOK, TypeOK', Whole, Place, Replied, Noting, WantsData, UNCHANGED <<stream, written>>,
         NEW n \in 0 .. 2, Advanced(c', n), c'.state \in {c.state, "conn_closing"}
  PROVE  Replied' /\ Noting'
<1>1. /\ taken > 0 /\ taken' > 0
      /\ stream'[taken'].kind = stream[taken].kind /\ stream'[taken'].req = stream[taken].req
  BY DataOfRequest
<1>2. LastReq' = LastReq
  BY <1>1, UnitAt DEF LastReq
<1>3. c.state \in {"conn_nread", "conn_swallow"}
  BY DEF WantsData, At
<1>4. Replied'
  BY <1>2, <1>3, KeptQuiet DEF Told, Ended
<1>5. SameMode(c', c) /\ SameOut(c', c)
  BY DEF Advanced
<1>6. Noting'
  BY <1>1, <1>3, <1>5 DEF Noting, SameMode, SameOut
<1> QED BY <1>4, <1>6

\* What has not been sent follows what has: nothing is lost between the two.
LEMMA TransmitQuiet ==
  ASSUME TypeOK, TypeOK', Whole, Replied, Transmit
  PROVE  Replied'
<1>1. UNCHANGED <<stream, taken>> /\ c.state \in Told
  BY DEF Transmit, Writing, At, Told
<1>2. PICK n \in 1 .. Len(ToSend) : /\ written' = written \o SubSeq(ToSend, 1, n)
                                    /\ c'.msgs = SubSeq(ToSend, n + 1, Len(ToSend))
  BY TransmitDoes
<1>3. c'.state = c.state /\ c'.iovused
  BY TransmitDoes
<1>4. written \in Seq(Replies) /\ ToSend \in Seq(Replies)
  BY ToSendType DEF TypeOK
<1> DEFINE s == written
           t == ToSend
           u == (s \o SubSeq(t, 1, n)) \o SubSeq(t, n + 1, Len(t))
           w == s \o t
<1>5. Out = w
  BY <1>1 DEF Out, Unsent, Told
<1>6. Unsent' = c'.msgs
  BY <1>1, <1>3 DEF Unsent, ToSend, Told
<1>7. Out' = u
  BY <1>2, <1>6 DEF Out
<1>8. Len(u) = Len(w) /\ Begins(w, u)
  <2> HIDE DEF s, t, u, w
  <2>1. s \in Seq(Replies) /\ t \in Seq(Replies) /\ n \in 1 .. Len(t)
    BY <1>4 DEF s, t
  <2> QED BY <2>1, CutBegins DEF u, w
<1> HIDE DEF u, w
<1>9. LastReq' = LastReq /\ LastReq \in Nat
  BY <1>1, SameLast, LastIs
<1>10. Settling' = Settling
  BY <1>3, <1>9 DEF Settling
<1>11. c.state \notin Ended /\ Len(Out') = Len(Out) /\ Begins(Out, Out') /\ LastReq' \in Nat /\ LastReq <= LastReq'
  BY <1>1, <1>5, <1>7, <1>8, <1>9 DEF Told, Ended
<1> QED BY <1>1, <1>10, <1>11, QuietStep

\* Nothing more is sent: all of it has been, or the connection is given up.
LEMMA LeavesTelling ==
  ASSUME TypeOK, TypeOK', Whole, Replied, Keep, c.state \in Told, c'.state \notin Told, c'.state # "conn_nread",
         c'.state \notin Ended => ToSend = <<>>
  PROVE  Replied'
<1>1. UNCHANGED <<stream, written>> /\ LastReq' = LastReq /\ LastReq \in Nat
  BY SameLast, LastIs DEF Keep
<1>2. Unsent' = <<>> /\ Unsent = ToSend
  BY DEF Unsent, Told
<1>3. written \in Seq(Replies) /\ Begins(Out, written) /\ ToSend \in Seq(Replies)
  BY OutType, ToSendType
<1>4. Out' = written \o <<>>
  BY <1>1, <1>2 DEF Out
<1>5. Out' = written
  BY <1>3, <1>4
<1>6. c'.state \notin Ended => Len(Out') = Len(Out)
  <2>1. SUFFICES ASSUME c'.state \notin Ended PROVE Len(Out') = Len(Out)
    OBVIOUS
  <2>2. Out = written \o <<>>
    BY <1>2, <2>1 DEF Out
  <2> QED BY <1>4, <2>2
<1>7. c.state \notin Ended /\ Settling' = Settling
  BY <1>1 DEF Told, Ended, Settling
<1>8. Begins(Out, Out') /\ LastReq' \in Nat /\ LastReq <= LastReq'
  BY <1>1, <1>3, <1>5
<1> QED BY <1>1, <1>6, <1>7, <1>8, QuietStep

\* What is to be sent stays as it is.
LEMMA KeepsTelling ==
  ASSUME Replied, Keep, c'.state = c.state, c.state \in Told => ToSend' = ToSend
  PROVE  Replied'
<1>1. UNCHANGED <<stream, written>> /\ LastReq' = LastReq
  BY SameLast DEF Keep
<1>2. Unsent' = Unsent
  BY DEF Unsent, Told
<1>3. Out' = Out /\ Settling' = Settling
  BY <1>1, <1>2 DEF Out, Settling
<1> QED BY <1>1, <1>3 DEF Replied

\* Who answers, and with what.
LEMMA WhoAnswers ==
  ASSUME NEW kind
  PROVE  /\ kind = "get" => Honest(kind, "VALUE") /\ Honest(kind, "END")
         /\ kind \in {"touch", "set", "noop", "bget", "bgetq", "bdel", "bset", "bquit"} => Honest(kind, "LINE")
         /\ kind \in {"junk", "unknown", "bad", "bget", "bdel", "bdelq", "bset", "bsetq"} => Honest(kind, "ERROR")
         /\ kind \in {"quiet", "quit", "setq", "bgetq", "bsetq", "bdelq", "bquitq", "magic"} => ~AlwaysAnswered(kind)
BY DEF Honest, NeverAnswered, AlwaysAnswered, IsQuiet

LEMMA DriveKeepsReplied ==
  ASSUME Base, Dialect, Place, Replied, Noting, Drive, "setq" \notin Failures
  PROVE  Replied' /\ Noting'
<1>1. TypeOK /\ Whole /\ Holds /\ Dialect /\ Place /\ TypeOK'
  BY DriveKeepsBase DEF Base
<1>2. CASE Waiting
  <2>1. At("conn_waiting") /\ Keep
    BY <1>2 DEF Waiting
  <2>2. c'.state \in {"conn_read", "conn_closing"}
    BY <1>1, <2>1, <1>2, WaitingDoes
  <2>3. c.state = "conn_waiting" /\ UNCHANGED <<stream, written>> /\ LastReq' = LastReq
    BY <2>1, SameLast DEF At, Keep
  <2>4. Replied'
    BY <1>1, <2>2, <2>3, KeptQuiet DEF Told, Ended
  <2> QED BY <2>2, <2>4 DEF Noting
<1>3. CASE ReadData
  <2>1. At("conn_read") /\ Keep
    BY <1>3 DEF ReadData
  <2>2. c'.state \in {"conn_parse_cmd"}
    BY <1>1, <2>1, <1>3, ReadDataDoes
  <2>3. c.state = "conn_read" /\ UNCHANGED <<stream, written>> /\ LastReq' = LastReq
    BY <2>1, SameLast DEF At, Keep
  <2>4. Replied'
    BY <1>1, <2>2, <2>3, KeptQuiet DEF Told, Ended
  <2> QED BY <2>2, <2>4 DEF Noting
<1>4. CASE ReadNothing
  <2>1. At("conn_read") /\ Keep /\ Continue(Go(c, "conn_waiting"))
    BY <1>4 DEF ReadNothing
  <2>2. c'.state \in {"conn_waiting"}
    BY <1>1, <2>1, GoesDoes DEF States
  <2>3. c.state = "conn_read" /\ UNCHANGED <<stream, written>> /\ LastReq' = LastReq
    BY <2>1, SameLast DEF At, Keep
  <2>4. Replied'
    BY <1>1, <2>2, <2>3, KeptQuiet DEF Told, Ended
  <2> QED BY <2>2, <2>4 DEF Noting
<1>5. CASE ReadEof
  <2>1. At("conn_read") /\ Keep /\ Continue(Go(c, "conn_closing"))
    BY <1>5 DEF ReadEof
  <2>2. c'.state \in {"conn_closing"}
    BY <1>1, <2>1, GoesDoes DEF States
  <2>3. c.state = "conn_read" /\ UNCHANGED <<stream, written>> /\ LastReq' = LastReq
    BY <2>1, SameLast DEF At, Keep
  <2>4. Replied'
    BY <1>1, <2>2, <2>3, KeptQuiet DEF Told, Ended
  <2> QED BY <2>2, <2>4 DEF Noting
<1>6. CASE NeedMore
  <2>1. At("conn_parse_cmd") /\ Keep
    BY <1>6 DEF NeedMore
  <2>2. c'.state \in {"conn_waiting"}
    BY <1>1, <2>1, <1>6, NeedMoreDoes
  <2>3. c.state = "conn_parse_cmd" /\ UNCHANGED <<stream, written>> /\ LastReq' = LastReq
    BY <2>1, SameLast DEF At, Keep
  <2>4. Replied'
    BY <1>1, <2>2, <2>3, KeptQuiet DEF Told, Ended
  <2> QED BY <2>2, <2>4 DEF Noting
<1>7. CASE ProcessGet
  <2>1. At("conn_parse_cmd") /\ HasHead /\ UNCHANGED <<stream, written>>
    BY <1>7 DEF ProcessGet, AtRequest, Processed
  <2>2. Took(c')
    BY <1>1, <1>7, ProcessGetDoes
  <2>3. taken' = taken + HeadLen
    BY <2>2 DEF Took
  <2>4. /\ Start.part = 1
        /\ Protocol = "binary" <=> Start.kind \in BinaryKinds
        /\ c.noreply => Protocol = "binary"
        /\ stream'[taken'].kind = Start.kind
    BY <1>1, <2>1, <2>3, ParsedFacts
  <2>5. Start.kind \in {"get"}
    BY <1>7, <2>4 DEF ProcessGet, AtRequest
  <2>6. \A what \in {"VALUE", "END", "LINE", "ERROR"} :
          Reply(what) \in Replies /\ Reply(what).req = Start.req /\ Reply(what).what = what
    <3>1. c.rbytes > 0
      BY <1>1, <2>1, HeadIs
    <3> QED BY <1>1, <3>1, ReplyIs
  <2> DEFINE m == c'.msgs
           k == LastReq'
  <2>7. /\ c'.state \in Told /\ ToSend' = m /\ m \in Seq(Replies) /\ Len(m) \in 1 .. 2
        /\ m[Len(m)] = Reply("END") /\ (Len(m) = 2 => m[1] = Reply("VALUE"))
    BY <1>1, <1>7, ProcessGetDoes DEF ToSend, Told, ConnType
  <2>8. LastReq \in Nat /\ k \in Nat /\ k = LastReq + 1 /\ Start.req = k /\ KindIn(stream, k) = Start.kind
    BY <1>1, <2>1, <2>3, ParsedReq
  <2>9. c.state \notin Told /\ c.state \notin Ended /\ Settling = LastReq /\ LastReq' = k
    BY <2>1 DEF At, Told, Ended, Settling
  <2> HIDE DEF m, k
  <2>10. \A i \in 1 .. Len(m) : m[i] \in {Reply("VALUE"), Reply("END")}
    BY <2>7
  <2>11. Honest(Start.kind, "VALUE") /\ Honest(Start.kind, "END")
    BY <2>5, WhoAnswers
  <2>12. \A i \in 1 .. Len(m) : m[i].req = k /\ Honest(KindIn(stream, k), m[i].what)
    BY <2>6, <2>8, <2>10, <2>11
  <2>13. m[Len(m)].what # "VALUE" /\ (Len(m) = 2 => m[1].what = "VALUE") /\ Settling = k - 1
    BY <2>6, <2>7, <2>8, <2>9
  <2>14. Replied'
    BY <1>1, <2>1, <2>7, <2>8, <2>9, <2>12, <2>13, TellStep
  <2>15. c'.state # "conn_nread"
    BY <2>7 DEF Told
  <2> QED BY <2>14, <2>15 DEF Noting
<1>8. CASE ProcessShort
  <2>1. At("conn_parse_cmd") /\ HasHead /\ UNCHANGED <<stream, written>>
    BY <1>8 DEF ProcessShort, AtRequest, Processed
  <2>2. Took(c')
    BY <1>1, <1>8, ProcessShortDoes
  <2>3. taken' = taken + HeadLen
    BY <2>2 DEF Took
  <2>4. /\ Start.part = 1
        /\ Protocol = "binary" <=> Start.kind \in BinaryKinds
        /\ c.noreply => Protocol = "binary"
        /\ stream'[taken'].kind = Start.kind
    BY <1>1, <2>1, <2>3, ParsedFacts
  <2>5. Start.kind \in {"touch", "quiet"}
    BY <1>8, <2>4 DEF ProcessShort, AtRequest
  <2>6. \A what \in {"VALUE", "END", "LINE", "ERROR"} :
          Reply(what) \in Replies /\ Reply(what).req = Start.req /\ Reply(what).what = what
    <3>1. c.rbytes > 0
      BY <1>1, <2>1, HeadIs
    <3> QED BY <1>1, <3>1, ReplyIs
  <2>7. Answered1(c', Noted, "LINE")
    BY <1>1, <1>8, ProcessShortDoes
  <2>8. Noted => Start.kind \in {"quiet"}
    BY <2>4, <2>5 DEF Noted, IsNoreply, BinaryKinds
  <2>9. ~Noted => Start.kind \in {"touch"}
    BY <2>5 DEF Noted, IsNoreply
  <2>10. CASE Noted
    <3>1. c'.state = "conn_new_cmd" /\ ~AlwaysAnswered(Start.kind)
      BY <2>7, <2>8, <2>10, WhoAnswers DEF Answered1
    <3>2. Replied'
      BY <1>1, <2>1, <2>3, <3>1, ParsedQuiet
    <3> QED BY <3>1, <3>2 DEF Noting
  <2>11. CASE ~Noted
    <3> DEFINE r == Reply("LINE")
    <3>1. c'.state = "conn_write" /\ c'.wbuf = <<r>> /\ ~c'.iovused
      BY <2>7, <2>11 DEF Answered1
    <3>2. c'.state \in Told /\ ToSend' = <<r>>
      BY <3>1 DEF Told, ToSend
    <3>3. r \in Replies /\ r.req = Start.req /\ r.what = "LINE" /\ Honest(Start.kind, "LINE")
      BY <2>6, <2>9, <2>11, WhoAnswers
    <3> HIDE DEF r
    <3>4. Replied'
      BY <1>1, <2>1, <2>3, <3>2, <3>3, ParsedTells
    <3> QED BY <3>1, <3>4 DEF Noting
  <2> QED BY <2>10, <2>11
<1>9. CASE ProcessUpdate
  <2>1. At("conn_parse_cmd") /\ HasHead /\ UNCHANGED <<stream, written>>
    BY <1>9 DEF ProcessUpdate, AtRequest, Processed
  <2>2. Took(c')
    BY <1>1, <1>9, ProcessUpdateDoes
  <2>3. taken' = taken + HeadLen
    BY <2>2 DEF Took
  <2>4. /\ Start.part = 1
        /\ Protocol = "binary" <=> Start.kind \in BinaryKinds
        /\ c.noreply => Protocol = "binary"
        /\ stream'[taken'].kind = Start.kind
    BY <1>1, <2>1, <2>3, ParsedFacts
  <2>5. Start.kind \in {"set", "setq"}
    BY <1>9, <2>4 DEF ProcessUpdate, AtRequest
  <2>6. \A what \in {"VALUE", "END", "LINE", "ERROR"} :
          Reply(what) \in Replies /\ Reply(what).req = Start.req /\ Reply(what).what = what
    <3>1. c.rbytes > 0
      BY <1>1, <2>1, HeadIs
    <3> QED BY <1>1, <3>1, ReplyIs
  <2>7. c'.state = "conn_nread" /\ c'.noreply = Noted /\ ~c'.iovused
    BY <1>1, <1>9, ProcessUpdateDoes
  <2>8. Noted <=> IsQuiet(Start.kind) \/ IsNoreply(Start.kind)
    BY <2>4, <2>5 DEF Noted, IsQuiet, IsNoreply, BinaryKinds
  <2>9. Replied'
    BY <1>1, <2>1, <2>3, <2>7, ParsedQuiet
  <2> QED BY <2>4, <2>7, <2>8, <2>9 DEF Noting
<1>10. CASE ProcessUpdateFails
  <2>1. At("conn_parse_cmd") /\ HasHead /\ UNCHANGED <<stream, written>>
    BY <1>10 DEF ProcessUpdateFails, AtRequest, Processed
  <2>2. Took(c')
    BY <1>1, <1>10, ProcessUpdateFailsDoes
  <2>3. taken' = taken + HeadLen
    BY <2>2 DEF Took
  <2>4. /\ Start.part = 1
        /\ Protocol = "binary" <=> Start.kind \in BinaryKinds
        /\ c.noreply => Protocol = "binary"
        /\ stream'[taken'].kind = Start.kind
    BY <1>1, <2>1, <2>3, ParsedFacts
  <2>5. Start.kind \in {"set"}
    BY <1>10, <2>4 DEF ProcessUpdateFails, AtRequest
  <2>6. \A what \in {"VALUE", "END", "LINE", "ERROR"} :
          Reply(what) \in Replies /\ Reply(what).req = Start.req /\ Reply(what).what = what
    <3>1. c.rbytes > 0
      BY <1>1, <2>1, HeadIs
    <3> QED BY <1>1, <3>1, ReplyIs
  <2>7. Answered1(c', Noted, "LINE")
    BY <1>1, <1>10, ProcessUpdateFailsDoes
  <2>8. Noted => Start.kind \in {"setq"}
    BY <2>4, <2>5 DEF Noted, IsNoreply, BinaryKinds
  <2>9. ~Noted => Start.kind \in {"set"}
    BY <2>5 DEF Noted, IsNoreply
  <2>10. CASE Noted
    <3>1. c'.state = "conn_new_cmd" /\ ~AlwaysAnswered(Start.kind)
      BY <2>7, <2>8, <2>10, WhoAnswers DEF Answered1
    <3>2. Replied'
      BY <1>1, <2>1, <2>3, <3>1, ParsedQuiet
    <3> QED BY <3>1, <3>2 DEF Noting
  <2>11. CASE ~Noted
    <3> DEFINE r == Reply("LINE")
    <3>1. c'.state = "conn_write" /\ c'.wbuf = <<r>> /\ ~c'.iovused
      BY <2>7, <2>11 DEF Answered1
    <3>2. c'.state \in Told /\ ToSend' = <<r>>
      BY <3>1 DEF Told, ToSend
    <3>3. r \in Replies /\ r.req = Start.req /\ r.what = "LINE" /\ Honest(Start.kind, "LINE")
      BY <2>6, <2>9, <2>11, WhoAnswers
    <3> HIDE DEF r
    <3>4. Replied'
      BY <1>1, <2>1, <2>3, <3>2, <3>3, ParsedTells
    <3> QED BY <3>1, <3>4 DEF Noting
  <2> QED BY <2>10, <2>11
<1>11. CASE ProcessQuit
  <2>1. At("conn_parse_cmd") /\ HasHead /\ UNCHANGED <<stream, written>>
    BY <1>11 DEF ProcessQuit, AtRequest, Processed
  <2>2. Took(c')
    BY <1>1, <1>11, ProcessQuitDoes
  <2>3. taken' = taken + HeadLen
    BY <2>2 DEF Took
  <2>4. /\ Start.part = 1
        /\ Protocol = "binary" <=> Start.kind \in BinaryKinds
        /\ c.noreply => Protocol = "binary"
        /\ stream'[taken'].kind = Start.kind
    BY <1>1, <2>1, <2>3, ParsedFacts
  <2>5. Start.kind \in {"quit"}
    BY <1>11, <2>4 DEF ProcessQuit, AtRequest
  <2>6. \A what \in {"VALUE", "END", "LINE", "ERROR"} :
          Reply(what) \in Replies /\ Reply(what).req = Start.req /\ Reply(what).what = what
    <3>1. c.rbytes > 0
      BY <1>1, <2>1, HeadIs
    <3> QED BY <1>1, <3>1, ReplyIs
  <2>7. c'.state = "conn_closing"
    BY <1>1, <1>11, ProcessQuitDoes
  <2>8. Replied'
    BY <1>1, <2>1, <2>3, <2>7, ParsedQuiet
  <2> QED BY <2>7, <2>8 DEF Noting
<1>12. CASE ProcessUnknown
  <2>1. At("conn_parse_cmd") /\ HasHead /\ UNCHANGED <<stream, written>>
    BY <1>12 DEF ProcessUnknown, Processed
  <2>2. Took(c')
    BY <1>1, <1>12, ProcessUnknownDoes
  <2>3. taken' = taken + HeadLen
    BY <2>2 DEF Took
  <2>4. /\ Start.part = 1
        /\ Protocol = "binary" <=> Start.kind \in BinaryKinds
        /\ c.noreply => Protocol = "binary"
        /\ stream'[taken'].kind = Start.kind
    BY <1>1, <2>1, <2>3, ParsedFacts
  <2>5. Start.kind \in {"junk"}
    BY <1>12, <2>4 DEF ProcessUnknown
  <2>6. \A what \in {"VALUE", "END", "LINE", "ERROR"} :
          Reply(what) \in Replies /\ Reply(what).req = Start.req /\ Reply(what).what = what
    <3>1. c.rbytes > 0
      BY <1>1, <2>1, HeadIs
    <3> QED BY <1>1, <3>1, ReplyIs
  <2>7. Answered1(c', c.noreply, "ERROR")
    BY <1>1, <1>12, ProcessUnknownDoes
  <2>8. c.noreply => Start.kind \in {"setq"}
    BY <2>4, <2>5 DEF Noted, IsNoreply, BinaryKinds
  <2>9. ~c.noreply => Start.kind \in {"junk"}
    BY <2>5 DEF Noted, IsNoreply
  <2>10. CASE c.noreply
    <3>1. c'.state = "conn_new_cmd" /\ ~AlwaysAnswered(Start.kind)
      BY <2>7, <2>8, <2>10, WhoAnswers DEF Answered1
    <3>2. Replied'
      BY <1>1, <2>1, <2>3, <3>1, ParsedQuiet
    <3> QED BY <3>1, <3>2 DEF Noting
  <2>11. CASE ~c.noreply
    <3> DEFINE r == Reply("ERROR")
    <3>1. c'.state = "conn_write" /\ c'.wbuf = <<r>> /\ ~c'.iovused
      BY <2>7, <2>11 DEF Answered1
    <3>2. c'.state \in Told /\ ToSend' = <<r>>
      BY <3>1 DEF Told, ToSend
    <3>3. r \in Replies /\ r.req = Start.req /\ r.what = "ERROR" /\ Honest(Start.kind, "ERROR")
      BY <2>6, <2>9, <2>11, WhoAnswers
    <3> HIDE DEF r
    <3>4. Replied'
      BY <1>1, <2>1, <2>3, <3>2, <3>3, ParsedTells
    <3> QED BY <3>1, <3>4 DEF Noting
  <2> QED BY <2>10, <2>11
<1>13. CASE BinNoop
  <2>1. At("conn_parse_cmd") /\ HasHead /\ UNCHANGED <<stream, written>>
    BY <1>13 DEF BinNoop, AtRequest, Processed
  <2>2. Took(c')
    BY <1>1, <1>13, BinNoopDoes
  <2>3. taken' = taken + HeadLen
    BY <2>2 DEF Took
  <2>4. /\ Start.part = 1
        /\ Protocol = "binary" <=> Start.kind \in BinaryKinds
        /\ c.noreply => Protocol = "binary"
        /\ stream'[taken'].kind = Start.kind
    BY <1>1, <2>1, <2>3, ParsedFacts
  <2>5. Start.kind \in {"noop"}
    BY <1>13, <2>4 DEF BinNoop, AtRequest
  <2>6. \A what \in {"VALUE", "END", "LINE", "ERROR"} :
          Reply(what) \in Replies /\ Reply(what).req = Start.req /\ Reply(what).what = what
    <3>1. c.rbytes > 0
      BY <1>1, <2>1, HeadIs
    <3> QED BY <1>1, <3>1, ReplyIs
  <2> DEFINE r == Reply("LINE")
  <2>7. c'.state = "conn_mwrite" /\ c'.msgs = <<r>>
    BY <1>1, <1>13, BinNoopDoes
  <2>8. c'.state \in Told /\ ToSend' = <<r>>
    BY <2>7 DEF Told, ToSend
  <2>9. r \in Replies /\ r.req = Start.req /\ r.what = "LINE" /\ Honest(Start.kind, "LINE")
    BY <2>5, <2>6, WhoAnswers
  <2> HIDE DEF r
  <2>10. Replied'
    BY <1>1, <2>1, <2>3, <2>8, <2>9, ParsedTells
  <2> QED BY <2>7, <2>10 DEF Noting
<1>14. CASE BinQuit
  <2>1. At("conn_parse_cmd") /\ HasHead /\ UNCHANGED <<stream, written>>
    BY <1>14 DEF BinQuit, AtRequest, Processed
  <2>2. Took(c')
    BY <1>1, <1>14, BinQuitDoes
  <2>3. taken' = taken + HeadLen
    BY <2>2 DEF Took
  <2>4. /\ Start.part = 1
        /\ Protocol = "binary" <=> Start.kind \in BinaryKinds
        /\ c.noreply => Protocol = "binary"
        /\ stream'[taken'].kind = Start.kind
    BY <1>1, <2>1, <2>3, ParsedFacts
  <2>5. Start.kind \in {"bquit", "bquitq"}
    BY <1>14, <2>4 DEF BinQuit, AtRequest
  <2>6. \A what \in {"VALUE", "END", "LINE", "ERROR"} :
          Reply(what) \in Replies /\ Reply(what).req = Start.req /\ Reply(what).what = what
    <3>1. c.rbytes > 0
      BY <1>1, <2>1, HeadIs
    <3> QED BY <1>1, <3>1, ReplyIs
  <2> DEFINE r == Reply("LINE")
  <2>7. /\ c'.noreply = (Start.kind = "bquitq")
        /\ \/ c'.noreply /\ c'.state = "conn_closing"
           \/ ~c'.noreply /\ c'.state = "conn_mwrite" /\ c'.msgs = <<r>>
    BY <1>1, <1>14, BinQuitDoes
  <2>8. CASE c'.state = "conn_closing"
    <3>1. Replied'
      BY <1>1, <2>1, <2>3, <2>8, ParsedQuiet
    <3> QED BY <2>8, <3>1 DEF Noting
  <2>9. CASE ~c'.noreply /\ c'.state = "conn_mwrite" /\ c'.msgs = <<r>>
    <3>1. c'.state \in Told /\ ToSend' = <<r>>
      BY <2>9 DEF Told, ToSend
    <3>2. Start.kind = "bquit"
      BY <2>5, <2>7, <2>9
    <3>3. r \in Replies /\ r.req = Start.req /\ r.what = "LINE" /\ Honest(Start.kind, "LINE")
      BY <2>6, <3>2, WhoAnswers
    <3> HIDE DEF r
    <3>4. Replied'
      BY <1>1, <2>1, <2>3, <3>1, <3>3, ParsedTells
    <3> QED BY <2>9, <3>4 DEF Noting
  <2> QED BY <2>7, <2>8, <2>9
<1>15. CASE BinReadKey
  <2>1. At("conn_parse_cmd") /\ HasHead /\ UNCHANGED <<stream, written>>
    BY <1>15 DEF BinReadKey, AtRequest, Processed
  <2>2. Took(c')
    BY <1>1, <1>15, BinReadKeyDoes
  <2>3. taken' = taken + HeadLen
    BY <2>2 DEF Took
  <2>4. /\ Start.part = 1
        /\ Protocol = "binary" <=> Start.kind \in BinaryKinds
        /\ c.noreply => Protocol = "binary"
        /\ stream'[taken'].kind = Start.kind
    BY <1>1, <2>1, <2>3, ParsedFacts
  <2>5. Start.kind \in KeyedKinds
    BY <1>15, <2>4 DEF BinReadKey, AtRequest, KeyedKinds
  <2>6. \A what \in {"VALUE", "END", "LINE", "ERROR"} :
          Reply(what) \in Replies /\ Reply(what).req = Start.req /\ Reply(what).what = what
    <3>1. c.rbytes > 0
      BY <1>1, <2>1, HeadIs
    <3> QED BY <1>1, <3>1, ReplyIs
  <2>7. c'.state \in {"conn_nread", "conn_closing"} /\ c'.noreply = IsQuiet(Start.kind) /\ ~c'.iovused
    BY <1>1, <1>15, BinReadKeyDoes
  <2>8. IsQuiet(Start.kind) <=> IsQuiet(Start.kind) \/ IsNoreply(Start.kind)
    BY <2>5 DEF IsNoreply, KeyedKinds
  <2>9. Replied'
    BY <1>1, <2>1, <2>3, <2>7, ParsedQuiet
  <2> QED BY <2>4, <2>7, <2>8, <2>9 DEF Noting
<1>16. CASE BinUnknown
  <2>1. At("conn_parse_cmd") /\ HasHead /\ UNCHANGED <<stream, written>>
    BY <1>16 DEF BinUnknown, AtRequest, Processed
  <2>2. Took(c')
    BY <1>1, <1>16, BinUnknownDoes
  <2>3. taken' = taken + HeadLen
    BY <2>2 DEF Took
  <2>4. /\ Start.part = 1
        /\ Protocol = "binary" <=> Start.kind \in BinaryKinds
        /\ c.noreply => Protocol = "binary"
        /\ stream'[taken'].kind = Start.kind
    BY <1>1, <2>1, <2>3, ParsedFacts
  <2>5. Start.kind \in {"unknown"}
    BY <1>16, <2>4 DEF BinUnknown, AtRequest
  <2>6. \A what \in {"VALUE", "END", "LINE", "ERROR"} :
          Reply(what) \in Replies /\ Reply(what).req = Start.req /\ Reply(what).what = what
    <3>1. c.rbytes > 0
      BY <1>1, <2>1, HeadIs
    <3> QED BY <1>1, <3>1, ReplyIs
  <2> DEFINE r == Reply("ERROR")
  <2>7. c'.state = "conn_mwrite" /\ c'.msgs = <<r>>
    BY <1>1, <1>16, BinUnknownDoes
  <2>8. c'.state \in Told /\ ToSend' = <<r>>
    BY <2>7 DEF Told, ToSend
  <2>9. r \in Replies /\ r.req = Start.req /\ r.what = "ERROR" /\ Honest(Start.kind, "ERROR")
    BY <2>5, <2>6, WhoAnswers
  <2> HIDE DEF r
  <2>10. Replied'
    BY <1>1, <2>1, <2>3, <2>8, <2>9, ParsedTells
  <2> QED BY <2>7, <2>10 DEF Noting
<1>17. CASE BinBad
  <2>1. At("conn_parse_cmd") /\ HasHead /\ UNCHANGED <<stream, written>>
    BY <1>17 DEF BinBad, AtRequest, Processed
  <2>2. Took(c')
    BY <1>1, <1>17, BinBadDoes
  <2>3. taken' = taken + HeadLen
    BY <2>2 DEF Took
  <2>4. /\ Start.part = 1
        /\ Protocol = "binary" <=> Start.kind \in BinaryKinds
        /\ c.noreply => Protocol = "binary"
        /\ stream'[taken'].kind = Start.kind
    BY <1>1, <2>1, <2>3, ParsedFacts
  <2>5. Start.kind \in {"bad"}
    BY <1>17, <2>4 DEF BinBad, AtRequest
  <2>6. \A what \in {"VALUE", "END", "LINE", "ERROR"} :
          Reply(what) \in Replies /\ Reply(what).req = Start.req /\ Reply(what).what = what
    <3>1. c.rbytes > 0
      BY <1>1, <2>1, HeadIs
    <3> QED BY <1>1, <3>1, ReplyIs
  <2> DEFINE r == Reply("ERROR")
  <2>7. c'.state = "conn_mwrite" /\ c'.msgs = <<r>>
    BY <1>1, <1>17, BinBadDoes
  <2>8. c'.state \in Told /\ ToSend' = <<r>>
    BY <2>7 DEF Told, ToSend
  <2>9. r \in Replies /\ r.req = Start.req /\ r.what = "ERROR" /\ Honest(Start.kind, "ERROR")
    BY <2>5, <2>6, WhoAnswers
  <2> HIDE DEF r
  <2>10. Replied'
    BY <1>1, <2>1, <2>3, <2>8, <2>9, ParsedTells
  <2> QED BY <2>7, <2>10 DEF Noting
<1>18. CASE BinMagic
  <2>1. At("conn_parse_cmd") /\ Keep /\ Continue(Go(c, "conn_closing"))
    BY <1>18 DEF BinMagic
  <2>2. c'.state \in {"conn_closing"}
    BY <1>1, <2>1, GoesDoes DEF States
  <2>3. c.state = "conn_parse_cmd" /\ UNCHANGED <<stream, written>> /\ LastReq' = LastReq
    BY <2>1, SameLast DEF At, Keep
  <2>4. Replied'
    BY <1>1, <2>2, <2>3, KeptQuiet DEF Told, Ended
  <2> QED BY <2>2, <2>4 DEF Noting
<1>19. CASE BinGet
  <2>1. At("conn_nread") /\ Keep /\ c.substate = "key"
    BY <1>19 DEF BinGet, KeyRead
  <2>2. c.state = "conn_nread" /\ taken > 0 /\ UNCHANGED <<stream, taken>>
    BY <1>1, <2>1 DEF Place, At, Keep
  <2>3. c.noreply <=> IsQuiet(stream[taken].kind) \/ IsNoreply(stream[taken].kind)
    BY <2>2 DEF Noting
  <2>4. stream[taken].kind \in {"bget", "bgetq"}
    BY <1>19 DEF BinGet, KeyRead, Current
  <2>5. \A what \in {"VALUE", "END", "LINE", "ERROR"} :
          BinReply(what) \in Replies /\ BinReply(what).req = stream[taken].req /\ BinReply(what).what = what
    BY <1>1, <2>2, ReplyIs DEF Current
  <2>6. \/ c.noreply /\ c'.state = "conn_new_cmd"
        \/ c'.state = "conn_mwrite" /\ c'.msgs = <<BinReply("LINE")>>
        \/ ~c.noreply /\ c'.state = "conn_mwrite" /\ c'.msgs = <<BinReply("ERROR")>>
    BY <1>1, <1>19, <2>2, BinGetDoes
  <2>7. CASE c.noreply /\ c'.state = "conn_new_cmd"
    <3>1. ~AlwaysAnswered(stream[taken].kind)
      BY <2>3, <2>4, <2>7, WhoAnswers DEF IsQuiet, IsNoreply
    <3>2. Replied'
      BY <1>1, <2>1, <2>2, <2>7, <3>1, NreadQuiet
    <3> QED BY <2>7, <3>2 DEF Noting
  <2>8. CASE c'.state = "conn_mwrite" /\ c'.msgs = <<BinReply("LINE")>>
    <3> DEFINE r == BinReply("LINE")
    <3>1. c'.state \in Told /\ ToSend' = <<r>>
      BY <2>8 DEF Told, ToSend
    <3>2. Honest(stream[taken].kind, "LINE")
      BY <2>3, <2>4, <2>8, WhoAnswers DEF IsQuiet, IsNoreply
    <3>3. r \in Replies /\ r.req = stream[taken].req /\ r.what = "LINE"
      BY <2>5
    <3> HIDE DEF r
    <3>4. Replied'
      BY <1>1, <2>1, <2>2, <3>1, <3>2, <3>3, NreadTells
    <3> QED BY <2>8, <3>4 DEF Noting
  <2>9. CASE ~c.noreply /\ c'.state = "conn_mwrite" /\ c'.msgs = <<BinReply("ERROR")>>
    <3> DEFINE r == BinReply("ERROR")
    <3>1. c'.state \in Told /\ ToSend' = <<r>>
      BY <2>9 DEF Told, ToSend
    <3>2. Honest(stream[taken].kind, "ERROR")
      BY <2>3, <2>4, <2>9, WhoAnswers DEF IsQuiet, IsNoreply
    <3>3. r \in Replies /\ r.req = stream[taken].req /\ r.what = "ERROR"
      BY <2>5
    <3> HIDE DEF r
    <3>4. Replied'
      BY <1>1, <2>1, <2>2, <3>1, <3>2, <3>3, NreadTells
    <3> QED BY <2>9, <3>4 DEF Noting
  <2> QED BY <2>6, <2>7, <2>8, <2>9
<1>20. CASE BinKeyed
  <2>1. At("conn_nread") /\ Keep /\ c.substate = "key"
    BY <1>20 DEF BinKeyed, KeyRead
  <2>2. c.state = "conn_nread" /\ taken > 0 /\ UNCHANGED <<stream, taken>>
    BY <1>1, <2>1 DEF Place, At, Keep
  <2>3. c.noreply <=> IsQuiet(stream[taken].kind) \/ IsNoreply(stream[taken].kind)
    BY <2>2 DEF Noting
  <2>4. stream[taken].kind \in {"bdel", "bdelq"}
    BY <1>20 DEF BinKeyed, KeyRead, Current
  <2>5. \A what \in {"VALUE", "END", "LINE", "ERROR"} :
          BinReply(what) \in Replies /\ BinReply(what).req = stream[taken].req /\ BinReply(what).what = what
    BY <1>1, <2>2, ReplyIs DEF Current
  <2>6. \/ c.noreply /\ c'.state = "conn_new_cmd"
        \/ ~c.noreply /\ c'.state = "conn_mwrite" /\ c'.msgs = <<BinReply("LINE")>>
        \/ c'.state = "conn_mwrite" /\ c'.msgs = <<BinReply("ERROR")>>
    BY <1>1, <1>20, <2>2, BinKeyedDoes
  <2>7. CASE c.noreply /\ c'.state = "conn_new_cmd"
    <3>1. ~AlwaysAnswered(stream[taken].kind)
      BY <2>3, <2>4, <2>7, WhoAnswers DEF IsQuiet, IsNoreply
    <3>2. Replied'
      BY <1>1, <2>1, <2>2, <2>7, <3>1, NreadQuiet
    <3> QED BY <2>7, <3>2 DEF Noting
  <2>8. CASE ~c.noreply /\ c'.state = "conn_mwrite" /\ c'.msgs = <<BinReply("LINE")>>
    <3> DEFINE r == BinReply("LINE")
    <3>1. c'.state \in Told /\ ToSend' = <<r>>
      BY <2>8 DEF Told, ToSend
    <3>2. Honest(stream[taken].kind, "LINE")
      BY <2>3, <2>4, <2>8, WhoAnswers DEF IsQuiet, IsNoreply
    <3>3. r \in Replies /\ r.req = stream[taken].req /\ r.what = "LINE"
      BY <2>5
    <3> HIDE DEF r
    <3>4. Replied'
      BY <1>1, <2>1, <2>2, <3>1, <3>2, <3>3, NreadTells
    <3> QED BY <2>8, <3>4 DEF Noting
  <2>9. CASE c'.state = "conn_mwrite" /\ c'.msgs = <<BinReply("ERROR")>>
    <3> DEFINE r == BinReply("ERROR")
    <3>1. c'.state \in Told /\ ToSend' = <<r>>
      BY <2>9 DEF Told, ToSend
    <3>2. Honest(stream[taken].kind, "ERROR")
      BY <2>3, <2>4, <2>9, WhoAnswers DEF IsQuiet, IsNoreply
    <3>3. r \in Replies /\ r.req = stream[taken].req /\ r.what = "ERROR"
      BY <2>5
    <3> HIDE DEF r
    <3>4. Replied'
      BY <1>1, <2>1, <2>2, <3>1, <3>2, <3>3, NreadTells
    <3> QED BY <2>9, <3>4 DEF Noting
  <2> QED BY <2>6, <2>7, <2>8, <2>9
<1>21. CASE BinUpdate
  <2>1. At("conn_nread") /\ Keep /\ c.substate = "key"
    BY <1>21 DEF BinUpdate, KeyRead
  <2>2. c.state = "conn_nread" /\ taken > 0 /\ UNCHANGED <<stream, taken>>
    BY <1>1, <2>1 DEF Place, At, Keep
  <2>3. c.noreply <=> IsQuiet(stream[taken].kind) \/ IsNoreply(stream[taken].kind)
    BY <2>2 DEF Noting
  <2>4. stream[taken].kind \in {"bset", "bsetq"}
    BY <1>21 DEF BinUpdate, KeyRead, Current
  <2>5. \A what \in {"VALUE", "END", "LINE", "ERROR"} :
          BinReply(what) \in Replies /\ BinReply(what).req = stream[taken].req /\ BinReply(what).what = what
    BY <1>1, <2>2, ReplyIs DEF Current
  <2>6. \/ c'.state = "conn_nread" /\ SameOut(c', c)
        \/ c'.state = "conn_mwrite" /\ c'.msgs = <<BinReply("ERROR")>>
    BY <1>1, <1>21, <2>2, BinUpdateDoes
  <2>7. c'.noreply = c.noreply /\ c'.protocol = c.protocol
    BY <1>1, <1>21, <2>2, BinUpdateDoes
  <2>8. CASE c'.state = "conn_nread" /\ SameOut(c', c)
    <3>1. LastReq' = LastReq /\ UNCHANGED <<stream, written>>
      BY <2>1, SameLast DEF Keep
    <3>2. Replied'
      BY <1>1, <2>2, <2>8, <3>1, KeptQuiet DEF Told, Ended
    <3> QED BY <2>2, <2>7, <2>8, <3>2 DEF Noting, SameOut
  <2>9. CASE c'.state = "conn_mwrite" /\ c'.msgs = <<BinReply("ERROR")>>
    <3> DEFINE r == BinReply("ERROR")
    <3>1. c'.state \in Told /\ ToSend' = <<r>>
      BY <2>9 DEF Told, ToSend
    <3>2. r \in Replies /\ r.req = stream[taken].req /\ r.what = "ERROR" /\ Honest(stream[taken].kind, "ERROR")
      BY <2>4, <2>5, WhoAnswers
    <3> HIDE DEF r
    <3>3. Replied'
      BY <1>1, <2>1, <2>2, <3>1, <3>2, NreadTells
    <3> QED BY <2>9, <3>3 DEF Noting
  <2> QED BY <2>6, <2>8, <2>9
<1>22. CASE BinStore
  <2>1. At("conn_nread") /\ Keep /\ c.substate = "value"
    BY <1>22 DEF BinStore
  <2>2. c.state = "conn_nread" /\ taken > 0 /\ UNCHANGED <<stream, taken>>
    BY <1>1, <2>1 DEF Place, At, Keep
  <2>3. c.noreply <=> IsQuiet(stream[taken].kind) \/ IsNoreply(stream[taken].kind)
    BY <2>2 DEF Noting
  <2>4. stream[taken].kind \in {"bset", "bsetq"}
    BY <1>1, <2>1, <2>2 DEF Place
  <2>5. \A what \in {"VALUE", "END", "LINE", "ERROR"} :
          BinReply(what) \in Replies /\ BinReply(what).req = stream[taken].req /\ BinReply(what).what = what
    BY <1>1, <2>2, ReplyIs DEF Current
  <2>6. \/ c.noreply /\ c'.state = "conn_new_cmd"
        \/ ~c.noreply /\ c'.state = "conn_mwrite" /\ c'.msgs = <<BinReply("LINE")>>
        \/ c'.state = "conn_mwrite" /\ c'.msgs = <<BinReply("ERROR")>>
    BY <1>1, <1>22, <2>2, BinStoreDoes
  <2>7. CASE c.noreply /\ c'.state = "conn_new_cmd"
    <3>1. ~AlwaysAnswered(stream[taken].kind)
      BY <2>3, <2>4, <2>7, WhoAnswers DEF IsQuiet, IsNoreply
    <3>2. Replied'
      BY <1>1, <2>1, <2>2, <2>7, <3>1, NreadQuiet
    <3> QED BY <2>7, <3>2 DEF Noting
  <2>8. CASE ~c.noreply /\ c'.state = "conn_mwrite" /\ c'.msgs = <<BinReply("LINE")>>
    <3> DEFINE r == BinReply("LINE")
    <3>1. c'.state \in Told /\ ToSend' = <<r>>
      BY <2>8 DEF Told, ToSend
    <3>2. Honest(stream[taken].kind, "LINE")
      BY <2>3, <2>4, <2>8, WhoAnswers DEF IsQuiet, IsNoreply
    <3>3. r \in Replies /\ r.req = stream[taken].req /\ r.what = "LINE"
      BY <2>5
    <3> HIDE DEF r
    <3>4. Replied'
      BY <1>1, <2>1, <2>2, <3>1, <3>2, <3>3, NreadTells
    <3> QED BY <2>8, <3>4 DEF Noting
  <2>9. CASE c'.state = "conn_mwrite" /\ c'.msgs = <<BinReply("ERROR")>>
    <3> DEFINE r == BinReply("ERROR")
    <3>1. c'.state \in Told /\ ToSend' = <<r>>
      BY <2>9 DEF Told, ToSend
    <3>2. Honest(stream[taken].kind, "ERROR")
      BY <2>3, <2>4, <2>9, WhoAnswers DEF IsQuiet, IsNoreply
    <3>3. r \in Replies /\ r.req = stream[taken].req /\ r.what = "ERROR"
      BY <2>5
    <3> HIDE DEF r
    <3>4. Replied'
      BY <1>1, <2>1, <2>2, <3>1, <3>2, <3>3, NreadTells
    <3> QED BY <2>9, <3>4 DEF Noting
  <2> QED BY <2>6, <2>7, <2>8, <2>9
<1>23. CASE NextRequest
  <2>1. At("conn_new_cmd") /\ Keep
    BY <1>23 DEF NextRequest
  <2>2. c'.state \in {"conn_parse_cmd", "conn_waiting"}
    BY <1>1, <2>1, <1>23, NextRequestDoes
  <2>3. c.state = "conn_new_cmd" /\ UNCHANGED <<stream, written>> /\ LastReq' = LastReq
    BY <2>1, SameLast DEF At, Keep
  <2>4. Replied'
    BY <1>1, <2>2, <2>3, KeptQuiet DEF Told, Ended
  <2> QED BY <2>2, <2>4 DEF Noting
<1>24. CASE Yield
  <2>1. At("conn_new_cmd") /\ Keep
    BY <1>24 DEF Yield
  <2>2. c'.state \in {"conn_new_cmd", "conn_closing"}
    BY <1>1, <2>1, <1>24, YieldDoes DEF At
  <2>3. c.state = "conn_new_cmd" /\ UNCHANGED <<stream, written>> /\ LastReq' = LastReq
    BY <2>1, SameLast DEF At, Keep
  <2>4. Replied'
    BY <1>1, <2>2, <2>3, KeptQuiet DEF Told, Ended
  <2> QED BY <2>2, <2>4 DEF Noting
<1>25. CASE NreadDone
  <2>1. At("conn_nread") /\ Keep /\ c.protocol = "ascii"
    BY <1>25 DEF NreadDone
  <2>2. c.state = "conn_nread" /\ taken > 0 /\ UNCHANGED <<stream, taken>>
    BY <1>1, <2>1 DEF Place, At, Keep
  <2>3. c.noreply <=> IsQuiet(stream[taken].kind) \/ IsNoreply(stream[taken].kind)
    BY <2>2 DEF Noting
  <2>4. stream[taken].kind \in {"set", "setq"}
    <3>1. stream[taken].kind \notin BinaryKinds
      BY <1>1, <2>1, <2>2, CurrentDialect
    <3>2. c.substate \in {"none", "key", "value"}
      BY <1>1, ConnHasType DEF ConnType
    <3> QED BY <1>1, <2>2, <3>1, <3>2 DEF Place, BinaryKinds, KeyedKinds
  <2>5. \A what \in {"VALUE", "END", "LINE", "ERROR"} :
          BinReply(what) \in Replies /\ BinReply(what).req = stream[taken].req /\ BinReply(what).what = what
    BY <1>1, <2>2, ReplyIs DEF Current
  <2>6. \/ c.noreply /\ c'.state = "conn_new_cmd"
        \/ ~c.noreply /\ c'.state = "conn_write" /\ c'.wbuf = <<BinReply("LINE")>>
    BY <1>1, <1>25, <2>2, NreadDoneDoes
  <2>7. ~c'.iovused
    BY <1>1, <1>25, <2>1, <2>2, NreadDoneDoes DEF Noting
  <2>8. CASE c.noreply /\ c'.state = "conn_new_cmd"
    <3>1. ~AlwaysAnswered(stream[taken].kind)
      BY <2>3, <2>4, <2>8, WhoAnswers DEF IsQuiet, IsNoreply
    <3>2. Replied'
      BY <1>1, <2>1, <2>2, <2>8, <3>1, NreadQuiet
    <3> QED BY <2>8, <3>2 DEF Noting
  <2>9. CASE ~c.noreply /\ c'.state = "conn_write" /\ c'.wbuf = <<BinReply("LINE")>>
    <3> DEFINE r == BinReply("LINE")
    <3>1. c'.state \in Told /\ ToSend' = <<r>>
      BY <2>7, <2>9 DEF Told, ToSend
    <3>2. Honest(stream[taken].kind, "LINE")
      BY <2>3, <2>4, <2>9, WhoAnswers DEF IsQuiet, IsNoreply
    <3>3. r \in Replies /\ r.req = stream[taken].req /\ r.what = "LINE"
      BY <2>5
    <3> HIDE DEF r
    <3>4. Replied'
      BY <1>1, <2>1, <2>2, <3>1, <3>2, <3>3, NreadTells
    <3> QED BY <2>9, <3>4 DEF Noting
  <2> QED BY <2>6, <2>8, <2>9
<1>26. CASE DataFromBuffer
  <2>1. WantsData /\ UNCHANGED <<stream, written>>
    BY <1>26 DEF DataFromBuffer
  <2>2. c'.state \in {c.state, "conn_closing"} /\ \E k \in 0 .. 2 : Advanced(c', k)
    BY <1>1, <1>26, DataFromBufferDoes
  <2> QED BY <1>1, <2>1, <2>2, DataQuiet
<1>27. CASE DataFromSocket
  <2>1. WantsData /\ UNCHANGED <<stream, written>>
    BY <1>27 DEF DataFromSocket, ReadOn
  <2>2. c'.state \in {c.state, "conn_closing"} /\ \E k \in 0 .. 2 : Advanced(c', k)
    BY <1>1, <1>27, DataFromSocketDoes
  <2> QED BY <1>1, <2>1, <2>2, DataQuiet
<1>28. CASE DataEof
  <2>1. WantsData /\ UNCHANGED <<stream, written>>
    BY <1>28 DEF DataEof, ReadOn
  <2>2. c'.state \in {c.state, "conn_closing"} /\ \E k \in 0 .. 2 : Advanced(c', k)
    BY <1>1, <1>28, DataEofDoes
  <2> QED BY <1>1, <2>1, <2>2, DataQuiet
<1>29. CASE DataWouldBlock
  <2>1. WantsData /\ UNCHANGED <<stream, written>>
    BY <1>29 DEF DataWouldBlock, ReadOn
  <2>2. c'.state \in {c.state, "conn_closing"} /\ \E k \in 0 .. 2 : Advanced(c', k)
    BY <1>1, <1>29, DataWouldBlockDoes
  <2> QED BY <1>1, <2>1, <2>2, DataQuiet
<1>30. CASE SwallowDone
  <2>1. At("conn_swallow") /\ Keep /\ Continue(Go(c, "conn_new_cmd"))
    BY <1>30 DEF SwallowDone
  <2>2. c'.state \in {"conn_new_cmd"}
    BY <1>1, <2>1, GoesDoes DEF States
  <2>3. c.state = "conn_swallow" /\ UNCHANGED <<stream, written>> /\ LastReq' = LastReq
    BY <2>1, SameLast DEF At, Keep
  <2>4. Replied'
    BY <1>1, <2>2, <2>3, KeptQuiet DEF Told, Ended
  <2> QED BY <2>2, <2>4 DEF Noting
<1>31. CASE Transmit
  <2>1. Replied'
    BY <1>1, <1>31, TransmitQuiet
  <2>2. c.state \in Told /\ c'.state = c.state
    BY <1>1, <1>31, TransmitDoes DEF Transmit, Writing, At, Told
  <2> QED BY <2>1, <2>2 DEF Noting, Told
<1>32. CASE TransmitWouldBlock
  <2>1. Keep /\ c.state \in Told
    BY <1>32 DEF TransmitWouldBlock, Writing, At, Told
  <2>2. c'.state \in {c.state, "conn_closing"} /\ c'.msgs = ToSend /\ c'.iovused
    BY <1>1, <1>32, TransmitWouldBlockDoes
  <2>3. CASE c'.state = "conn_closing"
    <3>1. Replied'
      BY <1>1, <2>1, <2>3, LeavesTelling DEF Told, Ended
    <3> QED BY <2>3, <3>1 DEF Noting
  <2>4. CASE c'.state = c.state
    <3>1. ToSend' = ToSend
      BY <2>2 DEF ToSend
    <3>2. Replied'
      BY <2>1, <2>4, <3>1, KeepsTelling
    <3> QED BY <2>1, <2>4, <3>2 DEF Noting, Told
  <2> QED BY <2>2, <2>3, <2>4
<1>33. CASE TransmitFails
  <2>1. Keep /\ c.state \in Told
    BY <1>33 DEF TransmitFails, Writing, At, Told
  <2>2. c'.state = "conn_closing"
    BY <1>1, <1>33, TransmitFailsDoes
  <2>3. Replied'
    BY <1>1, <2>1, <2>2, LeavesTelling DEF Told, Ended
  <2> QED BY <2>2, <2>3 DEF Noting
<1>34. CASE Transmitted
  <2>1. Keep /\ c.state \in Told /\ ToSend = <<>>
    BY <1>34 DEF Transmitted, Writing, At, Told
  <2>2. c'.state \in {"conn_new_cmd", "conn_swallow", "conn_closing"}
    BY <1>1, <1>34, TransmittedDoes DEF Holds
  <2>3. Replied'
    BY <1>1, <2>1, <2>2, LeavesTelling DEF Told
  <2> QED BY <2>2, <2>3 DEF Noting
<1>35. CASE Close
  <2>1. At("conn_closing") /\ Keep
    BY <1>35 DEF Close
  <2>2. c'.state \in {"closed"}
    BY <1>1, <2>1, <1>35, CloseDoes
  <2>3. c.state = "conn_closing" /\ UNCHANGED <<stream, written>> /\ LastReq' = LastReq
    BY <2>1, SameLast DEF At, Keep
  <2>4. Replied'
    BY <1>1, <2>2, <2>3, KeptQuiet DEF Told, Ended
  <2> QED BY <2>2, <2>4 DEF Noting
<1> QED BY <1>2, <1>3, <1>4, <1>5, <1>6, <1>7, <1>8, <1>9, <1>10, <1>11, <1>12, <1>13, <1>14, <1>15, <1>16, <1>17, <1>18, <1>19, <1>20, <1>21, <1>22, <1>23, <1>24, <1>25, <1>26, <1>27, <1>28, <1>29, <1>30, <1>31, <1>32, <1>33, <1>34, <1>35 DEF Drive

\* What the client sends next changes nothing for the requests already taken.
LEMMA KindStays ==
  ASSUME TypeOK, Whole, NEW kind \in Kinds, Request(kind)
  PROVE  LastReq' = LastReq /\ \A j \in 1 .. LastReq : KindIn(stream', j) = KindIn(stream, j)
<1>1. /\ taken \in Nat /\ Len(stream) \in Nat /\ taken <= Len(stream) /\ taken' = taken
      /\ stream' \in Seq([req : 1 .. MaxRequests, kind : Kinds, part : 1 .. 4])
      /\ \A p \in 1 .. Len(stream) : stream'[p] = stream[p]
      /\ Len(stream') \in Nat /\ Len(stream) <= Len(stream')
  <2>1. /\ Len(stream) \in Nat /\ arrived \in Nat /\ taken \in Nat /\ c.rbytes \in Nat
        /\ taken + c.rbytes <= arrived /\ arrived <= Len(stream)
    BY UnitAt
  <2> DEFINE k == Parts(kind)
  <2>2. /\ k \in 2 .. 4 /\ Len(stream') = Len(stream) + k
        /\ stream' \in Seq([req : 1 .. MaxRequests, kind : Kinds, part : 1 .. 4])
        /\ \A p \in 1 .. Len(stream) : stream'[p] = stream[p]
    BY RequestDoes
  <2> HIDE DEF k
  <2>3. taken <= Len(stream) /\ Len(stream') \in Nat /\ Len(stream) <= Len(stream')
    BY <2>1, <2>2
  <2>4. taken' = taken
    BY DEF Request
  <2> QED BY <2>1, <2>2, <2>3, <2>4
<1>2. taken > 0 => taken \in 1 .. Len(stream)
  BY <1>1
<1>3. LastReq' = LastReq
  BY <1>1, <1>2 DEF LastReq
<1>4. Whole'
  BY RequestKeepsWhole
<1>5. ASSUME NEW j \in 1 .. LastReq PROVE KindIn(stream', j) = KindIn(stream, j)
  <2>1. taken > 0 /\ LastReq = stream[taken].req
    <3>1. taken # 0
      BY DEF LastReq
    <3> QED BY <1>1, <3>1 DEF LastReq
  <2>2. PICK p \in 1 .. taken : stream[p].req = j
    BY <1>2, <2>1 DEF Whole, Numbered
  <2>3. p \in 1 .. Len(stream) /\ p \in 1 .. Len(stream') /\ stream'[p] = stream[p]
    BY <1>1, <2>2
  <2>4. KindIn(stream, j) = stream[p].kind
    BY <2>2, <2>3, KindIs
  <2> DEFINE st == stream'
  <2>5. st \in Seq([req : 1 .. MaxRequests, kind : Kinds, part : 1 .. 4]) /\ DOMAIN st = 1 .. Len(st)
        /\ Len(st) \in Nat
    BY <1>1
  <2>6. \A x \in 1 .. Len(st) : \A q \in x .. Len(st) : st[x].req = st[q].req => st[x].kind = st[q].kind
    BY <1>4 DEF Whole, Ordered
  <2>7. p \in 1 .. Len(st) /\ st[p] = stream[p]
    BY <2>3
  <2> HIDE DEF st
  <2>8. ASSUME NEW q \in 1 .. Len(st), st[q].req = st[p].req PROVE st[q].kind = st[p].kind
    <3>1. CASE p <= q
      BY <2>5, <2>6, <2>7, <2>8, <3>1
    <3>2. CASE q <= p
      BY <2>5, <2>6, <2>7, <2>8, <3>2
    <3> QED BY <2>7, <3>1, <3>2
  <2>9. KindIn(st, st[p].req) = st[p].kind
    BY <2>5, <2>7, <2>8, KindInIs
  <2> QED BY <2>2, <2>4, <2>7, <2>9 DEF st
<1> QED BY <1>3, <1>5

\* The replies are judged by the requests they answer alone.
LEMMA GoodOther ==
  ASSUME NEW st, NEW sr, NEW s \in Seq(Replies), NEW n \in Nat, UpTo(s, n), Good(st, s),
         \A j \in 1 .. n : KindIn(sr, j) = KindIn(st, j)
  PROVE  Good(sr, s) /\ \A m \in Int : m <= n /\ Settled(st, s, m) => Settled(sr, s, m)
<1>1. Len(s) \in Nat /\ \A i \in 1 .. Len(s) : s[i].req \in 1 .. n
  <2>1. Len(s) \in Nat /\ \A i \in 1 .. Len(s) : s[i].req \in 1 .. MaxRequests
    BY ReplyAt
  <2> QED BY <2>1 DEF UpTo
<1>2. Truthful(sr, s)
  BY <1>1 DEF Good, Truthful
<1>3. ASSUME NEW m \in Int, m <= n, Complete(st, s, m) PROVE Complete(sr, s, m)
  <2>1. \A j \in 1 .. m : j \in 1 .. n
    BY <1>3
  <2> QED BY <1>3, <2>1 DEF Complete
<1>4. Gapless(sr, s)
  <2>1. SUFFICES ASSUME NEW i \in 1 .. Len(s), s[i].what # "VALUE" PROVE Complete(sr, s, s[i].req - 1)
    BY DEF Gapless
  <2> DEFINE m == s[i].req - 1
  <2>2. m \in Int /\ m <= n
    BY <1>1
  <2>3. Complete(st, s, m)
    BY <2>1 DEF Good, Gapless
  <2> HIDE DEF m
  <2>4. Complete(sr, s, m)
    BY <1>3, <2>2, <2>3
  <2> QED BY <2>4 DEF m
<1>5. \A m \in Int : m <= n /\ Settled(st, s, m) => Settled(sr, s, m)
  BY <1>3 DEF Settled
<1> QED BY <1>2, <1>4, <1>5 DEF Good

LEMMA RequestKeepsReplied ==
  ASSUME TypeOK, Whole, Replied, Noting, Place, NEW kind \in Kinds, Request(kind)
  PROVE  Replied' /\ Noting'
<1>1. UNCHANGED <<written, taken, c>>
  BY DEF Request
<1>2. Out' = Out
  BY <1>1 DEF Out, Unsent, ToSend
<1>3. LastReq' = LastReq /\ \A j \in 1 .. LastReq : KindIn(stream', j) = KindIn(stream, j)
  BY KindStays
<1>4. Settling' = Settling
  BY <1>1, <1>3 DEF Settling
<1> DEFINE s == Out
           n == LastReq
           st == stream'
<1>5. s \in Seq(Replies) /\ n \in Nat /\ Settling \in Int /\ Settling <= n
  BY OutType, LastIs DEF Settling
<1>6. Good(stream, s) /\ UpTo(s, n) /\ (c.state \notin {"conn_closing", "closed"} => Settled(stream, s, Settling))
  BY DEF Replied
<1>7. \A j \in 1 .. n : KindIn(st, j) = KindIn(stream, j)
  BY <1>3
<1> HIDE DEF s, n, st
<1>8. Good(st, s) /\ (c.state \notin {"conn_closing", "closed"} => Settled(st, s, Settling))
  BY <1>5, <1>6, <1>7, GoodOther
<1>9. Replied'
  BY <1>1, <1>2, <1>3, <1>4, <1>6, <1>8 DEF Replied, s, n, st
<1>10. Noting'
  <2>1. c.state = "conn_nread" => taken > 0
    BY DEF Place
  <2>2. taken > 0 => stream'[taken] = stream[taken]
    <3>1. taken > 0 => taken \in 1 .. Len(stream)
      BY UnitAt
    <3>2. \A p \in 1 .. Len(stream) : stream'[p] = stream[p]
      BY RequestDoes
    <3> QED BY <3>1, <3>2
  <2> QED BY <1>1, <2>1, <2>2 DEF Noting
<1> QED BY <1>9, <1>10

LEMMA InitReplied == Init => Replied /\ Noting
<1>1. SUFFICES ASSUME Init PROVE Replied /\ Noting
  OBVIOUS
<1>2. stream = <<>> /\ written = <<>> /\ taken = 0 /\ c.state = "conn_new_cmd"
  BY <1>1 DEF Init
<1>3. Out = <<>> \o <<>>
  BY <1>2 DEF Out, Unsent
<1>4. Out = <<>> /\ Len(Out) = 0
  BY <1>3
<1>5. LastReq = 0 /\ Settling = 0
  BY <1>2 DEF LastReq, Settling
<1> DEFINE s == Out
<1>6. Len(s) = 0
  BY <1>4
<1> HIDE DEF s
<1>7. Good(stream, s) /\ UpTo(s, 0) /\ Settled(stream, s, 0)
  BY <1>6 DEF Good, Sorted, Truthful, Gapless, Complete, UpTo, Settled
<1> QED BY <1>2, <1>5, <1>7 DEF Replied, Noting, s

LEMMA NextKeepsReplied ==
  ASSUME "setq" \notin Failures
  PROVE  Base /\ Dialect /\ Place /\ Replied /\ Noting /\ [Next]_vars => Replied' /\ Noting'
<1>1. SUFFICES ASSUME Base, Dialect, Place, Replied, Noting, [Next]_vars PROVE Replied' /\ Noting'
  OBVIOUS
<1>2. TypeOK /\ Whole
  BY <1>1 DEF Base
<1>3. ASSUME NEW kind \in Kinds, Request(kind) PROVE Replied' /\ Noting'
  BY <1>1, <1>2, <1>3, RequestKeepsReplied
<1>4. CASE Deliver \/ ReadReply \/ HangUp \/ UNCHANGED vars
  <2>1. UNCHANGED <<stream, written, taken, c>>
    BY <1>4 DEF Deliver, ReadReply, HangUp, vars
  <2>2. Out' = Out /\ LastReq' = LastReq /\ Settling' = Settling
    BY <2>1 DEF Out, Unsent, ToSend, LastReq, Settling
  <2> QED BY <1>1, <2>1, <2>2 DEF Replied, Noting
<1>5. CASE Event \/ FalseAlarm
  <2>1. Keep
    BY <1>5 DEF Event, FalseAlarm
  <2>2. c'.state = c.state /\ SameMode(c', c) /\ SameOut(c', c)
    BY <1>2, <1>5, EventDoes
  <2>3. ToSend' = ToSend
    BY <2>2 DEF ToSend, SameOut
  <2>4. Replied'
    BY <1>1, <2>1, <2>2, <2>3, KeepsTelling
  <2> QED BY <1>1, <2>1, <2>2, <2>4 DEF Noting, Keep, SameMode, SameOut
<1>6. CASE Drive
  BY <1>1, <1>6, DriveKeepsReplied
<1> QED BY <1>1, <1>3, <1>4, <1>5, <1>6 DEF Next

LEMMA AlwaysReplied ==
  ASSUME "setq" \notin Failures
  PROVE  Spec => [](Base /\ Dialect /\ Place /\ Replied /\ Noting)
<1>1. Base /\ Dialect /\ Place /\ Replied /\ Noting /\ [Next]_vars => (Base /\ Dialect /\ Place /\ Replied /\ Noting)'
  BY NextKeepsBase, NextKeepsPlace, NextKeepsReplied
<1>2. Init => Base /\ Dialect /\ Place /\ Replied /\ Noting
  BY InitBase, InitPlace, InitReplied
<1> QED BY <1>1, <1>2, PTL DEF Spec

\* What the client has or is being sent is the beginning of what it will have.
LEMMA AnswersAre ==
  ASSUME TypeOK, Whole, Replied
  PROVE  Answers \in Seq(Replies) /\ Good(stream, Answers) /\ UpTo(Answers, LastReq)
<1> DEFINE u == Out
           s == Answers
<1>1. u \in Seq(Replies) /\ written \in Seq(Replies) /\ Begins(u, written)
  BY OutType
<1>2. s \in Seq(Replies) /\ Begins(u, s)
  <2>1. CASE Writing
    <3>1. Pending = ToSend /\ Unsent = ToSend
      BY <2>1 DEF Pending, Unsent, Writing, At
    <3>2. s = u
      BY <3>1 DEF Answers, Out
    <3> HIDE DEF s, u
    <3>3. Len(u) \in Nat
      BY <1>1, ReplyAt
    <3> QED BY <1>1, <3>2, <3>3 DEF Begins
  <2>2. CASE ~Writing
    <3>1. s = written \o <<>>
      BY <2>2 DEF Answers, Pending
    <3>2. s = written
      BY <1>1, <3>1
    <3> QED BY <1>1, <3>2
  <2> QED BY <2>1, <2>2
<1>3. Good(stream, u) /\ UpTo(u, LastReq) /\ LastReq \in Nat
  BY LastIs DEF Replied
<1> HIDE DEF u, s
<1>4. Good(stream, s)
  BY <1>1, <1>2, <1>3, GoodBegins
<1>5. LastReq <= LastReq
  BY <1>3
<1>6. UpTo(s, LastReq)
  BY <1>1, <1>2, <1>3, <1>5, UpToBegins
<1> QED BY <1>2, <1>4, <1>6 DEF s

LEMMA FinalsAre ==
  ASSUME TypeOK
  PROVE  \A i : i \in Finals <=> \E k \in 1 .. Len(Answers) : Answers[k].req = i /\ Answers[k].what # "VALUE"
<1>1. Answers \in Seq(Replies)
  <2>1. Pending \in Seq(Replies) /\ written \in Seq(Replies)
    BY ToSendType DEF TypeOK, Pending
  <2> QED BY <2>1 DEF Answers
<1>2. DOMAIN Answers = 1 .. Len(Answers)
  BY <1>1
<1> QED BY <1>2 DEF Finals, Range

\* Each request that wants a reply has one, in the order of the requests and each
\* before the next begins; nothing answers a noreply, and a quiet request is answered
\* once at most: however reads and writes are cut (drive_machine, transmit), whatever
\* fails, and wherever the loop yields.  The failure of a set with noreply is left out
\* as in DataIsNeverCommand.
THEOREM RepliesAreInOrder ==
  ASSUME "setq" \notin Failures
  PROVE  Spec => []RepliesInOrder
<1>1. Base /\ Replied => RepliesInOrder
  <2> SUFFICES ASSUME Base, Replied PROVE RepliesInOrder
    OBVIOUS
  <2> DEFINE s == Answers
  <2>1. TypeOK /\ Whole
    BY DEF Base
  <2>2. s \in Seq(Replies) /\ Sorted(s) /\ Truthful(stream, s) /\ Gapless(stream, s)
    BY <2>1, AnswersAre DEF Good
  <2>3. \A i : i \in Finals <=> \E k \in 1 .. Len(s) : s[k].req = i /\ s[k].what # "VALUE"
    BY <2>1, FinalsAre
  <2>4. \A i : KindOf(i) = KindIn(stream, i)
    BY DEF KindOf, KindIn
  <2> HIDE DEF s
  <2>5. Len(s) \in Nat /\ DOMAIN s = 1 .. Len(s) /\ \A i \in 1 .. Len(s) : s[i].req \in Nat
    BY <2>2, ReplyAt
  <2>6. ASSUME NEW i \in 1 .. Len(s) - 1
        PROVE  IF s[i].what = "VALUE" THEN s[i + 1].req = s[i].req ELSE s[i + 1].req > s[i].req
    <3>1. i \in 1 .. Len(s) /\ i + 1 \in 1 .. Len(s) /\ i < i + 1
      BY <2>5
    <3>2. s[i].req <= s[i + 1].req /\ (s[i].req = s[i + 1].req => s[i].what = "VALUE")
      BY <2>2, <3>1 DEF Sorted
    <3>3. s[i].what = "VALUE" => s[i + 1].req = s[i].req
      BY <2>2 DEF Sorted
    <3> DEFINE a == s[i].req
               b == s[i + 1].req
    <3>4. a \in Nat /\ b \in Nat
      BY <2>5, <3>1
    <3> HIDE DEF a, b
    <3>5. a <= b /\ (a = b => s[i].what = "VALUE") /\ (s[i].what = "VALUE" => b = a)
      BY <3>2, <3>3 DEF a, b
    <3>6. IF s[i].what = "VALUE" THEN b = a ELSE b > a
      BY <3>4, <3>5
    <3> QED BY <3>6 DEF a, b
  <2>7. ASSUME NEW r \in Range(s) PROVE KindOf(r.req) \notin NeverAnswered /\ ~Untold(r)
    <3>1. PICK i \in 1 .. Len(s) : r = s[i]
      BY <2>5 DEF Range
    <3>2. Honest(KindOf(r.req), r.what)
      BY <2>2, <2>4, <3>1 DEF Truthful
    <3> QED BY <3>2 DEF Honest, Untold
  <2>8. ASSUME NEW i \in Finals, NEW j \in 1 .. MaxRequests, j < i, AlwaysAnswered(KindOf(j)) PROVE j \in Finals
    <3>1. PICK k \in 1 .. Len(s) : s[k].req = i /\ s[k].what # "VALUE"
      BY <2>3
    <3>2. Complete(stream, s, i - 1)
      BY <2>2, <3>1 DEF Gapless
    <3>3. j \in 1 .. i - 1
      BY <2>5, <2>8, <3>1
    <3>4. \E x \in 1 .. Len(s) : s[x].req = j /\ s[x].what # "VALUE"
      BY <2>4, <2>8, <3>2, <3>3 DEF Complete
    <3> QED BY <2>3, <3>4
  <2> QED BY <2>6, <2>7, <2>8 DEF RepliesInOrder, s
<1> QED BY <1>1, AlwaysReplied, PTL

-------------------------------------------------------------------------------
(* Behind a quit *)

LEMMA KeptQuitting ==
  ASSUME Quitting, UNCHANGED <<stream, taken>>, Shut => Shut'
  PROVE  Quitting'
BY DEF Quitting

\* A connection that is not shut has taken no quit.
LEMMA NoQuitTaken ==
  ASSUME Quitting, ~Shut
  PROVE  \A p \in 1 .. taken : stream[p].kind \notin Quits
BY DEF Quitting

LEMMA ParsedQuitting ==
  ASSUME TypeOK, Whole, Dialect, Place, Quitting, At("conn_parse_cmd"), HasHead, Took(c'), stream' = stream,
         Start.kind \in Quits => Shut'
  PROVE  Quitting'
<1>1. c.state = "conn_parse_cmd" /\ ~Shut
  BY DEF At, Shut
<1>2. Start.part = 1 /\ taken' = taken + HeadLen
  BY <1>1, ParsesAtStart DEF Took
<1>3. taken' = taken + 2 /\ stream[taken'].kind = Start.kind /\ stream[taken'].req = Start.req
  BY <1>2, HeadTaken
<1>4. taken \in Nat /\ \A p \in 1 .. taken : stream[p].kind \notin Quits
  BY <1>1, NoQuitTaken, UnitAt
<1>5. stream[taken + 1] = Start
  BY DEF Start
<1>6. ASSUME NEW p \in 1 .. taken', stream[p].kind \in Quits
      PROVE  Shut' /\ taken' - p < 2 /\ stream[p].req = stream[taken'].req
  <2>1. p \notin 1 .. taken
    BY <1>4, <1>6
  <2>2. p = taken + 1 \/ p = taken'
    BY <1>3, <1>4, <2>1
  <2>3. stream[p].kind = Start.kind /\ stream[p].req = stream[taken'].req
    BY <1>3, <1>5, <2>2
  <2>4. taken' - p < 2
    BY <1>3, <1>4, <2>2
  <2> QED BY <1>6, <2>3, <2>4
<1> QED BY <1>6 DEF Quitting

LEMMA DataQuitting ==
  ASSUME TypeOK, TypeOK', Whole, Place, Quitting, WantsData, stream' = stream, NEW n \in 0 .. 2, Advanced(c', n)
  PROVE  Quitting'
<1>1. /\ taken > 0 /\ taken' > 0
      /\ stream[taken'].kind = stream[taken].kind /\ stream[taken'].req = stream[taken].req
  BY DataOfRequest
<1>2. taken \in Nat /\ Len(stream) \in Nat /\ taken \in 1 .. taken /\ taken \in 1 .. Len(stream)
      /\ \A p \in 1 .. Len(stream) : stream[p].req \in 1 .. MaxRequests
  BY <1>1, UnitAt
<1>3. taken' \in Nat /\ taken' <= Len(stream)
  <2>1. taken' \in Nat /\ taken' + c'.rbytes <= arrived' /\ arrived' \in 0 .. Len(stream) /\ c'.rbytes \in Nat
    BY DEF TypeOK
  <2> QED BY <1>2, <2>1
<1>4. c.state \in {"conn_nread", "conn_swallow"}
  BY DEF WantsData, At
<1>5. \A p \in 1 .. taken : stream[p].kind \notin Quits
  BY <1>4, NoQuitTaken DEF Shut
<1>6. ASSUME NEW p \in 1 .. taken' PROVE stream[p].kind \notin Quits
  <2>1. CASE p <= taken
    <3>1. p \in 1 .. taken
      BY <1>2, <2>1
    <3> QED BY <1>5, <3>1
  <2>2. CASE p > taken
    <3>1. p \in taken .. Len(stream) /\ p \in 1 .. Len(stream) /\ taken' \in p .. Len(stream)
      BY <1>2, <1>3, <2>2
    <3>2. stream[taken].req <= stream[p].req /\ stream[p].req <= stream[taken'].req
      BY <1>2, <3>1 DEF Whole, Ordered
    <3> DEFINE x == stream[taken].req
               y == stream[p].req
    <3>3. x \in Nat /\ y \in Nat /\ x <= y /\ y <= x
      BY <1>1, <1>2, <3>1, <3>2
    <3> HIDE DEF x, y
    <3>4. x = y
      BY <3>3
    <3>5. stream[taken].kind = stream[p].kind
      BY <1>2, <3>1, <3>4 DEF Whole, Ordered, x, y
    <3> QED BY <1>2, <1>5, <3>5
  <2> QED BY <1>2, <2>1, <2>2
<1> QED BY <1>6 DEF Quitting

LEMMA DriveKeepsQuitting ==
  ASSUME Base, Dialect, Place, Quitting, Drive
  PROVE  Quitting'
<1>1. TypeOK /\ Whole /\ Holds /\ Dialect /\ Place /\ TypeOK'
  BY DriveKeepsBase DEF Base
<1>2. CASE Waiting \/ ReadData \/ ReadNothing \/ ReadEof \/ NeedMore \/ BinMagic \/ BinGet
          \/ BinKeyed \/ BinUpdate \/ BinStore \/ NextRequest \/ Yield \/ NreadDone \/ SwallowDone
  <2>1. /\ Keep
        /\ c.state \in {"conn_waiting", "conn_read", "conn_parse_cmd", "conn_nread", "conn_new_cmd", "conn_swallow"}
    BY <1>2 DEF Waiting, ReadData, ReadNothing, ReadEof, NeedMore, BinMagic, BinGet, BinKeyed, BinUpdate, BinStore, NextRequest, Yield, NreadDone, SwallowDone, KeyRead, At
  <2> QED BY <2>1, KeptQuitting DEF Keep, Shut
<1>3. CASE ProcessGet
  <2>1. At("conn_parse_cmd") /\ HasHead /\ UNCHANGED <<stream, written>>
    BY <1>3 DEF ProcessGet, AtRequest, Processed
  <2>2. Took(c')
    BY <1>1, <1>3, ProcessGetDoes
  <2>3. Start.kind \notin Quits
    BY <1>3 DEF ProcessGet, AtRequest, Quits
  <2> QED BY <1>1, <2>1, <2>2, <2>3, ParsedQuitting
<1>4. CASE ProcessShort
  <2>1. At("conn_parse_cmd") /\ HasHead /\ UNCHANGED <<stream, written>>
    BY <1>4 DEF ProcessShort, AtRequest, Processed
  <2>2. Took(c')
    BY <1>1, <1>4, ProcessShortDoes
  <2>3. Start.kind \notin Quits
    BY <1>4 DEF ProcessShort, AtRequest, Quits
  <2> QED BY <1>1, <2>1, <2>2, <2>3, ParsedQuitting
<1>5. CASE ProcessUpdate
  <2>1. At("conn_parse_cmd") /\ HasHead /\ UNCHANGED <<stream, written>>
    BY <1>5 DEF ProcessUpdate, AtRequest, Processed
  <2>2. Took(c')
    BY <1>1, <1>5, ProcessUpdateDoes
  <2>3. Start.kind \notin Quits
    BY <1>5 DEF ProcessUpdate, AtRequest, Quits
  <2> QED BY <1>1, <2>1, <2>2, <2>3, ParsedQuitting
<1>6. CASE ProcessUpdateFails
  <2>1. At("conn_parse_cmd") /\ HasHead /\ UNCHANGED <<stream, written>>
    BY <1>6 DEF ProcessUpdateFails, AtRequest, Processed
  <2>2. Took(c')
    BY <1>1, <1>6, ProcessUpdateFailsDoes
  <2>3. Start.kind \notin Quits
    BY <1>6 DEF ProcessUpdateFails, AtRequest, Quits
  <2> QED BY <1>1, <2>1, <2>2, <2>3, ParsedQuitting
<1>7. CASE ProcessQuit
  <2>1. At("conn_parse_cmd") /\ HasHead /\ UNCHANGED <<stream, written>>
    BY <1>7 DEF ProcessQuit, AtRequest, Processed
  <2>2. Took(c')
    BY <1>1, <1>7, ProcessQuitDoes
  <2>3. Shut'
    BY <1>1, <1>7, ProcessQuitDoes DEF Shut
  <2> QED BY <1>1, <2>1, <2>2, <2>3, ParsedQuitting
<1>8. CASE ProcessUnknown
  <2>1. At("conn_parse_cmd") /\ HasHead /\ UNCHANGED <<stream, written>>
    BY <1>8 DEF ProcessUnknown, Processed
  <2>2. Took(c')
    BY <1>1, <1>8, ProcessUnknownDoes
  <2>3. Start.part = 1
    BY <1>1, <2>1, ParsesAtStart DEF At
  <2>4. Start.kind \notin Quits
    BY <1>8, <2>3 DEF ProcessUnknown, Quits
  <2> QED BY <1>1, <2>1, <2>2, <2>4, ParsedQuitting
<1>9. CASE BinNoop
  <2>1. At("conn_parse_cmd") /\ HasHead /\ UNCHANGED <<stream, written>>
    BY <1>9 DEF BinNoop, AtRequest, Processed
  <2>2. Took(c')
    BY <1>1, <1>9, BinNoopDoes
  <2>3. Start.kind \notin Quits
    BY <1>9 DEF BinNoop, AtRequest, Quits
  <2> QED BY <1>1, <2>1, <2>2, <2>3, ParsedQuitting
<1>10. CASE BinQuit
  <2>1. At("conn_parse_cmd") /\ HasHead /\ UNCHANGED <<stream, written>>
    BY <1>10 DEF BinQuit, AtRequest, Processed
  <2>2. Took(c')
    BY <1>1, <1>10, BinQuitDoes
  <2>3. Protocol = "binary"
    <3>1. Start.kind \in BinaryKinds
      BY <1>10 DEF BinQuit, AtRequest, BinaryKinds
    <3>2. taken' = taken + HeadLen
      BY <2>2 DEF Took
    <3> QED BY <1>1, <2>1, <3>1, <3>2, ParsedFacts
  <2>4. Shut'
    BY <1>1, <1>10, <2>2, <2>3, BinQuitDoes DEF Shut, Took
  <2> QED BY <1>1, <2>1, <2>2, <2>4, ParsedQuitting
<1>11. CASE BinReadKey
  <2>1. At("conn_parse_cmd") /\ HasHead /\ UNCHANGED <<stream, written>>
    BY <1>11 DEF BinReadKey, AtRequest, Processed
  <2>2. Took(c')
    BY <1>1, <1>11, BinReadKeyDoes
  <2>3. Start.kind \notin Quits
    BY <1>11 DEF BinReadKey, AtRequest, Quits
  <2> QED BY <1>1, <2>1, <2>2, <2>3, ParsedQuitting
<1>12. CASE BinUnknown
  <2>1. At("conn_parse_cmd") /\ HasHead /\ UNCHANGED <<stream, written>>
    BY <1>12 DEF BinUnknown, AtRequest, Processed
  <2>2. Took(c')
    BY <1>1, <1>12, BinUnknownDoes
  <2>3. Start.kind \notin Quits
    BY <1>12 DEF BinUnknown, AtRequest, Quits
  <2> QED BY <1>1, <2>1, <2>2, <2>3, ParsedQuitting
<1>13. CASE BinBad
  <2>1. At("conn_parse_cmd") /\ HasHead /\ UNCHANGED <<stream, written>>
    BY <1>13 DEF BinBad, AtRequest, Processed
  <2>2. Took(c')
    BY <1>1, <1>13, BinBadDoes
  <2>3. Protocol = "binary"
    <3>1. Start.kind \in BinaryKinds
      BY <1>13 DEF BinBad, AtRequest, BinaryKinds
    <3>2. taken' = taken + HeadLen
      BY <2>2 DEF Took
    <3> QED BY <1>1, <2>1, <3>1, <3>2, ParsedFacts
  <2>4. Shut'
    BY <1>1, <1>13, <2>2, <2>3, BinBadDoes DEF Shut, Took
  <2> QED BY <1>1, <2>1, <2>2, <2>4, ParsedQuitting
<1>14. CASE DataFromBuffer
  <2>1. WantsData /\ stream' = stream
    BY <1>14 DEF DataFromBuffer
  <2>2. \E k \in 0 .. 2 : Advanced(c', k)
    BY <1>1, <1>14, DataFromBufferDoes
  <2> QED BY <1>1, <2>1, <2>2, DataQuitting
<1>15. CASE DataFromSocket
  <2>1. WantsData /\ stream' = stream
    BY <1>15 DEF DataFromSocket, ReadOn
  <2>2. \E k \in 0 .. 2 : Advanced(c', k)
    BY <1>1, <1>15, DataFromSocketDoes
  <2> QED BY <1>1, <2>1, <2>2, DataQuitting
<1>16. CASE DataEof
  <2>1. WantsData /\ stream' = stream
    BY <1>16 DEF DataEof, ReadOn
  <2>2. \E k \in 0 .. 2 : Advanced(c', k)
    BY <1>1, <1>16, DataEofDoes
  <2> QED BY <1>1, <2>1, <2>2, DataQuitting
<1>17. CASE DataWouldBlock
  <2>1. WantsData /\ stream' = stream
    BY <1>17 DEF DataWouldBlock, ReadOn
  <2>2. \E k \in 0 .. 2 : Advanced(c', k)
    BY <1>1, <1>17, DataWouldBlockDoes
  <2> QED BY <1>1, <2>1, <2>2, DataQuitting
<1>18. CASE Transmit
  <2>1. UNCHANGED <<stream, taken>> /\ c.state \in Told
    BY <1>18 DEF Transmit, Writing, At, Told, Keep
  <2>2. /\ c'.state \in {c.state, "conn_closing"} /\ c'.write_and_go = c.write_and_go
        /\ c'.protocol = c.protocol
    BY <1>1, <1>18, TransmitDoes DEF SameMode
  <2> QED BY <2>1, <2>2, KeptQuitting DEF Shut
<1>19. CASE TransmitWouldBlock
  <2>1. UNCHANGED <<stream, taken>> /\ c.state \in Told
    BY <1>19 DEF TransmitWouldBlock, Writing, At, Told, Keep
  <2>2. /\ c'.state \in {c.state, "conn_closing"} /\ c'.write_and_go = c.write_and_go
        /\ c'.protocol = c.protocol
    BY <1>1, <1>19, TransmitWouldBlockDoes DEF SameMode
  <2> QED BY <2>1, <2>2, KeptQuitting DEF Shut
<1>20. CASE TransmitFails
  <2>1. Keep /\ c'.state = "conn_closing"
    BY <1>1, <1>20, TransmitFailsDoes DEF TransmitFails
  <2> QED BY <2>1, KeptQuitting DEF Keep, Shut
<1>21. CASE Transmitted
  <2>1. Keep /\ c.state \in Told
    BY <1>21 DEF Transmitted, Writing, At, Told
  <2>2. Shut => c'.state = "conn_closing"
    BY <1>1, <1>21, <2>1, TransmittedDoes DEF Shut, Told
  <2> QED BY <2>1, <2>2, KeptQuitting DEF Keep, Shut
<1>22. CASE Close
  <2>1. Keep /\ c'.state = "closed"
    BY <1>1, <1>22, CloseDoes DEF Close
  <2> QED BY <2>1, KeptQuitting DEF Keep, Shut
<1> QED BY <1>2, <1>3, <1>4, <1>5, <1>6, <1>7, <1>8, <1>9, <1>10, <1>11, <1>12, <1>13, <1>14, <1>15, <1>16, <1>17, <1>18, <1>19, <1>20, <1>21, <1>22 DEF Drive

LEMMA NextKeepsQuitting ==
  Base /\ Dialect /\ Place /\ Quitting /\ [Next]_vars => Quitting'
<1>1. SUFFICES ASSUME Base, Dialect, Place, Quitting, [Next]_vars PROVE Quitting'
  OBVIOUS
<1>2. TypeOK /\ Whole
  BY <1>1 DEF Base
<1>3. ASSUME NEW kind \in Kinds, Request(kind) PROVE Quitting'
  <2>1. UNCHANGED <<taken, c>>
    BY <1>3 DEF Request
  <2>2. taken \in Nat /\ Len(stream) \in Nat /\ taken <= Len(stream)
    <3>1. /\ Len(stream) \in Nat /\ arrived \in Nat /\ taken \in Nat /\ c.rbytes \in Nat
          /\ taken + c.rbytes <= arrived /\ arrived <= Len(stream)
      BY <1>2, UnitAt
    <3> QED BY <3>1
  <2>3. \A p \in 1 .. taken : stream'[p] = stream[p]
    <3>1. \A p \in 1 .. Len(stream) : stream'[p] = stream[p]
      BY <1>2, <1>3, RequestDoes
    <3> QED BY <2>2, <3>1
  <2>4. \A p \in 1 .. taken : taken \in 1 .. taken
    BY <2>2
  <2>5. Shut' <=> Shut
    BY <2>1 DEF Shut
  <2> QED BY <1>1, <2>1, <2>3, <2>4, <2>5 DEF Quitting
<1>4. CASE Deliver \/ ReadReply \/ HangUp \/ UNCHANGED vars
  <2>1. UNCHANGED <<stream, taken, c>>
    BY <1>4 DEF Deliver, ReadReply, HangUp, vars
  <2> QED BY <1>1, <2>1, KeptQuitting DEF Shut
<1>5. CASE Event \/ FalseAlarm
  <2>1. Keep
    BY <1>5 DEF Event, FalseAlarm
  <2>2. c'.state = c.state /\ c'.write_and_go = c.write_and_go /\ c'.protocol = c.protocol
    BY <1>2, <1>5, EventDoes DEF SameMode
  <2> QED BY <1>1, <2>1, <2>2, KeptQuitting DEF Keep, Shut
<1>6. CASE Drive
  BY <1>1, <1>6, DriveKeepsQuitting
<1> QED BY <1>1, <1>3, <1>4, <1>5, <1>6 DEF Next

LEMMA AlwaysQuitting ==
  ASSUME "setq" \notin Failures
  PROVE  Spec => [](Base /\ Dialect /\ Place /\ Replied /\ Noting /\ Quitting)
<1>1. Base /\ Dialect /\ Place /\ Quitting /\ [Next]_vars => (Base /\ Dialect /\ Place /\ Quitting)'
  BY NextKeepsBase, NextKeepsPlace, NextKeepsQuitting
<1>2. Init => Quitting
  BY DEF Init, Quitting
<1>3. Init => Base /\ Dialect /\ Place /\ Quitting
  BY <1>2, InitBase, InitPlace
<1> QED BY <1>1, <1>3, AlwaysReplied, PTL DEF Spec

\* Nothing that was sent behind a quit or a broken header is answered, nor run, whatever
\* of it the buffer holds already (process_command, process_bin_quit,
\* handle_binary_protocol_error).
THEOREM QuitIsTheLast ==
  ASSUME "setq" \notin Failures
  PROVE  Spec => []QuitIsLast
<1>1. Base /\ Replied /\ Quitting => QuitIsLast
  <2>1. SUFFICES ASSUME Base, Replied, Quitting, NEW p \in 1 .. taken, stream[p].kind \in Quits
                 PROVE  (\A i \in Finals : i <= stream[p].req) /\ taken - p < 2
    BY DEF QuitIsLast, Quits
  <2>2. taken - p < 2 /\ stream[p].req = stream[taken].req
    BY <2>1 DEF Quitting
  <2>3. TypeOK /\ Whole
    BY <2>1 DEF Base
  <2>4. LastReq = stream[taken].req
    <3>1. taken # 0
      BY <2>1
    <3> QED BY <3>1 DEF LastReq
  <2>5. ASSUME NEW i \in Finals PROVE i <= LastReq
    BY <2>1, <2>3, AnswersAre, FinalsAre DEF UpTo
  <2> QED BY <2>2, <2>4, <2>5
<1> QED BY <1>1, AlwaysQuitting, PTL
=============================================================================
