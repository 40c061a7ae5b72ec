------------------------------- MODULE KVStore -------------------------------
(***************************************************************************)
(* What a cache server promises its clients: every store command takes     *)
(* effect at one moment, on the value its key has at that moment, and its  *)
(* reply says what happened.  Being a cache it may forget any key at any   *)
(* time, but it never shows a value nobody has stored, an old value after  *)
(* a newer one, or a value again that it has forgotten.                    *)
(***************************************************************************)
EXTENDS Integers

CONSTANTS
  Keys, Conns, NULL,
  Vals,                 \* values clients store and compute
  Joins(_, _),          \* Joins(v, w): the results of joining v and w
  Sums(_)               \* Sums(v): the results of incr and decr of v

VARIABLES
  store,     \* store[k]: NULL or the value of k and its CAS id
  ids,       \* the CAS ids given out
  pending,   \* the command each connection has sent and that is not done
  reply      \* the reply to a command that is done

vars == <<store, ids, pending, reply>>

NoRequest == [comm |-> "none", key |-> NULL, val |-> 0, cas |-> 0]

Init ==
  /\ store = [k \in Keys |-> NULL]
  /\ ids = 0
  /\ pending = [c \in Conns |-> NoRequest]
  /\ reply = [c \in Conns |-> "none"]

\* Any keys may be forgotten in any step.
Forgetting(f) == \A k \in Keys : store'[k] \in {f[k], NULL}

Forget == Forgetting(store) /\ UNCHANGED <<ids, pending, reply>>

Requests ==
  [comm : {"set", "add", "replace", "append", "prepend", "cas"},
   key : Keys, val : Vals, cas : 0 .. ids]

Request(c) ==
  /\ pending[c] = NoRequest
  /\ reply[c] = "none"
  /\ pending'[c] \in Requests
  /\ pending' = [pending EXCEPT ![c] = pending'[c]]
  /\ Forgetting(store)
  /\ UNCHANGED <<ids, reply>>

\* The client hangs up or its data is bad: nothing is done.
Cancel(c) ==
  /\ pending[c] # NoRequest
  /\ pending' = [pending EXCEPT ![c] = NoRequest]
  /\ UNCHANGED <<store, ids, reply>>

Answer(c, ret) ==
  /\ pending' = [pending EXCEPT ![c] = NoRequest]
  /\ reply' = [reply EXCEPT ![c] = ret]

Write(c, v) ==
  /\ Forgetting([store EXCEPT ![pending[c].key] = [val |-> v, cas |-> ids + 1]])
  /\ ids' = ids + 1
  /\ Answer(c, "STORED")

Refuse(c, ret) == Forgetting(store) /\ UNCHANGED ids /\ Answer(c, ret)

Execute(c) ==
  /\ pending[c] # NoRequest
  /\ LET q == pending[c]
         old == store[q.key]
         SameCas == old # NULL /\ old.cas = q.cas
     IN \/ q.comm = "set" /\ Write(c, q.val)
        \/ q.comm = "add" /\ old = NULL /\ Write(c, q.val)
        \/ q.comm = "add" /\ old # NULL /\ Refuse(c, "NOT_STORED")
        \/ q.comm = "replace" /\ old # NULL /\ Write(c, q.val)
        \/ q.comm = "replace" /\ old = NULL /\ Refuse(c, "NOT_STORED")
        \/ q.comm = "cas" /\ old = NULL /\ Refuse(c, "NOT_FOUND")
        \/ q.comm = "cas" /\ old # NULL /\ ~SameCas /\ Refuse(c, "EXISTS")
        \/ q.comm = "cas" /\ SameCas /\ Write(c, q.val)
        \/ /\ q.comm \in {"append", "prepend"}
           /\ old # NULL
           /\ q.cas # 0 => SameCas
           /\ \E x \in IF q.comm = "append" THEN Joins(old.val, q.val)
                                             ELSE Joins(q.val, old.val) : Write(c, x)
        \* refused, also for want of memory
        \/ q.comm \in {"append", "prepend"} /\ Refuse(c, "NOT_STORED")
        \/ /\ q.comm \in {"append", "prepend"}
           /\ old # NULL /\ q.cas # 0 /\ ~SameCas
           /\ Refuse(c, "EXISTS")

\* incr and decr change the value of a key that has one, and only that value; the
\* CAS id is new even if the key has lost its value since it was looked up.
AddDelta(c) ==
  /\ pending[c] = NoRequest
  /\ \/ Forgetting(store)
     \/ \E k \in Keys :
          /\ store[k] # NULL
          /\ \E x \in Sums(store[k].val) :
               Forgetting([store EXCEPT ![k] = [val |-> x, cas |-> ids + 1]])
  /\ ids' = ids + 1
  /\ UNCHANGED <<pending, reply>>

\* The connection is ready for its next command.
Ready(c) ==
  /\ reply' = [reply EXCEPT ![c] = "none"]
  /\ UNCHANGED <<store, ids, pending>>

Next ==
  \/ Forget
  \/ \E c \in Conns :
       \/ Request(c) \/ Cancel(c) \/ Execute(c) \/ AddDelta(c) \/ Ready(c)

Spec == Init /\ [][Next]_vars
=============================================================================
