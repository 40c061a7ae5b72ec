-------------------------------- MODULE Delta --------------------------------
(***************************************************************************)
(* The arithmetic of incr and decr (do_add_delta in memcached.c).  Values  *)
(* are 64-bit unsigned, but the delta the client sends as an unsigned      *)
(* number is passed on as int64_t, and decr compares it with the value     *)
(* read as int64_t.                                                        *)
(***************************************************************************)
EXTENDS Integers, FiniteSets

CONSTANTS
  Wrap,        \* 2^64: uint64_t arithmetic is modulo Wrap
  MaxDigits    \* the decimal digits of Wrap - 1 (20)

ASSUME DeltaAssumption ==
  /\ Wrap \in Nat /\ Wrap >= 2 /\ Wrap % 2 = 0
  /\ MaxDigits \in Nat

UInt64 == 0 .. Wrap - 1

\* (int64_t)x
Signed(x) == IF x >= Wrap \div 2 THEN x - Wrap ELSE x

Incr(value, delta) == (value + Signed(delta)) % Wrap

Decr(value, delta) ==
  IF Signed(delta) > Signed(value) THEN 0 ELSE (value - Signed(delta)) % Wrap

\* The number of decimal digits snprintf("%llu") writes.
Width(value) == 1 + Cardinality({w \in 1 .. MaxDigits - 1 : value >= 10 ^ w})
=============================================================================
