------------------------------ MODULE MCDispatch ------------------------------
(* Two workers and three clients for TLC. *)
EXTENDS Dispatch

CONSTANTS a, b, d
=============================================================================
