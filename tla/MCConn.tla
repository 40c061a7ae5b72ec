-------------------------------- MODULE MCConn --------------------------------
(* One connection and a few requests for TLC. *)
EXTENDS Conn
=============================================================================
