------------------------------ MODULE MCWsSession ------------------------------
(* The instance of WsSession that TLC checks; the cfg names the constants. *)
EXTENDS WsSession, TLC
=============================================================================
