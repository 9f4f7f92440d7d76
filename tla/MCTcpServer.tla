----------------------------- MODULE MCTcpServer -----------------------------
(* The instances of TcpServer that TLC checks; each cfg names the constants. *)
EXTENDS TcpServer, TLC
=============================================================================
