----------------------------- MODULE MCTcpClient -----------------------------
(* The instances of TcpClient that TLC checks; each cfg names the constants. *)
EXTENDS TcpClient, TLC
=============================================================================
