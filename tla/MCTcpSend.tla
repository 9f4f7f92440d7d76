------------------------------ MODULE MCTcpSend ------------------------------
(* The instances of TcpSend that TLC checks; each cfg names the constants.  *)
EXTENDS TcpSendProofs, TLC

\* The threads of the pool are interchangeable (used by safety runs only).
Symmetry == Permutations(Threads)
=============================================================================
