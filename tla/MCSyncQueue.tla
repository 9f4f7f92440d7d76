----------------------------- MODULE MCSyncQueue -----------------------------
(* The instances of SyncQueue that TLC checks; each cfg names the constants. *)
EXTENDS SyncQueue, TLC
=============================================================================
