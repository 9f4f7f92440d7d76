----------------------------- MODULE ByteStream -----------------------------
(***************************************************************************)
(* What a connection's send side promises: a reliable byte stream.  Bytes  *)
(* are numbered in the order in which to_send accepted them, so the stream *)
(* accepted so far is 1, 2, ..., produced.  The kernel must be handed      *)
(* exactly these bytes, in this order, none twice and none left out.       *)
(***************************************************************************)
EXTENDS Naturals, Sequences

VARIABLES produced,   \* number of bytes accepted so far
          wire        \* the bytes handed to the kernel, in order

vars == <<produced, wire>>

Init == produced = 0 /\ wire = << >>

Accept ==
  /\ produced' \in Nat /\ produced' > produced
  /\ UNCHANGED wire

Transmit ==
  /\ \E k \in 1..(produced - Len(wire)) :
       wire' = wire \o [j \in 1..k |-> Len(wire) + j]
  /\ UNCHANGED produced

Next == Accept \/ Transmit

Spec == Init /\ [][Next]_vars
=============================================================================
