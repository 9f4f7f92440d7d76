----------------------------- MODULE BoundedFifo -----------------------------
(***************************************************************************)
(* What a bounded queue shared by threads promises: items leave it once    *)
(* and in the order they entered it, it never holds more than Capacity of  *)
(* them, and once it is stopped nothing enters or leaves it any more.      *)
(***************************************************************************)
EXTENDS Naturals, Sequences

CONSTANTS Items, Capacity

VARIABLES queue,      \* the items inside
          taken,      \* those that left it, in order
          stopped

vars == <<queue, taken, stopped>>

Init == queue = << >> /\ taken = << >> /\ stopped = FALSE

Put(x) ==
  /\ ~stopped /\ Len(queue) < Capacity
  /\ queue' = Append(queue, x)
  /\ UNCHANGED <<taken, stopped>>

\* Takes the first n items.
Take(n) ==
  /\ ~stopped
  /\ taken' = taken \o SubSeq(queue, 1, n)
  /\ queue' = SubSeq(queue, n + 1, Len(queue))
  /\ UNCHANGED stopped

Stop == stopped' = TRUE /\ UNCHANGED <<queue, taken>>

Next == (\E x \in Items : Put(x)) \/ (\E n \in 1..Len(queue) : Take(n)) \/ Stop

Spec == Init /\ [][Next]_vars
=============================================================================
