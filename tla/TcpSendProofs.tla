---------------------------- MODULE TcpSendProofs ----------------------------
(* Theorems about TcpSend, for every value of its constants.               *)
EXTENDS TcpSend, TLAPS

\* The helpers that take a sequence apart return sequences of the same kind.
LEMMA WithoutType ==
  ASSUME NEW S, NEW s \in Seq(S), NEW i \in 1..Len(s)
  PROVE  Without(s, i) \in Seq(S)
  BY DEF Without

LEMMA CursorType ==
  ASSUME NEW b \in Buffers, NEW n \in Nat
  PROVE  /\ [b EXCEPT !.write_pos_ = @ + n] \in Buffers
         /\ [b EXCEPT !.read_pos_ = @ + n] \in Buffers
  BY DEF Buffers

LEMMA StoredType ==
  ASSUME NEW q \in Seq(Buffers), NEW n \in Nat, produced \in Nat
  PROVE  Stored(q, n) \in Seq(Buffers)
<1>1. CASE q # << >> /\ Fits(q[Len(q)], n)
  <2>1. Len(q) \in 1..Len(q) /\ q[Len(q)] \in Buffers
    BY <1>1
  <2>2. [q[Len(q)] EXCEPT !.write_pos_ = @ + n] \in Buffers
    BY <2>1, CursorType
  <2> QED
    BY <1>1, <2>1, <2>2 DEF Stored
<1>2. CASE ~(q # << >> /\ Fits(q[Len(q)], n))
  <2>1. SendBuffer(produced, n) \in Buffers
    BY DEF SendBuffer, Buffers
  <2> QED
    BY <1>2, <2>1 DEF Stored
<1> QED
  BY <1>1, <1>2

LEMMA ConsumedType ==
  ASSUME NEW q \in Seq(Buffers), q # << >>, NEW n \in Nat
  PROVE  Consumed(q, n) \in Seq(Buffers)
<1>1. 1 \in 1..Len(q) /\ q[1] \in Buffers
  OBVIOUS
<1>2. [q[1] EXCEPT !.read_pos_ = @ + n] \in Buffers
  BY <1>1, CursorType
<1> QED
  BY <1>1, <1>2 DEF Consumed

LEMMA AsyncSendType ==
  ASSUME TypeOK, NEW b \in Buffers, NEW w \in BOOLEAN, AsyncSend(b, w)
  PROVE  flights' \in Seq(Flights) /\ done' \in Seq(Completions)
<1>1. [buf |-> b.start, off |-> b.read_pos_, len |-> Size(b), wrapped |-> w]
         \in Flights
  BY DEF Buffers, Flights, Size
<1>2. [ec |-> TRUE, n |-> 0, wrapped |-> w] \in Completions
  BY DEF Completions
<1>3. flights \in Seq(Flights) /\ done \in Seq(Completions)
  BY DEF TypeOK
<1> DEFINE f == [buf |-> b.start, off |-> b.read_pos_, len |-> Size(b),
                 wrapped |-> w]
           c == [ec |-> TRUE, n |-> 0, wrapped |-> w]
<1>4. \/ flights' = Append(flights, f) /\ done' = done
      \/ done' = Append(done, c) /\ flights' = flights
  BY DEF AsyncSend
<1>5. f \in Flights /\ c \in Completions
  BY <1>1, <1>2
<1> HIDE DEF f, c
<1>6. CASE flights' = Append(flights, f) /\ done' = done
  BY <1>3, <1>5, <1>6
<1>7. CASE done' = Append(done, c) /\ flights' = flights
  BY <1>3, <1>5, <1>7
<1> QED
  BY <1>4, <1>6, <1>7

LEMMA InitType == Init => TypeOK
<1> SUFFICES ASSUME Init PROVE TypeOK
  OBVIOUS
<1>1. /\ send_buffers_ \in Seq(Buffers) /\ flights \in Seq(Flights)
      /\ done \in Seq(Completions) /\ wire \in Seq(Nat)
  BY DEF Init
<1>2. /\ pc \in [Threads -> Labels]
      /\ arg \in [Threads -> [ec : BOOLEAN, n : Nat]]
      /\ reg \in [Threads -> Int]
  BY DEF Init, Labels
<1>3. /\ data_lock_ \in Threads \cup {NoThread}
      /\ strand \in Threads \cup {NoThread}
      /\ write_count_ \in Int /\ produced \in Nat
      /\ calls \in Nat /\ conns \in Nat
  BY DEF Init
<1>4. socket_open \in BOOLEAN /\ failed \in BOOLEAN /\ ub \in BOOLEAN
  BY Zenon DEF Init
<1> QED
  BY <1>1, <1>2, <1>3, <1>4 DEF TypeOK

LEMMA NextType == TypeOK /\ [Next]_vars => TypeOK'
<1> SUFFICES ASSUME TypeOK, [Next]_vars PROVE TypeOK'
  OBVIOUS
<1> USE SendAssumption DEF lockVars, netVars, ghosts
<1>1. ASSUME NEW t \in Threads, NEW n \in MsgSizes, NEW ctx \in Contexts,
             ToSend(t, n, ctx)
      PROVE  TypeOK'
  BY <1>1 DEF TypeOK, ToSend, Goto, Labels
<1>2. ASSUME NEW t \in Threads, NEW from \in Labels, NEW to \in Labels,
             SpinLock(t, from, to)
      PROVE  TypeOK'
  BY <1>2 DEF TypeOK, SpinLock, Goto, Labels
<1>3. ASSUME Undefined PROVE TypeOK'
  BY <1>3 DEF TypeOK, Undefined
<1>4. ASSUME NEW t \in Threads, Store(t) PROVE TypeOK'
  <2>1. Stored(send_buffers_, arg[t].n) \in Seq(Buffers)
    BY StoredType DEF TypeOK
  <2>2. CASE Undefined
    BY <1>3, <2>2
  <2>3. CASE ~Undefined
    <3>a. send_buffers_' = Stored(send_buffers_, arg[t].n)
          /\ produced' = produced + arg[t].n
      BY Zenon, <1>4, <2>3 DEF Store
    <3>b. arg[t].n \in Nat
      BY DEF TypeOK
    <3>1. send_buffers_' \in Seq(Buffers) /\ produced' \in Nat
      <4>1. produced \in Nat
        BY DEF TypeOK
      <4> QED
        BY <2>1, <3>a, <3>b, <4>1
    <3> QED
      BY <1>4, <2>3, <3>1 DEF TypeOK, Store, Goto, Labels
  <2> QED
    BY <2>2, <2>3
<1>5. ASSUME NEW t \in Threads, CheckCount(t) PROVE TypeOK'
  BY <1>5 DEF TypeOK, CheckCount, Goto, Return, Labels
<1>6. ASSUME NEW t \in Threads, NEW from \in Labels, NEW to \in Labels,
             Load(t, from, to)
      PROVE  TypeOK'
  BY <1>6 DEF TypeOK, Load, Goto, Labels
<1>7. ASSUME NEW t \in Threads, NEW from \in Labels, NEW to \in Labels,
             NEW delta \in Int, StoreCount(t, from, delta, to)
      PROVE  TypeOK'
  BY <1>7, SMTT(30) DEF TypeOK, StoreCount, Goto, Labels, Added
<1>8. ASSUME NEW t \in Threads, FirstSend(t) PROVE TypeOK'
  <2>1. CASE Undefined
    BY <1>3, <2>1
  <2>2. CASE send_buffers_ # << >> /\ AsyncSend(send_buffers_[1], FALSE)
    <3>1. send_buffers_[1] \in Buffers
      BY <2>2 DEF TypeOK
    <3>2. flights' \in Seq(Flights) /\ done' \in Seq(Completions)
      BY <2>2, <3>1, AsyncSendType
    <3> QED
      BY <1>3, <1>8, <2>2, <3>2 DEF TypeOK, FirstSend, Return, Goto, Labels
  <2> QED
    BY <1>8, <2>1, <2>2 DEF FirstSend
<1>9. ASSUME NEW t \in Threads, NEW i \in 1..Len(done), Dispatch(t, i)
      PROVE  TypeOK'
  <2>1. Without(done, i) \in Seq(Completions) /\ done[i] \in Completions
    BY WithoutType DEF TypeOK
  <2> QED
    BY <1>9, <2>1 DEF TypeOK, Dispatch, Goto, Labels, Completions
<1>10. ASSUME NEW t \in Threads, CheckError(t) PROVE TypeOK'
  BY <1>10 DEF TypeOK, CheckError, Goto, Return, Labels
<1>11. ASSUME NEW t \in Threads, Advance(t) PROVE TypeOK'
  <2>1. CASE Undefined
    BY <1>3, <2>1
  <2>2. CASE send_buffers_ = << >> /\ ~Undefined
    BY <1>11, <2>2 DEF TypeOK, Advance, Goto, Return, Labels
  <2>3. CASE send_buffers_ # << >> /\ ~Undefined
    <3> DEFINE q == Consumed(send_buffers_, arg[t].n)
    <3>1. q \in Seq(Buffers)
      BY <2>3, ConsumedType DEF TypeOK
    <3>2. ASSUME MoreToSend(q), AsyncSend(q[1], TRUE)
          PROVE  flights' \in Seq(Flights) /\ done' \in Seq(Completions)
      <4>1. q[1] \in Buffers
        BY <3>1, <3>2 DEF MoreToSend
      <4> QED
        BY <3>2, <4>1, AsyncSendType
    <3>3. send_buffers_' = q
      BY <1>11, <2>3 DEF Advance
    <3>4. \/ MoreToSend(q) /\ AsyncSend(q[1], TRUE)
          \/ UNCHANGED <<flights, done>>
      BY <1>11, <2>3 DEF Advance
    <3>5. flights' \in Seq(Flights) /\ done' \in Seq(Completions)
      BY <3>2, <3>4 DEF TypeOK
    <3> HIDE DEF q
    <3>6. /\ UNCHANGED <<write_count_, socket_open, conns, arg, reg, produced,
                         wire, failed, calls, ub>>
          /\ \/ Goto(t, "w_inc_load") /\ UNCHANGED <<data_lock_, strand>>
             \/ data_lock_' = NoThread /\ Return(t)
      BY <1>11, <2>3 DEF Advance
    <3> QED
      BY <3>1, <3>3, <3>5, <3>6 DEF TypeOK, Goto, Return, Labels
  <2> QED
    BY <2>1, <2>2, <2>3
<1>12. ASSUME NEW t \in Threads, Unlock(t) PROVE TypeOK'
  BY <1>12 DEF TypeOK, Unlock, Return, Goto, Labels
<1>13. ASSUME NEW i \in 1..Len(flights), KernelSend(i) PROVE TypeOK'
  <2>1. CASE Undefined
    BY <1>3, <2>1
  <2>2. CASE ~Undefined
    <3>1. flights[i] \in Flights /\ Without(flights, i) \in Seq(Flights)
      BY WithoutType DEF TypeOK
    <3>2. PICK k \in 1..flights[i].len :
            /\ wire' = wire \o [j \in 1..k |-> flights[i].buf + flights[i].off + j]
            /\ done' = Append(done, [ec |-> FALSE, n |-> k,
                                     wrapped |-> flights[i].wrapped])
      BY <1>13, <2>2 DEF KernelSend
    <3>3. [j \in 1..k |-> flights[i].buf + flights[i].off + j] \in Seq(Nat)
      BY <3>1 DEF Flights
    <3>4. [ec |-> FALSE, n |-> k, wrapped |-> flights[i].wrapped] \in Completions
      BY <3>1 DEF Flights, Completions
    <3>5. wire' \in Seq(Nat)
      BY <3>2, <3>3 DEF TypeOK
    <3>6. done' \in Seq(Completions)
      BY <3>2, <3>4 DEF TypeOK
    <3> QED
      BY <1>13, <2>2, <3>1, <3>5, <3>6 DEF TypeOK, KernelSend
  <2> QED
    BY <2>1, <2>2
<1>14. ASSUME NEW i \in 1..Len(flights), KernelFail(i) PROVE TypeOK'
  <2>1. flights[i] \in Flights /\ Without(flights, i) \in Seq(Flights)
    BY WithoutType DEF TypeOK
  <2>2. Aborted(flights[i]) \in Completions
    BY <2>1 DEF Aborted, Flights, Completions
  <2>3. done' \in Seq(Completions)
    BY <1>14, <2>2 DEF TypeOK, KernelFail
  <2> QED
    BY <1>14, <2>1, <2>3 DEF TypeOK, KernelFail
<1>15. ASSUME Close PROVE TypeOK'
  <2>1. ASSUME NEW i \in 1..Len(flights)
        PROVE  Aborted(flights[i]) \in Completions
    <3>1. flights[i] \in Flights
      BY DEF TypeOK
    <3> QED
      BY <3>1 DEF Aborted, Flights, Completions
  <2>2. [i \in 1..Len(flights) |-> Aborted(flights[i])] \in Seq(Completions)
    BY <2>1 DEF TypeOK
  <2>3. done' \in Seq(Completions)
    BY <1>15, <2>2 DEF TypeOK, Close
  <2>4. flights' \in Seq(Flights)
    BY <1>15 DEF Close
  <2>5. socket_open' \in BOOLEAN
    BY <1>15, Zenon DEF Close
  <2> QED
    BY <1>15, <2>3, <2>4, <2>5 DEF TypeOK, Close
<1>16. ASSUME Reconnect PROVE TypeOK'
  BY <1>16 DEF TypeOK, Reconnect
<1>17. ASSUME NEW t \in Threads, ThreadStep(t) PROVE TypeOK'
  BY <1>2, <1>4, <1>5, <1>6, <1>7, <1>8, <1>10, <1>11, <1>12, <1>17
     DEF ThreadStep, Labels
<1>18. CASE UNCHANGED vars
  BY <1>18 DEF TypeOK, vars
<1> QED
  BY <1>1, <1>9, <1>13, <1>14, <1>15, <1>16, <1>17, <1>18
     DEF Next, Kernel, Dispatches

\* The variables of the send side keep their types, whatever the number of
\* threads and the sizes of the messages.
THEOREM TypeCorrect == Spec => []TypeOK
  BY InitType, NextType, PTL DEF Spec

----------------------------------------------------------------------------
(* The spin lock: any number of threads                                     *)

LEMMA LockNext == TypeOK /\ LockExclusive /\ [Next]_vars => LockExclusive'
<1> SUFFICES ASSUME TypeOK, LockExclusive, [Next]_vars PROVE LockExclusive'
  OBVIOUS
<1> USE SendAssumption DEF lockVars, netVars, LockExclusive, Critical
<1>1. ASSUME NEW t \in Threads, ThreadStep(t) PROVE LockExclusive'
  <2>1. CASE SpinLock(t, "send_lock", "send_crit") \/ SpinLock(t, "w_lock", "w_crit")
    BY <2>1 DEF TypeOK, SpinLock, Goto, LockFree
  <2>2. CASE Store(t)
    BY <2>2 DEF TypeOK, Store, Goto, Undefined
  <2>3. CASE CheckCount(t) \/ CheckError(t)
    BY <2>3 DEF TypeOK, CheckCount, CheckError, Goto, Return
  <2>4. CASE Load(t, "send_load", "send_inc") \/ Load(t, "w_load", "w_dec")
             \/ Load(t, "w_inc_load", "w_inc")
    BY <2>4, SMTT(60) DEF TypeOK, Load, Goto
  <2>5. CASE StoreCount(t, "send_inc", 1, "send_start")
             \/ StoreCount(t, "w_dec", -1, "w_ec")
             \/ StoreCount(t, "w_inc", 1, "w_unlock")
    BY <2>5 DEF TypeOK, StoreCount, Goto
  <2>6. CASE FirstSend(t)
    BY <2>6 DEF TypeOK, FirstSend, Goto, Return, Undefined
  <2>7. CASE Advance(t)
    <3>1. \/ UNCHANGED <<pc, data_lock_>>
          \/ Goto(t, "w_inc_load") /\ UNCHANGED data_lock_
          \/ Return(t) /\ data_lock_' = NoThread
      BY <2>7 DEF Advance, Undefined
    <3>2. \A s \in Threads : pc[s] \in Critical => s = t
      BY <2>7 DEF Advance
    <3>3. CASE UNCHANGED <<pc, data_lock_>>
      BY <3>3
    <3>4. CASE Goto(t, "w_inc_load") /\ UNCHANGED data_lock_
      BY <2>7, <3>2, <3>4 DEF TypeOK, Goto, Advance
    <3>5. CASE Return(t)
      BY <3>2, <3>5 DEF TypeOK, Goto, Return
    <3> QED
      BY <3>1, <3>3, <3>4, <3>5
  <2>8. CASE Unlock(t)
    BY <2>8 DEF TypeOK, Unlock, Goto, Return
  <2> QED
    BY <1>1, <2>1, <2>2, <2>3, <2>4, <2>5, <2>6, <2>7, <2>8 DEF ThreadStep
<1>2. ASSUME NEW t \in Threads, NEW i \in 1..Len(done), Dispatch(t, i)
      PROVE  LockExclusive'
  BY <1>2 DEF TypeOK, Dispatch, Goto
<1>3. ASSUME NEW t \in Threads, NEW n \in MsgSizes, NEW ctx \in Contexts,
             ToSend(t, n, ctx)
      PROVE  LockExclusive'
  BY <1>3 DEF TypeOK, ToSend, Goto
<1>4. ASSUME NEW i \in 1..Len(flights), KernelSend(i) \/ KernelFail(i)
      PROVE  LockExclusive'
  <2>1. CASE KernelSend(i)
    <3>1. pc' = pc /\ data_lock_' = data_lock_
      BY <2>1 DEF KernelSend, Undefined
    <3> QED
      BY <3>1
  <2>2. CASE KernelFail(i)
    BY <2>2 DEF KernelFail
  <2> QED
    BY <1>4, <2>1, <2>2
<1>5. CASE Close \/ Reconnect \/ UNCHANGED vars
  BY <1>5 DEF Close, Reconnect, vars
<1> QED
  BY <1>1, <1>2, <1>3, <1>4, <1>5 DEF Next, Kernel, Dispatches

\* With any number of threads, at most one is inside the sections that
\* data_lock_ protects in to_send and on_write.
THEOREM LockCorrect == Spec => []LockExclusive
<1>1. Init => LockExclusive
  BY DEF Init, LockExclusive, Critical
<1> QED
  BY <1>1, InitType, NextType, LockNext, PTL DEF Spec

----------------------------------------------------------------------------
(* The list of buffers: any number of threads                               *)

LEMMA StoredContiguous ==
  ASSUME NEW q \in Seq(Buffers), NEW n \in Nat, produced \in Nat,
         Contiguous(q, produced)
  PROVE  Contiguous(Stored(q, n), produced + n)
<1>1. CASE q # << >> /\ Fits(q[Len(q)], n)
  <2> DEFINE r == Stored(q, n)
  <2>1. r = [q EXCEPT ![Len(q)].write_pos_ = @ + n]
    BY <1>1 DEF Stored
  <2>2. Len(r) = Len(q) /\ Len(q) \in 1..Len(q)
    BY <1>1, <2>1
  <2>3. ASSUME NEW i \in 1..Len(q)
        PROVE  /\ r[i].start = q[i].start
               /\ r[i].write_pos_ = IF i = Len(q) THEN q[i].write_pos_ + n
                                    ELSE q[i].write_pos_
    <3>1. r[i] = IF i = Len(q) THEN [q[i] EXCEPT !.write_pos_ = @ + n] ELSE q[i]
      BY <2>1, <2>2
    <3>2. q[i] \in Buffers
      OBVIOUS
    <3> QED
      BY <3>1, <3>2 DEF Buffers
  <2>4. ASSUME NEW i \in 1..Len(q)
        PROVE  q[i].start \in Nat /\ q[i].write_pos_ \in Nat
    <3>1. q[i] \in Buffers
      OBVIOUS
    <3> QED
      BY <3>1 DEF Buffers
  <2> HIDE DEF r
  <2>5. ASSUME NEW i \in 1..Len(q)
        PROVE  r[i].start + r[i].write_pos_ =
                 IF i = Len(q) THEN produced + n ELSE r[i + 1].start
    <3>1. q[i].start + q[i].write_pos_ =
            IF i = Len(q) THEN produced ELSE q[i + 1].start
      BY DEF Contiguous
    <3>2. CASE i = Len(q)
      BY <2>3, <2>4, <3>1, <3>2
    <3>3. CASE i # Len(q)
      <4>1. i + 1 \in 1..Len(q)
        BY <3>3
      <4>2. r[i + 1].start = q[i + 1].start
        BY <2>3, <4>1
      <4>3. r[i].start = q[i].start /\ r[i].write_pos_ = q[i].write_pos_
        BY <2>3, <3>3
      <4> QED
        BY <3>1, <3>3, <4>2, <4>3
    <3> QED
      BY <3>2, <3>3
  <2> QED
    BY <2>2, <2>5 DEF Contiguous, r
<1>2. CASE ~(q # << >> /\ Fits(q[Len(q)], n))
  <2> DEFINE b == SendBuffer(produced, n)
             r == Stored(q, n)
  <2>1. r = Append(q, b)
    BY <1>2 DEF Stored
  <2>2. b.start = produced /\ b.write_pos_ = n
    BY DEF SendBuffer
  <2>3. /\ Len(r) = Len(q) + 1 /\ r[Len(q) + 1] = b
        /\ \A i \in 1..Len(q) : r[i] = q[i]
    BY <2>1
  <2> HIDE DEF r, b
  <2>4. Contiguous(r, produced + n)
    BY <2>2, <2>3, SMTT(60) DEF Contiguous
  <2> QED
    BY <2>4 DEF r
<1> QED
  BY <1>1, <1>2

LEMMA TailContiguous ==
  ASSUME NEW q \in Seq(Buffers), q # << >>, NEW p \in Nat, Contiguous(q, p)
  PROVE  Contiguous(Tail(q), p)
<1> DEFINE r == Tail(q)
<1>1. Len(r) = Len(q) - 1 /\ Len(q) \in Nat \ {0}
  OBVIOUS
<1>2. ASSUME NEW i \in 1..Len(q) - 1 PROVE r[i] = q[i + 1]
  OBVIOUS
<1> HIDE DEF r
<1>3. ASSUME NEW i \in 1..Len(r)
      PROVE  r[i].start + r[i].write_pos_ = IF i = Len(r) THEN p
                                            ELSE r[i + 1].start
  <2>1. i + 1 \in 1..Len(q) /\ r[i] = q[i + 1]
    BY <1>1, <1>2
  <2>2. q[i + 1].start + q[i + 1].write_pos_ =
          IF i + 1 = Len(q) THEN p ELSE q[i + 1 + 1].start
    BY <2>1 DEF Contiguous
  <2>3. CASE i = Len(r)
    BY <1>1, <2>1, <2>2, <2>3
  <2>4. CASE i # Len(r)
    <3>1. r[i + 1] = q[i + 1 + 1]
      BY <1>1, <1>2, <2>4
    <3> QED
      BY <1>1, <2>1, <2>2, <2>4, <3>1
  <2> QED
    BY <2>3, <2>4
<1> QED
  BY <1>3 DEF Contiguous, r

LEMMA ConsumedContiguous ==
  ASSUME NEW q \in Seq(Buffers), q # << >>, NEW n \in Nat, NEW p \in Nat,
         Contiguous(q, p)
  PROVE  Contiguous(Consumed(q, n), p)
<1>1. CASE Size(q[1]) = n
  <2>1. Consumed(q, n) = Tail(q)
    BY <1>1 DEF Consumed
  <2> QED
    BY <2>1, TailContiguous
<1>2. CASE Size(q[1]) # n
  <2> DEFINE r == Consumed(q, n)
  <2>1. r = [q EXCEPT ![1].read_pos_ = @ + n]
    BY <1>2 DEF Consumed
  <2>2. Len(r) = Len(q)
    BY <2>1
  <2>3. ASSUME NEW i \in 1..Len(q)
        PROVE  r[i].start = q[i].start /\ r[i].write_pos_ = q[i].write_pos_
    <3>1. r[i] = IF i = 1 THEN [q[i] EXCEPT !.read_pos_ = @ + n] ELSE q[i]
      BY <2>1, <2>2
    <3>2. q[i] \in Buffers
      OBVIOUS
    <3> QED
      BY <3>1, <3>2 DEF Buffers
  <2> HIDE DEF r
  <2>4. Contiguous(r, p)
    BY <2>2, <2>3 DEF Contiguous
  <2> QED
    BY <2>4 DEF r
<1> QED
  BY <1>1, <1>2

LEMMA QueueNext == TypeOK /\ QueueContiguous /\ [Next]_vars => QueueContiguous'
<1> SUFFICES ASSUME TypeOK, QueueContiguous, [Next]_vars PROVE QueueContiguous'
  OBVIOUS
<1> USE SendAssumption DEF lockVars, netVars, ghosts, QueueContiguous
<1>0. ASSUME UNCHANGED <<send_buffers_, produced>> PROVE QueueContiguous'
  BY <1>0 DEF Contiguous
<1>1. ASSUME NEW t \in Threads, Store(t) PROVE QueueContiguous'
  <2>1. CASE Undefined
    BY <1>0, <2>1 DEF Undefined
  <2>2. CASE ~Undefined
    <3>1. /\ send_buffers_' = Stored(send_buffers_, arg[t].n)
          /\ produced' = produced + arg[t].n
      BY <1>1, <2>2 DEF Store
    <3>2. Contiguous(Stored(send_buffers_, arg[t].n), produced + arg[t].n)
      BY StoredContiguous DEF TypeOK
    <3> QED
      BY <3>1, <3>2 DEF Contiguous
  <2> QED
    BY <2>1, <2>2
<1>2. ASSUME NEW t \in Threads, Advance(t) PROVE QueueContiguous'
  <2>1. CASE UNCHANGED <<send_buffers_, produced>>
    BY <1>0, <2>1
  <2>2. CASE ~UNCHANGED <<send_buffers_, produced>>
    <3>1. /\ send_buffers_ # << >> /\ produced' = produced
          /\ send_buffers_' = Consumed(send_buffers_, arg[t].n)
      BY <1>2, <2>2 DEF Advance, Undefined
    <3>2. Contiguous(Consumed(send_buffers_, arg[t].n), produced)
      BY <3>1, ConsumedContiguous DEF TypeOK
    <3> QED
      BY <3>1, <3>2 DEF Contiguous
  <2> QED
    BY <2>1, <2>2
<1>3. ASSUME NEW t \in Threads, ThreadStep(t), ~Store(t), ~Advance(t)
      PROVE  QueueContiguous'
  BY <1>0, <1>3 DEF ThreadStep, SpinLock, CheckCount, Load, StoreCount,
     FirstSend, CheckError, Unlock, Undefined
<1>4. ASSUME NEW t \in Threads, NEW i \in 1..Len(done), Dispatch(t, i)
      PROVE  QueueContiguous'
  BY <1>0, <1>4 DEF Dispatch
<1>5. ASSUME NEW t \in Threads, NEW n \in MsgSizes, NEW ctx \in Contexts,
             ToSend(t, n, ctx)
      PROVE  QueueContiguous'
  BY <1>0, <1>5 DEF ToSend
<1>6. ASSUME NEW i \in 1..Len(flights), KernelSend(i) PROVE QueueContiguous'
  <2>1. UNCHANGED <<send_buffers_, produced>>
    BY <1>6 DEF KernelSend, Undefined
  <2> QED
    BY <1>0, <2>1
<1>7. ASSUME NEW i \in 1..Len(flights), KernelFail(i) PROVE QueueContiguous'
  BY <1>0, <1>7 DEF KernelFail
<1>8. CASE Close \/ Reconnect \/ UNCHANGED vars
  BY <1>0, <1>8 DEF Close, Reconnect, vars
<1> QED
  BY <1>1, <1>2, <1>3, <1>4, <1>5, <1>6, <1>7, <1>8 DEF Next, Kernel, Dispatches

\* With any number of threads, the buffers of the list are adjacent pieces of
\* the accepted stream: concurrent calls of to_send and on_write lose,
\* duplicate or reorder nothing inside the list itself.
THEOREM QueueCorrect == Spec => []QueueContiguous
<1>1. Init => QueueContiguous
  BY DEF Init, QueueContiguous, Contiguous
<1> QED
  BY <1>1, InitType, NextType, QueueNext, PTL DEF Spec

----------------------------------------------------------------------------
(* The pool with one thread, messages that fit a buffer                     *)

FitsOneBuffer == MsgSizes \subseteq 1..Cap

Outstanding == Len(flights) + Len(done)

\* The parts of on_write before it consumes what the kernel took.
Unread == {"w_load", "w_dec", "w_ec", "w_lock", "w_crit"}

\* write_count_ against the sends outstanding, at each step of thread t.
CountInv(t) ==
  /\ Outstanding \in {0, 1}
  /\ pc[t] \in {"idle", "send_lock", "send_crit", "send_check", "w_unlock"} =>
       write_count_ = Outstanding
  /\ pc[t] \in {"send_load", "send_inc", "w_ec", "w_lock", "w_crit"} =>
       write_count_ = 0 /\ Outstanding = 0
  /\ pc[t] = "send_start" => write_count_ = 1 /\ Outstanding = 0
  /\ pc[t] \in {"w_load", "w_dec"} => write_count_ = 1 /\ Outstanding = 0
  /\ pc[t] \in {"w_inc_load", "w_inc"} => write_count_ = 0 /\ Outstanding = 1
  /\ pc[t] = "w_unlock" => Outstanding = 1
  /\ pc[t] \in {"send_inc", "w_inc"} => reg[t] = 0
  /\ pc[t] = "w_dec" => reg[t] = 1

\* Every buffer of the list holds unsent bytes; only the first is being sent.
BufferInv(q, p) ==
  \A i \in 1..Len(q) : /\ q[i].read_pos_ < q[i].write_pos_
                       /\ q[i].write_pos_ <= Cap
                       /\ q[i].start + q[i].write_pos_ <= p
                       /\ i > 1 => q[i].read_pos_ = 0

\* What is being sent is the unsent part of the first buffer.
FlightInv ==
  \A i \in 1..Len(flights) :
    /\ send_buffers_ # << >>
    /\ flights[i].buf = send_buffers_[1].start
    /\ flights[i].off = send_buffers_[1].read_pos_
    /\ flights[i].len \in 1..Size(send_buffers_[1])

\* The bytes the kernel took that no on_write has consumed yet.
Unacked(t) ==
  IF done # << >> THEN done[1].n ELSE IF pc[t] \in Unread THEN arg[t].n ELSE 0

\* The kernel stands where the first buffer's cursor will be.
PositionInv(t) ==
  /\ send_buffers_ = << >> => Len(wire) = produced /\ Unacked(t) = 0
  /\ send_buffers_ # << >> =>
       /\ send_buffers_[1].start + send_buffers_[1].read_pos_ + Unacked(t)
            = Len(wire)
       /\ Unacked(t) <= Size(send_buffers_[1])

\* An error carries no bytes, a success at least one.
ResultInv(t) ==
  /\ \A i \in 1..Len(done) : done[i].ec <=> done[i].n = 0
  /\ pc[t] \in Unread => (arg[t].ec <=> arg[t].n = 0)
  /\ pc[t] \in {"w_lock", "w_crit"} => ~arg[t].ec
  /\ pc[t] \in {"send_lock", "send_crit"} => arg[t].n \in MsgSizes

\* Where the list cannot be empty, and where it waits only after an error.
StallInv(t) ==
  /\ pc[t] \in {"send_check", "send_load", "send_inc", "send_start"} \cup Unread =>
       send_buffers_ # << >>
  /\ done # << >> => send_buffers_ # << >>
  /\ /\ pc[t] \in {"idle", "send_lock", "send_crit"}
     /\ Outstanding = 0 /\ send_buffers_ # << >>
     => failed

\* The inductive invariant of the one-thread pool.
OneThreadInv(t) ==
  /\ ~ub
  /\ CountInv(t)
  /\ Contiguous(send_buffers_, produced)
  /\ BufferInv(send_buffers_, produced)
  /\ FlightInv
  /\ PositionInv(t)
  /\ ResultInv(t)
  /\ StallInv(t)
  /\ InOrder

\* One thread: what OneSendInFlight, CounterMatches, InOrder, NoSilentStall and
\* MemorySafe need to be inductive: the counter, the list, the send in flight
\* and the kernel's position agree at every step of to_send and on_write.
OneThreadInvariant == \A t \in Threads : OneThreadInv(t)

LEMMA WithoutOnly ==
  ASSUME NEW S, NEW s \in Seq(S), Len(s) = 1, NEW i \in 1..Len(s)
  PROVE  Without(s, i) = << >>
<1>1. i = 1
  OBVIOUS
<1>2. SubSeq(s, 1, 0) = << >> /\ SubSeq(s, 2, 1) = << >>
  OBVIOUS
<1> QED
  BY <1>1, <1>2 DEF Without

LEMMA StoredBuffers ==
  ASSUME NEW q \in Seq(Buffers), NEW n \in 1..Cap, produced \in Nat,
         Contiguous(q, produced), BufferInv(q, produced)
  PROVE  /\ Stored(q, n) # << >>
         /\ BufferInv(Stored(q, n), produced + n)
         /\ q # << >> => /\ Stored(q, n)[1].start = q[1].start
                        /\ Stored(q, n)[1].read_pos_ = q[1].read_pos_
                        /\ Stored(q, n)[1].write_pos_ >= q[1].write_pos_
         /\ q = << >> => Stored(q, n)[1] = SendBuffer(produced, n)
<1> DEFINE r == Stored(q, n)
<1> USE SendAssumption
<1>1. CASE q # << >> /\ Fits(q[Len(q)], n)
  <2>1. r = [q EXCEPT ![Len(q)].write_pos_ = @ + n]
    BY <1>1 DEF Stored
  <2>2. Len(r) = Len(q) /\ Len(q) \in 1..Len(q)
    BY <1>1, <2>1
  <2>3. ASSUME NEW i \in 1..Len(q)
        PROVE  /\ r[i].start = q[i].start
               /\ r[i].read_pos_ = q[i].read_pos_
               /\ r[i].write_pos_ = IF i = Len(q) THEN q[i].write_pos_ + n
                                    ELSE q[i].write_pos_
               /\ q[i].start \in Nat /\ q[i].read_pos_ \in Nat
               /\ q[i].write_pos_ \in Nat
    <3>1. r[i] = IF i = Len(q) THEN [q[i] EXCEPT !.write_pos_ = @ + n] ELSE q[i]
      BY <2>1, <2>2
    <3>2. q[i] \in Buffers
      OBVIOUS
    <3> QED
      BY <3>1, <3>2 DEF Buffers
  <2>4. q[Len(q)].start + q[Len(q)].write_pos_ = produced
    BY <2>2 DEF Contiguous
  <2>5. q[Len(q)].write_pos_ + n <= Cap
    BY <1>1, <2>2, <2>3 DEF Fits
  <2> HIDE DEF r
  <2>6. BufferInv(r, produced + n)
    <3> SUFFICES ASSUME NEW i \in 1..Len(q)
                 PROVE  /\ r[i].read_pos_ < r[i].write_pos_
                        /\ r[i].write_pos_ <= Cap
                        /\ r[i].start + r[i].write_pos_ <= produced + n
                        /\ i > 1 => r[i].read_pos_ = 0
      BY <2>2 DEF BufferInv
    <3>1. /\ q[i].read_pos_ < q[i].write_pos_ /\ q[i].write_pos_ <= Cap
          /\ q[i].start + q[i].write_pos_ <= produced
          /\ i > 1 => q[i].read_pos_ = 0
      BY DEF BufferInv
    <3>2. /\ r[i].start = q[i].start /\ r[i].read_pos_ = q[i].read_pos_
          /\ r[i].write_pos_ = IF i = Len(q) THEN q[i].write_pos_ + n
                               ELSE q[i].write_pos_
          /\ q[i].start \in Nat /\ q[i].read_pos_ \in Nat
          /\ q[i].write_pos_ \in Nat
      BY <2>3
    <3>3. CASE i = Len(q)
      <4>1. /\ r[i].write_pos_ = q[i].write_pos_ + n
            /\ q[i].start + q[i].write_pos_ = produced
            /\ q[i].write_pos_ + n <= Cap
        BY <2>4, <2>5, <3>2, <3>3
      <4> QED
        BY <3>1, <3>2, <4>1, SMTT(60)
    <3>4. CASE i # Len(q)
      <4>1. r[i].write_pos_ = q[i].write_pos_
        BY <3>2, <3>4
      <4> QED
        BY <3>1, <3>2, <4>1
    <3> QED
      BY <3>3, <3>4
  <2>7. 1 \in 1..Len(q) /\ r # << >>
    BY <1>1, <2>2
  <2>8. /\ r[1].start = q[1].start /\ r[1].read_pos_ = q[1].read_pos_
        /\ r[1].write_pos_ >= q[1].write_pos_
    BY <2>3, <2>7
  <2> QED
    BY <1>1, <2>6, <2>7, <2>8 DEF r
<1>2. CASE ~(q # << >> /\ Fits(q[Len(q)], n))
  <2> DEFINE b == SendBuffer(produced, n)
  <2>1. r = Append(q, b)
    BY <1>2 DEF Stored
  <2>2. b.start = produced /\ b.write_pos_ = n /\ b.read_pos_ = 0
    BY DEF SendBuffer
  <2>3. /\ Len(r) = Len(q) + 1 /\ r[Len(q) + 1] = b
        /\ \A i \in 1..Len(q) : r[i] = q[i]
    BY <2>1
  <2>4. ASSUME NEW i \in 1..Len(q)
        PROVE  /\ q[i].start \in Nat /\ q[i].read_pos_ \in Nat
               /\ q[i].write_pos_ \in Nat
    <3>1. q[i] \in Buffers
      OBVIOUS
    <3> QED
      BY <3>1 DEF Buffers
  <2> HIDE DEF r, b
  <2>5. BufferInv(r, produced + n)
    <3> SUFFICES ASSUME NEW i \in 1..Len(r)
                 PROVE  /\ r[i].read_pos_ < r[i].write_pos_
                        /\ r[i].write_pos_ <= Cap
                        /\ r[i].start + r[i].write_pos_ <= produced + n
                        /\ i > 1 => r[i].read_pos_ = 0
      BY DEF BufferInv
    <3>1. CASE i = Len(q) + 1
      BY <2>2, <2>3, <3>1
    <3>2. CASE i # Len(q) + 1
      <4>1. i \in 1..Len(q) /\ r[i] = q[i]
        BY <2>3, <3>2
      <4>2. /\ q[i].read_pos_ < q[i].write_pos_ /\ q[i].write_pos_ <= Cap
            /\ q[i].start + q[i].write_pos_ <= produced
            /\ i > 1 => q[i].read_pos_ = 0
        BY <4>1 DEF BufferInv
      <4> QED
        BY <2>4, <4>1, <4>2
    <3> QED
      BY <3>1, <3>2
  <2>6. r # << >>
    BY <2>3
  <2>7. q = << >> => r[1] = b
    BY <2>3
  <2>8. q # << >> => r[1] = q[1] /\ q[1].write_pos_ \in Nat
    BY <2>3, <2>4
  <2> QED
    BY <2>5, <2>6, <2>7, <2>8 DEF r, b
<1> QED
  BY <1>1, <1>2

LEMMA ConsumedBuffers ==
  ASSUME NEW q \in Seq(Buffers), q # << >>, NEW p \in Nat, NEW n \in Nat \ {0},
         n <= Size(q[1]), Contiguous(q, p), BufferInv(q, p)
  PROVE  LET r == Consumed(q, n) IN
         /\ BufferInv(r, p)
         /\ r # << >> => r[1].start + r[1].read_pos_
                          = q[1].start + q[1].read_pos_ + n
         /\ r = << >> => q[1].start + q[1].read_pos_ + n = p
<1> DEFINE r == Consumed(q, n)
<1>0. ASSUME NEW i \in 1..Len(q)
      PROVE  /\ q[i] \in Buffers
             /\ q[i].start \in Nat /\ q[i].read_pos_ \in Nat
             /\ q[i].write_pos_ \in Nat
  <2>1. q[i] \in Buffers
    OBVIOUS
  <2> QED
    BY <2>1 DEF Buffers
<1>1. 1 \in 1..Len(q)
  OBVIOUS
<1> SUFFICES /\ BufferInv(r, p)
             /\ r # << >> => r[1].start + r[1].read_pos_
                              = q[1].start + q[1].read_pos_ + n
             /\ r = << >> => q[1].start + q[1].read_pos_ + n = p
  OBVIOUS
<1>2. CASE Size(q[1]) = n
  <2>1. r = Tail(q)
    BY <1>2 DEF Consumed
  <2>2. Len(r) = Len(q) - 1 /\ \A i \in 1..Len(q) - 1 : r[i] = q[i + 1]
    BY <2>1
  <2>3. q[1].start + q[1].read_pos_ + n = q[1].start + q[1].write_pos_
    <3>1. /\ q[1].start \in Nat /\ q[1].read_pos_ \in Nat
          /\ q[1].write_pos_ \in Nat
      BY <1>0, <1>1
    <3>2. q[1].write_pos_ - q[1].read_pos_ = n
      BY <1>2 DEF Size
    <3> QED
      BY <3>1, <3>2, SMTT(60)
  <2> HIDE DEF r
  <2>4. BufferInv(r, p)
    <3>1. ASSUME NEW i \in 1..Len(r)
          PROVE  i + 1 \in 1..Len(q) /\ r[i] = q[i + 1]
      BY <2>2
    <3> QED
      BY <3>1 DEF BufferInv
  <2>5. r = << >> => q[1].start + q[1].write_pos_ = p
    BY <1>1, <2>2 DEF Contiguous
  <2>6. ASSUME r # << >>
        PROVE  r[1].start + r[1].read_pos_ = q[1].start + q[1].write_pos_
    <3>1. 1 # Len(q) /\ r[1] = q[2] /\ 2 \in 1..Len(q)
      BY <2>1, <2>2, <2>6
    <3>2. q[2].start = q[1].start + q[1].write_pos_
      BY <1>1, <3>1 DEF Contiguous
    <3>3. q[2].read_pos_ = 0
      BY <3>1 DEF BufferInv
    <3> QED
      BY <1>0, <1>1, <3>1, <3>2, <3>3
  <2> QED
    BY <2>3, <2>4, <2>5, <2>6
<1>3. CASE Size(q[1]) # n
  <2>1. r = [q EXCEPT ![1].read_pos_ = @ + n]
    BY <1>3 DEF Consumed
  <2>2. Len(r) = Len(q) /\ r # << >>
    BY <2>1
  <2>3. ASSUME NEW i \in 1..Len(q)
        PROVE  /\ r[i].start = q[i].start /\ r[i].write_pos_ = q[i].write_pos_
               /\ r[i].read_pos_ = IF i = 1 THEN q[i].read_pos_ + n
                                   ELSE q[i].read_pos_
    <3>1. r[i] = IF i = 1 THEN [q[i] EXCEPT !.read_pos_ = @ + n] ELSE q[i]
      BY <2>1, <2>2
    <3> QED
      BY <1>0, <3>1 DEF Buffers
  <2>4. q[1].read_pos_ + n < q[1].write_pos_
    BY <1>0, <1>1, <1>3, SMTT(60) DEF Size
  <2> HIDE DEF r
  <2>5. BufferInv(r, p)
    <3> SUFFICES ASSUME NEW i \in 1..Len(q)
                 PROVE  /\ r[i].read_pos_ < r[i].write_pos_
                        /\ r[i].write_pos_ <= Cap
                        /\ r[i].start + r[i].write_pos_ <= p
                        /\ i > 1 => r[i].read_pos_ = 0
      BY <2>2 DEF BufferInv
    <3>1. /\ q[i].read_pos_ < q[i].write_pos_ /\ q[i].write_pos_ <= Cap
          /\ q[i].start + q[i].write_pos_ <= p
          /\ i > 1 => q[i].read_pos_ = 0
      BY DEF BufferInv
    <3> QED
      BY <2>3, <2>4, <3>1
  <2> QED
    BY <1>0, <1>1, <2>2, <2>3, <2>5
<1> QED
  BY <1>2, <1>3

LEMMA OneThreadInit ==
  ASSUME NEW t, Threads = {t}
  PROVE  Init => OneThreadInv(t)
<1> SUFFICES ASSUME Init PROVE OneThreadInv(t)
  OBVIOUS
<1>1. /\ flights = << >> /\ done = << >> /\ send_buffers_ = << >>
      /\ wire = << >> /\ produced = 0 /\ write_count_ = 0 /\ pc[t] = "idle"
      /\ Len(flights) = 0 /\ Len(done) = 0 /\ Len(send_buffers_) = 0
      /\ Len(wire) = 0
  BY DEF Init
<1>2. ~ub
  BY Zenon DEF Init
<1>3. CountInv(t)
  BY <1>1 DEF CountInv, Outstanding
<1>4. /\ Contiguous(send_buffers_, produced) /\ BufferInv(send_buffers_, produced)
      /\ FlightInv /\ PositionInv(t) /\ ResultInv(t) /\ StallInv(t) /\ InOrder
  BY <1>1 DEF Contiguous, BufferInv, FlightInv, PositionInv, ResultInv,
     StallInv, InOrder, Unacked, Unread, Outstanding
<1> QED
  BY <1>2, <1>3, <1>4 DEF OneThreadInv

\* Steps of the thread that touch neither the list nor the kernel.
LEMMA LocalStep ==
  ASSUME NEW t, Threads = {t}, TypeOK, OneThreadInv(t),
         UNCHANGED <<send_buffers_, flights, done, produced, wire, ub>>,
         CountInv(t)', ResultInv(t)', StallInv(t)', Unacked(t)' = Unacked(t)
  PROVE  OneThreadInv(t)'
<1>1. ~ub'
  BY Zenon DEF OneThreadInv
<1>2. /\ Contiguous(send_buffers_, produced)' /\ BufferInv(send_buffers_, produced)'
      /\ FlightInv' /\ PositionInv(t)' /\ InOrder'
  BY DEF OneThreadInv, Contiguous, BufferInv, FlightInv, PositionInv, InOrder
<1> QED
  BY <1>1, <1>2 DEF OneThreadInv

LEMMA OneThreadLocal ==
  ASSUME NEW t, Threads = {t}, FitsOneBuffer, TypeOK, OneThreadInv(t),
         \/ SpinLock(t, "send_lock", "send_crit")
         \/ CheckCount(t)
         \/ Load(t, "send_load", "send_inc")
         \/ StoreCount(t, "send_inc", 1, "send_start")
         \/ Load(t, "w_load", "w_dec")
         \/ StoreCount(t, "w_dec", -1, "w_ec")
         \/ CheckError(t)
         \/ SpinLock(t, "w_lock", "w_crit")
         \/ Load(t, "w_inc_load", "w_inc")
         \/ StoreCount(t, "w_inc", 1, "w_unlock")
         \/ Unlock(t)
         \/ \E n \in MsgSizes, ctx \in Contexts : ToSend(t, n, ctx)
  PROVE  OneThreadInv(t)'
<1> USE SendAssumption
    DEF lockVars, netVars, ghosts, Outstanding, Unread
<1>t. /\ pc \in [Threads -> Labels] /\ reg \in [Threads -> Int]
      /\ arg \in [Threads -> [ec : BOOLEAN, n : Nat]] /\ t \in Threads
      /\ Len(flights) \in Nat /\ Len(done) \in Nat /\ write_count_ \in Int
      /\ done # << >> <=> Len(done) # 0
  BY DEF TypeOK
<1>u. UNCHANGED <<send_buffers_, flights, done, produced, wire, ub>>
  BY DEF SpinLock, CheckCount, Load, StoreCount, CheckError, Unlock, ToSend
<1>i. CountInv(t) /\ ResultInv(t) /\ StallInv(t) /\ PositionInv(t)
  BY DEF OneThreadInv
<1>1. CASE SpinLock(t, "send_lock", "send_crit")
  <2>1. /\ pc[t] = "send_lock" /\ pc'[t] = "send_crit"
        /\ UNCHANGED <<write_count_, arg, reg, failed>>
    BY <1>t, <1>1 DEF SpinLock, Goto
  <2>2. CountInv(t)' /\ ResultInv(t)' /\ StallInv(t)' /\ Unacked(t)' = Unacked(t)
    BY <1>t, <1>u, <1>i, <2>1 DEF CountInv, ResultInv, StallInv, Unacked
  <2> QED
    BY <1>u, <2>2, LocalStep
<1>2. CASE CheckCount(t)
  <2>1. /\ pc[t] = "send_check"
        /\ pc'[t] = IF write_count_ = 0 THEN "send_load" ELSE "idle"
        /\ UNCHANGED <<write_count_, arg, reg, failed>>
    BY <1>t, <1>2 DEF CheckCount, Goto, Return, MayStart
  <2>2. CountInv(t)' /\ ResultInv(t)' /\ StallInv(t)' /\ Unacked(t)' = Unacked(t)
    BY <1>t, <1>u, <1>i, <2>1 DEF CountInv, ResultInv, StallInv, Unacked
  <2> QED
    BY <1>u, <2>2, LocalStep
<1>3. CASE Load(t, "send_load", "send_inc")
  <2>1. /\ pc[t] = "send_load" /\ pc'[t] = "send_inc" /\ reg'[t] = write_count_
        /\ UNCHANGED <<write_count_, arg, failed>>
    BY <1>t, <1>3 DEF Load, Goto
  <2>2. CountInv(t)' /\ ResultInv(t)' /\ StallInv(t)' /\ Unacked(t)' = Unacked(t)
    BY <1>t, <1>u, <1>i, <2>1 DEF CountInv, ResultInv, StallInv, Unacked
  <2> QED
    BY <1>u, <2>2, LocalStep
<1>4. CASE StoreCount(t, "send_inc", 1, "send_start")
  <2>1. /\ pc[t] = "send_inc" /\ pc'[t] = "send_start" /\ write_count_' = reg[t] + 1
        /\ UNCHANGED <<reg, arg, failed>>
    BY <1>t, <1>4 DEF StoreCount, Goto, Added
  <2>2. CountInv(t)' /\ ResultInv(t)' /\ StallInv(t)' /\ Unacked(t)' = Unacked(t)
    BY <1>t, <1>u, <1>i, <2>1 DEF CountInv, ResultInv, StallInv, Unacked
  <2> QED
    BY <1>u, <2>2, LocalStep
<1>5. CASE Load(t, "w_load", "w_dec")
  <2>1. /\ pc[t] = "w_load" /\ pc'[t] = "w_dec" /\ reg'[t] = write_count_
        /\ UNCHANGED <<write_count_, arg, failed>>
    BY <1>t, <1>5 DEF Load, Goto
  <2>2. CountInv(t)' /\ ResultInv(t)' /\ StallInv(t)' /\ Unacked(t)' = Unacked(t)
    BY <1>t, <1>u, <1>i, <2>1 DEF CountInv, ResultInv, StallInv, Unacked
  <2> QED
    BY <1>u, <2>2, LocalStep
<1>6. CASE StoreCount(t, "w_dec", -1, "w_ec")
  <2>1. /\ pc[t] = "w_dec" /\ pc'[t] = "w_ec" /\ write_count_' = reg[t] - 1
        /\ UNCHANGED <<reg, arg, failed>>
    BY <1>t, <1>6 DEF StoreCount, Goto, Added
  <2>2. CountInv(t)' /\ ResultInv(t)' /\ StallInv(t)' /\ Unacked(t)' = Unacked(t)
    BY <1>t, <1>u, <1>i, <2>1 DEF CountInv, ResultInv, StallInv, Unacked
  <2> QED
    BY <1>u, <2>2, LocalStep
<1>7. CASE CheckError(t)
  <2>1. /\ pc[t] = "w_ec" /\ UNCHANGED <<write_count_, reg, arg>>
        /\ failed' = arg[t].ec
        /\ \/ arg[t].ec /\ pc'[t] = "idle"
           \/ ~arg[t].ec /\ pc'[t] = "w_lock"
    BY <1>t, <1>7 DEF CheckError, Goto, Return
  <2>2. CountInv(t)' /\ ResultInv(t)' /\ Unacked(t)' = Unacked(t)
    BY <1>t, <1>u, <1>i, <2>1 DEF CountInv, ResultInv, Unacked
  <2>3. StallInv(t)'
    BY <1>t, <1>u, <1>i, <2>1 DEF StallInv
  <2> QED
    BY <1>u, <2>2, <2>3, LocalStep
<1>8. CASE SpinLock(t, "w_lock", "w_crit")
  <2>1. /\ pc[t] = "w_lock" /\ pc'[t] = "w_crit"
        /\ UNCHANGED <<write_count_, arg, reg, failed>>
    BY <1>t, <1>8 DEF SpinLock, Goto
  <2>2. CountInv(t)' /\ ResultInv(t)' /\ StallInv(t)' /\ Unacked(t)' = Unacked(t)
    BY <1>t, <1>u, <1>i, <2>1 DEF CountInv, ResultInv, StallInv, Unacked
  <2> QED
    BY <1>u, <2>2, LocalStep
<1>9. CASE Load(t, "w_inc_load", "w_inc")
  <2>1. /\ pc[t] = "w_inc_load" /\ pc'[t] = "w_inc" /\ reg'[t] = write_count_
        /\ UNCHANGED <<write_count_, arg, failed>>
    BY <1>t, <1>9 DEF Load, Goto
  <2>2. CountInv(t)' /\ ResultInv(t)' /\ StallInv(t)' /\ Unacked(t)' = Unacked(t)
    BY <1>t, <1>u, <1>i, <2>1 DEF CountInv, ResultInv, StallInv, Unacked
  <2> QED
    BY <1>u, <2>2, LocalStep
<1>10. CASE StoreCount(t, "w_inc", 1, "w_unlock")
  <2>1. /\ pc[t] = "w_inc" /\ pc'[t] = "w_unlock" /\ write_count_' = reg[t] + 1
        /\ UNCHANGED <<reg, arg, failed>>
    BY <1>t, <1>10 DEF StoreCount, Goto, Added
  <2>2. CountInv(t)' /\ ResultInv(t)' /\ StallInv(t)' /\ Unacked(t)' = Unacked(t)
    BY <1>t, <1>u, <1>i, <2>1 DEF CountInv, ResultInv, StallInv, Unacked
  <2> QED
    BY <1>u, <2>2, LocalStep
<1>11. CASE Unlock(t)
  <2>1. /\ pc[t] = "w_unlock" /\ pc'[t] = "idle"
        /\ UNCHANGED <<write_count_, arg, reg, failed>>
    BY <1>t, <1>11 DEF Unlock, Goto, Return
  <2>2. CountInv(t)' /\ ResultInv(t)' /\ StallInv(t)' /\ Unacked(t)' = Unacked(t)
    BY <1>t, <1>u, <1>i, <2>1 DEF CountInv, ResultInv, StallInv, Unacked
  <2> QED
    BY <1>u, <2>2, LocalStep
<1>12. ASSUME NEW n \in MsgSizes, NEW ctx \in Contexts, ToSend(t, n, ctx)
       PROVE  OneThreadInv(t)'
  <2>1. /\ pc[t] = "idle" /\ pc'[t] = "send_lock"
        /\ arg'[t] = [ec |-> FALSE, n |-> n]
        /\ UNCHANGED <<write_count_, reg, failed>>
    BY <1>t, <1>12 DEF ToSend, Goto
  <2>2. CountInv(t)' /\ ResultInv(t)' /\ StallInv(t)' /\ Unacked(t)' = Unacked(t)
    BY <1>t, <1>u, <1>i, <2>1 DEF CountInv, ResultInv, StallInv, Unacked
  <2> QED
    BY <1>u, <2>2, LocalStep
<1> QED
  BY <1>1, <1>2, <1>3, <1>4, <1>5, <1>6, <1>7, <1>8, <1>9, <1>10, <1>11, <1>12

\* The first buffer's cursors are numbers.
LEMMA FrontType ==
  ASSUME TypeOK, send_buffers_ # << >>
  PROVE  /\ send_buffers_[1].start \in Nat
         /\ send_buffers_[1].read_pos_ \in Nat
         /\ send_buffers_[1].write_pos_ \in Nat
         /\ 1 \in 1..Len(send_buffers_)
<1>1. 1 \in 1..Len(send_buffers_) /\ send_buffers_[1] \in Buffers
  BY DEF TypeOK
<1> QED
  BY <1>1 DEF Buffers

LEMMA UnackedType ==
  ASSUME TypeOK, NEW t \in Threads
  PROVE  Unacked(t) \in Nat
<1>1. CASE done # << >>
  <2>1. done[1] \in Completions
    BY <1>1 DEF TypeOK
  <2> QED
    BY <1>1, <2>1 DEF Unacked, Completions
<1>2. CASE done = << >>
  BY <1>2 DEF Unacked, TypeOK
<1> QED
  BY <1>1, <1>2

LEMMA OneThreadStore ==
  ASSUME NEW t, Threads = {t}, FitsOneBuffer, TypeOK, OneThreadInv(t), Store(t)
  PROVE  OneThreadInv(t)'
<1> DEFINE n == arg[t].n
           q == send_buffers_
           r == Stored(q, n)
<1> USE SendAssumption DEF lockVars, netVars, Outstanding, Unread
<1>1. n \in 1..Cap
  BY DEF Store, OneThreadInv, ResultInv, FitsOneBuffer
<1>2. /\ q' = r /\ produced' = produced + n
      /\ pc[t] = "send_crit" /\ pc'[t] = "send_check"
      /\ UNCHANGED <<write_count_, flights, done, arg, reg, wire, failed, ub>>
  BY <1>1 DEF Store, Goto, TypeOK
<1>3. Contiguous(r, produced + n)
  BY <1>1, StoredContiguous DEF TypeOK, OneThreadInv
<1>4. /\ r # << >> /\ BufferInv(r, produced + n)
      /\ q # << >> => /\ r[1].start = q[1].start /\ r[1].read_pos_ = q[1].read_pos_
                     /\ r[1].write_pos_ >= q[1].write_pos_
      /\ q = << >> => r[1] = SendBuffer(produced, n)
  BY <1>1, StoredBuffers DEF TypeOK, OneThreadInv
<1>5. /\ flights \in Seq(Flights) /\ produced \in Nat /\ wire \in Seq(Nat)
      /\ r \in Seq(Buffers)
  BY <1>1, StoredType DEF TypeOK
<1>6. r[1].write_pos_ \in Nat
  <2>1. r[1] \in Buffers
    BY <1>4, <1>5
  <2> QED
    BY <2>1 DEF Buffers
<1>7. CountInv(t)'
  BY <1>2 DEF OneThreadInv, CountInv
<1>8. FlightInv'
  <2> SUFFICES ASSUME NEW i \in 1..Len(flights)
               PROVE  /\ r # << >> /\ flights[i].buf = r[1].start
                      /\ flights[i].off = r[1].read_pos_
                      /\ flights[i].len \in 1..Size(r[1])
    BY <1>2 DEF FlightInv
  <2>1. /\ q # << >> /\ flights[i].buf = q[1].start
        /\ flights[i].off = q[1].read_pos_ /\ flights[i].len \in 1..Size(q[1])
    BY DEF OneThreadInv, FlightInv
  <2> QED
    BY <1>4, <1>6, <2>1, FrontType, SMTT(60) DEF Size
<1>9. PositionInv(t)'
  <2>1. Unacked(t)' = Unacked(t) /\ (q = << >> => Unacked(t) = 0)
    BY <1>2 DEF Unacked, OneThreadInv, PositionInv
  <2>2. CASE q = << >>
    <3>1. Len(wire) = produced /\ Unacked(t) = 0
      BY <2>2 DEF OneThreadInv, PositionInv
    <3>2. r[1].start = produced /\ r[1].read_pos_ = 0 /\ r[1].write_pos_ = n
      BY <1>4, <2>2 DEF SendBuffer
    <3> QED
      BY <1>1, <1>2, <1>4, <1>5, <2>1, <3>1, <3>2 DEF PositionInv, Size
  <2>3. CASE q # << >>
    <3>1. /\ q[1].start + q[1].read_pos_ + Unacked(t) = Len(wire)
          /\ Unacked(t) <= Size(q[1])
      BY <2>3 DEF OneThreadInv, PositionInv
    <3>2. Unacked(t) \in Int
      BY UnackedType
    <3>3. /\ r[1].start + r[1].read_pos_ + Unacked(t) = Len(wire)
          /\ Unacked(t) <= Size(r[1])
      <4> DEFINE u == Unacked(t)
      <4>1. /\ q[1].start + q[1].read_pos_ + u = Len(wire)
            /\ u <= Size(q[1]) /\ u \in Int
        BY <3>1, <3>2
      <4>2. /\ q[1].start \in Nat /\ q[1].read_pos_ \in Nat
            /\ q[1].write_pos_ \in Nat
        BY <2>3, FrontType
      <4>3. /\ r[1].start = q[1].start /\ r[1].read_pos_ = q[1].read_pos_
            /\ r[1].write_pos_ >= q[1].write_pos_
        BY <1>4, <2>3
      <4> HIDE DEF u, r, q
      <4> QED
        BY <1>6, <4>1, <4>2, <4>3, SMTT(60) DEF Size, u
    <3> QED
      BY <1>2, <1>4, <2>1, <3>3 DEF PositionInv
  <2> QED
    BY <2>2, <2>3
<1>10. ResultInv(t)' /\ StallInv(t)'
  BY <1>2, <1>4 DEF OneThreadInv, ResultInv, StallInv
<1>11. InOrder'
  BY <1>1, <1>2, <1>5 DEF OneThreadInv, InOrder
<1>12. ~ub'
  BY <1>2, Zenon DEF OneThreadInv
<1> QED
  BY <1>2, <1>3, <1>4, <1>7, <1>8, <1>9, <1>10, <1>11, <1>12 DEF OneThreadInv, Contiguous, BufferInv

\* async_send of the first buffer of a list q, when nothing is outstanding.
LEMMA AsyncSendOne ==
  ASSUME TypeOK, NEW b \in Buffers, NEW w \in BOOLEAN, AsyncSend(b, w),
         Len(flights) = 0, Len(done) = 0, b.read_pos_ < b.write_pos_
  PROVE  /\ Len(flights') + Len(done') = 1
         /\ \A i \in 1..Len(flights') :
              /\ flights'[i].buf = b.start /\ flights'[i].off = b.read_pos_
              /\ flights'[i].len \in 1..Size(b)
         /\ \A i \in 1..Len(done') : done'[i].ec /\ done'[i].n = 0
         /\ done' # << >> => done'[1].n = 0
<1> DEFINE f == [buf |-> b.start, off |-> b.read_pos_, len |-> Size(b),
                 wrapped |-> w]
           c == [ec |-> TRUE, n |-> 0, wrapped |-> w]
<1>1. flights = << >> /\ done = << >>
  BY DEF TypeOK
<1>2. f.buf = b.start /\ f.off = b.read_pos_ /\ f.len = Size(b)
  OBVIOUS
<1>3. c.ec /\ c.n = 0
  OBVIOUS
<1>4. Size(b) \in 1..Size(b)
  BY DEF Size, Buffers
<1>5. \/ flights' = Append(<< >>, f) /\ done' = << >>
      \/ done' = Append(<< >>, c) /\ flights' = << >>
  BY <1>1 DEF AsyncSend
<1> HIDE DEF f, c
<1>6. CASE flights' = Append(<< >>, f) /\ done' = << >>
  BY <1>2, <1>4, <1>6
<1>7. CASE done' = Append(<< >>, c) /\ flights' = << >>
  BY <1>3, <1>7
<1> QED
  BY <1>5, <1>6, <1>7

LEMMA OneThreadFirstSend ==
  ASSUME NEW t, Threads = {t}, TypeOK, OneThreadInv(t), FirstSend(t)
  PROVE  OneThreadInv(t)'
<1> DEFINE b == send_buffers_[1]
<1> USE SendAssumption DEF Outstanding, Unread
<1>1. pc[t] = "send_start" /\ send_buffers_ # << >>
  BY DEF FirstSend, OneThreadInv, StallInv
<1>2. /\ AsyncSend(b, FALSE) /\ pc'[t] = "idle"
      /\ UNCHANGED <<send_buffers_, write_count_, arg, reg, produced, wire, failed,
                     ub>>
  BY <1>1 DEF FirstSend, Return, Goto, TypeOK, lockVars, ghosts
<1>3. /\ write_count_ = 1 /\ Len(flights) = 0 /\ Len(done) = 0
      /\ flights = << >> /\ done = << >>
  BY <1>1 DEF OneThreadInv, CountInv, TypeOK
<1>4. b \in Buffers /\ b.read_pos_ < b.write_pos_ /\ Unacked(t) = 0
  BY <1>1, <1>3 DEF TypeOK, OneThreadInv, BufferInv, Unacked
<1>5. /\ Len(flights') + Len(done') = 1
      /\ \A i \in 1..Len(flights') :
           /\ flights'[i].buf = b.start /\ flights'[i].off = b.read_pos_
           /\ flights'[i].len \in 1..Size(b)
      /\ \A i \in 1..Len(done') : done'[i].ec /\ done'[i].n = 0
      /\ done' # << >> => done'[1].n = 0
  BY <1>2, <1>3, <1>4, AsyncSendOne
<1>6. CountInv(t)'
  BY <1>1, <1>2, <1>3, <1>5 DEF CountInv
<1>7. FlightInv'
  BY <1>1, <1>2, <1>5 DEF FlightInv
<1>8. PositionInv(t)'
  BY <1>1, <1>2, <1>4, <1>5 DEF OneThreadInv, PositionInv, Unacked
<1>9. ResultInv(t)'
  BY <1>1, <1>2, <1>5 DEF OneThreadInv, ResultInv
<1>10. StallInv(t)'
  BY <1>1, <1>2, <1>5 DEF OneThreadInv, StallInv
<1>11. ~ub' /\ InOrder'
  BY <1>2 DEF OneThreadInv, InOrder
<1>12. Contiguous(send_buffers_, produced)' /\ BufferInv(send_buffers_, produced)'
  BY <1>2 DEF OneThreadInv, Contiguous, BufferInv
<1> QED
  BY <1>6, <1>7, <1>8, <1>9, <1>10, <1>11, <1>12 DEF OneThreadInv

LEMMA OneThreadAdvance ==
  ASSUME NEW t, Threads = {t}, TypeOK, OneThreadInv(t), Advance(t)
  PROVE  OneThreadInv(t)'
<1> DEFINE n == arg[t].n
           q == send_buffers_
           r == Consumed(q, n)
<1> USE SendAssumption DEF Outstanding, Unread
<1>1. pc[t] = "w_crit" /\ q # << >>
  BY DEF Advance, OneThreadInv, StallInv
<1>2. /\ write_count_ = 0 /\ Len(flights) = 0 /\ Len(done) = 0
      /\ flights = << >> /\ done = << >>
  BY <1>1 DEF OneThreadInv, CountInv, TypeOK
<1>3. /\ n \in Nat \ {0} /\ n <= Size(q[1])
      /\ q[1].start + q[1].read_pos_ + n = Len(wire)
  BY <1>1, <1>2 DEF OneThreadInv, ResultInv, PositionInv, Unacked, TypeOK
<1>4. ~(n > Size(q[1]))
  BY <1>1, <1>3, FrontType DEF Size
<1>5. /\ q' = r
      /\ UNCHANGED <<write_count_, arg, reg, produced, wire, failed, ub>>
      /\ \/ r # << >> /\ AsyncSend(r[1], TRUE) /\ pc'[t] = "w_inc_load"
         \/ r = << >> /\ pc'[t] = "idle" /\ UNCHANGED <<flights, done>>
  BY <1>1, <1>4 DEF Advance, MoreToSend, Return, Goto, TypeOK, ghosts
<1>6. /\ BufferInv(r, produced)
      /\ r # << >> => r[1].start + r[1].read_pos_ = Len(wire)
      /\ r = << >> => Len(wire) = produced
  BY <1>1, <1>3, ConsumedBuffers DEF OneThreadInv, TypeOK
<1>7. Contiguous(r, produced) /\ r \in Seq(Buffers)
  BY <1>1, <1>3, ConsumedContiguous, ConsumedType DEF OneThreadInv, TypeOK
<1>8. ~ub' /\ InOrder'
  BY <1>5 DEF OneThreadInv, InOrder
<1>9. Contiguous(send_buffers_, produced)' /\ BufferInv(send_buffers_, produced)'
  BY <1>5, <1>6, <1>7 DEF Contiguous, BufferInv
<1>10. CASE r = << >>
  <2>1. pc'[t] = "idle" /\ UNCHANGED <<flights, done>>
    BY <1>5, <1>10
  <2>2. CountInv(t)' /\ FlightInv' /\ ResultInv(t)' /\ StallInv(t)'
    BY <1>2, <1>5, <1>10, <2>1 DEF CountInv, FlightInv, ResultInv, StallInv
  <2>3. PositionInv(t)'
    BY <1>2, <1>5, <1>6, <1>10, <2>1 DEF PositionInv, Unacked
  <2> QED
    BY <1>8, <1>9, <2>2, <2>3 DEF OneThreadInv
<1>11. CASE r # << >>
  <2>1. AsyncSend(r[1], TRUE) /\ pc'[t] = "w_inc_load"
    BY <1>5, <1>11
  <2>2. r[1] \in Buffers /\ r[1].read_pos_ < r[1].write_pos_
    BY <1>6, <1>7, <1>11 DEF BufferInv
  <2>3. /\ Len(flights') + Len(done') = 1
        /\ \A i \in 1..Len(flights') :
             /\ flights'[i].buf = r[1].start /\ flights'[i].off = r[1].read_pos_
             /\ flights'[i].len \in 1..Size(r[1])
        /\ \A i \in 1..Len(done') : done'[i].ec /\ done'[i].n = 0
        /\ done' # << >> => done'[1].n = 0
    BY <1>2, <2>1, <2>2, AsyncSendOne
  <2>4. Unacked(t)' = 0
    BY <2>1, <2>3 DEF Unacked
  <2>5. CountInv(t)'
    BY <1>2, <1>5, <2>1, <2>3 DEF CountInv
  <2>6. FlightInv'
    BY <1>5, <1>11, <2>3 DEF FlightInv
  <2>7. ResultInv(t)' /\ StallInv(t)'
    BY <1>5, <1>11, <2>1, <2>3 DEF ResultInv, StallInv
  <2>8. PositionInv(t)'
    <3>1. r[1].start \in Nat /\ r[1].read_pos_ \in Nat /\ 0 <= Size(r[1])
      BY <2>2 DEF Buffers, Size
    <3> QED
      BY <1>5, <1>6, <1>11, <2>4, <3>1 DEF PositionInv
  <2> QED
    BY <1>8, <1>9, <2>5, <2>6, <2>7, <2>8 DEF OneThreadInv
<1> QED
  BY <1>10, <1>11

\* At most one send is outstanding, and none while on_write has yet to read.
LEMMA OneOutstanding ==
  ASSUME TypeOK, NEW t, OneThreadInv(t)
  PROVE  /\ \/ Len(flights) = 0 /\ Len(done) = 0
            \/ Len(flights) = 1 /\ Len(done) = 0 /\ pc[t] \notin Unread
            \/ Len(flights) = 0 /\ Len(done) = 1 /\ pc[t] \notin Unread
         /\ flights \in Seq(Flights) /\ done \in Seq(Completions)
         /\ Len(flights) = 0 <=> flights = << >>
         /\ Len(done) = 0 <=> done = << >>
<1>1. /\ flights \in Seq(Flights) /\ done \in Seq(Completions)
      /\ Len(flights) \in Nat /\ Len(done) \in Nat
      /\ Len(flights) = 0 <=> flights = << >>
      /\ Len(done) = 0 <=> done = << >>
  BY DEF TypeOK
<1>2. /\ Len(flights) + Len(done) \in {0, 1}
      /\ pc[t] \in Unread => Len(flights) + Len(done) = 0
  BY DEF OneThreadInv, CountInv, Outstanding, Unread
<1>3. \/ Len(flights) = 0 /\ Len(done) = 0
      \/ Len(flights) = 1 /\ Len(done) = 0
      \/ Len(flights) = 0 /\ Len(done) = 1
  <2> DEFINE f == Len(flights)
             d == Len(done)
  <2>1. f \in Nat /\ d \in Nat /\ f + d \in {0, 1}
    BY <1>1, <1>2
  <2> HIDE DEF f, d
  <2>2. (f = 0 /\ d = 0) \/ (f = 1 /\ d = 0) \/ (f = 0 /\ d = 1)
    BY <2>1
  <2> QED
    BY <2>2 DEF f, d
<1>4. /\ Len(flights) = 1 /\ Len(done) = 0 => pc[t] \notin Unread
      /\ Len(flights) = 0 /\ Len(done) = 1 => pc[t] \notin Unread
  BY <1>2
<1>5. \/ Len(flights) = 0 /\ Len(done) = 0
      \/ Len(flights) = 1 /\ Len(done) = 0 /\ pc[t] \notin Unread
      \/ Len(flights) = 0 /\ Len(done) = 1 /\ pc[t] \notin Unread
  BY <1>3, <1>4, Zenon
<1> QED
  BY <1>1, <1>5

LEMMA OneThreadDispatch ==
  ASSUME NEW t, Threads = {t}, TypeOK, OneThreadInv(t),
         NEW i \in 1..Len(done), Dispatch(t, i)
  PROVE  OneThreadInv(t)'
<1> USE SendAssumption DEF Outstanding, Unread
<1>1. Len(done) = 1 /\ Len(flights) = 0 /\ i = 1 /\ flights = << >> /\ done # << >>
  <2>1. Len(done) # 0
    OBVIOUS
  <2>2. Len(done) = 1 /\ Len(flights) = 0 /\ flights = << >> /\ done # << >>
    BY <2>1, OneOutstanding
  <2> QED
    BY <2>2
<1>2. done' = << >>
  BY <1>1, WithoutOnly DEF Dispatch, TypeOK
<1>3. /\ pc[t] = "idle" /\ pc'[t] = "w_load"
      /\ arg'[t].ec = done[1].ec /\ arg'[t].n = done[1].n
      /\ UNCHANGED <<send_buffers_, write_count_, flights, reg, produced, wire,
                     failed, ub>>
  BY <1>1 DEF Dispatch, Goto, TypeOK, lockVars, ghosts
<1>4. CountInv(t)'
  BY <1>1, <1>2, <1>3 DEF OneThreadInv, CountInv
<1>5. PositionInv(t)'
  <2>1. Unacked(t)' = Unacked(t)
    BY <1>1, <1>2, <1>3 DEF Unacked
  <2> QED
    BY <1>3, <2>1 DEF OneThreadInv, PositionInv
<1>6. ResultInv(t)'
  BY <1>1, <1>2, <1>3 DEF OneThreadInv, ResultInv
<1>7. StallInv(t)'
  BY <1>1, <1>2, <1>3 DEF OneThreadInv, StallInv
<1>8. FlightInv' /\ InOrder' /\ ~ub'
  BY <1>1, <1>3 DEF OneThreadInv, FlightInv, InOrder
<1>9. Contiguous(send_buffers_, produced)' /\ BufferInv(send_buffers_, produced)'
  BY <1>3 DEF OneThreadInv, Contiguous, BufferInv
<1> QED
  BY <1>4, <1>5, <1>6, <1>7, <1>8, <1>9 DEF OneThreadInv

\* What the kernel takes continues the stream.
LEMMA KernelContinues ==
  ASSUME NEW t, Threads = {t}, TypeOK, OneThreadInv(t),
         NEW i \in 1..Len(flights), KernelSend(i)
  PROVE  \E k \in 1..Size(send_buffers_[1]) :
           /\ wire' = wire \o [j \in 1..k |-> Len(wire) + j]
           /\ Len(wire) + k <= produced
           /\ flights' = << >> /\ Len(done') = 1
           /\ ~done'[1].ec /\ done'[1].n = k
           /\ send_buffers_ # << >> /\ Unacked(t) = 0
           /\ UNCHANGED <<send_buffers_, write_count_, pc, arg, reg, produced,
                          failed, ub>>
<1> DEFINE f == flights[i]
           q == send_buffers_
<1> USE SendAssumption DEF Outstanding, Unread
<1>1. /\ Len(flights) = 1 /\ Len(done) = 0 /\ i = 1 /\ done = << >>
      /\ pc[t] \notin Unread
  <2>1. Len(flights) # 0
    OBVIOUS
  <2>2. Len(flights) = 1 /\ Len(done) = 0 /\ done = << >> /\ pc[t] \notin Unread
    BY <2>1, OneOutstanding
  <2> QED
    BY <2>2
<1>2. /\ q # << >> /\ f.buf = q[1].start /\ f.off = q[1].read_pos_
      /\ f.len \in 1..Size(q[1])
  BY <1>1 DEF OneThreadInv, FlightInv
<1>3. Mapped(f)
  BY <1>2, FrontType DEF Mapped
<1>4. PICK k \in 1..f.len :
        /\ wire' = wire \o [j \in 1..k |-> f.buf + f.off + j]
        /\ done' = Append(done, [ec |-> FALSE, n |-> k, wrapped |-> f.wrapped])
        /\ flights' = Without(flights, i)
        /\ UNCHANGED <<lockVars, write_count_, socket_open, conns, strand, pc, arg,
                       reg, produced, failed, calls, ub>>
  BY <1>3 DEF KernelSend
<1>5. Unacked(t) = 0
  BY <1>1 DEF Unacked
<1>6. q[1].start + q[1].read_pos_ = Len(wire)
  BY <1>2, <1>5, FrontType, SMTT(60) DEF OneThreadInv, PositionInv
<1>7. k \in 1..Size(q[1]) /\ k \in Nat
  BY <1>2, FrontType DEF Size
<1>8. Len(wire) + k <= produced
  <2>1. q[1].start + q[1].write_pos_ <= produced /\ produced \in Nat
    BY <1>2, FrontType DEF OneThreadInv, BufferInv, TypeOK
  <2>2. /\ q[1].start \in Nat /\ q[1].read_pos_ \in Nat
        /\ q[1].write_pos_ \in Nat
    BY <1>2, FrontType
  <2> DEFINE a == q[1].start
             rd == q[1].read_pos_
             wr == q[1].write_pos_
             l == Len(wire)
  <2>3. /\ a \in Nat /\ rd \in Nat /\ wr \in Nat /\ produced \in Nat /\ k \in Nat
        /\ a + wr <= produced /\ a + rd = l /\ k \in 1..(wr - rd)
    BY <1>6, <1>7, <2>1, <2>2 DEF Size
  <2> HIDE DEF a, rd, wr, l
  <2>4. l + k <= produced
    BY <2>3
  <2> QED
    BY <2>4 DEF l
<1>9. wire' = wire \o [j \in 1..k |-> Len(wire) + j]
  BY <1>2, <1>4, <1>6
<1>10. flights' = << >>
  BY <1>1, <1>4, WithoutOnly DEF TypeOK
<1>11. Len(done') = 1 /\ ~done'[1].ec /\ done'[1].n = k
  <2> DEFINE c == [ec |-> FALSE, n |-> k, wrapped |-> f.wrapped]
  <2>1. ~c.ec /\ c.n = k
    OBVIOUS
  <2>2. done' = Append(<< >>, c)
    BY <1>1, <1>4
  <2> HIDE DEF c
  <2> QED
    BY <2>1, <2>2
<1> QED
  BY <1>2, <1>4, <1>5, <1>7, <1>8, <1>9, <1>10, <1>11 DEF lockVars

LEMMA OneThreadKernelSend ==
  ASSUME NEW t, Threads = {t}, TypeOK, OneThreadInv(t),
         NEW i \in 1..Len(flights), KernelSend(i)
  PROVE  OneThreadInv(t)'
<1> USE SendAssumption DEF Outstanding, Unread
<1>1. /\ Len(flights) = 1 /\ Len(done) = 0 /\ pc[t] \notin Unread
  BY OneOutstanding
<1>2. PICK k \in 1..Size(send_buffers_[1]) :
        /\ wire' = wire \o [j \in 1..k |-> Len(wire) + j]
        /\ Len(wire) + k <= produced
        /\ flights' = << >> /\ Len(done') = 1
        /\ ~done'[1].ec /\ done'[1].n = k
        /\ send_buffers_ # << >> /\ Unacked(t) = 0
        /\ UNCHANGED <<send_buffers_, write_count_, pc, arg, reg, produced,
                       failed, ub>>
  BY KernelContinues
<1>3. k \in Nat \ {0} /\ k <= Size(send_buffers_[1])
  BY <1>2, FrontType DEF Size
<1>4. wire \in Seq(Nat) /\ Len([j \in 1..k |-> Len(wire) + j]) = k
  BY <1>3 DEF TypeOK
<1>5. InOrder'
  <2>1. Len(wire') = Len(wire) + k
    BY <1>2, <1>3, <1>4
  <2>2. ASSUME NEW m \in 1..Len(wire') PROVE wire'[m] = m
    <3>1. CASE m <= Len(wire)
      BY <1>2, <1>3, <1>4, <2>1, <3>1 DEF OneThreadInv, InOrder
    <3>2. CASE m > Len(wire)
      BY <1>2, <1>3, <1>4, <2>1, <3>2
    <3> QED
      BY <1>4, <2>1, <1>3, <3>1, <3>2
  <2> QED
    BY <1>2, <2>1, <2>2 DEF InOrder
<1>6. CountInv(t)'
  BY <1>1, <1>2 DEF OneThreadInv, CountInv
<1>7. PositionInv(t)'
  <2>1. Len(wire') = Len(wire) + k
    BY <1>2, <1>3, <1>4
  <2>2. Unacked(t)' = k
    BY <1>2 DEF Unacked
  <2>3. send_buffers_[1].start + send_buffers_[1].read_pos_ = Len(wire)
    BY <1>2, FrontType DEF OneThreadInv, PositionInv
  <2> QED
    BY <1>2, <1>3, <2>1, <2>2, <2>3 DEF PositionInv
<1>8. ResultInv(t)'
  BY <1>1, <1>2, <1>3 DEF OneThreadInv, ResultInv
<1>9. StallInv(t)'
  BY <1>1, <1>2 DEF OneThreadInv, StallInv
<1>10. FlightInv' /\ ~ub'
  BY <1>2 DEF OneThreadInv, FlightInv
<1>11. Contiguous(send_buffers_, produced)' /\ BufferInv(send_buffers_, produced)'
  BY <1>2 DEF OneThreadInv, Contiguous, BufferInv
<1> QED
  BY <1>5, <1>6, <1>7, <1>8, <1>9, <1>10, <1>11 DEF OneThreadInv

\* A failure of the send in flight, or of all of them when the socket closes.
LEMMA OneThreadAbort ==
  ASSUME NEW t, Threads = {t}, TypeOK, OneThreadInv(t),
         \/ Close
         \/ \E i \in 1..Len(flights) : KernelFail(i)
  PROVE  OneThreadInv(t)'
<1> USE SendAssumption DEF Outstanding, Unread
<1>1. UNCHANGED <<send_buffers_, write_count_, pc, arg, reg, produced, wire,
                  failed, ub>>
  BY DEF Close, KernelFail, lockVars, ghosts
<1>2. /\ Len(flights) = 0 \/ (Len(flights) = 1 /\ Len(done) = 0)
      /\ flights \in Seq(Flights) /\ done \in Seq(Completions)
      /\ done # << >> <=> Len(done) # 0
  BY OneOutstanding
<1>3. CASE Len(flights) = 0
  <2>1. Close /\ flights' = << >> /\ flights = << >>
    BY <1>2, <1>3 DEF Close
  <2>2. done' = done
    <3>1. done' = done \o [i \in 1..0 |-> Aborted(flights[i])]
      BY <1>3, <2>1 DEF Close
    <3> QED
      BY <1>2, <3>1
  <2>3. /\ CountInv(t)' /\ ResultInv(t)' /\ StallInv(t)' /\ Unacked(t)' = Unacked(t)
    BY <1>1, <2>1, <2>2 DEF OneThreadInv, CountInv, ResultInv, StallInv, Unacked
  <2> QED
    BY <1>1, <2>1, <2>2, <2>3, LocalStep
<1>4. CASE Len(flights) = 1 /\ Len(done) = 0
  <2>1. done = << >> /\ pc[t] \notin Unread
    BY <1>2, <1>4 DEF OneThreadInv, CountInv
  <2>2. flights' = << >> /\ done' = << Aborted(flights[1]) >>
    <3>1. CASE Close
      <4> DEFINE a == Aborted(flights[1])
                 c == [i \in 1..1 |-> Aborted(flights[i])]
      <4>1. done' = << >> \o c /\ c \in Seq({a}) /\ Len(c) = 1 /\ c[1] = a
        BY <1>4, <2>1, <3>1 DEF Close
      <4>2. c = << a >>
        BY <4>1
      <4> HIDE DEF a, c
      <4>3. done' = << a >>
        BY <4>1, <4>2
      <4> QED
        BY <3>1, <4>3 DEF Close, a
    <3>2. ASSUME NEW i \in 1..Len(flights), KernelFail(i)
          PROVE  flights' = << >> /\ done' = << Aborted(flights[1]) >>
      <4>1. flights' = << >> /\ i = 1
        BY <1>2, <1>4, <3>2, WithoutOnly DEF KernelFail
      <4> QED
        BY <2>1, <3>2, <4>1 DEF KernelFail
    <3> QED
      BY <3>1, <3>2
  <2>3. Len(done') = 1 /\ done'[1].ec /\ done'[1].n = 0
    BY <2>2 DEF Aborted
  <2>4. Unacked(t)' = 0 /\ Unacked(t) = 0
    BY <2>1, <2>3 DEF Unacked
  <2>5. CountInv(t)'
    BY <1>1, <1>4, <2>2, <2>3 DEF OneThreadInv, CountInv
  <2>6. FlightInv' /\ PositionInv(t)' /\ InOrder' /\ ~ub'
    BY <1>1, <2>2, <2>4 DEF OneThreadInv, FlightInv, PositionInv, InOrder
  <2>7. ResultInv(t)'
    BY <1>1, <2>1, <2>3 DEF OneThreadInv, ResultInv
  <2>8. StallInv(t)'
    BY <1>1, <1>4, <2>1, <2>2, <2>3 DEF OneThreadInv, StallInv, FlightInv
  <2>9. Contiguous(send_buffers_, produced)' /\ BufferInv(send_buffers_, produced)'
    BY <1>1 DEF OneThreadInv, Contiguous, BufferInv
  <2> QED
    BY <2>5, <2>6, <2>7, <2>8, <2>9 DEF OneThreadInv
<1> QED
  BY <1>2, <1>3, <1>4

LEMMA OneThreadNext ==
  ASSUME NEW t, Threads = {t}, FitsOneBuffer, TypeOK, OneThreadInv(t), [Next]_vars
  PROVE  OneThreadInv(t)'
<1>1. CASE ThreadStep(t)
  <2>1. CASE Store(t)
    BY <2>1, OneThreadStore
  <2>2. CASE FirstSend(t)
    BY <2>2, OneThreadFirstSend
  <2>3. CASE Advance(t)
    BY <2>3, OneThreadAdvance
  <2> QED
    BY <1>1, <2>1, <2>2, <2>3, OneThreadLocal DEF ThreadStep
<1>2. ASSUME NEW i \in 1..Len(done), Dispatch(t, i) PROVE OneThreadInv(t)'
  BY <1>2, OneThreadDispatch
<1>3. ASSUME NEW n \in MsgSizes, NEW ctx \in Contexts, ToSend(t, n, ctx)
      PROVE  OneThreadInv(t)'
  BY <1>3, OneThreadLocal
<1>4. ASSUME NEW i \in 1..Len(flights), KernelSend(i) PROVE OneThreadInv(t)'
  BY <1>4, OneThreadKernelSend
<1>5. CASE Close \/ \E i \in 1..Len(flights) : KernelFail(i)
  BY <1>5, OneThreadAbort
<1>6. CASE Reconnect \/ UNCHANGED vars
  <2>1. UNCHANGED <<send_buffers_, write_count_, flights, done, pc, arg, reg,
                    produced, wire, failed, ub>>
    BY <1>6 DEF Reconnect, vars, lockVars, ghosts
  <2>2. /\ CountInv(t)' /\ ResultInv(t)' /\ StallInv(t)' /\ Unacked(t)' = Unacked(t)
    BY <2>1 DEF OneThreadInv, CountInv, ResultInv, StallInv, Unacked, Outstanding
  <2> QED
    BY <2>1, <2>2, LocalStep
<1> QED
  BY <1>1, <1>2, <1>3, <1>4, <1>5, <1>6 DEF Next, Kernel, Dispatches

----------------------------------------------------------------------------
(* The theorems about one thread                                            *)

LEMMA OneThreadImplies ==
  ASSUME NEW t, Threads = {t}, TypeOK, OneThreadInv(t)
  PROVE  OneSendInFlight /\ CounterMatches /\ InOrder /\ NoSilentStall /\ MemorySafe
<1>1. OneSendInFlight
  <2>1. \/ Len(flights) = 0 /\ Len(done) = 0
        \/ Len(flights) = 1 /\ Len(done) = 0
        \/ Len(flights) = 0 /\ Len(done) = 1
    BY OneOutstanding, Zenon
  <2>2. Len(flights) + Len(done) <= 1
    <3>1. CASE Len(flights) = 0 /\ Len(done) = 0
      BY <3>1
    <3>2. CASE Len(flights) = 1 /\ Len(done) = 0
      BY <3>2
    <3>3. CASE Len(flights) = 0 /\ Len(done) = 1
      BY <3>3
    <3> QED
      BY <2>1, <3>1, <3>2, <3>3, Zenon
  <2> QED
    BY <2>2 DEF OneSendInFlight
<1>2. CounterMatches
  BY DEF CounterMatches, OneThreadInv, CountInv, Outstanding
<1>3. InOrder
  BY DEF OneThreadInv
<1>4. NoSilentStall
  <2> SUFFICES ASSUME pc[t] = "idle", flights = << >>, done = << >>,
                      send_buffers_ # << >>
               PROVE  failed
    BY DEF NoSilentStall
  <2>1. Len(flights) = 0 /\ Len(done) = 0
    OBVIOUS
  <2> QED
    BY <2>1 DEF OneThreadInv, StallInv, Outstanding
<1>5. MemorySafe
  <2>1. ~ub
    BY Zenon DEF OneThreadInv
  <2> QED
    BY <2>1 DEF MemorySafe, OneThreadInv, BufferInv
<1> QED
  BY <1>1, <1>2, <1>3, <1>4, <1>5

\* With one thread and messages that fit a buffer, at most one async_send is
\* outstanding, write_count_ counts it, the kernel is handed the accepted bytes
\* in order and once, bytes wait with no send outstanding only after an error,
\* and no cursor or buffer is used outside its bounds: across partial sends,
\* errors, closes and new connections, for any number of calls.
THEOREM OneThreadCorrect ==
  ASSUME NEW t, Threads = {t}, FitsOneBuffer
  PROVE  Spec => [](OneSendInFlight /\ CounterMatches /\ InOrder
                    /\ NoSilentStall /\ MemorySafe)
<1>1. Init => TypeOK /\ OneThreadInv(t)
  BY InitType, OneThreadInit
<1>2. TypeOK /\ OneThreadInv(t) /\ [Next]_vars => TypeOK' /\ OneThreadInv(t)'
  BY NextType, OneThreadNext
<1>3. TypeOK /\ OneThreadInv(t) =>
        OneSendInFlight /\ CounterMatches /\ InOrder /\ NoSilentStall /\ MemorySafe
  BY OneThreadImplies
<1> QED
  BY <1>1, <1>2, <1>3, PTL DEF Spec

\* With one thread and messages that fit a buffer, front() is never taken of an
\* empty list, no cursor passes the other, no buffer_ is written past its end and
\* no buffer is freed while the kernel reads it.
THEOREM OneThreadMemorySafe ==
  ASSUME NEW t, Threads = {t}, FitsOneBuffer
  PROVE  Spec => []MemorySafe
<1>1. Spec => [](OneSendInFlight /\ CounterMatches /\ InOrder
               /\ NoSilentStall /\ MemorySafe)
  BY OneThreadCorrect
<1> QED
  BY <1>1, PTL

LEMMA StreamStep ==
  ASSUME NEW t, Threads = {t}, FitsOneBuffer, TypeOK, OneThreadInv(t), [Next]_vars
  PROVE  [Stream!Next]_(Stream!vars)
<1> USE SendAssumption DEF lockVars, netVars, ghosts, Stream!vars
<1>1. ASSUME NEW i \in 1..Len(flights), KernelSend(i) PROVE Stream!Next
  <2>1. PICK k \in 1..Size(send_buffers_[1]) :
          /\ wire' = wire \o [j \in 1..k |-> Len(wire) + j]
          /\ Len(wire) + k <= produced
          /\ send_buffers_ # << >> /\ produced' = produced
    BY <1>1, KernelContinues
  <2>2. k \in 1..(produced - Len(wire))
    BY <2>1, FrontType DEF Size, TypeOK
  <2> QED
    BY <2>1, <2>2 DEF Stream!Next, Stream!Transmit
<1>2. CASE Store(t)
  <2>1. arg[t].n \in 1..Cap
    BY <1>2 DEF Store, OneThreadInv, ResultInv, FitsOneBuffer
  <2>2. produced' = produced + arg[t].n /\ wire' = wire
    BY <1>2, <2>1 DEF Store
  <2>3. produced' \in Nat /\ produced' > produced
    BY <2>1, <2>2 DEF TypeOK
  <2> QED
    BY <2>2, <2>3 DEF Stream!Next, Stream!Accept
<1>3. CASE ThreadStep(t) /\ ~Store(t) /\ ~Advance(t)
  BY <1>3 DEF ThreadStep, SpinLock, CheckCount, Load, StoreCount, FirstSend,
     CheckError, Unlock, Undefined
<1>4. CASE Advance(t)
  <2>1. UNCHANGED <<produced, wire>>
    BY <1>4 DEF Advance, Undefined
  <2> QED
    BY <2>1
<1>5. ASSUME NEW i \in 1..Len(done), Dispatch(t, i) PROVE UNCHANGED Stream!vars
  BY <1>5 DEF Dispatch
<1>6. ASSUME NEW n \in MsgSizes, NEW ctx \in Contexts, ToSend(t, n, ctx)
      PROVE  UNCHANGED Stream!vars
  BY <1>6 DEF ToSend
<1>7. ASSUME NEW i \in 1..Len(flights), KernelFail(i)
      PROVE  UNCHANGED Stream!vars
  BY <1>7 DEF KernelFail
<1>8. CASE Close \/ Reconnect \/ UNCHANGED vars
  BY <1>8 DEF Close, Reconnect, vars
<1> QED
  BY <1>1, <1>2, <1>3, <1>4, <1>5, <1>6, <1>7, <1>8 DEF Next, Kernel, Dispatches

\* With one thread and messages that fit a buffer, the send side implements a
\* reliable byte stream: its steps are steps of ByteStream or stutter.
THEOREM OneThreadImplements ==
  ASSUME NEW t, Threads = {t}, FitsOneBuffer
  PROVE  Spec => StreamSpec
<1>1. Init => TypeOK /\ OneThreadInv(t)
  BY InitType, OneThreadInit
<1>2. TypeOK /\ OneThreadInv(t) /\ [Next]_vars => TypeOK' /\ OneThreadInv(t)'
  BY NextType, OneThreadNext
<1>3. Init => Stream!Init
  BY DEF Init, Stream!Init
<1>4. TypeOK /\ OneThreadInv(t) /\ [Next]_vars => [Stream!Next]_(Stream!vars)
  BY StreamStep
<1> QED
  BY <1>1, <1>2, <1>3, <1>4, PTL DEF Spec, StreamSpec, Stream!Spec
=============================================================================
