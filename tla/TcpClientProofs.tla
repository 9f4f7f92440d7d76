--------------------------- MODULE TcpClientProofs ---------------------------
(* Theorems about TcpClient.                                                *)
EXTENDS TcpClient, SequenceTheorems, TLAPS

----------------------------------------------------------------------------
(* Types, for any number of threads                                         *)

LEMMA CloseSocketType ==
  ASSUME TypeOK, CloseSocket
  PROVE  sock' = "closed" /\ reading' = 0 /\ ready' \in Seq({"data", "error"})
<1>1. [i \in 1..reading |-> "error"] \in Seq({"data", "error"})
  BY DEF TypeOK
<1> QED
  BY <1>1 DEF TypeOK, CloseSocket

LEMMA ToReadType ==
  ASSUME TypeOK, ToRead
  PROVE  sock' = sock /\ reading' \in Nat /\ ready' \in Seq({"data", "error"})
<1>1. Append(ready, "error") \in Seq({"data", "error"})
  BY DEF TypeOK
<1>2. CASE sock \in {"connected", "broken"}
  BY <1>2 DEF TypeOK, ToRead
<1>3. CASE sock \notin {"connected", "broken"}
  BY <1>1, <1>3 DEF TypeOK, ToRead
<1> QED
  BY <1>2, <1>3

LEMMA InitType == Init => TypeOK
BY ClientAssumption DEF Init, TypeOK, Labels

LEMMA StepType == ASSUME TypeOK, [Next]_vars PROVE TypeOK'
<1> USE ClientAssumption DEF connVars, timeVars, Labels, Goto, Return
<1>1. ASSUME NEW t \in Threads, RunRead(t) PROVE TypeOK'
  BY <1>1 DEF TypeOK, RunRead
<1>2. ASSUME NEW t \in Threads, Observe(t) PROVE TypeOK'
  <2>1. CASE CloseSocket /\ drops < MaxDrops /\ drops' = drops + 1
    BY <1>2, <2>1, CloseSocketType DEF TypeOK, Observe
  <2>2. CASE UNCHANGED <<connVars, drops>>
    BY <1>2, <2>2 DEF TypeOK, Observe
  <2> QED
    BY <1>2, <2>1, <2>2 DEF Observe
<1>3. ASSUME NEW t \in Threads, ReadAgain(t) PROVE TypeOK'
  BY <1>3, ToReadType DEF TypeOK, ReadAgain
<1>4. ASSUME NEW t \in Threads, CheckStatus(t) PROVE TypeOK'
  BY <1>4 DEF TypeOK, CheckStatus
<1>5. ASSUME NEW t \in Threads, SetDisconnect(t) PROVE TypeOK'
  BY <1>5 DEF TypeOK, SetDisconnect
<1>6. ASSUME NEW t \in Threads, CloseOnError(t) PROVE TypeOK'
  BY <1>6, CloseSocketType DEF TypeOK, CloseOnError, AfterClose
<1>7. ASSUME NEW t \in Threads, OnClose(t) PROVE TypeOK'
  BY <1>7, CloseSocketType DEF TypeOK, OnClose
<1>8. ASSUME NEW t \in Threads, CheckConnected(t) PROVE TypeOK'
  BY <1>8 DEF TypeOK, CheckConnected
<1>9. ASSUME NEW t \in Threads, Connect(t) PROVE TypeOK'
  <2>1. ok' \in [Threads -> BOOLEAN]
    BY <1>9 DEF TypeOK, Connect
  <2>2. sock' \in {"closed", "open", "connected", "broken"} /\ refusals' \in 0..MaxRefusals
    BY <1>9 DEF TypeOK, Connect
  <2> QED
    BY <1>9, <2>1, <2>2 DEF TypeOK, Connect
<1>10. ASSUME NEW t \in Threads, StoreStatus(t) PROVE TypeOK'
  BY <1>10 DEF TypeOK, StoreStatus, StatusOf, AfterConnect
<1>11. ASSUME NEW t \in Threads, FirstRead(t) PROVE TypeOK'
  BY <1>11, ToReadType DEF TypeOK, FirstRead
<1>12. ASSUME NEW t \in Threads, NEW from, NEW to \in Labels, Expire(t, from, to)
       PROVE TypeOK'
  BY <1>12 DEF TypeOK, Expire
<1>13. ASSUME NEW t \in Threads, AsyncWait(t) \/ RunTimer(t) PROVE TypeOK'
  BY <1>13, SMTT(60) DEF TypeOK, AsyncWait, RunTimer
<1>14. ASSUME PeerCloses \/ Fire PROVE TypeOK'
  BY <1>14, SMTT(60) DEF TypeOK, PeerCloses, Fire
<1>16. ASSUME KernelRead PROVE TypeOK'
  <2>1. /\ Append(ready, "data") \in Seq({"data", "error"})
        /\ Append(ready, "error") \in Seq({"data", "error"})
    BY DEF TypeOK
  <2>2. ready' \in Seq({"data", "error"}) /\ reading' \in Nat
    BY <1>16, <2>1 DEF TypeOK, KernelRead
  <2> QED
    BY <1>16, <2>2 DEF TypeOK, KernelRead
<1>15. CASE UNCHANGED vars
  BY <1>15 DEF TypeOK, vars
<1> QED
  BY <1>1, <1>2, <1>3, <1>4, <1>5, <1>6, <1>7, <1>8, <1>9, <1>10, <1>11, <1>12,
     <1>13, <1>14, <1>15, <1>16 DEF Next, ThreadStep, ReadStep, TimerStep

\* For any number of threads the variables of the client have their types.
THEOREM TypeCorrect == Spec => []TypeOK
BY InitType, StepType, PTL DEF Spec

----------------------------------------------------------------------------
(* One thread                                                               *)

LEMMA OneThreadInit ==
  ASSUME NEW t, Threads = {t}, Init
  PROVE  OneThreadInv(t)
BY DEF Init, OneThreadInv

\* Without reads there is nothing to close but the socket.
LEMMA CloseIdle ==
  ASSUME TypeOK, CloseSocket, reading + Len(ready) = 0
  PROVE  sock' = "closed" /\ reading' = 0 /\ ready = << >> /\ ready' = << >>
BY DEF TypeOK, CloseSocket

LEMMA ToReadOne ==
  ASSUME TypeOK, ToRead, reading + Len(ready) = 0
  PROVE  /\ sock' = sock /\ reading' + Len(ready') = 1
         /\ ready' = << "error" >> => sock \in {"closed", "open"}
<1>1. ready = << >> /\ reading = 0
  BY DEF TypeOK
<1>2. Len(Append(ready, "error")) = 1
  BY <1>1
<1>3. CASE sock \in {"connected", "broken"}
  BY <1>1, <1>3 DEF TypeOK, ToRead
<1>4. CASE sock \notin {"connected", "broken"}
  BY <1>1, <1>2, <1>4 DEF TypeOK, ToRead
<1> QED
  BY <1>3, <1>4

\* The last completion is taken out of the queue.
LEMMA TakeOne ==
  ASSUME TypeOK, ready # << >>, reading + Len(ready) = 1
  PROVE  /\ reading = 0 /\ Len(Tail(ready)) = 0 /\ Tail(ready) = << >>
         /\ Head(ready) \in {"data", "error"}
         /\ Head(ready) = "error" => ready = << "error" >>
<1>1. ready \in Seq({"data", "error"}) /\ Len(ready) \in Nat /\ reading \in Nat
  BY DEF TypeOK
<1>2. Len(ready) # 0
  BY <1>1, EmptySeq
<1>3. Len(ready) = 1 /\ reading = 0
  <2> DEFINE n == Len(ready)
  <2>1. n \in Nat /\ n # 0 /\ reading + n = 1 /\ reading \in Nat
    BY <1>1, <1>2
  <2> HIDE DEF n
  <2>2. n = 1 /\ reading = 0
    BY <2>1
  <2> QED
    BY <2>2 DEF n
<1>4. ready = << ready[1] >> /\ ready[1] \in {"data", "error"}
  BY <1>1, <1>3
<1>5. Head(ready) = ready[1] /\ Tail(ready) = << >>
  <2>1. Head(ready) = ready[1]
    BY DEF Head
  <2>2. Tail(ready) \in Seq({"data", "error"}) /\ Len(Tail(ready)) = 0
    BY <1>1, <1>2, <1>3, HeadTailProperties
  <2> QED
    BY <2>1, <2>2, EmptySeq
<1> QED
  BY <1>3, <1>4, <1>5

LEMMA OneThreadStep ==
  ASSUME NEW t, Threads = {t}, TypeOK, OneThreadInv(t), [Next]_vars
  PROVE  OneThreadInv(t)'
<1> USE ClientAssumption DEF connVars, timeVars, Goto, Return
<1>0. TypeOK'
  BY StepType
<1>1. ASSUME RunRead(t) PROVE OneThreadInv(t)'
  BY <1>1, TakeOne DEF TypeOK, RunRead, OneThreadInv
<1>2. ASSUME Observe(t) PROVE OneThreadInv(t)'
  BY <1>2, CloseIdle DEF TypeOK, Observe, OneThreadInv
<1>3. ASSUME ReadAgain(t) PROVE OneThreadInv(t)'
  BY <1>3, ToReadOne DEF TypeOK, ReadAgain, OneThreadInv
<1>4. ASSUME CheckStatus(t) PROVE OneThreadInv(t)'
  BY <1>4 DEF TypeOK, CheckStatus, OneThreadInv
<1>5. ASSUME SetDisconnect(t) PROVE OneThreadInv(t)'
  BY <1>5 DEF TypeOK, SetDisconnect, OneThreadInv
<1>6. ASSUME CloseOnError(t) PROVE OneThreadInv(t)'
  BY <1>6, CloseIdle DEF TypeOK, CloseOnError, AfterClose, OneThreadInv
<1>7. ASSUME OnClose(t) PROVE OneThreadInv(t)'
  BY <1>7, CloseIdle DEF TypeOK, OnClose, OneThreadInv
<1>8. ASSUME CheckConnected(t) PROVE OneThreadInv(t)'
  BY <1>8 DEF TypeOK, CheckConnected, AlreadyConnected, OneThreadInv
<1>9. ASSUME Connect(t) PROVE OneThreadInv(t)'
  <2>1. pc[t] = "t_connect" /\ pc' = [pc EXCEPT ![t] = "t_status"]
        /\ strand = NoThread /\ connect_status_ = "disconnect"
        /\ reading + Len(ready) = 0 /\ sock \in {"closed", "open"}
    BY <1>9 DEF Connect, OneThreadInv
  <2>2. pc'[t] = "t_status"
    BY <2>1 DEF TypeOK
  <2>3. /\ strand' = NoThread /\ connect_status_' = "disconnect"
        /\ reading' + Len(ready') = 0 /\ ready' = ready /\ ready = << >>
    BY <1>9, <2>1 DEF Connect, TypeOK
  <2>4. CASE sock' = "connected" /\ ok' = [ok EXCEPT ![t] = TRUE]
    <3>1. ok'[t]
      BY <2>4, <1>0 DEF TypeOK
    <3> QED
      BY <2>2, <2>3, <2>4, <3>1 DEF OneThreadInv
  <2>5. CASE sock' = "open" /\ ok' = [ok EXCEPT ![t] = FALSE]
    <3>1. ~ok'[t]
      BY <2>5, <1>0 DEF TypeOK
    <3> QED
      BY <2>2, <2>3, <2>5, <3>1 DEF OneThreadInv
  <2> QED
    BY <1>9, <2>1, <2>4, <2>5 DEF Connect
<1>10. ASSUME StoreStatus(t) PROVE OneThreadInv(t)'
  BY <1>10 DEF TypeOK, StoreStatus, StatusOf, AfterConnect, OneThreadInv
<1>11. ASSUME FirstRead(t) PROVE OneThreadInv(t)'
  BY <1>11, ToReadOne DEF TypeOK, FirstRead, OneThreadInv
<1>12. ASSUME Expire(t, "t_expire", "c_expire") \/ Expire(t, "c_expire", "c_wait")
       PROVE OneThreadInv(t)'
  BY <1>12 DEF TypeOK, Expire, OneThreadInv
<1>13. ASSUME AsyncWait(t) PROVE OneThreadInv(t)'
  BY <1>13 DEF TypeOK, AsyncWait, OneThreadInv
<1>14. ASSUME RunTimer(t) PROVE OneThreadInv(t)'
  BY <1>14 DEF TypeOK, RunTimer, OneThreadInv
<1>15. ASSUME PeerCloses PROVE OneThreadInv(t)'
  BY <1>15 DEF TypeOK, PeerCloses, OneThreadInv
<1>16. ASSUME KernelRead PROVE OneThreadInv(t)'
  BY <1>16 DEF TypeOK, KernelRead, OneThreadInv
<1>17. ASSUME Fire PROVE OneThreadInv(t)'
  BY <1>17 DEF TypeOK, Fire, OneThreadInv
<1>18. CASE UNCHANGED vars
  BY <1>18 DEF TypeOK, vars, OneThreadInv
<1> QED
  BY <1>1, <1>2, <1>3, <1>4, <1>5, <1>6, <1>7, <1>8, <1>9, <1>10, <1>11, <1>12,
     <1>13, <1>14, <1>15, <1>16, <1>17, <1>18 DEF Next, ThreadStep, ReadStep, TimerStep

LEMMA OneThreadInvariance ==
  ASSUME NEW t, Threads = {t}
  PROVE  Spec => [](TypeOK /\ OneThreadInv(t))
<1>1. Init => TypeOK /\ OneThreadInv(t)
  BY InitType, OneThreadInit
<1>2. TypeOK /\ OneThreadInv(t) /\ [Next]_vars => (TypeOK /\ OneThreadInv(t))'
  BY StepType, OneThreadStep
<1> QED
  BY <1>1, <1>2, PTL DEF Spec

LEMMA OneThreadImplies ==
  ASSUME NEW t, Threads = {t}, TypeOK, OneThreadInv(t)
  PROVE  OneRead /\ StatusAccurate /\ NeverGivesUp /\ KnowsItsConnection
<1>1. pc[t] \in Labels /\ reading + Len(ready) \in Nat
  BY DEF TypeOK
<1>2. OneRead
  BY <1>1 DEF OneThreadInv, OneRead, Labels
<1>3. StatusAccurate
  BY DEF OneThreadInv, StatusAccurate, Quiet
<1>4. NeverGivesUp
  BY DEF OneThreadInv, NeverGivesUp, Quiet
<1>5. KnowsItsConnection
  BY DEF OneThreadInv, KnowsItsConnection, Quiet, TypeOK
<1> QED
  BY <1>2, <1>3, <1>4, <1>5

\* A client run by one thread keeps one read outstanding, between handlers
\* knows whether it has a connection, and without one has a wait on timer_
\* that will try again.
THEOREM OneThreadCorrect ==
  ASSUME NEW t, Threads = {t}
  PROVE  Spec => [](OneRead /\ StatusAccurate /\ NeverGivesUp /\ KnowsItsConnection)
BY OneThreadInvariance, OneThreadImplies, PTL

\* A client run by one thread closes a working connection only where
\* recv_observer_ asks for it.
THEOREM OneThreadKeepsConnection ==
  ASSUME NEW t, Threads = {t}
  PROVE  Spec => NoSelfInflictedClose
<1>1. TypeOK /\ OneThreadInv(t) /\ [Next]_vars => [ClosesOnlyWhenAsked]_vars
  <2> SUFFICES ASSUME TypeOK, OneThreadInv(t), [Next]_vars,
                      sock = "connected", sock' = "closed", pc[t] # "r_observe"
               PROVE  FALSE
    BY DEF ClosesOnlyWhenAsked
  <2>1. CASE CloseOnError(t)
    <3>1. pc[t] = "r_close"
      BY <2>1 DEF CloseOnError
    <3> QED
      BY <3>1 DEF OneThreadInv
  <2>6. CASE OnClose(t)
    <3>1. pc[t] = "c_close"
      BY <2>6 DEF OnClose
    <3> QED
      BY <3>1 DEF OneThreadInv
  <2>2. CASE Observe(t) \/ RunRead(t) \/ ReadAgain(t) \/ CheckStatus(t) \/ SetDisconnect(t)
    BY <2>2 DEF Observe, RunRead, ReadAgain, ToRead, CheckStatus, SetDisconnect, connVars
  <2>3. CASE RunTimer(t) \/ TimerStep(t)
    BY <2>3 DEF RunTimer, TimerStep, CheckConnected, Connect, StoreStatus, FirstRead,
                ToRead, Expire, AsyncWait, connVars
  <2>4. CASE PeerCloses \/ KernelRead \/ Fire
    BY <2>4 DEF PeerCloses, KernelRead, Fire, connVars
  <2>5. CASE UNCHANGED vars
    BY <2>5 DEF vars
  <2> QED
    BY <2>1, <2>2, <2>3, <2>4, <2>5, <2>6 DEF Next, ThreadStep, ReadStep
<1> QED
  BY <1>1, OneThreadInvariance, PTL DEF Spec, NoSelfInflictedClose
=============================================================================
