------------------------------ MODULE TcpClient ------------------------------
(***************************************************************************)
(* A wheel::tcp_socket::client (client.hpp) with its tcp_handle and its    *)
(* reconnection timer, run by the threads of the io_service pool: the read *)
(* handler of the handle runs on the strand, the timer handler does not.   *)
(*                                                                         *)
(* Handlers that find an operation_aborted and only return are left out.   *)
(* An operator marked "Fault" is a wrong version of the one below it.      *)
(***************************************************************************)
EXTENDS Naturals, Sequences, FiniteSets

CONSTANTS Threads, NoThread,
          MaxDrops,       \* bound on the connections that break or are closed
          MaxRefusals     \* bound on the connects the server refuses

ASSUME ClientAssumption ==
  /\ NoThread \notin Threads
  /\ MaxDrops \in Nat /\ MaxRefusals \in Nat

VARIABLES
  sock,             \* "closed", "open" (no peer), "connected" or "broken"
  connect_status_,
  reading,          \* async_read_some operations outstanding
  ready,            \* their completions, "data" or "error", not yet handled
  waits,            \* async_wait operations pending on timer_
  fired,            \* expired ones whose handler has not started
  strand, pc,
  ok,               \* what the connect of each thread's handler returned
  drops, refusals

connVars == <<sock, reading, ready>>
timeVars == <<waits, fired>>
vars == <<sock, connect_status_, reading, ready, waits, fired, strand, pc, ok,
          drops, refusals>>

\* client::connect returned 0 and run() starts the threads.
Init ==
  /\ sock = "connected" /\ connect_status_ = "connectinged"
  /\ reading = 1 /\ ready = << >>
  /\ waits = 0 /\ fired = 0
  /\ strand = NoThread
  /\ pc = [t \in Threads |-> "idle"]
  /\ ok = [t \in Threads |-> FALSE]
  /\ drops = 0 /\ refusals = 0

Goto(t, label) == pc' = [pc EXCEPT ![t] = label]

Return(t) ==
  /\ Goto(t, "idle")
  /\ strand' = IF strand = t THEN NoThread ELSE strand

----------------------------------------------------------------------------
(* tcp_handle: close_socket, to_read and its handler *)

\* Fault: the socket is not closed.
SocketKept == UNCHANGED connVars

\* Aborts the outstanding read; -1 when the socket is not open.
CloseSocket ==
  /\ sock' = "closed"
  /\ ready' = ready \o [i \in 1..reading |-> "error"]
  /\ reading' = 0

\* The read of a socket without a connection fails at once.
ToRead ==
  IF sock \in {"connected", "broken"}
  THEN reading' = reading + 1 /\ UNCHANGED <<sock, ready>>
  ELSE ready' = Append(ready, "error") /\ UNCHANGED <<sock, reading>>

RunRead(t) ==
  /\ pc[t] = "idle" /\ strand = NoThread /\ ready # << >>
  /\ strand' = t
  /\ Goto(t, IF Head(ready) = "data" THEN "r_observe" ELSE "r_check")
  /\ ready' = Tail(ready)
  /\ UNCHANGED <<sock, connect_status_, reading, timeVars, ok, drops, refusals>>

\* The parser and recv_observer_, which may call close_socket.
Observe(t) ==
  /\ pc[t] = "r_observe"
  /\ \/ UNCHANGED <<connVars, drops>>
     \/ drops < MaxDrops /\ drops' = drops + 1 /\ CloseSocket
  /\ Goto(t, "r_read")
  /\ UNCHANGED <<connect_status_, timeVars, strand, ok, refusals>>

ReadAgain(t) ==
  /\ pc[t] = "r_read"
  /\ ToRead
  /\ Return(t)
  /\ UNCHANGED <<connect_status_, timeVars, ok, drops, refusals>>

CheckStatus(t) ==
  /\ pc[t] = "r_check"
  /\ \/ connect_status_ = "disconnect" /\ Return(t)
     \/ connect_status_ # "disconnect" /\ Goto(t, "r_set") /\ UNCHANGED strand
  /\ UNCHANGED <<connVars, connect_status_, timeVars, ok, drops, refusals>>

SetDisconnect(t) ==
  /\ pc[t] = "r_set"
  /\ connect_status_' = "disconnect"
  /\ Goto(t, "r_close")
  /\ UNCHANGED <<connVars, timeVars, strand, ok, drops, refusals>>

AfterClose == "c_close"

\* close_socket, then close_observer_, which is client::on_close
CloseOnError(t) ==
  /\ pc[t] = "r_close"
  /\ CloseSocket
  /\ LET next == AfterClose IN
       IF next = "idle" THEN Return(t) ELSE Goto(t, next) /\ UNCHANGED strand
  /\ UNCHANGED <<connect_status_, timeVars, ok, drops, refusals>>

----------------------------------------------------------------------------
(* client: on_close and reconnect *)

OnClose(t) ==
  /\ pc[t] = "c_close"
  /\ CloseSocket
  /\ Goto(t, "c_expire")
  /\ UNCHANGED <<connect_status_, timeVars, strand, ok, drops, refusals>>

\* timer_->expires_from_now cancels the waits that are still pending.
Expire(t, from, to) ==
  /\ pc[t] = from
  /\ waits' = 0
  /\ Goto(t, to)
  /\ UNCHANGED <<connVars, connect_status_, fired, strand, ok, drops, refusals>>

AsyncWait(t) ==
  /\ pc[t] = "c_wait"
  /\ waits' = waits + 1
  /\ Return(t)
  /\ UNCHANGED <<connVars, connect_status_, fired, ok, drops, refusals>>

RunTimer(t) ==
  /\ pc[t] = "idle" /\ fired > 0
  /\ fired' = fired - 1
  /\ Goto(t, "t_check")
  /\ UNCHANGED <<connVars, connect_status_, waits, strand, ok, drops, refusals>>

\* Fault: the handler connects whatever the status.
NeverConnected == FALSE

AlreadyConnected == connect_status_ = "connectinged"

CheckConnected(t) ==
  /\ pc[t] = "t_check"
  /\ Goto(t, IF AlreadyConnected THEN "idle" ELSE "t_connect")
  /\ UNCHANGED <<connVars, connect_status_, timeVars, strand, ok, drops, refusals>>

\* socket_->connect, which opens a closed socket and refuses one that has,
\* or had, a connection.
Connect(t) ==
  /\ pc[t] = "t_connect"
  /\ \/ /\ sock \in {"closed", "open"}
        /\ \/ /\ sock' = "connected" /\ ok' = [ok EXCEPT ![t] = TRUE]
              /\ UNCHANGED refusals
           \/ /\ refusals < MaxRefusals /\ refusals' = refusals + 1
              /\ sock' = "open" /\ ok' = [ok EXCEPT ![t] = FALSE]
     \/ /\ sock \in {"connected", "broken"}
        /\ ok' = [ok EXCEPT ![t] = FALSE]
        /\ UNCHANGED <<sock, refusals>>
  /\ Goto(t, "t_status")
  /\ UNCHANGED <<connect_status_, reading, ready, timeVars, strand, drops>>

StatusOf(success) == IF success THEN "connectinged" ELSE "disconnect"

\* Fault: reads even if the connect failed.
AlwaysReads(success) == "t_read"

AfterConnect(success) == IF success THEN "t_read" ELSE "t_expire"

StoreStatus(t) ==
  /\ pc[t] = "t_status"
  /\ connect_status_' = StatusOf(ok[t])
  /\ Goto(t, AfterConnect(ok[t]))
  /\ UNCHANGED <<connVars, timeVars, strand, ok, drops, refusals>>

FirstRead(t) ==
  /\ pc[t] = "t_read"
  /\ ToRead
  /\ Goto(t, "t_expire")
  /\ UNCHANGED <<connect_status_, timeVars, strand, ok, drops, refusals>>

----------------------------------------------------------------------------
(* The peer, the kernel and the timer *)

PeerCloses ==
  /\ sock = "connected" /\ drops < MaxDrops
  /\ sock' = "broken"
  /\ drops' = drops + 1
  /\ UNCHANGED <<connect_status_, reading, ready, timeVars, strand, pc, ok, refusals>>

\* A read ends with data, or with an error on a broken connection.
KernelRead ==
  /\ reading > 0
  /\ reading' = reading - 1
  /\ \/ sock = "connected" /\ ready' = Append(ready, "data")
     \/ sock = "broken" /\ ready' = Append(ready, "error")
  /\ UNCHANGED <<sock, connect_status_, timeVars, strand, pc, ok, drops, refusals>>

\* All the waits on timer_ have its one expiry.
Fire ==
  /\ waits > 0
  /\ fired' = fired + waits /\ waits' = 0
  /\ UNCHANGED <<connVars, connect_status_, strand, pc, ok, drops, refusals>>

----------------------------------------------------------------------------

ReadStep(t) ==
  Observe(t) \/ ReadAgain(t) \/ CheckStatus(t) \/ SetDisconnect(t)
    \/ CloseOnError(t) \/ OnClose(t)

TimerStep(t) ==
  \/ CheckConnected(t) \/ Connect(t) \/ StoreStatus(t) \/ FirstRead(t)
  \/ Expire(t, "t_expire", "c_expire")
  \/ Expire(t, "c_expire", "c_wait")
  \/ AsyncWait(t)

ThreadStep(t) == ReadStep(t) \/ TimerStep(t)

Next ==
  \/ \E t \in Threads : RunRead(t) \/ RunTimer(t) \/ ThreadStep(t)
  \/ PeerCloses \/ KernelRead \/ Fire

Spec == Init /\ [][Next]_vars

\* Threads do not stop inside a handler; the io_service queue is first in
\* first out, so a ready handler runs even if others keep coming; the timer
\* fires; a broken connection fails its read.
Fairness ==
  /\ \A t \in Threads : /\ WF_vars(ThreadStep(t))
                        /\ SF_vars(RunRead(t)) /\ SF_vars(RunTimer(t))
  /\ WF_vars(Fire) /\ WF_vars(KernelRead /\ sock = "broken")

FairSpec == Spec /\ Fairness

----------------------------------------------------------------------------

Labels == {"idle", "r_observe", "r_read", "r_check", "r_set", "r_close",
           "c_close", "c_expire", "c_wait", "t_check", "t_connect", "t_status",
           "t_read", "t_expire"}

\* The variables have their types.
TypeOK ==
  /\ sock \in {"closed", "open", "connected", "broken"}
  /\ connect_status_ \in {"disconnect", "connectinged"}
  /\ reading \in Nat /\ ready \in Seq({"data", "error"})
  /\ waits \in Nat /\ fired \in Nat
  /\ strand \in Threads \cup {NoThread}
  /\ pc \in [Threads -> Labels]
  /\ ok \in [Threads -> BOOLEAN]
  /\ drops \in 0..MaxDrops /\ refusals \in 0..MaxRefusals

Quiet == \A t \in Threads : pc[t] = "idle"

\* One read at a time: to_read replaces recv_buffer_, which an outstanding
\* read would still be writing into.
OneRead == reading + Len(ready) <= 1

\* Between handlers connect_status_ tells the truth: a client that believes it
\* is connected has a read in progress, which will notice the end of the
\* connection, and one that does not has neither a connection nor a read.
StatusAccurate ==
  Quiet =>
    IF connect_status_ = "connectinged"
    THEN reading + Len(ready) = 1
    ELSE sock \in {"closed", "open"} /\ reading + Len(ready) = 0

\* A client without a connection has a wait on timer_, or an expired one, that
\* will connect it again; without one run() would also return.
NeverGivesUp ==
  Quiet /\ connect_status_ = "disconnect" => waits + fired > 0

\* Between handlers a client with a connection knows that it has one.  One
\* that does not would ignore the error that ends its connection, leave the
\* socket open, and try for ever to connect a socket that connect refuses.
KnowsItsConnection ==
  Quiet /\ sock = "connected" => connect_status_ = "connectinged"

ClosesOnlyWhenAsked ==
  sock = "connected" /\ sock' = "closed" => \E t \in Threads : pc[t] = "r_observe"

\* The client closes no working connection, unless recv_observer_ does.
NoSelfInflictedClose == [][ClosesOnlyWhenAsked]_vars

\* A client that lost its connection gets another, when the server refuses
\* only so many times.
Reconnects ==
  sock # "connected"
    ~> sock = "connected" /\ connect_status_ = "connectinged"

----------------------------------------------------------------------------

\* The invariant behind the single-threaded properties, place by place in the
\* code of thread t.  An error is only ever queued for a connection that is
\* over, and the status is "disconnect" only while no read exists, so the error
\* of an old connection is never taken for one of the new connection.
OneThreadInv(t) ==
  LET at(S)  == pc[t] \in S
      reads  == reading + Len(ready)
      over   == sock \in {"broken", "closed"}
      settled == IF connect_status_ = "connectinged"
                 THEN reads = 1
                 ELSE sock \in {"closed", "open"} /\ reads = 0
  IN
  /\ strand = IF at({"r_observe", "r_read", "r_check", "r_set", "r_close", "c_close"})
              THEN t
              ELSE IF at({"c_expire", "c_wait"}) THEN strand ELSE NoThread
  /\ at({"idle", "c_expire", "c_wait", "t_check", "t_expire"}) => settled
  /\ at({"idle"}) /\ connect_status_ = "disconnect" => waits + fired > 0
  /\ at({"r_observe", "r_read", "r_check", "r_set", "t_read"}) =>
       connect_status_ = "connectinged" /\ reads = 0
  /\ at({"r_close", "c_close", "t_connect", "t_status"}) =>
       connect_status_ = "disconnect" /\ reads = 0
  /\ at({"r_check", "r_set", "r_close"}) => over
  /\ at({"c_close"}) => sock = "closed"
  /\ at({"t_connect"}) => sock \in {"closed", "open"}
  /\ at({"t_status"}) =>
       sock \in IF ok[t] THEN {"connected", "broken"} ELSE {"closed", "open"}
  /\ ready = << "error" >> => over
  /\ connect_status_ = "connectinged" => sock # "open"

OneThreadInvariant == \A t \in Threads : OneThreadInv(t)

=============================================================================
