------------------------------ MODULE TcpServer ------------------------------
(***************************************************************************)
(* wheel::tcp_socket::server (server.hpp) and the lives of its tcp_handle  *)
(* objects: the pool of pending accepts, the map connects_ whose           *)
(* shared_ptrs keep the connections alive, the spin lock lock_, the read   *)
(* handlers on the server's one strand, the accept handlers and the first  *)
(* on_write of a send outside it.                                          *)
(*                                                                         *)
(* A read or write operation holds a raw pointer to its handle: running    *)
(* its handler on a destroyed handle is undefined ("read", "write"), as is *)
(* find in connects_ while another thread changes it ("search"): ub keeps  *)
(* which it was, and the run ends.                                         *)
(* TcpSend has the send side in detail; here a send is one operation.      *)
(* An operator marked "Fault" is a wrong version of the one below it.      *)
(***************************************************************************)
EXTENDS Naturals, FiniteSets

CONSTANTS Threads, NoThread,
          Handles, NoHandle,
          PoolSize,        \* connect_pool
          MaxSessions,     \* bound on the connections open at once
          MaxFailures      \* bound on the accepts that fail

ASSUME ServerAssumption ==
  /\ NoThread \notin Threads /\ NoHandle \notin Handles
  /\ PoolSize \in Nat /\ MaxSessions \in Nat /\ MaxFailures \in Nat
  /\ IsFiniteSet(Handles) /\ Cardinality(Handles) >= PoolSize + MaxSessions

VARIABLES
  connects_, lock_,
  accepting,   \* handles given to async_accept, still pending
  sock,        \* of each handle: "none", "connected", "broken" or "closed"
  connect_status_,
  reading,     \* handles with an async_read_some outstanding
  sending,     \* handles with an async_send outstanding
  ready,       \* completions whose handler has not started
  strand, pc,
  cur,         \* the handle each thread's handler is about
  failures, ub

handleVars == <<sock, connect_status_, reading, sending>>
vars == <<connects_, lock_, accepting, sock, connect_status_, reading, sending,
          ready, strand, pc, cur, failures, ub>>

Kinds == {"accepted", "refused", "data", "error", "sent"}
Completion(kind, h) == [kind |-> kind, h |-> h]

\* The handlers in which a local shared_ptr keeps the handle alive: the accept
\* handler, and the observers called with shared_from_this().
AcceptLabels == {"a_find", "a_found", "a_lock", "a_emplace", "a_read", "a_next"}
Holding == AcceptLabels \cup {"r_observe", "r_lock", "r_erase"}

Held(h) == \E t \in Threads : cur[t] = h /\ pc[t] \in Holding

Alive(h) ==
  \/ h \in connects_ \/ h \in accepting \/ Held(h)
  \/ \E k \in {"accepted", "refused"} : Completion(k, h) \in ready

\* A handle object that does not exist, and that no operation points to.
Fresh(h) ==
  /\ ~Alive(h)
  /\ h \notin reading \cup sending
  /\ \A k \in Kinds : Completion(k, h) \notin ready

----------------------------------------------------------------------------

\* init posted PoolSize accepts.
Init ==
  /\ connects_ = {} /\ lock_ = NoThread
  /\ accepting \in SUBSET Handles /\ Cardinality(accepting) = PoolSize
  /\ sock = [h \in Handles |-> "none"]
  /\ connect_status_ = [h \in Handles |-> "disconnect"]
  /\ reading = {} /\ sending = {} /\ ready = {}
  /\ strand = NoThread
  /\ pc = [t \in Threads |-> "idle"]
  /\ cur = [t \in Threads |-> NoHandle]
  /\ failures = 0 /\ ub = "none"

Goto(t, label) == pc' = [pc EXCEPT ![t] = label]

Return(t) ==
  /\ Goto(t, "idle")
  /\ cur' = [cur EXCEPT ![t] = NoHandle]
  /\ strand' = IF strand = t THEN NoThread ELSE strand

Undefined(what) ==
  /\ ub' = what
  /\ UNCHANGED <<connects_, lock_, accepting, handleVars, ready, strand, pc,
                 cur, failures>>

\* while (lock_.test_and_set(...));
SpinLock(t, from, to) ==
  /\ pc[t] = from /\ lock_ = NoThread
  /\ lock_' = t
  /\ Goto(t, to)
  /\ UNCHANGED <<connects_, accepting, handleVars, ready, strand, cur,
                 failures, ub>>

\* connects_ changes while no other thread looks into it.
Changes(map, next) ==
  \/ /\ \A t \in Threads : pc[t] # "a_found"
     /\ connects_' = map
     /\ next
  \/ (\E t \in Threads : pc[t] = "a_found") /\ Undefined("search")

----------------------------------------------------------------------------
(* Accepting: make_session and its accept handler *)

\* tcp_handle::activate up to connect_observer_, server::on_connect
RunAccept(t, h) ==
  /\ pc[t] = "idle" /\ Completion("accepted", h) \in ready
  /\ ready' = ready \ {Completion("accepted", h)}
  /\ connect_status_' = [connect_status_ EXCEPT ![h] = "connectinged"]
  /\ cur' = [cur EXCEPT ![t] = h]
  /\ Goto(t, "a_find")
  /\ UNCHANGED <<connects_, lock_, accepting, sock, reading, sending, strand,
                 failures, ub>>

\* The handle of a failed accept goes with its handler, and so does its place
\* in the pool.
RunRefused(h) ==
  /\ Completion("refused", h) \in ready
  /\ ready' = ready \ {Completion("refused", h)}
  /\ sock' = [sock EXCEPT ![h] = "none"]
  /\ UNCHANGED <<connects_, lock_, accepting, connect_status_, reading, sending,
                 strand, pc, cur, failures, ub>>

\* connects_.find starts, without the lock
Find(t) ==
  /\ pc[t] = "a_find"
  /\ Goto(t, "a_found")
  /\ UNCHANGED <<connects_, lock_, accepting, handleVars, ready, strand, cur,
                 failures, ub>>

Found(t) ==
  /\ pc[t] = "a_found"
  /\ Goto(t, IF cur[t] \in connects_ THEN "a_read" ELSE "a_lock")
  /\ UNCHANGED <<connects_, lock_, accepting, handleVars, ready, strand, cur,
                 failures, ub>>

WithEntry(h) == connects_ \cup {h}

Emplace(t) ==
  /\ pc[t] = "a_emplace"
  /\ Changes(WithEntry(cur[t]),
             /\ lock_' = NoThread
             /\ Goto(t, "a_read")
             /\ UNCHANGED <<accepting, handleVars, ready, strand, cur, failures, ub>>)

\* to_read, the first time
FirstRead(t) ==
  /\ pc[t] = "a_read"
  /\ reading' = reading \cup {cur[t]}
  /\ Goto(t, "a_next")
  /\ UNCHANGED <<connects_, lock_, accepting, sock, connect_status_, sending,
                 ready, strand, cur, failures, ub>>

\* Fault: the next accept is not posted.
AcceptsNoMore(h) == {}

NextAccept(h) == {h}

\* make_session
MakeSession(t) ==
  /\ pc[t] = "a_next"
  /\ \E h \in Handles :
       /\ Fresh(h)
       /\ accepting' = accepting \cup NextAccept(h)
       /\ sock' = [sock EXCEPT ![h] = "none"]
       /\ connect_status_' = [connect_status_ EXCEPT ![h] = "disconnect"]
  /\ Return(t)
  /\ UNCHANGED <<connects_, lock_, reading, sending, ready, failures, ub>>

----------------------------------------------------------------------------
(* The read handler of a handle, and server::on_close *)

RunRead(t, h) ==
  \E kind \in {"data", "error"} :
    /\ pc[t] = "idle" /\ strand = NoThread
    /\ Completion(kind, h) \in ready
    /\ \/ /\ Alive(h)
          /\ ready' = ready \ {Completion(kind, h)}
          /\ strand' = t
          /\ cur' = [cur EXCEPT ![t] = h]
          /\ Goto(t, IF kind = "data" THEN "r_observe" ELSE "r_error")
          /\ UNCHANGED <<connects_, lock_, accepting, handleVars, failures, ub>>
       \/ ~Alive(h) /\ Undefined("read")

\* What closing the socket of h does to its operations.
Aborted(h) ==
  /\ sock' = [sock EXCEPT ![h] = "closed"]
  /\ reading' = reading \ {h} /\ sending' = sending \ {h}
  /\ ready' = ready \cup {Completion("error", g) : g \in reading \cap {h}}
                    \cup {Completion("sent", g) : g \in sending \cap {h}}

\* recv_observer_: it may send, or close the connection.
Observe(t) ==
  /\ pc[t] = "r_observe"
  /\ \/ UNCHANGED <<sock, reading, sending, ready>>
     \/ Aborted(cur[t])
     \/ /\ sock[cur[t]] # "closed"
        /\ Completion("sent", cur[t]) \notin ready
        /\ sending' = sending \cup {cur[t]}
        /\ UNCHANGED <<sock, reading, ready>>
  /\ Goto(t, "r_read")
  /\ UNCHANGED <<connects_, lock_, accepting, connect_status_, strand, cur,
                 failures, ub>>

\* Fault: a read of a closed socket is not posted.
NoReadAfterClose(h) == {}

\* The read of a closed socket fails at once.
FailedRead(h) == {Completion("error", h)}

ReadAgain(t) ==
  LET h == cur[t] IN
  /\ pc[t] = "r_read"
  /\ \/ /\ Alive(h)
        /\ \/ /\ sock[h] # "closed"
              /\ reading' = reading \cup {h} /\ UNCHANGED ready
           \/ /\ sock[h] = "closed"
              /\ ready' = ready \cup FailedRead(h) /\ UNCHANGED reading
        /\ Return(t)
        /\ UNCHANGED <<connects_, lock_, accepting, sock, connect_status_,
                       sending, failures, ub>>
     \/ ~Alive(h) /\ Undefined("read")

\* The status test, close_socket, and close_observer_(shared_from_this(), ec);
\* only strand handlers and the accept handler before the first read use them.
ReadError(t) ==
  LET h == cur[t] IN
  /\ pc[t] = "r_error"
  /\ \/ /\ connect_status_[h] = "disconnect"
        /\ Return(t)
        /\ UNCHANGED <<handleVars, ready>>
     \/ /\ connect_status_[h] # "disconnect"
        /\ connect_status_' = [connect_status_ EXCEPT ![h] = "disconnect"]
        /\ Aborted(h)
        /\ Goto(t, "r_lock")
        /\ UNCHANGED <<strand, cur>>
  /\ UNCHANGED <<connects_, lock_, accepting, failures, ub>>

\* Fault: the entry stays in the map.
EntryKept(h) == connects_

\* Fault: the whole map is cleared.
MapCleared(h) == {}

WithoutEntry(h) == connects_ \ {h}

Erase(t) ==
  /\ pc[t] = "r_erase"
  /\ Changes(WithoutEntry(cur[t]),
             /\ lock_' = NoThread
             /\ Return(t)
             /\ UNCHANGED <<accepting, handleVars, ready, failures, ub>>)

----------------------------------------------------------------------------
(* on_write: what is left to send, if anything, is sent next *)

RunWrite(t, h) ==
  /\ pc[t] = "idle" /\ Completion("sent", h) \in ready
  /\ \/ /\ Alive(h)
        /\ ready' = ready \ {Completion("sent", h)}
        /\ sending' \in IF sock[h] = "connected" THEN {sending, sending \cup {h}}
                                                 ELSE {sending}
        /\ UNCHANGED <<connects_, lock_, accepting, sock, connect_status_, reading,
                       strand, pc, cur, failures, ub>>
     \/ ~Alive(h) /\ Undefined("write")

----------------------------------------------------------------------------
(* The peers and the kernel *)

Sessions == {h \in Handles : Alive(h) /\ h \notin accepting}

PeerConnects(h) ==
  /\ h \in accepting /\ Cardinality(Sessions) < MaxSessions
  /\ accepting' = accepting \ {h}
  /\ sock' = [sock EXCEPT ![h] = "connected"]
  /\ ready' = ready \cup {Completion("accepted", h)}
  /\ UNCHANGED <<connects_, lock_, connect_status_, reading, sending, strand, pc,
                 cur, failures, ub>>

AcceptFails(h) ==
  /\ h \in accepting /\ failures < MaxFailures
  /\ accepting' = accepting \ {h}
  /\ failures' = failures + 1
  /\ ready' = ready \cup {Completion("refused", h)}
  /\ UNCHANGED <<connects_, lock_, handleVars, strand, pc, cur, ub>>

PeerCloses(h) ==
  /\ sock[h] = "connected"
  /\ sock' = [sock EXCEPT ![h] = "broken"]
  /\ UNCHANGED <<connects_, lock_, accepting, connect_status_, reading, sending,
                 ready, strand, pc, cur, failures, ub>>

KernelRead(h) ==
  /\ h \in reading
  /\ reading' = reading \ {h}
  /\ ready' = ready \cup {Completion(IF sock[h] = "connected" THEN "data" ELSE "error", h)}
  /\ UNCHANGED <<connects_, lock_, accepting, sock, connect_status_, sending,
                 strand, pc, cur, failures, ub>>

KernelSent(h) ==
  /\ h \in sending
  /\ sending' = sending \ {h}
  /\ ready' = ready \cup {Completion("sent", h)}
  /\ UNCHANGED <<connects_, lock_, accepting, sock, connect_status_, reading,
                 strand, pc, cur, failures, ub>>

----------------------------------------------------------------------------

ThreadStep(t) ==
  \/ Find(t) \/ Found(t) \/ SpinLock(t, "a_lock", "a_emplace") \/ Emplace(t)
  \/ FirstRead(t) \/ MakeSession(t)
  \/ Observe(t) \/ ReadAgain(t) \/ ReadError(t)
  \/ SpinLock(t, "r_lock", "r_erase") \/ Erase(t)

Defined == ub = "none"

Next ==
  /\ Defined
  /\ \/ \E t \in Threads :
          \/ ThreadStep(t)
          \/ \E h \in Handles : RunAccept(t, h) \/ RunRead(t, h) \/ RunWrite(t, h)
     \/ \E h \in Handles :
          \/ RunRefused(h) \/ PeerConnects(h) \/ AcceptFails(h)
          \/ PeerCloses(h) \/ KernelRead(h) \/ KernelSent(h)

Spec == Init /\ [][Next]_vars

\* The pool runs the read handlers that are ready and does not stop inside a
\* handler; a read of a broken connection ends.
Fairness ==
  /\ \A t \in Threads : WF_vars(Defined /\ ThreadStep(t))
  /\ \A h \in Handles :
       /\ SF_vars(Defined /\ \E t \in Threads : RunRead(t, h))
       /\ WF_vars(Defined /\ sock[h] = "broken" /\ KernelRead(h))

FairSpec == Spec /\ Fairness

----------------------------------------------------------------------------

Labels == {"idle", "r_read", "r_error"} \cup Holding

\* No handler runs on a destroyed handle, no map is read while it changes.
NoUndefined == Defined

\* A read that is outstanding or has completed.
HasRead(h) ==
  \/ h \in reading
  \/ \E k \in {"data", "error"} : Completion(k, h) \in ready

InHandler(h) == \E t \in Threads : cur[t] = h

\* Whatever the threads do, a handle with a read is in connects_: nothing else
\* keeps alive the object its read handler will use.
ReadersRegistered == \A h \in Handles : HasRead(h) => h \in connects_

\* A connection in connects_ is being handled, or has a read that will notice
\* its end.  One without either would stay in the map for ever.
NoLeakedConnection ==
  \A h \in connects_ : InHandler(h) \/ HasRead(h)

\* Only a failed accept costs the server one of its pending accepts.
SlotsAccounted ==
  Cardinality(accepting)
    + Cardinality({h \in Handles : Completion("accepted", h) \in ready})
    + Cardinality({t \in Threads : pc[t] \in AcceptLabels})
    + failures = PoolSize

\* A connection that is over leaves connects_.
ClosedLeave ==
  \A h \in Handles :
    h \in connects_ /\ sock[h] \in {"broken", "closed"} ~> h \notin connects_ \/ ~Defined

=============================================================================
