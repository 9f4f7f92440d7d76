------------------------------- MODULE TcpSend -------------------------------
(***************************************************************************)
(* The send side of wheel::tcp_socket::tcp_handle (tcp_hanlde.hpp): the    *)
(* list send_buffers_ of send_buffer objects (send_buffer.hpp), the spin   *)
(* lock data_lock_, the counter write_count_, to_send and on_write, run by *)
(* the threads of the io_service pool.                                     *)
(*                                                                         *)
(* A byte is its position in the stream of all the bytes to_send accepted, *)
(* so a send_buffer is the offset of its first byte and its two cursors.   *)
(* Each step is one access to a variable that another thread can see;      *)
(* write_count_ is a plain int, so ++ and -- are a load and a store.       *)
(* Undefined behaviour sets ub and ends the run.                           *)
(*                                                                         *)
(* An operator marked "Fault" is a wrong version of the one below it: the  *)
(* properties are shown to notice when the one replaces the other.         *)
(***************************************************************************)
EXTENDS Integers, Sequences, FiniteSets

CONSTANTS Threads,       \* threads that run handlers or call to_send
          NoThread,
          Cap,           \* g_default_buffer_size
          MsgSizes,      \* the counts to_send is called with
          Contexts,      \* "strand": called from a strand handler, "free": not
          MaxCalls,      \* bound on the calls of to_send
          MaxConns       \* bound on the connections made with this handle

ASSUME SendAssumption ==
  /\ NoThread \notin Threads
  /\ Cap \in Nat \ {0}
  /\ MsgSizes \subseteq Nat \ {0}
  /\ Contexts \subseteq {"strand", "free"}
  /\ MaxCalls \in Nat /\ MaxConns \in Nat

VARIABLES
  send_buffers_, data_lock_, write_count_,
  socket_open,   \* socket_->is_open()
  flights,       \* async_send operations the kernel has not finished
  done,          \* finished ones whose on_write has not started
  strand,        \* the thread inside a handler of strand_
  pc,            \* where each thread is in to_send or on_write
  arg,           \* its arguments: count, or (ec, size)
  reg,           \* its register holding write_count_ between load and store
  produced,      \* bytes accepted by to_send
  wire,          \* bytes the kernel took, in order
  failed,        \* the last on_write to finish reported an error
  calls, conns, ub

lockVars == <<send_buffers_, data_lock_>>
netVars  == <<socket_open, flights, done, conns>>
ghosts   == <<produced, wire, failed>>
vars == <<send_buffers_, data_lock_, write_count_, socket_open, flights, done,
          strand, pc, arg, reg, produced, wire, failed, calls, conns, ub>>

----------------------------------------------------------------------------
(* send_buffer *)

SendBuffer(start, n) == [start |-> start, read_pos_ |-> 0, write_pos_ |-> n]

Size(b) == b.write_pos_ - b.read_pos_

\* Fault: the bytes already read are taken for free room.
FitsUnread(b, n) == n + Size(b) <= Cap
Fits(b, n) == n + b.write_pos_ <= Cap

Without(s, i) == SubSeq(s, 1, i - 1) \o SubSeq(s, i + 1, Len(s))

\* The list after to_send stored n bytes: at the end of the last buffer when
\* they fit there, else in a buffer of their own.
Stored(q, n) ==
  IF q # << >> /\ Fits(q[Len(q)], n)
  THEN [q EXCEPT ![Len(q)].write_pos_ = @ + n]
  ELSE Append(q, SendBuffer(produced, n))

\* Fault: takes a send for complete.
ConsumedWhole(q, size) == Tail(q)

\* The list after on_write consumed size bytes of its first buffer.
Consumed(q, size) ==
  IF Size(q[1]) = size THEN Tail(q) ELSE [q EXCEPT ![1].read_pos_ = @ + size]

----------------------------------------------------------------------------

Init ==
  /\ send_buffers_ = << >> /\ data_lock_ = NoThread /\ write_count_ = 0
  /\ socket_open = TRUE /\ flights = << >> /\ done = << >>
  /\ strand = NoThread
  /\ pc = [t \in Threads |-> "idle"]
  /\ arg = [t \in Threads |-> [ec |-> FALSE, n |-> 0]]
  /\ reg = [t \in Threads |-> 0]
  /\ produced = 0 /\ wire = << >> /\ failed = FALSE
  /\ calls = 0 /\ conns = 1 /\ ub = FALSE

Goto(t, label) == pc' = [pc EXCEPT ![t] = label]

\* The handler or the call of thread t is over.
Return(t) ==
  /\ Goto(t, "idle")
  /\ strand' = IF strand = t THEN NoThread ELSE strand

Undefined == ub' = TRUE /\ UNCHANGED <<lockVars, write_count_, netVars, strand,
                                        pc, arg, reg, ghosts, calls>>

\* socket_->async_send(front()->data(), front()->size()): on a closed socket
\* the completion, an error, is queued at once.
AsyncSend(b, wrapped) ==
  \/ /\ socket_open
     /\ flights' = Append(flights, [buf |-> b.start, off |-> b.read_pos_,
                                    len |-> Size(b), wrapped |-> wrapped])
     /\ UNCHANGED done
  \/ /\ ~socket_open
     /\ done' = Append(done, [ec |-> TRUE, n |-> 0, wrapped |-> wrapped])
     /\ UNCHANGED flights

----------------------------------------------------------------------------
(* to_send *)

\* The guards of to_send (open socket, data to send) passed.
ToSend(t, n, ctx) ==
  /\ pc[t] = "idle" /\ socket_open /\ calls < MaxCalls
  /\ ctx = "strand" => strand = NoThread
  /\ strand' = IF ctx = "strand" THEN t ELSE strand
  /\ arg' = [arg EXCEPT ![t] = [ec |-> FALSE, n |-> n]]
  /\ Goto(t, "send_lock")
  /\ calls' = calls + 1
  /\ UNCHANGED <<lockVars, write_count_, netVars, reg, ghosts, ub>>

\* while (data_lock_.test_and_set(...));
LockFree == data_lock_ = NoThread

SpinLock(t, from, to) ==
  /\ pc[t] = from /\ LockFree
  /\ data_lock_' = t
  /\ Goto(t, to)
  /\ UNCHANGED <<send_buffers_, write_count_, netVars, strand, arg, reg,
                 ghosts, calls, ub>>

\* The critical section of to_send and its data_lock_.clear.  The constructor
\* of send_buffer copies without looking at the size of buffer_.
Store(t) ==
  /\ pc[t] = "send_crit"
  /\ LET n == arg[t].n IN
       \/ /\ n <= Cap
          /\ send_buffers_' = Stored(send_buffers_, n)
          /\ produced' = produced + n
          /\ data_lock_' = NoThread
          /\ Goto(t, "send_check")
          /\ UNCHANGED <<write_count_, netVars, strand, arg, reg, wire, failed,
                         calls, ub>>
       \/ n > Cap /\ Undefined

\* Fault: every call starts a send.
MayAlwaysStart == TRUE

\* if (write_count_ == 0), outside the lock
MayStart == write_count_ = 0

CheckCount(t) ==
  /\ pc[t] = "send_check"
  /\ \/ MayStart /\ Goto(t, "send_load") /\ UNCHANGED strand
     \/ ~MayStart /\ Return(t)
  /\ UNCHANGED <<lockVars, write_count_, netVars, arg, reg, ghosts, calls, ub>>

Load(t, from, to) ==
  /\ pc[t] = from
  /\ reg' = [reg EXCEPT ![t] = write_count_]
  /\ Goto(t, to)
  /\ UNCHANGED <<lockVars, write_count_, netVars, strand, arg, ghosts, calls, ub>>

\* The second half of ++write_count_ and --write_count_.
Added(old, delta) == old + delta

StoreCount(t, from, delta, to) ==
  /\ pc[t] = from
  /\ write_count_' = Added(reg[t], delta)
  /\ Goto(t, to)
  /\ UNCHANGED <<lockVars, netVars, strand, arg, reg, ghosts, calls, ub>>

\* The first async_send: its on_write is not wrapped in the strand, and the
\* front buffer is read outside the lock.
FirstSend(t) ==
  /\ pc[t] = "send_start"
  /\ \/ /\ send_buffers_ # << >>
        /\ AsyncSend(send_buffers_[1], FALSE)
        /\ Return(t)
        /\ UNCHANGED <<lockVars, write_count_, socket_open, conns, arg, reg,
                       ghosts, calls, ub>>
     \/ send_buffers_ = << >> /\ Undefined

----------------------------------------------------------------------------
(* on_write *)

Dispatch(t, i) ==
  /\ pc[t] = "idle"
  /\ done[i].wrapped => strand = NoThread
  /\ strand' = IF done[i].wrapped THEN t ELSE strand
  /\ arg' = [arg EXCEPT ![t] = [ec |-> done[i].ec, n |-> done[i].n]]
  /\ done' = Without(done, i)
  /\ Goto(t, "w_load")
  /\ UNCHANGED <<lockVars, write_count_, socket_open, flights, conns, reg,
                 ghosts, calls, ub>>

\* if (ec) return;
CheckError(t) ==
  /\ pc[t] = "w_ec"
  /\ failed' = arg[t].ec
  /\ \/ arg[t].ec /\ Return(t)
     \/ ~arg[t].ec /\ Goto(t, "w_lock") /\ UNCHANGED strand
  /\ UNCHANGED <<lockVars, write_count_, netVars, arg, reg, produced, wire,
                 calls, ub>>

\* Fault: a buffer sent in part is not taken up again.
MoreBuffers(q) == Len(q) > 1

\* Is there something left to send?
MoreToSend(q) == q # << >>

\* The critical section of on_write up to async_send; the lock is kept.
Advance(t) ==
  /\ pc[t] = "w_crit"
  /\ \/ /\ send_buffers_ = << >>
        /\ data_lock_' = NoThread
        /\ Return(t)
        /\ UNCHANGED <<send_buffers_, write_count_, netVars, arg, reg, ghosts,
                       calls, ub>>
     \/ /\ send_buffers_ # << >> /\ arg[t].n <= Size(send_buffers_[1])
        /\ LET q == Consumed(send_buffers_, arg[t].n) IN
             /\ send_buffers_' = q
             /\ \/ /\ MoreToSend(q)
                   /\ AsyncSend(q[1], TRUE)
                   /\ Goto(t, "w_inc_load") /\ UNCHANGED <<data_lock_, strand>>
                \/ /\ ~MoreToSend(q)
                   /\ data_lock_' = NoThread
                   /\ Return(t)
                   /\ UNCHANGED <<flights, done>>
        /\ UNCHANGED <<write_count_, socket_open, conns, arg, reg, ghosts,
                       calls, ub>>
     \/ \* read_pos_ passes write_pos_ and size() wraps around
        /\ send_buffers_ # << >> /\ arg[t].n > Size(send_buffers_[1])
        /\ Undefined

Unlock(t) ==
  /\ pc[t] = "w_unlock"
  /\ data_lock_' = NoThread
  /\ Return(t)
  /\ UNCHANGED <<send_buffers_, write_count_, netVars, arg, reg, ghosts, calls,
                 ub>>

----------------------------------------------------------------------------
(* The kernel and the connection *)

\* The memory of a flight is the buffer's: it must still be in the list.
Mapped(f) == \E j \in 1..Len(send_buffers_) : send_buffers_[j].start = f.buf

KernelSend(i) ==
  LET f == flights[i] IN
  \/ /\ socket_open /\ Mapped(f)
     /\ \E k \in 1..f.len :
          /\ wire' = wire \o [j \in 1..k |-> f.buf + f.off + j]
          /\ done' = Append(done, [ec |-> FALSE, n |-> k, wrapped |-> f.wrapped])
     /\ flights' = Without(flights, i)
     /\ UNCHANGED <<lockVars, write_count_, socket_open, conns, strand, pc, arg,
                    reg, produced, failed, calls, ub>>
  \/ socket_open /\ ~Mapped(f) /\ Undefined

Aborted(f) == [ec |-> TRUE, n |-> 0, wrapped |-> f.wrapped]

KernelFail(i) ==
  /\ flights' = Without(flights, i)
  /\ done' = Append(done, Aborted(flights[i]))
  /\ UNCHANGED <<lockVars, write_count_, socket_open, conns, strand, pc, arg,
                 reg, ghosts, calls, ub>>

\* close_socket, from the read handler or the application: every operation
\* in flight is aborted.
Close ==
  /\ socket_open
  /\ socket_open' = FALSE
  /\ flights' = << >>
  /\ done' = done \o [i \in 1..Len(flights) |-> Aborted(flights[i])]
  /\ UNCHANGED <<lockVars, write_count_, conns, strand, pc, arg, reg, ghosts,
                 calls, ub>>

\* The client connects the same handle again; nothing of the send side is reset.
Reconnect ==
  /\ ~socket_open /\ conns < MaxConns
  /\ socket_open' = TRUE
  /\ conns' = conns + 1
  /\ UNCHANGED <<lockVars, write_count_, flights, done, strand, pc, arg, reg,
                 ghosts, calls, ub>>

----------------------------------------------------------------------------

ThreadStep(t) ==
  \/ SpinLock(t, "send_lock", "send_crit")
  \/ Store(t)
  \/ CheckCount(t)
  \/ Load(t, "send_load", "send_inc")
  \/ StoreCount(t, "send_inc", 1, "send_start")
  \/ FirstSend(t)
  \/ Load(t, "w_load", "w_dec")
  \/ StoreCount(t, "w_dec", -1, "w_ec")
  \/ CheckError(t)
  \/ SpinLock(t, "w_lock", "w_crit")
  \/ Advance(t)
  \/ Load(t, "w_inc_load", "w_inc")
  \/ StoreCount(t, "w_inc", 1, "w_unlock")
  \/ Unlock(t)

Kernel == \E i \in 1..Len(flights) : KernelSend(i) \/ KernelFail(i)

Dispatches(t) == \E i \in 1..Len(done) : Dispatch(t, i)

Next ==
  /\ ~ub
  /\ \/ \E t \in Threads :
          \/ ThreadStep(t)
          \/ Dispatches(t)
          \/ \E n \in MsgSizes, ctx \in Contexts : ToSend(t, n, ctx)
     \/ Kernel
     \/ Close
     \/ Reconnect

Spec == Init /\ [][Next]_vars

\* The pool runs what is ready and the kernel answers what it was asked;
\* nothing says that the application ever sends, closes or connects.
Fairness ==
  /\ \A t \in Threads : WF_vars(~ub /\ ThreadStep(t)) /\ WF_vars(~ub /\ Dispatches(t))
  /\ WF_vars(~ub /\ Kernel)

FairSpec == Spec /\ Fairness

----------------------------------------------------------------------------
(* Properties *)

Labels == {"idle", "send_lock", "send_crit", "send_check", "send_load",
           "send_inc", "send_start", "w_load", "w_dec", "w_ec", "w_lock",
           "w_crit", "w_inc_load", "w_inc", "w_unlock"}

Buffers == [start : Nat, read_pos_ : Nat, write_pos_ : Nat]
Flights == [buf : Nat, off : Nat, len : Int, wrapped : BOOLEAN]
Completions == [ec : BOOLEAN, n : Nat, wrapped : BOOLEAN]

\* The types of the variables of tcp_handle's send side.
TypeOK ==
  /\ send_buffers_ \in Seq(Buffers)
  /\ data_lock_ \in Threads \cup {NoThread}
  /\ write_count_ \in Int
  /\ socket_open \in BOOLEAN
  /\ flights \in Seq(Flights)
  /\ done \in Seq(Completions)
  /\ strand \in Threads \cup {NoThread}
  /\ pc \in [Threads -> Labels]
  /\ arg \in [Threads -> [ec : BOOLEAN, n : Nat]]
  /\ reg \in [Threads -> Int]
  /\ produced \in Nat
  /\ wire \in Seq(Nat)
  /\ failed \in BOOLEAN
  /\ calls \in Nat /\ conns \in Nat
  /\ ub \in BOOLEAN

Critical == {"send_crit", "w_crit", "w_inc_load", "w_inc", "w_unlock"}

\* Any number of threads: data_lock_ keeps to_send's and on_write's critical
\* sections apart.
LockExclusive ==
  \A t \in Threads : pc[t] \in Critical => data_lock_ = t

\* The buffers of q hold adjacent pieces of a stream of p bytes, in order.
Contiguous(q, p) ==
  \A i \in 1..Len(q) :
    q[i].start + q[i].write_pos_ = IF i = Len(q) THEN p ELSE q[i + 1].start

\* Any number of threads: the list holds adjacent pieces of the accepted
\* stream, in order, the last one up to the last byte accepted.
QueueContiguous == Contiguous(send_buffers_, produced)

\* One thread: at most one async_send is outstanding at a time, which is what
\* write_count_ is for (a second one would send the same bytes again).
OneSendInFlight == Len(flights) + Len(done) <= 1

\* One thread: when no handler runs, write_count_ counts the outstanding sends.
CounterMatches ==
  (\A t \in Threads : pc[t] = "idle") => write_count_ = Len(flights) + Len(done)

\* One thread: the i-th byte the kernel took is the i-th byte to_send accepted:
\* nothing is lost, repeated or reordered by partial sends, by appending to
\* the buffer being sent, by errors or by a new connection of the handle.
InOrder ==
  /\ Len(wire) <= produced
  /\ \A i \in 1..Len(wire) : wire[i] = i

\* One thread: bytes are left in the list with no send outstanding only when
\* the last send failed (the code then waits for the next to_send).
NoSilentStall ==
  /\ \A t \in Threads : pc[t] = "idle"
  /\ flights = << >> /\ done = << >>
  /\ send_buffers_ # << >>
  => failed

\* One thread, messages of at most Cap bytes: front() is never taken of an
\* empty list, no cursor passes the other, no buffer_ is written past its end
\* and no buffer is freed while the kernel reads it.
MemorySafe ==
  /\ ~ub
  /\ \A i \in 1..Len(send_buffers_) :
       /\ send_buffers_[i].read_pos_ < send_buffers_[i].write_pos_
       /\ send_buffers_[i].write_pos_ <= Cap

\* One thread, fair pool: every accepted byte reaches the kernel, or a send fails.
Drained ==
  \A n \in 1..10 : produced >= n ~> (Len(wire) >= n \/ failed)

\* One thread: the send side implements a reliable byte stream.
Stream == INSTANCE ByteStream
StreamSpec == Stream!Spec
=============================================================================
