------------------------------ MODULE UnitTimer ------------------------------
(***************************************************************************)
(* wheel::unit::timer (timer.hpp): a timer with an io_service and a thread *)
(* of its own, which runs the io_service as soon as it is created.  The    *)
(* owner calls start_timer, loop_timer and cancel whenever it likes, and   *)
(* destroys the timer in the end.                                          *)
(*                                                                         *)
(* run() returns for good when the io_service has no work, and only a      *)
(* thread inside run() lets a wait expire.  Waits are numbered by the call *)
(* that made them.                                                         *)
(* An operator marked "Fault" is a wrong version of the one below it.      *)
(***************************************************************************)
EXTENDS Naturals, Sequences

CONSTANT MaxCalls    \* bound on the calls of start_timer and loop_timer

VARIABLES
  thread,   \* "created", "running" (inside run), "trigger" or "exited"
  owner,    \* "open", "joining" (in the destructor) or "destroyed"
  pending,  \* the wait that is pending, or 0
  queue,    \* completed waits whose handler has not run
  looped,   \* the waits made by loop_timer
  current,  \* the wait whose handler is inside trigger_, or 0
  calls

vars == <<thread, owner, pending, queue, looped, current, calls>>

Init ==
  /\ thread = "created" /\ owner = "open"
  /\ pending = 0 /\ queue = << >> /\ looped = {} /\ current = 0 /\ calls = 0

Completion(wait, ec) == [wait |-> wait, ec |-> ec]

\* The queue once the pending wait, if any, is aborted.
Aborted == IF pending = 0 THEN queue ELSE Append(queue, Completion(pending, TRUE))

\* expires_from_now aborts the pending wait, async_wait makes another.
Arm(wait) == queue' = Aborted /\ pending' = wait

NewWait == owner = "open" /\ calls < MaxCalls /\ calls' = calls + 1

StartTimer ==
  /\ NewWait
  /\ Arm(calls + 1)
  /\ UNCHANGED <<thread, owner, looped, current>>

LoopTimer ==
  /\ NewWait
  /\ Arm(calls + 1)
  /\ looped' = looped \cup {calls + 1}
  /\ UNCHANGED <<thread, owner, current>>

Cancel ==
  /\ owner = "open" /\ pending # 0
  /\ queue' = Aborted /\ pending' = 0
  /\ UNCHANGED <<thread, owner, looped, current, calls>>

Destroy ==
  /\ owner = "open"
  /\ owner' = "joining"
  /\ UNCHANGED <<thread, pending, queue, looped, current, calls>>

\* Join returns when the thread is over.
Joins == thread = "exited"

Destroyed ==
  /\ owner = "joining" /\ Joins
  /\ owner' = "destroyed"
  /\ UNCHANGED <<thread, pending, queue, looped, current, calls>>

----------------------------------------------------------------------------
(* The thread *)

\* Fault: waits that are pending do not count.
QueuedOnly == queue # << >>

HasWork == pending # 0 \/ queue # << >>

EnterRun ==
  /\ thread = "created"
  /\ thread' = IF HasWork THEN "running" ELSE "exited"
  /\ UNCHANGED <<owner, pending, queue, looped, current, calls>>

RunReturns ==
  /\ thread = "running" /\ ~HasWork
  /\ thread' = "exited"
  /\ UNCHANGED <<owner, pending, queue, looped, current, calls>>

Expire ==
  /\ thread = "running" /\ pending # 0
  /\ queue' = Append(queue, Completion(pending, FALSE))
  /\ pending' = 0
  /\ UNCHANGED <<thread, owner, looped, current, calls>>

\* Fault: every timer loops.
AlwaysLoops(wait) == TRUE

LoopsAgain(wait) == wait \in looped

\* An aborted wait is dropped; another one calls trigger_.
RunHandler ==
  /\ thread = "running" /\ queue # << >>
  /\ queue' = Tail(queue)
  /\ IF Head(queue).ec
     THEN UNCHANGED <<thread, current>>
     ELSE thread' = "trigger" /\ current' = Head(queue).wait
  /\ UNCHANGED <<owner, pending, looped, calls>>

\* trigger_ is over, and the handler of loop_timer calls it again.
TriggerReturns ==
  /\ thread = "trigger"
  /\ IF LoopsAgain(current) THEN Arm(current) ELSE UNCHANGED <<queue, pending>>
  /\ thread' = "running" /\ current' = 0
  /\ UNCHANGED <<owner, looped, calls>>

ThreadStep == EnterRun \/ RunReturns \/ RunHandler \/ TriggerReturns

Next ==
  \/ StartTimer \/ LoopTimer \/ Cancel \/ Destroy \/ Destroyed
  \/ Expire \/ ThreadStep

\* The thread is scheduled, time passes, and a join that can return does.
Spec ==
  /\ Init /\ [][Next]_vars
  /\ WF_vars(ThreadStep) /\ WF_vars(Expire) /\ WF_vars(Destroyed)

----------------------------------------------------------------------------

\* A wait made while the thread is inside run, or has yet to get there, expires
\* or is aborted: the thread does not leave before.
PendingEnds ==
  \A k \in 1..MaxCalls : pending = k /\ thread # "exited" ~> pending # k

\* The destructor, which joins the thread, returns if loop_timer was never
\* called: the thread leaves run when the last wait is over.
DestructorReturns ==
  owner = "joining" /\ looped = {} ~> owner = "destroyed"

=============================================================================
