------------------------------- MODULE MCTimers -------------------------------
(***************************************************************************)
(* The two timers of the library on the instances that TLC checks.  They   *)
(* share nothing: a behaviour is one of "of", the timer_queue of timer2 or *)
(* the unit::timer with its thread, and the other one stays as it began.   *)
(***************************************************************************)
EXTENDS TimerQueue, TLC

VARIABLES
  of,
  thread, owner, pending, queue, looped, current, waits     \* UnitTimer

Threaded == INSTANCE UnitTimer WITH calls <- waits

threadVars == <<thread, owner, pending, queue, looped, current, waits>>
allVars == <<of, vars, threadVars>>

OfQueue(A) == of = "timer_queue" /\ A /\ UNCHANGED <<of, threadVars>>
OfThread(A) == of = "unit_timer" /\ A /\ UNCHANGED <<of, vars>>

TimersInit == of \in {"timer_queue", "unit_timer"} /\ Init /\ Threaded!Init

TimersNext == OfQueue(Next) \/ OfThread(Threaded!Next)

\* The fairness of FairSpec of TimerQueue and of Spec of UnitTimer.
TimersSpec ==
  /\ TimersInit /\ [][TimersNext]_allVars
  /\ WF_allVars(OfQueue(AlarmStep)) /\ WF_allVars(OfQueue(Tick)) /\ WF_allVars(OfQueue(Fire))
  /\ WF_allVars(OfThread(Threaded!ThreadStep)) /\ WF_allVars(OfThread(Threaded!Expire))
  /\ WF_allVars(OfThread(Threaded!Destroyed))

----------------------------------------------------------------------------

\* A wait of unit::timer expires or is aborted: PendingEnds of UnitTimer.
PendingEnds == Threaded!PendingEnds

\* Without loop_timer the destructor of unit::timer returns: DestructorReturns of
\* UnitTimer.
DestructorReturns == Threaded!DestructorReturns

=============================================================================
