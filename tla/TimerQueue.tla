------------------------------ MODULE TimerQueue ------------------------------
(***************************************************************************)
(* wheel::timer2::timer_queue (timer2.hpp): the sorted list events_, the   *)
(* one asio timer that is armed for its first event, on_alarm, and the     *)
(* calls of new_timer and cancel_timer, made by the application between    *)
(* handlers or by the trigger that on_alarm is running.                    *)
(*                                                                         *)
(* The io_service is run by one thread, as the class needs: it has no      *)
(* mutex, and lock_ only tells cancel_timer that on_alarm is at work.      *)
(* Time is counted in ticks of half a millisecond: durations are rounded   *)
(* down to whole milliseconds.  Calls that return -1 or false, and alarms  *)
(* that were cancelled, change nothing and are left out.                   *)
(* An operator marked "Fault" is a wrong version of the one below it.      *)
(***************************************************************************)
EXTENDS Integers, Sequences, SequencesExt

CONSTANTS Contexts,
          Delays,      \* the milliseconds new_timer is called with
          None,        \* no wait is pending; nothing is being triggered
          MaxTime,     \* bound on the ticks of the clock: it stands for all
                       \* later times, when every wait has expired
          MaxCalls     \* bound on the successful calls of new_timer

ASSUME TimerAssumption ==
  /\ Delays \subseteq Nat \ {0} /\ MaxTime \in Nat /\ MaxCalls \in Nat
  /\ None \notin Contexts /\ None \notin Int

VARIABLES
  events_, lock_,
  wait,     \* expiry of the pending async_wait, or None
  fired,    \* waits that expired, on_alarm not yet started
  pc,       \* "idle", or where on_alarm is: "loop" or "trigger"
  it,       \* the position of its iterator in events_
  pt,       \* the time it started
  due,      \* the context it is triggering
  now, calls,
  expected  \* contexts with a timer that was neither triggered nor cancelled

alarmVars == <<pc, it, pt, due>>
vars == <<events_, lock_, wait, fired, pc, it, pt, due, now, calls, expected>>

Ticks(ms) == 2 * ms
WholeMs(ticks) == Ticks(ticks \div 2)

Init ==
  /\ events_ = << >> /\ lock_ = FALSE
  /\ wait = None /\ fired = 0
  /\ pc = "idle" /\ it = 1 /\ pt = 0 /\ due = None
  /\ now = 0 /\ calls = 0 /\ expected = {}

\* std::find with the operator== of timer, which compares no contexts: the
\* positions of the timers that are not canceled_.
Found == {i \in 1..Len(events_) : ~events_[i].canceled_}

First(S) == CHOOSE i \in S : \A j \in S : i <= j

\* expires_from_now cancels the pending wait, async_wait makes another.
EnableAlarm(ticks) == wait' = now + ticks

\* Fault: a new event goes after all the others.
LastPlace(deadline) == Len(events_) + 1

\* Where a new event goes: before the first one that is later.
UpperBound(deadline) ==
  First({i \in 1..Len(events_) : events_[i].deadline_ > deadline}
          \cup {Len(events_) + 1})

\* An application handler, or the trigger that on_alarm called.
MayCall == pc \in {"idle", "trigger"}

NewTimer(c, ms) ==
  LET deadline == now + Ticks(ms)
      place == UpperBound(deadline)
  IN
  /\ MayCall /\ calls < MaxCalls /\ deadline <= MaxTime
  /\ Found = {}
  /\ events_' = InsertAt(events_, place,
                  [contetx_ |-> c, deadline_ |-> deadline, canceled_ |-> FALSE])
  /\ IF events_ = << >> \/ Head(events_).deadline_ > deadline
     THEN EnableAlarm(Ticks(ms)) ELSE UNCHANGED wait
  /\ it' = IF pc # "idle" /\ place <= it THEN it + 1 ELSE it
  /\ expected' = expected \cup {c}
  /\ calls' = calls + 1
  /\ UNCHANGED <<lock_, fired, pc, pt, due, now>>

\* While on_alarm goes through events_ the timer is only marked.
CancelTimer(id) ==
  LET i == First(Found) IN
  /\ MayCall /\ Found # {}
  /\ events_' = IF lock_ THEN [events_ EXCEPT ![i].canceled_ = TRUE]
                         ELSE RemoveAt(events_, i)
  /\ expected' = expected \ {events_[i].contetx_}
  /\ UNCHANGED <<lock_, wait, fired, alarmVars, now, calls>>

----------------------------------------------------------------------------
(* on_alarm *)

OnAlarm ==
  /\ pc = "idle" /\ fired > 0
  /\ fired' = fired - 1
  /\ lock_' = TRUE
  /\ pt' = now /\ it' = 1 /\ pc' = "loop"
  /\ UNCHANGED <<events_, wait, due, now, calls, expected>>

AtEvent == pc = "loop" /\ it <= Len(events_)

\* Fault: canceled_ is not looked at.
TakenForLive(e) == FALSE

Canceled(e) == e.canceled_

EraseCanceled ==
  /\ AtEvent /\ Canceled(events_[it])
  /\ events_' = RemoveAt(events_, it)
  /\ UNCHANGED <<lock_, wait, fired, alarmVars, now, calls, expected>>

\* The event is erased before its trigger is called.
Trigger ==
  /\ AtEvent /\ ~Canceled(events_[it]) /\ events_[it].deadline_ <= pt
  /\ due' = events_[it].contetx_
  /\ events_' = RemoveAt(events_, it)
  /\ expected' = expected \ {events_[it].contetx_}
  /\ pc' = "trigger"
  /\ UNCHANGED <<lock_, wait, fired, it, pt, now, calls>>

TriggerReturns ==
  /\ pc = "trigger"
  /\ pc' = "loop" /\ due' = None
  /\ UNCHANGED <<events_, lock_, wait, fired, it, pt, now, calls, expected>>

\* Fault: the alarm is not armed again.
NoAlarm == UNCHANGED wait

\* The alarm for the next event, counted from the time on_alarm began.
NextAlarm ==
  IF events_ # << >> THEN EnableAlarm(WholeMs(Head(events_).deadline_ - pt))
                     ELSE UNCHANGED wait

Unlock == lock_' = FALSE

Finish ==
  /\ pc = "loop"
  /\ \/ it > Len(events_)
     \/ it <= Len(events_) /\ ~Canceled(events_[it]) /\ events_[it].deadline_ > pt
  /\ NextAlarm
  /\ Unlock /\ pc' = "idle" /\ it' = 1
  /\ UNCHANGED <<events_, fired, pt, due, now, calls, expected>>

----------------------------------------------------------------------------
(* The clock and the asio timer *)

Tick ==
  /\ now < MaxTime
  /\ now' = now + 1
  /\ UNCHANGED <<events_, lock_, wait, fired, alarmVars, calls, expected>>

Fire ==
  /\ wait # None /\ (wait <= now \/ now = MaxTime)
  /\ fired' = fired + 1 /\ wait' = None
  /\ UNCHANGED <<events_, lock_, alarmVars, now, calls, expected>>

AlarmStep == OnAlarm \/ EraseCanceled \/ Trigger \/ TriggerReturns \/ Finish

Next ==
  \/ \E c \in Contexts, ms \in Delays : NewTimer(c, ms)
  \/ \E id \in Contexts : CancelTimer(id)
  \/ AlarmStep
  \/ Tick \/ Fire

Spec == Init /\ [][Next]_vars

\* Time passes, the asio timer fires, and the io_service runs on_alarm.
FairSpec ==
  Spec /\ WF_vars(AlarmStep) /\ WF_vars(Tick) /\ WF_vars(Fire)

----------------------------------------------------------------------------

\* The events are in the order of their deadlines, as on_alarm takes for
\* granted when it stops at the first one that is not due.
Sorted ==
  \A i, j \in 1..Len(events_) : i < j => events_[i].deadline_ <= events_[j].deadline_

\* on_alarm triggers only timers that were made and not cancelled since, and
\* none before its time.
TriggersExpected ==
  [][pc = "loop" /\ pc' = "trigger" => due' \in expected /\ now >= events_[it].deadline_]_vars

\* A timer is triggered or cancelled in the end.
EventuallyTriggered == \A c \in Contexts : c \in expected ~> c \notin expected

=============================================================================
