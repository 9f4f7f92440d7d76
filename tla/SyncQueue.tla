------------------------------ MODULE SyncQueue ------------------------------
(***************************************************************************)
(* wheel::synchronization::sync_queue (sync_queue.hpp): producers in put,  *)
(* consumers in take(T&) or take(std::list<T>&), and stop.                 *)
(*                                                                         *)
(* A call holds mutex_ from the moment it has it until it waits or         *)
(* returns, so that stretch is one step; a wait gives mutex_ up, and its   *)
(* predicate is tested again each time the thread has been woken.  stop    *)
(* sets need_stop_ under mutex_ and notifies after it gave mutex_ up.      *)
(* An item is known by who put it, and when.                               *)
(* An operator marked "Fault" is a wrong version of the one below it.      *)
(***************************************************************************)
EXTENDS Naturals, Sequences, FiniteSets

CONSTANTS Producers, Consumers,
          BatchConsumers,   \* those that call take(std::list<T>&)
          max_size_,
          MaxPuts           \* bound on the puts of each producer

ASSUME QueueAssumption ==
  /\ Producers \cap Consumers = {}
  /\ BatchConsumers \subseteq Consumers
  /\ IsFiniteSet(Producers) /\ IsFiniteSet(Consumers)
  /\ max_size_ \in Nat \ {0} /\ MaxPuts \in Nat

VARIABLES
  queue_, need_stop_,
  not_full_, not_empty_,  \* the threads waiting on each condition variable
  pc,                     \* "idle", "called" (to have mutex_), or "waiting"
  stopping,               \* how far stop is
  puts,                   \* the puts each producer began
  taken                   \* the items that takes returned, in order

queueVars == <<queue_, need_stop_, not_full_, not_empty_, pc, stopping, puts, taken>>

Threads == Producers \cup Consumers
PutItems == Producers \X (1..MaxPuts)

QueueInit ==
  /\ queue_ = << >> /\ need_stop_ = FALSE
  /\ not_full_ = {} /\ not_empty_ = {}
  /\ pc = [t \in Threads |-> "idle"]
  /\ stopping = "no"
  /\ puts = [p \in Producers |-> 0]
  /\ taken = << >>

\* condition_variable::notify_one: what the set of waiters may be afterwards
NotifyOne(waiters) ==
  IF waiters = {} THEN {{}} ELSE {waiters \ {w} : w \in waiters}

\* Fault: nobody is notified.
NotifyNone(waiters) == {waiters}

NotifyNotEmpty(waiters) == NotifyOne(waiters)
NotifyNotFull(waiters) == NotifyOne(waiters)

Room == Len(queue_) < max_size_

\* The threads that have been woken: they ask for mutex_ again.
Woken(t) == t \notin not_full_ \cup not_empty_

Running(t) ==
  \/ pc[t] = "called"
  \/ pc[t] = "waiting" /\ Woken(t)

CallPut(p) ==
  /\ pc[p] = "idle" /\ puts[p] < MaxPuts
  /\ pc' = [pc EXCEPT ![p] = "called"]
  /\ puts' = [puts EXCEPT ![p] = @ + 1]
  /\ UNCHANGED <<queue_, need_stop_, not_full_, not_empty_, stopping, taken>>

CallTake(c) ==
  /\ pc[c] = "idle"
  /\ pc' = [pc EXCEPT ![c] = "called"]
  /\ UNCHANGED <<queue_, need_stop_, not_full_, not_empty_, stopping, puts, taken>>

\* Either call returns without an item once the queue is stopped.
ReturnStopped(t) ==
  /\ Running(t) /\ need_stop_
  /\ pc' = [pc EXCEPT ![t] = "idle"]
  /\ UNCHANGED <<queue_, need_stop_, not_full_, not_empty_, stopping, puts, taken>>

\* Fault: the newest item goes first.
PushedFront(x) == << x >> \o queue_

Pushed(x) == Append(queue_, x)

\* add
Add(p) ==
  /\ Running(p) /\ ~need_stop_ /\ Room
  /\ queue_' = Pushed(<<p, puts[p]>>)
  /\ not_empty_' \in NotifyNotEmpty(not_empty_)
  /\ pc' = [pc EXCEPT ![p] = "idle"]
  /\ UNCHANGED <<need_stop_, not_full_, stopping, puts, taken>>

SleepNotFull(p) == not_full_' = not_full_ \cup {p} /\ UNCHANGED not_empty_

WaitNotFull(p) ==
  /\ Running(p) /\ ~need_stop_ /\ ~Room
  /\ SleepNotFull(p)
  /\ pc' = [pc EXCEPT ![p] = "waiting"]
  /\ UNCHANGED <<queue_, need_stop_, stopping, puts, taken>>

\* What a take leaves in the queue and hands to its caller.
Batch(c) == IF c \in BatchConsumers THEN Len(queue_) ELSE 1

Take(c) ==
  /\ Running(c) /\ ~need_stop_ /\ queue_ # << >>
  /\ taken' = taken \o SubSeq(queue_, 1, Batch(c))
  /\ queue_' = SubSeq(queue_, Batch(c) + 1, Len(queue_))
  /\ not_full_' \in NotifyNotFull(not_full_)
  /\ pc' = [pc EXCEPT ![c] = "idle"]
  /\ UNCHANGED <<need_stop_, not_empty_, stopping, puts>>

WaitNotEmpty(c) ==
  /\ Running(c) /\ ~need_stop_ /\ queue_ = << >>
  /\ not_empty_' = not_empty_ \cup {c}
  /\ pc' = [pc EXCEPT ![c] = "waiting"]
  /\ UNCHANGED <<queue_, need_stop_, not_full_, stopping, puts, taken>>

\* A condition variable may wake a thread for no reason.
SpuriousWake(t) ==
  /\ ~Woken(t)
  /\ not_full_' = not_full_ \ {t} /\ not_empty_' = not_empty_ \ {t}
  /\ UNCHANGED <<queue_, need_stop_, pc, stopping, puts, taken>>

\* stop
SetStop ==
  /\ stopping = "no"
  /\ need_stop_' = TRUE /\ stopping' = "set"
  /\ UNCHANGED <<queue_, not_full_, not_empty_, pc, puts, taken>>

\* Fault: one of the waiting producers is notified.
StopNotifiesOne == not_full_' \in NotifyOne(not_full_)

StopNotifies == not_full_' = {}

NotifyAllNotFull ==
  /\ stopping = "set"
  /\ StopNotifies /\ stopping' = "half"
  /\ UNCHANGED <<queue_, need_stop_, not_empty_, pc, puts, taken>>

NotifyAllNotEmpty ==
  /\ stopping = "half"
  /\ not_empty_' = {} /\ stopping' = "done"
  /\ UNCHANGED <<queue_, need_stop_, not_full_, pc, puts, taken>>

ProducerStep(p) == Add(p) \/ WaitNotFull(p) \/ ReturnStopped(p)
ConsumerStep(c) == Take(c) \/ WaitNotEmpty(c) \/ ReturnStopped(c)
StopStep == NotifyAllNotFull \/ NotifyAllNotEmpty

QueueNext ==
  \/ \E p \in Producers : CallPut(p) \/ ProducerStep(p)
  \/ \E c \in Consumers : CallTake(c) \/ ConsumerStep(c)
  \/ \E t \in Threads : SpuriousWake(t)
  \/ SetStop \/ StopStep

QueueSpec == QueueInit /\ [][QueueNext]_queueVars

\* A thread that can have mutex_ again and again gets it, consumers come back
\* for more, and a stop that began goes on; no spurious wake-up is relied on.
Fairness ==
  /\ \A p \in Producers : SF_queueVars(ProducerStep(p))
  /\ \A c \in Consumers : SF_queueVars(ConsumerStep(c)) /\ WF_queueVars(CallTake(c))
  /\ WF_queueVars(StopStep)

FairSpec == QueueSpec /\ Fairness

----------------------------------------------------------------------------

\* The variables have their types.
TypeOK ==
  /\ queue_ \in Seq(PutItems) /\ taken \in Seq(PutItems)
  /\ need_stop_ \in BOOLEAN
  /\ not_full_ \subseteq Producers /\ not_empty_ \subseteq Consumers
  /\ pc \in [Threads -> {"idle", "called", "waiting"}]
  /\ stopping \in {"no", "set", "half", "done"}
  /\ puts \in [Producers -> 0..MaxPuts]

\* The queue is a bounded first-in first-out queue, stop included.
Fifo == INSTANCE BoundedFifo WITH Items <- PutItems, queue <- queue_, Capacity <- max_size_,
                                  stopped <- need_stop_
FifoSpec == Fifo!Spec

Awake(S) == {t \in S : pc[t] = "waiting" /\ Woken(t)}

\* No wake-up of a consumer is lost: while one sleeps, as many consumers have
\* been woken as there are items.
NoConsumerForgotten ==
  need_stop_ \/ not_empty_ = {} \/ Len(queue_) <= Cardinality(Awake(Consumers))

\* No wake-up of a producer is lost, as long as each take is of one item: while
\* one sleeps, as many producers have been woken as there are free places.
NoProducerForgotten ==
  need_stop_ \/ not_full_ = {}
    \/ max_size_ - Len(queue_) <= Cardinality(Awake(Producers))

\* With batch takes too, which free many places and notify one producer, the
\* producers do not all sleep in front of an empty queue.
NoProducerStuck ==
  need_stop_ \/ not_full_ = {} \/ queue_ # << >> \/ Awake(Producers) # {}

\* stop releases every thread that waits.
StopReleases == need_stop_ ~> \A t \in Threads : pc[t] # "waiting"

=============================================================================
