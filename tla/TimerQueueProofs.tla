--------------------------- MODULE TimerQueueProofs ---------------------------
(* Theorems about TimerQueue, for any contexts, delays and bounds.          *)
EXTENDS TimerQueue, SequenceTheorems, WellFoundedInduction, TLAPS

----------------------------------------------------------------------------
(* Lemmas about the operators on sequences                                  *)

LEMMA FirstIsLeast ==
  ASSUME NEW S \in SUBSET Nat, S # {}
  PROVE  First(S) \in S /\ \A j \in S : First(S) <= j
<1>1. OpToRel(<, Nat) = {p \in Nat \X Nat : p[1] < p[2]}
  BY DEF OpToRel
<1>2. PICK m \in S : \A j \in S : ~ (<<j, m>> \in OpToRel(<, Nat))
  BY NatLessThanWellFounded, WFMin
<1>3. \A j \in S : m <= j
  <2> SUFFICES ASSUME NEW j \in S, j < m PROVE FALSE
    OBVIOUS
  <2>1. <<j, m>> \in OpToRel(<, Nat)
    BY <1>1
  <2> QED
    BY <1>2, <2>1
<1> QED
  BY <1>3 DEF First

LEMMA InsertAtProperties ==
  ASSUME NEW S, NEW s \in Seq(S), NEW i \in 1..(Len(s) + 1), NEW e \in S
  PROVE  /\ InsertAt(s, i, e) \in Seq(S)
         /\ Len(InsertAt(s, i, e)) = Len(s) + 1
         /\ \A k \in 1..(Len(s) + 1) :
              InsertAt(s, i, e)[k] = IF k < i THEN s[k] ELSE IF k = i THEN e ELSE s[k - 1]
<1> DEFINE a == SubSeq(s, 1, i - 1)
           b == SubSeq(s, i, Len(s))
<1>1. s \in Seq(S) /\ Len(s) \in Nat /\ \A k \in 1..Len(s) : s[k] \in S
  OBVIOUS
<1>2. a \in Seq(S) /\ Len(a) = i - 1 /\ \A k \in 1..(i - 1) : a[k] = s[k]
  BY <1>1, SubSeqProperties
<1>3. b \in Seq(S) /\ Len(b) = Len(s) - i + 1 /\ \A k \in 1..(Len(s) - i + 1) : b[k] = s[i + k - 1]
  BY <1>1, SubSeqProperties
<1>4. e \in S /\ <<e>> \in Seq(S) /\ Len(<<e>>) = 1 /\ <<e>>[1] = e
  OBVIOUS
<1> DEFINE c == a \o <<e>>
<1> HIDE DEF a, b
<1>5. /\ c \in Seq(S) /\ Len(c) = i
      /\ \A k \in 1..i : c[k] = IF k < i THEN s[k] ELSE e
  BY <1>1, <1>2, <1>4, ConcatProperties
<1> DEFINE r == c \o b
<1>6. InsertAt(s, i, e) = r
  BY DEF InsertAt, a, b
<1> HIDE DEF c
<1>7. /\ r \in Seq(S) /\ Len(r) = Len(c) + Len(b)
      /\ \A k \in 1..(Len(c) + Len(b)) : r[k] = IF k <= Len(c) THEN c[k] ELSE b[k - Len(c)]
  BY <1>3, <1>5, ConcatProperties
<1> HIDE DEF r
<1>8. Len(r) = Len(s) + 1
  BY <1>1, <1>3, <1>5, <1>7
<1>9. ASSUME NEW k \in 1..(Len(s) + 1)
      PROVE  r[k] = IF k < i THEN s[k] ELSE IF k = i THEN e ELSE s[k - 1]
  <2>1. CASE k <= i
    BY <1>1, <1>3, <1>5, <1>7, <2>1
  <2>2. CASE k > i
    <3>1. k - i \in 1..(Len(s) - i + 1) /\ i + (k - i) - 1 = k - 1
      BY <1>1, <2>2
    <3>2. b[k - i] = s[k - 1]
      BY <1>3, <3>1
    <3>3. r[k] = b[k - i]
      BY <1>1, <1>3, <1>5, <1>7, <2>2
    <3> QED
      BY <1>1, <2>2, <3>2, <3>3
  <2> QED
    BY <1>1, <2>1, <2>2
<1> QED
  BY <1>6, <1>7, <1>8, <1>9

LEMMA RemoveAtProperties ==
  ASSUME NEW S, NEW s \in Seq(S), NEW i \in 1..Len(s)
  PROVE  /\ RemoveAt(s, i) \in Seq(S)
         /\ Len(RemoveAt(s, i)) = Len(s) - 1
         /\ \A k \in 1..(Len(s) - 1) : RemoveAt(s, i)[k] = IF k < i THEN s[k] ELSE s[k + 1]
<1> DEFINE a == SubSeq(s, 1, i - 1)
           b == SubSeq(s, i + 1, Len(s))
<1>1. Len(s) \in Nat /\ \A k \in 1..Len(s) : s[k] \in S
  OBVIOUS
<1>2. a \in Seq(S) /\ Len(a) = i - 1 /\ \A k \in 1..(i - 1) : a[k] = s[k]
  BY <1>1, SubSeqProperties
<1>3. b \in Seq(S) /\ Len(b) = Len(s) - i /\ \A k \in 1..(Len(s) - i) : b[k] = s[i + k]
  BY <1>1, SubSeqProperties
<1> DEFINE r == a \o b
<1>4. RemoveAt(s, i) = r
  BY DEF RemoveAt
<1> HIDE DEF a, b
<1>5. /\ r \in Seq(S) /\ Len(r) = Len(a) + Len(b)
      /\ \A k \in 1..(Len(a) + Len(b)) : r[k] = IF k <= Len(a) THEN a[k] ELSE b[k - Len(a)]
  BY <1>2, <1>3, ConcatProperties
<1> HIDE DEF r
<1>6. /\ i \in Nat /\ Len(a) = i - 1 /\ Len(a) + Len(b) = Len(s) - 1
      /\ Len(r) = Len(s) - 1
  BY <1>1, <1>2, <1>3, <1>5
<1>7. \A k \in 1..(Len(s) - 1) : r[k] = IF k <= i - 1 THEN a[k] ELSE b[k - (i - 1)]
  BY <1>5, <1>6
<1>8. ASSUME NEW k \in 1..(Len(s) - 1)
      PROVE  r[k] = IF k < i THEN s[k] ELSE s[k + 1]
  <2>1. CASE k < i
    BY <1>2, <1>6, <1>7, <2>1
  <2>2. CASE k >= i
    <3>1. k - (i - 1) \in 1..(Len(s) - i) /\ i + (k - (i - 1)) = k + 1
      BY <1>1, <2>2
    <3>2. b[k - (i - 1)] = s[k + 1]
      BY <1>3, <3>1
    <3>3. r[k] = b[k - (i - 1)]
      BY <1>6, <1>7, <2>2
    <3> QED
      BY <1>1, <2>2, <3>2, <3>3
  <2> QED
    BY <1>1, <2>1, <2>2
<1> QED
  BY <1>4, <1>5, <1>6, <1>8

----------------------------------------------------------------------------
(* The invariant                                                            *)

Event == [contetx_ : Contexts, deadline_ : Nat, canceled_ : BOOLEAN]

TypeInv ==
  /\ events_ \in Seq(Event) /\ lock_ \in BOOLEAN
  /\ wait \in Int \cup {None} /\ fired \in Nat
  /\ pc \in {"idle", "loop", "trigger"} /\ it \in Nat \ {0}
  /\ now \in Nat /\ pt \in Nat /\ pt <= now
  /\ due \in Contexts \cup {None} /\ calls \in Nat /\ expected \in SUBSET Contexts

Live(i) == ~events_[i].canceled_

\* std::find takes any live timer for the one that new_timer is called with, so that
\* there is one at most.
OneLive == \A i, j \in 1..Len(events_) : Live(i) /\ Live(j) => i = j

LiveExpected == \A i \in 1..Len(events_) : Live(i) => events_[i].contetx_ \in expected

QueueInv == TypeInv /\ OneLive /\ LiveExpected /\ Sorted

LEMMA EventsTyped ==
  ASSUME TypeInv
  PROVE  /\ Len(events_) \in Nat
         /\ \A i \in 1..Len(events_) : /\ events_[i] \in Event /\ events_[i].contetx_ \in Contexts
                                       /\ events_[i].deadline_ \in Nat /\ events_[i].canceled_ \in BOOLEAN
<1>1. events_ \in Seq(Event)
  BY DEF TypeInv
<1>2. Len(events_) \in Nat /\ \A i \in 1..Len(events_) : events_[i] \in Event
  BY <1>1
<1>3. \A e \in Event : e.contetx_ \in Contexts /\ e.deadline_ \in Nat /\ e.canceled_ \in BOOLEAN
  BY DEF Event
<1> QED
  BY <1>2, <1>3

LEMMA InitQueue == Init => QueueInv
<1> SUFFICES ASSUME Init PROVE QueueInv
  OBVIOUS
<1>1. events_ \in Seq(Event) /\ Len(events_) = 0
  BY EmptySeq DEF Init
<1>2. TypeInv
  <2>3. lock_ \in BOOLEAN
    BY DEF Init
  <2>1. /\ wait \in Int \cup {None} /\ fired \in Nat /\ it \in Nat \ {0}
        /\ now \in Nat /\ pt \in Nat /\ pt <= now /\ calls \in Nat
    BY DEF Init
  <2>2. pc \in {"idle", "loop", "trigger"} /\ due \in Contexts \cup {None} /\ expected \in SUBSET Contexts
    BY DEF Init
  <2> QED
    BY <1>1, <2>1, <2>2, <2>3 DEF TypeInv
<1>3. 1..Len(events_) = {}
  BY <1>1
<1>4. OneLive /\ LiveExpected /\ Sorted
  BY <1>3 DEF OneLive, LiveExpected, Sorted
<1> QED
  BY <1>2, <1>4 DEF QueueInv

\* Where new_timer puts an event: behind those that are not later, before the others.
LEMMA PlaceOfEvent ==
  ASSUME TypeInv, Sorted, NEW d \in Nat
  PROVE  /\ UpperBound(d) \in 1..(Len(events_) + 1)
         /\ \A i \in 1..Len(events_) : events_[i].deadline_ \in Nat
         /\ \A i \in 1..Len(events_) : i < UpperBound(d) => events_[i].deadline_ <= d
         /\ \A i \in 1..Len(events_) : i >= UpperBound(d) => events_[i].deadline_ > d
<1> DEFINE later == {i \in 1..Len(events_) : events_[i].deadline_ > d}
           S == later \cup {Len(events_) + 1}
<1>1. Len(events_) \in Nat /\ \A i \in 1..Len(events_) : events_[i].deadline_ \in Nat
  BY EventsTyped
<1>2. S \in SUBSET Nat /\ S # {} /\ UpperBound(d) = First(S)
  BY <1>1 DEF UpperBound
<1> HIDE DEF S
<1>3. UpperBound(d) \in S /\ \A j \in S : UpperBound(d) <= j
  BY <1>2, FirstIsLeast
<1>4. UpperBound(d) \in 1..(Len(events_) + 1)
  BY <1>1, <1>3 DEF S
<1>5. ASSUME NEW i \in 1..Len(events_), i < UpperBound(d) PROVE events_[i].deadline_ <= d
  BY <1>1, <1>3, <1>4, <1>5 DEF S
<1>6. ASSUME NEW i \in 1..Len(events_), i >= UpperBound(d) PROVE events_[i].deadline_ > d
  <2>1. UpperBound(d) \in 1..Len(events_) /\ events_[UpperBound(d)].deadline_ > d
    BY <1>1, <1>3, <1>4, <1>6 DEF S
  <2>2. events_[UpperBound(d)].deadline_ <= events_[i].deadline_
    BY <1>1, <1>6, <2>1 DEF Sorted
  <2> QED
    BY <1>1, <2>1, <2>2
<1> QED
  BY <1>1, <1>4, <1>5, <1>6

LEMMA NewTimerKeeps ==
  ASSUME QueueInv, NEW c \in Contexts, NEW ms \in Delays, NewTimer(c, ms)
  PROVE  QueueInv'
<1> DEFINE d == now + Ticks(ms)
           p == UpperBound(d)
           e == [contetx_ |-> c, deadline_ |-> d, canceled_ |-> FALSE]
           n == Len(events_)
<1>1. events_ \in Seq(Event) /\ n \in Nat /\ d \in Nat /\ e \in Event
  BY TimerAssumption DEF QueueInv, TypeInv, Ticks, Event
<1>2. /\ p \in 1..(n + 1)
      /\ \A i \in 1..n : events_[i].deadline_ \in Nat
      /\ \A i \in 1..n : i < p => events_[i].deadline_ <= d
      /\ \A i \in 1..n : i >= p => events_[i].deadline_ > d
  BY <1>1, PlaceOfEvent DEF QueueInv
<1>3. events_' = InsertAt(events_, p, e)
  BY DEF NewTimer
<1>4. e.contetx_ = c /\ e.deadline_ = d /\ e.canceled_ = FALSE
  OBVIOUS
<1> HIDE DEF d, p, e
<1>5. /\ events_' \in Seq(Event) /\ Len(events_') = n + 1
      /\ \A k \in 1..(n + 1) :
           events_'[k] = IF k < p THEN events_[k] ELSE IF k = p THEN e ELSE events_[k - 1]
  <2>1. p \in 1..(Len(events_) + 1)
    BY <1>2
  <2> HIDE DEF n
  <2> DEFINE r == InsertAt(events_, p, e)
  <2>2. /\ r \in Seq(Event) /\ Len(r) = Len(events_) + 1
        /\ \A k \in 1..(Len(events_) + 1) :
             r[k] = IF k < p THEN events_[k] ELSE IF k = p THEN e ELSE events_[k - 1]
    BY ONLY <1>1, <2>1, InsertAtProperties
  <2>3. events_' = r
    BY <1>3
  <2> HIDE DEF r
  <2> QED
    BY <2>2, <2>3 DEF n
<1>6. \A i \in 1..n : events_[i].canceled_
  BY DEF NewTimer, Found
<1>7. \A k \in 1..(n + 1) : ~events_'[k].canceled_ => k = p
  <2> SUFFICES ASSUME NEW k \in 1..(n + 1), k # p PROVE events_'[k].canceled_
    OBVIOUS
  <2>1. CASE k < p
    BY <1>1, <1>2, <1>5, <1>6, <2>1
  <2>2. CASE k > p
    BY <1>1, <1>2, <1>5, <1>6, <2>2
  <2> QED
    BY <1>1, <1>2, <2>1, <2>2
<1>8. OneLive'
  BY <1>5, <1>7 DEF OneLive, Live
<1>9. events_'[p] = e
  <2>1. ~(p < p)
    BY <1>1, <1>2
  <2> QED
    BY <1>2, <1>5, <2>1
<1>13. expected' = expected \cup {c}
  BY DEF NewTimer
<1>10. LiveExpected'
  BY <1>4, <1>5, <1>7, <1>9, <1>13 DEF LiveExpected, Live
<1>11. Sorted'
  <2> SUFFICES ASSUME NEW i \in 1..(n + 1), NEW j \in 1..(n + 1), i < j
               PROVE  events_'[i].deadline_ <= events_'[j].deadline_
    BY <1>5 DEF Sorted
  <2>1. \A a, b \in 1..n : a < b => events_[a].deadline_ <= events_[b].deadline_
    BY DEF QueueInv, Sorted
  <2>2. CASE i < p /\ j < p
    BY <1>1, <1>2, <1>5, <2>1, <2>2
  <2>3. CASE i < p /\ j = p
    BY <1>1, <1>2, <1>4, <1>5, <1>9, <2>3
  <2>4. CASE i < p /\ j > p
    <3>1. events_'[i] = events_[i] /\ events_'[j] = events_[j - 1] /\ i \in 1..n /\ j - 1 \in 1..n /\ i < j - 1
      BY <1>1, <1>2, <1>5, <2>4
    <3> QED
      BY <2>1, <3>1
  <2>5. CASE i = p /\ j > p
    <3>1. events_'[i] = e /\ events_'[j] = events_[j - 1] /\ j - 1 \in 1..n /\ j - 1 >= p
      BY <1>1, <1>2, <1>5, <2>5
    <3> QED
      BY <1>1, <1>2, <1>4, <3>1
  <2>6. CASE i > p /\ j > p
    <3>1. /\ events_'[i] = events_[i - 1] /\ events_'[j] = events_[j - 1]
          /\ i - 1 \in 1..n /\ j - 1 \in 1..n /\ i - 1 < j - 1
      BY <1>1, <1>2, <1>5, <2>6
    <3> QED
      BY <2>1, <3>1
  <2> QED
    BY <1>1, <1>2, <2>2, <2>3, <2>4, <2>5, <2>6
<1>12. TypeInv'
  <2>1. Ticks(ms) \in Nat
    BY TimerAssumption DEF Ticks
  <2>2. wait' \in Int \cup {None}
    BY <2>1 DEF NewTimer, EnableAlarm, QueueInv, TypeInv
  <2>3. it' \in Nat \ {0}
    BY DEF NewTimer, QueueInv, TypeInv
  <2> QED
    BY <1>5, <2>2, <2>3 DEF NewTimer, QueueInv, TypeInv
<1> QED
  BY <1>8, <1>10, <1>11, <1>12 DEF QueueInv

\* An event is erased.
LEMMA RemovalKeeps ==
  ASSUME QueueInv, NEW i \in 1..Len(events_), events_' = RemoveAt(events_, i)
  PROVE  /\ events_' \in Seq(Event) /\ Len(events_') = Len(events_) - 1
         /\ OneLive' /\ Sorted'
         /\ \A k \in 1..Len(events_') : \E j \in 1..Len(events_) \ {i} : events_'[k] = events_[j]
<1> DEFINE n == Len(events_)
           Old(k) == IF k < i THEN k ELSE k + 1
<1>1. events_ \in Seq(Event) /\ n \in Nat /\ n # 0
  BY DEF QueueInv, TypeInv
<1>2. /\ events_' \in Seq(Event) /\ Len(events_') = n - 1
      /\ \A k \in 1..(n - 1) : events_'[k] = IF k < i THEN events_[k] ELSE events_[k + 1]
  BY <1>1, RemoveAtProperties
<1>3. \A k \in 1..(n - 1) : Old(k) \in 1..n \ {i} /\ events_'[k] = events_[Old(k)]
  BY <1>1, <1>2
<1>4. \A j, k \in 1..(n - 1) : j < k => Old(j) < Old(k)
  BY <1>1
<1>5. \A j, k \in 1..(n - 1) : Old(j) = Old(k) => j = k
  BY <1>1
<1> HIDE DEF Old
<1>6. Sorted'
  BY <1>2, <1>3, <1>4 DEF QueueInv, Sorted
<1>7. OneLive'
  <2> SUFFICES ASSUME NEW j \in 1..(n - 1), NEW k \in 1..(n - 1),
                      ~events_'[j].canceled_, ~events_'[k].canceled_
               PROVE  j = k
    BY <1>2 DEF OneLive, Live
  <2>1. Old(j) \in 1..n /\ Old(k) \in 1..n /\ Live(Old(j)) /\ Live(Old(k))
    BY <1>3 DEF Live
  <2> QED
    BY <1>5, <2>1 DEF QueueInv, OneLive
<1> QED
  BY <1>2, <1>3, <1>6, <1>7

LEMMA CancelTimerKeeps ==
  ASSUME QueueInv, NEW id \in Contexts, CancelTimer(id)
  PROVE  QueueInv'
<1> DEFINE i == First(Found)
<1>1. Found \in SUBSET Nat /\ Found # {}
  BY DEF CancelTimer, Found, QueueInv, TypeInv
<1>2. i \in Found
  BY <1>1, FirstIsLeast
<1>3. i \in 1..Len(events_) /\ Live(i)
  BY <1>2 DEF Found, Live
<1>4. /\ events_' = IF lock_ THEN [events_ EXCEPT ![i].canceled_ = TRUE] ELSE RemoveAt(events_, i)
      /\ expected' = expected \ {events_[i].contetx_}
      /\ UNCHANGED <<lock_, wait, fired, pc, it, pt, due, now, calls>>
  BY DEF CancelTimer, alarmVars
<1> HIDE DEF i
<1>5. \A j \in 1..Len(events_) : Live(j) => j = i
  BY <1>3 DEF QueueInv, OneLive
<1>6. CASE lock_
  <2>1. events_' = [events_ EXCEPT ![i] = [events_[i] EXCEPT !.canceled_ = TRUE]]
    BY <1>4, <1>6
  <2>2. [events_[i] EXCEPT !.canceled_ = TRUE] \in Event /\ events_ \in Seq(Event)
    <3>1. events_[i] \in Event
      BY <1>3, EventsTyped DEF QueueInv
    <3> QED
      BY <3>1 DEF QueueInv, TypeInv, Event
  <2>3. /\ events_' \in Seq(Event) /\ Len(events_') = Len(events_)
        /\ \A j \in 1..Len(events_) :
             events_'[j] = IF j = i THEN [events_[i] EXCEPT !.canceled_ = TRUE] ELSE events_[j]
    BY <1>3, <2>1, <2>2, ExceptSeq
  <2>4. \A j \in 1..Len(events_) : events_'[j].deadline_ = events_[j].deadline_ /\ events_'[j].canceled_
    BY <1>5, <2>2, <2>3 DEF Live, Event
  <2>5. Sorted' /\ OneLive' /\ LiveExpected'
    BY <2>3, <2>4 DEF QueueInv, Sorted, OneLive, LiveExpected, Live
  <2> QED
    BY <1>4, <2>3, <2>5 DEF QueueInv, TypeInv
<1>7. CASE ~lock_
  <2>1. /\ events_' \in Seq(Event) /\ OneLive' /\ Sorted'
        /\ \A k \in 1..Len(events_') : \E j \in 1..Len(events_) \ {i} : events_'[k] = events_[j]
    BY <1>3, <1>4, <1>7, RemovalKeeps
  <2>2. LiveExpected'
    BY <1>5, <2>1 DEF LiveExpected, Live
  <2> QED
    BY <1>4, <2>1, <2>2 DEF QueueInv, TypeInv
<1> QED
  BY <1>6, <1>7

LEMMA EraseKeeps ==
  ASSUME QueueInv, EraseCanceled
  PROVE  QueueInv'
<1>1. /\ it \in 1..Len(events_) /\ events_[it].canceled_ /\ events_' = RemoveAt(events_, it)
      /\ UNCHANGED <<lock_, wait, fired, pc, it, pt, due, now, calls, expected>>
  BY DEF EraseCanceled, AtEvent, Canceled, alarmVars, QueueInv, TypeInv
<1>2. /\ events_' \in Seq(Event) /\ OneLive' /\ Sorted'
      /\ \A k \in 1..Len(events_') : \E j \in 1..Len(events_) \ {it} : events_'[k] = events_[j]
  BY <1>1, RemovalKeeps
<1>3. LiveExpected'
  BY <1>1, <1>2 DEF QueueInv, LiveExpected, Live
<1> QED
  BY <1>1, <1>2, <1>3 DEF QueueInv, TypeInv

LEMMA TriggerKeeps ==
  ASSUME QueueInv, Trigger
  PROVE  QueueInv'
<1>1. /\ it \in 1..Len(events_) /\ Live(it) /\ events_' = RemoveAt(events_, it)
      /\ due' = events_[it].contetx_ /\ pc' = "trigger" /\ expected' = expected \ {events_[it].contetx_}
      /\ UNCHANGED <<lock_, wait, fired, it, pt, now, calls>>
  BY DEF Trigger, AtEvent, Canceled, Live, QueueInv, TypeInv
<1>2. /\ events_' \in Seq(Event) /\ OneLive' /\ Sorted'
      /\ \A k \in 1..Len(events_') : \E j \in 1..Len(events_) \ {it} : events_'[k] = events_[j]
  BY <1>1, RemovalKeeps
<1>3. \A j \in 1..Len(events_) : Live(j) => j = it
  BY <1>1 DEF QueueInv, OneLive
<1>4. LiveExpected'
  BY <1>2, <1>3 DEF LiveExpected, Live
<1>5. due' \in Contexts
  BY <1>1, EventsTyped DEF QueueInv
<1> QED
  BY <1>1, <1>2, <1>4, <1>5 DEF QueueInv, TypeInv

\* Steps that leave the events alone.
LEMMA OthersKeep ==
  ASSUME QueueInv, OnAlarm \/ TriggerReturns \/ Finish \/ Tick \/ Fire \/ UNCHANGED vars
  PROVE  QueueInv'
<1>1. events_' = events_ /\ expected' = expected
  BY DEF OnAlarm, TriggerReturns, Finish, Tick, Fire, vars
<1>2. Sorted' /\ OneLive' /\ LiveExpected'
  BY <1>1 DEF QueueInv, Sorted, OneLive, LiveExpected, Live
<1>3. ASSUME Finish PROVE TypeInv'
  <2>1. wait' \in Int \cup {None}
    <3>1. CASE events_ = << >>
      BY <1>3, <3>1 DEF Finish, NextAlarm, QueueInv, TypeInv
    <3>2. CASE events_ # << >>
      <4>1. 1 \in 1..Len(events_) /\ Head(events_) = events_[1]
        BY <3>2 DEF QueueInv, TypeInv
      <4>2. Head(events_).deadline_ \in Nat
        BY <4>1, EventsTyped DEF QueueInv
      <4>3. WholeMs(Head(events_).deadline_ - pt) \in Int
        BY <4>2 DEF WholeMs, Ticks, QueueInv, TypeInv
      <4>4. wait' = now + WholeMs(Head(events_).deadline_ - pt)
        BY <1>3, <3>2 DEF Finish, NextAlarm, EnableAlarm
      <4> QED
        BY <4>3, <4>4 DEF QueueInv, TypeInv
    <3> QED
      BY <3>1, <3>2
  <2>2. lock_' = FALSE /\ pc' = "idle" /\ it' = 1 /\ UNCHANGED <<events_, fired, pt, due, now, calls, expected>>
    BY <1>3 DEF Finish, Unlock
  <2>3. lock_' \in BOOLEAN
    BY <2>2
  <2>4. pc' \in {"idle", "loop", "trigger"} /\ it' \in Nat \ {0}
    BY <2>2
  <2> QED
    BY <2>1, <2>2, <2>3, <2>4 DEF QueueInv, TypeInv
<1>4. ASSUME OnAlarm PROVE TypeInv'
  BY <1>4 DEF OnAlarm, QueueInv, TypeInv
<1>5. ASSUME TriggerReturns PROVE TypeInv'
  BY <1>5 DEF TriggerReturns, QueueInv, TypeInv
<1>6. ASSUME Tick PROVE TypeInv'
  BY <1>6 DEF Tick, alarmVars, QueueInv, TypeInv
<1>7. ASSUME Fire PROVE TypeInv'
  BY <1>7 DEF Fire, alarmVars, QueueInv, TypeInv
<1>8. ASSUME UNCHANGED vars PROVE TypeInv'
  BY <1>8 DEF vars, alarmVars, QueueInv, TypeInv
<1> QED
  BY <1>2, <1>3, <1>4, <1>5, <1>6, <1>7, <1>8 DEF QueueInv

LEMMA QueueInvariance == Spec => []QueueInv
<1>1. QueueInv /\ [Next]_vars => QueueInv'
  BY NewTimerKeeps, CancelTimerKeeps, EraseKeeps, TriggerKeeps, OthersKeep DEF Next, AlarmStep
<1> QED
  BY <1>1, InitQueue, PTL DEF Spec

----------------------------------------------------------------------------

\* For any timers made and cancelled at any time, also by the triggers, the events
\* stay in the order of their deadlines, which lets on_alarm stop at the first that
\* is not due and the one asio timer wait for the head.
THEOREM SortedCorrect == Spec => []Sorted
<1>1. QueueInv => Sorted
  BY DEF QueueInv
<1> QED
  BY <1>1, QueueInvariance, PTL

\* on_alarm triggers no timer that was cancelled, none twice and none before its
\* time, whatever its triggers do to the list it is going through.
THEOREM TriggersCorrect == Spec => TriggersExpected
<1> DEFINE Act == pc = "loop" /\ pc' = "trigger" => due' \in expected /\ now >= events_[it].deadline_
<1>1. QueueInv /\ [Next]_vars => [Act]_vars
  <2> SUFFICES ASSUME QueueInv, [Next]_vars, pc = "loop", pc' = "trigger"
               PROVE  due' \in expected /\ now >= events_[it].deadline_
    OBVIOUS
  <2>1. Trigger
    BY DEF Next, AlarmStep, NewTimer, CancelTimer, MayCall, OnAlarm, EraseCanceled, TriggerReturns, Finish,
           Tick, Fire, vars, alarmVars
  <2>2. /\ it \in 1..Len(events_) /\ Live(it) /\ due' = events_[it].contetx_
        /\ events_[it].deadline_ <= pt /\ pt <= now
    BY <2>1 DEF Trigger, AtEvent, Canceled, Live, QueueInv, TypeInv
  <2>3. events_[it].deadline_ \in Nat /\ pt \in Nat /\ now \in Nat
    BY <2>2, EventsTyped DEF QueueInv, TypeInv
  <2> QED
    BY <2>2, <2>3 DEF QueueInv, LiveExpected
<1> QED
  BY <1>1, QueueInvariance, PTL DEF Spec, TriggersExpected

----------------------------------------------------------------------------
(* The alarm and the iterator of on_alarm                                   *)

\* lock_ is set exactly while on_alarm runs, and its iterator stays on an event or at the end.
IteratorInv ==
  /\ lock_ <=> pc # "idle"
  /\ pc = "idle" => it = 1
  /\ it <= Len(events_) + 1

\* While there are events on_alarm is at work, about to run, or awaited.
AlarmPending == events_ # << >> => wait # None \/ fired > 0 \/ pc # "idle"

AlarmInv == QueueInv /\ IteratorInv /\ AlarmPending

LEMMA AlarmInvariance == Spec => []AlarmInv
<1>1. Init => IteratorInv /\ AlarmPending
  BY EmptySeq DEF Init, IteratorInv, AlarmPending
<1>2. AlarmInv /\ QueueInv' /\ [Next]_vars => IteratorInv' /\ AlarmPending'
  <2> SUFFICES ASSUME AlarmInv, QueueInv', [Next]_vars
               PROVE  IteratorInv' /\ AlarmPending'
    OBVIOUS
  <2> DEFINE n == Len(events_)
  <2>1. /\ n \in Nat /\ events_ \in Seq(Event) /\ events_' \in Seq(Event) /\ Len(events_') \in Nat
        /\ it \in Nat \ {0} /\ now \in Nat /\ fired \in Nat
        /\ (events_ = << >> <=> n = 0) /\ (events_' = << >> <=> Len(events_') = 0)
    BY EmptySeq DEF AlarmInv, QueueInv, TypeInv
  <2>2. /\ lock_ <=> pc # "idle"
        /\ pc = "idle" => it = 1
        /\ it <= n + 1
        /\ n # 0 => wait # None \/ fired > 0 \/ pc # "idle"
    BY <2>1 DEF AlarmInv, IteratorInv, AlarmPending
  <2>3. ASSUME NEW c \in Contexts, NEW ms \in Delays, NewTimer(c, ms) PROVE IteratorInv' /\ AlarmPending'
    <3> DEFINE d == now + Ticks(ms)
               p == UpperBound(d)
    <3>1. d \in Nat /\ Ticks(ms) \in Nat
      BY <2>1, TimerAssumption DEF Ticks
    <3>2. p \in 1..(n + 1)
      BY <3>1, PlaceOfEvent DEF AlarmInv, QueueInv
    <3>3. [contetx_ |-> c, deadline_ |-> d, canceled_ |-> FALSE] \in Event
      BY <3>1 DEF Event
    <3> HIDE DEF d
    <3>4. Len(events_') = n + 1
      BY <2>1, <2>3, <3>2, <3>3, InsertAtProperties DEF NewTimer, d
    <3>5. /\ it' = IF pc # "idle" /\ p <= it THEN it + 1 ELSE it
          /\ lock_' = lock_ /\ pc' = pc /\ fired' = fired
      BY <2>3 DEF NewTimer, d
    <3>6. events_ = << >> => wait' = now + Ticks(ms)
      BY <2>3 DEF NewTimer, EnableAlarm
    <3>7. events_ # << >> => wait' = wait \/ wait' = now + Ticks(ms)
      BY <2>3 DEF NewTimer, EnableAlarm
    <3>8. now + Ticks(ms) # None
      BY <2>1, <3>1, TimerAssumption
    <3> HIDE DEF p
    <3>9. IteratorInv'
      BY <2>1, <2>2, <3>2, <3>4, <3>5 DEF IteratorInv
    <3>10. AlarmPending'
      BY <2>1, <2>2, <3>5, <3>6, <3>7, <3>8 DEF AlarmPending
    <3> QED
      BY <3>9, <3>10
  <2>4. ASSUME NEW id \in Contexts, CancelTimer(id) PROVE IteratorInv' /\ AlarmPending'
    <3>1. Found \in SUBSET Nat /\ Found # {}
      BY <2>1, <2>4 DEF CancelTimer, Found
    <3>2. First(Found) \in 1..n
      BY <3>1, FirstIsLeast DEF Found
    <3>3. /\ events_' = IF lock_ THEN [events_ EXCEPT ![First(Found)].canceled_ = TRUE]
                                  ELSE RemoveAt(events_, First(Found))
          /\ lock_' = lock_ /\ pc' = pc /\ fired' = fired /\ it' = it /\ wait' = wait
      BY <2>4 DEF CancelTimer, alarmVars
    <3>4. CASE lock_
      <4>1. DOMAIN events_' = DOMAIN events_
        BY <3>3, <3>4
      <4>2. Len(events_') = n
        BY <2>1, <4>1
      <4> QED
        BY <2>1, <2>2, <3>3, <4>2 DEF IteratorInv, AlarmPending
    <3>5. CASE ~lock_
      <4>1. Len(events_') = n - 1
        BY <2>1, <3>2, <3>3, <3>5, RemoveAtProperties
      <4> QED
        BY <2>1, <2>2, <3>2, <3>3, <3>5, <4>1 DEF IteratorInv, AlarmPending
    <3> QED
      BY <3>4, <3>5
  <2>5. ASSUME EraseCanceled \/ Trigger PROVE IteratorInv' /\ AlarmPending'
    <3>1. /\ it \in 1..n /\ events_' = RemoveAt(events_, it) /\ pc = "loop" /\ pc' # "idle"
          /\ lock_' = lock_ /\ it' = it
      BY <2>1, <2>5 DEF EraseCanceled, Trigger, AtEvent, alarmVars
    <3>2. Len(events_') = n - 1
      BY <2>1, <3>1, RemoveAtProperties
    <3> QED
      BY <2>1, <2>2, <3>1, <3>2 DEF IteratorInv, AlarmPending
  <2>6. ASSUME OnAlarm \/ TriggerReturns \/ Tick \/ UNCHANGED vars PROVE IteratorInv' /\ AlarmPending'
    BY <2>1, <2>2, <2>6 DEF OnAlarm, TriggerReturns, Tick, vars, alarmVars, IteratorInv, AlarmPending
  <2>7. ASSUME Finish PROVE IteratorInv' /\ AlarmPending'
    <3>1. lock_' = FALSE /\ pc' = "idle" /\ it' = 1 /\ events_' = events_
      BY <2>7 DEF Finish, Unlock
    <3>2. ASSUME events_ # << >> PROVE wait' # None
      <4>1. 1 \in 1..n /\ Head(events_) = events_[1]
        BY <2>1, <3>2
      <4>2. Head(events_).deadline_ \in Nat /\ pt \in Nat
        BY <4>1, EventsTyped DEF AlarmInv, QueueInv, TypeInv
      <4>4. WholeMs(Head(events_).deadline_ - pt) \in Int
        BY <4>2 DEF WholeMs, Ticks
      <4>3. wait' = now + WholeMs(Head(events_).deadline_ - pt)
        BY <2>7, <3>2 DEF Finish, NextAlarm, EnableAlarm
      <4> QED
        BY <2>1, <4>3, <4>4, TimerAssumption
    <3> QED
      BY <2>1, <3>1, <3>2 DEF IteratorInv, AlarmPending
  <2>8. ASSUME Fire PROVE IteratorInv' /\ AlarmPending'
    BY <2>1, <2>2, <2>8 DEF Fire, alarmVars, IteratorInv, AlarmPending
  <2> QED
    BY <2>3, <2>4, <2>5, <2>6, <2>7, <2>8 DEF Next, AlarmStep
<1>3. QueueInv /\ IteratorInv /\ AlarmPending <=> AlarmInv
  BY DEF AlarmInv
<1> QED
  BY <1>1, <1>2, <1>3, QueueInvariance, PTL DEF Spec

\* on_alarm uses its iterator only while it is on an event or at the end of the list,
\* although its triggers insert and cancel timers.
THEOREM IteratorCorrect == Spec => []IteratorInv
<1>1. AlarmInv => IteratorInv
  BY DEF AlarmInv
<1> QED
  BY <1>1, AlarmInvariance, PTL

\* No timer is stranded: while the list has events the asio timer is armed, on_alarm is
\* queued or it is running, whatever new_timer, cancel_timer and the triggers did.
THEOREM NoTimerStranded == Spec => []AlarmPending
<1>1. AlarmInv => AlarmPending
  BY DEF AlarmInv
<1> QED
  BY <1>1, AlarmInvariance, PTL

=============================================================================
