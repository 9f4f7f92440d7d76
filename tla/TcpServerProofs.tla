--------------------------- MODULE TcpServerProofs ---------------------------
(* Theorems about TcpServer, for any threads, handles and pool size.        *)
EXTENDS TcpServer, FiniteSetTheorems, TLAPS

----------------------------------------------------------------------------
(* Types                                                                    *)

Completions == {Completion(kind, h) : kind \in Kinds, h \in Handles}

TypeInv ==
  /\ connects_ \subseteq Handles /\ accepting \subseteq Handles
  /\ reading \subseteq Handles /\ sending \subseteq Handles
  /\ sock \in [Handles -> {"none", "connected", "broken", "closed"}]
  /\ connect_status_ \in [Handles -> {"disconnect", "connectinged"}]
  /\ ready \subseteq Completions
  /\ lock_ \in Threads \cup {NoThread} /\ strand \in Threads \cup {NoThread}
  /\ pc \in [Threads -> Labels]
  /\ cur \in [Threads -> Handles \cup {NoHandle}]
  /\ failures \in 0..MaxFailures
  /\ ub \in {"none", "read", "write", "search"}

LEMMA CompletionsDiffer ==
  /\ \A k1, k2, h1, h2 : Completion(k1, h1) = Completion(k2, h2) <=> k1 = k2 /\ h1 = h2
  /\ \A k \in Kinds, h \in Handles : Completion(k, h) \in Completions
BY DEF Completion, Completions

\* Where a thread is in a handler that runs on the strand, and where it is in an
\* accept handler whose handle has no read yet.
ReadLabels == {"r_observe", "r_read", "r_error", "r_lock", "r_erase"}
EnterLabels == AcceptLabels \ {"a_next"}

\* A thread is about a handle while it is in a handler, and the strand is its while
\* that is a read handler.
PlaceInv ==
  \A t \in Threads :
    /\ pc[t] = "idle" <=> cur[t] = NoHandle
    /\ pc[t] \in ReadLabels <=> strand = t

LEMMA InitPlace == Init => TypeInv /\ PlaceInv
BY ServerAssumption DEF Init, TypeInv, PlaceInv, Labels, ReadLabels

LEMMA StepPlace ==
  ASSUME TypeInv, PlaceInv, [Next]_vars
  PROVE  TypeInv' /\ PlaceInv'
<1> USE ServerAssumption, CompletionsDiffer
    DEF TypeInv, PlaceInv, handleVars, Goto, Return, Undefined, Changes, Labels, Holding,
        AcceptLabels, ReadLabels, Kinds
<1>1. ASSUME NEW t \in Threads, NEW h \in Handles, RunAccept(t, h) PROVE TypeInv' /\ PlaceInv'
  BY <1>1 DEF RunAccept
<1>2. ASSUME NEW t \in Threads, NEW h \in Handles, RunRead(t, h) PROVE TypeInv' /\ PlaceInv'
  BY <1>2 DEF RunRead
<1>3. ASSUME NEW t \in Threads, NEW h \in Handles, RunWrite(t, h) PROVE TypeInv' /\ PlaceInv'
  BY <1>3 DEF RunWrite
<1>4. ASSUME NEW t \in Threads, Find(t) \/ Found(t) \/ FirstRead(t) PROVE TypeInv' /\ PlaceInv'
  BY <1>4 DEF Find, Found, FirstRead
<1>5. ASSUME NEW t \in Threads, SpinLock(t, "a_lock", "a_emplace") \/ SpinLock(t, "r_lock", "r_erase")
      PROVE TypeInv' /\ PlaceInv'
  BY <1>5 DEF SpinLock
<1>6. ASSUME NEW t \in Threads, Emplace(t) PROVE TypeInv' /\ PlaceInv'
  BY <1>6 DEF Emplace, WithEntry
<1>7. ASSUME NEW t \in Threads, MakeSession(t) PROVE TypeInv' /\ PlaceInv'
  BY <1>7 DEF MakeSession, NextAccept
<1>8. ASSUME NEW t \in Threads, Observe(t) PROVE TypeInv' /\ PlaceInv'
  BY <1>8 DEF Observe, Aborted
<1>9. ASSUME NEW t \in Threads, ReadAgain(t) PROVE TypeInv' /\ PlaceInv'
  BY <1>9 DEF ReadAgain, FailedRead
<1>10. ASSUME NEW t \in Threads, ReadError(t) PROVE TypeInv' /\ PlaceInv'
  BY <1>10, SMTT(60) DEF ReadError, Aborted
<1>11. ASSUME NEW t \in Threads, Erase(t) PROVE TypeInv' /\ PlaceInv'
  BY <1>11 DEF Erase, WithoutEntry
<1>12. ASSUME NEW h \in Handles, RunRefused(h) \/ PeerConnects(h) PROVE TypeInv' /\ PlaceInv'
  BY <1>12 DEF RunRefused, PeerConnects
<1>13. ASSUME NEW h \in Handles, AcceptFails(h) PROVE TypeInv' /\ PlaceInv'
  BY <1>13 DEF AcceptFails
<1>14. ASSUME NEW h \in Handles, PeerCloses(h) \/ KernelRead(h) \/ KernelSent(h) PROVE TypeInv' /\ PlaceInv'
  BY <1>14 DEF PeerCloses, KernelRead, KernelSent
<1>15. CASE UNCHANGED vars
  BY <1>15 DEF vars
<1> QED
  BY <1>1, <1>2, <1>3, <1>4, <1>5, <1>6, <1>7, <1>8, <1>9, <1>10, <1>11, <1>12, <1>13, <1>14, <1>15
     DEF Next, ThreadStep

\* For any number of threads the variables of the server have their types, a thread
\* is about a handle exactly while it is in a handler, and one at most is in a read
\* handler.
THEOREM TypeCorrect == Spec => [](TypeInv /\ PlaceInv)
BY InitPlace, StepPlace, PTL DEF Spec

----------------------------------------------------------------------------
(* The life of a handle                                                     *)

Done(kind, h) == Completion(kind, h) \in ready
Entering(t, h) == cur[t] = h /\ pc[t] \in EnterLabels
Handling(t, h) == cur[t] = h /\ pc[t] \in ReadLabels

HasEntering(h) == \E t \in Threads : Entering(t, h)
IsHandled(h) == \E t \in Threads : Handling(t, h)

\* A handle whose first read is still to be made, and one that has a read or the
\* handler of one.
New(h) == h \in accepting \/ Done("accepted", h) \/ Done("refused", h) \/ HasEntering(h)
Served(h) == HasRead(h) \/ IsHandled(h)

\* A handle is at one stage of its life at a time.
OneStage ==
  \A h \in Handles :
    /\ h \in accepting => ~Done("accepted", h) /\ ~Done("refused", h) /\ ~HasEntering(h)
    /\ Done("accepted", h) => ~Done("refused", h) /\ ~HasEntering(h)
    /\ Done("refused", h) => ~HasEntering(h)
    /\ New(h) => ~Served(h)
    /\ h \in reading => ~Done("data", h) /\ ~Done("error", h) /\ ~IsHandled(h)
    /\ Done("data", h) => ~Done("error", h) /\ ~IsHandled(h)
    /\ Done("error", h) => ~IsHandled(h)

OneAcceptor == \A h \in Handles, t, u \in Threads : Entering(t, h) /\ Entering(u, h) => t = u

\* connects_ has the handles that have a read, or whose handler is about to make or
\* to replace one, and no others; they are connected as long as a read is to follow.
Registered ==
  \A h \in Handles :
    /\ Served(h) => h \in connects_
    /\ h \in connects_ => Served(h) \/ HasEntering(h)
    /\ HasRead(h) \/ HasEntering(h) => connect_status_[h] = "connectinged"
    /\ \A t \in Threads :
         /\ Entering(t, h) /\ pc[t] = "a_read" => h \in connects_
         /\ Handling(t, h) /\ pc[t] \in {"r_observe", "r_read", "r_error"} =>
              connect_status_[h] = "connectinged"

LifeInv == OneStage /\ OneAcceptor /\ Registered

LEMMA InitLife == Init => LifeInv
BY SMTT(60) DEF Init, LifeInv, OneStage, OneAcceptor, Registered, Done, Entering, Handling, HasEntering, IsHandled,
       New, Served, HasRead, EnterLabels, ReadLabels, AcceptLabels

LEMMA StepLife ==
  ASSUME TypeInv, PlaceInv, LifeInv, [Next]_vars
  PROVE  LifeInv'
<1> USE ServerAssumption, CompletionsDiffer
    DEF TypeInv, PlaceInv, handleVars, Goto, Return, Undefined, Changes, Labels, Holding, AcceptLabels,
        ReadLabels, EnterLabels, Kinds, LifeInv, OneStage, OneAcceptor, Registered, Done, Entering, Handling,
        HasEntering, IsHandled, New, Served, HasRead
<1>1. ASSUME NEW t \in Threads, NEW h \in Handles, RunAccept(t, h) PROVE LifeInv'
  BY <1>1 DEF RunAccept
<1>2. ASSUME NEW t \in Threads, NEW h \in Handles, RunRead(t, h) PROVE LifeInv'
  BY <1>2, SMTT(30) DEF RunRead
<1>3. ASSUME NEW t \in Threads, NEW h \in Handles, RunWrite(t, h) PROVE LifeInv'
  BY <1>3 DEF RunWrite
<1>4. ASSUME NEW t \in Threads, Find(t) \/ Found(t) PROVE LifeInv'
  BY <1>4, SMTT(60) DEF Find, Found
<1>5. ASSUME NEW t \in Threads, SpinLock(t, "a_lock", "a_emplace") \/ SpinLock(t, "r_lock", "r_erase") PROVE LifeInv'
  BY <1>5, SMTT(60) DEF SpinLock
<1>6. ASSUME NEW t \in Threads, Emplace(t) PROVE LifeInv'
  BY <1>6 DEF Emplace, WithEntry
<1>7. ASSUME NEW t \in Threads, FirstRead(t) PROVE LifeInv'
  BY <1>7 DEF FirstRead
<1>8. ASSUME NEW t \in Threads, MakeSession(t) PROVE LifeInv'
  BY <1>8 DEF MakeSession, NextAccept, Fresh, Alive, Held
<1>9. ASSUME NEW t \in Threads, Observe(t) PROVE LifeInv'
  BY <1>9 DEF Observe, Aborted
<1>10. ASSUME NEW t \in Threads, ReadAgain(t) PROVE LifeInv'
  BY <1>10, SMTT(60) DEF ReadAgain, FailedRead
<1>11. ASSUME NEW t \in Threads, ReadError(t) PROVE LifeInv'
  BY <1>11, SMTT(60) DEF ReadError, Aborted
<1>12. ASSUME NEW t \in Threads, Erase(t) PROVE LifeInv'
  BY <1>12 DEF Erase, WithoutEntry
<1>13. ASSUME NEW h \in Handles, RunRefused(h) PROVE LifeInv'
  BY <1>13 DEF RunRefused
<1>14. ASSUME NEW h \in Handles, PeerConnects(h) PROVE LifeInv'
  BY <1>14 DEF PeerConnects
<1>15. ASSUME NEW h \in Handles, AcceptFails(h) PROVE LifeInv'
  BY <1>15 DEF AcceptFails
<1>16. ASSUME NEW h \in Handles, PeerCloses(h) \/ KernelRead(h) \/ KernelSent(h) PROVE LifeInv'
  BY <1>16 DEF PeerCloses, KernelRead, KernelSent
<1>17. CASE UNCHANGED vars
  BY <1>17 DEF vars
<1> HIDE DEF TypeInv, PlaceInv, LifeInv
<1> QED
  BY <1>1, <1>2, <1>3, <1>4, <1>5, <1>6, <1>7, <1>8, <1>9, <1>10, <1>11, <1>12, <1>13, <1>14, <1>15, <1>16, <1>17
     DEF Next, ThreadStep

LEMMA LifeInvariance == Spec => [](TypeInv /\ PlaceInv /\ LifeInv)
<1>1. Init => TypeInv /\ PlaceInv /\ LifeInv
  BY InitPlace, InitLife
<1>2. TypeInv /\ PlaceInv /\ LifeInv /\ [Next]_vars => (TypeInv /\ PlaceInv /\ LifeInv)'
  BY StepPlace, StepLife
<1> QED
  BY <1>1, <1>2, PTL DEF Spec

\* For any threads, handles and pool, a handle is at one stage of its life at a time:
\* being accepted, accepted or refused, entered by a thread, reading, read, or handled;
\* one thread at most enters it, and one at most is in a read handler.
OneReader == \A t, u \in Threads : pc[t] \in ReadLabels /\ pc[u] \in ReadLabels => t = u

THEOREM OnePlaceCorrect == Spec => [](OneStage /\ OneAcceptor /\ OneReader)
<1>1. PlaceInv /\ LifeInv => OneStage /\ OneAcceptor /\ OneReader
  BY DEF PlaceInv, LifeInv, OneReader
<1> QED
  BY <1>1, LifeInvariance, PTL

\* Whatever the threads do, a handle with a read is in connects_, which keeps alive
\* the object that its read handler will use.
THEOREM ReadersCorrect == Spec => []ReadersRegistered
<1>1. LifeInv => ReadersRegistered
  BY DEF LifeInv, Registered, Served, ReadersRegistered
<1> QED
  BY <1>1, LifeInvariance, PTL

\* Whatever the threads do, no handle stays in connects_ without a read or a handler
\* that will notice its end.
THEOREM NoLeakCorrect == Spec => []NoLeakedConnection
<1>1. TypeInv /\ LifeInv => NoLeakedConnection
  BY DEF TypeInv, LifeInv, Registered, Served, NoLeakedConnection, InHandler, IsHandled, Handling,
         HasEntering, Entering
<1> QED
  BY <1>1, LifeInvariance, PTL

\* No read handler runs on a handle that is destroyed, nor reads from one again: what
\* is left of undefined behaviour is on_write's, and the search of connects_.
ReadsDefined == ub # "read"

THEOREM ReadsAlive == Spec => []ReadsDefined
<1>1. Init => ReadsDefined
  BY DEF Init, ReadsDefined
<1>2. TypeInv /\ PlaceInv /\ LifeInv /\ ReadsDefined /\ [Next]_vars => ReadsDefined'
  <2> SUFFICES ASSUME TypeInv, PlaceInv, LifeInv, ReadsDefined, [Next]_vars
               PROVE  ReadsDefined'
    OBVIOUS
  <2> USE DEF ReadsDefined, Undefined, Changes, handleVars
  <2>1. ASSUME NEW t \in Threads, NEW h \in Handles, RunRead(t, h) PROVE ReadsDefined'
    <3>1. Alive(h)
      BY <2>1, CompletionsDiffer DEF RunRead, LifeInv, Registered, Served, HasRead, Alive
    <3> QED
      BY <2>1, <3>1 DEF RunRead
  <2>2. ASSUME NEW t \in Threads, ReadAgain(t) PROVE ReadsDefined'
    <3>1. cur[t] \in Handles /\ Handling(t, cur[t])
      BY <2>2, ServerAssumption DEF ReadAgain, TypeInv, PlaceInv, Handling, ReadLabels
    <3>2. Alive(cur[t])
      BY <3>1 DEF LifeInv, Registered, Served, IsHandled, Alive
    <3> QED
      BY <2>2, <3>2 DEF ReadAgain
  <2>3. ASSUME NEW t \in Threads, NEW h \in Handles, RunAccept(t, h) \/ RunWrite(t, h) PROVE ReadsDefined'
    BY <2>3 DEF RunAccept, RunWrite
  <2>4. ASSUME NEW t \in Threads, ThreadStep(t), ~ReadAgain(t) PROVE ReadsDefined'
    BY <2>4 DEF ThreadStep, Find, Found, SpinLock, Emplace, FirstRead, MakeSession, Observe, ReadError, Erase
  <2>5. ASSUME NEW h \in Handles,
               \/ RunRefused(h) \/ PeerConnects(h) \/ AcceptFails(h)
               \/ PeerCloses(h) \/ KernelRead(h) \/ KernelSent(h)
        PROVE  ReadsDefined'
    BY <2>5 DEF RunRefused, PeerConnects, AcceptFails, PeerCloses, KernelRead, KernelSent
  <2>6. CASE UNCHANGED vars
    BY <2>6 DEF vars
  <2> QED
    BY <2>1, <2>2, <2>3, <2>4, <2>5, <2>6 DEF Next
<1> QED
  BY <1>1, <1>2, LifeInvariance, PTL DEF Spec

\* With one thread nothing is undefined but an on_write whose handle is gone: nobody
\* changes connects_ while it is searched.
OnlyWrites == ub \in {"none", "write"}

THEOREM OneThreadOnlyWrites ==
  ASSUME NEW t, Threads = {t}
  PROVE  Spec => []OnlyWrites
<1>1. Init => ub # "search"
  BY DEF Init
<1>2. ub # "search" /\ [Next]_vars => (ub # "search")'
  <2> SUFFICES ASSUME ub # "search", [Next]_vars PROVE ub' # "search"
    OBVIOUS
  <2> USE DEF Undefined, Changes, handleVars
  <2>1. CASE Emplace(t)
    BY <2>1 DEF Emplace
  <2>2. CASE Erase(t)
    BY <2>2 DEF Erase
  <2>3. CASE ThreadStep(t) /\ ~Emplace(t) /\ ~Erase(t)
    BY <2>3 DEF ThreadStep, Find, Found, SpinLock, FirstRead, MakeSession, Observe, ReadAgain, ReadError
  <2>4. ASSUME NEW h \in Handles, RunAccept(t, h) \/ RunRead(t, h) \/ RunWrite(t, h) PROVE ub' # "search"
    BY <2>4 DEF RunAccept, RunRead, RunWrite
  <2>5. ASSUME NEW h \in Handles,
               \/ RunRefused(h) \/ PeerConnects(h) \/ AcceptFails(h)
               \/ PeerCloses(h) \/ KernelRead(h) \/ KernelSent(h)
        PROVE  ub' # "search"
    BY <2>5 DEF RunRefused, PeerConnects, AcceptFails, PeerCloses, KernelRead, KernelSent
  <2>6. CASE UNCHANGED vars
    BY <2>6 DEF vars
  <2> QED
    BY <2>1, <2>2, <2>3, <2>4, <2>5, <2>6 DEF Next
<1>3. TypeInv /\ ReadsDefined /\ ub # "search" => OnlyWrites
  BY DEF TypeInv, ReadsDefined, OnlyWrites
<1> QED
  BY <1>1, <1>2, <1>3, LifeInvariance, ReadsAlive, PTL DEF Spec

----------------------------------------------------------------------------
(* The places of the pool                                                   *)

Accepted == {h \in Handles : Completion("accepted", h) \in ready}
Acceptors == {t \in Threads : pc[t] \in AcceptLabels}

SlotInv == IsFiniteSet(Acceptors) /\ SlotsAccounted

\* Places only change hands: from a pending accept to its completion, to a thread in
\* its handler, and to the next accept or to a failure.
Handed ==
  \/ UNCHANGED <<accepting, failures>> /\ Accepted' = Accepted /\ Acceptors' = Acceptors
  \/ /\ Acceptors' = Acceptors /\ failures' = failures
     /\ \E h \in accepting \ Accepted : accepting' = accepting \ {h} /\ Accepted' = Accepted \cup {h}
  \/ /\ accepting' = accepting /\ failures' = failures
     /\ \E h \in Accepted, t \in Threads \ Acceptors :
          Accepted' = Accepted \ {h} /\ Acceptors' = Acceptors \cup {t}
  \/ /\ Accepted' = Accepted /\ failures' = failures
     /\ \E t \in Acceptors, h \in Handles \ accepting :
          Acceptors' = Acceptors \ {t} /\ accepting' = accepting \cup {h}
  \/ /\ Accepted' = Accepted /\ Acceptors' = Acceptors
     /\ \E h \in accepting : accepting' = accepting \ {h} /\ failures' = failures + 1

LEMMA StepHands ==
  ASSUME TypeInv, PlaceInv, LifeInv, [Next]_vars
  PROVE  Handed
<1> USE ServerAssumption, CompletionsDiffer
    DEF TypeInv, handleVars, Goto, Return, Undefined, Changes, AcceptLabels, Kinds, Accepted, Acceptors
<1>1. ASSUME NEW h \in Handles, PeerConnects(h) PROVE Handed
  <2>1. h \in accepting \ Accepted /\ accepting' = accepting \ {h} /\ failures' = failures /\ Acceptors' = Acceptors
    BY <1>1 DEF PeerConnects, LifeInv, OneStage, Done
  <2>2. Accepted' = Accepted \cup {h}
    BY <1>1 DEF PeerConnects
  <2> QED
    BY <2>1, <2>2 DEF Handed
<1>2. ASSUME NEW t \in Threads, NEW h \in Handles, RunAccept(t, h) PROVE Handed
  <2>1. h \in Accepted /\ t \in Threads \ Acceptors
    BY <1>2 DEF RunAccept
  <2>2. Accepted' = Accepted \ {h}
    BY <1>2 DEF RunAccept
  <2>3. Acceptors' = Acceptors \cup {t} /\ accepting' = accepting /\ failures' = failures
    BY <1>2 DEF RunAccept
  <2> QED
    BY <2>1, <2>2, <2>3 DEF Handed
<1>3. ASSUME NEW t \in Threads, MakeSession(t) PROVE Handed
  <2>1. PICK h \in Handles : Fresh(h) /\ accepting' = accepting \cup {h}
    BY <1>3 DEF MakeSession, NextAccept
  <2>2. h \notin accepting
    BY <2>1 DEF Fresh, Alive
  <2>3. t \in Acceptors /\ Acceptors' = Acceptors \ {t} /\ Accepted' = Accepted /\ failures' = failures
    BY <1>3 DEF MakeSession
  <2> QED
    BY <2>1, <2>2, <2>3 DEF Handed
<1>4. ASSUME NEW h \in Handles, AcceptFails(h) PROVE Handed
  BY <1>4 DEF AcceptFails, Handed
<1>5. ASSUME NEW t \in Threads, ThreadStep(t), ~MakeSession(t) PROVE Handed
  <2>1. Find(t) \/ Found(t) \/ FirstRead(t) \/ Emplace(t) \/ Erase(t) => Handed
    BY DEF Find, Found, FirstRead, Emplace, Erase, Handed
  <2>2. SpinLock(t, "a_lock", "a_emplace") \/ SpinLock(t, "r_lock", "r_erase") => Handed
    BY DEF SpinLock, Handed
  <2>3. Observe(t) \/ ReadError(t) => Handed
    BY DEF Observe, ReadError, Aborted, Handed
  <2>4. ReadAgain(t) => Handed
    BY DEF ReadAgain, FailedRead, Handed
  <2> QED
    BY <1>5, <2>1, <2>2, <2>3, <2>4 DEF ThreadStep
<1>6. ASSUME NEW t \in Threads, NEW h \in Handles, RunRead(t, h) \/ RunWrite(t, h) PROVE Handed
  BY <1>6 DEF RunRead, RunWrite, Handed
<1>7. ASSUME NEW h \in Handles, RunRefused(h) \/ PeerCloses(h) \/ KernelRead(h) \/ KernelSent(h) PROVE Handed
  BY <1>7 DEF RunRefused, PeerCloses, KernelRead, KernelSent, Handed
<1>8. CASE UNCHANGED vars
  BY <1>8 DEF vars, Handed
<1> QED
  BY <1>1, <1>2, <1>3, <1>4, <1>5, <1>6, <1>7, <1>8 DEF Next

LEMMA HandedKeeps ==
  ASSUME TypeInv, TypeInv', SlotInv, Handed
  PROVE  SlotInv'
<1> DEFINE a == Cardinality(accepting)
           d == Cardinality(Accepted)
           t == Cardinality(Acceptors)
<1>1. IsFiniteSet(accepting) /\ IsFiniteSet(Accepted) /\ IsFiniteSet(Acceptors)
  BY ServerAssumption, FS_Subset DEF TypeInv, Accepted, SlotInv
<1>2. a \in Nat /\ d \in Nat /\ t \in Nat /\ failures \in Nat /\ failures' \in Nat
  BY <1>1, FS_CardinalityType, ServerAssumption DEF TypeInv
<1>3. a + d + t + failures = PoolSize
  BY DEF SlotInv, SlotsAccounted, Accepted, Acceptors
<1>4. SUFFICES IsFiniteSet(Acceptors') /\ a' + d' + t' + failures' = PoolSize
  BY DEF SlotInv, SlotsAccounted, Accepted, Acceptors
<1>5. CASE UNCHANGED <<accepting, failures>> /\ Accepted' = Accepted /\ Acceptors' = Acceptors
  BY <1>1, <1>3, <1>5
<1>6. CASE /\ Acceptors' = Acceptors /\ failures' = failures
           /\ \E h \in accepting \ Accepted : accepting' = accepting \ {h} /\ Accepted' = Accepted \cup {h}
  <2>1. a' = a - 1 /\ d' = d + 1 /\ t' = t
    BY <1>1, <1>6, FS_RemoveElement, FS_AddElement, ZenonT(60)
  <2> QED
    BY <1>1, <1>2, <1>3, <1>6, <2>1
<1>7. CASE /\ accepting' = accepting /\ failures' = failures
           /\ \E h \in Accepted, u \in Threads \ Acceptors :
                Accepted' = Accepted \ {h} /\ Acceptors' = Acceptors \cup {u}
  <2>1. a' = a /\ d' = d - 1 /\ t' = t + 1 /\ IsFiniteSet(Acceptors')
    BY <1>1, <1>7, FS_RemoveElement, FS_AddElement, ZenonT(60)
  <2> QED
    BY <1>2, <1>3, <1>7, <2>1
<1>8. CASE /\ Accepted' = Accepted /\ failures' = failures
           /\ \E u \in Acceptors, h \in Handles \ accepting :
                Acceptors' = Acceptors \ {u} /\ accepting' = accepting \cup {h}
  <2>1. a' = a + 1 /\ d' = d /\ t' = t - 1 /\ IsFiniteSet(Acceptors')
    BY <1>1, <1>8, FS_RemoveElement, FS_AddElement, ZenonT(60)
  <2> QED
    BY <1>2, <1>3, <1>8, <2>1
<1>9. CASE /\ Accepted' = Accepted /\ Acceptors' = Acceptors
           /\ \E h \in accepting : accepting' = accepting \ {h} /\ failures' = failures + 1
  <2>1. a' = a - 1 /\ d' = d /\ t' = t /\ failures' = failures + 1
    BY <1>1, <1>9, FS_RemoveElement
  <2> QED
    BY <1>1, <1>2, <1>3, <1>9, <2>1
<1> QED
  BY <1>5, <1>6, <1>7, <1>8, <1>9 DEF Handed

LEMMA InitSlots == Init => SlotInv
<1> SUFFICES ASSUME Init PROVE SlotInv
  OBVIOUS
<1>1. Acceptors = {} /\ Accepted = {}
  BY DEF Init, Acceptors, Accepted, AcceptLabels
<1>2. Cardinality(Acceptors) = 0 /\ Cardinality(Accepted) = 0 /\ IsFiniteSet(Acceptors)
  BY <1>1, FS_EmptySet
<1>3. Cardinality(accepting) = PoolSize /\ failures = 0 /\ PoolSize \in Nat
  BY ServerAssumption DEF Init
<1>4. Cardinality(accepting) + Cardinality(Accepted) + Cardinality(Acceptors) + failures = PoolSize
  BY <1>2, <1>3
<1> QED
  BY <1>2, <1>4 DEF SlotInv, SlotsAccounted, Accepted, Acceptors

\* For any threads and any pool, each place of the pool is a pending accept, one that
\* has completed, a thread in its handler, or an accept that has failed: no other
\* way to lose one.
THEOREM SlotsCorrect == Spec => []SlotsAccounted
<1>1. TypeInv /\ PlaceInv /\ LifeInv /\ SlotInv /\ [Next]_vars => SlotInv'
  BY StepPlace, StepHands, HandedKeeps
<1>2. SlotInv => SlotsAccounted
  BY DEF SlotInv
<1> QED
  BY <1>1, <1>2, InitSlots, LifeInvariance, PTL DEF Spec

=============================================================================
