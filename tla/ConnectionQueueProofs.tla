----------------------- MODULE ConnectionQueueProofs -----------------------
(***************************************************************************)
(* Proofs about the connection queue, for any number of producers, workers *)
(* and descriptors, any capacity, and with or without failing calls.       *)
(***************************************************************************)
EXTENDS ConnectionQueue, TLAPS

\* Every step of the queue is one of its actions; the proofs below go through
\* this list.
LEMMA NextCases ==
  ASSUME Next
  PROVE  \/ Create \/ Destroy \/ RaiseAbort
         \/ \E t \in Threads :
              \/ \E f \in Fds : CallPush(t, f)
              \/ CallShutdown(t) \/ CallPop(t)
              \/ PushLock(t) \/ PushRelock(t) \/ PopLock(t) \/ PopRelock(t) \/ ShutdownLock(t)
              \/ PushAborted(t) \/ PushWait(t) \/ PushTimeout(t)
              \/ PushRefused(t) \/ PushStore(t) \/ PushSignal(t)
              \/ PopWait(t) \/ PopRefused(t) \/ PopTake(t) \/ PopSignal(t)
              \/ ShutdownBroadcast(t)
              \/ LockFails(t) \/ PushFails(t) \/ PopFails(t) \/ PopSpuriousWakeup(t)
  BY Zenon DEF Next, Lifecycle, Call, Threads, Step, Acquire, Run, Fault

\* A slot index stays in the ring when it is advanced by one.
LEMMA SlotAdvance ==
  ASSUME NEW i \in Slots
  PROVE  (i + 1) % Capacity \in Slots
  BY CapacityAssumption DEF Slots

\* What connection_queue_init and connection_queue_destroy leave in the ring.
LEMMA EmptyRingType ==
  /\ EmptyRing \in [Slots -> Fds \cup {NoFd}]
  /\ 0 \in Slots /\ 0 \in 0..Capacity
<1>1. EmptyRing \in [Slots -> Fds \cup {NoFd}]
  BY Zenon DEF EmptyRing
<1>2. 0 \in Slots /\ 0 \in 0..Capacity
  BY CapacityAssumption, SMTT(60) DEF Slots
<1> QED
  BY <1>1, <1>2, Zenon

-----------------------------------------------------------------------------
(* Types.                                                                  *)

\* Every step keeps the types; in particular the count never exceeds the
\* capacity nor falls below zero.
LEMMA TypeStep == TypeOK /\ [Next]_vars => TypeOK'
<1> SUFFICES ASSUME TypeOK, [Next]_vars PROVE TypeOK'
  BY Zenon
<1> USE CapacityAssumption DEF TypeOK
<1>1. CASE Create
  BY <1>1, EmptyRingType, Zenon DEF Create
<1>2. CASE Destroy
  BY <1>2, EmptyRingType, Zenon DEF Destroy
<1>3. CASE RaiseAbort
  BY <1>3, Zenon DEF RaiseAbort, ring
<1>4. ASSUME NEW t \in Threads, NEW f \in Fds, CallPush(t, f) PROVE TypeOK'
  BY <1>4, Zenon DEF CallPush, ring, Outside, Inside
<1>5. ASSUME NEW t \in Threads, CallShutdown(t) \/ CallPop(t) PROVE TypeOK'
  BY <1>5, ZenonT(60) DEF CallShutdown, CallPop, ring, Outside, Inside
<1>6. ASSUME NEW t \in Threads,
             PushLock(t) \/ PushRelock(t) \/ PopLock(t) \/ PopRelock(t) \/ ShutdownLock(t)
      PROVE  TypeOK'
  BY <1>6, ZenonT(60) DEF PushLock, PushRelock, PopLock, PopRelock, ShutdownLock, Lock, ring, Outside, Inside
<1>7. ASSUME NEW t \in Threads,
             PushAborted(t) \/ PushRefused(t) \/ PopRefused(t) \/ PushFails(t) \/ PopFails(t)
      PROVE  TypeOK'
  BY <1>7, ZenonT(60) DEF PushAborted, PushRefused, PopRefused, PushFails, PopFails, UnlockReturn, ring,
              Outside, Inside
<1>8. ASSUME NEW t \in Threads, PushWait(t) \/ PopWait(t) PROVE TypeOK'
  BY <1>8, Zenon DEF PushWait, PopWait, CondWait, ring, Outside, Inside
<1>9. ASSUME NEW t \in Threads, PushTimeout(t) \/ PopSpuriousWakeup(t) PROVE TypeOK'
  BY <1>9, Zenon DEF PushTimeout, PopSpuriousWakeup, ring, Outside, Inside
<1>10. ASSUME NEW t \in Threads, LockFails(t) PROVE TypeOK'
  BY <1>10, Zenon DEF LockFails, ring, Outside, Inside
<1>11. ASSUME NEW t \in Threads, PushStore(t) PROVE TypeOK'
  <2>1. tail' \in Slots
    BY <1>11, SlotAdvance, Zenon DEF PushStore
  <2>2. count' \in 0..Capacity
    BY <1>11 DEF PushStore, MustWaitToPush
  <2>3. items' \in [Slots -> Fds \cup {NoFd}]
    BY <1>11, Zenon DEF PushStore
  <2> QED
    BY <1>11, <2>1, <2>2, <2>3, Zenon DEF PushStore, Outside, Inside
<1>12. ASSUME NEW t \in Threads, PopTake(t) PROVE TypeOK'
  <2>1. head' \in Slots
    BY <1>12, SlotAdvance, Zenon DEF PopTake
  <2>2. count' \in 0..Capacity
    BY <1>12 DEF PopTake, MustWaitToPop
  <2>3. fd' \in [Threads -> Fds \cup {NoFd}]
    BY <1>12, Zenon DEF PopTake
  <2> QED
    BY <1>12, <2>1, <2>2, <2>3, Zenon DEF PopTake, Outside, Inside
<1>13. ASSUME NEW t \in Threads, PushSignal(t) \/ PopSignal(t) PROVE TypeOK'
  BY <1>13, ZenonT(60) DEF PushSignal, PopSignal, SignalUnlockReturn, Waiting, ring, Outside, Inside
<1>14. ASSUME NEW t \in Threads, ShutdownBroadcast(t) PROVE TypeOK'
  BY <1>14, Zenon DEF ShutdownBroadcast, AfterBroadcast, Outside, Inside
<1>15. CASE UNCHANGED vars
  BY <1>15, Zenon DEF vars, ring
<1> QED
  BY <1>1, <1>2, <1>3, <1>4, <1>5, <1>6, <1>7, <1>8, <1>9, <1>10, <1>11, <1>12, <1>13, <1>14,
     <1>15, NextCases, SMTT(60), Zenon

\* The types hold for every capacity and every set of threads and descriptors.
THEOREM TypeCorrect == Spec => []TypeOK
<1>1. ASSUME Init PROVE TypeOK
  <2>1. pc \in [Threads -> Outside \cup Inside]
    BY <1>1, Zenon DEF Init, Outside, Inside
  <2> QED
    BY <1>1, <2>1, EmptyRingType, Zenon DEF Init, TypeOK
<1> QED
  BY <1>1, TypeStep, PTL DEF Spec

-----------------------------------------------------------------------------
(* Mutual exclusion.                                                       *)

\* MutualExclusion is inductive relative to the types: who enters a section finds
\* the mutex free, who leaves it frees the mutex, and a woken thread is outside.
LEMMA MutexStep == TypeOK /\ MutualExclusion /\ [Next]_vars => MutualExclusion'
<1> SUFFICES ASSUME TypeOK, MutualExclusion, [Next]_vars PROVE MutualExclusion'
  BY Zenon
<1> USE NullAssumption DEF TypeOK, MutualExclusion, Outside, Inside
<1>1. CASE Create \/ Destroy \/ RaiseAbort \/ UNCHANGED vars
  BY <1>1, Zenon DEF Create, Destroy, RaiseAbort, vars
<1>2. ASSUME NEW t \in Threads, (\E f \in Fds : CallPush(t, f)) \/ CallShutdown(t) \/ CallPop(t)
      PROVE  MutualExclusion'
  BY <1>2 DEF CallPush, CallShutdown, CallPop
<1>3. ASSUME NEW t \in Threads,
             PushLock(t) \/ PushRelock(t) \/ PopLock(t) \/ PopRelock(t) \/ ShutdownLock(t)
      PROVE  MutualExclusion'
  BY <1>3 DEF PushLock, PushRelock, PopLock, PopRelock, ShutdownLock, Lock
<1>4. ASSUME NEW t \in Threads,
             PushAborted(t) \/ PushRefused(t) \/ PopRefused(t) \/ PushFails(t) \/ PopFails(t)
      PROVE  MutualExclusion'
  BY <1>4 DEF PushAborted, PushRefused, PopRefused, PushFails, PopFails, UnlockReturn
<1>5. ASSUME NEW t \in Threads, PushWait(t) \/ PopWait(t) PROVE MutualExclusion'
  BY <1>5 DEF PushWait, PopWait, CondWait
<1>6. ASSUME NEW t \in Threads, PushTimeout(t) \/ PopSpuriousWakeup(t) \/ LockFails(t)
      PROVE  MutualExclusion'
  BY <1>6 DEF PushTimeout, PopSpuriousWakeup, LockFails
<1>7. ASSUME NEW t \in Threads, PushStore(t) \/ PopTake(t) PROVE MutualExclusion'
  BY <1>7 DEF PushStore, PopTake
<1>8. ASSUME NEW t \in Threads, PushSignal(t) \/ PopSignal(t) PROVE MutualExclusion'
  BY <1>8 DEF PushSignal, PopSignal, SignalUnlockReturn, Waiting
<1>9. ASSUME NEW t \in Threads, ShutdownBroadcast(t) PROVE MutualExclusion'
  BY <1>9, Zenon DEF ShutdownBroadcast, AfterBroadcast
<1> QED
  BY <1>1, <1>2, <1>3, <1>4, <1>5, <1>6, <1>7, <1>8, <1>9, NextCases, Zenon

\* At most one thread is between lock and unlock, and it is the owner.
THEOREM QueueMutualExclusion == Spec => []MutualExclusion
<1>1. Init => MutualExclusion
  BY NullAssumption, Zenon DEF Init, MutualExclusion, Inside
<1> QED
  BY <1>1, MutexStep, TypeCorrect, PTL DEF Spec

-----------------------------------------------------------------------------
(* Shutdown wakes everybody.                                               *)

\* The flag is set under the mutex with both broadcasts, and a thread that waits
\* tested the flag under the same mutex: the property is inductive with the types.
LEMMA NoSleepStep == TypeOK /\ NoSleepAfterShutdown /\ [Next]_vars => NoSleepAfterShutdown'
<1> SUFFICES ASSUME TypeOK, NoSleepAfterShutdown, [Next]_vars PROVE NoSleepAfterShutdown'
  OBVIOUS
<1> USE DEF TypeOK, NoSleepAfterShutdown, Waiting
<1>1. CASE Create \/ Destroy \/ RaiseAbort \/ UNCHANGED vars
  BY <1>1, Zenon DEF Create, Destroy, RaiseAbort, vars, ring
<1>2. ASSUME NEW t \in Threads, (\E f \in Fds : CallPush(t, f)) \/ CallShutdown(t) \/ CallPop(t)
      PROVE  NoSleepAfterShutdown'
  BY <1>2, ZenonT(60) DEF CallPush, CallShutdown, CallPop, ring
<1>3. ASSUME NEW t \in Threads,
             PushLock(t) \/ PushRelock(t) \/ PopLock(t) \/ PopRelock(t) \/ ShutdownLock(t)
      PROVE  NoSleepAfterShutdown'
  BY <1>3, ZenonT(60) DEF PushLock, PushRelock, PopLock, PopRelock, ShutdownLock, Lock, ring
<1>4. ASSUME NEW t \in Threads,
             PushAborted(t) \/ PushRefused(t) \/ PopRefused(t) \/ PushFails(t) \/ PopFails(t)
      PROVE  NoSleepAfterShutdown'
  BY <1>4, ZenonT(60) DEF PushAborted, PushRefused, PopRefused, PushFails, PopFails, UnlockReturn, ring
<1>5. ASSUME NEW t \in Threads, PushWait(t) \/ PopWait(t) PROVE NoSleepAfterShutdown'
  BY <1>5, Zenon DEF PushWait, PopWait, CondWait, MustWaitToPush, MustWaitToPop, ring
<1>6. ASSUME NEW t \in Threads, PushTimeout(t) \/ PopSpuriousWakeup(t) \/ LockFails(t)
      PROVE  NoSleepAfterShutdown'
  BY <1>6, ZenonT(60) DEF PushTimeout, PopSpuriousWakeup, LockFails, ring
<1>7. ASSUME NEW t \in Threads, PushStore(t) \/ PopTake(t) PROVE NoSleepAfterShutdown'
  BY <1>7, ZenonT(60) DEF PushStore, PopTake
<1>8. ASSUME NEW t \in Threads, PushSignal(t) \/ PopSignal(t) PROVE NoSleepAfterShutdown'
  BY <1>8, ZenonT(60) DEF PushSignal, PopSignal, SignalUnlockReturn, ring
<1>9. ASSUME NEW t \in Threads, ShutdownBroadcast(t) PROVE NoSleepAfterShutdown'
  BY <1>9, Zenon DEF ShutdownBroadcast, AfterBroadcast
<1> QED
  BY <1>1, <1>2, <1>3, <1>4, <1>5, <1>6, <1>7, <1>8, <1>9, NextCases, Zenon

\* Nobody sleeps on either condition once connection_queue_shutdown has run.
THEOREM ShutdownWakesAll == Spec => []NoSleepAfterShutdown
<1>1. Init => NoSleepAfterShutdown
  BY Zenon DEF Init, NoSleepAfterShutdown
<1> QED
  BY <1>1, NoSleepStep, TypeCorrect, PTL DEF Spec

-----------------------------------------------------------------------------
(* The ring.                                                               *)

\* The slot arithmetic without the remainder: at most one lap is taken off.
LEMMA LapValue ==
  ASSUME NEW h \in Slots, NEW i \in 0..Capacity
  PROVE  (h + i) % Capacity = IF h + i < Capacity THEN h + i ELSE h + i - Capacity
<1>1. CASE h + i < Capacity
  BY <1>1, CapacityAssumption DEF Slots
<1>2. CASE ~(h + i < Capacity)
  BY <1>2, CapacityAssumption DEF Slots
<1> QED
  BY <1>1, <1>2, Zenon

\* Different positions below the capacity are different slots.
LEMMA SlotsDiffer ==
  ASSUME NEW h \in Slots, NEW i \in 0..Capacity, NEW j \in 0..Capacity,
         i < j, j < Capacity
  PROVE  (h + i) % Capacity # (h + j) % Capacity
<1>1. (h + i) % Capacity = IF h + i < Capacity THEN h + i ELSE h + i - Capacity
  BY LapValue, Zenon
<1>2. (h + j) % Capacity = IF h + j < Capacity THEN h + j ELSE h + j - Capacity
  BY LapValue, Zenon
<1> QED
  BY <1>1, <1>2, CapacityAssumption DEF Slots

\* The slot after position i is the slot of position i + 1 ...
LEMMA SlotAfter ==
  ASSUME NEW h \in Slots, NEW i \in 0..Capacity, i < Capacity
  PROVE  (((h + i) % Capacity) + 1) % Capacity = (h + (i + 1)) % Capacity
<1> DEFINE s == (h + i) % Capacity
<1>1. s = (IF h + i < Capacity THEN h + i ELSE h + i - Capacity)
  BY LapValue, Zenon
<1>2. s \in Slots
  BY <1>1, CapacityAssumption DEF Slots
<1>3. (s + 1) % Capacity = IF s + 1 < Capacity THEN s + 1 ELSE s + 1 - Capacity
  BY <1>2, LapValue, CapacityAssumption
<1>4. (h + (i + 1)) % Capacity = IF h + (i + 1) < Capacity THEN h + (i + 1) ELSE h + (i + 1) - Capacity
  BY LapValue, CapacityAssumption
<1> QED
  BY <1>1, <1>3, <1>4, CapacityAssumption DEF Slots

\* ... and position i seen from the next head.
LEMMA SlotFromNext ==
  ASSUME NEW h \in Slots, NEW i \in 0..Capacity, i < Capacity
  PROVE  (((h + 1) % Capacity) + i) % Capacity = (h + (i + 1)) % Capacity
<1> DEFINE n == (h + 1) % Capacity
<1>1. n = (IF h + 1 < Capacity THEN h + 1 ELSE h + 1 - Capacity)
  BY LapValue, CapacityAssumption
<1>2. n \in Slots
  BY SlotAdvance, Zenon
<1>3. (n + i) % Capacity = IF n + i < Capacity THEN n + i ELSE n + i - Capacity
  BY <1>2, LapValue, Zenon
<1>4. (h + (i + 1)) % Capacity = IF h + (i + 1) < Capacity THEN h + (i + 1) ELSE h + (i + 1) - Capacity
  BY LapValue, CapacityAssumption
<1> QED
  BY <1>1, <1>3, <1>4, CapacityAssumption DEF Slots

\* A step that leaves the ring alone and gives no thread a push without a
\* descriptor keeps RingConsistent.
LEMMA RingKept ==
  ASSUME RingConsistent, UNCHANGED ring,
         \A t \in Threads : pc'[t] \in Pushing => (pc[t] \in Pushing /\ fd'[t] = fd[t])
                                                  \/ fd'[t] \in Fds
  PROVE  RingConsistent'
  BY Zenon DEF RingConsistent, SlotOf, ring

\* Every step keeps the ring consistent: only push, pop, create and destroy touch
\* it, and push writes one slot after the last filled one.
LEMMA RingStep == TypeOK /\ RingConsistent /\ [Next]_vars => RingConsistent'
<1> SUFFICES ASSUME TypeOK, RingConsistent, [Next]_vars PROVE RingConsistent'
  OBVIOUS
<1> USE DEF TypeOK
<1>1. CASE Create \/ Destroy
  <2>1. SlotOf(0)' = 0
    BY <1>1, LapValue, EmptyRingType, CapacityAssumption, SMTT(60) DEF Create, Destroy, SlotOf, Slots
  <2> QED
    BY <1>1, <2>1 DEF Create, Destroy, RingConsistent
<1>2. CASE RaiseAbort \/ UNCHANGED vars
  BY <1>2, RingKept, Zenon DEF RaiseAbort, vars
<1>3. ASSUME NEW t \in Threads, (\E f \in Fds : CallPush(t, f)) \/ CallShutdown(t) \/ CallPop(t)
      PROVE  RingConsistent'
  BY <1>3, RingKept, ZenonT(60) DEF CallPush, CallShutdown, CallPop, Pushing
<1>4. ASSUME NEW t \in Threads,
             PushLock(t) \/ PushRelock(t) \/ PopLock(t) \/ PopRelock(t) \/ ShutdownLock(t)
      PROVE  RingConsistent'
  BY <1>4, RingKept, Zenon
     DEF PushLock, PushRelock, PopLock, PopRelock, ShutdownLock, Lock, Pushing
<1>5. ASSUME NEW t \in Threads,
             PushAborted(t) \/ PushRefused(t) \/ PopRefused(t) \/ PushFails(t) \/ PopFails(t)
      PROVE  RingConsistent'
  BY <1>5, RingKept, Zenon
     DEF PushAborted, PushRefused, PopRefused, PushFails, PopFails, UnlockReturn, Pushing
<1>6. ASSUME NEW t \in Threads, PushWait(t) \/ PopWait(t) PROVE RingConsistent'
  BY <1>6, RingKept, Zenon DEF PushWait, PopWait, CondWait, Pushing
<1>7. ASSUME NEW t \in Threads, PushTimeout(t) \/ PopSpuriousWakeup(t) \/ LockFails(t)
      PROVE  RingConsistent'
  BY <1>7, RingKept, Zenon DEF PushTimeout, PopSpuriousWakeup, LockFails, Pushing
<1>8. ASSUME NEW t \in Threads, PushStore(t) PROVE RingConsistent'
  <2>1. count \in 0..Capacity /\ count < Capacity /\ head \in Slots /\ tail = SlotOf(count)
    BY <1>8, CapacityAssumption, SMTT(60) DEF PushStore, MustWaitToPush, RingConsistent
  <2>2. tail' = SlotOf(count)'
    <3>1. tail' = (((head + count) % Capacity) + 1) % Capacity
      BY <1>8, <2>1, Zenon DEF PushStore, SlotOf
    <3>2. SlotOf(count)' = (head + (count + 1)) % Capacity
      BY <1>8, Zenon DEF PushStore, SlotOf
    <3> QED
      BY <2>1, <3>1, <3>2, SlotAfter, Zenon
  <2>3. ASSUME NEW i \in 0..(count' - 1) PROVE items'[SlotOf(i)'] \in Fds
    <3>1. CASE i < count
      <4>0. i \in 0..Capacity
        BY <2>1, <3>1, CapacityAssumption, SMTT(60)
      <4>1. SlotOf(i) # tail
        BY <2>1, <3>1, <4>0, SlotsDiffer, Zenon DEF SlotOf
      <4>2. items[SlotOf(i)] \in Fds
        BY <2>1, <3>1, SMTT(60) DEF RingConsistent
      <4>3. SlotOf(i) \in Slots
        BY <2>1, <3>1, LapValue, CapacityAssumption, SMTT(60) DEF SlotOf, Slots
      <4> QED
        BY <1>8, <4>1, <4>2, <4>3, Zenon DEF PushStore, SlotOf
    <3>2. CASE i = count
      <4>1. fd[t] \in Fds
        BY <1>8, Zenon DEF PushStore, RingConsistent, Pushing
      <4> QED
        BY <1>8, <2>1, <3>2, <4>1, Zenon DEF PushStore, SlotOf
    <3> QED
      BY <1>8, <2>1, <3>1, <3>2, SMTT(60) DEF PushStore
  <2>4. \A u \in Threads : pc'[u] \in Pushing => fd'[u] \in Fds
    BY <1>8, Zenon DEF PushStore, RingConsistent, Pushing
  <2> QED
    BY <2>2, <2>3, <2>4, Zenon DEF RingConsistent
<1>9. ASSUME NEW t \in Threads, PopTake(t) PROVE RingConsistent'
  <2>1. count \in 0..Capacity /\ count > 0 /\ head \in Slots /\ tail = SlotOf(count)
    BY <1>9, CapacityAssumption, SMTT(60) DEF PopTake, MustWaitToPop, RingConsistent
  <2>2. ASSUME NEW i \in 0..Capacity, i < count PROVE SlotOf(i)' = SlotOf(i + 1)
    <3>1. i < Capacity
      BY <2>1, <2>2, CapacityAssumption, SMTT(60)
    <3>2. SlotOf(i)' = (((head + 1) % Capacity) + i) % Capacity
      BY <1>9, Zenon DEF PopTake, SlotOf
    <3> QED
      BY <2>1, <3>1, <3>2, SlotFromNext, Zenon DEF SlotOf
  <2>3. tail' = SlotOf(count)'
    <3>1. SlotOf(count)' = (((head + 1) % Capacity) + (count - 1)) % Capacity
      BY <1>9, Zenon DEF PopTake, SlotOf
    <3>2. tail' = (head + ((count - 1) + 1)) % Capacity
      BY <1>9, <2>1 DEF PopTake, SlotOf
    <3>3. count - 1 \in 0..Capacity /\ count - 1 < Capacity
      BY <2>1, CapacityAssumption, SMTT(60)
    <3> QED
      BY <2>1, <3>1, <3>2, <3>3, SlotFromNext, Zenon
  <2>4. ASSUME NEW i \in 0..(count' - 1) PROVE items'[SlotOf(i)'] \in Fds
    <3>1. i \in 0..Capacity /\ i < count /\ i + 1 \in 0..(count - 1)
      BY <1>9, <2>1, CapacityAssumption, SMTT(60) DEF PopTake
    <3>2. items[SlotOf(i + 1)] \in Fds
      BY <3>1, Zenon DEF RingConsistent
    <3> QED
      BY <1>9, <2>2, <3>1, <3>2, Zenon DEF PopTake
  <2>5. \A u \in Threads : pc'[u] \in Pushing => fd'[u] \in Fds
    BY <1>9, Zenon DEF PopTake, RingConsistent, Pushing
  <2> QED
    BY <2>3, <2>4, <2>5 DEF RingConsistent
<1>10. ASSUME NEW t \in Threads, PushSignal(t) \/ PopSignal(t) PROVE RingConsistent'
  BY <1>10, RingKept, ZenonT(60) DEF PushSignal, PopSignal, SignalUnlockReturn, Waiting, Pushing
<1>11. ASSUME NEW t \in Threads, ShutdownBroadcast(t) PROVE RingConsistent'
  BY <1>11, Zenon DEF ShutdownBroadcast, AfterBroadcast, RingConsistent, SlotOf, Pushing
<1> QED
  BY <1>1, <1>2, <1>3, <1>4, <1>5, <1>6, <1>7, <1>8, <1>9, <1>10, <1>11, NextCases, Zenon

\* Pop and destroy only ever read slots that push has filled, whatever the
\* capacity and however often the indices have wrapped.
THEOREM RingAlwaysConsistent == Spec => []RingConsistent
<1>1. Init => RingConsistent
  <2>1. (0 + 0) % Capacity = 0
    BY LapValue, EmptyRingType, CapacityAssumption DEF Slots
  <2> QED
    BY <2>1 DEF Init, RingConsistent, SlotOf, Pushing
<1> QED
  BY <1>1, RingStep, TypeCorrect, PTL DEF Spec

-----------------------------------------------------------------------------
(* No lost wakeup.                                                         *)

\* None is enough for nothing, and more are enough for as many.
LEMMA SufficeMore ==
  ASSUME NEW S, NEW T, NEW n \in Nat, S \subseteq T
  PROVE  Suffice(S, 0) /\ (Suffice(S, n) => Suffice(T, n))
<1>1. Suffice(S, 0)
  <2> DEFINE none == [i \in 1..0 |-> 0]
  <2>1. 1..0 = {}
    OBVIOUS
  <2>2. none \in [1..0 -> S]
    BY <2>1, Zenon
  <2> QED
    BY <2>1, <2>2, Zenon DEF Suffice
<1>2. ASSUME NEW f \in [1..n -> S] PROVE f \in [1..n -> T]
  BY Zenon
<1> QED
  BY <1>1, <1>2, Zenon DEF Suffice

\* One more is enough for one more.
LEMMA SufficeAdd ==
  ASSUME NEW S, NEW n \in Nat, Suffice(S, n), NEW t, t \notin S
  PROVE  Suffice(S \cup {t}, n + 1)
<1>1. PICK f \in [1..n -> S] : \A i, j \in 1..n : f[i] = f[j] => i = j
  BY Zenon DEF Suffice
<1> DEFINE g == [i \in 1..(n + 1) |-> IF i = n + 1 THEN t ELSE f[i]]
<1>2. \A i \in 1..(n + 1) : i = n + 1 \/ i \in 1..n
  OBVIOUS
<1>3. g \in [1..(n + 1) -> S \cup {t}]
  BY <1>2, Zenon
<1>4. \A i, j \in 1..(n + 1) : g[i] = g[j] => i = j
  BY <1>1, <1>2
<1> HIDE DEF g
<1> QED
  BY <1>3, <1>4, Zenon DEF Suffice

\* One less is enough for one less: the last descriptor's thread takes the place of t.
LEMMA SufficeRemove ==
  ASSUME NEW S, NEW n \in Nat, Suffice(S, n + 1), NEW t
  PROVE  Suffice(S \ {t}, n)
<1>1. PICK f \in [1..(n + 1) -> S] : \A i, j \in 1..(n + 1) : f[i] = f[j] => i = j
  BY Zenon DEF Suffice
<1> DEFINE g == [i \in 1..n |-> IF f[i] = t THEN f[n + 1] ELSE f[i]]
<1>2. n + 1 \in 1..(n + 1) /\ \A i \in 1..n : i \in 1..(n + 1) /\ i # n + 1
  OBVIOUS
<1>3. \A i \in 1..n : g[i] \in S /\ g[i] # t
  BY <1>1, <1>2, Zenon
<1>4. g \in [1..n -> S \ {t}]
  BY <1>3, Zenon
<1>5. \A i, j \in 1..n : g[i] = g[j] => i = j
  BY <1>1, <1>2, Zenon
<1> HIDE DEF g
<1> QED
  BY <1>4, <1>5, Zenon DEF Suffice

\* Another in the place of t is enough for as many.
LEMMA SufficeSwap ==
  ASSUME NEW S, NEW n \in Nat, Suffice(S, n), NEW t, NEW w, w \notin S
  PROVE  Suffice((S \ {t}) \cup {w}, n)
<1>1. PICK f \in [1..n -> S] : \A i, j \in 1..n : f[i] = f[j] => i = j
  BY Zenon DEF Suffice
<1> DEFINE g == [i \in 1..n |-> IF f[i] = t THEN w ELSE f[i]]
<1>2. g \in [1..n -> (S \ {t}) \cup {w}]
  BY Zenon
<1>3. \A i, j \in 1..n : g[i] = g[j] => i = j
  BY <1>1
<1> HIDE DEF g
<1> QED
  BY <1>2, <1>3, Zenon DEF Suffice

\* Every step keeps as many awake as descriptors are queued: a push that stores
\* becomes one of the awake, its signal hands that role to a sleeper, and a worker
\* leaves the awake only with a descriptor or when the queue is empty.
LEMMA WakeupStep == TypeOK /\ NoLostWakeup /\ [Next]_vars => NoLostWakeup'
<1> SUFFICES ASSUME TypeOK, NoLostWakeup, [Next]_vars PROVE NoLostWakeup'
  OBVIOUS
<1> USE DEF TypeOK
<1> DEFINE Sleeping == Waiting("pop_wait")
<1>b. count \in Nat
  BY CapacityAssumption
<1>c. ASSUME count' = 0 PROVE NoLostWakeup'
  <2>1. Suffice(Awake', 0)
    BY SufficeMore, Zenon
  <2> QED
    BY <1>c, <2>1, Zenon DEF NoLostWakeup
<1>d. ASSUME Sleeping' = {} PROVE NoLostWakeup'
  BY <1>d, Zenon DEF NoLostWakeup
<1>e. ASSUME count' = count, Sleeping' \subseteq Sleeping, Awake \subseteq Awake'
      PROVE  NoLostWakeup'
  <2>1. Suffice(Awake, count) => Suffice(Awake', count)
    BY <1>b, <1>e, SufficeMore, Zenon
  <2> QED
    BY <1>e, <2>1, Zenon DEF NoLostWakeup
<1>1. CASE Create \/ Destroy
  BY <1>1, <1>c, Zenon DEF Create, Destroy
<1>2. CASE RaiseAbort \/ UNCHANGED vars
  BY <1>2, Zenon DEF RaiseAbort, vars, ring, NoLostWakeup, Waiting, Awake
<1>3. ASSUME NEW t \in Threads, (\E f \in Fds : CallPush(t, f)) \/ CallShutdown(t) \/ CallPop(t)
      PROVE  NoLostWakeup'
  <2>1. Awake' = Awake /\ Sleeping' = Sleeping /\ count' = count
    BY <1>3, ZenonT(60) DEF CallPush, CallShutdown, CallPop, ring, Awake, Waiting
  <2> QED
    BY <2>1, <1>e, Zenon
<1>4. ASSUME NEW t \in Threads, PushLock(t) \/ PushRelock(t) \/ ShutdownLock(t) \/ PopRelock(t)
      PROVE  NoLostWakeup'
  <2>1. Awake' = Awake /\ Sleeping' = Sleeping /\ count' = count
    BY <1>4, ZenonT(60) DEF PushLock, PushRelock, ShutdownLock, PopRelock, Lock, ring, Awake, Waiting
  <2> QED
    BY <2>1, <1>e, Zenon
<1>5. ASSUME NEW t \in Threads, PopLock(t) \/ PopSpuriousWakeup(t) PROVE NoLostWakeup'
  <2>1. Awake' = Awake \cup {t} /\ Sleeping' \subseteq Sleeping /\ count' = count
    BY <1>5, ZenonT(60) DEF PopLock, PopSpuriousWakeup, Lock, ring, Awake, Waiting
  <2> QED
    BY <2>1, <1>e, Zenon
<1>6. ASSUME NEW t \in Threads,
             PushAborted(t) \/ PushRefused(t) \/ PushFails(t) \/ PushWait(t) \/ PushTimeout(t)
                \/ LockFails(t)
      PROVE  NoLostWakeup'
  <2>1. Awake' = Awake /\ Sleeping' = Sleeping /\ count' = count
    BY <1>6, ZenonT(60) DEF PushAborted, PushRefused, PushFails, PushWait, PushTimeout, LockFails,
                UnlockReturn, CondWait, ring, Awake, Waiting
  <2> QED
    BY <2>1, <1>e, Zenon
<1>7. ASSUME NEW t \in Threads, PopRefused(t) \/ PopFails(t) \/ PopWait(t) PROVE NoLostWakeup'
  BY <1>7, <1>c, Zenon DEF PopRefused, PopFails, PopWait, MustWaitToPop, UnlockReturn, CondWait, ring
<1>8. ASSUME NEW t \in Threads, PushStore(t) PROVE NoLostWakeup'
  <2>1. Awake' = Awake \cup {t} /\ t \notin Awake /\ Sleeping' = Sleeping /\ count' = count + 1
    BY <1>8, Zenon DEF PushStore, Awake, Waiting
  <2>2. Suffice(Awake, count) => Suffice(Awake', count')
    BY <2>1, <1>b, SufficeAdd, Zenon
  <2> QED
    BY <2>1, <2>2, Zenon DEF NoLostWakeup
<1>9. ASSUME NEW t \in Threads, PopTake(t) PROVE NoLostWakeup'
  <2>1. Awake' = Awake \ {t} /\ t \in Awake /\ Sleeping' = Sleeping /\ count' = count - 1
    BY <1>9, Zenon DEF PopTake, Awake, Waiting
  <2>2. count' \in Nat /\ count = count' + 1
    BY <1>9, <1>b, <2>1 DEF PopTake, MustWaitToPop
  <2>3. Suffice(Awake, count) => Suffice(Awake', count')
    BY <2>1, <2>2, SufficeRemove, Zenon
  <2> QED
    BY <2>1, <2>3, Zenon DEF NoLostWakeup
<1>10. ASSUME NEW t \in Threads, PushSignal(t) PROVE NoLostWakeup'
  <2>1. CASE Sleeping = {}
    <3>1. Sleeping' = {}
      BY <1>10, <2>1, Zenon DEF PushSignal, SignalUnlockReturn, Waiting
    <3> QED
      BY <3>1, <1>d, Zenon
  <2>2. CASE Sleeping # {}
    <3>1. PICK w \in Sleeping : pc' = [pc EXCEPT ![t] = "idle", ![w] = "pop_relock"]
      BY <1>10, <2>2, Zenon DEF PushSignal, SignalUnlockReturn
    <3>2. t \in Awake /\ w \in Threads /\ w \notin Awake /\ w # t
      BY <1>10, <3>1, Zenon DEF PushSignal, Awake, Waiting
    <3>3. Awake' = (Awake \ {t}) \cup {w}
      BY <3>1, <3>2, Zenon DEF Awake, Waiting
    <3>4. Sleeping' \subseteq Sleeping /\ count' = count
      BY <1>10, <3>1, Zenon DEF PushSignal, SignalUnlockReturn, Waiting, ring
    <3> QED
      <4>1. Suffice(Awake, count) => Suffice(Awake', count')
        BY <3>2, <3>3, <3>4, <1>b, SufficeSwap, Zenon
      <4> QED
        BY <3>4, <4>1, Zenon DEF NoLostWakeup
  <2> QED
    BY <2>1, <2>2, Zenon
<1>11. ASSUME NEW t \in Threads, PopSignal(t) PROVE NoLostWakeup'
  <2>1. Awake' = Awake /\ Sleeping' = Sleeping /\ count' = count
    BY <1>11, Zenon DEF PopSignal, SignalUnlockReturn, ring, Awake, Waiting
  <2> QED
    BY <2>1, <1>e, Zenon
<1>12. ASSUME NEW t \in Threads, ShutdownBroadcast(t) PROVE NoLostWakeup'
  <2>1. Sleeping' = {}
    BY <1>12, Zenon DEF ShutdownBroadcast, AfterBroadcast, Waiting
  <2> QED
    BY <2>1, <1>d
<1> QED
  BY <1>1, <1>2, <1>3, <1>4, <1>5, <1>6, <1>7, <1>8, <1>9, <1>10, <1>11, <1>12, NextCases, Zenon

\* For any number of workers: a signal per push is enough, no queued descriptor
\* waits beside sleeping workers that nobody is going to wake.
THEOREM WakeupsNeverLost == Spec => []NoLostWakeup
<1>1. Init => NoLostWakeup
  BY Zenon DEF Init, NoLostWakeup, Waiting
<1> QED
  BY <1>1, WakeupStep, TypeCorrect, PTL DEF Spec

-----------------------------------------------------------------------------
(* The refinement: the queue implements the bounded FIFO of BoundedQueue.  *)

\* What a sequence is.
LEMMA SequenceIs ==
    ASSUME NEW S, NEW n \in Nat, NEW f \in [1..n -> S]
    PROVE  f \in Seq(S) /\ Len(f) = n
  OBVIOUS

\* The empty sequence.
LEMMA EmptyFacts ==
    ASSUME NEW S
    PROVE  <<>> \in Seq(S) /\ Len(<<>>) = 0 /\ \A q \in Seq(S) : q # <<>> => Len(q) # 0
  OBVIOUS

\* Sequences with the same elements are equal.
LEMMA SameSequence ==
    ASSUME NEW S, NEW p \in Seq(S), NEW q \in Seq(S),
           Len(p) = Len(q), \A i \in 1..Len(p) : p[i] = q[i]
    PROVE  p = q
  OBVIOUS

Values == Fds \cup {NoFd}

\* The sequence in the c slots from h on.
ContentsOf(it, h, c) == [i \in 1..c |-> it[(h + (i - 1)) % Capacity]]

\* Contents is that sequence, before and after a step.
LEMMA ContentsIs ==
  /\ Contents = ContentsOf(items, head, count)
  /\ Contents' = ContentsOf(items', head', count')
  BY Zenon DEF Contents, ContentsOf, SlotOf

\* It has c elements, the i-th of which is in the slot i - 1 after the head.
LEMMA ContentsType ==
  ASSUME NEW it \in [Slots -> Values], NEW h \in Slots, NEW c \in 0..Capacity
  PROVE  /\ ContentsOf(it, h, c) \in Seq(Values)
         /\ Len(ContentsOf(it, h, c)) = c
         /\ \A i \in 1..c : ContentsOf(it, h, c)[i] = it[(h + (i - 1)) % Capacity]
<1> DEFINE q == ContentsOf(it, h, c)
<1>1. ASSUME NEW i \in 1..c PROVE it[(h + (i - 1)) % Capacity] \in Values
  <2>1. i - 1 \in 0..Capacity
    BY CapacityAssumption
  <2>2. (h + (i - 1)) % Capacity \in Slots
    BY <2>1, LapValue, CapacityAssumption DEF Slots
  <2> QED
    BY <2>2, Zenon
<1>2. q \in [1..c -> Values]
  BY <1>1, Zenon DEF ContentsOf
<1>3. c \in Nat
  BY CapacityAssumption
<1>4. q \in Seq(Values)
  BY <1>2, <1>3, SequenceIs, Zenon
<1>5. Len(q) = c
  BY <1>2, <1>3, <1>4, SequenceIs, Zenon
<1> QED
  BY <1>4, <1>5, Zenon DEF ContentsOf

\* Push appends.
LEMMA StoreAppends ==
  ASSUME NEW it \in [Slots -> Values], NEW h \in Slots, NEW c \in 0..Capacity, c < Capacity,
         NEW f \in Values
  PROVE  ContentsOf([it EXCEPT ![(h + c) % Capacity] = f], h, c + 1)
            = Append(ContentsOf(it, h, c), f)
<1> DEFINE q == ContentsOf(it, h, c)
           p == (h + c) % Capacity
           r == ContentsOf([it EXCEPT ![p] = f], h, c + 1)
<1>1. q \in Seq(Values) /\ Len(q) = c /\ \A i \in 1..c : q[i] = it[(h + (i - 1)) % Capacity]
  BY ContentsType, Zenon
<1>2. p \in Slots
  BY LapValue, CapacityAssumption DEF Slots
<1>3. [it EXCEPT ![p] = f] \in [Slots -> Values] /\ c + 1 \in 0..Capacity
  BY <1>2, CapacityAssumption
<1>4. /\ r \in Seq(Values) /\ Len(r) = c + 1
      /\ \A i \in 1..(c + 1) : r[i] = [it EXCEPT ![p] = f][(h + (i - 1)) % Capacity]
  BY <1>3, ContentsType, ZenonT(60)
<1>5. /\ Append(q, f) \in Seq(Values) /\ Len(Append(q, f)) = c + 1
      /\ \A i \in 1..(c + 1) : Append(q, f)[i] = IF i <= c THEN q[i] ELSE f
  BY <1>1, CapacityAssumption
<1>6. ASSUME NEW i \in 1..(c + 1) PROVE r[i] = Append(q, f)[i]
  <2>1. CASE i <= c
    <3>1. i - 1 \in 0..Capacity /\ i - 1 < c
      BY <2>1, CapacityAssumption
    <3>2. (h + (i - 1)) % Capacity # p
      BY <3>1, SlotsDiffer, Zenon
    <3>3. (h + (i - 1)) % Capacity \in Slots
      BY <3>1, LapValue, CapacityAssumption, SMTT(60) DEF Slots
    <3>4. i \in 1..c
      BY <2>1
    <3> QED
      BY <1>1, <1>4, <1>5, <2>1, <3>2, <3>3, <3>4, ZenonT(60)
  <2>2. CASE i = c + 1
    <3>1. i - 1 = c /\ ~(i <= c)
      BY <2>2, CapacityAssumption
    <3>2. r[i] = f
      BY <1>2, <1>4, <3>1, Zenon
    <3> QED
      BY <1>5, <3>1, <3>2, Zenon
  <2>3. i <= c \/ i = c + 1
    BY CapacityAssumption
  <2> QED
    BY <2>1, <2>2, <2>3, Zenon
<1> QED
  BY <1>4, <1>5, <1>6, SameSequence, Zenon

\* Pop takes the head and leaves the tail.
LEMMA TakeRemoves ==
  ASSUME NEW it \in [Slots -> Values], NEW h \in Slots, NEW c \in 0..Capacity, c > 0
  PROVE  /\ ContentsOf(it, h, c) # <<>>
         /\ Head(ContentsOf(it, h, c)) = it[h]
         /\ Tail(ContentsOf(it, h, c)) = ContentsOf(it, (h + 1) % Capacity, c - 1)
<1> DEFINE q == ContentsOf(it, h, c)
           n == (h + 1) % Capacity
           r == ContentsOf(it, n, c - 1)
<1>1. q \in Seq(Values) /\ Len(q) = c /\ \A i \in 1..c : q[i] = it[(h + (i - 1)) % Capacity]
  BY ContentsType, Zenon
<1>2. q # <<>>
  BY <1>1, EmptyFacts
<1>3. n \in Slots /\ c - 1 \in 0..Capacity
  BY SlotAdvance, CapacityAssumption, SMTT(60)
<1>4. r \in Seq(Values) /\ Len(r) = c - 1 /\ \A i \in 1..(c - 1) : r[i] = it[(n + (i - 1)) % Capacity]
  BY <1>3, ContentsType, Zenon
<1>5. Head(q) = it[h]
  <2>1. Head(q) = q[1]
    BY <1>1, <1>2
  <2>2. (h + 0) % Capacity = h
    <3>1. 0 \in 0..Capacity /\ h + 0 = h /\ h < Capacity
      BY CapacityAssumption DEF Slots
    <3> QED
      BY <3>1, LapValue, Zenon
  <2>3. q[1] = it[(h + (1 - 1)) % Capacity] /\ 1 - 1 = 0
    BY <1>1, CapacityAssumption, SMTT(60)
  <2> QED
    BY <2>1, <2>2, <2>3, Zenon
<1>6. /\ Tail(q) \in Seq(Values) /\ Len(Tail(q)) = c - 1
      /\ \A i \in 1..(c - 1) : Tail(q)[i] = q[i + 1]
  BY <1>1, <1>2
<1>7. ASSUME NEW i \in 1..(c - 1) PROVE r[i] = Tail(q)[i]
  <2>1. i - 1 \in 0..Capacity /\ i - 1 < Capacity /\ i + 1 \in 1..c
    BY CapacityAssumption
  <2>2. (n + (i - 1)) % Capacity = (h + ((i - 1) + 1)) % Capacity
    BY <2>1, SlotFromNext, Zenon
  <2>3. q[i + 1] = it[(h + ((i + 1) - 1)) % Capacity]
    BY <1>1, <2>1, Zenon
  <2>4. (i - 1) + 1 = (i + 1) - 1
    OBVIOUS
  <2> QED
    BY <1>4, <1>6, <2>2, <2>3, <2>4, Zenon
<1> QED
  BY <1>2, <1>4, <1>5, <1>6, <1>7, SameSequence, Zenon

\* A queue that was just created, or destroyed, is empty.
LEMMA EmptyContents ==
  ASSUME NEW it \in [Slots -> Values], NEW h \in Slots
  PROVE  ContentsOf(it, h, 0) = <<>>
<1>1. ContentsOf(it, h, 0) \in Seq(Values) /\ Len(ContentsOf(it, h, 0)) = 0
  BY ContentsType, CapacityAssumption
<1> QED
  BY <1>1, EmptyFacts, Zenon

-----------------------------------------------------------------------------
(* The steps.                                                              *)

\* The calls in progress, as the abstract queue sees them.
OpsOf(p) == [t \in Threads |-> OpOf(p[t])]

\* A step that moves thread t to x moves its abstract call to OpOf(x).
LEMMA OpsMove ==
  ASSUME NEW p \in [Threads -> Outside \cup Inside], NEW t \in Threads, NEW x
  PROVE  OpsOf([p EXCEPT ![t] = x]) = [OpsOf(p) EXCEPT ![t] = OpOf(x)]
  BY ZenonT(60) DEF OpsOf

\* Nothing moves when x stands for the call t is already in.
LEMMA OpsStay ==
  ASSUME NEW p \in [Threads -> Outside \cup Inside], NEW t \in Threads, NEW x,
         OpOf(x) = OpOf(p[t])
  PROVE  OpsOf([p EXCEPT ![t] = x]) = OpsOf(p)
  BY Zenon DEF OpsOf

\* The initial state maps to the initial state.
LEMMA RefinementInit == Init => Abstract!Init
<1> SUFFICES ASSUME Init PROVE Abstract!Init
  BY Zenon
<1>1. Contents = <<>>
  BY EmptyContents, ContentsIs, EmptyRingType, Zenon DEF Init, Values
<1>2. [t \in Threads |-> OpOf(pc[t])] = [t \in Threads |-> "idle"]
  BY Zenon DEF Init, OpOf, Pushing
<1> QED
  BY <1>1, <1>2, Zenon DEF Init, Abstract!Init, Abstract!Threads, Threads

\* Every step of the queue is a step of the FIFO or leaves it as it is.
LEMMA RefinementStep ==
  TypeOK /\ RingConsistent /\ [Next]_vars => [Abstract!Next]_(Abstract!vars)
<1> SUFFICES ASSUME TypeOK, RingConsistent, [Next]_vars
             PROVE  [Abstract!Next]_(Abstract!vars)
  BY Zenon
<1> DEFINE A == [Abstract!Next]_(Abstract!vars)
<1>a. pc \in [Threads -> Outside \cup Inside]
  BY Zenon DEF TypeOK
<1>b. ASSUME UNCHANGED <<items, head, count>> PROVE Contents' = Contents
  BY <1>b, ContentsIs, Zenon
<1>c. /\ [t \in Threads |-> OpOf(pc[t])] = OpsOf(pc)
      /\ [t \in Threads |-> OpOf(pc[t])]' = OpsOf(pc')
  BY Zenon DEF OpsOf
<1>1. CASE Lifecycle
  <2>1. Contents' = <<>>
    BY <1>1, EmptyContents, ContentsIs, EmptyRingType, Zenon DEF Lifecycle, Create, Destroy, Values
  <2>2. Abstract!Quiescent
    BY <1>1, Zenon DEF Lifecycle, Quiescent, Abstract!Quiescent, Abstract!Threads, Threads, OpOf, Pushing
  <2>3. Abstract!Create \/ Abstract!Destroy
    BY <1>1, <2>1, <2>2, Zenon DEF Lifecycle, Create, Destroy, Abstract!Create, Abstract!Destroy
  <2> QED
    BY <2>3, Zenon DEF Abstract!Next
<1>2. CASE RaiseAbort
  BY <1>2, <1>b, Zenon DEF RaiseAbort, ring, Abstract!Next, Abstract!RaiseAbort
<1>3. ASSUME NEW t \in Producers, NEW f \in Fds, live, CallPush(t, f) PROVE A
  <2>1. OpsOf(pc') = [OpsOf(pc) EXCEPT ![t] = "push"] /\ OpsOf(pc)[t] = "idle"
    BY <1>3, <1>a, OpsMove, ZenonT(60) DEF CallPush, OpOf, Pushing, Threads, OpsOf
  <2>2. Abstract!Call(t, "push", f)
    BY <1>3, <1>b, <1>c, <2>1, Zenon DEF CallPush, ring, Abstract!Call
  <2> QED
    BY <2>2, Zenon DEF Abstract!Next
<1>4. ASSUME NEW t \in Producers, live, CallShutdown(t) PROVE A
  <2>1. OpsOf(pc') = [OpsOf(pc) EXCEPT ![t] = "shutdown"] /\ OpsOf(pc)[t] = "idle"
    BY <1>4, <1>a, OpsMove, ZenonT(60) DEF CallShutdown, OpOf, Pushing, Threads, OpsOf
  <2>2. fd' = [fd EXCEPT ![t] = fd[t]]
    BY <1>4, Zenon DEF CallShutdown, TypeOK
  <2>3. Abstract!Call(t, "shutdown", fd[t])
    BY <1>4, <1>b, <1>c, <2>1, <2>2, Zenon DEF CallShutdown, ring, Abstract!Call
  <2> QED
    BY <2>3, Zenon DEF Abstract!Next
<1>5. ASSUME NEW t \in Consumers, live, CallPop(t) PROVE A
  <2>1. OpsOf(pc') = [OpsOf(pc) EXCEPT ![t] = "pop"] /\ OpsOf(pc)[t] = "idle"
    BY <1>5, <1>a, OpsMove, ZenonT(60) DEF CallPop, OpOf, Pushing, Threads, OpsOf
  <2>2. Abstract!Call(t, "pop", NoFd)
    BY <1>5, <1>b, <1>c, <2>1, Zenon DEF CallPop, ring, Abstract!Call
  <2> QED
    BY <2>2, Zenon DEF Abstract!Next
<1>6. ASSUME NEW t \in Threads, NEW x, pc' = [pc EXCEPT ![t] = x], OpOf(x) = OpOf(pc[t]),
             UNCHANGED <<ring, live, fd, status, abort_flag>>
      PROVE  A
  <2>1. OpsOf(pc') = OpsOf(pc)
    BY <1>6, <1>a, OpsStay, Zenon
  <2> QED
    BY <1>6, <1>b, <1>c, <2>1, Zenon DEF ring, Abstract!vars
<1>7. ASSUME NEW t \in Threads,
             PushLock(t) \/ PushRelock(t) \/ PopLock(t) \/ PopRelock(t) \/ ShutdownLock(t)
      PROVE  A
  <2>1. PICK x : pc' = [pc EXCEPT ![t] = x] /\ OpOf(x) = OpOf(pc[t])
    BY <1>7, Zenon DEF PushLock, PushRelock, PopLock, PopRelock, ShutdownLock, Lock, OpOf, Pushing
  <2>2. UNCHANGED <<ring, live, fd, status, abort_flag>>
    BY <1>7, Zenon DEF PushLock, PushRelock, PopLock, PopRelock, ShutdownLock, Lock
  <2> QED
    BY <1>6, <2>1, <2>2, Zenon
<1>8. ASSUME NEW t \in Threads,
             PushWait(t) \/ PopWait(t) \/ PushTimeout(t) \/ PopSpuriousWakeup(t)
      PROVE  A
  <2>1. PICK x : pc' = [pc EXCEPT ![t] = x] /\ OpOf(x) = OpOf(pc[t])
    BY <1>8, Zenon DEF PushWait, PopWait, CondWait, PushTimeout, PopSpuriousWakeup, OpOf, Pushing
  <2>2. UNCHANGED <<ring, live, fd, status, abort_flag>>
    BY <1>8, Zenon DEF PushWait, PopWait, CondWait, PushTimeout, PopSpuriousWakeup
  <2> QED
    BY <1>6, <2>1, <2>2, Zenon
<1>9. Len(Contents) = count /\ (count = 0 => Contents = <<>>)
  BY ContentsIs, ContentsType, EmptyContents, Zenon DEF TypeOK, Values
<1>10. ASSUME NEW t \in Threads, NEW st, pc' = [pc EXCEPT ![t] = "idle"],
              status' = [status EXCEPT ![t] = st], UNCHANGED <<ring, live, fd, abort_flag>>
       PROVE  Abstract!Refuse(t, st)
  <2>1. OpsOf(pc') = [OpsOf(pc) EXCEPT ![t] = "idle"]
    BY <1>10, <1>a, OpsMove, ZenonT(60) DEF OpOf, Pushing
  <2> QED
    BY <1>10, <1>b, <1>c, <2>1, Zenon DEF ring, Abstract!Refuse
<1>11. ASSUME NEW t \in Threads, PushAborted(t) \/ PushRefused(t) PROVE A
  <2>1. Abstract!Refuse(t, "SHUTDOWN")
    BY <1>10, <1>11, Zenon DEF PushAborted, PushRefused, UnlockReturn
  <2>2. OpsOf(pc)[t] = "push"
    BY <1>11, Zenon DEF PushAborted, PushRefused, OpsOf, OpOf, Pushing
  <2>3. shutting_down \/ (Len(Contents) = Capacity /\ abort_flag)
    BY <1>9, <1>11, CapacityAssumption DEF PushAborted, PushRefused, MustWaitToPush, TypeOK
  <2>4. Abstract!PushRefused(t)
    BY <1>c, <2>1, <2>2, <2>3, Zenon DEF Abstract!PushRefused
  <2> QED
    BY <2>4, Zenon DEF Abstract!Next, Abstract!Threads, Threads
<1>12. ASSUME NEW t \in Threads, PopRefused(t) PROVE A
  <2>1. Abstract!Refuse(t, "SHUTDOWN")
    BY <1>10, <1>12, ZenonT(60) DEF PopRefused, UnlockReturn
  <2>2. OpsOf(pc)[t] = "pop"
    BY <1>12, Zenon DEF PopRefused, OpsOf, OpOf, Pushing
  <2>3. Abstract!PopRefused(t)
    BY <1>9, <1>12, <1>c, <2>1, <2>2, Zenon DEF PopRefused, Abstract!PopRefused
  <2> QED
    BY <2>3, Zenon DEF Abstract!Next, Abstract!Threads, Threads
<1>13. ASSUME NEW t \in Threads, LockFails(t) \/ PushFails(t) \/ PopFails(t) PROVE A
  <2>1. Abstract!Refuse(t, "ERROR")
    BY <1>10, <1>13, Zenon DEF LockFails, PushFails, PopFails, UnlockReturn
  <2>2. Faults /\ OpsOf(pc)[t] \in {"push", "pop"}
    BY <1>13, Zenon DEF LockFails, PushFails, PopFails, OpsOf, OpOf, Pushing
  <2>3. Abstract!Fail(t)
    BY <1>c, <2>1, <2>2, Zenon DEF Abstract!Fail
  <2> QED
    BY <2>3, Zenon DEF Abstract!Next, Abstract!Threads, Threads
<1>14. ASSUME NEW t \in Threads, PushStore(t) PROVE A
  <2>1. count < Capacity
    BY <1>14, CapacityAssumption DEF PushStore, MustWaitToPush, TypeOK
  <2>2. Contents' = Append(Contents, fd[t])
    <3>1. tail = (head + count) % Capacity /\ fd[t] \in Values
      BY Zenon DEF RingConsistent, SlotOf, TypeOK, Values
    <3>2. /\ items' = [items EXCEPT ![(head + count) % Capacity] = fd[t]]
          /\ head' = head /\ count' = count + 1
      BY <1>14, <3>1, Zenon DEF PushStore
    <3> QED
      BY <2>1, <3>1, <3>2, ContentsIs, StoreAppends, Zenon DEF TypeOK, Values
  <2>3. OpsOf(pc') = [OpsOf(pc) EXCEPT ![t] = "done"] /\ OpsOf(pc)[t] = "push"
    BY <1>14, <1>a, OpsMove, ZenonT(60) DEF PushStore, OpOf, Pushing, OpsOf
  <2>4. Abstract!Push(t)
    BY <1>9, <1>14, <1>c, <2>1, <2>2, <2>3, Zenon DEF PushStore, Abstract!Push
  <2> QED
    BY <2>4, Zenon DEF Abstract!Next, Abstract!Threads, Threads
<1>15. ASSUME NEW t \in Threads, PopTake(t) PROVE A
  <2>1. count > 0
    BY <1>15 DEF PopTake, MustWaitToPop, TypeOK
  <2>2. /\ Contents # <<>> /\ Head(Contents) = items[head]
        /\ Contents' = Tail(Contents)
    BY <1>15, <2>1, ContentsIs, TakeRemoves, ZenonT(60) DEF PopTake, TypeOK, Values
  <2>3. OpsOf(pc') = [OpsOf(pc) EXCEPT ![t] = "done"] /\ OpsOf(pc)[t] = "pop"
    BY <1>15, <1>a, OpsMove, ZenonT(60) DEF PopTake, OpOf, Pushing, OpsOf
  <2>4. Abstract!Pop(t)
    BY <1>15, <1>c, <2>2, <2>3, Zenon DEF PopTake, Abstract!Pop
  <2> QED
    BY <2>4, Zenon DEF Abstract!Next, Abstract!Threads, Threads
<1>16. ASSUME NEW t \in Threads, PushSignal(t) \/ PopSignal(t) PROVE A
  <2>1. OpsOf(pc)[t] = "done"
    BY <1>16, Zenon DEF PushSignal, PopSignal, OpsOf, OpOf, Pushing
  <2>2. OpsOf(pc') = [OpsOf(pc) EXCEPT ![t] = "idle"]
    <3>1. CASE pc' = [pc EXCEPT ![t] = "idle"]
      BY <1>a, <3>1, OpsMove, Zenon DEF OpOf, Pushing
    <3>2. ASSUME NEW w \in Threads, NEW y, pc' = [pc EXCEPT ![t] = "idle", ![w] = y], w # t,
                 OpOf(y) = OpOf(pc[w])
          PROVE  OpsOf(pc') = [OpsOf(pc) EXCEPT ![t] = "idle"]
      <4>1. OpOf("idle") = "idle"
        BY Zenon DEF OpOf, Pushing
      <4>2. ASSUME NEW u \in Threads
            PROVE  OpOf(pc'[u]) = IF u = t THEN "idle" ELSE OpOf(pc[u])
        BY <1>a, <3>2, <4>1, Zenon
      <4> QED
        BY <4>2, ZenonT(60) DEF OpsOf
    <3>3. \/ pc' = [pc EXCEPT ![t] = "idle"]
          \/ \E w \in Threads, y \in {"pop_relock", "push_relock"} :
                /\ pc' = [pc EXCEPT ![t] = "idle", ![w] = y]
                /\ w # t /\ OpOf(y) = OpOf(pc[w])
      BY <1>16, Zenon DEF PushSignal, PopSignal, SignalUnlockReturn, Waiting, OpOf, Pushing
    <3> QED
      BY <3>1, <3>2, <3>3, Zenon
  <2>3. Abstract!Return(t)
    BY <1>16, <1>b, <1>c, <2>1, <2>2, Zenon
       DEF PushSignal, PopSignal, SignalUnlockReturn, ring, Abstract!Return
  <2> QED
    BY <2>3, Zenon DEF Abstract!Next, Abstract!Threads, Threads
<1>17. ASSUME NEW t \in Threads, ShutdownBroadcast(t) PROVE A
  <2>1. OpsOf(pc)[t] = "shutdown"
    BY <1>17, Zenon DEF ShutdownBroadcast, OpsOf, OpOf, Pushing
  <2>2. OpsOf(pc') = [OpsOf(pc) EXCEPT ![t] = "idle"]
    <3>1. ASSUME NEW u \in Threads
          PROVE  OpOf(AfterBroadcast(t, u)) = IF u = t THEN "idle" ELSE OpOf(pc[u])
      BY Zenon DEF AfterBroadcast, OpOf, Pushing
    <3> QED
      BY <1>17, <3>1, ZenonT(60) DEF ShutdownBroadcast, OpsOf
  <2>3. Abstract!Shutdown(t)
    BY <1>17, <1>b, <1>c, <2>1, <2>2, Zenon DEF ShutdownBroadcast, Abstract!Shutdown
  <2> QED
    BY <2>3, Zenon DEF Abstract!Next, Abstract!Threads, Threads
<1>18. CASE UNCHANGED vars
  BY <1>18, <1>b, Zenon DEF vars, ring, Abstract!vars
<1>19. CASE Call
  BY <1>3, <1>4, <1>5, <1>19, Zenon DEF Call
<1> QED
  BY <1>1, <1>2, <1>7, <1>8, <1>11, <1>12, <1>13, <1>14, <1>15, <1>16, <1>17, <1>18, <1>19, Zenon
     DEF Next, Step, Acquire, Run, Fault

\* The ring buffer, its mutex and its conditions implement the bounded FIFO for
\* every capacity and every set of threads and descriptors: each successful push
\* is one Append, each successful pop one Head/Tail, and nothing else touches
\* the sequence.
THEOREM QueueRefinesFifo == Spec => ImplementsBoundedQueue
<1>1. Spec => [](TypeOK /\ RingConsistent)
  BY TypeCorrect, RingAlwaysConsistent, PTL
<1> QED
  BY <1>1, RefinementInit, RefinementStep, PTL DEF Spec, ImplementsBoundedQueue, Abstract!Spec
=============================================================================
