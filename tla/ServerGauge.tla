----------------------------- MODULE ServerGauge -----------------------------
(***************************************************************************)
(* Theorem: the gauge of active connections never misses one, for any      *)
(* finite pool of workers, any descriptors and any capacity of the queue,  *)
(* and with or without failing calls.  The proof counts by the owners of   *)
(* module ServerProofs.                                                    *)
(***************************************************************************)
EXTENDS ServerProofs, FiniteSetTheorems

\* The workers that have a descriptor, and those whose accounting is still to come.
Holders == {w \in Workers : WorkerHas(w)}
Finishing == {w \in Workers : worker[w] = "finish"}

\* The connection whose push has succeeded and whose connection_started is to come.
Uncounted == IF main \in {"push", "started"} /\ status[Main] = "OK" THEN 1 ELSE 0

Gauge ==
    /\ active \in Nat /\ open \subseteq Fds
    /\ active + Uncounted >= count + Cardinality(Holders) + Cardinality(Finishing)

-----------------------------------------------------------------------------
(* Counting.                                                               *)

LEMMA SetsOfWorkers ==
    ASSUME NEW S, S \subseteq Workers
    PROVE  IsFiniteSet(S) /\ Cardinality(S) \in Nat
  BY PoolAssumption, FS_Subset, FS_CardinalityType, Zenon

LEMMA OneMore ==
    ASSUME NEW S, S \subseteq Workers, NEW w \in Workers, w \notin S
    PROVE  Cardinality(S \cup {w}) = Cardinality(S) + 1
  <1>1. IsFiniteSet(S)
    BY SetsOfWorkers, Zenon
  <1> QED
    BY <1>1, FS_AddElement, SMTT(60)

LEMMA Counts ==
    /\ Cardinality(Holders) \in Nat /\ Cardinality(Finishing) \in Nat
    /\ Cardinality(Holders') \in Nat /\ Cardinality(Finishing') \in Nat
    /\ Uncounted \in 0..1 /\ Uncounted' \in 0..1
  <1>1. Holders \subseteq Workers /\ Finishing \subseteq Workers
    BY Zenon DEF Holders, Finishing
  <1>2. Holders' \subseteq Workers /\ Finishing' \subseteq Workers
    BY Zenon DEF Holders, Finishing
  <1>3. Uncounted \in 0..1 /\ Uncounted' \in 0..1
    BY DEF Uncounted
  <1> QED
    BY <1>1, <1>2, <1>3, SetsOfWorkers, Zenon

\* A step that changes neither the holders nor the finishing ones.
LEMMA SameHolders ==
    ASSUME Gauge, Ring,
           \A w \in Workers : WorkerHas(w)' <=> WorkerHas(w),
           \A w \in Workers : worker'[w] = "finish" <=> worker[w] = "finish",
           count' = count \/ count' = 0,
           (active' = active /\ Uncounted' = Uncounted) \/ active' = active + 1,
           open' \subseteq Fds
    PROVE  Gauge'
  <1>1. Holders' = Holders /\ Finishing' = Finishing
    BY Zenon DEF Holders, Finishing
  <1>2. Cardinality(Holders') = Cardinality(Holders) /\ Cardinality(Finishing') = Cardinality(Finishing)
    BY <1>1, Zenon
  <1>3. count \in Nat /\ active \in Nat
    BY QueueAssumption DEF Ring, Q!TypeOK, Gauge
  <1>4. active' \in Nat
    BY <1>3
  <1>5. active' + Uncounted' >= count' + Cardinality(Holders') + Cardinality(Finishing')
    BY <1>2, <1>3, Counts, SMTT(60) DEF Gauge
  <1> QED
    BY <1>4, <1>5, Zenon DEF Gauge

-----------------------------------------------------------------------------
(* The steps.                                                              *)

\* Push stores: the queue has one more, which the main thread has yet to count.
LEMMA StoreGauge ==
    ASSUME Inv, Ring, Own, Gauge, NEW t \in Threads, Q!PushStore(t), UNCHANGED ownVars
    PROVE  Gauge'
  <1>1. t = Main
    BY Zenon DEF Q!PushStore, Own, CallResults, Threads
  <1>2. /\ main = "push" /\ status[Main] # "OK" /\ UNCHANGED <<main, worker, active, open>>
        /\ status' = [status EXCEPT ![Main] = "OK"] /\ count' = count + 1
    BY <1>1, Zenon DEF Q!PushStore, Own, CallResults, Q!Pushing, ownVars
  <1>3. status'[Main] = "OK" /\ \A w \in Workers : status'[w] = status[w]
    BY <1>2, WorkersAssumption, Zenon DEF Ring, Q!TypeOK, Q!Threads
  <1>4. Uncounted = 0 /\ Uncounted' = 1
    BY <1>2, <1>3, Zenon DEF Uncounted
  <1>5. Holders' = Holders /\ Finishing' = Finishing
    BY <1>2, <1>3, Zenon DEF Holders, Finishing, WorkerHas
  <1>6. Cardinality(Holders') = Cardinality(Holders) /\ Cardinality(Finishing') = Cardinality(Finishing)
    BY <1>5, Zenon
  <1>7. count \in Nat /\ active \in Nat
    BY QueueAssumption, SMTT(60) DEF Ring, Q!TypeOK, Gauge
  <1>8. active' + Uncounted' >= count' + Cardinality(Holders') + Cardinality(Finishing')
    BY <1>2, <1>4, <1>6, <1>7, Counts, SMTT(60) DEF Gauge
  <1> QED
    BY <1>2, <1>8, Zenon DEF Gauge

\* Pop takes: one less in the queue, and the worker has it.
LEMMA TakeGauge ==
    ASSUME Inv, Ring, Own, Gauge, NEW t \in Threads, Q!PopTake(t), UNCHANGED ownVars
    PROVE  Gauge'
  <1>1. t \in Workers /\ t # Main
    BY WorkersAssumption, Zenon DEF Q!PopTake, Own, CallResults, Q!Pushing, Threads
  <1>2. /\ UNCHANGED <<main, worker, active, open>> /\ count' = count - 1
        /\ status' = [status EXCEPT ![t] = "OK"] /\ status[t] # "OK" /\ worker[t] = "popping"
    BY <1>1, Zenon DEF Q!PopTake, Own, CallResults, ownVars, Inv, Lifetimes
  <1>3. /\ status'[t] = "OK" /\ status'[Main] = status[Main]
        /\ \A w \in Workers : w # t => status'[w] = status[w]
    BY <1>1, <1>2, Zenon DEF Ring, Q!TypeOK, Q!Threads
  <1>4. Uncounted' = Uncounted
    BY <1>2, <1>3, Zenon DEF Uncounted
  <1>5. t \notin Holders /\ Holders \subseteq Workers /\ Holders' = Holders \cup {t} /\ Finishing' = Finishing
    BY <1>1, <1>2, <1>3, Zenon DEF Holders, Finishing, WorkerHas
  <1>6. /\ Cardinality(Holders') = Cardinality(Holders) + 1
        /\ Cardinality(Finishing') = Cardinality(Finishing)
    BY <1>1, <1>5, OneMore, Zenon
  <1>7. count \in Nat /\ active \in Nat
    BY QueueAssumption DEF Ring, Q!TypeOK, Gauge
  <1>8. active' + Uncounted' >= count' + Cardinality(Holders') + Cardinality(Finishing')
    BY <1>2, <1>4, <1>6, <1>7, Counts, SMTT(60) DEF Gauge
  <1> QED
    BY <1>2, <1>8, Zenon DEF Gauge

\* The other steps inside a call hand nothing over.
LEMMA CallGauge ==
    ASSUME Inv, Ring, Own, Gauge, NEW t \in Threads, UNCHANGED ownVars,
           Q!Acquire(t) \/ Q!Run(t) \/ Q!Fault(t) \/ Q!PopSpuriousWakeup(t)
    PROVE  Gauge'
  <1>1. ASSUME UNCHANGED count, \A u \in Threads : status'[u] = "OK" <=> status[u] = "OK"
        PROVE  Gauge'
    <2>1. UNCHANGED <<main, worker, active, open>> /\ open \subseteq Fds
      BY Zenon DEF ownVars, Gauge
    <2>2. Uncounted' = Uncounted
      BY <1>1, <2>1, Zenon DEF Uncounted, Threads
    <2>3. \A w \in Workers : WorkerHas(w)' <=> WorkerHas(w)
      BY <1>1, <2>1, Zenon DEF WorkerHas, Threads
    <2> QED
      BY <1>1, <2>1, <2>2, <2>3, SameHolders, Zenon
  <1>2. CASE \/ Q!Acquire(t) \/ Q!PushWait(t) \/ Q!PopWait(t) \/ Q!PushTimeout(t) \/ Q!PopSpuriousWakeup(t)
             \/ Q!PushSignal(t) \/ Q!PopSignal(t) \/ Q!ShutdownBroadcast(t)
    <2>1. UNCHANGED <<count, status>>
      BY <1>2, ZenonT(60) DEF Q!Acquire, Q!PushLock, Q!PushRelock, Q!PopLock, Q!PopRelock, Q!ShutdownLock, Q!Lock,
         Q!PushWait, Q!PopWait, Q!CondWait, Q!PushTimeout, Q!PopSpuriousWakeup, Q!ring,
         Q!PushSignal, Q!PopSignal, Q!SignalUnlockReturn, Q!ShutdownBroadcast
    <2> QED
      BY <1>1, <2>1, Zenon
  <1>3. CASE Q!PushAborted(t) \/ Q!PushRefused(t) \/ Q!PopRefused(t) \/ Q!Fault(t)
    <2>1. /\ UNCHANGED count /\ pc[t] \in {"push_lock", "push_loop", "pop_lock", "pop_loop"}
          /\ \E st \in {"SHUTDOWN", "ERROR"} : status' = [status EXCEPT ![t] = st]
      BY <1>3, Zenon DEF Q!PushAborted, Q!PushRefused, Q!PopRefused, Q!Fault, Q!LockFails, Q!PushFails,
                  Q!PopFails, Q!UnlockReturn, Q!ring
    <2>2. status[t] # "OK"
      BY <2>1, WorkersAssumption, Zenon DEF Own, CallResults, Q!Pushing, Threads
    <2>3. status'[t] # "OK" /\ \A u \in Threads : u # t => status'[u] = status[u]
      BY <2>1, Zenon DEF Ring, Q!TypeOK, Q!Threads, Threads
    <2> QED
      BY <1>1, <2>1, <2>2, <2>3, Zenon
  <1> QED
    BY <1>2, <1>3, StoreGauge, TakeGauge, Zenon DEF Q!Run

\* The main thread's steps, outside the queue's calls.
LEMMA MainGauge ==
    ASSUME Inv, Ring, Own, Gauge,
           \/ Listen \/ LoggerInit \/ StatsInit \/ PoolInit \/ StartupFails \/ SpawnDone
           \/ SpawnJoin \/ PoolJoin \/ CheckFlag \/ EnterAccept \/ AcceptFails \/ PushSucceeded
           \/ CleanupSkip \/ PoolDestroy \/ StatsDestroy \/ LoggerDestroy \/ ListenerClose
           \/ PushFailed \/ \E t \in Threads : Signal(t)
    PROVE  Gauge'
  <1>1. /\ UNCHANGED <<worker, status, count, active>> /\ open' \subseteq open
        /\ status[Main] = "OK" =>
              (main' \in {"push", "started"} <=> main \in {"push", "started"})
    BY Zenon DEF Listen, LoggerInit, StatsInit, PoolInit, StartupFails, SpawnDone, SpawnJoin, PoolJoin,
           JoinStarted, CheckFlag, EnterAccept, AcceptFails, PushSucceeded, CleanupSkip, PushFailed, Signal, Q!RaiseAbort,
           Q!ring, PoolDestroy, StatsDestroy, LoggerDestroy, ListenerClose, Startup, Teardown, Goto, queueVars
  <1>2. Uncounted' = Uncounted
    BY <1>1, Zenon DEF Uncounted
  <1>3. \A w \in Workers : WorkerHas(w)' <=> WorkerHas(w)
    BY <1>1, Zenon DEF WorkerHas
  <1>4. open' \subseteq Fds
    BY <1>1, Zenon DEF Gauge
  <1> QED
    BY <1>1, <1>2, <1>3, <1>4, SameHolders, Zenon

\* The main thread makes and frees the queue, calls it, and counts a connection.
LEMMA MainCallGauge ==
    ASSUME Inv, Ring, Own, Gauge,
           \/ QueueInit \/ QueueDestroy \/ SpawnFails \/ CleanupShutdown
           \/ ConnectionStarted \/ \E f \in Fds : Accept(f)
    PROVE  Gauge'
  <1>1. CASE QueueInit \/ QueueDestroy
    <2>1. /\ UNCHANGED <<worker, status, active>> /\ open' \subseteq open
          /\ count' = count \/ count' = 0
          /\ main \notin {"push", "started"} /\ main' \notin {"push", "started"}
      BY <1>1, Zenon DEF QueueInit, QueueDestroy, Startup, Teardown, Goto, Q!Create, Q!Destroy, queueVars
    <2>2. Uncounted' = Uncounted
      BY <2>1, Zenon DEF Uncounted
    <2>3. \A w \in Workers : WorkerHas(w)' <=> WorkerHas(w)
      BY <2>1, Zenon DEF WorkerHas
    <2>4. open' \subseteq Fds
      BY <2>1, Zenon DEF Gauge
    <2> QED
      BY <2>1, <2>2, <2>3, <2>4, SameHolders, Zenon
  <1>2. CASE SpawnFails \/ CleanupShutdown \/ \E f \in Fds : Accept(f)
    <2>1. /\ UNCHANGED <<worker, count, active>> /\ open' \subseteq open \cup Fds
          /\ status' = [status EXCEPT ![Main] = "none"] /\ main \notin {"push", "started"}
      BY <1>2, Zenon DEF SpawnFails, CleanupShutdown, Accept, Goto, Q!CallShutdown, Q!CallPush, Q!ring
    <2>2. status'[Main] = "none" /\ \A w \in Workers : status'[w] = status[w]
      BY <2>1, WorkersAssumption, ZenonT(60) DEF Ring, Q!TypeOK, Q!Threads
    <2>3. Uncounted' = Uncounted
      BY <2>1, <2>2, Zenon DEF Uncounted
    <2>4. \A w \in Workers : WorkerHas(w)' <=> WorkerHas(w)
      BY <2>1, <2>2, ZenonT(60) DEF WorkerHas
    <2>5. open' \subseteq Fds
      BY <2>1, Zenon DEF Gauge
    <2> QED
      BY <2>1, <2>3, <2>4, <2>5, SameHolders, Zenon
  <1>3. CASE ConnectionStarted
    <2>1. UNCHANGED <<worker, status, count, open>> /\ active' = active + 1
      BY <1>3, Zenon DEF ConnectionStarted, queueVars
    <2>2. \A w \in Workers : WorkerHas(w)' <=> WorkerHas(w)
      BY <2>1, ZenonT(60) DEF WorkerHas
    <2>3. open' \subseteq Fds
      BY <2>1, Zenon DEF Gauge
    <2> QED
      BY <2>1, <2>2, <2>3, SameHolders, Zenon
  <1> QED
    BY <1>1, <1>2, <1>3, Zenon

\* A worker's steps up to the close keep what it has.
LEMMA WorkerGauge ==
    ASSUME Inv, Ring, Own, Gauge, NEW v \in Workers,
           SpawnWorker(v) \/ WorkerPop(v) \/ PopReturned(v) \/ Receive(v) \/ Send(v)
    PROVE  Gauge'
  <1>1. UNCHANGED <<main, open, active, count>>
    BY Zenon DEF SpawnWorker, WorkerPop, Q!CallPop, Q!ring, PopReturned, Receive, RecvAnswered, RecvEnded,
           Send, SendKeepsAlive, SendEnded, queueVars, mainVars
  <1>2. /\ status'[Main] = status[Main]
        /\ \A w \in Workers : WorkerHas(w)' <=> WorkerHas(w)
        /\ \A w \in Workers : worker'[w] = "finish" <=> worker[w] = "finish"
    <2>1. CASE WorkerPop(v)
      <3>1. /\ worker[v] = "pop" /\ worker' = [worker EXCEPT ![v] = "popping"]
            /\ status' = [status EXCEPT ![v] = "none"]
        BY <2>1, Zenon DEF WorkerPop, Q!CallPop, Step
      <3>2. /\ worker'[v] = "popping" /\ status'[v] = "none" /\ status'[Main] = status[Main]
            /\ \A w \in Workers : w # v => worker'[w] = worker[w] /\ status'[w] = status[w]
        BY <3>1, WorkersAssumption, ZenonT(60) DEF Inv, Lifetimes, Ring, Q!TypeOK, Q!Threads
      <3> QED
        BY <3>1, <3>2, Zenon DEF WorkerHas
    <2>2. CASE ~WorkerPop(v)
      <3>1. UNCHANGED status
        BY <2>2, Zenon DEF SpawnWorker, PopReturned, Receive, RecvAnswered, RecvEnded, Send, SendKeepsAlive,
                    SendEnded, queueVars
      <3>2. \/ worker[v] = "none" /\ worker' = [worker EXCEPT ![v] = "pop"]
            \/ worker[v] = "popping" /\ status[v] = "OK" /\ worker' = [worker EXCEPT ![v] = "recv"]
            \/ worker[v] = "popping" /\ status[v] # "OK" /\ worker' = [worker EXCEPT ![v] = "exited"]
            \/ /\ worker[v] \in {"recv", "send"}
               /\ \E p \in {"recv", "send", "close"} : worker' = [worker EXCEPT ![v] = p]
        BY <2>2, Zenon DEF SpawnWorker, PopReturned, Receive, RecvAnswered, RecvEnded, Send, SendKeepsAlive,
                    SendEnded, Step
      <3>3. \E p : worker' = [worker EXCEPT ![v] = p]
        BY <3>2, Zenon
      <3>4. \A w \in Workers : w # v => worker'[w] = worker[w]
        BY <3>3, ZenonT(60) DEF Inv, Lifetimes
      <3>5. \/ worker[v] = "none" /\ worker'[v] = "pop"
            \/ worker[v] = "popping" /\ status[v] = "OK" /\ worker'[v] = "recv"
            \/ worker[v] = "popping" /\ status[v] # "OK" /\ worker'[v] = "exited"
            \/ worker[v] \in {"recv", "send"} /\ worker'[v] \in {"recv", "send", "close"}
        BY <3>2, Zenon DEF Inv, Lifetimes
      <3>6. (WorkerHas(v)' <=> WorkerHas(v)) /\ worker'[v] # "finish" /\ worker[v] # "finish"
        BY <3>1, <3>5, Zenon DEF WorkerHas
      <3> QED
        BY <3>1, <3>4, <3>6, Zenon DEF WorkerHas
    <2> QED
      BY <2>1, <2>2, Zenon
  <1>3. Uncounted' = Uncounted
    BY <1>1, <1>2, Zenon DEF Uncounted
  <1>4. open' \subseteq Fds
    BY <1>1, Zenon DEF Gauge
  <1> QED
    BY <1>1, <1>2, <1>3, <1>4, SameHolders, Zenon

\* close_client: the worker's accounting is still to come.
LEMMA CloseGauge ==
    ASSUME Inv, Ring, Own, Gauge, NEW v \in Workers, CloseClient(v)
    PROVE  Gauge'
  <1>1. /\ UNCHANGED <<main, status, active, count>> /\ open' \subseteq open
        /\ worker[v] = "close" /\ worker' = [worker EXCEPT ![v] = "finish"]
    BY Zenon DEF CloseClient, Step, queueVars, mainVars
  <1>2. worker'[v] = "finish" /\ \A w \in Workers : w # v => worker'[w] = worker[w]
    BY <1>1, ZenonT(60) DEF Inv, Lifetimes
  <1>3. /\ v \notin Holders' /\ Holders' \subseteq Workers /\ Holders = Holders' \cup {v}
        /\ v \notin Finishing /\ Finishing \subseteq Workers /\ Finishing' = Finishing \cup {v}
    BY <1>1, <1>2, Zenon DEF Holders, Finishing, WorkerHas
  <1>4. Cardinality(Holders) = Cardinality(Holders') + 1
    BY <1>3, OneMore, ZenonT(60)
  <1>5. Cardinality(Finishing') = Cardinality(Finishing) + 1
    BY <1>3, OneMore, Zenon
  <1>6. Uncounted' = Uncounted
    BY <1>1, ZenonT(60) DEF Uncounted
  <1>7. count \in Nat /\ active \in Nat
    BY QueueAssumption, SMTT(60) DEF Ring, Q!TypeOK, Gauge
  <1>8. active' + Uncounted' >= count' + Cardinality(Holders') + Cardinality(Finishing')
    BY <1>1, <1>4, <1>5, <1>6, <1>7, Counts, SMTT(60) DEF Gauge
  <1> QED
    BY <1>1, <1>8, Zenon DEF Gauge

\* connection_finished.  If the gauge is zero, so that it does not go down, then the
\* connection is the one that is still to be counted.
LEMMA FinishedGauge ==
    ASSUME Inv, Ring, Own, Gauge, NEW v \in Workers, ConnectionFinished(v)
    PROVE  Gauge'
  <1>1. /\ UNCHANGED <<main, status, open, count>> /\ active' = IF active > 0 THEN active - 1 ELSE active
        /\ worker[v] = "finish" /\ worker' = [worker EXCEPT ![v] = "pop"]
    BY Zenon DEF ConnectionFinished, Step, queueVars, mainVars
  <1>2. worker'[v] = "pop" /\ \A w \in Workers : w # v => worker'[w] = worker[w]
    BY <1>1, Zenon DEF Inv, Lifetimes
  <1>3. /\ Holders' = Holders
        /\ v \notin Finishing' /\ Finishing' \subseteq Workers /\ Finishing = Finishing' \cup {v}
    BY <1>1, <1>2, Zenon DEF Holders, Finishing, WorkerHas
  <1>4. Cardinality(Holders') = Cardinality(Holders)
    BY <1>3, Zenon
  <1>5. Cardinality(Finishing) = Cardinality(Finishing') + 1
    BY <1>3, OneMore, Zenon
  <1>6. Uncounted' = Uncounted
    BY <1>1, ZenonT(60) DEF Uncounted
  <1>7. count \in Nat /\ active \in Nat
    BY QueueAssumption DEF Ring, Q!TypeOK, Gauge
  <1>8. /\ active' \in Nat
        /\ active' + Uncounted' >= count' + Cardinality(Holders') + Cardinality(Finishing')
    BY <1>1, <1>4, <1>5, <1>6, <1>7, Counts, SMTT(60) DEF Gauge
  <1> QED
    BY <1>1, <1>8, Zenon DEF Gauge

LEMMA GaugeStep == Inv /\ Ring /\ Own /\ Gauge /\ [Next]_vars => Gauge'
  <1> SUFFICES ASSUME Inv, Ring, Own, Gauge, [Next]_vars PROVE Gauge'
    BY Zenon
  <1>1. CASE UNCHANGED vars
    <2>1. UNCHANGED <<open, active, count, main, status, worker>>
      BY <1>1, Zenon DEF vars, ownVars, queueVars
    <2>2. Uncounted' = Uncounted /\ \A w \in Workers : WorkerHas(w)' <=> WorkerHas(w)
      BY <2>1, Zenon DEF Uncounted, WorkerHas
    <2>3. open' \subseteq Fds
      BY <2>1, Zenon DEF Gauge
    <2> QED
      BY <2>1, <2>2, <2>3, SameHolders, Zenon
  <1>2. CASE MainStep
    BY <1>2, MainGauge, MainCallGauge, WorkerGauge, ZenonT(60) DEF MainStep
  <1>3. ASSUME NEW w \in Workers, WorkerStep(w) \/ Receive(w) \/ Send(w) PROVE Gauge'
    BY <1>3, WorkerGauge, CloseGauge, FinishedGauge, ZenonT(60) DEF WorkerStep
  <1>4. CASE Environment
    BY <1>4, MainGauge, MainCallGauge, CallGauge, ZenonT(60) DEF Environment
  <1>5. ASSUME NEW t \in Threads, QueueAcquire(t) \/ QueueRun(t) PROVE Gauge'
    BY <1>5, CallGauge, ZenonT(60) DEF QueueAcquire, QueueRun
  <1> QED
    BY <1>1, <1>2, <1>3, <1>4, <1>5, ZenonT(60) DEF Next, Terminated

LEMMA InitGauge == Init => Gauge
  <1> SUFFICES ASSUME Init PROVE Gauge
    BY Zenon
  <1>1. /\ active = 0 /\ open = {} /\ count = 0 /\ main = "listen"
        /\ \A w \in Workers : worker[w] = "none"
    BY Zenon DEF Init, Q!Init
  <1>2. Holders = {} /\ Finishing = {} /\ Uncounted = 0
    BY <1>1, Zenon DEF Holders, Finishing, WorkerHas, Uncounted
  <1>3. Cardinality(Holders) = 0 /\ Cardinality(Finishing) = 0
    BY <1>2, FS_EmptySet, Zenon
  <1>4. active + Uncounted >= count + Cardinality(Holders) + Cardinality(Finishing)
    BY <1>1, <1>2, <1>3, SMTT(60)
  <1> QED
    BY <1>1, <1>4, SMTT(60) DEF Gauge

\* What a worker has is a descriptor, so the holders are the workers of InFlight.
LEMMA GaugeCounts == Own /\ Gauge => ActiveNeverUndercounts
  <1> SUFFICES ASSUME Own, Gauge PROVE ActiveNeverUndercounts
    BY Zenon
  <1>1. ASSUME NEW w \in Workers PROVE WorkerHas(w) <=> \E f \in Fds : WorkerHolds(w, f)
    BY <1>1, ZenonT(60) DEF WorkerHas, WorkerHolds, Own, Exclusive, Gauge
  <1>2. Holders = {w \in Workers : \E f \in Fds : WorkerHolds(w, f)}
    BY <1>1, Zenon DEF Holders
  <1>3. InFlight = count + Cardinality(Holders) + Cardinality(Finishing)
    BY <1>2, Zenon DEF InFlight, Finishing
  <1> QED
    BY <1>3, Zenon DEF Gauge, ActiveNeverUndercounts, Uncounted

\* The gauge of active connections never misses one that is queued, being served or
\* still to be accounted for, except the one whose push has succeeded and whose
\* connection_started is to come: although server_stats_connection_finished may come
\* before server_stats_connection_started and is then held at zero (server_stats.c).
THEOREM GaugeNeverUndercounts == Spec => []ActiveNeverUndercounts
  BY InitGauge, GaugeStep, GaugeCounts, Invariance, RingAlways, OwnAlways, PTL DEF Spec
=============================================================================
