---------------------------- MODULE ServerProofs ----------------------------
(***************************************************************************)
(* Theorems about the process, for any number of workers and descriptors,  *)
(* any capacity of the queue, and with or without failing calls: nothing   *)
(* is used outside its lifetime, the process calls the queue by its rules, *)
(* so that everything proved of the queue holds inside the process, every  *)
(* open descriptor has exactly one owner, an exit is clean, and without    *)
(* failing calls the queue is drained.                                     *)
(***************************************************************************)
EXTENDS Server, TLAPS

Parts == {"listener", "logger", "stats", "queue", "pool"}
Running == {"spawn", "spawn_shutdown", "loop", "entering", "accept", "push", "started", "join"}
Active == {"pop", "popping", "recv", "send", "close", "finish"}

\* The *_ready flags by the place of the main thread; the cleanup starts wherever
\* the startup got to.
ReadyByPlace ==
    /\ main = "listen" => ready = {}
    /\ main = "logger" => ready = {"listener"}
    /\ main = "stats" => ready = {"listener", "logger"}
    /\ main = "queue" => ready = {"listener", "logger", "stats"}
    /\ main = "pool" => ready = Parts \ {"pool"}
    /\ main \in Running => ready = Parts
    /\ main \in {"cleanup", "destroy_pool"} => ready \subseteq Parts
    /\ main = "cleanup" /\ "pool" \in ready => ready = Parts
    /\ main = "destroy_queue" => ready \subseteq Parts \ {"pool"}
    /\ main = "destroy_stats" => ready \subseteq {"listener", "logger", "stats"}
    /\ main = "destroy_logger" => ready \subseteq {"listener", "logger"}
    /\ main = "close_listener" => ready \subseteq {"listener"}
    /\ main = "exit" => ready = {}

\* Workers that run are started ones, started ones are joined before anything is
\* taken down, and only a thread that is waiting for a call is inside one.
Lifetimes ==
    /\ worker \in [Workers -> Active \cup {"none", "exited"}]
    /\ live <=> "queue" \in ready
    /\ \A w \in Workers : worker[w] \in Active => w \in started
    /\ started # {} => main \in Running \cup {"cleanup"} /\ ready = Parts
    /\ \A w \in Workers : pc[w] # "idle" => worker[w] = "popping"
    /\ pc[Main] # "idle" => main \in {"push", "spawn_shutdown", "join"}

Calls == pc \in [Threads -> Q!Outside \cup Q!Inside]

Inv == Calls /\ ReadyByPlace /\ Lifetimes

-----------------------------------------------------------------------------
(* The process uses the queue by its rules.                                *)

LEMMA QueueUnchanged == UNCHANGED queueVars => UNCHANGED Q!vars
  BY Zenon DEF queueVars, Q!vars, Q!ring

\* With nobody started, and the main thread outside its calls, nobody is in a call.
LEMMA Quiet ==
    ASSUME Inv, started = {}, main \notin {"push", "spawn_shutdown", "join"}
    PROVE  Q!Quiescent
  BY Zenon DEF Inv, Lifetimes, Active, Q!Quiescent, Calls, Q!Threads, Threads

LEMMA QueueUse == ASSUME Inv, [Next]_vars PROVE [Q!Next]_(Q!vars)
  <1> USE DEF Inv
  <1>1. ASSUME NEW t \in Threads,
               QueueAcquire(t) \/ QueueRun(t) \/ Q!Fault(t) \/ Q!PopSpuriousWakeup(t)
        PROVE  Q!Next
    BY <1>1, Zenon
       DEF QueueAcquire, QueueRun, Q!Next, Q!Step, Q!Threads, Threads
  <1>2. CASE QueueInit
    <2>1. started = {} /\ main = "queue" /\ ~live
      BY <1>2, Zenon DEF QueueInit, Startup, Goto, Lifetimes, ReadyByPlace, Running
    <2> QED
      BY <1>2, <2>1, Quiet, Zenon DEF QueueInit, Q!Next, Q!Lifecycle
  <1>3. CASE QueueDestroy
    <2>1. started = {} /\ main = "destroy_queue" /\ (live <=> "queue" \in ready)
      BY <1>3, Zenon DEF QueueDestroy, Teardown, Goto, Lifetimes, Running
    <2> QED
      BY <1>3, <2>1, Quiet, QueueUnchanged, Zenon DEF QueueDestroy, Q!Next, Q!Lifecycle
  <1>4. ASSUME NEW f \in Fds, Accept(f) PROVE Q!Next
    <2>1. live
      BY <1>4, Zenon DEF Accept, Goto, Lifetimes, ReadyByPlace, Running, Parts
    <2> QED
      BY <1>4, <2>1, Zenon DEF Accept, Q!Next, Q!Call
  <1>5. CASE SpawnFails \/ CleanupShutdown
    <2>1. live
      BY <1>5, Zenon DEF SpawnFails, CleanupShutdown, Goto, Lifetimes, ReadyByPlace, Running, Parts
    <2> QED
      BY <1>5, <2>1, Zenon DEF SpawnFails, CleanupShutdown, Q!Next, Q!Call
  <1>6. ASSUME NEW w \in Workers, WorkerPop(w) PROVE Q!Next
    <2>1. live
      BY <1>6, Zenon DEF WorkerPop, Step, Lifetimes, Active, Parts
    <2> QED
      BY <1>6, <2>1, Zenon DEF WorkerPop, Q!Next, Q!Call
  <1>7. ASSUME NEW t \in Threads, Signal(t) PROVE Q!Next
    BY <1>7, Zenon DEF Signal, Q!Next
  <1>8. CASE UNCHANGED queueVars
    BY <1>8, QueueUnchanged, Zenon
  <1> QED
    BY <1>1, <1>2, <1>3, <1>4, <1>5, <1>6, <1>7, <1>8, Zenon
       DEF vars, Next, MainStep, Environment, WorkerStep, Receive, Send, Terminated,
           Listen, LoggerInit, StatsInit, PoolInit, SpawnWorker, SpawnDone, SpawnJoin, JoinStarted,
           CheckFlag, EnterAccept, PushSucceeded, PushFailed, ConnectionStarted, CleanupSkip, PoolJoin,
           PoolDestroy, StatsDestroy, LoggerDestroy, ListenerClose,
           PopReturned, CloseClient, ConnectionFinished, RecvAnswered, RecvEnded,
           SendKeepsAlive, SendEnded, AcceptFails, StartupFails

\* A step inside a call takes nobody into a call and leaves the lifetime alone.
LEMMA InsideCalls ==
    ASSUME Calls, NEW t \in Threads,
           Q!Acquire(t) \/ Q!Run(t) \/ Q!Fault(t) \/ Q!PopSpuriousWakeup(t)
    PROVE  /\ live' = live
           /\ Calls'
           /\ \A u \in Threads : pc'[u] # "idle" => pc[u] # "idle"
  <1> USE DEF Calls, Q!Inside, Q!Outside, Q!Threads, Threads, Q!ring
  <1>1. CASE Q!Acquire(t)
    BY <1>1, Zenon DEF Q!Acquire, Q!PushLock, Q!PushRelock, Q!PopLock, Q!PopRelock, Q!ShutdownLock, Q!Lock
  <1>2. CASE Q!PushAborted(t) \/ Q!PushRefused(t) \/ Q!PopRefused(t) \/ Q!Fault(t)
    BY <1>2, Zenon DEF Q!PushAborted, Q!PushRefused, Q!PopRefused, Q!Fault, Q!LockFails, Q!PushFails,
                Q!PopFails, Q!UnlockReturn
  <1>3. CASE Q!PushWait(t) \/ Q!PopWait(t) \/ Q!PushTimeout(t) \/ Q!PopSpuriousWakeup(t)
    BY <1>3, Zenon DEF Q!PushWait, Q!PopWait, Q!CondWait, Q!PushTimeout, Q!PopSpuriousWakeup
  <1>4. CASE Q!PushStore(t) \/ Q!PopTake(t)
    BY <1>4, Zenon DEF Q!PushStore, Q!PopTake
  <1>5. CASE Q!PushSignal(t) \/ Q!PopSignal(t)
    BY <1>5, Zenon DEF Q!PushSignal, Q!PopSignal, Q!SignalUnlockReturn, Q!Waiting
  <1>6. CASE Q!ShutdownBroadcast(t)
    BY <1>6, Zenon DEF Q!ShutdownBroadcast, Q!AfterBroadcast
  <1> QED
    BY <1>1, <1>2, <1>3, <1>4, <1>5, <1>6, Zenon DEF Q!Run

LEMMA CallsStep == ASSUME Calls, [Q!Next]_(Q!vars) PROVE Calls'
  <1>1. CASE Q!Lifecycle \/ Q!RaiseAbort \/ UNCHANGED Q!vars
    BY <1>1, Zenon DEF Q!Lifecycle, Q!Create, Q!Destroy, Q!RaiseAbort, Q!vars, Calls
  <1>2. CASE Q!Call
    BY <1>2, ZenonT(60) DEF Q!Call, Q!CallPush, Q!CallShutdown, Q!CallPop, Calls, Q!Outside, Q!Inside, Threads
  <1> QED
    BY <1>1, <1>2, InsideCalls, Zenon DEF Q!Next, Q!Step, Q!Threads, Threads

-----------------------------------------------------------------------------
(* The lifetimes are inductive.                                            *)

LEMMA StartupStep ==
    ASSUME Inv,
           Listen \/ LoggerInit \/ StatsInit \/ QueueInit \/ PoolInit \/ StartupFails
    PROVE  ReadyByPlace' /\ Lifetimes'
  <1> USE DEF Inv, ReadyByPlace, Lifetimes, Running, Parts, Goto
  <1>1. CASE Listen
    BY <1>1, Zenon DEF Listen, Startup, queueVars
  <1>2. CASE LoggerInit
    BY <1>2, Zenon DEF LoggerInit, Startup, queueVars
  <1>3. CASE StatsInit
    BY <1>3, Zenon DEF StatsInit, Startup, queueVars
  <1>4. CASE QueueInit
    BY <1>4, Zenon DEF QueueInit, Startup, Q!Create
  <1>5. CASE PoolInit
    BY <1>5, Zenon DEF PoolInit, Startup, queueVars
  <1>6. CASE StartupFails
    BY <1>6, Zenon DEF StartupFails, queueVars
  <1> QED
    BY <1>1, <1>2, <1>3, <1>4, <1>5, <1>6, Zenon

LEMMA SpawnStep ==
    ASSUME Inv, (\E w \in Workers : SpawnWorker(w)) \/ SpawnDone \/ SpawnFails
    PROVE  ReadyByPlace' /\ Lifetimes'
  <1> USE DEF Inv, ReadyByPlace, Lifetimes, Running, Active, Goto
  <1>1. ASSUME NEW w \in Workers, SpawnWorker(w) PROVE ReadyByPlace' /\ Lifetimes'
    BY <1>1, Zenon DEF SpawnWorker, Step, queueVars
  <1>2. CASE SpawnDone
    BY <1>2, Zenon DEF SpawnDone, queueVars
  <1>3. CASE SpawnFails
    BY <1>3, WorkersAssumption, Zenon DEF SpawnFails, Q!CallShutdown, Calls, Q!Threads, Threads
  <1> QED
    BY <1>1, <1>2, <1>3, Zenon

LEMMA JoinStep ==
    ASSUME Inv, SpawnJoin \/ PoolJoin
    PROVE  ReadyByPlace' /\ Lifetimes'
  BY SMTT(60) DEF SpawnJoin, PoolJoin, JoinStarted, queueVars, Inv, ReadyByPlace, Lifetimes, Running, Active,
         Goto

LEMMA LoopStep ==
    ASSUME Inv,
           \/ CheckFlag \/ EnterAccept \/ AcceptFails \/ PushSucceeded \/ PushFailed \/ ConnectionStarted
           \/ \E t \in Threads : Signal(t)
           \/ \E f \in Fds : Accept(f)
    PROVE  ReadyByPlace' /\ Lifetimes'
  <1> USE DEF Inv, ReadyByPlace, Lifetimes, Running, Active, Goto
  <1>1. CASE CheckFlag \/ EnterAccept \/ AcceptFails \/ ConnectionStarted
    BY <1>1, SMTT(60) DEF CheckFlag, EnterAccept, AcceptFails, ConnectionStarted, queueVars
  <1>2. CASE PushSucceeded \/ PushFailed
    BY <1>2, SMTT(60) DEF PushSucceeded, PushFailed, queueVars
  <1>3. ASSUME NEW t \in Threads, Signal(t) PROVE ReadyByPlace' /\ Lifetimes'
    BY <1>3 DEF Signal, Q!RaiseAbort
  <1>4. ASSUME NEW f \in Fds, Accept(f) PROVE ReadyByPlace' /\ Lifetimes'
    BY <1>4, WorkersAssumption, Zenon DEF Accept, Q!CallPush, Calls, Q!Threads, Threads
  <1> QED
    BY <1>1, <1>2, <1>3, <1>4, Zenon

LEMMA CleanupStep ==
    ASSUME Inv,
           \/ CleanupShutdown \/ CleanupSkip \/ PoolDestroy \/ QueueDestroy
           \/ StatsDestroy \/ LoggerDestroy \/ ListenerClose
    PROVE  ReadyByPlace' /\ Lifetimes'
  <1> USE DEF Inv, ReadyByPlace, Lifetimes, Running, Active, Parts, Goto
  <1>1. CASE CleanupShutdown
    BY <1>1, WorkersAssumption, Zenon DEF CleanupShutdown, Q!CallShutdown, Calls, Q!Threads, Threads
  <1>2. CASE CleanupSkip
    BY <1>2, Zenon DEF CleanupSkip, queueVars
  <1>3. CASE PoolDestroy
    BY <1>3, Zenon DEF PoolDestroy, Teardown, queueVars
  <1>4. CASE QueueDestroy
    BY <1>4, Zenon DEF QueueDestroy, Teardown, Q!Destroy, queueVars
  <1>5. CASE StatsDestroy
    BY <1>5, Zenon DEF StatsDestroy, Teardown, queueVars
  <1>6. CASE LoggerDestroy
    BY <1>6, Zenon DEF LoggerDestroy, Teardown, queueVars
  <1>7. CASE ListenerClose
    BY <1>7, Zenon DEF ListenerClose, Teardown, queueVars
  <1> QED
    BY <1>1, <1>2, <1>3, <1>4, <1>5, <1>6, <1>7, ZenonT(60)

LEMMA WorkerMoves ==
    ASSUME Inv, NEW w \in Workers, WorkerStep(w) \/ Receive(w) \/ Send(w)
    PROVE  ReadyByPlace' /\ Lifetimes'
  <1>1. ReadyByPlace'
    BY DEF Inv, ReadyByPlace, WorkerStep, Receive, Send, WorkerPop, PopReturned, CloseClient,
           ConnectionFinished, RecvAnswered, RecvEnded, SendKeepsAlive, SendEnded, mainVars
  <1> USE DEF Inv, Lifetimes, Active, Step, mainVars
  <1>2. CASE WorkerPop(w)
    BY <1>1, <1>2, WorkersAssumption, Zenon DEF WorkerPop, Q!CallPop, Calls, Q!Threads, Threads
  <1>3. CASE PopReturned(w)
    BY <1>1, <1>3, Zenon DEF PopReturned, queueVars
  <1>4. CASE CloseClient(w) \/ ConnectionFinished(w) \/ Receive(w) \/ Send(w)
    <2>1. PICK to \in Active : /\ worker[w] \in Active \ {"popping"}
                              /\ worker' = [worker EXCEPT ![w] = to]
                              /\ UNCHANGED <<queueVars, mainVars>>
      BY <1>4, Zenon DEF CloseClient, ConnectionFinished, Receive, Send, RecvAnswered, RecvEnded,
                  SendKeepsAlive, SendEnded
    <2> QED
      BY <1>1, <2>1, Zenon DEF queueVars
  <1> QED
    BY <1>2, <1>3, <1>4, Zenon DEF WorkerStep

LEMMA CallStep ==
    ASSUME Inv, NEW t \in Threads, UNCHANGED ownVars,
           Q!Acquire(t) \/ Q!Run(t) \/ Q!Fault(t) \/ Q!PopSpuriousWakeup(t)
    PROVE  ReadyByPlace' /\ Lifetimes'
  <1>1. live' = live /\ \A u \in Threads : pc'[u] # "idle" => pc[u] # "idle"
    BY InsideCalls, Zenon DEF Inv
  <1> QED
    BY <1>1, ZenonT(60) DEF Inv, ReadyByPlace, Lifetimes, ownVars, Threads

LEMMA InvStep == Inv /\ [Next]_vars => Inv'
  <1> SUFFICES ASSUME Inv, [Next]_vars PROVE Inv'
    BY Zenon
  <1>1. Calls'
    BY QueueUse, CallsStep, Zenon DEF Inv
  <1>2. ASSUME UNCHANGED vars PROVE ReadyByPlace' /\ Lifetimes'
    BY <1>2 DEF vars, ownVars, queueVars, Inv, ReadyByPlace, Lifetimes
  <1>3. ASSUME Next PROVE ReadyByPlace' /\ Lifetimes'
    BY <1>2, <1>3, StartupStep, SpawnStep, JoinStep, LoopStep, CleanupStep, WorkerMoves, CallStep, Zenon
       DEF Next, MainStep, Environment, QueueAcquire, QueueRun, Terminated
  <1> QED
    BY <1>1, <1>2, <1>3, Zenon DEF Inv

LEMMA InitInv == Init => Inv
  <1> SUFFICES ASSUME Init PROVE Inv
    BY Zenon
  <1>1. Q!Init
    BY Zenon DEF Init
  <1>2. Calls
    BY <1>1, Zenon DEF Q!Init, Q!Threads, Threads, Calls, Q!Outside, Q!Inside
  <1>3. ReadyByPlace
    BY Zenon DEF Init, ReadyByPlace, Running
  <1>4. Lifetimes
    BY <1>1, WorkersAssumption, Zenon DEF Init, Q!Init, Q!Threads, Lifetimes, Active
  <1> QED
    BY <1>2, <1>3, <1>4, Zenon DEF Inv

LEMMA Invariance == Spec => []Inv
  BY InitInv, InvStep, PTL DEF Spec

\* The process creates, calls and destroys the queue by the rules the queue's theorems
\* assume (a live queue for every call, nobody inside at creation and destruction), so
\* they hold of the queue inside the process.
THEOREM QueueUsedByRules == Spec => Q!Spec
  <1>1. Init => Q!Init
    BY Zenon DEF Init
  <1>2. Inv /\ [Next]_vars => [Q!Next]_(Q!vars)
    BY QueueUse, Zenon
  <1> QED
    BY <1>1, <1>2, Invariance, PTL DEF Spec, Q!Spec

\* No thread is inside a call on a queue that is not there, and no worker runs when
\* the queue, the statistics, the logger or the pool is gone, for any number of
\* workers and wherever startup failed.
THEOREM NothingUsedAfterDestroy == Spec => []NoUseAfterDestroy
  <1>1. Inv => NoUseAfterDestroy
    <2> SUFFICES ASSUME Inv PROVE NoUseAfterDestroy
      BY Zenon
    <2>1. ASSUME NEW w \in Workers, worker[w] \in Active PROVE ready = Parts
      BY <2>1, Zenon DEF Inv, Lifetimes
    <2>2. ASSUME NEW t \in Threads, pc[t] # "idle" PROVE live
      <3>1. CASE t = Main
        BY <2>2, <3>1, Zenon DEF Inv, Lifetimes, ReadyByPlace, Running, Parts
      <3>2. CASE t \in Workers
        BY <2>1, <2>2, <3>2, Zenon DEF Inv, Lifetimes, Active, Parts
      <3> QED
        BY <3>1, <3>2, Zenon DEF Threads
    <2> QED
      BY <2>1, <2>2, Zenon DEF NoUseAfterDestroy, Inv, Lifetimes, Parts
  <1> QED
    BY <1>1, Invariance, PTL

-----------------------------------------------------------------------------
(* Who has which descriptor.  That this is inductive rests on the ring     *)
(* (Ring), which the last part takes from the queue's theorems.            *)

MainHas == main = "push" /\ status[Main] # "OK"
WorkerHas(w) == (worker[w] = "popping" /\ status[w] = "OK") \/ worker[w] \in {"recv", "send", "close"}
Queued(i) == items[Q!SlotOf(i)]
Positions == 0..(count - 1)

\* Which calls a thread makes, and that it has no result while it is waiting for one.
CallResults ==
    /\ pc[Main] \in Q!Pushing \cup {"idle", "push_signal", "shutdown_lock", "shutdown_set"}
    /\ pc[Main] \in Q!Pushing => main = "push" /\ status[Main] # "OK"
    /\ \A w \in Workers :
          /\ pc[w] \in {"idle", "pop_lock", "pop_loop", "pop_wait", "pop_relock", "pop_signal"}
          /\ pc[w] \in {"pop_lock", "pop_loop", "pop_wait", "pop_relock"} => status[w] # "OK"

\* Whoever has a descriptor has an open one that nobody else has ...
Exclusive ==
    /\ MainHas => fd[Main] \in open
    /\ \A i \in Positions : Queued(i) \in open /\ (MainHas => Queued(i) # fd[Main])
    /\ \A i, j \in Positions : i # j => Queued(i) # Queued(j)
    /\ \A w \in Workers : WorkerHas(w) =>
          /\ fd[w] \in open
          /\ MainHas => fd[w] # fd[Main]
          /\ \A i \in Positions : fd[w] # Queued(i)
          /\ \A v \in Workers : v # w /\ WorkerHas(v) => fd[v] # fd[w]

\* ... and no open one is forgotten.
Covered ==
    \A f \in open : \/ MainHas /\ fd[Main] = f
                    \/ \E i \in Positions : Queued(i) = f
                    \/ \E w \in Workers : WorkerHas(w) /\ fd[w] = f

Own == CallResults /\ Exclusive /\ Covered /\ (~live => count = 0)

\* What the queue's theorems say of the ring.
Ring ==
    /\ Q!TypeOK
    /\ tail = Q!SlotOf(count)
    /\ count > 0 => Q!SlotOf(0) = head
    /\ \A i \in Positions : Q!SlotOf(i) \in Q!Slots
    /\ count < Capacity => \A i \in Positions : Q!SlotOf(i) # Q!SlotOf(count)
    /\ \A i \in 0..(count - 2) : (((head + 1) % Capacity) + i) % Capacity = Q!SlotOf(i + 1)

-----------------------------------------------------------------------------

\* Most steps change neither the queue's contents nor what a thread has.
LEMMA Kept ==
    ASSUME Exclusive, Covered, UNCHANGED <<open, items, head, count>>,
           MainHas' <=> MainHas, MainHas => fd'[Main] = fd[Main],
           \A w \in Workers : (WorkerHas(w)' <=> WorkerHas(w)) /\ (WorkerHas(w) => fd'[w] = fd[w])
    PROVE  Exclusive' /\ Covered'
  <1>1. Positions' = Positions /\ \A i \in Positions : Queued(i)' = Queued(i)
    BY Zenon DEF Positions, Queued, Q!SlotOf
  <1>2. Exclusive'
    BY <1>1, SMTT(60) DEF Exclusive
  <1>3. Covered'
    BY <1>1, ZenonT(60) DEF Covered
  <1> QED
    BY <1>2, <1>3, Zenon

\* A new descriptor comes to the main thread, which had none.
LEMMA AcceptOwn == ASSUME Inv, Ring, Own, NEW f \in Fds, Accept(f) PROVE Own'
  <1> USE DEF Accept, Q!CallPush, Ring, Q!TypeOK, Goto
  <1>1. ~MainHas /\ MainHas' /\ fd'[Main] = f /\ f \notin open /\ open' = open \cup {f}
    BY Zenon DEF MainHas, Q!Threads
  <1>2. Positions' = Positions /\ \A i \in Positions : Queued(i)' = Queued(i)
    BY Zenon DEF Positions, Queued, Q!SlotOf, Q!ring
  <1>3. \A w \in Workers : (WorkerHas(w)' <=> WorkerHas(w)) /\ fd'[w] = fd[w]
    BY WorkersAssumption, Zenon DEF WorkerHas, Q!Threads
  <1>4. CallResults'
    BY WorkersAssumption, Zenon DEF Own, CallResults, Q!Pushing, Q!Threads
  <1>5. Exclusive'
    BY <1>1, <1>2, <1>3, SMTT(60) DEF Own, Exclusive
  <1>6. Covered'
    BY <1>1, <1>2, <1>3, SMTT(60) DEF Own, Covered
  <1>7. ~live' => count' = 0
    BY Zenon DEF Own, Q!ring
  <1> QED
    BY <1>4, <1>5, <1>6, <1>7, Zenon DEF Own

\* Push did not take the descriptor and the main thread closes it.
LEMMA PushFailedOwn == ASSUME Inv, Ring, Own, PushFailed PROVE Own'
  <1>1. MainHas /\ ~MainHas' /\ open' = open \ {fd[Main]} /\ UNCHANGED <<queueVars, worker>>
    BY Zenon DEF PushFailed, MainHas, Goto
  <1>2. Positions' = Positions /\ \A i \in Positions : Queued(i)' = Queued(i)
    BY <1>1, Zenon DEF Positions, Queued, Q!SlotOf, queueVars
  <1>3. \A w \in Workers : (WorkerHas(w)' <=> WorkerHas(w)) /\ fd'[w] = fd[w]
    BY <1>1, Zenon DEF WorkerHas, queueVars
  <1>4. CallResults'
    BY <1>1, Zenon DEF PushFailed, Own, CallResults, queueVars, Q!Pushing
  <1>5. Exclusive'
    BY <1>1, <1>2, <1>3, SMTT(60) DEF Own, Exclusive
  <1>6. Covered'
    BY <1>1, <1>2, <1>3, ZenonT(60) DEF Own, Covered
  <1>7. ~live' => count' = 0
    BY <1>1, Zenon DEF Own, queueVars
  <1> QED
    BY <1>4, <1>5, <1>6, <1>7, Zenon DEF Own

\* The worker closes the descriptor it has.
LEMMA CloseOwn == ASSUME Inv, Ring, Own, NEW v \in Workers, CloseClient(v) PROVE Own'
  <1>1. WorkerHas(v) /\ ~WorkerHas(v)' /\ open' = open \ {fd[v]} /\ UNCHANGED <<queueVars, main>>
    BY Zenon DEF CloseClient, Step, WorkerHas, mainVars, Inv, Lifetimes
  <1>2. Positions' = Positions /\ \A i \in Positions : Queued(i)' = Queued(i)
    BY <1>1, Zenon DEF Positions, Queued, Q!SlotOf, queueVars
  <1>3. /\ \A w \in Workers : w # v => (WorkerHas(w)' <=> WorkerHas(w))
        /\ UNCHANGED fd /\ (MainHas' <=> MainHas)
    BY <1>1, Zenon DEF CloseClient, Step, WorkerHas, MainHas, queueVars, Inv, Lifetimes
  <1>4. CallResults'
    BY <1>1, Zenon DEF Own, CallResults, queueVars
  <1>5. Exclusive'
    BY <1>1, <1>2, <1>3, SMTT(60) DEF Own, Exclusive
  <1>6. Covered'
    BY <1>1, <1>2, <1>3, Zenon DEF Own, Covered
  <1>7. ~live' => count' = 0
    BY <1>1, Zenon DEF Own, queueVars
  <1> QED
    BY <1>4, <1>5, <1>6, <1>7, Zenon DEF Own

\* Push stores: the main thread's descriptor becomes the last queued one.
LEMMA StoreOwn ==
    ASSUME Inv, Ring, Own, NEW t \in Threads, Q!PushStore(t), UNCHANGED ownVars
    PROVE  Own'
  <1>1. t = Main
    BY Zenon DEF Q!PushStore, Own, CallResults, Threads
  <1>2. MainHas /\ ~MainHas' /\ UNCHANGED <<fd, open, worker>>
    BY <1>1, Zenon DEF Q!PushStore, Own, CallResults, Q!Pushing, MainHas, ownVars, Ring, Q!TypeOK, Q!Threads
  <1> PICK n : n = count
    BY Zenon
  <1>3. n = count /\ n \in Nat /\ n < Capacity /\ count' = n + 1
    BY QueueAssumption, SMTT(60) DEF Q!PushStore, Q!MustWaitToPush, Ring, Q!TypeOK
  <1>4. \A i \in Positions : Queued(i)' = Queued(i)
    BY <1>3, Zenon DEF Q!PushStore, Ring, Q!TypeOK, Queued, Q!SlotOf
  <1>5. Queued(n)' = fd[Main]
    BY <1>1, <1>3, Zenon DEF Q!PushStore, Ring, Q!TypeOK, Queued, Q!SlotOf
  <1>6. \A i : i \in Positions' <=> i \in Positions \/ i = n
    BY <1>3 DEF Positions
  <1>7. n \in Positions' /\ n \notin Positions
    BY <1>3, SMTT(60) DEF Positions
  <1>8. \A w \in Workers : WorkerHas(w)' <=> WorkerHas(w)
    BY <1>1, <1>2, WorkersAssumption, Zenon DEF Q!PushStore, WorkerHas, Ring, Q!TypeOK, Q!Threads
  <1>9. CallResults'
    BY <1>1, <1>2, WorkersAssumption, Zenon
       DEF Q!PushStore, Own, CallResults, Q!Pushing, Ring, Q!TypeOK, Q!Threads
  <1>10. \A i \in Positions' :
            \/ i \in Positions /\ Queued(i)' = Queued(i)
            \/ i = n /\ Queued(i)' = fd[Main]
    BY <1>4, <1>5, <1>6, Zenon
  <1>11. Exclusive'
    BY <1>2, <1>7, <1>8, <1>10, Zenon DEF Own, Exclusive
  <1>12. Covered'
    BY <1>2, <1>4, <1>5, <1>6, <1>7, <1>8, ZenonT(60) DEF Own, Covered
  <1>13. live
    BY <1>1, <1>2, Zenon DEF MainHas, Inv, Lifetimes, ReadyByPlace, Running, Parts
  <1>14. live'
    BY <1>13, Zenon DEF Q!PushStore
  <1> QED
    BY <1>9, <1>11, <1>12, <1>14, Zenon DEF Own

\* Pop takes: the first queued descriptor becomes the worker's, the others move up.
LEMMA TakeOwn ==
    ASSUME Inv, Ring, Own, NEW t \in Threads, Q!PopTake(t), UNCHANGED ownVars
    PROVE  Own'
  <1>1. t \in Workers /\ t # Main
    BY WorkersAssumption, Zenon DEF Q!PopTake, Own, CallResults, Q!Pushing, Threads
  <1>2. ~WorkerHas(t) /\ WorkerHas(t)' /\ UNCHANGED <<open, worker, main>>
    BY <1>1, Zenon DEF Q!PopTake, Own, CallResults, WorkerHas, ownVars, Ring, Q!TypeOK, Q!Threads,
                Inv, Lifetimes
  <1>3. count \in Nat /\ count > 0 /\ count' = count - 1
    BY QueueAssumption, SMTT(60) DEF Q!PopTake, Q!MustWaitToPop, Ring, Q!TypeOK
  <1>4. 0 \in Positions /\ fd'[t] = Queued(0)
    BY <1>1, <1>3, SMTT(60) DEF Q!PopTake, Ring, Q!TypeOK, Q!Threads, Queued, Positions
  <1>5. \A i \in Positions' : i + 1 \in Positions /\ i + 1 # 0 /\ Queued(i)' = Queued(i + 1)
    BY <1>3 DEF Q!PopTake, Ring, Q!TypeOK, Queued, Q!SlotOf, Positions
  <1>6. \A i, j \in Positions' : i # j => i + 1 # j + 1
    BY <1>3 DEF Positions
  <1>7. \A i \in Positions : i = 0 \/ \E j \in Positions' : i = j + 1
    <2>1. ASSUME NEW i \in Positions, i # 0 PROVE i - 1 \in Positions' /\ i = (i - 1) + 1
      BY <1>3, <2>1 DEF Positions
    <2> QED
      BY <2>1, Zenon
  <1>8. /\ \A w \in Workers : w # t => (WorkerHas(w)' <=> WorkerHas(w)) /\ fd'[w] = fd[w]
        /\ MainHas' <=> MainHas
        /\ fd'[Main] = fd[Main]
    BY <1>1, <1>2, ZenonT(60) DEF Q!PopTake, WorkerHas, MainHas, Ring, Q!TypeOK, Q!Threads
  <1>9. CallResults'
    BY <1>1, <1>2, Zenon DEF Q!PopTake, Own, CallResults, Ring, Q!TypeOK, Q!Threads
  <1>10. Exclusive'
    BY <1>1, <1>2, <1>4, <1>5, <1>6, <1>8, ZenonT(60) DEF Own, Exclusive
  <1>11. Covered'
    BY <1>1, <1>2, <1>4, <1>5, <1>7, <1>8, SMTT(60) DEF Own, Covered
  <1>12. ~live' => count' = 0
    BY <1>3 DEF Q!PopTake, Own
  <1> QED
    BY <1>9, <1>10, <1>11, <1>12, Zenon DEF Own

\* The other steps inside a call store no result that would hand anything over.
LEMMA CallOwn ==
    ASSUME Inv, Ring, Own, NEW t \in Threads, UNCHANGED ownVars,
           Q!Acquire(t) \/ Q!Run(t) \/ Q!Fault(t) \/ Q!PopSpuriousWakeup(t)
    PROVE  Own'
  <1> USE WorkersAssumption DEF Q!Threads, Threads, Q!ring
  <1> DEFINE Told == \E st \in {"SHUTDOWN", "ERROR"} : status' = [status EXCEPT ![t] = st]
  <1>1. ASSUME UNCHANGED <<items, head, count, live, fd>>, CallResults',
               UNCHANGED status \/ (Told /\ status[t] # "OK")
        PROVE  Own'
    <2>1. \A u \in Threads : status'[u] = "OK" <=> status[u] = "OK"
      BY <1>1, Zenon DEF Ring, Q!TypeOK
    <2>2. MainHas' <=> MainHas
      BY <2>1, ZenonT(60) DEF MainHas, ownVars
    <2>3. \A w \in Workers : WorkerHas(w)' <=> WorkerHas(w)
      BY <2>1, Zenon DEF WorkerHas, ownVars
    <2>4. Exclusive' /\ Covered'
      BY <1>1, <2>2, <2>3, Kept, Zenon DEF Own, ownVars
    <2> QED
      BY <1>1, <2>4, Zenon DEF Own
  <1> USE DEF Own, CallResults, Q!Pushing, Ring, Q!TypeOK, ownVars
  <1>2. CASE Q!Acquire(t)
    <2>1. CallResults'
      BY <1>2, ZenonT(60) DEF Q!Acquire, Q!PushLock, Q!PushRelock, Q!PopLock, Q!PopRelock, Q!ShutdownLock, Q!Lock
    <2>2. UNCHANGED <<items, head, count, live, fd, status>>
      BY <1>2, Zenon DEF Q!Acquire, Q!PushLock, Q!PushRelock, Q!PopLock, Q!PopRelock, Q!ShutdownLock, Q!Lock
    <2> QED
      BY <1>1, <2>1, <2>2, Zenon
  <1>3. CASE Q!PushAborted(t) \/ Q!PushRefused(t) \/ Q!PopRefused(t) \/ Q!Fault(t)
    <2>1. /\ Told /\ pc' = [pc EXCEPT ![t] = "idle"] /\ UNCHANGED <<items, head, count, live, fd>>
          /\ pc[t] \in {"push_lock", "push_loop", "pop_lock", "pop_loop"}
      BY <1>3, ZenonT(60) DEF Q!PushAborted, Q!PushRefused, Q!PopRefused, Q!Fault, Q!LockFails, Q!PushFails,
                  Q!PopFails, Q!UnlockReturn
    <2>2. status[t] # "OK"
      BY <2>1, Zenon
    <2>3. CallResults'
      BY <2>1, ZenonT(60)
    <2> QED
      BY <1>1, <2>1, <2>2, <2>3, Zenon
  <1>4. CASE Q!PushWait(t) \/ Q!PopWait(t) \/ Q!PushTimeout(t) \/ Q!PopSpuriousWakeup(t)
    <2>1. CallResults' /\ UNCHANGED <<items, head, count, live, fd, status>>
      BY <1>4, ZenonT(60) DEF Q!PushWait, Q!PopWait, Q!CondWait, Q!PushTimeout, Q!PopSpuriousWakeup
    <2> QED
      BY <1>1, <2>1, Zenon
  <1>5. CASE Q!PushSignal(t) \/ Q!PopSignal(t)
    <2>1. CallResults' /\ UNCHANGED <<items, head, count, live, fd, status>>
      BY <1>5, ZenonT(60) DEF Q!PushSignal, Q!PopSignal, Q!SignalUnlockReturn, Q!Waiting
    <2> QED
      BY <1>1, <2>1, Zenon
  <1>6. CASE Q!ShutdownBroadcast(t)
    <2>1. CallResults' /\ UNCHANGED <<items, head, count, live, fd, status>>
      BY <1>6, Zenon DEF Q!ShutdownBroadcast, Q!AfterBroadcast
    <2> QED
      BY <1>1, <2>1, Zenon
  <1> QED
    BY <1>2, <1>3, <1>4, <1>5, <1>6, StoreOwn, TakeOwn, ZenonT(60) DEF Q!Run

-----------------------------------------------------------------------------
(* Construction, destruction, and the steps that hand nothing over.        *)

LEMMA LifecycleOwn == ASSUME Inv, Own, QueueInit \/ QueueDestroy PROVE Own'
  <1>1. /\ main \notin {"push"} /\ main' # "push" /\ UNCHANGED <<worker, fd, status, pc>>
        /\ started = {} /\ (live <=> "queue" \in ready)
    BY Zenon DEF QueueInit, QueueDestroy, Startup, Teardown, Goto, Q!Create, Q!Destroy, queueVars,
           Inv, Lifetimes, ReadyByPlace, Running
  <1>2. ~MainHas /\ ~MainHas' /\ \A w \in Workers : ~WorkerHas(w) /\ ~WorkerHas(w)'
    BY <1>1, Zenon DEF MainHas, WorkerHas, Inv, Lifetimes, Active
  <1>3. CallResults'
    BY <1>1, Zenon DEF Own, CallResults, Q!Pushing
  <1>4. CASE QueueInit
    <2>1. count = 0 /\ count' = 0 /\ UNCHANGED open
      BY <1>1, <1>4, Zenon DEF QueueInit, Startup, Goto, Q!Create, Own, Inv, ReadyByPlace
    <2>2. Positions = {} /\ Positions' = {}
      BY <2>1 DEF Positions
    <2>3. Exclusive'
      BY <1>2, <2>1, <2>2, Zenon DEF Own, Exclusive
    <2>4. Covered'
      BY <1>2, <2>1, <2>2, ZenonT(60) DEF Own, Covered
    <2> QED
      BY <1>3, <2>1, <2>3, <2>4, Zenon DEF Own
  <1>5. CASE QueueDestroy /\ "queue" \in ready
    <2>1. count' = 0 /\ open' = open \ Q!Leftover
      BY <1>5, Zenon DEF QueueDestroy, Q!Destroy
    <2>2. \A i \in Positions : Queued(i) \in Q!Leftover
      BY Zenon DEF Q!Leftover, Queued, Positions
    <2>3. Exclusive'
      BY <1>2, <2>1 DEF Exclusive, Positions
    <2>4. Covered'
      BY <1>2, <2>1, <2>2, ZenonT(60) DEF Own, Covered
    <2> QED
      BY <1>3, <2>1, <2>3, <2>4, Zenon DEF Own
  <1>6. CASE QueueDestroy /\ "queue" \notin ready
    <2>1. UNCHANGED <<items, head, count, live, open>>
      BY <1>6, Zenon DEF QueueDestroy, queueVars
    <2>2. Exclusive' /\ Covered'
      BY <1>1, <1>2, <2>1, Kept, Zenon DEF Own
    <2> QED
      BY <1>3, <2>1, <2>2, Zenon DEF Own
  <1> QED
    BY <1>4, <1>5, <1>6, Zenon

LEMMA MainOwn ==
    ASSUME Inv, Own,
           \/ Listen \/ LoggerInit \/ StatsInit \/ PoolInit \/ StartupFails \/ SpawnDone
           \/ SpawnJoin \/ PoolJoin \/ CheckFlag \/ EnterAccept \/ AcceptFails \/ PushSucceeded
           \/ ConnectionStarted \/ CleanupSkip
           \/ PoolDestroy \/ StatsDestroy \/ LoggerDestroy \/ ListenerClose
    PROVE  Own'
  <1>1. /\ UNCHANGED <<queueVars, worker, open>> /\ main' # "push"
        /\ main = "push" => pc[Main] = "idle" /\ status[Main] = "OK"
    BY Zenon DEF Listen, LoggerInit, StatsInit, PoolInit, StartupFails, SpawnDone, SpawnJoin, PoolJoin,
           JoinStarted, CheckFlag, EnterAccept, AcceptFails, PushSucceeded, ConnectionStarted, CleanupSkip,
           PoolDestroy, StatsDestroy, LoggerDestroy, ListenerClose, Startup, Teardown, Goto
  <1>2. /\ ~MainHas /\ ~MainHas' /\ UNCHANGED fd
        /\ \A w \in Workers : WorkerHas(w)' <=> WorkerHas(w)
    BY <1>1, ZenonT(60) DEF MainHas, WorkerHas, queueVars
  <1>3. CallResults'
    BY <1>1, Zenon DEF Own, CallResults, queueVars, Q!Pushing
  <1>4. Exclusive' /\ Covered'
    BY <1>1, <1>2, Kept, Zenon DEF Own, queueVars
  <1> QED
    BY <1>1, <1>3, <1>4, Zenon DEF Own, queueVars

LEMMA ShutdownOwn == ASSUME Inv, Ring, Own, SpawnFails \/ CleanupShutdown PROVE Own'
  <1>1. /\ main # "push" /\ main' # "push" /\ UNCHANGED <<worker, open, items, head, count, live, fd>>
        /\ pc' = [pc EXCEPT ![Main] = "shutdown_lock"]
        /\ status' = [status EXCEPT ![Main] = "none"]
    BY Zenon DEF SpawnFails, CleanupShutdown, Goto, Q!CallShutdown, Q!ring
  <1>2. ~MainHas /\ ~MainHas' /\ \A w \in Workers : WorkerHas(w)' <=> WorkerHas(w)
    BY <1>1, WorkersAssumption, Zenon DEF MainHas, WorkerHas, Ring, Q!TypeOK, Q!Threads
  <1>3. CallResults'
    BY <1>1, WorkersAssumption, Zenon DEF Own, CallResults, Q!Pushing, Ring, Q!TypeOK, Q!Threads
  <1>4. Exclusive' /\ Covered'
    BY <1>1, <1>2, Kept, Zenon DEF Own
  <1> QED
    BY <1>1, <1>3, <1>4, Zenon DEF Own

LEMMA SignalOwn == ASSUME Own, NEW t \in Threads, Signal(t) PROVE Own'
  <1>1. /\ UNCHANGED <<worker, open, items, head, count, live, fd, pc, status>>
        /\ main' = "push" <=> main = "push"
    BY Zenon DEF Signal, Q!RaiseAbort, Q!ring
  <1>2. (MainHas' <=> MainHas) /\ \A w \in Workers : WorkerHas(w)' <=> WorkerHas(w)
    BY <1>1, Zenon DEF MainHas, WorkerHas
  <1>3. CallResults'
    BY <1>1, Zenon DEF Own, CallResults
  <1>4. Exclusive' /\ Covered'
    BY <1>1, <1>2, Kept, Zenon DEF Own
  <1> QED
    BY <1>1, <1>3, <1>4, Zenon DEF Own

LEMMA WorkerOwn ==
    ASSUME Inv, Ring, Own, NEW v \in Workers,
           SpawnWorker(v) \/ WorkerPop(v) \/ PopReturned(v) \/ Receive(v) \/ Send(v)
              \/ ConnectionFinished(v)
    PROVE  Own'
  <1> USE DEF Inv, Lifetimes, Step, mainVars
  <1>1. UNCHANGED <<main, open, items, head, count, live>>
    BY Zenon DEF SpawnWorker, WorkerPop, Q!CallPop, Q!ring, PopReturned, Receive, RecvAnswered, RecvEnded,
           Send, SendKeepsAlive, SendEnded, ConnectionFinished, queueVars
  <1>2. CASE WorkerPop(v)
    <2>1. /\ \A w \in Workers : (WorkerHas(w)' <=> WorkerHas(w)) /\ (WorkerHas(w) => fd'[w] = fd[w])
          /\ MainHas' <=> MainHas
          /\ fd'[Main] = fd[Main]
      BY <1>1, <1>2, WorkersAssumption, Zenon DEF WorkerPop, Q!CallPop, WorkerHas, MainHas, Ring, Q!TypeOK,
                                           Q!Threads
    <2>2. CallResults'
      BY <1>1, <1>2, WorkersAssumption, Zenon DEF WorkerPop, Q!CallPop, Own, CallResults, Ring, Q!TypeOK,
                                           Q!Threads
    <2> QED
      BY <1>1, <2>1, <2>2, Kept, Zenon DEF Own
  <1>3. CASE ~WorkerPop(v)
    <2>1. UNCHANGED <<pc, fd, status>>
      BY <1>3, Zenon DEF SpawnWorker, PopReturned, Receive, RecvAnswered, RecvEnded, Send, SendKeepsAlive,
                  SendEnded, ConnectionFinished, queueVars
    <2>2. \A w \in Workers : WorkerHas(w)' <=> WorkerHas(w)
      BY <1>3, <2>1, ZenonT(60) DEF SpawnWorker, PopReturned, Receive, RecvAnswered, RecvEnded, Send,
                  SendKeepsAlive, SendEnded, ConnectionFinished, WorkerHas
    <2>3. MainHas' <=> MainHas
      BY <1>1, <2>1, Zenon DEF MainHas
    <2>4. CallResults'
      BY <1>1, <2>1, Zenon DEF Own, CallResults
    <2> QED
      BY <1>1, <2>1, <2>2, <2>3, <2>4, Kept, ZenonT(60) DEF Own
  <1> QED
    BY <1>2, <1>3, Zenon

LEMMA OwnStep == Inv /\ Ring /\ Own /\ [Next]_vars => Own'
  <1> SUFFICES ASSUME Inv, Ring, Own, [Next]_vars PROVE Own'
    BY Zenon
  <1>1. CASE UNCHANGED vars
    <2>1. UNCHANGED <<open, items, head, count, live, fd, main, status, pc, worker>>
      BY <1>1, Zenon DEF vars, ownVars, queueVars
    <2>2. CallResults' /\ (MainHas' <=> MainHas) /\ \A w \in Workers : WorkerHas(w)' <=> WorkerHas(w)
      BY <2>1, Zenon DEF Own, CallResults, MainHas, WorkerHas
    <2> QED
      BY <2>1, <2>2, Kept, Zenon DEF Own
  <1>2. CASE MainStep
    BY <1>2, LifecycleOwn, MainOwn, PushFailedOwn, ShutdownOwn, WorkerOwn, ZenonT(60) DEF MainStep
  <1>3. ASSUME NEW w \in Workers, WorkerStep(w) \/ Receive(w) \/ Send(w) PROVE Own'
    BY <1>3, WorkerOwn, CloseOwn, Zenon DEF WorkerStep
  <1>4. CASE Environment
    BY <1>4, SignalOwn, AcceptOwn, MainOwn, ShutdownOwn, CallOwn, ZenonT(60) DEF Environment
  <1>5. ASSUME NEW t \in Threads, QueueAcquire(t) \/ QueueRun(t) PROVE Own'
    BY <1>5, CallOwn, Zenon DEF QueueAcquire, QueueRun
  <1> QED
    BY <1>1, <1>2, <1>3, <1>4, <1>5, Zenon DEF Next, Terminated

LEMMA InitOwn == Init => Own
  <1> SUFFICES ASSUME Init PROVE Own
    BY Zenon
  <1>1. CallResults
    BY WorkersAssumption, Zenon DEF Init, Q!Init, Q!Threads, CallResults, Q!Pushing
  <1>2. Positions = {} /\ open = {} /\ ~MainHas /\ \A w \in Workers : ~WorkerHas(w)
    BY SMTT(60) DEF Init, Q!Init, Positions, MainHas, WorkerHas
  <1>3. Exclusive /\ Covered
    BY <1>2, Zenon DEF Exclusive, Covered
  <1> QED
    BY <1>1, <1>3, Zenon DEF Init, Q!Init, Own

\* One owner for an open descriptor, none for a closed one.
LEMMA OwnersCounted == ASSUME Own PROVE OneOwner
  <1> SUFFICES ASSUME NEW f \in Fds
               PROVE  /\ f \notin open => Owners(f) = {}
                      /\ f \in open => \E o \in Owners(f) : Owners(f) = {o}
    BY Zenon DEF OneOwner
  <1> DEFINE M == {u \in {Main} : MainHolds(f)}
             W == {v \in Workers : WorkerHolds(v, f)}
  <1>1. /\ MainHolds(f) <=> MainHas /\ fd[Main] = f
        /\ \A i : i \in QueueSlots(f) <=> i \in Positions /\ Queued(i) = f
        /\ \A w : w \in W <=> w \in Workers /\ WorkerHas(w) /\ fd[w] = f
    BY Zenon DEF MainHolds, MainHas, QueueSlots, Positions, Queued, WorkerHolds, WorkerHas
  <1>2. M = IF MainHolds(f) THEN {Main} ELSE {}
    BY Zenon
  <1>3. Owners(f) = {<<"main", t>> : t \in M} \cup {<<"queue", i>> : i \in QueueSlots(f)}
                       \cup {<<"worker", w>> : w \in W}
    BY Zenon DEF Owners
  <1> HIDE DEF M, W
  <1>4. CASE f \notin open
    <2>1. M = {} /\ QueueSlots(f) = {} /\ W = {}
      BY <1>1, <1>2, <1>4 DEF Own, Exclusive
    <2> QED
      BY <1>3, <1>4, <2>1, Zenon
  <1>5. CASE f \in open /\ MainHas /\ fd[Main] = f
    <2>1. M = {Main} /\ QueueSlots(f) = {} /\ W = {}
      BY <1>1, <1>2, <1>5, Zenon DEF Own, Exclusive
    <2>2. Owners(f) = {<<"main", Main>>}
      BY <1>3, <2>1, Zenon
    <2> QED
      BY <1>5, <2>2, Zenon
  <1>6. ASSUME f \in open, NEW i \in Positions, Queued(i) = f
        PROVE  \E o \in Owners(f) : Owners(f) = {o}
    <2>1. M = {} /\ QueueSlots(f) = {i} /\ W = {}
      BY <1>1, <1>2, <1>6, Zenon DEF Own, Exclusive
    <2>2. Owners(f) = {<<"queue", i>>}
      BY <1>3, <2>1, Zenon
    <2> QED
      BY <2>2, Zenon
  <1>7. ASSUME f \in open, NEW w \in Workers, WorkerHas(w), fd[w] = f
        PROVE  \E o \in Owners(f) : Owners(f) = {o}
    <2>1. M = {} /\ QueueSlots(f) = {} /\ W = {w}
      BY <1>1, <1>2, <1>7, Zenon DEF Own, Exclusive
    <2>2. Owners(f) = {<<"worker", w>>}
      BY <1>3, <2>1, Zenon
    <2> QED
      BY <2>2, Zenon
  <1> QED
    BY <1>4, <1>5, <1>6, <1>7, Zenon DEF Own, Covered

\* What the places of the main thread and the owners say at the exit.
LEMMA ExitCases == Inv /\ Own => CleanExit
  <1> SUFFICES ASSUME Inv, Own, main = "exit"
               PROVE  /\ ready = {} /\ open = {} /\ started = {} /\ ~live
                      /\ \A w \in Workers : worker[w] \in {"none", "exited"}
    BY Zenon DEF CleanExit
  <1>1. ready = {} /\ started = {} /\ ~live
    BY Zenon DEF Inv, ReadyByPlace, Lifetimes, Running
  <1>2. \A w \in Workers : worker[w] \in {"none", "exited"}
    BY <1>1, Zenon DEF Inv, Lifetimes, Active
  <1>3. ~MainHas /\ \A w \in Workers : ~WorkerHas(w)
    BY <1>2, Zenon DEF MainHas, WorkerHas
  <1>5. Positions = {}
    BY <1>1, SMTT(60) DEF Positions, Own
  <1>4. open = {}
    BY <1>3, <1>5, Zenon DEF Own, Covered
  <1> QED
    BY <1>1, <1>2, <1>4, Zenon

-----------------------------------------------------------------------------
(* Without failing calls nothing is discarded.                             *)

\* A worker that has left its loop or is about to.
Leaving(w) ==
    \/ worker[w] = "exited"
    \/ worker[w] = "popping" /\ pc[w] = "idle" /\ status[w] # "OK"

\* A worker leaves a live queue only when it is shut down and empty, after which
\* nothing enters it; all workers are started before the loop and leave before the
\* queue is taken down.
Draining ==
    /\ \A w \in Workers : Leaving(w) /\ live => shutting_down /\ count = 0
    /\ \A w \in Workers : pc[w] = "pop_signal" => status[w] = "OK"
    /\ \A w \in Workers : worker[w] = "none" \/ w \in started
                             \/ main \notin {"listen", "logger", "stats", "queue", "pool", "spawn"}
    /\ main \in {"loop", "entering", "accept", "push", "started", "cleanup", "join"} => started = Workers
    /\ main # "spawn_shutdown"
    /\ main = "cleanup" => ready = Parts
    /\ DrainedBeforeDestroy

LEMMA QueueStepDraining ==
    ASSUME Faults = FALSE, Inv, Ring, Own, Draining, NEW t \in Threads, UNCHANGED ownVars,
           Q!Acquire(t) \/ Q!Run(t) \/ Q!Fault(t) \/ Q!PopSpuriousWakeup(t)
    PROVE  Draining'
  <1> USE WorkersAssumption DEF Q!Threads, Threads
  <1>1. pc[t] # "idle"
    BY Zenon DEF Q!Acquire, Q!PushLock, Q!PushRelock, Q!PopLock, Q!PopRelock, Q!ShutdownLock, Q!Lock,
       Q!Run, Q!PushAborted, Q!PushRefused, Q!PopRefused, Q!Fault, Q!LockFails, Q!PushFails, Q!PopFails,
       Q!PushWait, Q!PopWait, Q!PushTimeout, Q!PopSpuriousWakeup, Q!PushStore, Q!PopTake,
       Q!PushSignal, Q!PopSignal, Q!ShutdownBroadcast
  <1>2. main \in Running \cup {"cleanup"} /\ ready = Parts /\ live
    <2>1. CASE t = Main
      BY <1>1, <2>1, Zenon DEF Inv, Lifetimes, ReadyByPlace, Running, Parts
    <2>2. CASE t \in Workers
      BY <1>1, <2>2, Zenon DEF Inv, Lifetimes, Active, Running, Parts
    <2> QED
      BY <2>1, <2>2, Zenon
  <1>3. UNCHANGED <<worker, main, started, ready>> /\ live'
    BY <1>2, InsideCalls, Zenon DEF ownVars, Inv
  <1>4. pc \in [Threads -> Q!Outside \cup Q!Inside] /\ DOMAIN status = Threads
    BY Zenon DEF Inv, Calls, Ring, Q!TypeOK
  <1>5. SUFFICES /\ \A w \in Workers : Leaving(w)' => shutting_down' /\ count' = 0
                 /\ \A w \in Workers : pc'[w] = "pop_signal" => status'[w] = "OK"
    <2>1. main' \notin {"destroy_pool", "destroy_queue"}
      BY <1>2, <1>3, Zenon DEF Running
    <2> QED
      BY <1>3, <1>5, <2>1, Zenon DEF Draining, DrainedBeforeDestroy
  <1> USE DEF Leaving
  <1>6. /\ \A w \in Workers : Leaving(w) => shutting_down /\ count = 0
        /\ \A w \in Workers : pc[w] = "pop_signal" => status[w] = "OK"
        /\ \A w \in Workers : pc[w] \in {"idle", "pop_lock", "pop_loop", "pop_wait", "pop_relock", "pop_signal"}
        /\ pc[Main] \in Q!Pushing \cup {"idle", "push_signal", "shutdown_lock", "shutdown_set"}
    BY <1>2, Zenon DEF Draining, Own, CallResults
  <1> HIDE DEF Leaving
  \* Nobody begins to leave.
  <1>7. ASSUME UNCHANGED <<shutting_down, count, status>>,
               \A w \in Workers : \/ pc'[w] = pc[w]
                                  \/ pc'[w] # "idle" /\ pc'[w] # "pop_signal"
                                  \/ pc'[w] = "idle" /\ status[w] = "OK"
        PROVE  /\ \A w \in Workers : Leaving(w)' => shutting_down' /\ count' = 0
               /\ \A w \in Workers : pc'[w] = "pop_signal" => status'[w] = "OK"
    BY <1>3, <1>6, <1>7, Zenon DEF Leaving
  <1>8. CASE \/ Q!Acquire(t)
             \/ Q!PushWait(t) \/ Q!PopWait(t) \/ Q!PushTimeout(t) \/ Q!PopSpuriousWakeup(t)
    <2>1. UNCHANGED <<shutting_down, count, status>>
      BY <1>8, Zenon DEF Q!Acquire, Q!PushLock, Q!PushRelock, Q!PopLock, Q!PopRelock, Q!ShutdownLock,
                         Q!Lock, Q!PushWait, Q!PopWait, Q!CondWait, Q!PushTimeout, Q!PopSpuriousWakeup, Q!ring
    <2>2. PICK to : pc' = [pc EXCEPT ![t] = to] /\ to # "idle" /\ to # "pop_signal"
      BY <1>8, Zenon DEF Q!Acquire, Q!PushLock, Q!PushRelock, Q!PopLock, Q!PopRelock, Q!ShutdownLock,
                         Q!Lock, Q!PushWait, Q!PopWait, Q!CondWait, Q!PushTimeout, Q!PopSpuriousWakeup
    <2>3. ASSUME NEW w \in Workers PROVE pc'[w] = pc[w] \/ (pc'[w] # "idle" /\ pc'[w] # "pop_signal")
      <3>1. pc'[w] = pc[w] \/ pc'[w] = to
        BY <1>4, <2>2, Zenon
      <3> QED
        BY <2>2, <3>1, Zenon
    <2> QED
      BY <1>7, <2>1, <2>3, Zenon
  <1>10. CASE Q!PushSignal(t) \/ Q!PopSignal(t)
    <2>1. UNCHANGED <<shutting_down, count, status>> /\ (t \in Workers => status[t] = "OK")
      BY <1>6, <1>10, Zenon DEF Q!PushSignal, Q!PopSignal, Q!SignalUnlockReturn, Q!ring
    <2>2. \/ pc' = [pc EXCEPT ![t] = "idle"]
          \/ \E v \in Threads, to \in {"pop_relock", "push_relock"} :
                pc' = [pc EXCEPT ![t] = "idle", ![v] = to]
      BY <1>10, Zenon DEF Q!PushSignal, Q!PopSignal, Q!SignalUnlockReturn, Q!Waiting
    <2>3. ASSUME NEW w \in Workers
          PROVE  \/ pc'[w] = pc[w]
                 \/ w = t /\ pc'[w] = "idle"
                 \/ pc'[w] \in {"pop_relock", "push_relock"}
      <3>1. CASE pc' = [pc EXCEPT ![t] = "idle"]
        BY <1>4, <3>1, Zenon
      <3>2. ASSUME NEW v \in Threads, NEW to \in {"pop_relock", "push_relock"},
                   pc' = [pc EXCEPT ![t] = "idle", ![v] = to]
            PROVE  \/ pc'[w] = pc[w]
                   \/ w = t /\ pc'[w] = "idle"
                   \/ pc'[w] \in {"pop_relock", "push_relock"}
        BY <1>4, <3>2, Zenon
      <3> QED
        BY <2>2, <3>1, <3>2, Zenon
    <2>4. ASSUME NEW w \in Workers
          PROVE  \/ pc'[w] = pc[w]
                 \/ pc'[w] # "idle" /\ pc'[w] # "pop_signal"
                 \/ pc'[w] = "idle" /\ status[w] = "OK"
      <3>1. CASE pc'[w] \in {"pop_relock", "push_relock"}
        BY <3>1, Zenon
      <3>2. CASE w = t /\ pc'[w] = "idle"
        BY <2>1, <3>2, Zenon
      <3> QED
        BY <2>3, <3>1, <3>2, Zenon
    <2> QED
      BY <1>7, <2>1, <2>4, Zenon
  <1>11. CASE Q!PushAborted(t) \/ Q!PushRefused(t)
    <2>1. t = Main
      BY <1>6, <1>11, Zenon DEF Q!PushAborted, Q!PushRefused
    <2>2. /\ UNCHANGED <<shutting_down, count>> /\ pc' = [pc EXCEPT ![Main] = "idle"]
          /\ status' = [status EXCEPT ![Main] = "SHUTDOWN"]
      BY <1>11, <2>1, Zenon DEF Q!PushAborted, Q!PushRefused, Q!UnlockReturn, Q!ring
    <2>3. \A w \in Workers : pc'[w] = pc[w] /\ status'[w] = status[w]
      BY <1>4, <2>2, Zenon
    <2> QED
      BY <1>3, <1>6, <2>2, <2>3, Zenon DEF Leaving
  <1>12. CASE Q!PopRefused(t)
    <2>1. /\ UNCHANGED <<shutting_down, count>> /\ shutting_down /\ count = 0
          /\ pc' = [pc EXCEPT ![t] = "idle"] /\ status' = [status EXCEPT ![t] = "SHUTDOWN"]
      BY <1>12, Zenon DEF Q!PopRefused, Q!UnlockReturn, Q!ring
    <2>2. \A w \in Workers : pc'[w] = "pop_signal" => pc[w] = "pop_signal" /\ status'[w] = status[w]
      BY <1>4, <2>1, Zenon
    <2> QED
      BY <1>6, <2>1, <2>2, Zenon
  <1>13. CASE Q!PushStore(t) \/ Q!PopTake(t)
    <2>1. \A w \in Workers : ~Leaving(w)
      BY <1>6, <1>13, Zenon DEF Q!PushStore, Q!PopTake
    <2>2. /\ pc' = [pc EXCEPT ![t] = "push_signal"] \/ pc' = [pc EXCEPT ![t] = "pop_signal"]
          /\ status' = [status EXCEPT ![t] = "OK"]
      BY <1>13, Zenon DEF Q!PushStore, Q!PopTake
    <2>3. /\ pc'[t] # "idle" /\ status'[t] = "OK"
          /\ \A w \in Workers : w # t => pc'[w] = pc[w] /\ status'[w] = status[w]
      BY <1>4, <2>2, Zenon
    <2> QED
      BY <1>3, <1>6, <2>1, <2>3, Zenon DEF Leaving
  <1>14. CASE Q!ShutdownBroadcast(t)
    <2>1. t = Main
      BY <1>6, <1>14, Zenon DEF Q!ShutdownBroadcast
    <2>2. UNCHANGED <<count, status>> /\ shutting_down'
      BY <1>14, Zenon DEF Q!ShutdownBroadcast
    <2>3. \A w \in Workers : pc'[w] \in {"idle", "pop_signal"} => pc'[w] = pc[w]
      BY <1>14, <2>1, Zenon DEF Q!ShutdownBroadcast, Q!AfterBroadcast
    <2> QED
      BY <1>3, <1>6, <2>2, <2>3, Zenon DEF Leaving
  <1>15. CASE Q!Fault(t)
    BY <1>15, Zenon DEF Q!Fault, Q!LockFails, Q!PushFails, Q!PopFails
  <1> QED
    BY <1>8, <1>10, <1>11, <1>12, <1>13, <1>14, <1>15, Zenon DEF Q!Run

\* Steps of the main thread outside the queue move no worker.
LEMMA MainDraining ==
    ASSUME Faults = FALSE, Inv, Own, Draining,
           \/ Listen \/ LoggerInit \/ StatsInit \/ PoolInit \/ StartupFails \/ SpawnDone
           \/ SpawnJoin \/ PoolJoin \/ CheckFlag \/ EnterAccept \/ AcceptFails \/ PushSucceeded \/ PushFailed
           \/ ConnectionStarted \/ CleanupSkip
           \/ PoolDestroy \/ StatsDestroy \/ LoggerDestroy \/ ListenerClose
    PROVE  Draining'
  <1>1. UNCHANGED <<queueVars, worker>>
    BY Zenon DEF Listen, LoggerInit, StatsInit, PoolInit, StartupFails, SpawnDone, SpawnJoin, PoolJoin,
           JoinStarted, CheckFlag, EnterAccept, AcceptFails, PushSucceeded, PushFailed, ConnectionStarted, CleanupSkip,
           PoolDestroy, StatsDestroy, LoggerDestroy, ListenerClose, Startup, Teardown
  <1>2. UNCHANGED <<pc, status, shutting_down, count, live, worker>>
    BY <1>1, Zenon DEF queueVars
  <1>3. /\ \A w \in Workers : Leaving(w)' /\ live' => shutting_down' /\ count' = 0
        /\ \A w \in Workers : pc'[w] = "pop_signal" => status'[w] = "OK"
    BY <1>2, Zenon DEF Draining, Leaving
  <1> USE DEF Draining, DrainedBeforeDestroy, Goto
  <1>4. CASE Listen \/ LoggerInit \/ StatsInit \/ PoolInit
    BY <1>2, <1>3, <1>4, Zenon DEF Listen, LoggerInit, StatsInit, PoolInit, Startup
  <1>5. CASE SpawnDone
    BY <1>2, <1>3, <1>5, Zenon DEF SpawnDone
  <1>6. CASE PoolJoin
    <2>1. /\ main = "join" /\ main' = "destroy_pool" /\ started = Workers
          /\ \A w \in started : worker[w] = "exited"
      BY <1>6, Zenon DEF PoolJoin, JoinStarted
    <2>2. live
      BY <2>1, Zenon DEF Inv, ReadyByPlace, Lifetimes, Running, Parts
    <2>3. count = 0
      BY <2>1, <2>2, WorkersAssumption, Zenon DEF Leaving
    <2> QED
      BY <1>2, <1>3, <2>1, <2>3, Zenon
  <1>7. CASE CheckFlag \/ EnterAccept \/ AcceptFails \/ PushSucceeded \/ PushFailed \/ ConnectionStarted
    <2>1. /\ main \in {"loop", "entering", "accept", "push", "started"}
          /\ main' \in {"loop", "entering", "accept", "started", "cleanup"} /\ UNCHANGED <<started, ready>>
      BY <1>7, Zenon DEF CheckFlag, EnterAccept, AcceptFails, PushSucceeded, PushFailed, ConnectionStarted
    <2>2. ready = Parts /\ started = Workers
      BY <2>1, Zenon DEF Inv, ReadyByPlace, Running
    <2> QED
      BY <1>2, <1>3, <2>1, <2>2, Zenon
  <1>8. CASE PoolDestroy \/ StatsDestroy \/ LoggerDestroy \/ ListenerClose
    BY <1>2, <1>3, <1>8, Zenon DEF PoolDestroy, StatsDestroy, LoggerDestroy, ListenerClose, Teardown
  <1>9. CASE StartupFails \/ SpawnJoin \/ CleanupSkip
    <2>1. FALSE
      BY <1>9, Zenon DEF StartupFails, SpawnJoin, JoinStarted, CleanupSkip, Parts
    <2> QED
      BY <2>1, Zenon
  <1> QED
    BY <1>4, <1>5, <1>6, <1>7, <1>8, <1>9, Zenon

\* The calls of the main thread, the signal, and the life of the queue.
LEMMA MainCallDraining ==
    ASSUME Faults = FALSE, Inv, Ring, Own, Draining,
           \/ SpawnFails \/ CleanupShutdown \/ QueueInit \/ QueueDestroy
           \/ \E t \in Threads : Signal(t)
           \/ \E f \in Fds : Accept(f)
    PROVE  Draining'
  <1> USE DEF Draining, DrainedBeforeDestroy, Goto
  <1>1. CASE SpawnFails
    BY <1>1, Zenon DEF SpawnFails
  <1>2. ASSUME CleanupShutdown \/ \E f \in Fds : Accept(f) PROVE Draining'
    <2>1. /\ UNCHANGED <<worker, started, ready, shutting_down, count, live>>
          /\ main \in {"cleanup", "accept"} /\ main' \in {"join", "push"}
      BY <1>2, Zenon DEF CleanupShutdown, Accept, Q!CallShutdown, Q!CallPush, Q!ring
    <2>2. \E to \in {"shutdown_lock", "push_lock"} : pc' = [pc EXCEPT ![Main] = to]
      BY <1>2, Zenon DEF CleanupShutdown, Accept, Q!CallShutdown, Q!CallPush
    <2>3. status' = [status EXCEPT ![Main] = "none"]
      BY <1>2, Zenon DEF CleanupShutdown, Accept, Q!CallShutdown, Q!CallPush
    <2>4. \A w \in Workers : pc'[w] = pc[w] /\ status'[w] = status[w]
      BY <2>2, <2>3, WorkersAssumption, Zenon DEF Inv, Calls, Threads, Ring, Q!TypeOK, Q!Threads
    <2> QED
      BY <2>1, <2>4, Zenon DEF Leaving
  <1>3. CASE QueueInit
    <2>1. /\ main = "queue" /\ main' = "pool" /\ UNCHANGED <<worker, pc, status, started>>
          /\ started = {}
      BY <1>3, Zenon DEF QueueInit, Startup, Q!Create, Inv, Lifetimes, Running
    <2>2. \A w \in Workers : ~Leaving(w)'
      BY <2>1, Zenon DEF Leaving
    <2> QED
      BY <2>1, <2>2, Zenon
  <1>4. CASE QueueDestroy
    <2>1. /\ main = "destroy_queue" /\ main' = "destroy_stats" /\ UNCHANGED <<worker, pc, status, started>>
          /\ live <=> "queue" \in ready
      BY <1>4, Zenon DEF QueueDestroy, Teardown, Q!Destroy, queueVars, Inv, Lifetimes
    <2>2. ~live'
      BY <1>4, <2>1, Zenon DEF QueueDestroy, Q!Destroy, queueVars
    <2> QED
      BY <2>1, <2>2, Zenon
  <1>5. ASSUME NEW t \in Threads, Signal(t) PROVE Draining'
    <2>1. /\ UNCHANGED <<worker, pc, status, started, ready, shutting_down, count, live>>
          /\ main' = main \/ (main = "accept" /\ main' = "loop")
      BY <1>5, Zenon DEF Signal, Q!RaiseAbort, Q!ring
    <2> QED
      BY <2>1, Zenon DEF Leaving
  <1> QED
    BY <1>1, <1>2, <1>3, <1>4, <1>5, Zenon

LEMMA WorkerDraining ==
    ASSUME Faults = FALSE, Inv, Ring, Own, Draining, NEW v \in Workers,
           SpawnWorker(v) \/ WorkerStep(v) \/ Receive(v) \/ Send(v)
    PROVE  Draining'
  <1> USE DEF Draining, DrainedBeforeDestroy, Step
  <1>1. DOMAIN worker = Workers /\ DOMAIN pc = Threads /\ DOMAIN status = Threads
    BY Zenon DEF Inv, Lifetimes, Calls, Ring, Q!TypeOK, Q!Threads, Threads
  <1>2. CASE SpawnWorker(v)
    <2>1. /\ UNCHANGED <<pc, status, main, ready, shutting_down, count, live>>
          /\ started' = started \cup {v} /\ worker' = [worker EXCEPT ![v] = "pop"] /\ main = "spawn"
      BY <1>2, Zenon DEF SpawnWorker, queueVars
    <2>2. worker'[v] = "pop" /\ \A w \in Workers : w # v => worker'[w] = worker[w]
      BY <1>1, <2>1, Zenon
    <2>3. \A w \in Workers : Leaving(w)' => Leaving(w)
      BY <2>1, <2>2, Zenon DEF Leaving
    <2> QED
      BY <2>1, <2>2, <2>3, Zenon
  <1>3. CASE WorkerStep(v) \/ Receive(v) \/ Send(v)
    <2>1. /\ UNCHANGED <<main, ready, started, shutting_down, count, live>>
          /\ worker[v] # "none" /\ \A w \in Workers : w # v => worker'[w] = worker[w]
      <3>1. \E to : worker' = [worker EXCEPT ![v] = to]
        BY <1>3, Zenon DEF WorkerStep, WorkerPop, PopReturned, CloseClient, ConnectionFinished, Receive,
           RecvAnswered, RecvEnded, Send, SendKeepsAlive, SendEnded
      <3>2. worker[v] # "none" /\ UNCHANGED <<main, ready, started>>
        BY <1>3, Zenon DEF WorkerStep, WorkerPop, PopReturned, CloseClient, ConnectionFinished, Receive,
           RecvAnswered, RecvEnded, Send, SendKeepsAlive, SendEnded, mainVars
      <3>3. UNCHANGED <<shutting_down, count, live>>
        BY <1>3, Zenon DEF WorkerStep, WorkerPop, PopReturned, CloseClient, ConnectionFinished, Receive,
           RecvAnswered, RecvEnded, Send, SendKeepsAlive, SendEnded, queueVars, Q!CallPop, Q!ring
      <3> QED
        BY <1>1, <3>1, <3>2, <3>3, Zenon
    <2>2. /\ \A w \in Workers : Leaving(w)' => Leaving(w)
          /\ \A w \in Workers : pc'[w] = "pop_signal" => pc[w] = "pop_signal" /\ status'[w] = status[w]
      <3>1. CASE WorkerPop(v)
        <4>1. pc' = [pc EXCEPT ![v] = "pop_lock"] /\ status' = [status EXCEPT ![v] = "none"]
          BY <3>1, Zenon DEF WorkerPop, Q!CallPop
        <4>2. pc'[v] = "pop_lock" /\ \A w \in Workers : w # v => pc'[w] = pc[w] /\ status'[w] = status[w]
          BY <1>1, <4>1, Zenon DEF Threads
        <4>3. worker'[v] = "popping"
          BY <1>1, <3>1, Zenon DEF WorkerPop
        <4> QED
          BY <2>1, <4>2, <4>3, Zenon DEF Leaving
      <3>2. CASE PopReturned(v)
        <4>1. UNCHANGED <<pc, status>>
          BY <3>2, Zenon DEF PopReturned, queueVars
        <4>2. Leaving(v)' => Leaving(v)
          BY <1>1, <3>2, <4>1, Zenon DEF PopReturned, Leaving
        <4> QED
          BY <2>1, <4>1, <4>2, Zenon DEF Leaving
      <3>3. CASE CloseClient(v) \/ ConnectionFinished(v) \/ Receive(v) \/ Send(v)
        <4>1. UNCHANGED <<pc, status>>
          BY <3>3, Zenon DEF CloseClient, ConnectionFinished, Receive, RecvAnswered, RecvEnded, Send,
             SendKeepsAlive, SendEnded, queueVars
        <4>2. ~Leaving(v)'
          BY <1>1, <3>3, Zenon DEF CloseClient, ConnectionFinished, Receive, RecvAnswered, RecvEnded, Send,
             SendKeepsAlive, SendEnded, Leaving
        <4> QED
          BY <2>1, <4>1, <4>2, Zenon DEF Leaving
      <3> QED
        BY <1>3, <3>1, <3>2, <3>3, Zenon DEF WorkerStep
    <2> QED
      BY <2>1, <2>2, Zenon
  <1> QED
    BY <1>2, <1>3, Zenon

LEMMA DrainingStep == Faults = FALSE /\ Inv /\ Ring /\ Own /\ Draining /\ [Next]_vars => Draining'
  <1> SUFFICES ASSUME Faults = FALSE, Inv, Ring, Own, Draining, [Next]_vars PROVE Draining'
    BY Zenon
  <1>1. CASE UNCHANGED vars
    <2>1. UNCHANGED <<worker, pc, status, main, started, ready, shutting_down, count, live>>
      BY <1>1, Zenon DEF vars, ownVars, queueVars
    <2> QED
      BY <2>1, Zenon DEF Draining, Leaving, DrainedBeforeDestroy
  <1>2. CASE MainStep
    BY <1>2, MainDraining, MainCallDraining, WorkerDraining, Zenon DEF MainStep
  <1>3. ASSUME NEW w \in Workers, WorkerStep(w) \/ Receive(w) \/ Send(w) PROVE Draining'
    BY <1>3, WorkerDraining, Zenon
  <1>4. CASE Environment
    BY <1>4, MainDraining, MainCallDraining, QueueStepDraining, Zenon DEF Environment
  <1>5. ASSUME NEW t \in Threads, QueueAcquire(t) \/ QueueRun(t) PROVE Draining'
    BY <1>5, QueueStepDraining, Zenon DEF QueueAcquire, QueueRun
  <1> QED
    BY <1>1, <1>2, <1>3, <1>4, <1>5, Zenon DEF Next, Terminated

LEMMA InitDraining == Init => Draining
  <1> SUFFICES ASSUME Init PROVE Draining
    BY Zenon
  <1>1. /\ main = "listen" /\ \A w \in Workers : worker[w] = "none" /\ pc[w] = "idle"
    BY Zenon DEF Init, Q!Init, Q!Threads
  <1> QED
    BY <1>1, Zenon DEF Draining, Leaving, DrainedBeforeDestroy

-----------------------------------------------------------------------------
(* The theorems about the queue hold of the queue in the process.          *)

QP == INSTANCE ConnectionQueueProofs WITH Producers <- {Main}, Consumers <- Workers

LEMMA SameCalls ==
    /\ Q!Init <=> QP!Init
    /\ Q!Lifecycle <=> QP!Lifecycle
    /\ Q!Call <=> QP!Call
    /\ Q!RaiseAbort <=> QP!RaiseAbort
    /\ Q!Threads = QP!Threads
    /\ UNCHANGED Q!vars <=> UNCHANGED QP!vars
  <1>1. Q!Init <=> QP!Init
    BY Zenon DEF Q!Init, QP!Init, Q!EmptyRing, QP!EmptyRing, Q!Slots, QP!Slots,
                 Q!Threads, QP!Threads, Q!ring, QP!ring, Q!vars, QP!vars
  <1>2. Q!Create <=> QP!Create
    BY Zenon DEF Q!Create, QP!Create, Q!EmptyRing, QP!EmptyRing, Q!Slots, QP!Slots,
                 Q!ring, QP!ring
  <1>3. Q!Destroy <=> QP!Destroy
    BY Zenon DEF Q!Destroy, QP!Destroy, Q!EmptyRing, QP!EmptyRing, Q!Slots, QP!Slots
  <1>4. Q!Call <=> QP!Call
    BY Zenon DEF Q!Call, QP!Call, Q!CallPush, QP!CallPush, Q!CallPop, QP!CallPop,
                 Q!CallShutdown, QP!CallShutdown, Q!ring, QP!ring
  <1>5. Q!RaiseAbort <=> QP!RaiseAbort
    BY Zenon DEF Q!RaiseAbort, QP!RaiseAbort, Q!ring, QP!ring
  <1>6. Q!Threads = QP!Threads
    BY Zenon DEF Q!Threads, QP!Threads
  <1>7. UNCHANGED Q!vars <=> UNCHANGED QP!vars
    BY Zenon DEF Q!vars, QP!vars, Q!ring, QP!ring
  <1>8. Q!Lifecycle <=> QP!Lifecycle
    BY <1>2, <1>3, <1>6, ZenonT(60) DEF Q!Lifecycle, QP!Lifecycle, Q!Quiescent, QP!Quiescent
  <1> QED
    BY <1>1, <1>4, <1>5, <1>6, <1>7, <1>8, ZenonT(60)

LEMMA SameSteps ==
    ASSUME NEW t
    PROVE  Q!Step(t) \/ Q!Fault(t) \/ Q!PopSpuriousWakeup(t)
              <=> QP!Step(t) \/ QP!Fault(t) \/ QP!PopSpuriousWakeup(t)
  <1>1. /\ Q!PushLock(t) <=> QP!PushLock(t)
        /\ Q!PushRelock(t) <=> QP!PushRelock(t)
    BY Zenon DEF Q!PushLock, QP!PushLock, Q!PushRelock, QP!PushRelock, Q!Lock, QP!Lock,
                 Q!ring, QP!ring
  <1>2. /\ Q!PopLock(t) <=> QP!PopLock(t)
        /\ Q!PopRelock(t) <=> QP!PopRelock(t)
        /\ Q!ShutdownLock(t) <=> QP!ShutdownLock(t)
    BY Zenon DEF Q!PopLock, QP!PopLock, Q!PopRelock, QP!PopRelock, Q!ShutdownLock,
                 QP!ShutdownLock, Q!Lock, QP!Lock, Q!ring, QP!ring
  <1>3. Q!LockFails(t) <=> QP!LockFails(t)
    BY Zenon DEF Q!LockFails, QP!LockFails, Q!UnlockReturn, QP!UnlockReturn, Q!ring,
                 QP!ring
  <1>4. Q!PushFails(t) <=> QP!PushFails(t)
    BY Zenon DEF Q!PushFails, QP!PushFails, Q!UnlockReturn, QP!UnlockReturn,
                 Q!MustWaitToPush, QP!MustWaitToPush, Q!ring, QP!ring
  <1>5. Q!PopFails(t) <=> QP!PopFails(t)
    BY Zenon DEF Q!PopFails, QP!PopFails, Q!UnlockReturn, QP!UnlockReturn,
                 Q!MustWaitToPop, QP!MustWaitToPop, Q!ring, QP!ring
  <1>6. Q!PopSpuriousWakeup(t) <=> QP!PopSpuriousWakeup(t)
    BY Zenon DEF Q!PopSpuriousWakeup, QP!PopSpuriousWakeup, Q!ring, QP!ring
  <1>7. /\ Q!PushAborted(t) <=> QP!PushAborted(t)
        /\ Q!PushRefused(t) <=> QP!PushRefused(t)
    BY Zenon DEF Q!PushAborted, QP!PushAborted, Q!PushRefused, QP!PushRefused,
                 Q!UnlockReturn, QP!UnlockReturn, Q!MustWaitToPush, QP!MustWaitToPush,
                 Q!ring, QP!ring
  <1>8. Q!PushWait(t) <=> QP!PushWait(t)
    BY Zenon DEF Q!PushWait, QP!PushWait, Q!CondWait, QP!CondWait, Q!MustWaitToPush,
                 QP!MustWaitToPush, Q!ring, QP!ring
  <1>9. Q!PushTimeout(t) <=> QP!PushTimeout(t)
    BY Zenon DEF Q!PushTimeout, QP!PushTimeout, Q!UnlockReturn, QP!UnlockReturn, Q!ring,
                 QP!ring
  <1>10. Q!PushStore(t) <=> QP!PushStore(t)
    BY ZenonT(60) DEF Q!PushStore, QP!PushStore, Q!MustWaitToPush, QP!MustWaitToPush, Q!ring,
                 QP!ring
  <1>11. Q!PushSignal(t) <=> QP!PushSignal(t)
    BY ZenonT(60) DEF Q!PushSignal, QP!PushSignal, Q!SignalUnlockReturn,
                 QP!SignalUnlockReturn, Q!Waiting, QP!Waiting, Q!Threads, QP!Threads,
                 Q!UnlockReturn, QP!UnlockReturn, Q!ring, QP!ring
  <1>12. Q!PopWait(t) <=> QP!PopWait(t)
    BY ZenonT(60) DEF Q!PopWait, QP!PopWait, Q!CondWait, QP!CondWait, Q!MustWaitToPop,
                 QP!MustWaitToPop, Q!ring, QP!ring
  <1>13. /\ Q!PopRefused(t) <=> QP!PopRefused(t)
         /\ Q!PopTake(t) <=> QP!PopTake(t)
    BY Zenon DEF Q!PopRefused, QP!PopRefused, Q!PopTake, QP!PopTake, Q!UnlockReturn,
                 QP!UnlockReturn, Q!MustWaitToPop, QP!MustWaitToPop, Q!ring, QP!ring
  <1>14. Q!PopSignal(t) <=> QP!PopSignal(t)
    BY Zenon DEF Q!PopSignal, QP!PopSignal, Q!SignalUnlockReturn, QP!SignalUnlockReturn,
                 Q!Waiting, QP!Waiting, Q!Threads, QP!Threads, Q!UnlockReturn,
                 QP!UnlockReturn, Q!ring, QP!ring
  <1>15. Q!ShutdownBroadcast(t) <=> QP!ShutdownBroadcast(t)
    BY Zenon DEF Q!ShutdownBroadcast, QP!ShutdownBroadcast, Q!AfterBroadcast,
                 QP!AfterBroadcast, Q!Waiting, QP!Waiting, Q!Threads, QP!Threads,
                 Q!ring, QP!ring
  <1>16. Q!Acquire(t) <=> QP!Acquire(t)
    BY <1>1, <1>2, ZenonT(60) DEF Q!Acquire, QP!Acquire
  <1>17. Q!Fault(t) <=> QP!Fault(t)
    BY <1>3, <1>4, <1>5, ZenonT(60) DEF Q!Fault, QP!Fault
  <1>18. Q!Run(t) <=> QP!Run(t)
    BY <1>7, <1>8, <1>9, <1>10, <1>11, <1>12, <1>13, <1>14, <1>15, ZenonT(60) DEF Q!Run, QP!Run
  <1> QED
    BY <1>6, <1>16, <1>17, <1>18, ZenonT(60) DEF Q!Step, QP!Step

LEMMA RingFacts == ASSUME QP!TypeOK, QP!RingConsistent PROVE Ring
  <1> USE QueueAssumption DEF QP!Threads
  <1>1. Q!TypeOK
    BY Zenon DEF Q!TypeOK, QP!TypeOK, Q!Slots, QP!Slots, Q!Inside, QP!Inside, Q!Outside, QP!Outside,
           Q!Threads
  <1>2. head \in QP!Slots /\ count \in 0..Capacity /\ tail = Q!SlotOf(count)
    BY Zenon DEF QP!TypeOK, QP!RingConsistent, QP!SlotOf, Q!SlotOf
  <1>3. Q!SlotOf(0) = head
    BY <1>2, SMTT(60) DEF Q!SlotOf, QP!Slots
  <1>4. \A i \in Positions : Q!SlotOf(i) \in Q!Slots
    BY <1>2, SMTT(60) DEF Q!SlotOf, Q!Slots, QP!Slots, Positions
  <1>5. ASSUME count < Capacity, NEW i \in Positions PROVE Q!SlotOf(i) # Q!SlotOf(count)
    <2>1. i \in 0..Capacity /\ i < count
      BY <1>2, SMTT(60) DEF Positions
    <2> QED
      BY <1>2, <1>5, <2>1, QP!SlotsDiffer, ZenonT(60) DEF Q!SlotOf
  <1>6. ASSUME NEW i \in 0..(count - 2)
        PROVE  (((head + 1) % Capacity) + i) % Capacity = Q!SlotOf(i + 1)
    <2>1. i \in 0..Capacity /\ i < Capacity
      BY <1>2, SMTT(60)
    <2> QED
      BY <1>2, <2>1, QP!SlotFromNext, ZenonT(60) DEF Q!SlotOf
  <1> QED
    BY <1>1, <1>2, <1>3, <1>4, <1>5, <1>6, ZenonT(60) DEF Ring

LEMMA RingAlways == Spec => []Ring
  <1>1. Q!Init => QP!Init
    BY SameCalls, ZenonT(60)
  <1>2. [Q!Next]_(Q!vars) => [QP!Next]_(QP!vars)
    BY SameCalls, SameSteps, ZenonT(60) DEF Q!Next, QP!Next
  <1>3. QP!Spec => []QP!TypeOK
    BY QP!TypeCorrect, QueueAssumption, ZenonT(60) DEF QP!Threads
  <1>4. QP!Spec => []QP!RingConsistent
    BY QP!RingAlwaysConsistent, QueueAssumption, ZenonT(60) DEF QP!Threads
  <1>5. QP!TypeOK /\ QP!RingConsistent => Ring
    BY RingFacts, ZenonT(60)
  <1> QED
    BY <1>1, <1>2, <1>3, <1>4, <1>5, QueueUsedByRules, PTL DEF Q!Spec, QP!Spec

LEMMA OwnAlways == Spec => []Own
  BY InitOwn, OwnStep, RingAlways, Invariance, PTL DEF Spec

\* Every open descriptor has exactly one owner among the main thread, the queue and
\* the workers, and a closed one has none.
THEOREM DescriptorsHaveOneOwner == Spec => []OneOwner
  BY OwnAlways, OwnersCounted, PTL

\* Wherever the process came from, at its exit every initialisation is undone, every
\* client is closed and every worker is joined.
THEOREM ExitIsClean == Spec => []CleanExit
  BY ExitCases, OwnAlways, Invariance, PTL

\* When no call fails, the queue is empty before it is taken down: every connection
\* that entered it was taken out by a worker (thread_pool.c, connection_queue.c).  With
\* failing calls a worker may leave on an error and the rest is closed instead.
THEOREM QueueIsDrained == ASSUME Faults = FALSE PROVE Spec => []DrainedBeforeDestroy
  <1>1. Inv /\ Ring /\ Own /\ Draining /\ [Next]_vars => Draining'
    BY DrainingStep, Zenon
  <1>2. Draining => DrainedBeforeDestroy
    BY Zenon DEF Draining
  <1> QED
    BY <1>1, <1>2, InitDraining, Invariance, RingAlways, OwnAlways, PTL DEF Spec
=============================================================================
