------------------------------- MODULE Server -------------------------------
(***************************************************************************)
(* The process: src/src/main.c, server.c and thread_pool.c around the      *)
(* connection queue.  The main thread starts the subsystems and the        *)
(* workers, accepts connections and pushes them, and tears everything down *)
(* in reverse order when a signal asks it to; each worker pops a           *)
(* connection, serves it and closes it.                                    *)
(*                                                                         *)
(* Serving is reduced to where a worker can block: receiving a request and *)
(* sending a response, as module ConnectionService describes it; module    *)
(* ServingProcess puts all of client_handle in its place.  A descriptor    *)
(* number is free for the next accept as soon as it is closed.             *)
(***************************************************************************)
EXTENDS Integers, FiniteSets

CONSTANTS Main, Workers, Fds, NoFd, NoThread, Capacity, Faults,
          MaxAccepts,   \* bound: connections that ever arrive
          MaxRequests   \* HTTP_MAX_REQUESTS_PER_CONNECTION

ASSUME WorkersAssumption == Main \notin Workers /\ Workers # {}
ASSUME PoolAssumption == IsFiniteSet(Workers)
ASSUME QueueAssumption ==
    /\ Capacity \in Nat \ {0} /\ Faults \in BOOLEAN
    /\ NoFd \notin Fds /\ NoThread \notin {Main} \cup Workers
ASSUME LimitsAssumption == MaxAccepts \in Nat /\ MaxRequests \in Nat \ {0}

VARIABLES items, head, tail, count, shutting_down, live, mutex, pc, fd, status,
          abort_flag   \* g_shutdown_requested

queueVars == <<items, head, tail, count, shutting_down, live, mutex, pc, fd, status, abort_flag>>

Q == INSTANCE ConnectionQueue WITH Producers <- {Main}, Consumers <- Workers

VARIABLES main,      \* where the main thread is
          ready,     \* the subsystems that are initialised (the *_ready flags)
          started,   \* the workers pool->started_count stands for
          worker,    \* where each worker is
          requests,  \* each worker's requests_on_connection
          open,      \* the client descriptors that are open in the process
          active,    \* stats->active_connections
          accepted,  \* stats->connections_accepted
          result     \* what server_run returns

ownVars == <<main, ready, started, worker, requests, open, active, accepted, result>>
vars == <<queueVars, ownVars>>

Init ==
    /\ Q!Init
    /\ main = "listen"
    /\ ready = {} /\ started = {}
    /\ worker = [w \in Workers |-> "none"]
    /\ requests = [w \in Workers |-> 0]
    /\ open = {}
    /\ active = 0 /\ accepted = 0
    /\ result = -1

Goto(from, to) == main = from /\ main' = to
Step(w, from, to) == worker[w] = from /\ worker' = [worker EXCEPT ![w] = to]

-----------------------------------------------------------------------------
(* Startup.  A failed step goes to the cleanup with the flags set so far;  *)
(* without a listening socket main returns at once.  logger_init is        *)
(* checked too, but it cannot fail.                                        *)

Startup(from, to, part) ==
    /\ Goto(from, to)
    /\ ready' = ready \cup {part}
    /\ UNCHANGED <<started, worker, requests, open, active, accepted, result>>

Listen     == Startup("listen", "logger", "listener") /\ UNCHANGED queueVars
LoggerInit == Startup("logger", "stats", "logger") /\ UNCHANGED queueVars
StatsInit  == Startup("stats", "queue", "stats") /\ UNCHANGED queueVars
QueueInit  == Startup("queue", "pool", "queue") /\ Q!Create
PoolInit   == Startup("pool", "spawn", "pool") /\ UNCHANGED queueVars

StartupFails ==
    /\ Faults
    /\ \/ Goto("listen", "exit")
       \/ \E from \in {"stats", "queue", "pool"} : Goto(from, "cleanup")
    /\ UNCHANGED <<queueVars, ready, started, worker, requests, open, active, accepted, result>>

\* thread_pool_start: one iteration of its loop.
SpawnWorker(w) ==
    /\ main = "spawn"
    /\ w \notin started
    /\ started' = started \cup {w}
    /\ Step(w, "none", "pop")
    /\ UNCHANGED <<queueVars, main, ready, requests, open, active, accepted, result>>

SpawnDone ==
    /\ Goto("spawn", "loop")
    /\ started = Workers
    /\ UNCHANGED <<queueVars, ready, started, worker, requests, open, active, accepted, result>>

\* malloc or pthread_create failed: shut the queue down, join what runs.
SpawnFails ==
    /\ Faults
    /\ Goto("spawn", "spawn_shutdown")
    /\ started # Workers
    /\ Q!CallShutdown(Main)
    /\ UNCHANGED <<ready, started, worker, requests, open, active, accepted, result>>

\* Variant: the threads are not waited for.
JoinStartedUnwaited(from, to) ==
    /\ Goto(from, to)
    /\ pc[Main] = "idle"
    /\ started' = {}
    /\ UNCHANGED <<queueVars, ready, worker, requests, open, active, accepted, result>>

\* pthread_join of every started worker, after the shutdown call has returned.
JoinStarted(from, to) ==
    /\ Goto(from, to)
    /\ pc[Main] = "idle"
    /\ \A w \in started : worker[w] = "exited"
    /\ started' = {}
    /\ UNCHANGED <<queueVars, ready, worker, requests, open, active, accepted, result>>

SpawnJoin == JoinStarted("spawn_shutdown", "cleanup")

-----------------------------------------------------------------------------
(* The accept loop.                                                        *)

\* handle_shutdown_signal runs in thread t.  Only a main thread that is already
\* inside accept sees EINTR; at "entering" it has tested the flag and not called
\* accept yet.
Signal(t) ==
    /\ main # "exit"
    /\ t # Main => worker[t] \notin {"none", "exited"}
    /\ Q!RaiseAbort
    /\ main' = IF t = Main /\ main = "accept" THEN "loop" ELSE main
    /\ UNCHANGED <<ready, started, worker, requests, open, active, accepted, result>>

\* while (!shutdown_was_requested())
CheckFlag ==
    /\ \/ ~abort_flag /\ Goto("loop", "entering") /\ UNCHANGED result
       \/ abort_flag /\ Goto("loop", "cleanup") /\ result' = 0
    /\ UNCHANGED <<queueVars, ready, started, worker, requests, open, active, accepted>>

\* accept waits for a client.
EnterAccept ==
    /\ Goto("entering", "accept")
    /\ UNCHANGED <<queueVars, ready, started, worker, requests, open, active, accepted, result>>

\* A client arrives: accept, connection_accepted, and the call of push.
Accept(f) ==
    /\ Goto("accept", "push")
    /\ accepted < MaxAccepts
    /\ f \notin open
    /\ open' = open \cup {f}
    /\ accepted' = accepted + 1
    /\ Q!CallPush(Main, f)
    /\ UNCHANGED <<ready, started, worker, requests, active, result>>

\* accept failed other than by EINTR, for instance for want of a descriptor.
AcceptFails ==
    /\ Faults \/ open = Fds
    /\ Goto("accept", "loop")
    /\ UNCHANGED <<queueVars, ready, started, worker, requests, open, active, accepted, result>>

PushSucceeded ==
    /\ Goto("push", "started")
    /\ pc[Main] = "idle" /\ status[Main] = "OK"
    /\ UNCHANGED <<queueVars, ready, started, worker, requests, open, active, accepted, result>>

\* Variant: the descriptor that was not taken stays open.
PushFailedUnclosed ==
    /\ pc[Main] = "idle" /\ status[Main] # "OK"
    /\ IF status[Main] = "SHUTDOWN" \/ abort_flag
       THEN Goto("push", "cleanup") /\ result' = 0
       ELSE Goto("push", "loop") /\ UNCHANGED result
    /\ UNCHANGED <<queueVars, ready, started, worker, requests, open, active, accepted>>

\* Variant: a connection that was never counted is counted as finished.
PushFailedFinished ==
    /\ pc[Main] = "idle" /\ status[Main] # "OK"
    /\ open' = open \ {fd[Main]}
    /\ active' = IF active > 0 THEN active - 1 ELSE active
    /\ IF status[Main] = "SHUTDOWN" \/ abort_flag
       THEN Goto("push", "cleanup") /\ result' = 0
       ELSE Goto("push", "loop") /\ UNCHANGED result
    /\ UNCHANGED <<queueVars, ready, started, worker, requests, accepted>>

\* Push did not take the descriptor: close it here, then leave the loop or go on.
PushFailed ==
    /\ pc[Main] = "idle" /\ status[Main] # "OK"
    /\ open' = open \ {fd[Main]}
    /\ IF status[Main] = "SHUTDOWN" \/ abort_flag
       THEN Goto("push", "cleanup") /\ result' = 0
       ELSE Goto("push", "loop") /\ UNCHANGED result
    /\ UNCHANGED <<queueVars, ready, started, worker, requests, active, accepted>>

ConnectionStarted ==
    /\ Goto("started", "loop")
    /\ active' = active + 1
    /\ UNCHANGED <<queueVars, ready, started, worker, requests, open, accepted, result>>

-----------------------------------------------------------------------------
(* The cleanup of server_run and the end of main.                          *)

\* Variant: the queue is not shut down before the join.
CleanupShutdownForgotten ==
    /\ {"pool", "queue"} \subseteq ready
    /\ Goto("cleanup", "join")
    /\ UNCHANGED <<queueVars, ready, started, worker, requests, open, active, accepted, result>>

CleanupShutdown ==
    /\ {"pool", "queue"} \subseteq ready
    /\ Goto("cleanup", "join")
    /\ Q!CallShutdown(Main)
    /\ UNCHANGED <<ready, started, worker, requests, open, active, accepted, result>>

CleanupSkip ==
    /\ ~({"pool", "queue"} \subseteq ready)
    /\ Goto("cleanup", "destroy_pool")
    /\ UNCHANGED <<queueVars, ready, started, worker, requests, open, active, accepted, result>>

PoolJoin == JoinStarted("join", "destroy_pool")

Teardown(from, to, part) ==
    /\ Goto(from, to)
    /\ ready' = ready \ {part}
    /\ UNCHANGED <<started, worker, requests, active, accepted, result>>

PoolDestroy   == Teardown("destroy_pool", "destroy_queue", "pool") /\ UNCHANGED <<queueVars, open>>
StatsDestroy  == Teardown("destroy_stats", "destroy_logger", "stats") /\ UNCHANGED <<queueVars, open>>
LoggerDestroy == Teardown("destroy_logger", "close_listener", "logger") /\ UNCHANGED <<queueVars, open>>
ListenerClose == Teardown("close_listener", "exit", "listener") /\ UNCHANGED <<queueVars, open>>

\* Variant: the queue is freed with descriptors in it.
QueueDestroyUnclosed ==
    /\ Teardown("destroy_queue", "destroy_stats", "queue")
    /\ IF "queue" \in ready THEN Q!Destroy ELSE UNCHANGED queueVars
    /\ UNCHANGED open

\* connection_queue_destroy closes what is still queued.
QueueDestroy ==
    /\ Teardown("destroy_queue", "destroy_stats", "queue")
    /\ IF "queue" \in ready
       THEN Q!Destroy /\ open' = open \ Q!Leftover
       ELSE UNCHANGED <<queueVars, open>>

-----------------------------------------------------------------------------
(* worker_main, and client_handle as far as it blocks.                     *)

mainVars == <<main, ready, started, accepted, result>>

WorkerPop(w) ==
    /\ Step(w, "pop", "popping")
    /\ Q!CallPop(w)
    /\ UNCHANGED <<mainVars, requests, open, active>>

PopReturned(w) ==
    /\ pc[w] = "idle"
    /\ IF status[w] = "OK"
       THEN Step(w, "popping", "recv") /\ requests' = [requests EXCEPT ![w] = 0]
       ELSE Step(w, "popping", "exited") /\ UNCHANGED requests
    /\ UNCHANGED <<queueVars, mainVars, open, active>>

\* Variant: the request is not counted.
RecvAnsweredUncounted(w) ==
    /\ Step(w, "recv", "send")
    /\ UNCHANGED <<queueVars, mainVars, requests, open, active>>

\* A request, or an error that is answered, was received: respond.
RecvAnswered(w) ==
    /\ Step(w, "recv", "send")
    /\ requests' = [requests EXCEPT ![w] = @ + 1]
    /\ UNCHANGED <<queueVars, mainVars, open, active>>

\* The client closed, stayed idle, or the socket failed; or no response could be
\* built for what was received, which counts as a request.
RecvEnded(w) ==
    /\ Step(w, "recv", "close")
    /\ requests' \in {requests, [requests EXCEPT ![w] = @ + 1]}
    /\ UNCHANGED <<queueVars, mainVars, open, active>>

SendKeepsAlive(w) ==
    /\ requests[w] < MaxRequests
    /\ Step(w, "send", "recv")
    /\ UNCHANGED <<queueVars, mainVars, requests, open, active>>

SendEnded(w) ==
    /\ Step(w, "send", "close")
    /\ UNCHANGED <<queueVars, mainVars, requests, open, active>>

CloseClient(w) ==
    /\ Step(w, "close", "finish")
    /\ open' = open \ {fd[w]}
    /\ UNCHANGED <<queueVars, mainVars, requests, active>>

\* server_stats_connection_finished, and back to the worker's loop.
ConnectionFinished(w) ==
    /\ Step(w, "finish", "pop")
    /\ active' = IF active > 0 THEN active - 1 ELSE active
    /\ UNCHANGED <<queueVars, mainVars, requests, open>>

-----------------------------------------------------------------------------
(* The whole process.                                                      *)

MainStep ==
    \/ Listen \/ LoggerInit \/ StatsInit \/ QueueInit \/ PoolInit
    \/ \E w \in Workers : SpawnWorker(w)
    \/ SpawnDone \/ SpawnJoin
    \/ CheckFlag \/ EnterAccept \/ PushSucceeded \/ PushFailed \/ ConnectionStarted
    \/ CleanupShutdown \/ CleanupSkip \/ PoolJoin
    \/ PoolDestroy \/ QueueDestroy \/ StatsDestroy \/ LoggerDestroy \/ ListenerClose

WorkerStep(w) ==
    WorkerPop(w) \/ PopReturned(w) \/ CloseClient(w) \/ ConnectionFinished(w)

Receive(w) == RecvAnswered(w) \/ RecvEnded(w)
Send(w) == SendKeepsAlive(w) \/ SendEnded(w)

Threads == {Main} \cup Workers
QueueAcquire(t) == Q!Acquire(t) /\ UNCHANGED ownVars
QueueRun(t) == Q!Run(t) /\ UNCHANGED ownVars

Environment ==
    \/ \E t \in Threads : Signal(t)
    \/ \E f \in Fds : Accept(f)
    \/ AcceptFails \/ StartupFails \/ SpawnFails
    \/ \E t \in Threads : (Q!Fault(t) \/ Q!PopSpuriousWakeup(t)) /\ UNCHANGED ownVars

Terminated == main = "exit" /\ UNCHANGED vars

Next ==
    \/ MainStep
    \/ \E w \in Workers : WorkerStep(w) \/ Receive(w) \/ Send(w)
    \/ \E t \in Threads : QueueAcquire(t) \/ QueueRun(t)
    \/ Environment
    \/ Terminated

Spec == Init /\ [][Next]_vars

\* Threads that can run do, the mutex is not denied for ever, and a worker
\* leaves recv: poll and SO_RCVTIMEO bound it.  Nothing bounds send.
FairSpec ==
    /\ Spec
    /\ WF_vars(MainStep)
    /\ \A t \in Threads : WF_vars(QueueRun(t)) /\ SF_vars(QueueAcquire(t))
    /\ \A w \in Workers : WF_vars(WorkerStep(w) \/ Receive(w))

\* In addition every client reads what it is sent, or disconnects.
ReadingClients == \A w \in Workers : WF_vars(Send(w))
FairSpecReadingClients == FairSpec /\ ReadingClients

-----------------------------------------------------------------------------
(* Properties.                                                             *)

\* The owner of a descriptor: main until push has stored it, the queue until pop
\* has taken it, the worker until it has closed it.
MainHolds(f) == main = "push" /\ fd[Main] = f /\ status[Main] # "OK"
WorkerHolds(w, f) ==
    /\ fd[w] = f
    /\ (worker[w] = "popping" /\ status[w] = "OK") \/ worker[w] \in {"recv", "send", "close"}
QueueSlots(f) == {i \in 0..(count - 1) : items[Q!SlotOf(i)] = f}

Owners(f) ==
    {<<"main", t>> : t \in {u \in {Main} : MainHolds(f)}}
        \cup {<<"queue", i>> : i \in QueueSlots(f)}
        \cup {<<"worker", w>> : w \in {v \in Workers : WorkerHolds(v, f)}}

\* An open descriptor has exactly one owner and a closed one has none: nothing
\* leaks, nothing is served or closed twice, and no owner's descriptor is closed
\* under it, although numbers are reused as soon as they are closed.
OneOwner ==
    \A f \in Fds :
        IF f \in open THEN \E o \in Owners(f) : Owners(f) = {o} ELSE Owners(f) = {}

\* No thread uses a subsystem outside its lifetime: a call in progress means the
\* queue is live, and no worker runs once the queue, the statistics, the logger or
\* the pool is gone; also when starting the workers failed half way and when
\* workers left on an error.
NoUseAfterDestroy ==
    /\ \A t \in Threads : pc[t] # "idle" => live
    /\ ~({"logger", "stats", "queue", "pool"} \subseteq ready)
          => \A w \in Workers : worker[w] \in {"none", "exited"}

\* Every exit of the process has undone every initialisation, closed every
\* client and joined every worker.
CleanExit ==
    main = "exit" => /\ ready = {} /\ open = {} /\ started = {} /\ ~live
                     /\ \A w \in Workers : worker[w] \in {"none", "exited"}

\* What active_connections is meant to count: descriptors that were pushed and
\* whose client_handle has not finished its accounting.
InFlight ==
    count + Cardinality({w \in Workers : \E f \in Fds : WorkerHolds(w, f)})
          + Cardinality({w \in Workers : worker[w] = "finish"})

\* The gauge never misses a connection, except for the one whose push has
\* succeeded and whose connection_started is still to come.
ActiveNeverUndercounts ==
    active + (IF main \in {"push", "started"} /\ status[Main] = "OK" THEN 1 ELSE 0) >= InFlight

\* The gauge is back at zero when nothing is in flight (docs/http_support.md,
\* server_stats.h: each increment is paired with one decrement).
ActiveReturnsToZero ==
    (main \in {"loop", "entering", "accept"} /\ InFlight = 0) => active = 0

\* During a normal shutdown nothing that entered the queue is discarded: the queue
\* is empty when it is destroyed.
DrainedBeforeDestroy == main \in {"destroy_pool", "destroy_queue"} => count = 0

\* A shutdown request that finds the main thread anywhere but in accept (EINTR
\* takes it out of there) or about to call it ends the process.
ShutdownCompletes == (abort_flag /\ main \notin {"entering", "accept"}) ~> (main = "exit")

\* A shutdown request ends the process, wherever it finds the main thread (server.c:
\* "accept() fails with EINTR after the handler runs").
SignalEndsServer == abort_flag ~> (main = "exit")

\* Once the accept loop is left for a shutdown the process ends (docs/architecture.md:
\* "Shutdown remains bounded").
ShutdownBounded == (abort_flag /\ main = "cleanup") ~> (main = "exit")

\* Every accepted connection is eventually closed.
ConnectionsEnd == \A f \in Fds : (f \in open) ~> (f \notin open)
=============================================================================
