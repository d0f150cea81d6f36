--------------------------- MODULE ServingProcess ---------------------------
(***************************************************************************)
(* worker_main calling client_handle: the process of module Server, in     *)
(* which one worker, Self, runs all of module ClientHandler for each       *)
(* connection it pops.  The other workers are Server's.                    *)
(*                                                                         *)
(* worker[Self] is "recv" from the return of pop to the end of             *)
(* client_handle, and the variables of ClientHandler say where it is;      *)
(* served[Self] is not used meanwhile.                                     *)
(***************************************************************************)
EXTENDS ClientHandler, FiniteSets

CONSTANTS Main, Workers, Fds, NoFd, NoThread, Capacity, Faults, MaxAccepts,
          Self   \* the worker that runs client_handle

ASSUME SelfAssumption == Self \in Workers

VARIABLES items, head, tail, count, shutting_down, live, mutex, pc, fd, queue_status, abort_flag,
          main, ready, started, worker, served, open, active, accepted, result

processVars == <<items, head, tail, count, shutting_down, live, mutex, pc, fd, queue_status,
                 abort_flag, main, ready, started, worker, served, open, active, accepted, result>>

P == INSTANCE Server WITH status <- queue_status, requests <- served

ProcessInit == P!Init /\ Init

\* Everything that is not Self's work for a connection.
Others ==
    /\ \/ P!MainStep \/ P!Environment \/ P!Terminated
       \/ P!WorkerPop(Self) \/ (P!PopReturned(Self) /\ queue_status[Self] # "OK")
       \/ \E w \in Workers \ {Self} : P!WorkerStep(w) \/ P!Receive(w) \/ P!Send(w)
       \/ \E t \in P!Threads : P!QueueAcquire(t) \/ P!QueueRun(t)
    /\ UNCHANGED vars

\* worker_main calls client_handle with what it has popped.
CallHandle == P!PopReturned(Self) /\ queue_status[Self] = "OK" /\ Start

\* Inside client_handle, up to close.
Handle ==
    /\ \/ Read \/ ParseFailed \/ (\E req \in ParsedRequests : ParseOk(req)) \/ Dispatch
       \/ SendOne \/ Sent \/ SendFailed \/ NextIteration
    /\ UNCHANGED processVars

\* Variant: the descriptor is left open.
HandleClosesNot == CloseClient /\ UNCHANGED processVars

\* close(client_fd)
HandleCloses ==
    /\ CloseClient
    /\ open' = open \ {fd[Self]}
    /\ UNCHANGED <<items, head, tail, count, shutting_down, live, mutex, pc, fd, queue_status,
                   abort_flag, main, ready, started, worker, served, active, accepted, result>>

\* server_stats_connection_finished, and back to worker_main.
HandleReturns ==
    /\ ConnectionFinished
    /\ worker' = [worker EXCEPT ![Self] = "pop"]
    /\ active' = IF active > 0 THEN active - 1 ELSE active
    /\ UNCHANGED <<items, head, tail, count, shutting_down, live, mutex, pc, fd, queue_status,
                   abort_flag, main, ready, started, served, open, accepted, result>>

ProcessNext == Others \/ CallHandle \/ Handle \/ HandleCloses \/ HandleReturns

ProcessSpec == ProcessInit /\ [][ProcessNext]_<<vars, processVars>>

-----------------------------------------------------------------------------
(* Properties.                                                             *)

\* What Server sees of Self while it serves is the phase client_handle is in and its
\* count of requests.
Abstract == INSTANCE Server WITH
    status <- queue_status,
    worker <- [worker EXCEPT ![Self] = IF @ = "recv" THEN Phase ELSE @],
    requests <- [served EXCEPT ![Self] = requests]

\* A worker that runs all of client_handle does nothing Server's worker could not do:
\* through refused requests, responses that cannot be built, failed sends and the
\* limit, on a connection that is closed once and then accounted for.  Every safety
\* property of Server therefore holds of the process with the handler in it.
ImplementsServer == Abstract!Spec
=============================================================================
