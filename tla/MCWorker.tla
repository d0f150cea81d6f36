------------------------------ MODULE MCWorker ------------------------------
(***************************************************************************)
(* What a worker runs, side by side: the loop of client_handle, the        *)
(* sending of one response, and the statistics, which it shares with the   *)
(* other threads.  Each behaviour runs one of them and leaves the others   *)
(* where they begin.                                                       *)
(***************************************************************************)
EXTENDS ClientHandler, ResponseSend, Statistics

VARIABLE part

workerVars == <<part, vars, sendVars, statsVars>>

\* The response that is not sent in the other two parts.
SendBegins == body_kind = "NONE" /\ omit_body = FALSE /\ SendInit

WorkerInit ==
    \/ part = "connection" /\ Init /\ SendBegins /\ StatsInit
    \/ part = "response" /\ Init /\ SendInit /\ StatsInit
    \/ part = "statistics" /\ Init /\ SendBegins /\ StatsInit

WorkerNext ==
    \/ part = "connection" /\ Next /\ UNCHANGED <<part, sendVars, statsVars>>
    \/ part = "response" /\ SendNext /\ UNCHANGED <<part, vars, statsVars>>
    \/ part = "statistics" /\ StatsNext /\ UNCHANGED <<part, vars, sendVars>>

\* The client takes what it is sent; nothing makes a system call fail.
Sends == part = "response" /\ Progress /\ UNCHANGED <<part, vars, statsVars>>

WorkerSpec == WorkerInit /\ [][WorkerNext]_workerVars /\ WF_workerVars(Sends)
=============================================================================
