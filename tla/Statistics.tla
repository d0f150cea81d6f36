----------------------------- MODULE Statistics -----------------------------
(***************************************************************************)
(* server_stats.c: counters behind a mutex.  Every call is cut where       *)
(* another thread could come in: an update loads and stores its counter,   *)
(* a snapshot copies one counter after the other.  The object is           *)
(* initialised while threads use it (NoUseAfterDestroy of Server).         *)
(***************************************************************************)
EXTENDS Integers, FiniteSets

CONSTANTS Threads,
          NoThread,
          MaxCalls    \* bound: calls made altogether

ASSUME ThreadsAssumption == NoThread \notin Threads

VARIABLES counters,
          mutex,
          pc, call,
          loaded,     \* what an update has read
          snapshot,   \* the caller's copy
          todo,       \* the counters still to be copied
          exact,      \* the counters if every call took one instant
          instant,    \* what exact was when the thread's snapshot began
          calls

statsVars == <<counters, mutex, pc, call, loaded, snapshot, todo, exact, instant, calls>>
ghosts == <<exact, instant>>

Counters == {"connections_accepted", "requests_total", "responses_2xx", "responses_4xx",
             "responses_5xx", "active_connections"}

Zero == [c \in Counters |-> 0]

\* What each call does, and to which counter; a response of another class counts
\* nowhere.
Calls ==
    {[op |-> "add", counter |-> c] : c \in Counters}
        \cup {[op |-> "subtract", counter |-> "active_connections"]}
        \cup {[op |-> "none", counter |-> "responses_2xx"],
              [op |-> "snapshot", counter |-> "requests_total"]}

Idle == [op |-> "none", counter |-> "responses_2xx"]

StatsInit ==
    /\ counters = Zero /\ exact = Zero
    /\ mutex = NoThread
    /\ pc = [t \in Threads |-> "idle"]
    /\ call = [t \in Threads |-> Idle]
    /\ loaded = [t \in Threads |-> 0]
    /\ snapshot = [t \in Threads |-> Zero] /\ instant = [t \in Threads |-> Zero]
    /\ todo = [t \in Threads |-> {}]
    /\ calls = 0

Goto(t, place) == pc' = [pc EXCEPT ![t] = place]

\* connection_accepted, connection_started, connection_finished, request_received,
\* response_sent, snapshot (which clears the caller's copy first).
Call(t) ==
    /\ pc[t] = "idle" /\ calls < MaxCalls
    /\ call' \in {[call EXCEPT ![t] = c] : c \in Calls}
    /\ snapshot' = [snapshot EXCEPT ![t] = Zero]
    /\ todo' = [todo EXCEPT ![t] = Counters]
    /\ calls' = calls + 1
    /\ Goto(t, "lock")
    /\ UNCHANGED <<counters, mutex, loaded, ghosts>>

Body(c) == IF c.op = "snapshot" THEN "copy" ELSE IF c.op = "none" THEN "unlock" ELSE "load"

\* Variant: the lock is not waited for.
LockStatsFree(t) ==
    /\ pc[t] = "lock"
    /\ mutex' = t
    /\ instant' = [instant EXCEPT ![t] = exact]
    /\ Goto(t, Body(call[t]))
    /\ UNCHANGED <<counters, call, loaded, snapshot, todo, exact, calls>>

LockStats(t) ==
    /\ pc[t] = "lock" /\ mutex = NoThread
    /\ mutex' = t
    /\ instant' = [instant EXCEPT ![t] = exact]
    /\ Goto(t, Body(call[t]))
    /\ UNCHANGED <<counters, call, loaded, snapshot, todo, exact, calls>>

Load(t) ==
    /\ pc[t] = "load"
    /\ loaded' = [loaded EXCEPT ![t] = counters[call[t].counter]]
    /\ Goto(t, "store")
    /\ UNCHANGED <<counters, mutex, call, snapshot, todo, ghosts, calls>>

\* connection_finished does not go below zero.
Updated(c, value) ==
    IF c.op = "add" THEN value + 1 ELSE IF value > 0 THEN value - 1 ELSE 0

Store(t) ==
    /\ pc[t] = "store"
    /\ LET c == call[t].counter IN
        /\ counters' = [counters EXCEPT ![c] = Updated(call[t], loaded[t])]
        /\ exact' = [exact EXCEPT ![c] = Updated(call[t], exact[c])]
    /\ Goto(t, "unlock")
    /\ UNCHANGED <<mutex, call, loaded, snapshot, todo, instant, calls>>

\* One field of the snapshot; the order is the compiler's.
Copy(t) ==
    /\ pc[t] = "copy"
    /\ \E c \in todo[t] :
          /\ snapshot' = [snapshot EXCEPT ![t][c] = counters[c]]
          /\ todo' = [todo EXCEPT ![t] = @ \ {c}]
    /\ UNCHANGED <<counters, mutex, pc, call, loaded, ghosts, calls>>

\* Variant: the last field is left out.
CopiedEarly(t) == pc[t] = "copy" /\ Cardinality(todo[t]) <= 1

Copied(t) == pc[t] = "copy" /\ todo[t] = {}

UnlockStats(t) ==
    /\ pc[t] = "unlock" \/ Copied(t)
    /\ mutex' = NoThread
    /\ Goto(t, "return")
    /\ UNCHANGED <<counters, call, loaded, snapshot, todo, ghosts, calls>>

\* The call returns and the copy belongs to its caller.
StatsReturn(t) ==
    /\ pc[t] = "return"
    /\ Goto(t, "idle")
    /\ call' = [call EXCEPT ![t] = Idle]
    /\ loaded' = [loaded EXCEPT ![t] = 0]
    /\ snapshot' = [snapshot EXCEPT ![t] = Zero]
    /\ instant' = [instant EXCEPT ![t] = Zero]
    /\ UNCHANGED <<counters, mutex, todo, exact, calls>>

Step(t) ==
    \/ LockStats(t) \/ Load(t) \/ Store(t) \/ Copy(t) \/ UnlockStats(t) \/ StatsReturn(t)

StatsTerminated == calls = MaxCalls /\ (\A t \in Threads : pc[t] = "idle") /\ UNCHANGED statsVars

StatsNext == (\E t \in Threads : Call(t) \/ Step(t)) \/ StatsTerminated

StatsSpec == StatsInit /\ [][StatsNext]_statsVars

-----------------------------------------------------------------------------
(* Properties.                                                             *)

\* Counters, places and copies are of their types; no counter is negative.
TypeOK ==
    /\ counters \in [Counters -> Nat] /\ exact \in [Counters -> Nat]
    /\ mutex \in Threads \cup {NoThread}
    /\ pc \in [Threads -> {"idle", "lock", "load", "store", "copy", "unlock", "return"}]
    /\ call \in [Threads -> Calls]
    /\ loaded \in [Threads -> Nat]
    /\ todo \in [Threads -> SUBSET Counters]
    /\ snapshot \in [Threads -> [Counters -> Nat]]
    /\ instant \in [Threads -> [Counters -> Nat]]

Inside == {"load", "store", "copy", "unlock"}

\* A thread between lock_stats and unlock_stats is alone there, and what it has read
\* from the counters, to update one or to copy them, is still what they are.
ReadIsCurrent ==
    /\ \A t \in Threads : pc[t] \in Inside <=> mutex = t
    /\ \A t \in Threads : pc[t] = "store" => loaded[t] = counters[call[t].counter]
    /\ \A t \in Threads : pc[t] \in Inside => (pc[t] = "copy" <=> call[t].op = "snapshot")
    /\ \A t \in Threads : pc[t] = "lock" => todo[t] = Counters
    /\ \A t \in Threads : pc[t] = "copy" =>
          /\ instant[t] = exact
          /\ \A c \in Counters \ todo[t] : snapshot[t][c] = counters[c]

\* No update is lost: the counters are what they would be if every call took a
\* single instant, however loads and stores of the threads interleave.
CountersExact == counters = exact

\* A snapshot shows one instant: all of its counters are as they were when the call
\* got the lock, none older and none newer than another.
SnapshotIsInstant ==
    \A t \in Threads : pc[t] = "return" /\ call[t].op = "snapshot" => snapshot[t] = instant[t]
=============================================================================
