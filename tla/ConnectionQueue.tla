-------------------------- MODULE ConnectionQueue --------------------------
(***************************************************************************)
(* The bounded queue of accepted descriptors (src/src/connection_queue.c): *)
(* a ring buffer behind one mutex and two condition variables, filled by   *)
(* the accept thread and emptied by the workers.                           *)
(*                                                                         *)
(* A call is cut where another thread can run in between: at the mutex and *)
(* at the condition waits.  The threads waiting on a condition variable    *)
(* are those whose pc is "push_wait" (not_full) or "pop_wait" (not_empty). *)
(***************************************************************************)
EXTENDS Naturals, Sequences

CONSTANTS Producers,  \* threads that call push and shutdown
          Consumers,  \* threads that call pop
          Fds,        \* client descriptors
          NoFd,       \* the code's -1, and a slot that was never written
          NoThread,   \* owner of a free mutex
          Capacity,   \* queue->capacity
          Faults      \* whether the checked pthread and clock calls may fail

Threads == Producers \cup Consumers

\* connection_queue_init refuses a capacity of 0.
ASSUME CapacityAssumption == Capacity \in Nat \ {0}
ASSUME NullAssumption == NoFd \notin Fds /\ NoThread \notin Threads
ASSUME FaultsAssumption == Faults \in BOOLEAN

VARIABLES items, head, tail, count, shutting_down,
          live,        \* the mutex and the conditions are initialised
          mutex,       \* the thread that holds queue->mutex
          pc,          \* where each thread is inside its call
          fd,          \* each thread's client_fd: argument of push, result of pop
          status,      \* what each thread's last call returned
          abort_flag   \* *abort_flag, written by the signal handler

ring == <<items, head, tail, count, shutting_down>>
vars == <<ring, live, mutex, pc, fd, status, abort_flag>>

Slots == 0..(Capacity - 1)
EmptyRing == [i \in Slots |-> NoFd]

Init ==
    /\ items = EmptyRing
    /\ head = 0 /\ tail = 0 /\ count = 0
    /\ shutting_down = FALSE
    /\ live = FALSE
    /\ mutex = NoThread
    /\ pc = [t \in Threads |-> "idle"]
    /\ fd = [t \in Threads |-> NoFd]
    /\ status = [t \in Threads |-> "none"]
    /\ abort_flag = FALSE

-----------------------------------------------------------------------------
(* Construction and destruction.  Neither takes the mutex.                 *)

\* connection_queue_init; when one of its steps fails it undoes the others
\* through connection_queue_destroy and the queue stays as it was.
Create ==
    /\ items' = EmptyRing
    /\ head' = 0 /\ tail' = 0 /\ count' = 0
    /\ shutting_down' = FALSE
    /\ live' = TRUE
    /\ UNCHANGED <<mutex, pc, fd, status, abort_flag>>

\* The slot of the i-th oldest descriptor, i counted from 0.
SlotOf(i) == (head + i) % Capacity

\* The descriptors connection_queue_destroy finds and closes.
Leftover == {items[SlotOf(i)] : i \in 0..(count - 1)}

Destroy ==
    /\ items' = EmptyRing
    /\ head' = 0 /\ tail' = 0 /\ count' = 0
    /\ shutting_down' = FALSE
    /\ live' = FALSE
    /\ UNCHANGED <<mutex, pc, fd, status, abort_flag>>

-----------------------------------------------------------------------------
(* The mutex, the returns and the condition variables.                     *)

Lock(t, from, to) ==
    /\ pc[t] = from
    /\ mutex = NoThread
    /\ mutex' = t
    /\ pc' = [pc EXCEPT ![t] = to]
    /\ UNCHANGED <<ring, live, fd, status, abort_flag>>

\* pthread_mutex_unlock and return st.
UnlockReturn(t, st) ==
    /\ mutex' = NoThread
    /\ pc' = [pc EXCEPT ![t] = "idle"]
    /\ status' = [status EXCEPT ![t] = st]
    /\ UNCHANGED <<ring, live, fd, abort_flag>>

\* pthread_mutex_lock returned an error: nothing is held, nothing changed.
LockFails(t) ==
    /\ Faults
    /\ pc[t] \in {"push_lock", "pop_lock"}
    /\ pc' = [pc EXCEPT ![t] = "idle"]
    /\ status' = [status EXCEPT ![t] = "ERROR"]
    /\ UNCHANGED <<ring, live, mutex, fd, abort_flag>>

\* The wait releases the mutex and blocks in one step.
CondWait(t, at) ==
    /\ mutex' = NoThread
    /\ pc' = [pc EXCEPT ![t] = at]
    /\ UNCHANGED <<ring, live, fd, status, abort_flag>>

Waiting(at) == {t \in Threads : pc[t] = at}

\* pthread_cond_signal, pthread_mutex_unlock and return: one waiter, if there
\* is one, leaves the wait and has to take the mutex again.
SignalUnlockReturn(t, at, to) ==
    /\ IF Waiting(at) = {}
       THEN pc' = [pc EXCEPT ![t] = "idle"]
       ELSE \E w \in Waiting(at) : pc' = [pc EXCEPT ![t] = "idle", ![w] = to]
    /\ mutex' = NoThread
    /\ UNCHANGED <<ring, live, fd, status, abort_flag>>

-----------------------------------------------------------------------------
(* connection_queue_push(queue, client_fd, abort_flag)                     *)

CallPush(t, f) ==
    /\ pc[t] = "idle"
    /\ pc' = [pc EXCEPT ![t] = "push_lock"]
    /\ fd' = [fd EXCEPT ![t] = f]
    /\ status' = [status EXCEPT ![t] = "none"]
    /\ UNCHANGED <<ring, live, mutex, abort_flag>>

PushLock(t) == Lock(t, "push_lock", "push_loop")

\* The condition of the while loop.
MustWaitToPush == count >= Capacity /\ ~shutting_down

\* The abort flag is looked at only while the queue is full.
PushAborted(t) ==
    /\ pc[t] = "push_loop"
    /\ MustWaitToPush
    /\ abort_flag
    /\ UnlockReturn(t, "SHUTDOWN")

\* clock_gettime or pthread_cond_timedwait returned an error.
PushFails(t) ==
    /\ Faults
    /\ pc[t] = "push_loop"
    /\ MustWaitToPush
    /\ ~abort_flag
    /\ UnlockReturn(t, "ERROR")

\* Variant: waits without looking at the abort flag.
PushWaitDeaf(t) ==
    /\ pc[t] = "push_loop"
    /\ MustWaitToPush
    /\ CondWait(t, "push_wait")

PushWait(t) ==
    /\ pc[t] = "push_loop"
    /\ MustWaitToPush
    /\ ~abort_flag
    /\ CondWait(t, "push_wait")

\* The 100 ms are over, or the wait ended spuriously: either way the loop
\* takes the mutex and tests again.
PushTimeout(t) ==
    /\ pc[t] = "push_wait"
    /\ pc' = [pc EXCEPT ![t] = "push_relock"]
    /\ UNCHANGED <<ring, live, mutex, fd, status, abort_flag>>

PushRelock(t) == Lock(t, "push_relock", "push_loop")

PushRefused(t) ==
    /\ pc[t] = "push_loop"
    /\ shutting_down
    /\ UnlockReturn(t, "SHUTDOWN")

\* Variant: advances the tail before it stores.
PushStoreTailFirst(t) ==
    /\ pc[t] = "push_loop"
    /\ ~MustWaitToPush
    /\ ~shutting_down
    /\ tail' = (tail + 1) % Capacity
    /\ items' = [items EXCEPT ![tail'] = fd[t]]
    /\ count' = count + 1
    /\ pc' = [pc EXCEPT ![t] = "push_signal"]
    /\ status' = [status EXCEPT ![t] = "OK"]
    /\ UNCHANGED <<head, shutting_down, live, mutex, fd, abort_flag>>

PushStore(t) ==
    /\ pc[t] = "push_loop"
    /\ ~MustWaitToPush
    /\ ~shutting_down
    /\ items' = [items EXCEPT ![tail] = fd[t]]
    /\ tail' = (tail + 1) % Capacity
    /\ count' = count + 1
    /\ pc' = [pc EXCEPT ![t] = "push_signal"]
    /\ status' = [status EXCEPT ![t] = "OK"]
    /\ UNCHANGED <<head, shutting_down, live, mutex, fd, abort_flag>>

\* Variant: signals only when the queue was empty.
PushSignalIfWasEmpty(t) ==
    /\ pc[t] = "push_signal"
    /\ IF count = 1 THEN SignalUnlockReturn(t, "pop_wait", "pop_relock")
                    ELSE UnlockReturn(t, "OK")

PushSignal(t) ==
    /\ pc[t] = "push_signal"
    /\ SignalUnlockReturn(t, "pop_wait", "pop_relock")

-----------------------------------------------------------------------------
(* connection_queue_pop(queue, &client_fd)                                 *)

CallPop(t) ==
    /\ pc[t] = "idle"
    /\ pc' = [pc EXCEPT ![t] = "pop_lock"]
    /\ fd' = [fd EXCEPT ![t] = NoFd]
    /\ status' = [status EXCEPT ![t] = "none"]
    /\ UNCHANGED <<ring, live, mutex, abort_flag>>

PopLock(t) == Lock(t, "pop_lock", "pop_loop")

MustWaitToPop == count = 0 /\ ~shutting_down

PopFails(t) ==
    /\ Faults
    /\ pc[t] = "pop_loop"
    /\ MustWaitToPop
    /\ UnlockReturn(t, "ERROR")

PopWait(t) ==
    /\ pc[t] = "pop_loop"
    /\ MustWaitToPop
    /\ CondWait(t, "pop_wait")

\* POSIX lets pthread_cond_wait return without a signal.
PopSpuriousWakeup(t) ==
    /\ pc[t] = "pop_wait"
    /\ pc' = [pc EXCEPT ![t] = "pop_relock"]
    /\ UNCHANGED <<ring, live, mutex, fd, status, abort_flag>>

PopRelock(t) == Lock(t, "pop_relock", "pop_loop")

\* Variant: stops at shutdown without draining.
PopRefusedUndrained(t) ==
    /\ pc[t] = "pop_loop"
    /\ shutting_down
    /\ UnlockReturn(t, "SHUTDOWN")

PopRefused(t) ==
    /\ pc[t] = "pop_loop"
    /\ count = 0 /\ shutting_down
    /\ UnlockReturn(t, "SHUTDOWN")

PopTake(t) ==
    /\ pc[t] = "pop_loop"
    /\ ~MustWaitToPop
    /\ ~(count = 0 /\ shutting_down)
    /\ fd' = [fd EXCEPT ![t] = items[head]]
    /\ head' = (head + 1) % Capacity
    /\ count' = count - 1
    /\ pc' = [pc EXCEPT ![t] = "pop_signal"]
    /\ status' = [status EXCEPT ![t] = "OK"]
    /\ UNCHANGED <<items, tail, shutting_down, live, mutex, abort_flag>>

PopSignal(t) ==
    /\ pc[t] = "pop_signal"
    /\ SignalUnlockReturn(t, "push_wait", "push_relock")

-----------------------------------------------------------------------------
(* connection_queue_shutdown(queue)                                        *)

CallShutdown(t) ==
    /\ pc[t] = "idle"
    /\ pc' = [pc EXCEPT ![t] = "shutdown_lock"]
    /\ status' = [status EXCEPT ![t] = "none"]
    /\ UNCHANGED <<ring, live, mutex, fd, abort_flag>>

ShutdownLock(t) == Lock(t, "shutdown_lock", "shutdown_set")

\* Variant: not_empty is not broadcast.
AfterBroadcastNotFull(t, u) ==
    IF u = t THEN "idle"
    ELSE IF pc[u] = "push_wait" THEN "push_relock"
    ELSE pc[u]

\* Where both broadcasts leave thread u, t being the caller.
AfterBroadcast(t, u) ==
    IF u = t THEN "idle"
    ELSE IF pc[u] = "pop_wait"  THEN "pop_relock"
    ELSE IF pc[u] = "push_wait" THEN "push_relock"
    ELSE pc[u]

ShutdownBroadcast(t) ==
    /\ pc[t] = "shutdown_set"
    /\ shutting_down' = TRUE
    /\ pc' = [u \in Threads |-> AfterBroadcast(t, u)]
    /\ mutex' = NoThread
    /\ UNCHANGED <<items, head, tail, count, live, fd, status, abort_flag>>

-----------------------------------------------------------------------------
(* The queue under every client that calls it by its rules: calls go to a  *)
(* live queue, and nobody is inside a call when it is created or destroyed.*)

Fault(t) == LockFails(t) \/ PushFails(t) \/ PopFails(t)

Quiescent == \A t \in Threads : pc[t] = "idle"

\* handle_shutdown_signal stores 1 through the flag push is given.
RaiseAbort ==
    /\ abort_flag' = TRUE
    /\ UNCHANGED <<ring, live, mutex, pc, fd, status>>

Lifecycle ==
    /\ Quiescent
    /\ \/ ~live /\ Create
       \/ live /\ Destroy

Call ==
    /\ live
    /\ \/ \E t \in Producers, f \in Fds : CallPush(t, f)
       \/ \E t \in Producers : CallShutdown(t)
       \/ \E t \in Consumers : CallPop(t)

\* A thread asks for the mutex, for the first time or after a wait.
Acquire(t) ==
    \/ PushLock(t) \/ PushRelock(t) \/ PopLock(t) \/ PopRelock(t) \/ ShutdownLock(t)

\* A thread that holds the mutex goes on, or its timed wait is over.
Run(t) ==
    \/ PushAborted(t) \/ PushWait(t) \/ PushTimeout(t)
    \/ PushRefused(t) \/ PushStore(t) \/ PushSignal(t)
    \/ PopWait(t) \/ PopRefused(t) \/ PopTake(t) \/ PopSignal(t)
    \/ ShutdownBroadcast(t)

Step(t) == Acquire(t) \/ Run(t)

Next ==
    \/ Lifecycle
    \/ Call
    \/ RaiseAbort
    \/ \E t \in Threads : Step(t) \/ Fault(t) \/ PopSpuriousWakeup(t)

Spec == Init /\ [][Next]_vars

\* The schedule the liveness properties assume.  A thread that is not blocked
\* runs; the 100 ms of a timed wait expire; a thread that asks for a mutex that
\* is free again and again gets it.  Nothing makes a wait end spuriously, and
\* nothing makes a client call.
Fairness == \A t \in Threads : WF_vars(Run(t)) /\ SF_vars(Acquire(t))

FairSpec == Spec /\ Fairness

-----------------------------------------------------------------------------
(* Properties.                                                             *)

Outside == {"idle", "push_lock", "push_wait", "push_relock",
            "pop_lock", "pop_wait", "pop_relock", "shutdown_lock"}
Inside  == {"push_loop", "push_signal", "pop_loop", "pop_signal", "shutdown_set"}

\* The type of every variable of the queue and of the calls in progress.
TypeOK ==
    /\ items \in [Slots -> Fds \cup {NoFd}]
    /\ head \in Slots /\ tail \in Slots /\ count \in 0..Capacity
    /\ shutting_down \in BOOLEAN /\ live \in BOOLEAN /\ abort_flag \in BOOLEAN
    /\ mutex \in Threads \cup {NoThread}
    /\ pc \in [Threads -> Outside \cup Inside]
    /\ fd \in [Threads -> Fds \cup {NoFd}]
    /\ status \in [Threads -> {"none", "OK", "SHUTDOWN", "ERROR"}]

\* Mutual exclusion: exactly the owner of the mutex is between lock and unlock,
\* through waits, timeouts, wakeups and error returns.
MutualExclusion == \A t \in Threads : pc[t] \in Inside <=> mutex = t

Pushing == {"push_lock", "push_loop", "push_wait", "push_relock"}

\* The ring is consistent at every instant: the tail is count slots after the
\* head, the count slots from the head on hold descriptors that were pushed, so
\* neither pop nor destroy reads a stale slot, and a push that waits still has
\* its descriptor to store.
RingConsistent ==
    /\ tail = SlotOf(count)
    /\ \A i \in 0..(count - 1) : items[SlotOf(i)] \in Fds
    /\ \A t \in Threads : pc[t] \in Pushing => fd[t] \in Fds

\* Who will look at a queued descriptor: the workers that are awake inside pop, and
\* the push that has stored and is about to signal.
Awake == {t \in Threads : pc[t] \in {"pop_relock", "pop_loop", "push_signal"}}

\* n descriptors can be given a member of S each.
Suffice(S, n) ==
    \E taker \in [1..n -> S] : \A i, j \in 1..n : taker[i] = taker[j] => i = j

\* No wakeup is lost: while a worker sleeps on not_empty, every queued descriptor
\* has a worker of its own that is awake and will test the queue, or a push about
\* to signal.
NoLostWakeup == Waiting("pop_wait") # {} => Suffice(Awake, count)

\* connection_queue_shutdown wakes everybody for good: nobody sleeps on either
\* condition once the flag is set, not even a thread that was between its test
\* and its wait when shutdown was called.
NoSleepAfterShutdown ==
    shutting_down => Waiting("pop_wait") = {} /\ Waiting("push_wait") = {}

\* Every call in progress when the queue is shut down returns: the producer blocked
\* on a full queue and the workers blocked on an empty one included.  A producer
\* that waits already returns once the signal handler has set the abort flag,
\* although the handler signals no condition variable (the 100 ms timed wait).
CallersReleased ==
    /\ \A t \in Threads : (shutting_down /\ pc[t] # "idle") ~> (pc[t] = "idle")
    /\ \A t \in Producers : (abort_flag /\ pc[t] = "push_wait") ~> (pc[t] = "idle")

\* A worker does not sleep for ever beside queued descriptors: it is woken, or
\* the other workers empty the queue.
SleeperIsServed ==
    \A t \in Consumers : (pc[t] = "pop_wait" /\ count > 0)
                             ~> (pc[t] # "pop_wait" \/ count = 0)

-----------------------------------------------------------------------------
(* What the queue is to its callers.                                       *)

\* The queued descriptors, oldest first.
Contents == [i \in 1..count |-> items[SlotOf(i - 1)]]

\* The call a thread is in: push and pop are "done" once they have stored or
\* taken, shutdown is over when it returns.
OpOf(p) ==
    IF p \in Pushing THEN "push"
    ELSE IF p \in {"pop_lock", "pop_loop", "pop_wait", "pop_relock"} THEN "pop"
    ELSE IF p \in {"shutdown_lock", "shutdown_set"} THEN "shutdown"
    ELSE IF p \in {"push_signal", "pop_signal"} THEN "done"
    ELSE "idle"

Abstract == INSTANCE BoundedQueue WITH
                queue <- Contents,
                op    <- [t \in Threads |-> OpOf(pc[t])]

\* The ring buffer with its mutex and conditions implements the bounded FIFO:
\* descriptors come out once each, in the order they went in, never more than
\* Capacity wait, pushes are refused after shutdown or on abort with a full queue
\* only, and pop stops only when the queue is shut down and drained.
ImplementsBoundedQueue == Abstract!Spec
=============================================================================
