---------------------------- MODULE BoundedQueue ----------------------------
(***************************************************************************)
(* What the connection queue promises its callers (the policy stated in    *)
(* src/include/connection_queue.h): a FIFO of at most Capacity             *)
(* descriptors whose operations take effect at one instant between call    *)
(* and return, that refuses work after shutdown and still hands out what   *)
(* it had accepted before.  There is no mutex, no condition and no ring.   *)
(***************************************************************************)
EXTENDS Naturals, Sequences

CONSTANTS Producers, Consumers, Fds, NoFd, Capacity, Faults

VARIABLES queue,       \* the queued descriptors, oldest first
          shutting_down, live, abort_flag,
          op,          \* each thread's call; "done" once it has taken effect
          fd, status

vars == <<queue, shutting_down, live, abort_flag, op, fd, status>>

Threads == Producers \cup Consumers

Init ==
    /\ queue = <<>>
    /\ shutting_down = FALSE /\ live = FALSE /\ abort_flag = FALSE
    /\ op = [t \in Threads |-> "idle"]
    /\ fd = [t \in Threads |-> NoFd]
    /\ status = [t \in Threads |-> "none"]

Quiescent == \A t \in Threads : op[t] = "idle"

Create ==
    /\ ~live /\ Quiescent
    /\ queue' = <<>> /\ shutting_down' = FALSE /\ live' = TRUE
    /\ UNCHANGED <<abort_flag, op, fd, status>>

Destroy ==
    /\ live /\ Quiescent
    /\ queue' = <<>> /\ shutting_down' = FALSE /\ live' = FALSE
    /\ UNCHANGED <<abort_flag, op, fd, status>>

RaiseAbort ==
    /\ abort_flag' = TRUE
    /\ UNCHANGED <<queue, shutting_down, live, op, fd, status>>

Call(t, what, f) ==
    /\ live
    /\ op[t] = "idle"
    /\ op' = [op EXCEPT ![t] = what]
    /\ fd' = [fd EXCEPT ![t] = f]
    /\ status' = [status EXCEPT ![t] = "none"]
    /\ UNCHANGED <<queue, shutting_down, live, abort_flag>>

\* The call ends without having touched the queue.
Refuse(t, st) ==
    /\ op' = [op EXCEPT ![t] = "idle"]
    /\ status' = [status EXCEPT ![t] = st]
    /\ UNCHANGED <<queue, shutting_down, live, abort_flag, fd>>

Push(t) ==
    /\ op[t] = "push"
    /\ ~shutting_down
    /\ Len(queue) < Capacity
    /\ queue' = Append(queue, fd[t])
    /\ op' = [op EXCEPT ![t] = "done"]
    /\ status' = [status EXCEPT ![t] = "OK"]
    /\ UNCHANGED <<shutting_down, live, abort_flag, fd>>

PushRefused(t) ==
    /\ op[t] = "push"
    /\ shutting_down \/ (Len(queue) = Capacity /\ abort_flag)
    /\ Refuse(t, "SHUTDOWN")

\* Work accepted before the shutdown is handed out after it as well.
Pop(t) ==
    /\ op[t] = "pop"
    /\ queue # <<>>
    /\ fd' = [fd EXCEPT ![t] = Head(queue)]
    /\ queue' = Tail(queue)
    /\ op' = [op EXCEPT ![t] = "done"]
    /\ status' = [status EXCEPT ![t] = "OK"]
    /\ UNCHANGED <<shutting_down, live, abort_flag>>

PopRefused(t) ==
    /\ op[t] = "pop"
    /\ shutting_down /\ queue = <<>>
    /\ Refuse(t, "SHUTDOWN")

Fail(t) ==
    /\ Faults
    /\ op[t] \in {"push", "pop"}
    /\ Refuse(t, "ERROR")

Shutdown(t) ==
    /\ op[t] = "shutdown"
    /\ shutting_down' = TRUE
    /\ op' = [op EXCEPT ![t] = "idle"]
    /\ UNCHANGED <<queue, live, abort_flag, fd, status>>

Return(t) ==
    /\ op[t] = "done"
    /\ op' = [op EXCEPT ![t] = "idle"]
    /\ UNCHANGED <<queue, shutting_down, live, abort_flag, fd, status>>

Next ==
    \/ Create \/ Destroy \/ RaiseAbort
    \/ \E t \in Producers : \/ \E f \in Fds : Call(t, "push", f)
                            \/ Call(t, "shutdown", fd[t])
    \/ \E t \in Consumers : Call(t, "pop", NoFd)
    \/ \E t \in Threads : \/ Push(t) \/ PushRefused(t) \/ Pop(t) \/ PopRefused(t)
                          \/ Fail(t) \/ Shutdown(t) \/ Return(t)

Spec == Init /\ [][Next]_vars
=============================================================================
