------------------------- MODULE ConnectionService -------------------------
(***************************************************************************)
(* What the rest of the server relies on while a worker serves one         *)
(* connection: the worker alternates between receiving and sending, where  *)
(* it can block, answers at most MaxRequests times, and then closes the    *)
(* descriptor and ends the accounting, in this order.  Module              *)
(* ClientHandler implements it.                                            *)
(***************************************************************************)
EXTENDS Naturals

CONSTANT MaxRequests   \* HTTP_MAX_REQUESTS_PER_CONNECTION

VARIABLES phase, requests

vars == <<phase, requests>>

Init == phase = "idle" /\ requests = 0

Goto(from, to) == phase = from /\ phase' = to

Take   == Goto("idle", "recv") /\ requests' = 0
Answer == Goto("recv", "send") /\ requests' = requests + 1
End    == Goto("recv", "close") /\ requests' \in {requests, requests + 1}
Again  == Goto("send", "recv") /\ requests < MaxRequests /\ UNCHANGED requests
Stop   == Goto("send", "close") /\ UNCHANGED requests
Close  == Goto("close", "finish") /\ UNCHANGED requests
Finish == Goto("finish", "idle") /\ UNCHANGED requests

Next == Take \/ Answer \/ End \/ Again \/ Stop \/ Close \/ Finish

Spec == Init /\ [][Next]_vars
=============================================================================
