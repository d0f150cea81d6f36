--------------------------- MODULE RequestStream ----------------------------
(***************************************************************************)
(* What the reader promises the handler about one connection: the client's *)
(* requests, whole, in order and one at a time, until the first that       *)
(* breaks a limit or cannot be framed, or until the connection breaks.     *)
(* How the bytes were cut into segments has no influence.                  *)
(*                                                                         *)
(* A request is described by the bytes of its header, the body length its  *)
(* header announces and what the framing pass says of its header.  A byte  *)
(* is named <<k, i>>: byte i of request k.                                 *)
(***************************************************************************)
EXTENDS Naturals, Sequences

CONSTANT MaxHeader    \* HTTP_MAX_HEADER_BYTES

VARIABLES stream,      \* the requests the client sends
          delivered,   \* the messages handed out
          outcome      \* "OPEN", or why reading has ended

vars == <<stream, delivered, outcome>>

Message(k) == [i \in 1..(stream[k].header + stream[k].body) |-> <<k, i>>]

\* What must be said of a request, from the request alone.
Verdict(request) == IF request.header > MaxHeader THEN "TOO_LARGE" ELSE request.framing

Broken == {"CLIENT_CLOSED", "TIMEOUT", "IO_ERROR", "OUT_OF_MEMORY"}

Init == delivered = <<>> /\ outcome = "OPEN"

Upcoming == Len(delivered) + 1

Deliver ==
    /\ outcome = "OPEN"
    /\ Upcoming <= Len(stream) /\ Verdict(stream[Upcoming]) = "OK"
    /\ delivered' = Append(delivered, Message(Upcoming))
    /\ UNCHANGED <<stream, outcome>>

Refuse ==
    /\ outcome = "OPEN"
    /\ Upcoming <= Len(stream) /\ Verdict(stream[Upcoming]) # "OK"
    /\ outcome' = Verdict(stream[Upcoming])
    /\ UNCHANGED <<stream, delivered>>

Break ==
    /\ outcome = "OPEN"
    /\ outcome' \in Broken
    /\ UNCHANGED <<stream, delivered>>

Next == Deliver \/ Refuse \/ Break

Spec == Init /\ [][Next]_vars
=============================================================================
