---------------------------- MODULE MCHttpReader ----------------------------
(* Requests at and around the limits, alone and pipelined.                 *)
EXTENDS HttpReader

Request(h, b, f) == [header |-> h, body |-> b, framing |-> f]

Framed == {Request(h, b, "OK") : h \in {1, 3, MaxHeader}, b \in {0, 2, MaxBody}}

Refused == {Request(MaxHeader + 1, 0, "OK")}
    \cup {Request(2, 1, f) : f \in {"TOO_LARGE", "UNSUPPORTED_TRANSFER_ENCODING",
                                    "INVALID_CONTENT_LENGTH", "BAD_REQUEST"}}

MCStreams == {<<r, s>> : r \in Framed, s \in Framed \cup Refused}
    \cup {<<r>> : r \in Refused}
    \cup {<<Request(1, 0, "OK"), Request(1, 1, "OK"), r>> : r \in Framed}
=============================================================================
