--------------------------- MODULE ClientHandler ---------------------------
(***************************************************************************)
(* One worker inside client_handle (src/src/client_handler.c) with the     *)
(* Connection policy of http_connection.c: the loop that reads a request,  *)
(* answers it and decides whether the connection goes on.                  *)
(*                                                                         *)
(* The reader, the parser, the router and the static files appear by the   *)
(* results they can return; allocations may fail and the client may go     *)
(* away at any point.  response_ready has no variable: on every path it is *)
(* set exactly when status is not negative.                                *)
(***************************************************************************)
EXTENDS Integers, Sequences

CONSTANTS MaxRequests,   \* HTTP_MAX_REQUESTS_PER_CONNECTION
          MaxLines       \* bound: Connection header lines in a request

ASSUME LimitsAssumption == MaxRequests \in Nat \ {0} /\ MaxLines \in Nat

VARIABLES at,           \* where the handler is
          buffered,     \* reader.length > 0
          read_result,
          request,      \* version, and the tokens of each Connection line
          keep_alive, force_close, status,
          requests,     \* requests_on_connection
          announced,    \* what the last response said: Connection, and the client's version
          sent,         \* that response was sent completely
          received,     \* what this connection added to requests_total
          responses     \* and to responses_2xx, _4xx and _5xx

loopVars == <<request, keep_alive, force_close, status>>
readVars == <<buffered, read_result>>
statVars == <<received, responses>>
vars == <<at, readVars, loopVars, requests, announced, sent, statVars>>

Tokens == {"close", "keep-alive"}
Lines == UNION {[1..n -> SUBSET Tokens] : n \in 0..MaxLines}
ParsedRequests == [version : {"HTTP/1.0", "HTTP/1.1"}, connection : Lines]
NoRequest == [version |-> "NULL", connection |-> <<>>]
NoResponse == [connection |-> "none", version |-> "NULL"]

Statuses == {200, 400, 403, 404, 405, 408, 413, 500, 501, 505}

\* The locals of an iteration before the read.
Fresh ==
    /\ request' = NoRequest
    /\ keep_alive' = FALSE /\ force_close' = FALSE
    /\ status' = -1

Init ==
    /\ at = "idle"
    /\ buffered = FALSE /\ read_result = "none"
    /\ request = NoRequest
    /\ keep_alive = FALSE /\ force_close = FALSE
    /\ status = -1
    /\ requests = 0
    /\ announced = NoResponse /\ sent = FALSE
    /\ received = 0 /\ responses = 0

\* worker_main calls client_handle with the next descriptor.
Start ==
    /\ at = "idle"
    /\ at' = "read"
    /\ buffered' = FALSE /\ read_result' = "none"
    /\ Fresh
    /\ requests' = 0
    /\ announced' = NoResponse /\ sent' = FALSE
    /\ received' = 0 /\ responses' = 0

-----------------------------------------------------------------------------
(* Reading.                                                                *)

\* build_static_error_response: the status, or -1 when nothing could be built.
ErrorResponse(st) == {st, -1}

\* What http_reader_next_request can leave in the buffer.
LeftInBuffer(result) ==
    IF result \in {"TIMEOUT", "IO_ERROR"} THEN (IF buffered THEN {TRUE} ELSE BOOLEAN)
    ELSE IF result \in {"OK", "OUT_OF_MEMORY"} THEN BOOLEAN
    ELSE {FALSE}

StatusForReadResult ==
    [TOO_LARGE |-> 413, UNSUPPORTED_TRANSFER_ENCODING |-> 501, TIMEOUT |-> 408,
     INVALID_CONTENT_LENGTH |-> 400, BAD_REQUEST |-> 400, OUT_OF_MEMORY |-> 500]

\* Variant: the bytes that arrived during the wait are not looked at.
IdleTimeoutAtStart(left) == ~buffered

\* No byte of a next request was there before the read, and none came.
IdleTimeout(left) == ~buffered /\ ~left

\* The client closed, stayed idle, or the socket failed: close without a word.
ReadEnded(result, left) ==
    /\ at = "read"
    /\ result \in {"CLIENT_CLOSED", "IO_ERROR"} \/ (result = "TIMEOUT" /\ IdleTimeout(left))
    /\ buffered' = left /\ read_result' = result
    /\ at' = "close"
    /\ UNCHANGED <<loopVars, requests, announced, sent, statVars>>

\* Any other result but OK is answered and ends the connection.
ReadFailed(result, left) ==
    /\ at = "read"
    /\ result \in DOMAIN StatusForReadResult
    /\ ~(result = "TIMEOUT" /\ IdleTimeout(left))
    /\ buffered' = left /\ read_result' = result
    /\ status' \in ErrorResponse(StatusForReadResult[result])
    /\ force_close' = (status' >= 0)
    /\ at' = "send_one"
    /\ UNCHANGED <<request, keep_alive, requests, announced, sent, statVars>>

ReadOk(left) ==
    /\ at = "read"
    /\ buffered' = left /\ read_result' = "OK"
    /\ received' = received + 1
    /\ at' = "parse"
    /\ UNCHANGED <<loopVars, requests, announced, sent, responses>>

Read ==
    \/ \E result \in {"CLIENT_CLOSED", "IO_ERROR"} \cup DOMAIN StatusForReadResult :
          \E left \in LeftInBuffer(result) : ReadEnded(result, left) \/ ReadFailed(result, left)
    \/ \E left \in LeftInBuffer("OK") : ReadOk(left)

-----------------------------------------------------------------------------
(* Parsing and dispatch.                                                   *)

StatusesForParseResult == {400, 405, 413, 500, 501, 505}

ParseFailed ==
    /\ at = "parse"
    /\ \E st \in StatusesForParseResult : status' \in ErrorResponse(st)
    /\ force_close' = TRUE
    /\ at' = "send_one"
    /\ UNCHANGED <<readVars, request, keep_alive, requests, announced, sent, statVars>>

\* http_request_wants_keep_alive; http_request_get_header finds the first line.
WantsKeepAlive(req) ==
    LET value == IF req.connection = <<>> THEN {} ELSE Head(req.connection)
    IN  /\ "close" \notin value
        /\ \/ req.version = "HTTP/1.1"
           \/ req.version = "HTTP/1.0" /\ "keep-alive" \in value

ParseOk(req) ==
    /\ at = "parse"
    /\ request' = req
    /\ keep_alive' = WantsKeepAlive(req)
    /\ at' = "dispatch"
    /\ UNCHANGED <<readVars, force_close, status, requests, announced, sent, statVars>>

StatusRequiresClose(st) == st \in {400, 408, 413, 501, 505, 500}

\* A branch of the dispatch that ends with one of the statuses; -1 when not even
\* an error response could be built.
Respond(statuses, forced) ==
    /\ at = "dispatch"
    /\ status' \in statuses
    /\ force_close' = (forced \/ StatusRequiresClose(status'))
    /\ keep_alive' = (keep_alive /\ ~StatusRequiresClose(status'))
    /\ at' = "send_one"
    /\ UNCHANGED <<readVars, request, requests, announced, sent, statVars>>

StaticErrors == {400, 403, 404, 413, 500}

DispatchRouted      == Respond({200, 404, 405}, FALSE)
DispatchRouterError == Respond(ErrorResponse(500), TRUE)
DispatchStatic      == Respond({200} \cup UNION {ErrorResponse(st) : st \in StaticErrors}, FALSE)
DispatchNotAllowed  == Respond(ErrorResponse(405), FALSE)

Dispatch == DispatchRouted \/ DispatchRouterError \/ DispatchStatic \/ DispatchNotAllowed

-----------------------------------------------------------------------------
(* Answering.                                                              *)

\* http_response_set_header removes the old header first, so that a failed
\* allocation leaves none.
SetConnection(value) == {[ok |-> TRUE, header |-> value], [ok |-> FALSE, header |-> "none"]}

\* http_response_apply_connection_policy, by its result, the Connection header and
\* suppress_auto_connection_close.
ApplyConnectionPolicy(persist, version) ==
    IF ~persist \/ version = "HTTP/1.0"
    THEN {[ok |-> r.ok, header |-> r.header, suppress |-> FALSE] :
              r \in SetConnection(IF persist THEN "keep-alive" ELSE "close")}
    ELSE {[ok |-> TRUE, header |-> "none", suppress |-> TRUE]}

\* http_response_serialize_headers adds a close where nothing was decided.
Serialized(p) == IF p.header = "none" /\ ~p.suppress THEN "close" ELSE p.header

Announce(p) == announced' = [connection |-> Serialized(p), version |-> request.version]

\* Variant: one request too many.
AtLimitLate == requests + 1 > MaxRequests

\* This response is the last one the connection may have.
AtLimit == requests + 1 >= MaxRequests

\* Variant: the limit is tested after the Connection header was chosen.
PersistBeforeLimit == keep_alive /\ ~force_close

Persist == keep_alive /\ ~force_close /\ ~AtLimit

\* The label send_one, up to the call of http_response_send.
SendOne ==
    /\ at = "send_one"
    /\ requests' = requests + 1
    /\ keep_alive' = (keep_alive /\ ~AtLimit)
    /\ sent' = FALSE
    /\ \/ /\ status < 0
          /\ force_close' = TRUE
          /\ at' = "end"
          /\ UNCHANGED announced
       \/ /\ status >= 0
          /\ \E p \in ApplyConnectionPolicy(Persist, request.version) :
                /\ force_close' = (force_close \/ AtLimit \/ ~p.ok)
                /\ IF p.ok THEN Announce(p)
                   ELSE \E q \in ApplyConnectionPolicy(FALSE, request.version) : Announce(q)
          /\ at' = "send"
    /\ UNCHANGED <<readVars, request, status, statVars>>

Sent ==
    /\ at = "send"
    /\ at' = "end"
    /\ sent' = TRUE
    /\ responses' = responses + 1
    /\ UNCHANGED <<readVars, loopVars, requests, announced, received>>

\* Variant: a failed send does not end the connection.
SendFailedIgnored ==
    /\ at = "send"
    /\ at' = "end"
    /\ UNCHANGED <<readVars, loopVars, requests, announced, sent, statVars>>

\* Nothing, or a part of the response, reached the client.
SendFailed ==
    /\ at = "send"
    /\ at' = "end"
    /\ force_close' = TRUE
    /\ UNCHANGED <<readVars, request, keep_alive, status, requests, announced, sent, statVars>>

\* Variant: only forced closes leave the loop.
EndsConnectionForced == force_close

EndsConnection == force_close \/ ~keep_alive

NextIteration ==
    /\ at = "end"
    /\ IF EndsConnection THEN at' = "close" /\ UNCHANGED loopVars
                         ELSE at' = "read" /\ Fresh
    /\ UNCHANGED <<readVars, requests, announced, sent, statVars>>

CloseClient ==
    /\ at = "close"
    /\ at' = "finish"
    /\ UNCHANGED <<readVars, loopVars, requests, announced, sent, statVars>>

ConnectionFinished ==
    /\ at = "finish"
    /\ at' = "idle"
    /\ UNCHANGED <<readVars, loopVars, requests, announced, sent, statVars>>

Next ==
    \/ Start \/ Read
    \/ ParseFailed \/ (\E req \in ParsedRequests : ParseOk(req)) \/ Dispatch
    \/ SendOne \/ Sent \/ SendFailed
    \/ NextIteration \/ CloseClient \/ ConnectionFinished

Spec == Init /\ [][Next]_vars

-----------------------------------------------------------------------------
(* Properties.                                                             *)

\* How the client reads a response: may it send another request?
Persistent(w) ==
    w.connection = "keep-alive" \/ (w.connection = "none" /\ w.version = "HTTP/1.1")

\* The handler never reads again after it has told the client that it will close:
\* through the limit, errors, failed allocations and the client's own wish.  It does
\* tell so when the first Connection line has close among its tokens; a later line is
\* not looked at (http_connection.c:65, while docs/http_support.md:44 says that close
\* wins).
NoReadAfterClose ==
    /\ (at = "read" /\ requests > 0) => Persistent(announced)
    /\ (at = "send" /\ Persistent(announced) /\ request.connection # <<>>)
          => "close" \notin request.connection[1]

\* The converse: a response that was sent and left the connection open to the
\* client is not followed by a close, so no request the client may send is lost
\* to a close it could not foresee.
PersistenceKept == [][(at = "end" /\ at' = "close" /\ sent) => ~Persistent(announced)]_vars

\* When the handler reads, every earlier request of the connection was answered by
\* one complete response, and the statistics say so: the stream never goes on
\* after a response that was cut off or could not be built.
AllAnswered == at = "read" => responses = requests /\ received = requests

\* A timeout is answered with 408 exactly when a byte of a request has arrived,
\* also when that byte was left over from an earlier read.
TimeoutAnsweredIfBegun ==
    [][(at = "read" /\ at' # "read" /\ read_result' = "TIMEOUT")
           => (at' = "send_one" <=> buffered')]_vars

\* What the server relies on.
Phase ==
    IF at \in {"read", "parse", "dispatch", "send_one"} THEN "recv"
    ELSE IF at = "end" THEN (IF EndsConnection THEN "close" ELSE "recv")
    ELSE at

Service == INSTANCE ConnectionService WITH phase <- Phase

\* client_handle implements the worker's part of module Server: at most MaxRequests
\* answers, and always close and then the end of the accounting.
ImplementsService == Service!Spec
=============================================================================
