----------------------------- MODULE HttpReader -----------------------------
(***************************************************************************)
(* http_reader.c: the buffer that turns the bytes of one connection into   *)
(* framed requests, with its growth, its limits and its two timeouts.      *)
(*                                                                         *)
(* The client's requests are fixed at the start and reach the reader in    *)
(* segments of any size.  The header terminator is the last header byte of *)
(* a request; the framing pass (module HttpParser) appears by its verdict. *)
(* Time is counted in ticks that are left, so no clock grows.              *)
(***************************************************************************)
EXTENDS Integers, Sequences, FiniteSetsExt

CONSTANTS Streams,           \* the sequences of requests a client may send
          MaxHeader,         \* HTTP_MAX_HEADER_BYTES
          MaxBody,           \* HTTP_MAX_BODY_SIZE
          InitialCapacity,   \* HTTP_READER_INITIAL_CAPACITY
          RecvChunk,         \* HTTP_READER_RECV_CHUNK
          KeepAliveTimeout, RequestTimeout,
          Faults,            \* whether system calls and allocations may fail
          Interrupts         \* whether signals may interrupt poll and recv

MaxMessage == MaxHeader + MaxBody

ASSUME LimitsAssumption ==
    /\ MaxHeader \in Nat \ {0} /\ MaxBody \in Nat
    /\ InitialCapacity \in 1..MaxMessage /\ RecvChunk \in Nat \ {0}
    /\ KeepAliveTimeout \in Nat \ {0} /\ RequestTimeout \in Nat \ {0}
    /\ Faults \in BOOLEAN /\ Interrupts \in BOOLEAN

\* A request as its sender and the framing pass know it: the bytes of its header, the
\* body its header announces, and the verdict of the framing pass, which refuses a
\* Content-Length beyond HTTP_MAX_BODY_SIZE.
Verdicts == {"OK", "TOO_LARGE", "UNSUPPORTED_TRANSFER_ENCODING",
             "INVALID_CONTENT_LENGTH", "OUT_OF_MEMORY", "BAD_REQUEST"}
Sendable == {r \in [header : Nat \ {0}, body : Nat, framing : Verdicts] :
                r.framing = "OK" => r.body <= MaxBody}

ASSUME StreamsAssumption == Streams \subseteq Seq(Sendable)

VARIABLES stream, received,      \* the client's requests; bytes taken from the socket
          data, capacity,        \* the buffer; length is Len(data)
          deadline_active, left, \* ticks left to the deadline
          timeout, wait,         \* the argument of poll, and what is left of it
          at, result, delivered,
          age, extended          \* for the properties: ticks since the request began;
                                 \* a wait of this call was granted a second time

time == <<deadline_active, left, timeout, wait, age, extended>>
vars == <<stream, received, data, capacity, time, at, result, delivered>>

-----------------------------------------------------------------------------
(* What the buffer holds.                                                  *)

StreamBytes ==
    LET bytes[k \in 0..Len(stream)] ==
            IF k = 0 THEN <<>>
            ELSE bytes[k - 1] \o [i \in 1..(stream[k].header + stream[k].body) |-> <<k, i>>]
    IN bytes[Len(stream)]

\* http_find_header_terminator: the first place where a header ends.
HeaderEnds  == {p \in DOMAIN data : data[p][2] = stream[data[p][1]].header}
HasHeader   == HeaderEnds # {}
HeaderBytes == Min(HeaderEnds)
First       == stream[data[HeaderBytes][1]]

MapFramingError(framing) ==
    IF framing \in {"OK", "TOO_LARGE", "UNSUPPORTED_TRANSFER_ENCODING",
                    "INVALID_CONTENT_LENGTH", "OUT_OF_MEMORY"}
    THEN framing ELSE "BAD_REQUEST"

\* Variant: the header limit is one byte short.
TryExtractLengthShort ==
    CASE ~HasHeader -> IF Len(data) + 1 >= MaxHeader THEN "TOO_LARGE" ELSE "NEED_DATA"
      [] HasHeader /\ HeaderBytes > MaxHeader -> "TOO_LARGE"
      [] HasHeader /\ HeaderBytes <= MaxHeader ->
           CASE First.framing # "OK" -> MapFramingError(First.framing)
             [] First.framing = "OK" /\ Len(data) < HeaderBytes + First.body -> "NEED_DATA"
             [] OTHER -> "OK"

\* IO_ERROR, which here means "need data", is NEED_DATA.
TryExtractLength ==
    CASE ~HasHeader -> IF Len(data) >= MaxHeader THEN "TOO_LARGE" ELSE "NEED_DATA"
      [] HasHeader /\ HeaderBytes > MaxHeader -> "TOO_LARGE"
      [] HasHeader /\ HeaderBytes <= MaxHeader ->
           CASE First.framing # "OK" -> MapFramingError(First.framing)
             [] First.framing = "OK" /\ First.body > MaxMessage - HeaderBytes -> "TOO_LARGE"
             [] First.framing = "OK" /\ First.body <= MaxMessage - HeaderBytes ->
                  IF Len(data) < HeaderBytes + First.body THEN "NEED_DATA" ELSE "OK"

\* The length the buffer must be able to hold before the next recv.
Need ==
    IF HasHeader THEN HeaderBytes + First.body
    ELSE Min({Len(data) + RecvChunk, MaxHeader})

\* ensure_capacity: doubles, and goes to the limit when doubling would pass it.
GrownCapacity(needed) ==
    LET grow[c \in 1..MaxMessage] ==
            IF c >= needed THEN c
            ELSE IF c > MaxMessage \div 2 THEN MaxMessage
            ELSE grow[2 * c]
    IN IF needed <= capacity THEN capacity
       ELSE grow[IF capacity = 0 THEN InitialCapacity ELSE capacity]

-----------------------------------------------------------------------------
(* Returning.                                                              *)

Return(r) ==
    /\ at' = "returned" /\ result' = r
    /\ UNCHANGED <<stream, received, data, capacity, time, delivered>>

\* Returns with the buffer emptied (length = 0).
Discard(r) ==
    /\ at' = "returned" /\ result' = r
    /\ data' = <<>>
    /\ UNCHANGED <<stream, received, capacity, time, delivered>>

-----------------------------------------------------------------------------
(* http_reader_init and http_reader_next_request.                          *)

Init ==
    /\ stream \in Streams
    /\ received = 0
    /\ data = <<>> /\ capacity = 0
    /\ deadline_active = FALSE /\ left = 0 /\ timeout = 0 /\ wait = 0
    /\ age = 0 /\ extended = FALSE
    /\ at = "idle" /\ result = "NONE"
    /\ delivered = <<>>

\* Bytes already buffered count as the start of a request.
Call ==
    /\ at = "idle"
    /\ at' = "try" /\ result' = "NONE"
    /\ deadline_active' = (data # <<>>)
    /\ left' = IF data # <<>> THEN RequestTimeout ELSE 0
    /\ age' = 0 /\ extended' = FALSE
    /\ UNCHANGED <<stream, received, data, capacity, timeout, wait, delivered>>

CallClockFails == Faults /\ at = "idle" /\ data # <<>> /\ Return("IO_ERROR")

\* Variant: the bytes behind the message are dropped.
TakeMessageAll ==
    LET message_length == HeaderBytes + First.body IN
    /\ at = "try" /\ TryExtractLength = "OK"
    /\ at' = "idle" /\ result' = "OK"
    /\ delivered' = Append(delivered, SubSeq(data, 1, message_length))
    /\ data' = <<>>
    /\ UNCHANGED <<stream, received, capacity, time>>

\* take_message: a copy for the caller, the rest moves to the front.
TakeMessage ==
    LET message_length == HeaderBytes + First.body IN
    /\ at = "try" /\ TryExtractLength = "OK"
    /\ at' = "idle" /\ result' = "OK"
    /\ delivered' = Append(delivered, SubSeq(data, 1, message_length))
    /\ data' = SubSeq(data, message_length + 1, Len(data))
    /\ UNCHANGED <<stream, received, capacity, time>>

TakeMessageOutOfMemory ==
    Faults /\ at = "try" /\ TryExtractLength = "OK" /\ Return("OUT_OF_MEMORY")

Reject ==
    /\ at = "try" /\ TryExtractLength \notin {"OK", "NEED_DATA"}
    /\ Discard(TryExtractLength)

\* The framing pass runs out of memory, in either of its two calls.
FramingOutOfMemory ==
    /\ Faults
    /\ at = "try" /\ HasHeader /\ HeaderBytes <= MaxHeader
    /\ Discard("OUT_OF_MEMORY")

\* remaining_timeout_ms when its clock fails is a second, one tick.
PollTimeouts ==
    IF deadline_active THEN {left} \cup {t \in {1} : Faults} ELSE {KeepAliveTimeout}

\* Not a whole message yet: make room, then wait for the socket.
Prepare(t) ==
    LET grown == GrownCapacity(Need) IN
    /\ at = "try" /\ TryExtractLength = "NEED_DATA"
    /\ IF Need <= Len(data) \/ Need > MaxMessage \/ grown = Len(data)
       THEN Discard("TOO_LARGE")
       ELSE /\ capacity' = grown
            /\ t \in PollTimeouts
            /\ at' = IF t = 0 THEN "returned" ELSE "poll"
            /\ result' = IF t = 0 THEN "TIMEOUT" ELSE "NONE"
            /\ timeout' = t /\ wait' = t
            /\ extended' = (extended \/ (deadline_active /\ t > left))
            /\ UNCHANGED <<stream, received, data, deadline_active, left, age, delivered>>

PrepareOutOfMemory ==
    /\ Faults
    /\ at = "try" /\ TryExtractLength = "NEED_DATA" /\ Need > capacity
    /\ Return("OUT_OF_MEMORY")

-----------------------------------------------------------------------------
(* wait_readable and recv.                                                 *)

\* Bytes, the end of the stream or an error of the socket.
PollReadable ==
    /\ at = "poll"
    /\ at' = "recv"
    /\ UNCHANGED <<stream, received, data, capacity, time, result, delivered>>

\* Variant: a wait that has expired is begun again.
PollExpiresRetried ==
    /\ at = "poll" /\ wait = 0
    /\ wait' = timeout
    /\ UNCHANGED <<stream, received, data, capacity, deadline_active, left, timeout, age,
                   extended, at, result, delivered>>

PollExpires == at = "poll" /\ wait = 0 /\ Return("TIMEOUT")

\* EINTR: poll is called again with the timeout it was given first.
PollInterrupted ==
    /\ Interrupts
    /\ at = "poll"
    /\ wait' = timeout /\ extended' = TRUE
    /\ UNCHANGED <<stream, received, data, capacity, deadline_active, left, timeout, age,
                   at, result, delivered>>

PollFails == Faults /\ at = "poll" /\ Return("IO_ERROR")

\* Variant: every segment starts the deadline anew.
RecvRestarts(n) ==
    /\ at = "recv"
    /\ n \in 1..Min({capacity - Len(data), Len(StreamBytes) - received})
    /\ data' = data \o SubSeq(StreamBytes, received + 1, received + n)
    /\ received' = received + n
    /\ deadline_active' = TRUE /\ left' = RequestTimeout
    /\ at' = "try"
    /\ UNCHANGED <<stream, capacity, timeout, wait, age, extended, result, delivered>>

\* The first bytes start the deadline.
Recv(n) ==
    /\ at = "recv"
    /\ n \in 1..Min({capacity - Len(data), Len(StreamBytes) - received})
    /\ data' = data \o SubSeq(StreamBytes, received + 1, received + n)
    /\ received' = received + n
    /\ deadline_active' = TRUE
    /\ left' = IF deadline_active THEN left ELSE RequestTimeout
    /\ at' = "try"
    /\ UNCHANGED <<stream, capacity, timeout, wait, age, extended, result, delivered>>

RecvClosed == at = "recv" /\ Discard("CLIENT_CLOSED")

RecvInterrupted ==
    /\ Interrupts
    /\ at = "recv"
    /\ at' = "try"
    /\ UNCHANGED <<stream, received, data, capacity, time, result, delivered>>

\* EAGAIN; another error, or the clock fails when the deadline should start.
RecvFails == Faults /\ at = "recv" /\ \E r \in {"TIMEOUT", "IO_ERROR"} : Return(r)

\* http_reader_destroy, when the handler is done with the connection.
Destroy ==
    /\ at \in {"idle", "returned"}
    /\ at' = "destroyed"
    /\ data' = <<>> /\ capacity' = 0
    /\ UNCHANGED <<stream, received, time, result, delivered>>

Tick ==
    /\ at \in {"try", "poll", "recv"}
    /\ left' = Max({left - 1, 0})
    /\ wait' = IF at = "poll" THEN Max({wait - 1, 0}) ELSE wait
    /\ age' = IF data = <<>> THEN 0 ELSE Min({age + 1, RequestTimeout})
    /\ <<left', wait', age'>> # <<left, wait, age>>
    /\ UNCHANGED <<stream, received, data, capacity, deadline_active, timeout,
                   extended, at, result, delivered>>

-----------------------------------------------------------------------------

\* What the reader does when nothing fails and the client sends nothing.
Progress ==
    \/ TakeMessage \/ Reject
    \/ \E t \in 0..Max({KeepAliveTimeout, RequestTimeout}) : Prepare(t)
    \/ PollExpires
    \/ \E n \in 1..MaxMessage : Recv(n)
    \/ RecvClosed

Failure ==
    \/ CallClockFails \/ TakeMessageOutOfMemory \/ FramingOutOfMemory
    \/ PrepareOutOfMemory \/ PollFails \/ RecvFails

Terminated == at = "destroyed" /\ UNCHANGED vars

Next ==
    \/ Call \/ Progress \/ PollReadable \/ Failure
    \/ PollInterrupted \/ RecvInterrupted
    \/ Tick \/ Destroy \/ Terminated

Spec == Init /\ [][Next]_vars

\* Time passes and a thread that can run does; clients need not send, but signals
\* do not come for ever.
FairSpec ==
    /\ Spec
    /\ WF_vars(Progress) /\ WF_vars(Tick)
    /\ <>[][~(PollInterrupted \/ RecvInterrupted)]_vars

-----------------------------------------------------------------------------
(* Properties.                                                             *)

\* While the connection is being read, what was delivered followed by what is
\* buffered is exactly what was taken from the socket: take_message keeps the
\* leftovers of every pipelined request, in place.  The buffer never holds more than
\* its capacity, which never passes HTTP_MAX_MESSAGE_BYTES.
NothingLost ==
    LET flat[k \in 0..Len(delivered)] ==
            IF k = 0 THEN <<>> ELSE flat[k - 1] \o delivered[k]
    IN  /\ at \in {"idle", "try", "poll", "recv"} =>
              flat[Len(delivered)] \o data = SubSeq(StreamBytes, 1, received)
        /\ Len(data) <= capacity /\ capacity <= MaxMessage

\* Once bytes of a request are buffered, no wait is begun or goes on beyond
\* request_timeout_sec after they came, or after the call if they were left over
\* (http_reader.h:16-18), however many segments and waits there were.  The exceptions
\* are an interrupted poll, which is begun again with its whole timeout
\* (http_reader.c:188), and a failing clock.
DeadlineHonoured ==
    at = "poll" /\ data # <<>> /\ ~extended => age + wait <= RequestTimeout

\* Every call returns: clients that send slowly, nothing or for ever are ended by
\* one of the two timeouts.
CallReturns == (at = "try") ~> (at \in {"idle", "returned", "destroyed"})

Requests == INSTANCE RequestStream
    WITH outcome <- IF result \in {"NONE", "OK"} THEN "OPEN" ELSE result

\* The reader implements the stream of requests: each request is delivered whole
\* and in order or refused with the verdict that its own header determines,
\* whatever the segmentation and the capacity left by earlier requests.
ImplementsRequestStream == Requests!Spec
=============================================================================
