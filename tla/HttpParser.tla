----------------------------- MODULE HttpParser -----------------------------
(***************************************************************************)
(* http_parser.c and http_request.c on the way of one message: the reader  *)
(* runs the framing pass over the header to learn where the message ends;  *)
(* the message it cuts there is parsed, which runs the framing pass again, *)
(* splits the same header in a second way and validates the stored fields. *)
(*                                                                         *)
(* A line is what the two ways of splitting tell apart:                    *)
(*   crlf       it ends in CR LF, not in a bare LF                         *)
(*   colon      "none", "first" (an empty name) or "found"                 *)
(*   name       the field it names, up to a NUL if there is one            *)
(*   name_flaw  "none", or a blank or a NUL in the name                    *)
(*   value      a length, or NotALength, or Chunked, up to a NUL           *)
(*   value_nul  there is a NUL in the value                                *)
(* The framing pass compares C strings and so sees what is before a NUL.   *)
(***************************************************************************)
EXTENDS Integers, Sequences

CONSTANTS RequestLines, Lines, MaxLines,   \* what a client may send
          MaxHeaders,                      \* HTTP_MAX_HEADERS
          MaxBody                          \* HTTP_MAX_BODY_SIZE

NotALength == -1
Chunked    == -2

ASSUME ParserLimits ==
    /\ MaxHeaders \in Nat /\ MaxBody \in Nat /\ MaxLines \in Nat
    /\ \A l \in Lines : l.value \in Nat \cup {NotALength, Chunked}

VARIABLES request_line, lines,       \* the header
          caller,                    \* of the framing pass: "reader" or "parser"
          at, i,                     \* the pass and its next line
          saw_content_length, content_length, saw_chunked,
          body_bytes,                \* the body bytes that come with the header
          request,                   \* http_request_t
          result

message == <<request_line, lines>>
framing == <<saw_content_length, content_length, saw_chunked>>
vars == <<message, caller, at, i, framing, body_bytes, request, result>>

\* http_request_init
NoRequest == [method |-> "UNKNOWN", target |-> FALSE, version |-> "NULL",
              headers |-> <<>>, body_length |-> 0]

StartFraming(who) ==
    /\ caller' = who /\ at' = "framing" /\ i' = 1
    /\ saw_content_length' = FALSE /\ content_length' = 0 /\ saw_chunked' = FALSE

Init ==
    /\ request_line \in RequestLines
    /\ lines \in UNION {[1..n -> Lines] : n \in 0..MaxLines}
    /\ caller = "reader" /\ at = "framing" /\ i = 1
    /\ saw_content_length = FALSE /\ content_length = 0 /\ saw_chunked = FALSE
    /\ body_bytes = 0
    /\ request = NoRequest
    /\ result = "NONE"

\* Returns with whatever the request holds.
Return(r) ==
    /\ at' = "returned" /\ result' = r
    /\ UNCHANGED <<message, caller, i, framing, body_bytes, request>>

\* Returns after http_request_destroy.
DestroyAndReturn(r) ==
    /\ at' = "returned" /\ result' = r
    /\ request' = NoRequest
    /\ UNCHANGED <<message, caller, i, framing, body_bytes>>

-----------------------------------------------------------------------------
(* http_inspect_message_framing.                                           *)

\* http_parse_content_length_value
ContentLengthValue(v) ==
    CASE v \in 0..MaxBody -> "OK"
      [] v > MaxBody -> "TOO_LARGE"
      [] v < 0 -> "INVALID_CONTENT_LENGTH"

\* header_name_equal on a C string: a blank is part of the name, a NUL ends it.
FramingName(l) == IF l.name_flaw = "blank" THEN "other" ELSE l.name

\* Variant: a second Content-Length that repeats the first is accepted.
InspectVerdictSame(l) ==
    CASE ~l.crlf \/ l.colon # "found" -> "BAD_REQUEST"
      [] l.crlf /\ l.colon = "found" /\ FramingName(l) = "Transfer-Encoding" ->
           IF l.value = Chunked THEN "OK" ELSE "UNSUPPORTED_TRANSFER_ENCODING"
      [] l.crlf /\ l.colon = "found" /\ FramingName(l) = "Content-Length" ->
           IF ContentLengthValue(l.value) # "OK" THEN ContentLengthValue(l.value)
           ELSE IF saw_content_length /\ l.value # content_length
                THEN "INVALID_CONTENT_LENGTH" ELSE "OK"
      [] OTHER -> "OK"

InspectVerdict(l) ==
    CASE ~l.crlf \/ l.colon # "found" -> "BAD_REQUEST"
      [] l.crlf /\ l.colon = "found" /\ FramingName(l) = "Transfer-Encoding" ->
           IF l.value = Chunked THEN "OK" ELSE "UNSUPPORTED_TRANSFER_ENCODING"
      [] l.crlf /\ l.colon = "found" /\ FramingName(l) = "Content-Length" ->
           IF ContentLengthValue(l.value) # "OK" THEN ContentLengthValue(l.value)
           ELSE IF saw_content_length THEN "INVALID_CONTENT_LENGTH" ELSE "OK"
      [] OTHER -> "OK"

InspectRequestLine ==
    /\ at = "framing" /\ i = 1 /\ ~request_line.crlf
    /\ Return("BAD_REQUEST")

InspectRejects ==
    /\ at = "framing" /\ request_line.crlf /\ i \in DOMAIN lines
    /\ InspectVerdict(lines[i]) # "OK"
    /\ Return(InspectVerdict(lines[i]))

InspectAccepts ==
    /\ at = "framing" /\ request_line.crlf /\ i \in DOMAIN lines
    /\ InspectVerdict(lines[i]) = "OK"
    /\ saw_chunked' = (saw_chunked \/ FramingName(lines[i]) = "Transfer-Encoding")
    /\ saw_content_length' = (saw_content_length \/ FramingName(lines[i]) = "Content-Length")
    /\ content_length' = IF FramingName(lines[i]) = "Content-Length"
                         THEN lines[i].value ELSE content_length
    /\ i' = i + 1
    /\ UNCHANGED <<message, caller, at, body_bytes, request, result>>

\* The copies of a name and a value can fail on every line with a colon.
InspectOutOfMemory ==
    /\ at = "framing" /\ request_line.crlf /\ i \in DOMAIN lines
    /\ lines[i].crlf /\ lines[i].colon = "found"
    /\ Return("OUT_OF_MEMORY")

AllInspected == at = "framing" /\ request_line.crlf /\ i = Len(lines) + 1

InspectChunked == AllInspected /\ saw_chunked /\ Return("UNSUPPORTED_TRANSFER_ENCODING")

\* The reader waits for the body, cuts the message and the handler has it parsed.
ReaderCuts ==
    /\ AllInspected /\ ~saw_chunked /\ caller = "reader"
    /\ body_bytes' = content_length
    /\ StartFraming("parser")
    /\ UNCHANGED <<message, request, result>>

-----------------------------------------------------------------------------
(* http_parse_request, after its framing pass.                             *)

ParseLengths ==
    /\ AllInspected /\ ~saw_chunked /\ caller = "parser"
    /\ IF body_bytes # content_length THEN Return("BAD_REQUEST")
       ELSE /\ at' = "request_line"
            /\ UNCHANGED <<message, caller, i, framing, body_bytes, request, result>>

\* parse_request_line, without the failing allocations, in the order of its tests.
\* The form is "no method" (no blank behind a method without NUL), "malformed" (the
\* method is no token, or there are not three fields without NUL) or "three fields".
RequestLineVerdict(r) ==
    CASE r.length # "fits" -> IF r.length = "long" THEN "TOO_LARGE" ELSE "BAD_REQUEST"
      [] r.length = "fits" /\ r.form # "three fields" -> "BAD_REQUEST"
      [] r.length = "fits" /\ r.form = "three fields" ->
           CASE r.method \notin {"GET", "HEAD", "POST"} -> "UNSUPPORTED_METHOD"
             [] r.method \in {"GET", "HEAD", "POST"} ->
                  CASE r.version \in {"HTTP/1.0", "HTTP/1.1"} -> "OK"
                    [] r.version = "HTTP-like" -> "UNSUPPORTED_VERSION"
                    [] OTHER -> "BAD_REQUEST"

ParseRequestLine ==
    /\ at = "request_line"
    /\ RequestLineVerdict(request_line) = "OK"
    /\ request' = [request EXCEPT !.method = request_line.method, !.target = TRUE,
                                  !.version = request_line.version]
    /\ at' = "headers" /\ i' = 1
    /\ UNCHANGED <<message, caller, framing, body_bytes, result>>

ParseRequestLineFails ==
    /\ at = "request_line"
    /\ \E r \in {RequestLineVerdict(request_line)} \ {"OK"} : DestroyAndReturn(r)

\* The copy of the method, or of the target or the version, fails.
ParseRequestLineOutOfMemory ==
    /\ at = "request_line"
    /\ request_line.length = "fits" /\ request_line.form # "no method"
    /\ DestroyAndReturn("OUT_OF_MEMORY")

\* Variant: names are stored whatever they contain.
HeaderVerdictLax(l) ==
    CASE ~l.crlf \/ l.colon # "found" -> "BAD_REQUEST"
      [] l.crlf /\ l.colon = "found" /\ l.value_nul -> "BAD_REQUEST"
      [] l.crlf /\ l.colon = "found" /\ ~l.value_nul ->
           IF Len(request.headers) >= MaxHeaders THEN "TOO_MANY_HEADERS" ELSE "OK"

\* parse_header_line and append_header
HeaderVerdict(l) ==
    CASE ~l.crlf \/ l.colon # "found" -> "BAD_REQUEST"
      [] l.crlf /\ l.colon = "found" /\ (l.name_flaw # "none" \/ l.value_nul) -> "BAD_REQUEST"
      [] l.crlf /\ l.colon = "found" /\ l.name_flaw = "none" /\ ~l.value_nul ->
           IF Len(request.headers) >= MaxHeaders THEN "TOO_MANY_HEADERS" ELSE "OK"

ParseHeader ==
    /\ at = "headers" /\ i \in DOMAIN lines
    /\ HeaderVerdict(lines[i]) = "OK"
    /\ request' = [request EXCEPT !.headers = Append(@, [name |-> lines[i].name,
                                                          value |-> lines[i].value])]
    /\ i' = i + 1
    /\ UNCHANGED <<message, caller, at, framing, body_bytes, result>>

ParseHeaderFails ==
    /\ at = "headers" /\ i \in DOMAIN lines
    /\ HeaderVerdict(lines[i]) # "OK"
    /\ DestroyAndReturn(HeaderVerdict(lines[i]))

\* The copy of the name, of the value, or the array of append_header.
ParseHeaderOutOfMemory ==
    /\ at = "headers" /\ i \in DOMAIN lines
    /\ lines[i].crlf /\ lines[i].colon = "found" /\ lines[i].name_flaw = "none"
    /\ DestroyAndReturn("OUT_OF_MEMORY")

Stored(name) == {k \in DOMAIN request.headers : request.headers[k].name = name}

\* http_request_get_header: the first one.
GetHeader(name) ==
    LET first == CHOOSE k \in Stored(name) : \A j \in Stored(name) : k <= j
    IN request.headers[first].value

\* cl_count is more than one.
Repeated(found) == \E j, k \in found : j # k

\* The second look at Content-Length and Transfer-Encoding.
Revalidation ==
    LET cls == Stored("Content-Length") IN
    CASE Stored("Transfer-Encoding") # {} -> "UNSUPPORTED_TRANSFER_ENCODING"
      [] Stored("Transfer-Encoding") = {} /\ cls = {} ->
           IF content_length # 0 THEN "BAD_REQUEST" ELSE "OK"
      [] Stored("Transfer-Encoding") = {} /\ cls # {} ->
           IF Repeated(cls) THEN "INVALID_CONTENT_LENGTH"
           ELSE IF ContentLengthValue(GetHeader("Content-Length")) # "OK"
                THEN ContentLengthValue(GetHeader("Content-Length"))
           ELSE IF GetHeader("Content-Length") # content_length THEN "BAD_REQUEST" ELSE "OK"

AllStored == at = "headers" /\ i = Len(lines) + 1

Validate ==
    /\ AllStored
    /\ IF Revalidation # "OK" THEN DestroyAndReturn(Revalidation)
       ELSE /\ at' = "returned" /\ result' = "OK"
            /\ request' = [request EXCEPT !.body_length = content_length]
            /\ UNCHANGED <<message, caller, i, framing, body_bytes>>

BodyOutOfMemory ==
    /\ AllStored /\ Revalidation = "OK" /\ content_length > 0
    /\ DestroyAndReturn("OUT_OF_MEMORY")

-----------------------------------------------------------------------------

Terminated == at = "returned" /\ UNCHANGED vars

Next ==
    \/ InspectRequestLine \/ InspectRejects \/ InspectAccepts \/ InspectOutOfMemory
    \/ InspectChunked \/ ReaderCuts
    \/ ParseLengths
    \/ ParseRequestLine \/ ParseRequestLineFails \/ ParseRequestLineOutOfMemory
    \/ ParseHeader \/ ParseHeaderFails \/ ParseHeaderOutOfMemory
    \/ Validate \/ BodyOutOfMemory
    \/ Terminated

Spec == Init /\ [][Next]_vars

-----------------------------------------------------------------------------
(* Properties.                                                             *)

\* The two passes agree: once the reader has cut a message, the parser never finds
\* fault with its framing, neither in its own framing pass nor in the validation
\* of the stored fields (http_parser.c:441-448, 494-523), and the body it hands to
\* the handlers is the body the reader waited for.
PassesAgree ==
    caller = "parser" /\ at = "returned" =>
        /\ result \notin {"INVALID_CONTENT_LENGTH", "UNSUPPORTED_TRANSFER_ENCODING"}
        /\ result = "TOO_LARGE" => request_line.length = "long"
        /\ result = "OK" => request.body_length = body_bytes
        /\ result = "BAD_REQUEST" =>
             \/ RequestLineVerdict(request_line) = "BAD_REQUEST"
             \/ \E k \in DOMAIN lines : lines[k].name_flaw # "none" \/ lines[k].value_nul

\* An accepted request has one meaning: every line of it is stored, no more than
\* HTTP_MAX_HEADERS, with at most one Content-Length, which is the length of the
\* body, and no Transfer-Encoding; a refused one leaves nothing behind, on each of
\* the return paths (http_parser.h).
AcceptedIsUnambiguous ==
    /\ at = "returned" /\ result # "OK" => request = NoRequest
    /\ at = "returned" /\ result = "OK" =>
        /\ Len(request.headers) = Len(lines) /\ Len(lines) <= MaxHeaders
        /\ \A k \in DOMAIN lines :
             /\ lines[k].name_flaw = "none" /\ ~lines[k].value_nul
             /\ lines[k].name # "Transfer-Encoding"
             /\ lines[k].name = "Content-Length" => lines[k].value = request.body_length
        /\ LET cls == {k \in DOMAIN lines : lines[k].name = "Content-Length"} IN
             IF saw_content_length THEN \E k \in cls : cls = {k} ELSE cls = {}

\* What a line makes of a header whose earlier lines are in order.
Offence(k) ==
    LET l == lines[k]
        earlier == {j \in 1..(k - 1) : FramingName(lines[j]) = "Content-Length"}
    IN IF ~l.crlf \/ l.colon # "found" THEN "BAD_REQUEST"
       ELSE CASE FramingName(l) = "Transfer-Encoding" /\ l.value # Chunked ->
                   "UNSUPPORTED_TRANSFER_ENCODING"
              [] FramingName(l) = "Content-Length" /\ l.value \notin 0..MaxBody ->
                   IF l.value > MaxBody THEN "TOO_LARGE" ELSE "INVALID_CONTENT_LENGTH"
              [] FramingName(l) = "Content-Length" /\ l.value \in 0..MaxBody /\ earlier # {} ->
                   "INVALID_CONTENT_LENGTH"
              [] OTHER -> "OK"

\* The verdict of the framing pass is that of the first offending line, and a
\* chunked encoding is refused only after all lines were looked at: so the answer
\* to an ambiguous request does not depend on which pass meets it.
FramingVerdict ==
    IF ~request_line.crlf THEN "BAD_REQUEST"
    ELSE LET offending == {k \in DOMAIN lines : Offence(k) # "OK"} IN
         IF offending # {}
         THEN Offence(CHOOSE k \in offending : \A j \in offending : k <= j)
         ELSE IF \E k \in DOMAIN lines : FramingName(lines[k]) = "Transfer-Encoding"
              THEN "UNSUPPORTED_TRANSFER_ENCODING" ELSE "OK"

\* A message is cut exactly when the reference verdict is OK, and is otherwise
\* refused with that verdict (memory failures excepted).
FramingIsFirstOffence ==
    /\ caller = "reader" /\ at = "returned" /\ result # "OUT_OF_MEMORY" =>
         result = FramingVerdict /\ result # "OK"
    /\ caller = "parser" => FramingVerdict = "OK"
=============================================================================
