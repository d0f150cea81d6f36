-------------------------- MODULE HttpParserProofs --------------------------
(***************************************************************************)
(* For headers of any length over any lines, any limits and any failing    *)
(* allocation: the verdict of the framing pass is that of the first line   *)
(* that offends, the passes over a header agree, and an accepted request   *)
(* has one meaning.                                                        *)
(***************************************************************************)
EXTENDS HttpParser, TLAPS

Named(k, name) == FramingName(lines[k]) = name

\* A line that the framing pass has nothing against.
Sound(k) ==
    /\ lines[k].crlf /\ lines[k].colon = "found"
    /\ Named(k, "Transfer-Encoding") => lines[k].value = Chunked
    /\ Named(k, "Content-Length") => lines[k].value \in 0..MaxBody

\* The first n lines are sound, and the locals of the pass say what they say.
Framed(n) ==
    /\ \A k \in 1..n : Sound(k)
    /\ \A j, k \in 1..n : Named(j, "Content-Length") /\ Named(k, "Content-Length") => j = k
    /\ saw_chunked <=> \E k \in 1..n : Named(k, "Transfer-Encoding")
    /\ saw_content_length <=> \E k \in 1..n : Named(k, "Content-Length")
    /\ \A k \in 1..n : Named(k, "Content-Length") => content_length = lines[k].value
    /\ ~saw_content_length => content_length = 0

\* What the reader knows of a header before whose body it cuts the message.
Cut ==
    /\ request_line.crlf
    /\ \A k \in 1..Len(lines) : Sound(k) /\ ~Named(k, "Transfer-Encoding")
    /\ \A j, k \in 1..Len(lines) : Named(j, "Content-Length") /\ Named(k, "Content-Length") => j = k
    /\ \A k \in 1..Len(lines) : Named(k, "Content-Length") => lines[k].value = body_bytes
    /\ (\A k \in 1..Len(lines) : ~Named(k, "Content-Length")) => body_bytes = 0

Fields == {[name |-> l.name, value |-> l.value] : l \in Lines}

Requests == [method : {"UNKNOWN", "GET", "HEAD", "POST"}, target : BOOLEAN,
             version : {"NULL", "HTTP/1.0", "HTTP/1.1"}, headers : Seq(Fields), body_length : Nat]

\* The first n lines are stored as they are.
StoredLines(n) ==
    /\ Len(request.headers) = n /\ n <= MaxHeaders
    /\ \A k \in 1..n :
          /\ request.headers[k] = [name |-> lines[k].name, value |-> lines[k].value]
          /\ lines[k].name_flaw = "none" /\ ~lines[k].value_nul

Types ==
    /\ Len(lines) \in Nat /\ DOMAIN lines = 1..Len(lines)
    /\ \A k \in 1..Len(lines) : lines[k] \in Lines
    /\ caller \in {"reader", "parser"}
    /\ at \in {"framing", "request_line", "headers", "returned"}
    /\ content_length \in Nat /\ request \in Requests

\* What holds in the framing pass, and what the later ones find.
Framing ==
    /\ at = "framing" =>
          /\ i \in 1..(Len(lines) + 1) /\ (i = 1 \/ request_line.crlf)
          /\ Framed(i - 1) /\ request = NoRequest
    /\ caller = "parser" => Cut
    /\ caller = "reader" => at \in {"framing", "returned"}

Storing ==
    /\ at \in {"request_line", "headers"} => Framed(Len(lines)) /\ content_length = body_bytes
    /\ at = "request_line" => request = NoRequest
    /\ at = "headers" => i \in 1..(Len(lines) + 1) /\ StoredLines(i - 1)

Judged == PassesAgree /\ AcceptedIsUnambiguous /\ FramingIsFirstOffence

ParserInv == Types /\ Framing /\ Storing /\ Judged

-----------------------------------------------------------------------------
(* The verdicts on a line.                                                 *)

\* The values a line may have, and what is made of a length.
LEMMA LengthVerdict ==
    ASSUME NEW l \in Lines
    PROVE  /\ l.value \in Int
           /\ ContentLengthValue(l.value) =
                 (IF l.value \in 0..MaxBody THEN "OK"
                  ELSE IF l.value > MaxBody THEN "TOO_LARGE" ELSE "INVALID_CONTENT_LENGTH")
  <1>1. l.value \in Int /\ MaxBody \in Nat
    BY ParserLimits DEF NotALength, Chunked
  <1>2. \/ l.value \in 0..MaxBody /\ ~(l.value > MaxBody) /\ ~(l.value < 0)
        \/ l.value \notin 0..MaxBody /\ l.value > MaxBody /\ ~(l.value < 0)
        \/ l.value \notin 0..MaxBody /\ ~(l.value > MaxBody) /\ l.value < 0
    BY <1>1
  <1> QED
    BY <1>1, <1>2, Zenon DEF ContentLengthValue

\* The pass rejects a line exactly as the reference does.
LEMMA VerdictIsOffence ==
    ASSUME Types, NEW k \in 1..Len(lines),
           saw_content_length <=> \E j \in 1..(k - 1) : Named(j, "Content-Length")
    PROVE  InspectVerdict(lines[k]) = Offence(k)
  <1> DEFINE l == lines[k]
             earlier == {j \in 1..(k - 1) : FramingName(lines[j]) = "Content-Length"}
  <1>1. saw_content_length <=> earlier # {}
    BY Zenon DEF Named
  <1>2. ContentLengthValue(l.value) =
           (IF l.value \in 0..MaxBody THEN "OK"
            ELSE IF l.value > MaxBody THEN "TOO_LARGE" ELSE "INVALID_CONTENT_LENGTH")
    BY LengthVerdict, Zenon DEF Types
  <1>3. CASE ~l.crlf \/ l.colon # "found"
    BY <1>3, Zenon DEF InspectVerdict, Offence
  <1>4. CASE l.crlf /\ l.colon = "found" /\ FramingName(l) = "Transfer-Encoding"
    BY <1>4, Zenon DEF InspectVerdict, Offence
  <1>5. CASE l.crlf /\ l.colon = "found" /\ FramingName(l) = "Content-Length"
    <2>1. InspectVerdict(l) = IF ContentLengthValue(l.value) # "OK" THEN ContentLengthValue(l.value)
                              ELSE IF saw_content_length THEN "INVALID_CONTENT_LENGTH" ELSE "OK"
      BY <1>5, Zenon DEF InspectVerdict
    <2>2. Offence(k) = IF l.value \notin 0..MaxBody
                       THEN IF l.value > MaxBody THEN "TOO_LARGE" ELSE "INVALID_CONTENT_LENGTH"
                       ELSE IF earlier # {} THEN "INVALID_CONTENT_LENGTH" ELSE "OK"
      BY <1>5, Zenon DEF Offence
    <2>3. CASE l.value \notin 0..MaxBody
      BY <1>2, <2>1, <2>2, <2>3, Zenon
    <2>4. CASE l.value \in 0..MaxBody
      <3>1. InspectVerdict(l) = IF saw_content_length THEN "INVALID_CONTENT_LENGTH" ELSE "OK"
        BY <1>2, <2>1, <2>4, Zenon
      <3>2. Offence(k) = IF earlier # {} THEN "INVALID_CONTENT_LENGTH" ELSE "OK"
        BY <2>2, <2>4, Zenon
      <3>3. CASE saw_content_length
        BY <1>1, <3>1, <3>2, <3>3, Zenon
      <3>4. CASE ~saw_content_length
        BY <1>1, <3>1, <3>2, <3>4, Zenon
      <3> QED
        BY <3>3, <3>4, Zenon
    <2> QED
      BY <2>3, <2>4, Zenon
  <1>6. CASE l.crlf /\ l.colon = "found" /\ FramingName(l) \notin {"Transfer-Encoding", "Content-Length"}
    BY <1>6, Zenon DEF InspectVerdict, Offence
  <1> QED
    BY <1>3, <1>4, <1>5, <1>6, Zenon

\* What it means that there is no offence.
LEMMA NoOffence ==
    ASSUME Types, NEW k \in 1..Len(lines)
    PROVE  Offence(k) = "OK" <=>
              /\ Sound(k)
              /\ Named(k, "Content-Length") => \A j \in 1..(k - 1) : ~Named(j, "Content-Length")
  <1> DEFINE l == lines[k]
             earlier == {j \in 1..(k - 1) : FramingName(lines[j]) = "Content-Length"}
  <1>1. earlier = {} <=> \A j \in 1..(k - 1) : ~Named(j, "Content-Length")
    BY Zenon DEF Named
  <1>3. CASE ~l.crlf \/ l.colon # "found"
    BY <1>3, Zenon DEF Sound, Offence
  <1>4. CASE l.crlf /\ l.colon = "found" /\ FramingName(l) = "Transfer-Encoding"
    BY <1>4, Zenon DEF Sound, Named, Offence
  <1>5. CASE l.crlf /\ l.colon = "found" /\ FramingName(l) = "Content-Length"
    <2>1. Offence(k) = IF l.value \notin 0..MaxBody
                       THEN IF l.value > MaxBody THEN "TOO_LARGE" ELSE "INVALID_CONTENT_LENGTH"
                       ELSE IF earlier # {} THEN "INVALID_CONTENT_LENGTH" ELSE "OK"
      BY <1>5, Zenon DEF Offence
    <2>2. Offence(k) = "OK" <=> l.value \in 0..MaxBody /\ earlier = {}
      BY <2>1, Zenon
    <2> QED
      BY <1>1, <1>5, <2>2, Zenon DEF Sound, Named
  <1>6. CASE l.crlf /\ l.colon = "found" /\ FramingName(l) \notin {"Transfer-Encoding", "Content-Length"}
    BY <1>6, Zenon DEF Sound, Named, Offence
  <1> QED
    BY <1>3, <1>4, <1>5, <1>6, Zenon

-----------------------------------------------------------------------------
(* The verdict on the header.                                              *)

LEMMA FramedLines ==
    ASSUME Types, NEW n \in 0..Len(lines), Framed(n)
    PROVE  \A k \in 1..n : Offence(k) = "OK"
  <1> SUFFICES ASSUME NEW k \in 1..n PROVE Offence(k) = "OK"
    BY Zenon
  <1>1. k \in 1..Len(lines) /\ \A j \in 1..(k - 1) : j \in 1..n /\ j # k
    BY DEF Types
  <1>2. Sound(k)
    BY Zenon DEF Framed
  <1>3. ASSUME Named(k, "Content-Length"), NEW j \in 1..(k - 1) PROVE ~Named(j, "Content-Length")
    BY <1>1, <1>3, Zenon DEF Framed
  <1> QED
    BY <1>1, <1>2, <1>3, NoOffence, Zenon

\* The first offending line decides.
LEMMA FirstOffence ==
    ASSUME Types, request_line.crlf, NEW n \in 1..Len(lines), Framed(n - 1), Offence(n) # "OK"
    PROVE  FramingVerdict = Offence(n)
  <1> DEFINE offending == {k \in DOMAIN lines : Offence(k) # "OK"}
             first == CHOOSE k \in offending : \A j \in offending : k <= j
  <1>1. n \in offending
    BY Zenon DEF Types
  <1>2. n - 1 \in 0..Len(lines)
    BY DEF Types
  <1>3. \A k \in 1..(n - 1) : Offence(k) = "OK"
    BY <1>2, FramedLines, Zenon
  <1>4. \A k \in offending : k \in Int /\ k \in 1..Len(lines) /\ k \notin 1..(n - 1)
    BY <1>3 DEF Types
  <1> HIDE DEF offending
  <1>5. \A j \in offending : n <= j
    BY <1>4
  <1>6. first \in offending /\ \A j \in offending : first <= j
    BY <1>1, <1>5, Zenon
  <1> HIDE DEF first
  <1>7. first = n
    BY <1>1, <1>4, <1>5, <1>6
  <1> QED
    BY <1>1, <1>7, Zenon DEF FramingVerdict, offending, first

\* Without an offence, only a Transfer-Encoding is left to object to.
LEMMA NothingOffends ==
    ASSUME Types, request_line.crlf, Framed(Len(lines))
    PROVE  FramingVerdict = IF saw_chunked THEN "UNSUPPORTED_TRANSFER_ENCODING" ELSE "OK"
  <1>1. Len(lines) \in 0..Len(lines) /\ DOMAIN lines = 1..Len(lines)
    BY DEF Types
  <1>2. {k \in DOMAIN lines : Offence(k) # "OK"} = {}
    BY <1>1, FramedLines, Zenon
  <1>3. saw_chunked <=> \E k \in DOMAIN lines : FramingName(lines[k]) = "Transfer-Encoding"
    BY <1>1, Zenon DEF Framed, Named
  <1> QED
    BY <1>2, <1>3, Zenon DEF FramingVerdict

\* What the inspection of a line leaves to be known of the lines so far.
LEMMA NextLineFramed ==
    ASSUME Types, NEW n \in 1..Len(lines), Framed(n - 1)
    PROVE  /\ InspectVerdict(lines[n]) = Offence(n)
           /\ Offence(n) = "OK" <=>
                 Sound(n) /\ (Named(n, "Content-Length") => ~saw_content_length)
  <1>1. saw_content_length <=> \E j \in 1..(n - 1) : Named(j, "Content-Length")
    BY Zenon DEF Framed
  <1> QED
    BY <1>1, VerdictIsOffence, NoOffence, Zenon

\* A header that is cut has no offending line.
LEMMA CutIsSound ==
    ASSUME Types, Cut, NEW n \in 1..Len(lines), Framed(n - 1)
    PROVE  InspectVerdict(lines[n]) = "OK"
  <1>1. \A j \in 1..(n - 1) : j \in 1..Len(lines) /\ j # n
    BY DEF Types
  <1>2. Named(n, "Content-Length") => ~saw_content_length
    BY <1>1, Zenon DEF Cut, Framed
  <1> QED
    BY <1>2, NextLineFramed, Zenon DEF Cut

\* Nor does anything change in a header that stays.
LEMMA SameMessage ==
    ASSUME UNCHANGED message
    PROVE  /\ request_line' = request_line /\ lines' = lines
           /\ FramingVerdict' = FramingVerdict
           /\ UNCHANGED body_bytes => (Cut' <=> Cut)
           /\ UNCHANGED framing => \A n : Framed(n)' <=> Framed(n)
           /\ UNCHANGED request => \A n : StoredLines(n)' <=> StoredLines(n)
  <1>1. request_line' = request_line /\ lines' = lines
    BY Zenon DEF message
  <1>2. ASSUME NEW k PROVE Offence(k)' = Offence(k)
    <2> DEFINE earlier(ls) == {j \in 1..(k - 1) : FramingName(ls[j]) = "Content-Length"}
    <2>1. earlier(lines') = earlier(lines) /\ lines'[k] = lines[k]
      BY <1>1, Zenon
    <2> QED
      BY <2>1 DEF Offence
  <1>3. FramingVerdict' = FramingVerdict
    <2> DEFINE offending == {k \in DOMAIN lines : Offence(k) # "OK"}
               first(S) == CHOOSE k \in S : \A j \in S : k <= j
               chunked == \E k \in DOMAIN lines : FramingName(lines[k]) = "Transfer-Encoding"
    <2>1. offending' = offending
      BY <1>1, <1>2
    <2>2. Offence(first(offending))' = Offence(first(offending))
      <3>1. first(offending') = first(offending)
        BY <2>1, Zenon
      <3> HIDE DEF first, offending
      <3> QED
        BY <1>2, <3>1, Zenon
    <2>3. chunked' <=> chunked
      BY <1>1, Zenon
    <2>4. FramingVerdict = IF ~request_line.crlf THEN "BAD_REQUEST"
                           ELSE IF offending # {} THEN Offence(first(offending))
                           ELSE IF chunked THEN "UNSUPPORTED_TRANSFER_ENCODING" ELSE "OK"
      BY Zenon DEF FramingVerdict
    <2>5. FramingVerdict' = IF ~request_line'.crlf THEN "BAD_REQUEST"
                            ELSE IF offending' # {} THEN Offence(first(offending))'
                            ELSE IF chunked' THEN "UNSUPPORTED_TRANSFER_ENCODING" ELSE "OK"
      BY Zenon DEF FramingVerdict
    <2> HIDE DEF offending, first, chunked
    <2> QED
      BY <1>1, <2>1, <2>2, <2>3, <2>4, <2>5
  <1>4. UNCHANGED body_bytes => (Cut' <=> Cut)
    BY <1>1 DEF Cut, Sound, Named
  <1>5. UNCHANGED framing => \A n : Framed(n)' <=> Framed(n)
    BY <1>1 DEF Framed, Sound, Named, framing
  <1>6. UNCHANGED request => \A n : StoredLines(n)' <=> StoredLines(n)
    BY <1>1 DEF StoredLines
  <1> QED
    BY <1>1, <1>3, <1>4, <1>5, <1>6, Zenon

-----------------------------------------------------------------------------
(* The steps.                                                              *)

\* A refusal ends the message; nothing is left of the request.
LEMMA Refusal ==
    ASSUME ParserInv, at' = "returned", UNCHANGED <<message, caller, framing, body_bytes>>,
           request' = NoRequest, result' # "OK",
           caller = "reader" /\ result' # "OUT_OF_MEMORY" => result' = FramingVerdict,
           caller = "parser" => PassesAgree'
    PROVE  ParserInv'
  <1>1. /\ request_line' = request_line /\ lines' = lines /\ FramingVerdict' = FramingVerdict
        /\ Cut' <=> Cut
    BY SameMessage, Zenon
  <1>2. content_length' = content_length
    BY Zenon DEF framing
  <1>3. NoRequest \in Requests
    BY DEF NoRequest, Requests
  <1>4. Types'
    BY <1>1, <1>2, <1>3, Zenon DEF ParserInv, Types
  <1>5. Framing' /\ Storing'
    BY <1>1, Zenon DEF ParserInv, Framing, Storing
  <1>6. caller = "reader" => PassesAgree'
    BY Zenon DEF PassesAgree
  <1>7. AcceptedIsUnambiguous'
    BY Zenon DEF AcceptedIsUnambiguous
  <1>8. FramingIsFirstOffence'
    BY <1>1, Zenon DEF ParserInv, Judged, FramingIsFirstOffence
  <1>9. caller = "reader" \/ caller = "parser"
    BY Zenon DEF ParserInv, Types
  <1> QED
    BY <1>4, <1>5, <1>6, <1>7, <1>8, <1>9, Zenon DEF ParserInv, Judged

\* While a message is not returned, only the framing verdict is at stake.
LEMMA NotJudgedYet ==
    ASSUME ParserInv, at' # "returned", UNCHANGED message, caller' = "parser" => FramingVerdict = "OK"
    PROVE  Judged'
  <1>1. FramingVerdict' = FramingVerdict
    BY SameMessage, Zenon
  <1> QED
    BY <1>1, Zenon DEF Judged, PassesAgree, AcceptedIsUnambiguous, FramingIsFirstOffence

LEMMA InspectRequestLineStep == ParserInv /\ InspectRequestLine => ParserInv'
  <1> SUFFICES ASSUME ParserInv, InspectRequestLine PROVE ParserInv'
    BY Zenon
  <1>1. /\ at' = "returned" /\ UNCHANGED <<message, caller, framing, body_bytes>>
        /\ request' = NoRequest /\ result' = "BAD_REQUEST" /\ ~request_line.crlf
    BY Zenon DEF InspectRequestLine, Return, ParserInv, Framing
  <1>2. caller # "parser"
    BY <1>1, Zenon DEF ParserInv, Framing, Cut
  <1>3. FramingVerdict = "BAD_REQUEST"
    BY <1>1, Zenon DEF FramingVerdict
  <1> QED
    BY <1>1, <1>2, <1>3, Refusal, Zenon

LEMMA InspectRejectsStep == ParserInv /\ InspectRejects => ParserInv'
  <1> SUFFICES ASSUME ParserInv, InspectRejects PROVE ParserInv'
    BY Zenon
  <1>1. /\ at' = "returned" /\ UNCHANGED <<message, caller, framing, body_bytes>>
        /\ request' = NoRequest /\ result' = InspectVerdict(lines[i]) /\ request_line.crlf
        /\ result' # "OK" /\ i \in 1..Len(lines) /\ Framed(i - 1) /\ Types
    BY Zenon DEF InspectRejects, Return, ParserInv, Framing, Types
  <1>2. caller # "parser"
    BY <1>1, CutIsSound, Zenon DEF ParserInv, Framing
  <1>3. result' = Offence(i)
    BY <1>1, NextLineFramed, Zenon
  <1>4. result' = FramingVerdict
    BY <1>1, <1>3, FirstOffence, Zenon
  <1> QED
    BY <1>1, <1>2, <1>4, Refusal, Zenon

LEMMA InspectOutOfMemoryStep == ParserInv /\ InspectOutOfMemory => ParserInv'
  <1> SUFFICES ASSUME ParserInv, InspectOutOfMemory PROVE ParserInv'
    BY Zenon
  <1>1. /\ at' = "returned" /\ UNCHANGED <<message, caller, framing, body_bytes>>
        /\ request' = NoRequest /\ result' = "OUT_OF_MEMORY"
    BY Zenon DEF InspectOutOfMemory, Return, ParserInv, Framing
  <1>2. PassesAgree'
    BY <1>1, Zenon DEF PassesAgree
  <1> QED
    BY <1>1, <1>2, Refusal, Zenon

\* After the last line, all lines are framed.
LEMMA AllFramed ==
    ASSUME ParserInv, AllInspected
    PROVE  /\ Types /\ Framed(Len(lines)) /\ request_line.crlf /\ request = NoRequest
           /\ FramingVerdict = IF saw_chunked THEN "UNSUPPORTED_TRANSFER_ENCODING" ELSE "OK"
  <1>1. Types /\ Framed(i - 1) /\ i = Len(lines) + 1 /\ request_line.crlf /\ request = NoRequest
    BY Zenon DEF ParserInv, Framing, AllInspected
  <1>2. i - 1 = Len(lines)
    BY <1>1 DEF Types
  <1>3. Framed(Len(lines))
    BY <1>1, <1>2, Zenon
  <1> QED
    BY <1>1, <1>3, NothingOffends, Zenon

LEMMA InspectChunkedStep == ParserInv /\ InspectChunked => ParserInv'
  <1> SUFFICES ASSUME ParserInv, InspectChunked PROVE ParserInv'
    BY Zenon
  <1>1. /\ at' = "returned" /\ UNCHANGED <<message, caller, framing, body_bytes>>
        /\ request' = request /\ result' = "UNSUPPORTED_TRANSFER_ENCODING"
        /\ saw_chunked /\ AllInspected
    BY Zenon DEF InspectChunked, Return
  <1>2. Framed(Len(lines)) /\ request = NoRequest /\ FramingVerdict = "UNSUPPORTED_TRANSFER_ENCODING"
    BY <1>1, AllFramed, Zenon
  <1>3. caller # "parser"
    BY <1>1, <1>2, Zenon DEF ParserInv, Framing, Cut, Framed
  <1> QED
    BY <1>1, <1>2, <1>3, Refusal, Zenon

LEMMA ReaderCutsStep == ParserInv /\ ReaderCuts => ParserInv'
  <1> SUFFICES ASSUME ParserInv, ReaderCuts PROVE ParserInv'
    BY Zenon
  <1>1. /\ at' = "framing" /\ caller' = "parser" /\ i' = 1 /\ UNCHANGED message
        /\ request' = request /\ body_bytes' = content_length /\ content_length' = 0
        /\ ~saw_content_length' /\ ~saw_chunked' /\ ~saw_chunked /\ AllInspected
    BY Zenon DEF ReaderCuts, StartFraming
  <1>2. /\ Types /\ Framed(Len(lines)) /\ request_line.crlf /\ request = NoRequest
        /\ FramingVerdict = "OK"
    BY <1>1, AllFramed, Zenon
  <1>3. request_line' = request_line /\ lines' = lines
    BY <1>1, Zenon DEF message
  <1>4. \A k : (Sound(k)' <=> Sound(k)) /\ \A name : (Named(k, name)' <=> Named(k, name))
    BY <1>3, Zenon DEF Sound, Named
  <1>5. Cut'
    BY <1>1, <1>2, <1>3, <1>4, Zenon DEF Cut, Framed
  <1>6. 1..(1 - 1) = {} /\ 0 \in Nat
    OBVIOUS
  <1>7. Framed(1 - 1)'
    BY <1>1, <1>6, Zenon DEF Framed
  <1>8. Types' /\ 1 \in 1..(Len(lines) + 1)
    <2>1. 1 \in 1..(Len(lines) + 1)
      BY <1>2 DEF Types
    <2> QED
      BY <1>1, <1>2, <1>3, <1>6, <2>1, Zenon DEF Types
  <1>9. Framing'
    BY <1>1, <1>2, <1>3, <1>5, <1>7, <1>8, Zenon DEF Framing
  <1>10. Storing'
    BY <1>1, Zenon DEF Storing
  <1>11. Judged'
    BY <1>1, <1>2, NotJudgedYet, Zenon
  <1> QED
    BY <1>8, <1>9, <1>10, <1>11, Zenon DEF ParserInv

LEMMA NextLine ==
    ASSUME NEW n \in Nat, NEW k \in 1..n
    PROVE  /\ k + 1 \in 1..(n + 1) /\ (k + 1) - 1 = k
           /\ \A j : j \in 1..k <=> j \in 1..(k - 1) \/ j = k
  OBVIOUS

LEMMA InspectAcceptsStep == ParserInv /\ InspectAccepts => ParserInv'
  <1> SUFFICES ASSUME ParserInv, InspectAccepts PROVE ParserInv'
    BY Zenon
  <1> DEFINE l == lines[i]
  <1>1. /\ Types /\ at = "framing" /\ request_line.crlf /\ i \in 1..Len(lines)
        /\ Framed(i - 1) /\ request = NoRequest /\ InspectVerdict(l) = "OK"
    BY Zenon DEF InspectAccepts, ParserInv, Framing, Types
  <1>2. /\ at' = at /\ caller' = caller /\ i' = i + 1 /\ UNCHANGED <<message, body_bytes>>
        /\ request' = request
        /\ saw_chunked' <=> saw_chunked \/ Named(i, "Transfer-Encoding")
        /\ saw_content_length' <=> saw_content_length \/ Named(i, "Content-Length")
        /\ content_length' = IF Named(i, "Content-Length") THEN l.value ELSE content_length
    BY Zenon DEF InspectAccepts, Named
  <1>3. Sound(i) /\ (Named(i, "Content-Length") => ~saw_content_length)
    BY <1>1, NextLineFramed, Zenon
  <1>4. /\ request_line' = request_line /\ lines' = lines /\ FramingVerdict' = FramingVerdict
        /\ Cut' <=> Cut
    BY <1>2, SameMessage, Zenon
  <1>5. \A k : (Sound(k)' <=> Sound(k)) /\ \A name : (Named(k, name)' <=> Named(k, name))
    BY <1>4, Zenon DEF Sound, Named
  <1>6. /\ i + 1 \in 1..(Len(lines) + 1) /\ (i + 1) - 1 = i
        /\ \A k : k \in 1..i <=> k \in 1..(i - 1) \/ k = i
    BY <1>1, NextLine, Zenon DEF Types
  <1>7. /\ \A k \in 1..i : Sound(k)
        /\ \A j, k \in 1..i : Named(j, "Content-Length") /\ Named(k, "Content-Length") => j = k
        /\ saw_chunked' <=> \E k \in 1..i : Named(k, "Transfer-Encoding")
        /\ saw_content_length' <=> \E k \in 1..i : Named(k, "Content-Length")
        /\ \A k \in 1..i : Named(k, "Content-Length") => content_length' = lines[k].value
        /\ ~saw_content_length' => content_length' = 0
    <2>1. \A k \in 1..i : Sound(k)
      BY <1>1, <1>3, <1>6, Zenon DEF Framed
    <2>2. \A k \in 1..(i - 1) : Named(k, "Content-Length") => ~Named(i, "Content-Length")
      BY <1>1, <1>3, Zenon DEF Framed
    <2>3. ASSUME NEW j \in 1..i, NEW k \in 1..i, Named(j, "Content-Length"), Named(k, "Content-Length")
          PROVE  j = k
      BY <1>1, <1>6, <2>2, <2>3, Zenon DEF Framed
    <2>4. saw_chunked' <=> \E k \in 1..i : Named(k, "Transfer-Encoding")
      BY <1>1, <1>2, <1>6, Zenon DEF Framed
    <2>5. saw_content_length' <=> \E k \in 1..i : Named(k, "Content-Length")
      BY <1>1, <1>2, <1>6, Zenon DEF Framed
    <2>6. ASSUME NEW k \in 1..i, Named(k, "Content-Length") PROVE content_length' = lines[k].value
      BY <1>1, <1>2, <1>6, <2>2, <2>6, Zenon DEF Framed
    <2>7. ~saw_content_length' => content_length' = 0
      BY <1>1, <1>2, Zenon DEF Framed
    <2> QED
      BY <2>1, <2>3, <2>4, <2>5, <2>6, <2>7, Zenon
  <1>8. Framed(i - 1)'
    <2>1. 1..(i' - 1) = 1..i
      BY <1>2, <1>6, Zenon
    <2>2. /\ \A k \in 1..i : Sound(k)'
          /\ \A j, k \in 1..i : Named(j, "Content-Length")' /\ Named(k, "Content-Length")' => j = k
          /\ saw_chunked' <=> \E k \in 1..i : Named(k, "Transfer-Encoding")'
          /\ saw_content_length' <=> \E k \in 1..i : Named(k, "Content-Length")'
          /\ \A k \in 1..i : Named(k, "Content-Length")' => content_length' = lines'[k].value
          /\ ~saw_content_length' => content_length' = 0
      BY <1>4, <1>5, <1>7
    <2> QED
      BY <2>1, <2>2, Zenon DEF Framed
  <1>9. Types'
    <2>1. \A v \in 0..MaxBody : v \in Nat
      BY ParserLimits
    <2>2. content_length' \in Nat
      BY <1>1, <1>2, <1>3, <2>1, Zenon DEF Types, Sound
    <2> QED
      BY <1>1, <1>2, <1>4, <2>2, Zenon DEF Types
  <1>10. Framing'
    BY <1>1, <1>2, <1>4, <1>6, <1>8, Zenon DEF ParserInv, Framing
  <1>11. Storing'
    BY <1>1, <1>2, Zenon DEF Storing
  <1>12. Judged'
    <2>1. caller' = "parser" => FramingVerdict = "OK"
      BY <1>2, Zenon DEF ParserInv, Judged, FramingIsFirstOffence
    <2> QED
      BY <1>1, <1>2, <2>1, NotJudgedYet, Zenon
  <1> QED
    BY <1>9, <1>10, <1>11, <1>12, Zenon DEF ParserInv

\* The parser has its lengths from the header that the reader had it from.
LEMMA ParseLengthsStep == ParserInv /\ ParseLengths => ParserInv'
  <1> SUFFICES ASSUME ParserInv, ParseLengths PROVE ParserInv'
    BY Zenon
  <1>1. AllInspected /\ caller = "parser" /\ Cut
    BY Zenon DEF ParseLengths, ParserInv, Framing
  <1>2. Types /\ Framed(Len(lines)) /\ request = NoRequest
    BY <1>1, AllFramed, Zenon
  <1>3. content_length = body_bytes
    <2>1. CASE saw_content_length
      BY <1>1, <1>2, <2>1 DEF Cut, Framed
    <2>2. CASE ~saw_content_length
      BY <1>1, <1>2, <2>2, Zenon DEF Cut, Framed
    <2> QED
      BY <2>1, <2>2, Zenon
  <1>4. /\ at' = "request_line"
        /\ UNCHANGED <<message, caller, i, framing, body_bytes, request, result>>
    BY <1>3, Zenon DEF ParseLengths
  <1>5. /\ request_line' = request_line /\ lines' = lines /\ Cut' /\ Framed(Len(lines))'
        /\ content_length' = content_length
    BY <1>1, <1>2, <1>4, SameMessage, Zenon DEF framing
  <1>6. Types'
    BY <1>2, <1>4, <1>5, Zenon DEF Types
  <1>7. Framing' /\ Storing'
    BY <1>1, <1>2, <1>3, <1>4, <1>5, Zenon DEF Framing, Storing
  <1>8. Judged'
    BY <1>1, <1>4, NotJudgedYet, Zenon DEF ParserInv, Judged, FramingIsFirstOffence
  <1> QED
    BY <1>6, <1>7, <1>8, Zenon DEF ParserInv

\* What the passes after the framing may refuse.
LEMMA ParserRefusal ==
    ASSUME ParserInv, at \in {"request_line", "headers"}, at' = "returned",
           UNCHANGED <<message, caller, framing, body_bytes>>, request' = NoRequest,
           \/ result' \in {"OUT_OF_MEMORY", "UNSUPPORTED_METHOD", "UNSUPPORTED_VERSION",
                           "TOO_MANY_HEADERS"}
           \/ result' = "TOO_LARGE" /\ request_line.length = "long"
           \/ result' = "BAD_REQUEST" /\ RequestLineVerdict(request_line) = "BAD_REQUEST"
           \/ result' = "BAD_REQUEST" /\ \E k \in DOMAIN lines : lines[k].name_flaw # "none" \/ lines[k].value_nul
    PROVE  ParserInv'
  <1>1. caller # "reader"
    BY Zenon DEF ParserInv, Framing
  <1>2. request_line' = request_line /\ lines' = lines
    BY Zenon DEF message
  <1>3. result' # "OK" /\ result' \notin {"INVALID_CONTENT_LENGTH", "UNSUPPORTED_TRANSFER_ENCODING"}
    BY Zenon
  <1>4. RequestLineVerdict(request_line') = RequestLineVerdict(request_line)
    BY <1>2, Zenon
  <1>5. PassesAgree'
    <2>1. result' = "TOO_LARGE" => request_line'.length = "long"
      BY <1>2, Zenon
    <2>2. result' = "BAD_REQUEST" =>
             \/ RequestLineVerdict(request_line') = "BAD_REQUEST"
             \/ \E k \in DOMAIN lines' : lines'[k].name_flaw # "none" \/ lines'[k].value_nul
      BY <1>2, <1>4, Zenon
    <2> QED
      BY <1>3, <2>1, <2>2, Zenon DEF PassesAgree
  <1> QED
    BY <1>1, <1>3, <1>5, Refusal, Zenon

LEMMA RequestLineVerdicts ==
    /\ RequestLineVerdict(request_line) \in {"OK", "TOO_LARGE", "BAD_REQUEST", "UNSUPPORTED_METHOD",
                                              "UNSUPPORTED_VERSION"}
    /\ RequestLineVerdict(request_line) = "TOO_LARGE" => request_line.length = "long"
    /\ RequestLineVerdict(request_line) = "OK" =>
          /\ request_line.method \in {"GET", "HEAD", "POST"}
          /\ request_line.version \in {"HTTP/1.0", "HTTP/1.1"}
  <1> DEFINE r == request_line
             v == RequestLineVerdict(r)
  <1>1. CASE r.length # "fits"
    <2>1. v = IF r.length = "long" THEN "TOO_LARGE" ELSE "BAD_REQUEST"
      BY <1>1, Zenon DEF RequestLineVerdict
    <2> QED
      BY <2>1, Zenon
  <1>2. CASE r.length = "fits" /\ r.form # "three fields"
    <2>1. v = "BAD_REQUEST"
      BY <1>2, Zenon DEF RequestLineVerdict
    <2> QED
      BY <2>1, Zenon
  <1>3. CASE r.length = "fits" /\ r.form = "three fields" /\ r.method \notin {"GET", "HEAD", "POST"}
    <2>1. v = "UNSUPPORTED_METHOD"
      BY <1>3, Zenon DEF RequestLineVerdict
    <2> QED
      BY <2>1, Zenon
  <1>4. CASE /\ r.length = "fits" /\ r.form = "three fields" /\ r.method \in {"GET", "HEAD", "POST"}
             /\ r.version \in {"HTTP/1.0", "HTTP/1.1"}
    <2>1. v = "OK"
      BY <1>4, Zenon DEF RequestLineVerdict
    <2> QED
      BY <1>4, <2>1, Zenon
  <1>5. CASE /\ r.length = "fits" /\ r.form = "three fields" /\ r.method \in {"GET", "HEAD", "POST"}
             /\ r.version \notin {"HTTP/1.0", "HTTP/1.1"}
    <2>1. v \in {"UNSUPPORTED_VERSION", "BAD_REQUEST"}
      BY <1>5, Zenon DEF RequestLineVerdict
    <2> QED
      BY <2>1, Zenon
  <1> QED
    BY <1>1, <1>2, <1>3, <1>4, <1>5, Zenon

LEMMA ParseRequestLineFailsStep ==
    ParserInv /\ (ParseRequestLineFails \/ ParseRequestLineOutOfMemory) => ParserInv'
  <1>1. ASSUME ParserInv, ParseRequestLineFails PROVE ParserInv'
    <2>1. PICK r \in {RequestLineVerdict(request_line)} \ {"OK"} : DestroyAndReturn(r)
      BY <1>1, Zenon DEF ParseRequestLineFails
    <2>2. /\ at = "request_line" /\ at' = "returned" /\ UNCHANGED <<message, caller, framing, body_bytes>>
          /\ request' = NoRequest /\ result' = r
      BY <1>1, <2>1, Zenon DEF ParseRequestLineFails, DestroyAndReturn
    <2>3. r = RequestLineVerdict(request_line) /\ r # "OK"
      BY <2>1, Zenon
    <2>4. r \in {"UNSUPPORTED_METHOD", "UNSUPPORTED_VERSION"} \/ r = "TOO_LARGE" \/ r = "BAD_REQUEST"
      BY <2>3, RequestLineVerdicts, Zenon
    <2>5. r = "TOO_LARGE" => request_line.length = "long"
      BY <2>3, RequestLineVerdicts, Zenon
    <2> QED
      BY <1>1, <2>2, <2>3, <2>4, <2>5, ParserRefusal, Zenon
  <1>2. ASSUME ParserInv, ParseRequestLineOutOfMemory PROVE ParserInv'
    BY <1>2, ParserRefusal, Zenon DEF ParseRequestLineOutOfMemory, DestroyAndReturn
  <1> QED
    BY <1>1, <1>2, Zenon

\* A request that is being filled in.
LEMMA MethodAndVersionSet ==
    ASSUME NEW r \in Requests, NEW m \in {"GET", "HEAD", "POST"}, NEW v \in {"HTTP/1.0", "HTTP/1.1"},
           NEW q, q = [r EXCEPT !.method = m, !.target = TRUE, !.version = v]
    PROVE  q \in Requests /\ q.headers = r.headers
  BY Zenon DEF Requests

LEMMA HeaderAppended ==
    ASSUME NEW r \in Requests, NEW f \in Fields,
           NEW q, q = [r EXCEPT !.headers = Append(@, f)]
    PROVE  q \in Requests /\ q.headers = Append(r.headers, f) /\ r.headers \in Seq(Fields)
  <1>1. r.headers \in Seq(Fields)
    BY Zenon DEF Requests
  <1>2. Append(r.headers, f) \in Seq(Fields)
    BY <1>1
  <1> QED
    BY <1>1, <1>2, Zenon DEF Requests

LEMMA BodyLengthSet ==
    ASSUME NEW r \in Requests, NEW n \in Nat, NEW q, q = [r EXCEPT !.body_length = n]
    PROVE  q \in Requests /\ q.headers = r.headers /\ q.body_length = n
  BY Zenon DEF Requests

LEMMA ParseRequestLineStep == ParserInv /\ ParseRequestLine => ParserInv'
  <1> SUFFICES ASSUME ParserInv, ParseRequestLine PROVE ParserInv'
    BY Zenon
  <1>1. /\ Types /\ at = "request_line" /\ request = NoRequest /\ Framed(Len(lines))
        /\ content_length = body_bytes /\ caller # "reader"
    BY Zenon DEF ParseRequestLine, ParserInv, Framing, Storing
  <1>2. /\ at' = "headers" /\ i' = 1 /\ UNCHANGED <<message, caller, framing, body_bytes, result>>
        /\ request' = [request EXCEPT !.method = request_line.method, !.target = TRUE,
                                      !.version = request_line.version]
    BY DEF ParseRequestLine
  <1>3. /\ request_line.method \in {"GET", "HEAD", "POST"}
        /\ request_line.version \in {"HTTP/1.0", "HTTP/1.1"}
    <2>1. RequestLineVerdict(request_line) = "OK"
      BY DEF ParseRequestLine
    <2> QED
      BY <2>1, RequestLineVerdicts, Zenon
  <1>4. request' \in Requests /\ request'.headers = request.headers
    <2>1. request \in Requests
      BY <1>1, Zenon DEF Types
    <2> QED
      BY <1>2, <1>3, <2>1, MethodAndVersionSet, Zenon
  <1>5. /\ request_line' = request_line /\ lines' = lines /\ (Cut' <=> Cut) /\ Framed(Len(lines))'
        /\ content_length' = content_length
    BY <1>1, <1>2, SameMessage, Zenon DEF framing
  <1>6. Types'
    BY <1>1, <1>2, <1>4, <1>5, Zenon DEF Types
  <1>7. 1 \in 1..(Len(lines) + 1) /\ 1..(1 - 1) = {} /\ 1 - 1 = 0 /\ 0 <= MaxHeaders
    BY <1>1, ParserLimits DEF Types
  <1>8. request.headers = <<>> /\ Len(<<>>) = 0
    BY <1>1 DEF NoRequest
  <1>9. StoredLines(i - 1)'
    BY <1>2, <1>4, <1>7, <1>8, Zenon DEF StoredLines
  <1>10. Framing' /\ Storing'
    BY <1>1, <1>2, <1>5, <1>7, <1>9, Zenon DEF ParserInv, Framing, Storing
  <1>11. Judged'
    BY <1>2, NotJudgedYet, Zenon DEF ParserInv, Judged, FramingIsFirstOffence
  <1> QED
    BY <1>6, <1>10, <1>11, Zenon DEF ParserInv

LEMMA HeaderVerdicts ==
    ASSUME NEW l, l.crlf, l.colon = "found"
    PROVE  /\ HeaderVerdict(l) = "OK" =>
                 l.name_flaw = "none" /\ ~l.value_nul /\ ~(Len(request.headers) >= MaxHeaders)
           /\ HeaderVerdict(l) # "OK" =>
                 \/ HeaderVerdict(l) = "TOO_MANY_HEADERS"
                 \/ HeaderVerdict(l) = "BAD_REQUEST" /\ (l.name_flaw # "none" \/ l.value_nul)
  <1>1. CASE l.name_flaw # "none" \/ l.value_nul
    <2>1. HeaderVerdict(l) = "BAD_REQUEST"
      BY <1>1, Zenon DEF HeaderVerdict
    <2> QED
      BY <1>1, <2>1, Zenon
  <1>2. CASE l.name_flaw = "none" /\ ~l.value_nul
    <2>1. HeaderVerdict(l) = IF Len(request.headers) >= MaxHeaders THEN "TOO_MANY_HEADERS" ELSE "OK"
      BY <1>2, Zenon DEF HeaderVerdict
    <2> QED
      BY <1>2, <2>1, Zenon
  <1> QED
    BY <1>1, <1>2, Zenon

\* The line that the second pass has come to.
LEMMA NextHeader ==
    ASSUME ParserInv, at = "headers", i \in DOMAIN lines
    PROVE  /\ Types /\ i \in 1..Len(lines) /\ lines[i].crlf /\ lines[i].colon = "found"
           /\ Framed(Len(lines)) /\ content_length = body_bytes /\ caller # "reader"
           /\ StoredLines(i - 1)
  <1>1. /\ Types /\ i \in 1..Len(lines) /\ Framed(Len(lines)) /\ content_length = body_bytes
        /\ caller # "reader" /\ StoredLines(i - 1)
    BY Zenon DEF ParserInv, Types, Framing, Storing
  <1> QED
    BY <1>1, Zenon DEF Framed, Sound

LEMMA ParseHeaderFailsStep == ParserInv /\ (ParseHeaderFails \/ ParseHeaderOutOfMemory) => ParserInv'
  <1>1. ASSUME ParserInv, ParseHeaderFails PROVE ParserInv'
    <2>1. /\ at = "headers" /\ at' = "returned" /\ UNCHANGED <<message, caller, framing, body_bytes>>
          /\ i \in DOMAIN lines /\ request' = NoRequest /\ result' = HeaderVerdict(lines[i])
          /\ HeaderVerdict(lines[i]) # "OK"
      BY <1>1, Zenon DEF ParseHeaderFails, DestroyAndReturn
    <2>2. \/ result' = "TOO_MANY_HEADERS"
          \/ result' = "BAD_REQUEST" /\ (lines[i].name_flaw # "none" \/ lines[i].value_nul)
      BY <1>1, <2>1, NextHeader, HeaderVerdicts, Zenon
    <2> QED
      BY <1>1, <2>1, <2>2, ParserRefusal, Zenon
  <1>2. ASSUME ParserInv, ParseHeaderOutOfMemory PROVE ParserInv'
    BY <1>2, ParserRefusal, Zenon DEF ParseHeaderOutOfMemory, DestroyAndReturn
  <1> QED
    BY <1>1, <1>2, Zenon

LEMMA AppendFacts ==
    ASSUME NEW s \in Seq(Fields), NEW e
    PROVE  /\ Len(Append(s, e)) = Len(s) + 1 /\ Append(s, e)[Len(s) + 1] = e
           /\ \A k \in 1..Len(s) : Append(s, e)[k] = s[k]
  OBVIOUS

LEMMA ParseHeaderStep == ParserInv /\ ParseHeader => ParserInv'
  <1> SUFFICES ASSUME ParserInv, ParseHeader PROVE ParserInv'
    BY Zenon
  <1> DEFINE l == lines[i]
             f == [name |-> l.name, value |-> l.value]
  <1>1. /\ at = "headers" /\ i \in DOMAIN lines /\ HeaderVerdict(l) = "OK"
        /\ request' = [request EXCEPT !.headers = Append(@, f)] /\ i' = i + 1
        /\ UNCHANGED <<message, caller, at, framing, body_bytes, result>>
    BY DEF ParseHeader
  <1>2. /\ Types /\ i \in 1..Len(lines) /\ l.crlf /\ l.colon = "found"
        /\ Framed(Len(lines)) /\ content_length = body_bytes /\ caller # "reader"
        /\ StoredLines(i - 1)
    BY <1>1, NextHeader, Zenon
  <1>3. l.name_flaw = "none" /\ ~l.value_nul /\ ~(Len(request.headers) >= MaxHeaders)
    BY <1>1, <1>2, HeaderVerdicts, Zenon
  <1>4. request' \in Requests /\ request'.headers = Append(request.headers, f)
            /\ request.headers \in Seq(Fields)
    <2>1. f \in Fields /\ request \in Requests
      BY <1>2, Zenon DEF Types, Fields
    <2> HIDE DEF f
    <2> QED
      BY <1>1, <2>1, HeaderAppended, Zenon
  <1>5. /\ request_line' = request_line /\ lines' = lines /\ (Cut' <=> Cut) /\ Framed(Len(lines))'
        /\ content_length' = content_length
    BY <1>1, <1>2, SameMessage, Zenon DEF framing
  <1>6. Types'
    BY <1>1, <1>2, <1>4, <1>5, Zenon DEF Types
  <1>7. /\ Len(request.headers) = i - 1
        /\ \A k \in 1..(i - 1) :
             /\ request.headers[k] = [name |-> lines[k].name, value |-> lines[k].value]
             /\ lines[k].name_flaw = "none" /\ ~lines[k].value_nul
    BY <1>2, Zenon DEF StoredLines
  <1>8. /\ i + 1 \in 1..(Len(lines) + 1) /\ i' - 1 = i /\ i <= MaxHeaders
        /\ \A k : k \in 1..i <=> k \in 1..(i - 1) \/ k = i
    <2>1. Len(lines) \in Nat /\ i \in 1..Len(lines) /\ ~(i - 1 >= MaxHeaders) /\ i' = i + 1
      BY <1>1, <1>2, <1>3, <1>7, Zenon DEF Types
    <2> QED
      BY <2>1, NextLine, ParserLimits
  <1>9. /\ Len(request'.headers) = i
        /\ \A k \in 1..(i - 1) : request'.headers[k] = request.headers[k]
        /\ request'.headers[i] = f
    <2> HIDE DEF f
    <2> DEFINE s == request.headers
               t == request'.headers
    <2>0. s \in Seq(Fields) /\ t = Append(s, f) /\ Len(s) = i - 1 /\ i \in 1..Len(lines)
      BY <1>2, <1>4, <1>7, Zenon
    <2> HIDE DEF s, t
    <2>1. /\ Len(Append(s, f)) = Len(s) + 1 /\ Append(s, f)[Len(s) + 1] = f
          /\ \A k \in 1..Len(s) : Append(s, f)[k] = s[k]
      BY <2>0, AppendFacts
    <2>2. (i - 1) + 1 = i
      BY <2>0
    <2>3. Len(t) = i /\ t[i] = f /\ \A k \in 1..(i - 1) : t[k] = s[k]
      BY <2>0, <2>1, <2>2, Zenon
    <2> QED
      BY <2>3, Zenon DEF s, t
  <1>10. StoredLines(i - 1)'
    <2>1. \A k \in 1..i :
             /\ request'.headers[k] = [name |-> lines'[k].name, value |-> lines'[k].value]
             /\ lines'[k].name_flaw = "none" /\ ~lines'[k].value_nul
      BY <1>3, <1>5, <1>7, <1>8, <1>9, Zenon
    <2>2. 1..(i' - 1) = 1..i /\ i' - 1 = i
      BY <1>8, Zenon
    <2> QED
      BY <1>8, <1>9, <2>1, <2>2, Zenon DEF StoredLines
  <1>11. Framing' /\ Storing'
    BY <1>1, <1>2, <1>5, <1>8, <1>10, Zenon DEF ParserInv, Framing, Storing
  <1>12. Judged'
    BY <1>1, NotJudgedYet, Zenon DEF ParserInv, Judged, FramingIsFirstOffence
  <1> QED
    BY <1>6, <1>11, <1>12, Zenon DEF ParserInv

\* The stored fields are the lines.
LEMMA AllLinesStored ==
    ASSUME ParserInv, AllStored
    PROVE  /\ Types /\ Framed(Len(lines)) /\ content_length = body_bytes /\ caller = "parser" /\ Cut
           /\ StoredLines(Len(lines))
           /\ \A k \in 1..Len(lines) : \A name : Named(k, name) <=> lines[k].name = name
           /\ \A name : Stored(name) = {k \in 1..Len(lines) : Named(k, name)}
  <1>1. /\ Types /\ Framed(Len(lines)) /\ content_length = body_bytes /\ caller = "parser" /\ Cut
        /\ StoredLines(i - 1) /\ i = Len(lines) + 1
    BY Zenon DEF AllStored, ParserInv, Types, Framing, Storing
  <1>2. (Len(lines) + 1) - 1 = Len(lines)
    BY <1>1 DEF Types
  <1>3. StoredLines(Len(lines))
    BY <1>1, <1>2, Zenon
  <1>4. ASSUME NEW k \in 1..Len(lines), NEW name PROVE Named(k, name) <=> lines[k].name = name
    <2>1. lines[k].name_flaw = "none"
      BY <1>3, Zenon DEF StoredLines
    <2>2. FramingName(lines[k]) = lines[k].name
      BY <2>1, Zenon DEF FramingName
    <2> QED
      BY <2>2, Zenon DEF Named
  <1>5. ASSUME NEW name PROVE Stored(name) = {k \in 1..Len(lines) : Named(k, name)}
    <2>1. request.headers \in Seq(Fields)
      BY <1>1, Zenon DEF Types, Requests
    <2>2. DOMAIN request.headers = 1..Len(request.headers)
      BY <2>1
    <2>3. DOMAIN request.headers = 1..Len(lines)
      BY <1>3, <2>2, Zenon DEF StoredLines
    <2>4. ASSUME NEW k \in 1..Len(lines) PROVE request.headers[k].name = lines[k].name
      <3>1. request.headers[k] = [name |-> lines[k].name, value |-> lines[k].value]
        BY <1>3, Zenon DEF StoredLines
      <3> QED
        BY <3>1
    <2> QED
      BY <1>4, <2>3, <2>4, Zenon DEF Stored
  <1> QED
    BY <1>1, <1>3, <1>4, <1>5, Zenon

\* The validation of the stored fields finds what the framing pass found.
LEMMA RevalidationPasses ==
    ASSUME ParserInv, AllStored
    PROVE  Revalidation = "OK"
  <1> DEFINE cls == Stored("Content-Length")
  <1>1. /\ Types /\ Framed(Len(lines)) /\ Cut /\ StoredLines(Len(lines))
        /\ Stored("Transfer-Encoding") = {k \in 1..Len(lines) : Named(k, "Transfer-Encoding")}
        /\ cls = {k \in 1..Len(lines) : Named(k, "Content-Length")}
    BY AllLinesStored, Zenon
  <1>2. Stored("Transfer-Encoding") = {}
    BY <1>1, Zenon DEF Cut
  <1>3. CASE cls = {}
    <2>1. content_length = 0
      BY <1>1, <1>3, Zenon DEF Framed
    <2>2. Revalidation = IF content_length # 0 THEN "BAD_REQUEST" ELSE "OK"
      BY <1>2, <1>3, Zenon DEF Revalidation
    <2> QED
      BY <2>1, <2>2, Zenon
  <1>4. CASE cls # {}
    <2> DEFINE first == CHOOSE k \in cls : \A j \in cls : k <= j
    <2>1. \A j, k \in cls : j = k /\ j <= k
      <3>1. \A j, k \in cls : j = k
        BY <1>1, Zenon DEF Framed
      <3>2. \A n \in 1..Len(lines) : n <= n
        BY <1>1 DEF Types
      <3> QED
        BY <1>1, <3>1, <3>2, Zenon
    <2>2. ~Repeated(cls)
      BY <2>1, Zenon DEF Repeated
    <2>3. first \in cls
      BY <1>4, <2>1, Zenon
    <2>4. GetHeader("Content-Length") = request.headers[first].value
      BY Zenon DEF GetHeader
    <2> HIDE DEF first
    <2>5. first \in 1..Len(lines) /\ Named(first, "Content-Length")
      BY <1>1, <2>3, Zenon
    <2>6. /\ request.headers[first].value = lines[first].value
          /\ lines[first].value = content_length /\ lines[first].value \in 0..MaxBody
          /\ lines[first] \in Lines
      <3>1. request.headers[first] = [name |-> lines[first].name, value |-> lines[first].value]
        BY <1>1, <2>5, Zenon DEF StoredLines
      <3>2. request.headers[first].value = lines[first].value
        BY <3>1
      <3>3. lines[first].value = content_length /\ lines[first].value \in 0..MaxBody
        BY <1>1, <2>5, Zenon DEF Framed, Sound
      <3>4. lines[first] \in Lines
        BY <1>1, <2>5, Zenon DEF Types
      <3> QED
        BY <3>2, <3>3, <3>4, Zenon
    <2>7. ContentLengthValue(GetHeader("Content-Length")) = "OK"
      BY <2>4, <2>6, LengthVerdict, Zenon
    <2>8. Revalidation = IF Repeated(cls) THEN "INVALID_CONTENT_LENGTH"
                         ELSE IF ContentLengthValue(GetHeader("Content-Length")) # "OK"
                              THEN ContentLengthValue(GetHeader("Content-Length"))
                         ELSE IF GetHeader("Content-Length") # content_length THEN "BAD_REQUEST" ELSE "OK"
      BY <1>2, <1>4, Zenon DEF Revalidation
    <2> QED
      BY <2>2, <2>4, <2>6, <2>7, <2>8, Zenon
  <1> QED
    BY <1>3, <1>4, Zenon

LEMMA BodyOutOfMemoryStep == ParserInv /\ BodyOutOfMemory => ParserInv'
  BY ParserRefusal, Zenon DEF BodyOutOfMemory, AllStored, DestroyAndReturn

LEMMA ValidateStep == ParserInv /\ Validate => ParserInv'
  <1> SUFFICES ASSUME ParserInv, Validate PROVE ParserInv'
    BY Zenon
  <1>1. AllStored /\ Revalidation = "OK"
    BY RevalidationPasses, Zenon DEF Validate
  <1>2. /\ at' = "returned" /\ result' = "OK" /\ UNCHANGED <<message, caller, i, framing, body_bytes>>
        /\ request' = [request EXCEPT !.body_length = content_length]
    BY <1>1 DEF Validate
  <1>3. /\ Types /\ Framed(Len(lines)) /\ content_length = body_bytes /\ caller = "parser" /\ Cut
        /\ StoredLines(Len(lines))
        /\ \A k \in 1..Len(lines) : \A name : Named(k, name) <=> lines[k].name = name
    BY <1>1, AllLinesStored, Zenon
  <1>4. /\ request' \in Requests /\ request'.headers = request.headers
        /\ request'.body_length = content_length
    <2>1. request \in Requests /\ content_length \in Nat
      BY <1>3, Zenon DEF Types
    <2> QED
      BY <1>2, <2>1, BodyLengthSet
  <1>5. /\ request_line' = request_line /\ lines' = lines /\ Cut'
        /\ FramingVerdict' = FramingVerdict /\ content_length' = content_length
        /\ saw_content_length' = saw_content_length
    BY <1>2, <1>3, SameMessage, Zenon DEF framing
  <1>6. Types'
    BY <1>2, <1>3, <1>4, <1>5, Zenon DEF Types
  <1>7. Framing' /\ Storing'
    BY <1>2, <1>3, <1>5, Zenon DEF Framing, Storing
  <1>8. PassesAgree'
    BY <1>2, <1>3, <1>4, Zenon DEF PassesAgree
  <1>9. AcceptedIsUnambiguous'
    <2> DEFINE cls == {k \in DOMAIN lines : lines[k].name = "Content-Length"}
    <2>1. DOMAIN lines = 1..Len(lines)
      BY <1>3, Zenon DEF Types
    <2>2. Len(request'.headers) = Len(lines) /\ Len(lines) <= MaxHeaders
      BY <1>3, <1>4, Zenon DEF StoredLines
    <2>3. ASSUME NEW k \in DOMAIN lines
          PROVE  /\ lines[k].name_flaw = "none" /\ ~lines[k].value_nul
                 /\ lines[k].name # "Transfer-Encoding"
                 /\ lines[k].name = "Content-Length" => lines[k].value = request'.body_length
      <3>1. lines[k].name_flaw = "none" /\ ~lines[k].value_nul
        BY <1>3, <2>1, Zenon DEF StoredLines
      <3>2. ~Named(k, "Transfer-Encoding")
        BY <1>3, <2>1, Zenon DEF Cut
      <3>3. Named(k, "Content-Length") => lines[k].value = content_length
        BY <1>3, <2>1, Zenon DEF Framed
      <3> QED
        BY <1>3, <1>4, <2>1, <3>1, <3>2, <3>3, Zenon
    <2>4. cls = {k \in 1..Len(lines) : Named(k, "Content-Length")}
      BY <1>3, <2>1, Zenon
    <2>5. ASSUME saw_content_length PROVE \E k \in cls : cls = {k}
      <3>1. PICK k \in 1..Len(lines) : Named(k, "Content-Length")
        BY <1>3, <2>5, Zenon DEF Framed
      <3>2. k \in cls
        BY <2>4, <3>1, Zenon
      <3>3. \A j \in cls : j = k
        BY <1>3, <2>4, <3>1, Zenon DEF Framed
      <3> HIDE DEF cls
      <3>4. cls = {k}
        BY <3>2, <3>3, Zenon
      <3> QED
        BY <3>2, <3>4, Zenon
    <2>6. ASSUME ~saw_content_length PROVE cls = {}
      BY <1>3, <2>4, <2>6, Zenon DEF Framed
    <2>7. IF saw_content_length THEN \E k \in cls : cls = {k} ELSE cls = {}
      BY <2>5, <2>6, Zenon
    <2> QED
      BY <1>2, <1>5, <2>2, <2>3, <2>7 DEF AcceptedIsUnambiguous
  <1>10. FramingIsFirstOffence'
    BY <1>2, <1>3, <1>5, Zenon DEF ParserInv, Judged, FramingIsFirstOffence
  <1> QED
    BY <1>6, <1>7, <1>8, <1>9, <1>10, Zenon DEF ParserInv, Judged

LEMMA StutterStep == ParserInv /\ UNCHANGED vars => ParserInv'
  <1> SUFFICES ASSUME ParserInv, UNCHANGED vars PROVE ParserInv'
    BY Zenon
  <1>1. /\ UNCHANGED <<message, framing, body_bytes, request>>
        /\ caller' = caller /\ at' = at /\ i' = i /\ result' = result
    BY Zenon DEF vars
  <1>2. /\ request_line' = request_line /\ lines' = lines /\ (Cut' <=> Cut)
        /\ FramingVerdict' = FramingVerdict
        /\ \A n : Framed(n)' <=> Framed(n)
        /\ \A n : StoredLines(n)' <=> StoredLines(n)
    BY <1>1, SameMessage, Zenon
  <1>3. /\ content_length' = content_length /\ saw_content_length' = saw_content_length
        /\ saw_chunked' = saw_chunked /\ body_bytes' = body_bytes /\ request' = request
    BY <1>1, Zenon DEF framing
  <1>4. Types'
    BY <1>1, <1>2, <1>3, Zenon DEF ParserInv, Types
  <1>5. Framing'
    BY <1>1, <1>2, <1>3 DEF ParserInv, Framing
  <1>6. Storing'
    BY <1>1, <1>2, <1>3 DEF ParserInv, Storing
  <1>7. PassesAgree'
    BY <1>1, <1>2, <1>3 DEF ParserInv, Judged, PassesAgree
  <1>8. AcceptedIsUnambiguous'
    BY <1>1, <1>2, <1>3 DEF ParserInv, Judged, AcceptedIsUnambiguous
  <1>9. FramingIsFirstOffence'
    BY <1>1, <1>2, <1>3, Zenon DEF ParserInv, Judged, FramingIsFirstOffence
  <1> QED
    BY <1>4, <1>5, <1>6, <1>7, <1>8, <1>9, Zenon DEF ParserInv, Judged

LEMMA InitParserInv == Init => ParserInv
  <1> SUFFICES ASSUME Init PROVE ParserInv
    BY Zenon
  <1>1. PICK n \in 0..MaxLines : lines \in [1..n -> Lines]
    BY Zenon DEF Init
  <1>2. n \in Nat /\ 1..(1 - 1) = {} /\ 1 \in 1..(n + 1) /\ 0 \in Nat
    BY ParserLimits
  <1>3. Len(lines) = n /\ DOMAIN lines = 1..n
    BY <1>1, <1>2
  <1>4. NoRequest \in Requests
    BY DEF NoRequest, Requests
  <1>5. \A k \in 1..n : lines[k] \in Lines
    BY <1>1, Zenon
  <1>6. Types
    BY <1>2, <1>3, <1>4, <1>5, Zenon DEF Init, Types
  <1>7. Framed(1 - 1)
    BY <1>2, Zenon DEF Init, Framed
  <1>8. Framing /\ Storing /\ Judged
    BY <1>2, <1>3, <1>7, Zenon DEF Init, Framing, Storing, Judged, PassesAgree, AcceptedIsUnambiguous,
                                   FramingIsFirstOffence
  <1> QED
    BY <1>6, <1>8, Zenon DEF ParserInv

-----------------------------------------------------------------------------
(* The theorems.                                                           *)

\* The invariant holds at every step of every pass.
THEOREM ParserInvHolds == Spec => []ParserInv
  <1>1. ParserInv /\ [Next]_vars => ParserInv'
    BY InspectRequestLineStep, InspectRejectsStep, InspectAcceptsStep, InspectOutOfMemoryStep,
       InspectChunkedStep, ReaderCutsStep, ParseLengthsStep, ParseRequestLineStep,
       ParseRequestLineFailsStep, ParseHeaderStep, ParseHeaderFailsStep, ValidateStep,
       BodyOutOfMemoryStep, StutterStep, Zenon DEF Next, Terminated
  <1> QED
    BY <1>1, InitParserInv, PTL DEF Spec

\* For every header, the parser finds no fault with the framing of a message that the
\* reader has cut, neither in its framing pass nor among the stored fields
\* (http_parser.c:441-448, 494-523), and its body is the one the reader waited for.
THEOREM PassesAlwaysAgree == Spec => []PassesAgree
  <1>1. ParserInv => PassesAgree
    BY Zenon DEF ParserInv, Judged
  <1> QED
    BY <1>1, ParserInvHolds, PTL

\* For every header, an accepted request stores each line of it and has one length,
\* and every refusal, the failed allocations included, leaves the request as
\* http_request_init made it (http_parser.c:414-543).
THEOREM AcceptedHasOneMeaning == Spec => []AcceptedIsUnambiguous
  <1>1. ParserInv => AcceptedIsUnambiguous
    BY Zenon DEF ParserInv, Judged
  <1> QED
    BY <1>1, ParserInvHolds, PTL

\* For every header, the framing pass answers with the offence of the first line that
\* has one, and lets a message be cut exactly when none has (http_parser.c:161-259).
THEOREM VerdictIsFirstOffence == Spec => []FramingIsFirstOffence
  <1>1. ParserInv => FramingIsFirstOffence
    BY Zenon DEF ParserInv, Judged
  <1> QED
    BY <1>1, ParserInvHolds, PTL
=============================================================================
