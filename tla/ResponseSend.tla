---------------------------- MODULE ResponseSend ----------------------------
(***************************************************************************)
(* http_response_send (src/src/http_response.c) over send_all (utils.c):   *)
(* the headers, then a body from memory or from a file, the file by        *)
(* sendfile or, where the kernel refuses that, by reading and sending      *)
(* chunks.  Every system call may be short, interrupted or fail, and the   *)
(* file may grow or shrink while it is sent.                               *)
(*                                                                         *)
(* A byte is named by its place: <<"header", i>>, or <<"body", i>> for the *)
(* i-th byte of the body.  An interrupted call (EINTR) is repeated and is  *)
(* a step that changes nothing.                                            *)
(***************************************************************************)
EXTENDS Integers, Sequences

CONSTANTS HeaderBytes,   \* length of the serialized headers
          MaxBody,       \* bound: size of a body
          MaxFile,       \* bound: size a file may grow to
          Chunk          \* HTTP_STATIC_SEND_CHUNK

ASSUME SizesAssumption ==
    /\ HeaderBytes \in Nat \ {0} /\ Chunk \in Nat \ {0}
    /\ MaxBody \in Nat /\ MaxFile \in Nat /\ MaxBody <= MaxFile

VARIABLES body_kind, omit_body,
          length,      \* body_length, which Content-Length announces
          file_size,   \* what the file's size is now
          file_pos,    \* the file position read uses
          stage,
          out,         \* what send_all has still to send
          offset, remaining,
          nr,          \* bytes in the chunk
          wire,        \* what was handed to the socket
          result       \* what the call returned; 1 until it returns

response == <<body_kind, omit_body, length>>
sendVars == <<response, file_size, file_pos, stage, out, offset, remaining, nr, wire, result>>

Bytes(part, from, n) == [i \in 1..n |-> <<part, from + i - 1>>]
Min(a, b) == IF a < b THEN a ELSE b

\* A response as its constructors leave it; a file has the length fstat found.
SendInit ==
    /\ body_kind \in {"NONE", "MEMORY", "FILE"}
    /\ omit_body \in BOOLEAN
    /\ length \in IF body_kind = "NONE" THEN {0} ELSE 0..MaxBody
    /\ file_size = length
    /\ file_pos = 0
    /\ stage = "call"
    /\ out = <<>>
    /\ offset = 0 /\ remaining = 0 /\ nr = 0
    /\ wire = <<>>
    /\ result = 1

Return(r) ==
    /\ stage' = "returned"
    /\ result' = r
    /\ UNCHANGED <<response, file_size, file_pos, out, offset, remaining, nr, wire>>

\* The file is written or truncated by somebody else.
FileChanges ==
    /\ body_kind = "FILE" /\ stage # "returned"
    /\ file_size' \in 0..MaxFile
    /\ UNCHANGED <<response, file_pos, stage, out, offset, remaining, nr, wire, result>>

-----------------------------------------------------------------------------
(* The headers, and send_all.                                              *)

SerializeHeaders ==
    /\ stage = "call"
    /\ stage' = "header"
    /\ out' = Bytes("header", 0, HeaderBytes)
    /\ UNCHANGED <<response, file_size, file_pos, offset, remaining, nr, wire, result>>

SerializeFails == stage = "call" /\ Return(-1)

\* One send inside send_all takes n of the bytes that are left.
SendAll(n) ==
    /\ stage # "returned"
    /\ n \in 1..Len(out)
    /\ wire' = wire \o SubSeq(out, 1, n)
    /\ out' = SubSeq(out, n + 1, Len(out))
    /\ UNCHANGED <<response, file_size, file_pos, stage, offset, remaining, nr, result>>

\* send failed or took nothing.
SendAllFails == stage # "returned" /\ out # <<>> /\ Return(-1)

-----------------------------------------------------------------------------
(* The body.                                                               *)

HasBody == ~omit_body /\ body_kind # "NONE" /\ length > 0

SendNoBody == stage = "header" /\ out = <<>> /\ ~HasBody /\ Return(0)

SendMemoryBody ==
    /\ stage = "header" /\ out = <<>>
    /\ HasBody /\ body_kind = "MEMORY"
    /\ stage' = "memory"
    /\ out' = Bytes("body", 0, length)
    /\ UNCHANGED <<response, file_size, file_pos, offset, remaining, nr, wire, result>>

MemoryBodySent == stage = "memory" /\ out = <<>> /\ Return(0)

SendFileBody ==
    /\ stage = "header" /\ out = <<>>
    /\ HasBody /\ body_kind = "FILE"
    /\ stage' = "sendfile"
    /\ offset' = 0 /\ remaining' = length
    /\ UNCHANGED <<response, file_size, file_pos, out, nr, wire, result>>

\* sendfile moves n bytes and advances offset; the file position stays.
Sendfile(n) ==
    /\ stage = "sendfile"
    /\ n \in 1..Min(remaining, file_size - offset)
    /\ wire' = wire \o Bytes("body", offset, n)
    /\ offset' = offset + n
    /\ remaining' = length - offset'
    /\ UNCHANGED <<response, file_size, file_pos, stage, out, nr, result>>

\* Variant: a file that has become too short is tried again.
SendfileEofRetried ==
    /\ stage = "sendfile" /\ remaining > 0 /\ offset >= file_size
    /\ UNCHANGED sendVars

\* sendfile returned 0: the file ends before Content-Length.
SendfileEof == stage = "sendfile" /\ remaining > 0 /\ offset >= file_size /\ Return(-1)

\* Any other error, or lseek failed on the way to the fallback.
SendfileFails == stage = "sendfile" /\ remaining > 0 /\ Return(-1)

SendfileDone == stage = "sendfile" /\ remaining = 0 /\ Return(0)

\* Variant: the fallback is taken wherever sendfile gives up, from where the
\* file position happens to be.
FallBackUnseeked ==
    /\ stage = "sendfile" /\ remaining > 0
    /\ stage' = "read"
    /\ UNCHANGED <<response, file_size, file_pos, out, offset, remaining, nr, wire, result>>

\* EINVAL or ENOSYS, and only before the first byte: seek to offset and read.
FallBack ==
    /\ stage = "sendfile" /\ remaining > 0
    /\ offset = 0
    /\ stage' = "read"
    /\ file_pos' = offset
    /\ UNCHANGED <<response, file_size, out, offset, remaining, nr, wire, result>>

ReadChunk(n) ==
    /\ stage = "read"
    /\ n \in 1..Min(Min(remaining, Chunk), file_size - file_pos)
    /\ stage' = "chunk"
    /\ nr' = n
    /\ out' = Bytes("body", file_pos, n)
    /\ file_pos' = file_pos + n
    /\ UNCHANGED <<response, file_size, offset, remaining, wire, result>>

ReadEof   == stage = "read" /\ remaining > 0 /\ file_pos >= file_size /\ Return(-1)
ReadFails == stage = "read" /\ remaining > 0 /\ Return(-1)
ReadDone  == stage = "read" /\ remaining = 0 /\ Return(0)

\* Variant: counts what was asked for instead of what was read.
ChunkSentWanted ==
    /\ stage = "chunk" /\ out = <<>>
    /\ stage' = "read"
    /\ remaining' = remaining - Min(remaining, Chunk)
    /\ UNCHANGED <<response, file_size, file_pos, out, offset, nr, wire, result>>

ChunkSent ==
    /\ stage = "chunk" /\ out = <<>>
    /\ stage' = "read"
    /\ remaining' = remaining - nr
    /\ UNCHANGED <<response, file_size, file_pos, out, offset, nr, wire, result>>

-----------------------------------------------------------------------------

\* What the call does when its system calls succeed, and at the end of a file.
Progress ==
    \/ SerializeHeaders
    \/ \E n \in 1..(HeaderBytes + MaxBody) : SendAll(n)
    \/ SendNoBody \/ SendMemoryBody \/ MemoryBodySent \/ SendFileBody
    \/ \E n \in 1..MaxBody : Sendfile(n) \/ ReadChunk(n)
    \/ SendfileEof \/ SendfileDone \/ ReadEof \/ ReadDone \/ ChunkSent

Failure ==
    \/ SerializeFails \/ SendAllFails \/ SendfileFails \/ ReadFails
    \/ FallBack

Terminated == stage = "returned" /\ UNCHANGED sendVars

SendNext == Progress \/ Failure \/ FileChanges \/ Terminated

SendSpec == SendInit /\ [][SendNext]_sendVars

\* The client takes what it is sent; nothing makes a system call fail.
FairSendSpec == SendSpec /\ WF_sendVars(Progress)

-----------------------------------------------------------------------------
(* Properties.                                                             *)

\* What the headers announce: themselves and Content-Length bytes of body.
Message == Bytes("header", 0, HeaderBytes) \o Bytes("body", 0, IF omit_body THEN 0 ELSE length)

\* What has reached the socket is at every instant the beginning of the message:
\* no byte is lost, repeated or out of order and none goes beyond Content-Length,
\* over short sends, the fallback and a file that changes; after HEAD no body byte.
WireInOrder ==
    Len(wire) <= Len(Message) /\ wire = SubSeq(Message, 1, Len(wire))

\* http_response_send returns 0 only when the whole message was sent, so the next
\* response on the connection starts where the client expects it.
CompleteOnSuccess == result = 0 => wire = Message

\* A call that has begun returns when the client reads, also when the file is cut
\* short or keeps changing: no loop waits for bytes the file no longer has.
SendReturns == (stage # "call") ~> (stage = "returned")
=============================================================================
