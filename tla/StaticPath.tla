----------------------------- MODULE StaticPath -----------------------------
(***************************************************************************)
(* static_files.c, from the request target to a path under the document    *)
(* root: cut off query and fragment, decode the escapes once, resolve "."  *)
(* and ".." on a stack of segments, join; and what is later derived from   *)
(* the text of a path: confinement to the root and the MIME extension.     *)
(*                                                                         *)
(* A text is a sequence of characters.  A target is a sequence of tokens:  *)
(* a literal character, or an escape for one; the escaped character "bad"  *)
(* stands for a truncated escape or one that is not hexadecimal.           *)
(***************************************************************************)
EXTENDS Integers, Sequences, FiniteSets, SequencesExt

CONSTANTS Targets,   \* the targets a request may have
          Roots      \* the canonical document roots, as sequences of segments

Tokens == [escaped : BOOLEAN, char : STRING]

ASSUME TargetsAssumption == Targets \subseteq Seq(Tokens)

VARIABLES target, root,
          place,
          rest,        \* the path still to be handled
          segments,    \* the stack
          outcome

pathVars == <<target, root, place, rest, segments, outcome>>

Slash == "/"
Dot == <<".">>
DotDot == <<".", ".">>

PathInit ==
    /\ target \in Targets /\ root \in Roots
    /\ place = "extract"
    /\ rest = <<>> /\ segments = <<>>
    /\ outcome = "NONE"

PathReturn(r) ==
    /\ place' = "returned" /\ outcome' = r
    /\ UNCHANGED <<target, root, rest, segments>>

-----------------------------------------------------------------------------
(* path_portion, static_files_extract_path, static_files_url_decode.       *)

IsOriginForm == target # <<>> /\ ~target[1].escaped /\ target[1].char = Slash

\* Up to the first "?" or "#"; an escaped one is part of the path.
PathPortion(tokens) ==
    LET end == SelectInSeq(tokens, LAMBDA t : ~t.escaped /\ t.char \in {"?", "#"})
    IN IF end = 0 THEN tokens ELSE SubSeq(tokens, 1, end - 1)

ExtractPath ==
    /\ place = "extract" /\ IsOriginForm
    /\ place' = "decode"
    /\ rest' = PathPortion(target)
    /\ UNCHANGED <<target, root, segments, outcome>>

ExtractFails == place = "extract" /\ ~IsOriginForm /\ PathReturn("BAD_TARGET")

Decodable == \A k \in DOMAIN rest : rest[k].escaped => rest[k].char \notin {"bad", "NUL"}

\* Variant: an escaped slash does not separate.
UrlDecodeLate ==
    /\ place = "decode" /\ Decodable
    /\ place' = "normalize"
    /\ rest' = [k \in DOMAIN rest |->
                    IF rest[k].escaped /\ rest[k].char = Slash THEN "a" ELSE rest[k].char]
    /\ UNCHANGED <<target, root, segments, outcome>>

\* One pass: what an escape stands for is not looked at again.
UrlDecode ==
    /\ place = "decode" /\ Decodable
    /\ place' = "normalize"
    /\ rest' = [k \in DOMAIN rest |-> rest[k].char]
    /\ UNCHANGED <<target, root, segments, outcome>>

UrlDecodeFails == place = "decode" /\ ~Decodable /\ PathReturn("BAD_TARGET")

-----------------------------------------------------------------------------
(* static_files_normalize_path: one segment a step.  rest begins with the  *)
(* slash before the segment.                                               *)

SegmentEnd ==
    LET next == SelectInSubSeq(rest, 2, Len(rest), LAMBDA c : c = Slash)
    IN IF next = 0 THEN Len(rest) ELSE next - 1

Segment == SubSeq(rest, 2, SegmentEnd)

Normalizing == place = "normalize" /\ rest # <<>>

Advance ==
    /\ rest' = SubSeq(rest, SegmentEnd + 1, Len(rest))
    /\ UNCHANGED <<target, root, place, outcome>>

SkipSegment == Normalizing /\ Segment \in {<<>>, Dot} /\ Advance /\ UNCHANGED segments

EscapesRoot == Normalizing /\ Segment = DotDot /\ segments = <<>> /\ PathReturn("FORBIDDEN")

PopSegment ==
    /\ Normalizing /\ Segment = DotDot /\ segments # <<>>
    /\ segments' = Front(segments)
    /\ Advance

PushSegment ==
    /\ Normalizing /\ Segment \notin {<<>>, Dot, DotDot}
    /\ segments' = Append(segments, Segment)
    /\ Advance

JoinSegments == place = "normalize" /\ rest = <<>> /\ PathReturn("OK")

\* The copies of the path, of a segment and of the joined path are allocated; the
\* decoder allocates before it looks for bad escapes.
OutOfMemory ==
    /\ \/ place = "extract" /\ IsOriginForm
       \/ place = "decode"
       \/ Normalizing /\ Segment \notin {<<>>, Dot, DotDot}
       \/ place = "normalize" /\ rest = <<>>
    /\ PathReturn("OUT_OF_MEMORY")

-----------------------------------------------------------------------------
(* Texts of paths.                                                         *)

\* How realpath writes the canonical path of these segments.
Text(segs) ==
    IF segs = <<>> THEN <<Slash>>
    ELSE FlattenSeq([k \in DOMAIN segs |-> <<Slash>> \o segs[k]])

\* Variant: no separator is asked for behind the root.
PathIsWithinRootLoose(path, base) == IsPrefix(base, path)

PathIsWithinRoot(path, base) ==
    /\ IsPrefix(base, path)
    /\ Len(path) > Len(base) => path[Len(base) + 1] = Slash

\* mime_type_from_path looks up what is behind the last dot of the last segment.
Extension(path) ==
    LET base == SubSeq(path, SelectLastInSeq(path, LAMBDA c : c = Slash) + 1, Len(path))
        dot  == SelectLastInSeq(base, LAMBDA c : c = ".")
    IN IF dot \in {0, 1, Len(base)} THEN <<>> ELSE SubSeq(base, dot + 1, Len(base))

-----------------------------------------------------------------------------

PathTerminated == place = "returned" /\ UNCHANGED pathVars

PathNext ==
    \/ ExtractPath \/ ExtractFails \/ UrlDecode \/ UrlDecodeFails
    \/ SkipSegment \/ EscapesRoot \/ PopSegment \/ PushSegment \/ JoinSegments
    \/ OutOfMemory \/ PathTerminated

PathSpec == PathInit /\ [][PathNext]_pathVars

-----------------------------------------------------------------------------
(* Properties.                                                             *)

\* A reference for the normalisation, without a stack: walk the segments and keep
\* count of the depth.  A segment is part of the result when it is a name and the
\* walk never comes back above it.
Decoded == [k \in DOMAIN PathPortion(target) |-> PathPortion(target)[k].char]

Starts == {k \in DOMAIN Decoded : Decoded[k] = Slash}

SegmentAt(s) ==
    LET later == {t \in Starts : t > s}
        end == IF later = {} THEN Len(Decoded) ELSE CHOOSE e \in {t - 1 : t \in later} :
                                                        \A t \in later : e < t
    IN SubSeq(Decoded, s + 1, end)

Walk(s) == {t \in Starts : t <= s}
Names(S) == {s \in S : SegmentAt(s) \notin {<<>>, Dot, DotDot}}
Ups(S) == {s \in S : SegmentAt(s) = DotDot}
Depth(s) == Cardinality(Names(Walk(s))) - Cardinality(Ups(Walk(s)))

LeavesRoot == \E s \in Starts : Depth(s) < 0

Kept == {s \in Names(Starts) : \A t \in Starts : t > s => Depth(t) >= Depth(s)}

\* The stack holds the segments that begin at S, in their order.
Holds(stack, S) ==
    \E order \in [1..Len(stack) -> S] :
        /\ \A s \in S : \E k \in 1..Len(stack) : order[k] = s
        /\ \A j, k \in 1..Len(stack) : j < k => order[j] < order[k]
        /\ \A k \in 1..Len(stack) : stack[k] = SegmentAt(order[k])

\* A target is normalised to the place its walk ends at, and is forbidden exactly
\* when the walk leaves the root on the way, wherever it comes back to; segments
\* that come out of escapes count like literal ones.
NormalizesToWalk ==
    /\ outcome = "OK" => ~LeavesRoot /\ Holds(segments, Kept)
    /\ outcome = "FORBIDDEN" => LeavesRoot

\* What is decided on the text of a path is what its segments say.  For
\* path_is_within_root, with every normalised path as the canonical path of a file
\* and every root but "/": the path is the root or below it.  For the MIME type: it
\* depends on the name of the file only, never on a dot in a directory above it or
\* in the document root.
TextMatchesSegments ==
    outcome = "OK" =>
        /\ root # <<>> =>
             (PathIsWithinRoot(Text(segments), Text(root)) <=> IsPrefix(root, segments))
        /\ segments # <<>> =>
             Extension(Text(root \o segments)) = Extension(Last(segments))

\* path_is_within_root finds the root and every path under it, whatever the root
\* (static_files.c: "exactly `root` or a path under `root`").
WithinRootIsBelow ==
    outcome = "OK" =>
        (PathIsWithinRoot(Text(segments), Text(root)) <=> IsPrefix(root, segments))
=============================================================================
