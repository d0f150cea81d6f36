--------------------------- MODULE StaticPathProofs ---------------------------
(***************************************************************************)
(* For targets of any length and any characters: the normalisation of      *)
(* static_files.c ends where a walk along the segments ends; it accepts    *)
(* only walks that stay below the root and forbids only those that do not. *)
(***************************************************************************)
EXTENDS StaticPath, FiniteSetTheorems, TLAPS

-----------------------------------------------------------------------------
(* Sequences and sets of natural numbers.                                  *)

\* What a sequence is.
LEMMA SequenceFacts ==
    ASSUME NEW S, NEW q \in Seq(S)
    PROVE  /\ Len(q) \in Nat /\ DOMAIN q = 1..Len(q) /\ q \in [1..Len(q) -> S]
           /\ \A i \in 1..Len(q) : q[i] \in S
  OBVIOUS

\* A function on 1..n is a sequence of length n.
LEMMA SequenceIs ==
    ASSUME NEW S, NEW n \in Nat, NEW f \in [1..n -> S]
    PROVE  f \in Seq(S) /\ Len(f) = n
  OBVIOUS

\* A part of a sequence.
LEMMA SubSeqFacts ==
    ASSUME NEW S, NEW q \in Seq(S), NEW m \in Nat \ {0}, NEW n \in 0..Len(q), m <= n + 1
    PROVE  /\ SubSeq(q, m, n) \in Seq(S) /\ Len(SubSeq(q, m, n)) = n - m + 1
           /\ \A i \in 1..(n - m + 1) : SubSeq(q, m, n)[i] = q[m + i - 1]
  OBVIOUS

\* A sequence without its last element.
LEMMA FrontFacts ==
    ASSUME NEW S, NEW q \in Seq(S), q # <<>>
    PROVE  /\ Front(q) \in Seq(S) /\ Len(Front(q)) = Len(q) - 1
           /\ \A k \in 1..(Len(q) - 1) : Front(q)[k] = q[k]
  BY DEF Front

\* Sequences with the same elements are equal.
LEMMA SameSequence ==
    ASSUME NEW S, NEW p \in Seq(S), NEW q \in Seq(S),
           Len(p) = Len(q), \A i \in 1..Len(p) : p[i] = q[i]
    PROVE  p = q
  OBVIOUS

\* A part of a part of a sequence.
LEMMA PartOfPart ==
    ASSUME NEW S, NEW q \in Seq(S), NEW a \in 1..Len(q), NEW m \in Nat \ {0},
           NEW n \in 0..(Len(q) - a + 1), m <= n + 1
    PROVE  SubSeq(SubSeq(q, a, Len(q)), m, n) = SubSeq(q, a + m - 1, a + n - 1)
  <1> DEFINE r == SubSeq(q, a, Len(q))
             x == SubSeq(r, m, n)
             y == SubSeq(q, a + m - 1, a + n - 1)
  <1>0. Len(q) \in Nat
    BY SequenceFacts, Zenon
  <1>1. /\ r \in Seq(S) /\ Len(r) = Len(q) - a + 1
        /\ \A i \in 1..(Len(q) - a + 1) : r[i] = q[a + i - 1]
    <2>1. a \in Nat \ {0} /\ Len(q) \in 0..Len(q) /\ a <= Len(q) + 1
      BY <1>0, SMTT(60)
    <2> QED
      BY <2>1, SubSeqFacts, ZenonT(60)
  <1> HIDE DEF r
  <1>2. /\ x \in Seq(S) /\ Len(x) = n - m + 1
        /\ \A i \in 1..(n - m + 1) : x[i] = r[m + i - 1]
    <2>1. n \in 0..Len(r)
      BY <1>1, Zenon
    <2> QED
      BY <1>1, <2>1, SubSeqFacts, ZenonT(60)
  <1>3. /\ y \in Seq(S) /\ Len(y) = (a + n - 1) - (a + m - 1) + 1
        /\ \A i \in 1..((a + n - 1) - (a + m - 1) + 1) : y[i] = q[(a + m - 1) + i - 1]
    <2>1. a + m - 1 \in Nat \ {0} /\ a + n - 1 \in 0..Len(q) /\ a + m - 1 <= (a + n - 1) + 1
      BY <1>0, SMTT(60)
    <2> QED
      BY <2>1, SubSeqFacts, ZenonT(60)
  <1> HIDE DEF x, y
  <1>4. Len(x) = Len(y) /\ \A i \in 1..Len(x) : x[i] = y[i]
    BY <1>0, <1>1, <1>2, <1>3, SMTT(60)
  <1>5. x = y
    BY <1>2, <1>3, <1>4, SameSequence, Zenon
  <1> QED
    BY <1>5, Zenon DEF x, y, r

\* A set of natural numbers has a minimum.
LEMMA MinOf ==
    ASSUME NEW S, S \subseteq Nat, S # {}
    PROVE  Min(S) \in S /\ \A x \in S : Min(S) <= x
  <1> DEFINE R == {x \in Nat \X Nat : x[1] < x[2]}
  <1>1. IsWellFoundedOn(R, Nat)
    BY NatLessThanWellFounded, Zenon DEF OpToRel
  <1>2. PICK x \in S : \A y \in S : ~ (<<y, x>> \in R)
    <2> HIDE DEF R
    <2> QED
      BY <1>1, WFMin, Zenon
  <1>3. ASSUME NEW y \in S PROVE x <= y
    <2>1. x \in Nat /\ y \in Nat
      BY Zenon
    <2>2. y < x => <<y, x>> \in R
      BY <2>1, SMTT(60)
    <2>3. ~(y < x)
      BY <1>2, <2>2, Zenon
    <2> QED
      BY <2>1, <2>3, SMTT(60)
  <1> QED
    BY <1>3, Zenon DEF Min

-----------------------------------------------------------------------------
(* The decoded path.                                                       *)

\* The path is a text, and that of a target in origin form begins with a slash.
LEMMA PathFacts ==
    ASSUME target \in Seq(Tokens)
    PROVE  /\ PathPortion(target) \in Seq(Tokens) /\ Decoded \in Seq(STRING)
           /\ Len(Decoded) = Len(PathPortion(target))
           /\ IsOriginForm => Len(Decoded) > 0 /\ Decoded[1] = Slash
  <1> DEFINE cuts == {k \in 1..Len(target) : ~target[k].escaped /\ target[k].char \in {"?", "#"}}
             end == IF cuts # {} THEN Min(cuts) ELSE 0
  <1>1. PathPortion(target) = IF end = 0 THEN target ELSE SubSeq(target, 1, end - 1)
    BY Zenon DEF PathPortion, SelectInSeq
  <1>2. end \in 0..Len(target) /\ (end # 0 => end \in cuts)
    <2>1. CASE cuts = {}
      BY <2>1, SequenceFacts
    <2>2. CASE cuts # {}
      <3>1. cuts \subseteq Nat
        BY SequenceFacts
      <3>2. Min(cuts) \in cuts
        <4> HIDE DEF cuts
        <4> QED
          BY <2>2, <3>1, MinOf, Zenon
      <3>3. end = Min(cuts) /\ cuts \subseteq 0..Len(target)
        BY <2>2, SequenceFacts
      <3> QED
        BY <3>2, <3>3, Zenon
    <2> QED
      BY <2>1, <2>2, Zenon
  <1>3. end = 1 => ~IsOriginForm
    BY <1>2 DEF IsOriginForm, Slash
  <1> HIDE DEF end
  <1>4. PathPortion(target) \in Seq(Tokens)
    BY <1>1, <1>2, SubSeqFacts
  <1>5. IsOriginForm => Len(PathPortion(target)) > 0 /\ PathPortion(target)[1] = target[1]
    BY <1>1, <1>2, <1>3, SubSeqFacts DEF IsOriginForm
  <1> DEFINE path == PathPortion(target)
  <1>6. Decoded = [k \in DOMAIN path |-> path[k].char]
    BY Zenon DEF Decoded
  <1> HIDE DEF path
  <1>7. path \in Seq(Tokens)
    BY <1>4, Zenon DEF path
  <1>8. Decoded \in Seq(STRING) /\ Len(Decoded) = Len(path) /\ \A k \in 1..Len(path) : Decoded[k] = path[k].char
    <2>1. Len(path) \in Nat /\ DOMAIN path = 1..Len(path) /\ \A k \in 1..Len(path) : path[k] \in Tokens
      BY <1>7, SequenceFacts, Zenon
    <2>2. \A k \in 1..Len(path) : path[k].char \in STRING
      BY <2>1, Zenon DEF Tokens
    <2>3. Decoded = [k \in 1..Len(path) |-> path[k].char]
      BY <1>6, <2>1, Zenon
    <2>4. Decoded \in [1..Len(path) -> STRING] /\ \A k \in 1..Len(path) : Decoded[k] = path[k].char
      BY <2>2, <2>3, Zenon
    <2> QED
      BY <2>1, <2>4, SequenceIs, Zenon
  <1> QED
    BY <1>4, <1>5, <1>8 DEF path, IsOriginForm

-----------------------------------------------------------------------------
(* One segment.                                                            *)

\* The starts of segments before a position.
Before(p) == {s \in Starts : s < p}

\* A segment reaches to the next start of one, q, or to the end of the path.
LEMMA SegmentFrom ==
    ASSUME target \in Seq(Tokens), NEW p \in Starts, NEW q \in Nat,
           p < q, q <= Len(Decoded) + 1, q <= Len(Decoded) => q \in Starts,
           \A t \in Starts : p < t => q <= t
    PROVE  /\ SegmentAt(p) = SubSeq(Decoded, p + 1, q - 1) /\ SegmentAt(p) \in Seq(STRING)
           /\ Before(q) = Before(p) \cup {p} /\ Before(q) = Walk(p)
  <1> DEFINE later == {t \in Starts : t > p}
             last == CHOOSE e \in {t - 1 : t \in later} : \A t \in later : e < t
  <1>0. /\ Decoded \in Seq(STRING) /\ Len(Decoded) \in Nat
        /\ Starts \subseteq 1..Len(Decoded) /\ Starts \subseteq Nat
    <2>1. Decoded \in Seq(STRING)
      BY PathFacts, Zenon
    <2>2. Len(Decoded) \in Nat /\ DOMAIN Decoded = 1..Len(Decoded)
      BY <2>1, SequenceFacts, Zenon
    <2>3. Starts \subseteq 1..Len(Decoded)
      BY <2>2, Zenon DEF Starts
    <2>4. 1..Len(Decoded) \subseteq Nat
      BY <2>2, SMTT(60)
    <2> QED
      BY <2>1, <2>2, <2>3, <2>4, Zenon
  <1>1. (later = {} => q = Len(Decoded) + 1) /\ (later # {} => q \in later)
    <2>1. q = Len(Decoded) + 1 \/ q <= Len(Decoded)
      BY <1>0, SMTT(60)
    <2>2. ASSUME q = Len(Decoded) + 1, NEW t \in later PROVE FALSE
      <3>1. t \in 1..Len(Decoded) /\ q <= t
        BY <1>0, <2>2, Zenon
      <3> QED
        BY <1>0, <2>2, <3>1, SMTT(60)
    <2>3. q <= Len(Decoded) => q \in later
      <3>1. q > p
        BY <1>0, SMTT(60)
      <3> QED
        BY <3>1, Zenon
    <2> QED
      BY <2>1, <2>2, <2>3, Zenon
  <1>2. SegmentAt(p) = SubSeq(Decoded, p + 1, IF later = {} THEN Len(Decoded) ELSE last)
    BY Zenon DEF SegmentAt
  <1>3. later # {} => last = q - 1
    <2> SUFFICES ASSUME later # {} PROVE last = q - 1
      BY Zenon
    <2>1. q - 1 \in {t - 1 : t \in later} /\ \A t \in later : q - 1 < t
      BY <1>0, <1>1, SMTT(60)
    <2>2. last \in {t - 1 : t \in later} /\ \A t \in later : last < t
      BY <2>1, Zenon
    <2>3. PICK t \in later : last = t - 1
      BY <2>2, Zenon
    <2>4. t \in Nat /\ q \in later /\ q <= t /\ last < q
      BY <1>0, <1>1, <2>2, Zenon
    <2> HIDE DEF last
    <2> QED
      BY <2>3, <2>4, SMTT(60)
  <1>4. SegmentAt(p) = SubSeq(Decoded, p + 1, q - 1)
    <2>1. CASE later = {}
      <3>1. Len(Decoded) = q - 1
        BY <1>0, <1>1, <2>1, SMTT(60)
      <3> QED
        BY <1>2, <2>1, <3>1, Zenon
    <2>2. CASE later # {}
      BY <1>2, <1>3, <2>2, Zenon
    <2> QED
      BY <2>1, <2>2, Zenon
  <1>5. SubSeq(Decoded, p + 1, q - 1) \in Seq(STRING)
    <2>1. p + 1 \in Nat \ {0} /\ q - 1 \in 0..Len(Decoded) /\ p + 1 <= (q - 1) + 1
      BY <1>0, SMTT(60)
    <2> QED
      BY <1>0, <2>1, SubSeqFacts, ZenonT(60)
  <1>6. ASSUME NEW s \in Starts PROVE (s < q <=> s <= p) /\ (s <= p <=> (s < p \/ s = p))
    BY <1>0, <1>6, SMTT(60)
  <1> QED
    BY <1>4, <1>5, <1>6, Zenon DEF Before, Walk

\* SegmentEnd finds the next start of a segment.
LEMMA NextSegment ==
    ASSUME target \in Seq(Tokens), NEW p \in Starts, rest = SubSeq(Decoded, p, Len(Decoded))
    PROVE  \E q \in 1..(Len(Decoded) + 1) :
              /\ q <= Len(Decoded) => q \in Starts
              /\ Before(q) = Before(p) \cup {p} /\ Before(q) = Walk(p)
              /\ Segment = SegmentAt(p) /\ SegmentAt(p) \in Seq(STRING)
              /\ SubSeq(rest, SegmentEnd + 1, Len(rest)) = SubSeq(Decoded, q, Len(Decoded))
  <1> DEFINE n == Len(Decoded)
             slashes == {i \in 2..Len(rest) : rest[i] = Slash}
             next == IF slashes # {} THEN Min(slashes) ELSE 0
             q == p + SegmentEnd
  <1>1. SegmentEnd = IF next = 0 THEN Len(rest) ELSE next - 1
    BY Zenon DEF SegmentEnd, SelectInSubSeq
  <1>2. Decoded \in Seq(STRING) /\ n \in Nat /\ p \in 1..n
    <2>1. Decoded \in Seq(STRING)
      BY PathFacts, Zenon
    <2>2. n \in Nat /\ DOMAIN Decoded = 1..n
      BY <2>1, SequenceFacts, Zenon
    <2> QED
      BY <2>1, <2>2, Zenon DEF Starts
  <1>3. rest \in Seq(STRING) /\ Len(rest) = n - p + 1 /\ \A i \in 1..(n - p + 1) : rest[i] = Decoded[p + i - 1]
    <2>1. p \in Nat \ {0} /\ n \in 0..n /\ p <= n + 1
      BY <1>2, SMTT(60)
    <2> QED
      BY <1>2, <2>1, SubSeqFacts, ZenonT(60)
  <1>4. slashes # {} => next \in slashes /\ \A i \in slashes : next <= i
    <2> SUFFICES ASSUME slashes # {} PROVE next \in slashes /\ \A i \in slashes : next <= i
      BY Zenon
    <2>1. slashes \subseteq Nat
      BY <1>2, <1>3, SMTT(60)
    <2>2. next = Min(slashes)
      BY Zenon
    <2> HIDE DEF slashes, next
    <2> QED
      BY <2>1, <2>2, MinOf, Zenon
  <1>5. \A t \in Starts : t \in 1..n /\ Decoded[t] = Slash
    BY <1>2, SequenceFacts, Zenon DEF Starts
  <1>6. \A t \in 1..n : Decoded[t] = Slash => t \in Starts
    BY <1>2, SequenceFacts, Zenon DEF Starts
  <1>7. /\ SegmentEnd \in 1..Len(rest) /\ q \in Nat /\ p < q /\ q <= n + 1 /\ (q <= n => Decoded[q] = Slash)
        /\ \A t \in Starts : p < t => q <= t
    <2>1. CASE slashes = {}
      <3>1. SegmentEnd = n - p + 1
        BY <1>1, <1>3, <2>1, Zenon
      <3>2. ASSUME NEW t \in Starts, p < t PROVE FALSE
        <4>1. t - p + 1 \in 2..Len(rest) /\ rest[t - p + 1] = Decoded[t]
          BY <1>2, <1>3, <1>5, <3>2, SMTT(60)
        <4> QED
          BY <1>5, <2>1, <4>1, Zenon
      <3> QED
        BY <1>2, <1>3, <3>1, <3>2, SMTT(60)
    <2>2. CASE slashes # {}
      <3>1. next \in 2..Len(rest) /\ rest[next] = Slash
        BY <1>4, <2>2, Zenon
      <3>2. \A i \in 2..Len(rest) : rest[i] = Slash => next <= i
        BY <1>4, <2>2, Zenon
      <3> HIDE DEF next
      <3>3. SegmentEnd = next - 1
        BY <1>1, <1>2, <1>3, <3>1, SMTT(60)
      <3>4. ASSUME NEW t \in Starts, p < t PROVE q <= t
        <4>1. t - p + 1 \in 2..Len(rest) /\ rest[t - p + 1] = Decoded[t]
          BY <1>2, <1>3, <1>5, <3>4, SMTT(60)
        <4>2. next <= t - p + 1
          BY <1>5, <3>2, <4>1, Zenon
        <4> QED
          BY <1>2, <1>3, <1>5, <3>1, <3>3, <4>2, SMTT(60)
      <3>5. Decoded[q] = Slash
        BY <1>2, <1>3, <3>1, <3>3, SMTT(60)
      <3> QED
        BY <1>2, <1>3, <3>1, <3>3, <3>4, <3>5, SMTT(60)
    <2> QED
      BY <2>1, <2>2, Zenon
  <1> HIDE DEF slashes, next, q
  <1>8. q <= n => q \in Starts
    BY <1>2, <1>6, <1>7, SMTT(60)
  <1>9. /\ SegmentAt(p) = SubSeq(Decoded, p + 1, q - 1) /\ SegmentAt(p) \in Seq(STRING)
        /\ Before(q) = Before(p) \cup {p} /\ Before(q) = Walk(p)
    BY <1>7, <1>8, SegmentFrom, Zenon
  <1>10. Segment = SubSeq(Decoded, p + 2 - 1, p + SegmentEnd - 1)
    <2>1. 2 \in Nat \ {0} /\ SegmentEnd \in 0..(Len(Decoded) - p + 1) /\ 2 <= SegmentEnd + 1
      BY <1>2, <1>3, <1>7, SMTT(60)
    <2>2. SubSeq(SubSeq(Decoded, p, Len(Decoded)), 2, SegmentEnd) = SubSeq(Decoded, p + 2 - 1, p + SegmentEnd - 1)
      BY <1>2, <2>1, PartOfPart, ZenonT(60)
    <2> QED
      BY <2>2, Zenon DEF Segment
  <1>11. Segment = SegmentAt(p)
    <2>1. p + 2 - 1 = p + 1
      BY <1>2, SMTT(60)
    <2>2. p + SegmentEnd - 1 = q - 1
      BY <1>2, <1>3, <1>7, SMTT(60) DEF q
    <2> QED
      BY <1>9, <1>10, <2>1, <2>2, Zenon
  <1>12. SubSeq(rest, SegmentEnd + 1, Len(rest)) = SubSeq(Decoded, q, Len(Decoded))
    <2>1. /\ SegmentEnd + 1 \in Nat \ {0} /\ Len(rest) \in 0..(Len(Decoded) - p + 1)
          /\ SegmentEnd + 1 <= Len(rest) + 1
      BY <1>2, <1>3, <1>7, SMTT(60)
    <2>2. SubSeq(SubSeq(Decoded, p, Len(Decoded)), SegmentEnd + 1, Len(rest))
            = SubSeq(Decoded, p + (SegmentEnd + 1) - 1, p + Len(rest) - 1)
      BY <1>2, <2>1, PartOfPart, ZenonT(60)
    <2>3. p + (SegmentEnd + 1) - 1 = q /\ p + Len(rest) - 1 = Len(Decoded)
      BY <1>2, <1>3, <1>7, SMTT(60) DEF q
    <2> QED
      BY <2>2, <2>3, Zenon
  <1>13. q \in 1..(Len(Decoded) + 1)
    BY <1>2, <1>7, SMTT(60)
  <1> QED
    BY <1>8, <1>9, <1>11, <1>12, <1>13, Zenon

-----------------------------------------------------------------------------
(* The depth of the walk, and the stack.                                   *)

DepthOf(S) == Cardinality(Names(S)) - Cardinality(Ups(S))

\* The starts of segments are positions of the path.
LEMMA StartsAreFinite ==
    ASSUME target \in Seq(Tokens)
    PROVE  IsFiniteSet(Starts) /\ Starts \subseteq Nat /\ Starts \subseteq 1..Len(Decoded)
  <1>1. Len(Decoded) \in Nat /\ DOMAIN Decoded = 1..Len(Decoded)
    <2>1. Decoded \in Seq(STRING)
      BY PathFacts, Zenon
    <2> QED
      BY <2>1, SequenceFacts, Zenon
  <1>2. 1 \in Int /\ Len(Decoded) \in Int /\ 1..Len(Decoded) \subseteq Nat
    BY <1>1, SMTT(60)
  <1>3. IsFiniteSet(1..Len(Decoded))
    BY <1>2, FS_Interval, Zenon
  <1>4. Starts \subseteq 1..Len(Decoded)
    BY <1>1, Zenon DEF Starts
  <1>5. IsFiniteSet(Starts)
    BY <1>3, <1>4, FS_Subset, Zenon
  <1>6. Starts \subseteq Nat
    BY <1>2, <1>4, Zenon
  <1> QED
    BY <1>4, <1>5, <1>6, Zenon

\* A name adds one to the depth, ".." takes one off, and nothing else counts.
LEMMA DepthGrows ==
    ASSUME NEW S, IsFiniteSet(S), NEW p, p \notin S
    PROVE  /\ DepthOf(S) \in Int /\ DepthOf(S \cup {p}) \in Int
           /\ SegmentAt(p) \in {<<>>, Dot} => DepthOf(S \cup {p}) = DepthOf(S)
           /\ SegmentAt(p) = DotDot => DepthOf(S \cup {p}) = DepthOf(S) - 1
           /\ SegmentAt(p) \notin {<<>>, Dot, DotDot} => DepthOf(S \cup {p}) = DepthOf(S) + 1
  <1> DEFINE cn == Cardinality(Names(S))
             cu == Cardinality(Ups(S))
             T == S \cup {p}
  <1>1. Names(S) \subseteq S /\ Ups(S) \subseteq S
    BY Zenon DEF Names, Ups
  <1>2. IsFiniteSet(Names(S)) /\ IsFiniteSet(Ups(S))
    BY <1>1, FS_Subset, Zenon
  <1>3. cn \in Nat /\ cu \in Nat
    BY <1>2, FS_CardinalityType, Zenon
  <1>4. p \notin Names(S) /\ p \notin Ups(S)
    BY <1>1, Zenon
  <1>5. Cardinality(Names(S) \cup {p}) = cn + 1 /\ Cardinality(Ups(S) \cup {p}) = cu + 1
    BY <1>2, <1>4, FS_AddElement, Zenon
  <1>6. DotDot # <<>> /\ DotDot # Dot
    BY SMTT(60) DEF DotDot, Dot
  <1>7. SegmentAt(p) \in {<<>>, Dot} => Names(T) = Names(S) /\ Ups(T) = Ups(S)
    BY <1>6, Zenon DEF Names, Ups
  <1>8. SegmentAt(p) = DotDot => Names(T) = Names(S) /\ Ups(T) = Ups(S) \cup {p}
    <2> SUFFICES ASSUME SegmentAt(p) = DotDot
                 PROVE  Names(T) = Names(S) /\ Ups(T) = Ups(S) \cup {p}
      BY Zenon
    <2>1. ASSUME NEW x PROVE x \in Names(T) <=> x \in Names(S)
      BY Zenon DEF Names
    <2>2. ASSUME NEW x PROVE x \in Ups(T) <=> x \in Ups(S) \cup {p}
      BY Zenon DEF Ups
    <2> QED
      BY <2>1, <2>2, Zenon
  <1>9. SegmentAt(p) \notin {<<>>, Dot, DotDot} => Names(T) = Names(S) \cup {p} /\ Ups(T) = Ups(S)
    BY Zenon DEF Names, Ups
  <1>10. DepthOf(S) = cn - cu
    BY Zenon DEF DepthOf
  <1>11. DepthOf(T) = Cardinality(Names(T)) - Cardinality(Ups(T))
    BY Zenon DEF DepthOf
  <1>12. SegmentAt(p) \in {<<>>, Dot} => DepthOf(T) = cn - cu
    BY <1>7, <1>11, Zenon
  <1>13. SegmentAt(p) = DotDot => DepthOf(T) = cn - (cu + 1)
    BY <1>5, <1>8, <1>11, Zenon
  <1>14. SegmentAt(p) \notin {<<>>, Dot, DotDot} => DepthOf(T) = (cn + 1) - cu
    BY <1>5, <1>9, <1>11, Zenon
  <1> HIDE DEF cn, cu, T
  <1>15. /\ DepthOf(S) \in Int /\ cn - cu \in Int /\ cn - (cu + 1) = DepthOf(S) - 1
         /\ (cn + 1) - cu = DepthOf(S) + 1 /\ DepthOf(S) - 1 \in Int /\ DepthOf(S) + 1 \in Int
    BY <1>3, <1>10, SMTT(60)
  <1>16. \/ SegmentAt(p) \in {<<>>, Dot} \/ SegmentAt(p) = DotDot
         \/ SegmentAt(p) \notin {<<>>, Dot, DotDot}
    BY Zenon
  <1>17. DepthOf(T) \in Int
    BY <1>12, <1>13, <1>14, <1>15, <1>16, Zenon
  <1> QED
    BY <1>10, <1>12, <1>13, <1>14, <1>15, <1>17, Zenon DEF T

\* What the stack is when the walk has come to position p: the segments begin at
\* order, the one at height k brought the walk to depth k, and the walk never came
\* back above it; it did come back above every name that is not on the stack.
Matches(order, stack, p) ==
    /\ \A j, k \in 1..Len(stack) : j < k => order[j] < order[k]
    /\ \A k \in 1..Len(stack) :
          /\ order[k] \in Names(Before(p)) /\ stack[k] = SegmentAt(order[k])
          /\ Depth(order[k]) = k
          /\ \A t \in Before(p) : order[k] < t => k <= Depth(t)
    /\ \A s \in Names(Before(p)) :
          \/ \E k \in 1..Len(stack) : order[k] = s
          \/ \E t \in Before(p) : s < t /\ Depth(t) < Depth(s)

Stacked(stack, p) ==
    /\ stack \in Seq(Seq(STRING))
    /\ \A s \in Before(p) : 0 <= Depth(s)
    /\ DepthOf(Before(p)) = Len(stack)
    /\ \E order \in [1..Len(stack) -> Before(p)] : Matches(order, stack, p)

\* How one segment changes the depth.
LEMMA DepthStep ==
    ASSUME target \in Seq(Tokens), NEW p \in Starts, NEW q, Before(q) = Before(p) \cup {p},
           Before(q) = Walk(p), NEW n \in Nat, DepthOf(Before(p)) = n
    PROVE  /\ p \in Nat /\ Before(p) \subseteq Nat /\ \A s \in Before(p) : s < p
           /\ DepthOf(Before(q)) = Depth(p) /\ Depth(p) \in Int
           /\ SegmentAt(p) \in {<<>>, Dot} => Depth(p) = n /\ Names(Before(q)) = Names(Before(p))
           /\ SegmentAt(p) = DotDot => Depth(p) = n - 1 /\ Names(Before(q)) = Names(Before(p))
           /\ SegmentAt(p) \notin {<<>>, Dot, DotDot} =>
                Depth(p) = n + 1 /\ Names(Before(q)) = Names(Before(p)) \cup {p}
  <1>1. IsFiniteSet(Starts) /\ Starts \subseteq Nat
    BY StartsAreFinite, Zenon
  <1>2. Before(p) \subseteq Starts /\ \A s \in Before(p) : s < p
    BY Zenon DEF Before
  <1>3. p \in Nat /\ ~(p < p)
    BY <1>1, SMTT(60)
  <1>4. IsFiniteSet(Before(p)) /\ p \notin Before(p)
    BY <1>1, <1>2, <1>3, FS_Subset, Zenon
  <1>5. DepthOf(Before(q)) = Depth(p)
    BY Zenon DEF DepthOf, Depth
  <1>6. /\ DepthOf(Before(p) \cup {p}) \in Int
        /\ SegmentAt(p) \in {<<>>, Dot} => DepthOf(Before(p) \cup {p}) = DepthOf(Before(p))
        /\ SegmentAt(p) = DotDot => DepthOf(Before(p) \cup {p}) = DepthOf(Before(p)) - 1
        /\ SegmentAt(p) \notin {<<>>, Dot, DotDot} =>
             DepthOf(Before(p) \cup {p}) = DepthOf(Before(p)) + 1
    BY <1>4, DepthGrows, Zenon
  <1>7. /\ SegmentAt(p) \in {<<>>, Dot, DotDot} => Names(Before(q)) = Names(Before(p))
        /\ SegmentAt(p) \notin {<<>>, Dot, DotDot} => Names(Before(q)) = Names(Before(p)) \cup {p}
    BY Zenon DEF Names
  <1> QED
    BY <1>1, <1>2, <1>3, <1>5, <1>6, <1>7, Zenon

\* An empty or a "." segment leaves the stack as it is.
LEMMA SkipKeepsStack ==
    ASSUME target \in Seq(Tokens), NEW p \in Starts, NEW q, Before(q) = Before(p) \cup {p},
           Before(q) = Walk(p), NEW stack, Stacked(stack, p), SegmentAt(p) \in {<<>>, Dot}
    PROVE  Stacked(stack, q)
  <1> DEFINE n == Len(stack)
  <1>1. /\ stack \in Seq(Seq(STRING)) /\ \A s \in Before(p) : 0 <= Depth(s)
        /\ DepthOf(Before(p)) = n
    BY Zenon DEF Stacked
  <1>2. PICK order \in [1..n -> Before(p)] : Matches(order, stack, p)
    BY Zenon DEF Stacked
  <1>3. n \in Nat
    BY <1>1, SequenceFacts, Zenon
  <1>4. /\ \A j, k \in 1..n : j < k => order[j] < order[k]
        /\ \A k \in 1..n : /\ order[k] \in Names(Before(p)) /\ stack[k] = SegmentAt(order[k])
                            /\ Depth(order[k]) = k
                            /\ \A t \in Before(p) : order[k] < t => k <= Depth(t)
        /\ \A s \in Names(Before(p)) : \/ \E k \in 1..n : order[k] = s
                                       \/ \E t \in Before(p) : s < t /\ Depth(t) < Depth(s)
    BY <1>2, Zenon DEF Matches
  <1>5. /\ DepthOf(Before(q)) = Depth(p) /\ Depth(p) = n /\ Names(Before(q)) = Names(Before(p))
    BY <1>1, <1>3, DepthStep, Zenon
  <1>6. 0 <= Depth(p) /\ \A k \in 1..n : k <= Depth(p)
    BY <1>3, <1>5, SMTT(60)
  <1>7. \A s \in Before(q) : 0 <= Depth(s)
    BY <1>1, <1>6, Zenon
  <1>8. order \in [1..n -> Before(q)]
    BY <1>2, Zenon
  <1>9. \A k \in 1..n : \A t \in Before(q) : order[k] < t => k <= Depth(t)
    BY <1>4, <1>6, Zenon
  <1>10. Matches(order, stack, q)
    <2> HIDE DEF n
    <2>1. \A s \in Names(Before(q)) : \/ \E k \in 1..n : order[k] = s
                                      \/ \E t \in Before(q) : s < t /\ Depth(t) < Depth(s)
      BY <1>4, <1>5, Zenon
    <2>2. \A k \in 1..n : /\ order[k] \in Names(Before(q)) /\ stack[k] = SegmentAt(order[k])
                           /\ Depth(order[k]) = k
      BY <1>4, <1>5, Zenon
    <2> QED
      BY <1>4, <1>9, <2>1, <2>2, ZenonT(60) DEF Matches, n
  <1>11. DepthOf(Before(q)) = n
    BY <1>5, Zenon
  <1> QED
    BY <1>1, <1>7, <1>8, <1>10, <1>11, Zenon DEF Stacked

\* A ".." segment takes the last one off.
LEMMA PopKeepsStack ==
    ASSUME target \in Seq(Tokens), NEW p \in Starts, NEW q, Before(q) = Before(p) \cup {p},
           Before(q) = Walk(p), NEW stack, Stacked(stack, p), SegmentAt(p) = DotDot, stack # <<>>
    PROVE  Stacked(Front(stack), q)
  <1> DEFINE n == Len(stack)
             popped == Front(stack)
  <1>1. /\ stack \in Seq(Seq(STRING)) /\ \A s \in Before(p) : 0 <= Depth(s)
        /\ DepthOf(Before(p)) = n
    BY Zenon DEF Stacked
  <1>2. PICK order \in [1..n -> Before(p)] : Matches(order, stack, p)
    BY Zenon DEF Stacked
  <1>3. n \in Nat /\ n # 0
    <2>1. n \in Nat
      BY <1>1, SequenceFacts, Zenon
    <2>2. stack # <<>> => n # 0
      BY <1>1, SMTT(60)
    <2> QED
      BY <2>1, <2>2, Zenon
  <1>4. /\ \A j, k \in 1..n : j < k => order[j] < order[k]
        /\ \A k \in 1..n : /\ order[k] \in Names(Before(p)) /\ stack[k] = SegmentAt(order[k])
                            /\ Depth(order[k]) = k
                            /\ \A t \in Before(p) : order[k] < t => k <= Depth(t)
        /\ \A s \in Names(Before(p)) : \/ \E k \in 1..n : order[k] = s
                                       \/ \E t \in Before(p) : s < t /\ Depth(t) < Depth(s)
    BY <1>2, Zenon DEF Matches
  <1>5. /\ DepthOf(Before(q)) = Depth(p) /\ Depth(p) = n - 1 /\ Names(Before(q)) = Names(Before(p))
        /\ \A s \in Before(p) : s < p
    BY <1>1, <1>3, DepthStep, Zenon
  <1>6. 0 <= n - 1 /\ (\A k \in 1..(n - 1) : k <= n - 1 /\ k \in 1..n) /\ n - 1 < n /\ n \in 1..n
        /\ \A k \in 1..n : k = n \/ k \in 1..(n - 1)
    BY <1>3, SMTT(60)
  <1>7. popped \in Seq(Seq(STRING)) /\ Len(popped) = n - 1 /\ \A k \in 1..(n - 1) : popped[k] = stack[k]
    <2>1. stack \in Seq(Seq(STRING))
      BY <1>1, Zenon
    <2> QED
      BY <2>1, FrontFacts, Zenon
  <1> DEFINE kept == [k \in 1..(n - 1) |-> order[k]]
  <1>8. kept \in [1..Len(popped) -> Before(q)]
    BY <1>2, <1>6, <1>7, Zenon
  <1>9. \A k \in 1..(n - 1) : kept[k] = order[k]
    BY Zenon
  <1> HIDE DEF n, popped, kept
  <1>10. \A s \in Before(q) : 0 <= Depth(s)
    BY <1>1, <1>5, <1>6, Zenon
  <1>11. \A j, k \in 1..(n - 1) : j < k => kept[j] < kept[k]
    BY <1>4, <1>6, <1>9, Zenon
  <1>12. ASSUME NEW k \in 1..(n - 1)
         PROVE  /\ kept[k] \in Names(Before(q)) /\ popped[k] = SegmentAt(kept[k])
                /\ Depth(kept[k]) = k
    BY <1>4, <1>5, <1>6, <1>7, <1>9, Zenon
  <1>13. ASSUME NEW k \in 1..(n - 1), NEW t \in Before(q), kept[k] < t PROVE k <= Depth(t)
    <2>1. order[k] < t
      BY <1>9, <1>13, Zenon
    <2>2. CASE t = p
      BY <1>5, <1>6, <2>2, Zenon
    <2>3. CASE t \in Before(p)
      BY <1>4, <1>6, <2>1, <2>3, Zenon
    <2> QED
      BY <2>2, <2>3, Zenon
  <1>14. ASSUME NEW s \in Names(Before(q))
         PROVE  \/ \E k \in 1..(n - 1) : kept[k] = s
                \/ \E t \in Before(q) : s < t /\ Depth(t) < Depth(s)
    <2>1. CASE \E t \in Before(p) : s < t /\ Depth(t) < Depth(s)
      BY <2>1, Zenon
    <2>2. CASE \E k \in 1..n : order[k] = s
      <3>1. PICK k \in 1..n : order[k] = s
        BY <2>2, Zenon
      <3>2. CASE k = n
        <4>1. Depth(s) = n
          BY <1>4, <3>1, <3>2, Zenon
        <4>2. s < p
          BY <1>2, <1>5, <3>1, Zenon
        <4>3. Depth(p) < Depth(s)
          BY <1>5, <1>6, <4>1, Zenon
        <4> QED
          BY <4>2, <4>3, Zenon
      <3>3. CASE k \in 1..(n - 1)
        BY <1>9, <3>1, <3>3, Zenon
      <3> QED
        BY <1>6, <3>2, <3>3, Zenon
    <2> QED
      BY <1>4, <1>5, <2>1, <2>2, Zenon
  <1>15. Matches(kept, popped, q)
    BY <1>7, <1>11, <1>12, <1>13, <1>14, ZenonT(60) DEF Matches
  <1>16. DepthOf(Before(q)) = Len(popped)
    BY <1>5, <1>7, Zenon
  <1> QED
    BY <1>7, <1>8, <1>10, <1>15, <1>16, Zenon DEF Stacked, popped

\* A name is pushed.
LEMMA PushKeepsStack ==
    ASSUME target \in Seq(Tokens), NEW p \in Starts, NEW q, Before(q) = Before(p) \cup {p},
           Before(q) = Walk(p), NEW stack, Stacked(stack, p), SegmentAt(p) \in Seq(STRING),
           SegmentAt(p) \notin {<<>>, Dot, DotDot}
    PROVE  Stacked(Append(stack, SegmentAt(p)), q)
  <1> DEFINE n == Len(stack)
             pushed == Append(stack, SegmentAt(p))
  <1>1. /\ stack \in Seq(Seq(STRING)) /\ \A s \in Before(p) : 0 <= Depth(s)
        /\ DepthOf(Before(p)) = n
    BY Zenon DEF Stacked
  <1>2. PICK order \in [1..n -> Before(p)] : Matches(order, stack, p)
    BY Zenon DEF Stacked
  <1>3. n \in Nat
    BY <1>1, SequenceFacts, Zenon
  <1>4. /\ \A j, k \in 1..n : j < k => order[j] < order[k]
        /\ \A k \in 1..n : /\ order[k] \in Names(Before(p)) /\ stack[k] = SegmentAt(order[k])
                            /\ Depth(order[k]) = k
                            /\ \A t \in Before(p) : order[k] < t => k <= Depth(t)
        /\ \A s \in Names(Before(p)) : \/ \E k \in 1..n : order[k] = s
                                       \/ \E t \in Before(p) : s < t /\ Depth(t) < Depth(s)
    BY <1>2, Zenon DEF Matches
  <1>5. /\ DepthOf(Before(q)) = Depth(p) /\ Depth(p) = n + 1
        /\ Names(Before(q)) = Names(Before(p)) \cup {p}
        /\ p \in Nat /\ Before(p) \subseteq Nat /\ \A s \in Before(p) : s < p
    BY <1>1, <1>3, DepthStep, Zenon
  <1>6. /\ 0 <= n + 1 /\ n + 1 \in 1..(n + 1) /\ n + 1 \notin 1..n
        /\ \A k \in 1..n : k <= n + 1 /\ k \in 1..(n + 1)
        /\ \A k \in 1..(n + 1) : k = n + 1 \/ k \in 1..n
    BY <1>3, SMTT(60)
  <1>7. \A k \in 1..(n + 1) : ~(n + 1 < k)
    BY <1>3, SMTT(60)
  <1>8. /\ pushed \in Seq(Seq(STRING)) /\ Len(pushed) = n + 1 /\ pushed[n + 1] = SegmentAt(p)
        /\ \A k \in 1..n : pushed[k] = stack[k]
    <2>1. stack \in Seq(Seq(STRING))
      BY <1>1, Zenon
    <2> QED
      BY <2>1, SMTT(60)
  <1> DEFINE more == [k \in 1..(n + 1) |-> IF k = n + 1 THEN p ELSE order[k]]
  <1>9. more[n + 1] = p
    BY <1>6, Zenon
  <1>10. ASSUME NEW k \in 1..n PROVE more[k] = order[k] /\ order[k] \in Before(p)
    <2>1. k \in 1..(n + 1) /\ k # n + 1
      BY <1>6, Zenon
    <2> QED
      BY <1>2, <2>1, Zenon
  <1>11. more \in [1..Len(pushed) -> Before(q)]
    <2>1. ASSUME NEW k \in 1..(n + 1) PROVE (IF k = n + 1 THEN p ELSE order[k]) \in Before(q)
      BY <1>2, <1>6, Zenon
    <2>2. more \in [1..(n + 1) -> Before(q)]
      BY <2>1, Zenon
    <2> QED
      BY <1>8, <2>2, Zenon
  <1> HIDE DEF n, pushed, more
  <1>12. \A s \in Before(q) : 0 <= Depth(s)
    BY <1>1, <1>5, <1>6, Zenon
  <1>13. ASSUME NEW j \in 1..(n + 1), NEW k \in 1..(n + 1), j < k PROVE more[j] < more[k]
    <2>1. j \in 1..n
      BY <1>6, <1>7, <1>13, Zenon
    <2>2. CASE k = n + 1
      <3>1. more[k] = p /\ more[j] \in Before(p)
        BY <1>9, <1>10, <2>1, <2>2, Zenon
      <3> QED
        BY <1>5, <3>1, Zenon
    <2>3. CASE k \in 1..n
      BY <1>4, <1>10, <1>13, <2>1, <2>3, Zenon
    <2> QED
      BY <1>6, <2>2, <2>3, Zenon
  <1>14. p \in Names(Before(q))
    BY <1>5, Zenon
  <1>15. ASSUME NEW k \in 1..(n + 1)
         PROVE  /\ more[k] \in Names(Before(q)) /\ pushed[k] = SegmentAt(more[k])
                /\ Depth(more[k]) = k
    <2>1. CASE k = n + 1
      BY <1>5, <1>8, <1>9, <1>14, <2>1, Zenon
    <2>2. CASE k \in 1..n
      BY <1>4, <1>5, <1>8, <1>10, <2>2, Zenon
    <2> QED
      BY <1>6, <2>1, <2>2, Zenon
  <1>16. ASSUME NEW k \in 1..(n + 1), NEW t \in Before(q), more[k] < t PROVE k <= Depth(t)
    <2>1. CASE k = n + 1
      <3>1. p < t /\ t \in Nat /\ ~(p < p)
        <4>1. p < t
          BY <1>9, <1>16, <2>1, Zenon
        <4>2. t \in Nat
          BY <1>5, Zenon
        <4>3. ~(p < p)
          BY <1>5, SMTT(60)
        <4> QED
          BY <4>1, <4>2, <4>3, Zenon
      <3>2. t \in Before(p)
        <4>1. t # p
          BY <3>1, Zenon
        <4> QED
          BY <4>1, Zenon
      <3>3. t < p
        BY <1>5, <3>2, Zenon
      <3> QED
        BY <1>5, <3>1, <3>3, SMTT(60)
    <2>2. CASE k \in 1..n
      <3>1. order[k] < t
        BY <1>10, <1>16, <2>2, Zenon
      <3>2. CASE t = p
        BY <1>5, <1>6, <2>2, <3>2, Zenon
      <3>3. CASE t \in Before(p)
        BY <1>4, <2>2, <3>1, <3>3, Zenon
      <3> QED
        BY <3>2, <3>3, Zenon
    <2> QED
      BY <1>6, <2>1, <2>2, Zenon
  <1>17. ASSUME NEW s \in Names(Before(q))
         PROVE  \/ \E k \in 1..(n + 1) : more[k] = s
                \/ \E t \in Before(q) : s < t /\ Depth(t) < Depth(s)
    <2>1. CASE s = p
      BY <1>6, <1>9, <2>1, Zenon
    <2>2. CASE \E k \in 1..n : order[k] = s
      BY <1>6, <1>10, <2>2, Zenon
    <2>3. CASE \E t \in Before(p) : s < t /\ Depth(t) < Depth(s)
      BY <2>3, Zenon
    <2> QED
      BY <1>4, <1>5, <2>1, <2>2, <2>3, Zenon
  <1>18. Matches(more, pushed, q)
    BY <1>8, <1>13, <1>15, <1>16, <1>17, ZenonT(60) DEF Matches
  <1>19. DepthOf(Before(q)) = Len(pushed)
    BY <1>5, <1>8, Zenon
  <1> QED
    BY <1>8, <1>11, <1>12, <1>18, <1>19, Zenon DEF Stacked, pushed

\* At the end of the path the stack holds what the walk keeps.
LEMMA WalkEnds ==
    ASSUME target \in Seq(Tokens), NEW p, Before(p) = Starts, NEW stack, Stacked(stack, p)
    PROVE  ~LeavesRoot /\ Holds(stack, Kept)
  <1> DEFINE n == Len(stack)
  <1>1. PICK order \in [1..n -> Starts] : Matches(order, stack, p)
    BY Zenon DEF Stacked
  <1>2. /\ \A j, k \in 1..n : j < k => order[j] < order[k]
        /\ \A k \in 1..n : /\ order[k] \in Names(Before(p)) /\ stack[k] = SegmentAt(order[k])
                            /\ Depth(order[k]) = k
                            /\ \A t \in Before(p) : order[k] < t => k <= Depth(t)
        /\ \A s \in Names(Before(p)) : \/ \E k \in 1..n : order[k] = s
                                       \/ \E t \in Before(p) : s < t /\ Depth(t) < Depth(s)
    BY <1>1, Zenon DEF Matches
  <1>3. Names(Before(p)) = Names(Starts)
    BY Zenon
  <1>4. ASSUME NEW s \in Names(Starts)
        PROVE  \/ \E k \in 1..n : order[k] = s
               \/ \E t \in Starts : s < t /\ Depth(t) < Depth(s)
    <2>1. s \in Names(Before(p))
      BY <1>3, Zenon
    <2>2. \/ \E k \in 1..n : order[k] = s
          \/ \E t \in Before(p) : s < t /\ Depth(t) < Depth(s)
      BY <1>2, <2>1, Zenon
    <2> QED
      BY <2>2, Zenon
  <1>5. ASSUME NEW k \in 1..n
        PROVE  /\ order[k] \in Names(Starts) /\ stack[k] = SegmentAt(order[k])
               /\ Depth(order[k]) = k
               /\ \A t \in Starts : order[k] < t => k <= Depth(t)
    <2>1. /\ order[k] \in Names(Before(p)) /\ stack[k] = SegmentAt(order[k])
          /\ Depth(order[k]) = k
          /\ \A t \in Before(p) : order[k] < t => k <= Depth(t)
      BY <1>2, Zenon
    <2> QED
      BY <1>3, <2>1, Zenon
  <1>6. \A j, k \in 1..n : j < k => order[j] < order[k]
    BY <1>2, Zenon
  <1>7. \A s \in Starts : Depth(s) \in Int /\ s \in Nat
    <2> SUFFICES ASSUME NEW s \in Starts PROVE Depth(s) \in Int /\ s \in Nat
      BY Zenon
    <2>1. IsFiniteSet(Starts) /\ Starts \subseteq Nat
      BY StartsAreFinite, Zenon
    <2>2. Names(Walk(s)) \subseteq Starts /\ Ups(Walk(s)) \subseteq Starts
      BY Zenon DEF Names, Ups, Walk
    <2>3. IsFiniteSet(Names(Walk(s))) /\ IsFiniteSet(Ups(Walk(s)))
      BY <2>1, <2>2, FS_Subset, Zenon
    <2>4. Cardinality(Names(Walk(s))) \in Nat /\ Cardinality(Ups(Walk(s))) \in Nat
      BY <2>3, FS_CardinalityType, Zenon
    <2>5. Cardinality(Names(Walk(s))) - Cardinality(Ups(Walk(s))) \in Int
      BY <2>4, SMTT(60)
    <2> QED
      BY <2>1, <2>5, Zenon DEF Depth
  <1>8. ~LeavesRoot
    <2> SUFFICES ASSUME NEW s \in Starts, Depth(s) < 0 PROVE FALSE
      BY Zenon DEF LeavesRoot
    <2>1. 0 <= Depth(s) /\ Depth(s) \in Int
      BY <1>7, Zenon DEF Stacked
    <2> QED
      BY <2>1, SMTT(60)
  <1>9. ASSUME NEW k \in 1..n PROVE order[k] \in Kept
    <2>1. order[k] \in Starts /\ order[k] \in Nat
      BY <1>1, <1>7, Zenon
    <2>2. ASSUME NEW t \in Starts, t > order[k] PROVE Depth(t) >= Depth(order[k])
      <3>1. t \in Nat /\ Depth(t) \in Int /\ Depth(order[k]) \in Int
        BY <1>7, <2>1, Zenon
      <3>2. order[k] < t
        BY <2>1, <2>2, <3>1, SMTT(60)
      <3>3. Depth(order[k]) <= Depth(t)
        BY <1>5, <3>2, Zenon
      <3> QED
        BY <3>1, <3>3, SMTT(60)
    <2> QED
      BY <1>5, <2>2, Zenon DEF Kept
  <1>10. ASSUME NEW s \in Kept PROVE \E k \in 1..n : order[k] = s
    <2>1. s \in Names(Starts) /\ s \in Starts /\ \A t \in Starts : t > s => Depth(t) >= Depth(s)
      BY Zenon DEF Kept, Names
    <2>2. ASSUME NEW t \in Starts, s < t, Depth(t) < Depth(s) PROVE FALSE
      <3>1. t \in Nat /\ s \in Nat /\ Depth(t) \in Int /\ Depth(s) \in Int
        BY <1>7, <2>1, Zenon
      <3>2. t > s
        BY <2>2, <3>1, SMTT(60)
      <3>3. Depth(t) >= Depth(s)
        BY <2>1, <3>2, Zenon
      <3> QED
        BY <2>2, <3>1, <3>3, SMTT(60)
    <2> QED
      BY <1>4, <2>1, <2>2, Zenon
  <1>11. order \in [1..n -> Kept]
    BY <1>1, <1>9, Zenon
  <1>12. Holds(stack, Kept)
    BY <1>5, <1>6, <1>10, <1>11, ZenonT(60) DEF Holds
  <1> QED
    BY <1>8, <1>12, Zenon

-----------------------------------------------------------------------------
(* The target does not change, and neither does what is read from it.      *)

Cut(text, starts, s) ==
    LET later == {t \in starts : t > s}
    IN SubSeq(text, s + 1,
              IF later = {} THEN Len(text) ELSE CHOOSE e \in {t - 1 : t \in later} :
                                                   \A t \in later : e < t)

\* Every step leaves the target alone; then the walk is the same after it.
LEMMA SameWalk ==
    ASSUME target' = target
    PROVE  /\ Decoded' = Decoded /\ Starts' = Starts
           /\ \A s : SegmentAt(s)' = SegmentAt(s)
           /\ \A S : Names(S)' = Names(S)
           /\ \A s : Depth(s)' = Depth(s)
           /\ \A S : DepthOf(S)' = DepthOf(S)
           /\ \A p : Before(p)' = Before(p)
  <1>1. Decoded' = Decoded
    BY Zenon DEF Decoded
  <1>2. Starts' = Starts
    BY <1>1, Zenon DEF Starts
  <1>3. ASSUME NEW CONSTANT s PROVE SegmentAt(s)' = SegmentAt(s)
    <2>1. SegmentAt(s) = Cut(Decoded, Starts, s)
      BY Zenon DEF SegmentAt, Cut
    <2>2. SegmentAt(s)' = Cut(Decoded', Starts', s)
      BY Zenon DEF SegmentAt, Cut
    <2> QED
      BY <1>1, <1>2, <2>1, <2>2, Zenon
  <1>4. ASSUME NEW CONSTANT S PROVE Names(S)' = Names(S) /\ Ups(S)' = Ups(S)
    BY <1>3, Zenon DEF Names, Ups
  <1>5. ASSUME NEW CONSTANT s PROVE Walk(s)' = Walk(s) /\ Before(s)' = Before(s)
    BY <1>2, Zenon DEF Walk, Before
  <1>6. ASSUME NEW CONSTANT s PROVE Depth(s)' = Depth(s)
    BY <1>4, <1>5, Zenon DEF Depth
  <1>7. ASSUME NEW CONSTANT S PROVE DepthOf(S)' = DepthOf(S)
    BY <1>4, Zenon DEF DepthOf
  <1> QED
    BY <1>1, <1>2, <1>3, <1>4, <1>5, <1>6, <1>7, Zenon

\* What was true of a stack is true of it after the step.
LEMMA SameStack ==
    ASSUME target' = target, NEW CONSTANT stack, NEW CONSTANT p, Stacked(stack, p)
    PROVE  Stacked(stack, p)'
  <1> DEFINE B == Before(p)
  <1>1. B' = B /\ Names(B)' = Names(B) /\ DepthOf(B)' = DepthOf(B)
    BY SameWalk, Zenon
  <1>2. \A s : SegmentAt(s)' = SegmentAt(s) /\ Depth(s)' = Depth(s)
    BY SameWalk, Zenon
  <1>3. PICK order \in [1..Len(stack) -> Before(p)] : Matches(order, stack, p)
    BY Zenon DEF Stacked
  <1>4. Matches(order, stack, p)'
    BY <1>1, <1>2, <1>3, ZenonT(60) DEF Matches
  <1> QED
    BY <1>1, <1>2, <1>3, <1>4, ZenonT(60) DEF Stacked

\* What the walk keeps is the same after the step.
LEMMA SameEnd ==
    ASSUME target' = target, segments' = segments
    PROVE  /\ LeavesRoot' <=> LeavesRoot
           /\ Holds(segments, Kept) => Holds(segments, Kept)'
  <1>1. Starts' = Starts /\ Names(Starts)' = Names(Starts)
    BY SameWalk, Zenon
  <1>2. \A s : SegmentAt(s)' = SegmentAt(s) /\ Depth(s)' = Depth(s)
    BY SameWalk, Zenon
  <1>3. Kept' = Kept
    BY <1>1, <1>2, Zenon DEF Kept
  <1>4. LeavesRoot' <=> LeavesRoot
    BY <1>1, <1>2, Zenon DEF LeavesRoot
  <1>5. ASSUME Holds(segments, Kept) PROVE Holds(segments, Kept)'
    BY <1>2, <1>3, <1>5, ZenonT(60) DEF Holds
  <1> QED
    BY <1>4, <1>5, Zenon

-----------------------------------------------------------------------------
(* The invariant.                                                          *)

\* The walk has come to position p, and rest is what is left of the path.
WalkedTo(p) ==
    /\ rest = SubSeq(Decoded, p, Len(Decoded))
    /\ p <= Len(Decoded) => p \in Starts
    /\ \E stack \in {segments} : Stacked(stack, p)

PathInv ==
    /\ target \in Seq(Tokens)
    /\ place \in {"extract", "decode", "normalize", "returned"}
    /\ place # "returned" => outcome = "NONE"
    /\ place \in {"extract", "decode"} => segments = <<>>
    /\ place = "decode" => IsOriginForm /\ rest = PathPortion(target)
    /\ place = "normalize" => \E p \in 1..(Len(Decoded) + 1) : WalkedTo(p)
    /\ place = "returned" => NormalizesToWalk

\* The walk begins with an empty stack.
LEMMA WalkBegins ==
    ASSUME target \in Seq(Tokens), IsOriginForm
    PROVE  /\ 1 \in 1..(Len(Decoded) + 1) /\ Decoded = SubSeq(Decoded, 1, Len(Decoded))
           /\ 1 \in Starts /\ Stacked(<<>>, 1)
  <1>1. Decoded \in Seq(STRING) /\ Len(Decoded) > 0 /\ Decoded[1] = Slash
    BY PathFacts, Zenon
  <1>2. Len(Decoded) \in Nat /\ DOMAIN Decoded = 1..Len(Decoded)
    BY <1>1, SequenceFacts, Zenon
  <1>3. 1 \in 1..(Len(Decoded) + 1) /\ 1 \in 1..Len(Decoded)
    BY <1>1, <1>2, SMTT(60)
  <1>4. Decoded = SubSeq(Decoded, 1, Len(Decoded))
    <2>1. ASSUME NEW text \in Seq(STRING) PROVE text = SubSeq(text, 1, Len(text))
      OBVIOUS
    <2> QED
      BY <1>1, <2>1, Zenon
  <1>5. 1 \in Starts
    BY <1>1, <1>2, <1>3, Zenon DEF Starts
  <1>6. Before(1) = {}
    <2>1. ASSUME NEW s \in Starts, s < 1 PROVE FALSE
      <3>1. s \in 1..Len(Decoded)
        BY StartsAreFinite, Zenon
      <3> QED
        BY <1>2, <2>1, <3>1, SMTT(60)
    <2> QED
      BY <2>1, Zenon DEF Before
  <1>7. DepthOf(Before(1)) = 0
    <2>1. Names({}) = {} /\ Ups({}) = {}
      BY Zenon DEF Names, Ups
    <2>2. Cardinality({}) = 0
      BY FS_EmptySet, Zenon
    <2>3. DepthOf({}) = 0 - 0
      BY <2>1, <2>2, Zenon DEF DepthOf
    <2>4. 0 - 0 = 0
      BY SMT
    <2> QED
      BY <1>6, <2>3, <2>4, Zenon
  <1>8. <<>> \in Seq(Seq(STRING)) /\ Len(<<>>) = 0 /\ 1..0 = {}
    BY SMTT(60)
  <1>9. Names(Before(1)) = {}
    BY <1>6, Zenon DEF Names
  <1> DEFINE none == [k \in 1..0 |-> 0]
  <1>10. none \in [1..Len(<<>>) -> Before(1)]
    BY <1>8, Zenon
  <1>11. Matches(none, <<>>, 1)
    <2> HIDE DEF none
    <2> QED
      BY <1>8, <1>9, Zenon DEF Matches
  <1>12. Stacked(<<>>, 1)
    <2> HIDE DEF none
    <2>1. \A s \in Before(1) : 0 <= Depth(s)
      BY <1>6, Zenon
    <2> QED
      BY <1>7, <1>8, <1>10, <1>11, <2>1, Zenon DEF Stacked
  <1> QED
    BY <1>3, <1>4, <1>5, <1>12, Zenon

\* While the walk goes on, the position is the start of a segment.
LEMMA WalkGoesOn ==
    ASSUME target \in Seq(Tokens), NEW p \in 1..(Len(Decoded) + 1), WalkedTo(p)
    PROVE  /\ rest # <<>> => p \in Starts
           /\ rest = <<>> => Before(p) = Starts
  <1>1. Decoded \in Seq(STRING) /\ Len(Decoded) \in Nat
    BY PathFacts, SequenceFacts, Zenon
  <1>2. Len(rest) = Len(Decoded) - p + 1 /\ rest \in Seq(STRING)
    <2>1. p \in Nat \ {0} /\ Len(Decoded) \in 0..Len(Decoded) /\ p <= Len(Decoded) + 1
      BY <1>1, SMTT(60)
    <2>2. /\ SubSeq(Decoded, p, Len(Decoded)) \in Seq(STRING)
          /\ Len(SubSeq(Decoded, p, Len(Decoded))) = Len(Decoded) - p + 1
      BY <1>1, <2>1, SubSeqFacts, ZenonT(60)
    <2> QED
      BY <2>2, Zenon DEF WalkedTo
  <1>3. rest = <<>> <=> Len(rest) = 0
    BY <1>2, SMTT(60)
  <1>4. ASSUME rest # <<>> PROVE p \in Starts
    <2>1. p <= Len(Decoded)
      BY <1>1, <1>2, <1>3, <1>4, SMTT(60)
    <2> QED
      BY <2>1, Zenon DEF WalkedTo
  <1>5. ASSUME rest = <<>> PROVE Before(p) = Starts
    <2>1. p = Len(Decoded) + 1
      BY <1>1, <1>2, <1>3, <1>5, SMTT(60)
    <2>2. ASSUME NEW s \in Starts PROVE s < p
      <3>1. s \in 1..Len(Decoded)
        BY StartsAreFinite, Zenon
      <3> QED
        BY <1>1, <2>1, <3>1, SMTT(60)
    <2> QED
      BY <2>2, Zenon DEF Before
  <1> QED
    BY <1>4, <1>5, Zenon

\* A step from one segment to the next.
LEMMA AdvanceKeepsInv ==
    ASSUME PathInv, Normalizing, Advance,
           NEW p \in 1..(Len(Decoded) + 1), WalkedTo(p),
           \A q : /\ Before(q) = Before(p) \cup {p} /\ Before(q) = Walk(p)
                  /\ Segment = SegmentAt(p) /\ SegmentAt(p) \in Seq(STRING)
                 => Stacked(segments', q)
    PROVE  PathInv'
  <1>1. target \in Seq(Tokens) /\ place = "normalize" /\ rest # <<>> /\ outcome = "NONE"
    BY Zenon DEF PathInv, Normalizing
  <1>2. target' = target /\ place' = place /\ outcome' = outcome
        /\ rest' = SubSeq(rest, SegmentEnd + 1, Len(rest))
    BY Zenon DEF Advance
  <1>3. p \in Starts /\ rest = SubSeq(Decoded, p, Len(Decoded))
    BY <1>1, WalkGoesOn, Zenon DEF WalkedTo
  <1>4. PICK q \in 1..(Len(Decoded) + 1) :
              /\ q <= Len(Decoded) => q \in Starts
              /\ Before(q) = Before(p) \cup {p} /\ Before(q) = Walk(p)
              /\ Segment = SegmentAt(p) /\ SegmentAt(p) \in Seq(STRING)
              /\ SubSeq(rest, SegmentEnd + 1, Len(rest)) = SubSeq(Decoded, q, Len(Decoded))
    BY <1>1, <1>3, NextSegment, Zenon
  <1>5. Stacked(segments', q)
    BY <1>4, Zenon
  <1>6. \A stack : Stacked(stack, q) => Stacked(stack, q)'
    BY <1>2, SameStack, Zenon
  <1>7. \E stack \in {segments'} : Stacked(stack, q)'
    BY <1>5, <1>6, Zenon
  <1>8. Decoded' = Decoded /\ Starts' = Starts
    BY <1>2, SameWalk, Zenon
  <1>9. WalkedTo(q)'
    BY <1>2, <1>4, <1>7, <1>8, Zenon DEF WalkedTo
  <1>10. (\E r \in 1..(Len(Decoded) + 1) : WalkedTo(r))'
    BY <1>8, <1>9, Zenon
  <1> QED
    BY <1>1, <1>2, <1>10, Zenon DEF PathInv

\* A return keeps the target and the stack.
LEMMA ReturnKeepsInv ==
    ASSUME PathInv, NEW CONSTANT r, PathReturn(r),
           r = "OK" => ~LeavesRoot /\ Holds(segments, Kept),
           r = "FORBIDDEN" => LeavesRoot
    PROVE  PathInv'
  <1>1. target' = target /\ segments' = segments /\ place' = "returned" /\ outcome' = r
    BY Zenon DEF PathReturn
  <1>2. (LeavesRoot' <=> LeavesRoot) /\ (Holds(segments, Kept) => Holds(segments, Kept)')
    BY <1>1, SameEnd, Zenon
  <1>3. NormalizesToWalk'
    BY <1>1, <1>2, Zenon DEF NormalizesToWalk
  <1> QED
    BY <1>1, <1>3, Zenon DEF PathInv

\* Every step keeps the invariant: Advance and Return through the lemmas above.
LEMMA PathStep ==
    ASSUME PathInv, [PathNext]_pathVars PROVE PathInv'
  <1>0. target \in Seq(Tokens)
    BY Zenon DEF PathInv
  <1>1. CASE ExtractPath
    <2>1. /\ place' = "decode" /\ target' = target /\ segments' = segments /\ outcome' = outcome
          /\ rest' = PathPortion(target) /\ IsOriginForm /\ place = "extract"
      BY <1>1, Zenon DEF ExtractPath
    <2>2. IsOriginForm'
      BY <2>1, Zenon DEF IsOriginForm
    <2>3. rest' = PathPortion(target)'
      BY <2>1, Zenon
    <2> QED
      BY <2>1, <2>2, <2>3, Zenon DEF PathInv
  <1>2. CASE ExtractFails
    BY <1>2, ReturnKeepsInv, Zenon DEF ExtractFails
  <1>3. CASE UrlDecode
    <2>1. /\ place = "decode" /\ place' = "normalize" /\ target' = target /\ segments' = segments
          /\ outcome' = outcome /\ rest' = [k \in DOMAIN rest |-> rest[k].char]
      BY <1>3, Zenon DEF UrlDecode
    <2>2. segments = <<>> /\ IsOriginForm /\ rest = PathPortion(target) /\ outcome = "NONE"
      BY <2>1, Zenon DEF PathInv
    <2>3. rest' = Decoded
      BY <2>1, <2>2, Zenon DEF Decoded
    <2>4. /\ 1 \in 1..(Len(Decoded) + 1) /\ Decoded = SubSeq(Decoded, 1, Len(Decoded))
          /\ 1 \in Starts /\ Stacked(<<>>, 1)
      BY <1>0, <2>2, WalkBegins, Zenon
    <2>5. Decoded' = Decoded /\ Starts' = Starts
      BY <2>1, SameWalk, Zenon
    <2>6. Stacked(<<>>, 1)'
      BY <2>1, <2>4, SameStack, Zenon
    <2>7. \E stack \in {segments'} : Stacked(stack, 1)'
      BY <2>1, <2>2, <2>6, Zenon
    <2>8. WalkedTo(1)'
      BY <2>3, <2>4, <2>5, <2>7, Zenon DEF WalkedTo
    <2>9. (\E p \in 1..(Len(Decoded) + 1) : WalkedTo(p))'
      BY <2>4, <2>5, <2>8, Zenon
    <2> QED
      BY <1>0, <2>1, <2>2, <2>9, Zenon DEF PathInv
  <1>4. CASE UrlDecodeFails
    BY <1>4, ReturnKeepsInv, Zenon DEF UrlDecodeFails
  <1>5. CASE place = "normalize" /\ (SkipSegment \/ EscapesRoot \/ PopSegment \/ PushSegment \/ JoinSegments)
    <2>1. PICK p \in 1..(Len(Decoded) + 1) : WalkedTo(p)
      BY <1>5, Zenon DEF PathInv
    <2>2. Stacked(segments, p)
      BY <2>1, Zenon DEF WalkedTo
    <2>3. rest # <<>> => p \in Starts /\ rest = SubSeq(Decoded, p, Len(Decoded))
      BY <1>0, <2>1, WalkGoesOn, Zenon DEF WalkedTo
    <2>4. CASE SkipSegment
      <3>1. /\ Normalizing /\ Advance /\ Segment \in {<<>>, Dot} /\ segments' = segments
            /\ rest # <<>>
        BY <2>4, Zenon DEF SkipSegment, Normalizing
      <3>2. ASSUME NEW q, Before(q) = Before(p) \cup {p}, Before(q) = Walk(p), Segment = SegmentAt(p)
            PROVE  Stacked(segments, q)
        BY <1>0, <2>2, <2>3, <3>1, <3>2, SkipKeepsStack, Zenon
      <3> QED
        BY <2>1, <3>1, <3>2, AdvanceKeepsInv, Zenon
    <2>5. CASE EscapesRoot
      <3>1. Segment = DotDot /\ segments = <<>> /\ PathReturn("FORBIDDEN") /\ rest # <<>>
        BY <2>5, Zenon DEF EscapesRoot, Normalizing
      <3>2. PICK q \in 1..(Len(Decoded) + 1) :
              Before(q) = Before(p) \cup {p} /\ Before(q) = Walk(p) /\ Segment = SegmentAt(p)
        BY <1>0, <2>3, <3>1, NextSegment, Zenon
      <3>3. Len(<<>>) = 0 /\ 0 \in Nat /\ 0 - 1 < 0
        BY SMTT(60)
      <3>4. DepthOf(Before(p)) = 0
        BY <2>2, <3>1, <3>3, Zenon DEF Stacked
      <3>5. Depth(p) = 0 - 1
        BY <1>0, <2>3, <3>1, <3>2, <3>3, <3>4, DepthStep, Zenon
      <3>6. LeavesRoot
        BY <2>3, <3>1, <3>3, <3>5, Zenon DEF LeavesRoot
      <3> QED
        BY <3>1, <3>6, ReturnKeepsInv, Zenon
    <2>6. CASE PopSegment
      <3>1. /\ Normalizing /\ Advance /\ Segment = DotDot /\ segments # <<>>
            /\ segments' = Front(segments) /\ rest # <<>>
        BY <2>6, Zenon DEF PopSegment, Normalizing
      <3>2. ASSUME NEW q, Before(q) = Before(p) \cup {p}, Before(q) = Walk(p), Segment = SegmentAt(p)
            PROVE  Stacked(Front(segments), q)
        BY <1>0, <2>2, <2>3, <3>1, <3>2, PopKeepsStack, Zenon
      <3> QED
        BY <2>1, <3>1, <3>2, AdvanceKeepsInv, Zenon
    <2>7. CASE PushSegment
      <3>1. /\ Normalizing /\ Advance /\ Segment \notin {<<>>, Dot, DotDot}
            /\ segments' = Append(segments, Segment) /\ rest # <<>>
        BY <2>7, Zenon DEF PushSegment, Normalizing
      <3>2. ASSUME NEW q, Before(q) = Before(p) \cup {p}, Before(q) = Walk(p), Segment = SegmentAt(p),
                   SegmentAt(p) \in Seq(STRING)
            PROVE  Stacked(Append(segments, Segment), q)
        <4>1. Stacked(Append(segments, SegmentAt(p)), q)
          BY <1>0, <2>2, <2>3, <3>1, <3>2, PushKeepsStack, Zenon
        <4> QED
          BY <3>2, <4>1, Zenon
      <3> QED
        BY <2>1, <3>1, <3>2, AdvanceKeepsInv, Zenon
    <2>8. CASE JoinSegments
      <3>1. rest = <<>> /\ PathReturn("OK")
        BY <2>8, Zenon DEF JoinSegments
      <3>2. Before(p) = Starts
        BY <1>0, <2>1, <3>1, WalkGoesOn, Zenon
      <3>3. ~LeavesRoot /\ Holds(segments, Kept)
        BY <1>0, <2>2, <3>2, WalkEnds, Zenon
      <3> QED
        BY <3>1, <3>3, ReturnKeepsInv, Zenon
    <2> QED
      BY <1>5, <2>4, <2>5, <2>6, <2>7, <2>8, Zenon
  <1>6. CASE OutOfMemory
    BY <1>6, ReturnKeepsInv, Zenon DEF OutOfMemory
  <1>7. CASE UNCHANGED pathVars
    <2>1. /\ target' = target /\ place' = place /\ rest' = rest /\ segments' = segments
          /\ outcome' = outcome
      BY <1>7, Zenon DEF pathVars
    <2>2. place = "returned" => NormalizesToWalk'
      <3>1. (LeavesRoot' <=> LeavesRoot) /\ (Holds(segments, Kept) => Holds(segments, Kept)')
        BY <2>1, SameEnd, Zenon
      <3> QED
        BY <2>1, <3>1, Zenon DEF NormalizesToWalk, PathInv
    <2>3. ASSUME place = "normalize" PROVE (\E p \in 1..(Len(Decoded) + 1) : WalkedTo(p))'
      <3>1. PICK p \in 1..(Len(Decoded) + 1) : WalkedTo(p)
        BY <2>3, Zenon DEF PathInv
      <3>2. Decoded' = Decoded /\ Starts' = Starts
        BY <2>1, SameWalk, Zenon
      <3>3. \E stack \in {segments'} : Stacked(stack, p)'
        BY <2>1, <3>1, SameStack, Zenon DEF WalkedTo
      <3>4. WalkedTo(p)'
        BY <2>1, <3>1, <3>2, <3>3, Zenon DEF WalkedTo
      <3> QED
        BY <3>2, <3>4, Zenon
    <2>4. IsOriginForm' <=> IsOriginForm
      BY <2>1, Zenon DEF IsOriginForm
    <2> QED
      BY <2>1, <2>2, <2>3, <2>4, Zenon DEF PathInv
  <1> QED
    BY <1>1, <1>2, <1>3, <1>4, <1>5, <1>6, <1>7, Zenon
       DEF PathNext, PathTerminated, SkipSegment, EscapesRoot, PopSegment, PushSegment, JoinSegments, Normalizing

\* static_files_normalize_path: for every target, whatever its length and its
\* characters, the stack of segments of an accepted target is the place the walk
\* ends at and the walk stays below the root; a forbidden one leaves it.
THEOREM NormalizationFollowsWalk == PathSpec => []NormalizesToWalk
  <1>1. PathInit => PathInv
    BY TargetsAssumption, Zenon DEF PathInit, PathInv
  <1>2. PathInv /\ [PathNext]_pathVars => PathInv'
    BY PathStep, Zenon
  <1>3. PathInv => NormalizesToWalk
    BY Zenon DEF PathInv, NormalizesToWalk
  <1> QED
    BY <1>1, <1>2, <1>3, PTL DEF PathSpec
=============================================================================
