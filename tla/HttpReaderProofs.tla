-------------------------- MODULE HttpReaderProofs --------------------------
(***************************************************************************)
(* For all limits, timeouts and streams of requests: every byte received   *)
(* is delivered or buffered, in order; the calls return the requests of    *)
(* the stream one by one (the reader implements RequestStream); and no     *)
(* wait for the rest of a request outlives its deadline.                   *)
(***************************************************************************)
EXTENDS HttpReader, WellFoundedInduction, TLAPS

\* What a sequence is.
LEMMA SequenceIs ==
    ASSUME NEW S, NEW n \in Nat, NEW f \in [1..n -> S]
    PROVE  f \in Seq(S) /\ Len(f) = n
  OBVIOUS

LEMMA SequenceFacts ==
    ASSUME NEW S, NEW q \in Seq(S)
    PROVE  /\ Len(q) \in Nat /\ DOMAIN q = 1..Len(q) /\ q \in [1..Len(q) -> S]
           /\ \A i \in 1..Len(q) : q[i] \in S
  OBVIOUS

\* The empty sequence.
LEMMA EmptyFacts ==
    ASSUME NEW S
    PROVE  <<>> \in Seq(S) /\ Len(<<>>) = 0 /\ \A q \in Seq(S) : q # <<>> => Len(q) # 0
  OBVIOUS

\* One sequence after another.
LEMMA JoinFacts ==
    ASSUME NEW S, NEW p \in Seq(S), NEW q \in Seq(S)
    PROVE  /\ p \o q \in Seq(S) /\ Len(p \o q) = Len(p) + Len(q)
           /\ \A i \in 1..Len(p) : (p \o q)[i] = p[i]
           /\ \A i \in (Len(p) + 1)..(Len(p) + Len(q)) : (p \o q)[i] = q[i - Len(p)]
  OBVIOUS

LEMMA JoinAt ==
    ASSUME NEW S, NEW p \in Seq(S), NEW q \in Seq(S)
    PROVE  /\ p \o q \in Seq(S) /\ Len(p \o q) = Len(p) + Len(q)
           /\ \A i \in 1..(Len(p) + Len(q)) : (p \o q)[i] = IF i <= Len(p) THEN p[i] ELSE q[i - Len(p)]
  OBVIOUS

\* One element more.
LEMMA AppendFacts ==
    ASSUME NEW S, NEW q \in Seq(S), NEW e \in S
    PROVE  /\ Append(q, e) \in Seq(S) /\ Len(Append(q, e)) = Len(q) + 1
           /\ Append(q, e)[Len(q) + 1] = e
           /\ \A k \in 1..Len(q) : Append(q, e)[k] = q[k]
  OBVIOUS

\* Sequences with the same elements are equal.
LEMMA SameSequence ==
    ASSUME NEW S, NEW p \in Seq(S), NEW q \in Seq(S),
           Len(p) = Len(q), \A i \in 1..Len(p) : p[i] = q[i]
    PROVE  p = q
  OBVIOUS

-----------------------------------------------------------------------------
(* Concatenation.  The bytes of a stream are a concatenation over a        *)
(* sequence of any length, which the model writes as a recursive function. *)
(* The function exists and satisfies its equation, by induction on the set *)
(* of lengths for which it does.                                           *)

\* Induction over the natural numbers, for a set.
LEMMA SetInduction ==
    ASSUME NEW S, 0 \in S, \A n \in Nat : n \in S => n + 1 \in S
    PROVE  Nat \subseteq S
  <1> DEFINE R == {x \in Nat \X Nat : x[1] < x[2]}
             T == Nat \ S
  <1>1. IsWellFoundedOn(R, Nat)
    BY NatLessThanWellFounded, Zenon DEF OpToRel
  <1>2. SUFFICES ASSUME T # {} PROVE FALSE
    BY Zenon
  <1>3. PICK x \in T : \A y \in T : ~ (<<y, x>> \in R)
    <2>1. T \subseteq Nat
      BY Zenon
    <2> HIDE DEF R, T
    <2> QED
      BY <1>1, <1>2, <2>1, WFMin, Zenon
  <1>4. x \in Nat /\ x # 0 /\ x - 1 \in Nat
    OBVIOUS
  <1>5. x - 1 \notin T
    <2>1. <<x - 1, x>> \in R
      BY <1>4
    <2> QED
      BY <1>3, <2>1, Zenon
  <1>6. x - 1 \in S
    BY <1>4, <1>5, Zenon
  <1> QED
    BY <1>4, <1>6

Link(a, b) == a \o b

\* f[k] is m[1] \o ... \o m[k].
Chain(f, n, m) ==
    /\ f = [k \in 0..n |-> f[k]]
    /\ f[0] = <<>>
    /\ \A k \in 1..n : f[k] = Link(f[k - 1], m[k])

\* A function that concatenates m[1], ..., m[k] for every k up to n exists.
LEMMA ChainExists ==
    ASSUME NEW m, NEW n \in Nat
    PROVE  \E f : Chain(f, n, m)
  <1> DEFINE S == {j \in Nat : \E f : Chain(f, j, m)}
  <1>1. 0 \in S
    <2> DEFINE f == [k \in 0..0 |-> <<>>]
    <2>1. f = [k \in 0..0 |-> f[k]] /\ f[0] = <<>> /\ 1..0 = {}
      OBVIOUS
    <2> HIDE DEF f
    <2>2. Chain(f, 0, m)
      BY <2>1, Zenon DEF Chain
    <2> QED
      BY <2>2, Zenon
  <1>2. ASSUME NEW j \in Nat, j \in S PROVE j + 1 \in S
    <2>1. PICK f : Chain(f, j, m)
      BY <1>2, Zenon
    <2> DEFINE g == [k \in 0..(j + 1) |-> IF k <= j THEN f[k] ELSE Link(f[j], m[j + 1])]
    <2>2. g = [k \in 0..(j + 1) |-> g[k]]
      BY Zenon
    <2>3. g[0] = <<>>
      BY <2>1 DEF Chain
    <2>4. ASSUME NEW k \in 1..(j + 1) PROVE g[k] = Link(g[k - 1], m[k])
      <3>1. CASE k \in 1..j
        <4>1. f[k] = Link(f[k - 1], m[k])
          BY <2>1, <3>1, Zenon DEF Chain
        <4>2. g[k] = f[k] /\ g[k - 1] = f[k - 1]
          BY <3>1
        <4> QED
          BY <4>1, <4>2, Zenon
      <3>2. CASE k = j + 1
        BY <3>2
      <3> QED
        BY <3>1, <3>2
    <2> HIDE DEF g
    <2>5. Chain(g, j + 1, m)
      BY <2>2, <2>3, <2>4, Zenon DEF Chain
    <2> QED
      BY <2>5
  <1> HIDE DEF S
  <1>3. n \in S
    BY <1>1, <1>2, SetInduction, Zenon
  <1> QED
    BY <1>3, Zenon DEF S

\* The defining equation of such a function.
LEMMA ChainEquation ==
    ASSUME NEW m, NEW n \in Nat, NEW f
    PROVE  Chain(f, n, m) <=>
               f = [k \in 0..n |-> IF k = 0 THEN <<>> ELSE Link(f[k - 1], m[k])]
  <1> DEFINE e == [k \in 0..n |-> IF k = 0 THEN <<>> ELSE Link(f[k - 1], m[k])]
  <1>1. ASSUME Chain(f, n, m) PROVE f = e
    <2>1. \A k \in 0..n : f[k] = e[k]
      BY <1>1 DEF Chain
    <2>2. f = [k \in 0..n |-> f[k]]
      BY <1>1, Zenon DEF Chain
    <2> QED
      BY <2>1, <2>2, Zenon
  <1>2. ASSUME f = e PROVE Chain(f, n, m)
    <2>1. e[0] = <<>> /\ \A k \in 1..n : e[k] = Link(f[k - 1], m[k])
      OBVIOUS
    <2>2. e = [k \in 0..n |-> e[k]]
      BY Zenon
    <2> HIDE DEF e
    <2> QED
      BY <1>2, <2>1, <2>2, Zenon DEF Chain
  <1> QED
    BY <1>1, <1>2, Zenon

\* A function defined by that recursion obeys it.
LEMMA ChainChosen ==
    ASSUME NEW m, NEW n \in Nat
    PROVE  Chain(CHOOSE f : f = [k \in 0..n |-> IF k = 0 THEN <<>> ELSE f[k - 1] \o m[k]], n, m)
  <1> DEFINE Obeys(f) == f = [k \in 0..n |-> IF k = 0 THEN <<>> ELSE f[k - 1] \o m[k]]
  <1>1. \A f : Chain(f, n, m) <=> Obeys(f)
    BY ChainEquation, Zenon DEF Link
  <1>2. \E f : Obeys(f)
    BY <1>1, ChainExists, Zenon
  <1>3. Obeys(CHOOSE f : Obeys(f))
    BY <1>2, Zenon
  <1> QED
    BY <1>1, <1>3, Zenon

-----------------------------------------------------------------------------
(* The bytes of a stream of requests.                                      *)

Byte == Nat \X Nat
Size(s, k) == s[k].header + s[k].body
Message(s, k) == [i \in 1..(s[k].header + s[k].body) |-> <<k, i>>]
Messages(s) == [k \in 1..Len(s) |-> Message(s, k)]

\* The bytes of the first k requests of s, for every k.
BytesOf(s) ==
    LET bytes[k \in 0..Len(s)] ==
            IF k = 0 THEN <<>>
            ELSE bytes[k - 1] \o [i \in 1..(s[k].header + s[k].body) |-> <<k, i>>]
    IN bytes

LEMMA StreamBytesIs == StreamBytes = BytesOf(stream)[Len(stream)]
  BY Zenon DEF StreamBytes, BytesOf

LEMMA BytesChain ==
    ASSUME NEW s \in Seq(Sendable)
    PROVE  Chain(BytesOf(s), Len(s), Messages(s))
  <1> DEFINE Obeys(f) == f = [k \in 0..Len(s) |->
                 IF k = 0 THEN <<>>
                 ELSE f[k - 1] \o [i \in 1..(s[k].header + s[k].body) |-> <<k, i>>]]
  <1>0. Len(s) \in Nat
    OBVIOUS
  <1>1. ASSUME NEW f PROVE Chain(f, Len(s), Messages(s)) <=> Obeys(f)
    <2> DEFINE e == [k \in 0..Len(s) |-> IF k = 0 THEN <<>> ELSE Link(f[k - 1], Messages(s)[k])]
               g == [k \in 0..Len(s) |-> IF k = 0 THEN <<>> ELSE Link(f[k - 1], Message(s, k))]
    <2>1. ASSUME NEW k \in 0..Len(s) PROVE e[k] = g[k]
      <3>1. k # 0 => Messages(s)[k] = Message(s, k)
        BY <1>0 DEF Messages
      <3> QED
        BY <3>1, Zenon
    <2>2. e = g
      BY <2>1, Zenon
    <2>3. Chain(f, Len(s), Messages(s)) <=> f = e
      <3> DEFINE m == Messages(s)
                 n == Len(s)
      <3> HIDE DEF m, n
      <3>1. n \in Nat
        BY <1>0, Zenon DEF n
      <3>2. Chain(f, n, m) <=> f = [k \in 0..n |-> IF k = 0 THEN <<>> ELSE Link(f[k - 1], m[k])]
        BY <3>1, ChainEquation
      <3> QED
        BY <3>2, Zenon DEF m, n
    <2>4. Obeys(f) <=> f = g
      BY Zenon DEF Link, Message
    <2> QED
      BY <2>2, <2>3, <2>4, Zenon
  <1>2. \E f : Obeys(f)
    BY <1>0, <1>1, ChainExists, Zenon
  <1>3. Obeys(CHOOSE f : Obeys(f))
    BY <1>2, Zenon
  <1> QED
    BY <1>1, <1>3, Zenon DEF BytesOf

\* A message has the size of its request.
LEMMA MessageFacts ==
    ASSUME NEW s \in Seq(Sendable), NEW k \in 1..Len(s)
    PROVE  /\ s[k] \in Sendable /\ s[k].header \in Nat \ {0} /\ s[k].body \in Nat
           /\ Size(s, k) \in Nat
           /\ Message(s, k) \in Seq(Byte) /\ Len(Message(s, k)) = Size(s, k)
           /\ \A i \in 1..Size(s, k) : Message(s, k)[i] = <<k, i>>
  <1>1. s[k] \in Sendable
    BY SequenceFacts, Zenon
  <1>2. s[k].header \in Nat \ {0} /\ s[k].body \in Nat
    BY <1>1, Zenon DEF Sendable
  <1>3. Size(s, k) \in Nat
    BY <1>2 DEF Size
  <1>4. Message(s, k) = [i \in 1..Size(s, k) |-> <<k, i>>]
    BY Zenon DEF Message, Size
  <1>5. k \in Nat
    OBVIOUS
  <1>6. Message(s, k) \in [1..Size(s, k) -> Byte]
    BY <1>3, <1>4, <1>5 DEF Byte
  <1>7. Message(s, k) \in Seq(Byte)
    BY <1>3, <1>6, SequenceIs, Zenon
  <1>8. Len(Message(s, k)) = Size(s, k)
    BY <1>3, <1>6, <1>7, SequenceFacts
  <1>9. \A i \in 1..Size(s, k) : Message(s, k)[i] = <<k, i>>
    BY <1>4, Zenon
  <1> QED
    BY <1>1, <1>2, <1>3, <1>7, <1>8, <1>9, Zenon

Begins(u, v) == Len(u) <= Len(v) /\ \A i \in 1..Len(u) : v[i] = u[i]

\* One request more: what was there, then its message.
LEMMA BytesStep ==
    ASSUME NEW s \in Seq(Sendable), NEW k \in 1..Len(s), BytesOf(s)[k - 1] \in Seq(Byte)
    PROVE  /\ BytesOf(s)[k] \in Seq(Byte)
           /\ Len(BytesOf(s)[k]) = Len(BytesOf(s)[k - 1]) + Size(s, k)
           /\ Begins(BytesOf(s)[k - 1], BytesOf(s)[k])
           /\ \A i \in 1..Size(s, k) : BytesOf(s)[k][Len(BytesOf(s)[k - 1]) + i] = <<k, i>>
  <1> DEFINE u == BytesOf(s)[k - 1]
             v == BytesOf(s)[k]
             w == Message(s, k)
             n == Size(s, k)
  <1>1. v = u \o w
    BY BytesChain, Zenon DEF Chain, Link, Messages
  <1>2. /\ w \in Seq(Byte) /\ Len(w) = n /\ n \in Nat
        /\ \A i \in 1..n : w[i] = <<k, i>>
    BY MessageFacts, Zenon
  <1>3. u \in Seq(Byte) /\ Len(u) \in Nat
    BY SequenceFacts, Zenon
  <1> HIDE DEF u, v, w, n
  <1>4. /\ v \in Seq(Byte) /\ Len(v) = Len(u) + n
        /\ \A i \in 1..(Len(u) + n) : v[i] = IF i <= Len(u) THEN u[i] ELSE w[i - Len(u)]
    <2>1. /\ u \o w \in Seq(Byte) /\ Len(u \o w) = Len(u) + Len(w)
          /\ \A i \in 1..(Len(u) + Len(w)) :
                (u \o w)[i] = IF i <= Len(u) THEN u[i] ELSE w[i - Len(u)]
      BY <1>2, <1>3, JoinAt, Zenon
    <2>2. /\ v \in Seq(Byte) /\ Len(v) = Len(u) + Len(w)
          /\ \A i \in 1..(Len(u) + Len(w)) : v[i] = IF i <= Len(u) THEN u[i] ELSE w[i - Len(u)]
      BY <1>1, <2>1, Zenon
    <2>3. Len(w) = n
      BY <1>2, Zenon
    <2> QED
      BY <2>2, <2>3, Zenon
  <1>5. Begins(u, v)
    BY <1>2, <1>3, <1>4 DEF Begins
  <1>6. ASSUME NEW i \in 1..n PROVE v[Len(u) + i] = <<k, i>>
    <2> DEFINE p == Len(u) + i
    <2>1. p \in 1..(Len(u) + n) /\ ~(p <= Len(u)) /\ p - Len(u) = i
      BY <1>2, <1>3, SMTT(60)
    <2> HIDE DEF p
    <2>2. v[p] = IF p <= Len(u) THEN u[p] ELSE w[p - Len(u)]
      BY <1>4, <2>1, Zenon
    <2>3. v[p] = w[i]
      BY <2>1, <2>2
    <2>4. v[p] = <<k, i>>
      BY <1>2, <2>3, Zenon
    <2> QED
      BY <2>4, Zenon DEF p
  <1> QED
    BY <1>4, <1>5, <1>6, Zenon DEF u, v, w, n

\* Beginnings of beginnings.
LEMMA BeginsTransitive ==
    ASSUME NEW u \in Seq(Byte), NEW v \in Seq(Byte), NEW w \in Seq(Byte),
           Begins(u, v), Begins(v, w)
    PROVE  Begins(u, w)
  BY SequenceFacts DEF Begins

\* The bytes of the first k requests are sequences of bytes and begin the whole.
LEMMA BytesFacts ==
    ASSUME NEW s \in Seq(Sendable), NEW k \in 0..Len(s)
    PROVE  /\ BytesOf(s)[0] = <<>>
           /\ BytesOf(s)[k] \in Seq(Byte) /\ BytesOf(s)[Len(s)] \in Seq(Byte)
           /\ Begins(BytesOf(s)[k], BytesOf(s)[Len(s)])
  <1>0. Len(s) \in Nat
    OBVIOUS
  <1>1. BytesOf(s)[0] = <<>>
    BY BytesChain, Zenon DEF Chain
  <1>2. \A j \in 0..Len(s) : BytesOf(s)[j] \in Seq(Byte)
    <2> DEFINE S == {j \in Nat : j <= Len(s) => BytesOf(s)[j] \in Seq(Byte)}
    <2>1. 0 \in S
      BY <1>1, EmptyFacts, Zenon
    <2>2. ASSUME NEW j \in Nat, j \in S PROVE j + 1 \in S
      <3>1. CASE j + 1 <= Len(s)
        <4>1. j + 1 \in 1..Len(s) /\ (j + 1) - 1 = j /\ BytesOf(s)[j] \in Seq(Byte)
          BY <1>0, <2>2, <3>1
        <4>2. BytesOf(s)[j + 1] \in Seq(Byte)
          BY <4>1, BytesStep, Zenon
        <4> QED
          BY <4>2
      <3> QED
        BY <3>1
    <2> HIDE DEF S
    <2>3. Nat \subseteq S
      BY <2>1, <2>2, SetInduction, Zenon
    <2> QED
      BY <1>0, <2>3 DEF S
  <1>3. \A d \in 0..(Len(s) - k) : Begins(BytesOf(s)[k], BytesOf(s)[k + d])
    <2> DEFINE S == {d \in Nat : k + d <= Len(s) => Begins(BytesOf(s)[k], BytesOf(s)[k + d])}
    <2>1. 0 \in S
      <3>1. Begins(BytesOf(s)[k], BytesOf(s)[k])
        BY <1>2, SequenceFacts DEF Begins
      <3>2. k + 0 = k
        OBVIOUS
      <3> QED
        BY <3>1, <3>2, Zenon
    <2>2. ASSUME NEW d \in Nat, d \in S PROVE d + 1 \in S
      <3>1. CASE k + (d + 1) <= Len(s)
        <4> DEFINE j == k + (d + 1)
        <4>1. j \in 1..Len(s) /\ j - 1 = k + d /\ j \in 0..Len(s) /\ k + d \in 0..Len(s)
          BY <1>0, <3>1
        <4>2. Begins(BytesOf(s)[k], BytesOf(s)[k + d])
          BY <1>0, <2>2, <4>1
        <4> HIDE DEF j
        <4>3. Begins(BytesOf(s)[j - 1], BytesOf(s)[j])
          BY <1>2, <4>1, BytesStep, Zenon
        <4>4. Begins(BytesOf(s)[k], BytesOf(s)[j])
          BY <1>2, <4>1, <4>2, <4>3, BeginsTransitive, Zenon
        <4> QED
          BY <4>4 DEF j
      <3> QED
        BY <3>1
    <2> HIDE DEF S
    <2>3. Nat \subseteq S
      BY <2>1, <2>2, SetInduction
    <2>4. ASSUME NEW d \in 0..(Len(s) - k) PROVE Begins(BytesOf(s)[k], BytesOf(s)[k + d])
      <3>1. d \in Nat /\ k + d <= Len(s)
        BY <1>0
      <3> QED
        BY <2>3, <3>1, Zenon DEF S
    <2> QED
      BY <2>4, Zenon
  <1>4. Len(s) - k \in 0..(Len(s) - k) /\ k + (Len(s) - k) = Len(s) /\ Len(s) \in 0..Len(s)
    BY <1>0
  <1> QED
    BY <1>1, <1>2, <1>3, <1>4, Zenon

Offset(s, k) == Len(BytesOf(s)[k])
Total(s) == BytesOf(s)[Len(s)]

\* Where request k + 1 lies in the stream.
LEMMA StreamShape ==
    ASSUME NEW s \in Seq(Sendable), NEW k \in 0..Len(s)
    PROVE  /\ Total(s) \in Seq(Byte) /\ Len(Total(s)) \in Nat
           /\ Offset(s, 0) = 0
           /\ Offset(s, k) \in Nat /\ Offset(s, k) <= Len(Total(s))
           /\ k = Len(s) => Offset(s, k) = Len(Total(s))
           /\ k < Len(s) =>
                 /\ Offset(s, k + 1) = Offset(s, k) + Size(s, k + 1)
                 /\ Offset(s, k + 1) <= Len(Total(s))
                 /\ \A i \in 1..Size(s, k + 1) : Total(s)[Offset(s, k) + i] = <<k + 1, i>>
  <1>0. Len(s) \in Nat /\ k \in Nat
    OBVIOUS
  <1>1. /\ BytesOf(s)[k] \in Seq(Byte) /\ Total(s) \in Seq(Byte)
        /\ Begins(BytesOf(s)[k], Total(s)) /\ BytesOf(s)[0] = <<>>
    BY BytesFacts, Zenon DEF Total
  <1>2. /\ Len(Total(s)) \in Nat /\ Offset(s, k) \in Nat /\ Offset(s, 0) = 0
        /\ Offset(s, k) <= Len(Total(s))
    <2>1. Len(BytesOf(s)[k]) \in Nat /\ Len(Total(s)) \in Nat
      BY <1>1, SequenceFacts, Zenon
    <2>2. Len(<<>>) = 0
      BY EmptyFacts, Zenon
    <2> QED
      BY <1>1, <2>1, <2>2, Zenon DEF Begins, Offset
  <1>3. k = Len(s) => Offset(s, k) = Len(Total(s))
    BY Zenon DEF Offset, Total
  <1>4. ASSUME k < Len(s)
        PROVE  /\ Offset(s, k + 1) = Offset(s, k) + Size(s, k + 1)
               /\ Offset(s, k + 1) <= Len(Total(s))
               /\ \A i \in 1..Size(s, k + 1) : Total(s)[Offset(s, k) + i] = <<k + 1, i>>
    <2> DEFINE j == k + 1
    <2>1. j \in 1..Len(s) /\ j \in 0..Len(s) /\ j - 1 = k
      BY <1>0, <1>4
    <2>2. Begins(BytesOf(s)[j], Total(s)) /\ BytesOf(s)[j] \in Seq(Byte)
      BY <2>1, BytesFacts, Zenon DEF Total
    <2> HIDE DEF j
    <2>3. /\ Offset(s, j) = Offset(s, k) + Size(s, j)
          /\ \A i \in 1..Size(s, j) : BytesOf(s)[j][Offset(s, k) + i] = <<j, i>>
      BY <1>1, <2>1, BytesStep, Zenon DEF Offset
    <2>4. Offset(s, j) <= Len(Total(s))
      BY <2>2, Zenon DEF Begins, Offset
    <2>5. Size(s, j) \in Nat
      BY <2>1, MessageFacts, Zenon
    <2>6. ASSUME NEW i \in 1..Size(s, j) PROVE Total(s)[Offset(s, k) + i] = <<j, i>>
      <3>1. Offset(s, k) + i \in 1..Offset(s, j)
        BY <1>2, <2>3, <2>5
      <3>2. Total(s)[Offset(s, k) + i] = BytesOf(s)[j][Offset(s, k) + i]
        BY <2>2, <3>1, Zenon DEF Begins, Offset
      <3> QED
        BY <2>3, <3>2, Zenon
    <2> QED
      BY <2>3, <2>4, <2>6, Zenon DEF j
  <1> QED
    BY <1>1, <1>2, <1>3, <1>4, Zenon

-----------------------------------------------------------------------------
(* The buffer.                                                             *)

\* d holds the bytes of s behind the first k requests, up to byte r.
Buffered(s, k, r, d) ==
    /\ k <= Len(s)
    /\ r = Offset(s, k) + Len(d)
    /\ r <= Len(Total(s))
    /\ \A p \in 1..Len(d) : d[p] = Total(s)[Offset(s, k) + p]

Ends(s, d) == {p \in DOMAIN d : d[p][2] = s[d[p][1]].header}

\* As long as the buffer holds bytes of one request only, they are named in order.
LEMMA BufferedBytes ==
    ASSUME NEW s \in Seq(Sendable), NEW k \in Nat, NEW r, NEW d \in Seq(Byte),
           Buffered(s, k, r, d), k < Len(s),
           NEW p \in 1..Len(d), p <= Size(s, k + 1)
    PROVE  d[p] = <<k + 1, p>>
  <1>1. k \in 0..Len(s) /\ k + 1 \in 1..Len(s)
    OBVIOUS
  <1>2. Size(s, k + 1) \in Nat
    BY <1>1, MessageFacts, Zenon
  <1>3. p \in 1..Size(s, k + 1)
    BY <1>2
  <1>4. \A i \in 1..Size(s, k + 1) : Total(s)[Offset(s, k) + i] = <<k + 1, i>>
    BY <1>1, StreamShape, Zenon
  <1> QED
    BY <1>3, <1>4, Zenon DEF Buffered

\* The first header that ends in the buffer is that of the request at its front.
LEMMA HeaderInBuffer ==
    ASSUME NEW s \in Seq(Sendable), NEW k \in Nat, NEW r, NEW d \in Seq(Byte),
           Buffered(s, k, r, d), k < Len(s), s[k + 1].header <= Len(d)
    PROVE  /\ Ends(s, d) # {} /\ Min(Ends(s, d)) = s[k + 1].header
           /\ d[s[k + 1].header][1] = k + 1
  <1> DEFINE h == s[k + 1].header
  <1>1. k + 1 \in 1..Len(s)
    OBVIOUS
  <1>2. h \in Nat \ {0} /\ s[k + 1].body \in Nat /\ Size(s, k + 1) = h + s[k + 1].body
    BY <1>1, MessageFacts, Zenon DEF Size
  <1>3. DOMAIN d = 1..Len(d) /\ Len(d) \in Nat
    BY SequenceFacts, Zenon
  <1>4. h \in 1..Len(d) /\ h <= Size(s, k + 1)
    BY <1>2, <1>3, SMTT(60)
  <1>5. d[h] = <<k + 1, h>>
    BY <1>4, BufferedBytes, Zenon
  <1>6. h \in Ends(s, d)
    BY <1>3, <1>4, <1>5 DEF Ends
  <1>7. ASSUME NEW p \in Ends(s, d) PROVE h <= p
    <2>1. p \in 1..Len(d) /\ d[p][2] = s[d[p][1]].header
      BY <1>3, Zenon DEF Ends
    <2> SUFFICES ASSUME p < h PROVE FALSE
      BY <1>2, <1>3, <2>1
    <2>2. p <= Size(s, k + 1)
      BY <1>2, <1>3, <2>1, SMTT(60)
    <2>3. d[p] = <<k + 1, p>>
      BY <2>1, <2>2, BufferedBytes, Zenon
    <2> QED
      BY <1>2, <2>1, <2>3
  <1> HIDE DEF h
  <1>8. Ends(s, d) \subseteq Int
    BY <1>3 DEF Ends
  <1>9. Min(Ends(s, d)) = h
    <2> DEFINE E == Ends(s, d)
    <2> HIDE DEF E
    <2>1. \A x, y \in E : x <= y /\ y <= x => x = y
      BY <1>8 DEF E
    <2>2. h \in E /\ \A y \in E : h <= y
      BY <1>6, <1>7, Zenon DEF E
    <2>3. Min(E) = h
      BY <2>1, <2>2, Zenon DEF Min
    <2> QED
      BY <2>3, Zenon DEF E
  <1> QED
    BY <1>5, <1>6, <1>9 DEF h

\* No header ends in the buffer before the whole header of that request is there.
LEMMA NoHeaderInBuffer ==
    ASSUME NEW s \in Seq(Sendable), NEW k \in Nat, NEW r, NEW d \in Seq(Byte),
           Buffered(s, k, r, d), k = Len(s) \/ Len(d) < s[k + 1].header
    PROVE  Ends(s, d) = {}
  <1> SUFFICES ASSUME NEW p \in Ends(s, d) PROVE FALSE
    BY Zenon
  <1>1. DOMAIN d = 1..Len(d) /\ Len(d) \in Nat
    BY SequenceFacts, Zenon
  <1>2. p \in 1..Len(d) /\ d[p][2] = s[d[p][1]].header
    BY <1>1, Zenon DEF Ends
  <1>3. CASE k = Len(s)
    <2>1. Offset(s, k) \in Nat /\ Offset(s, k) = Len(Total(s))
      BY <1>3, StreamShape
    <2> QED
      BY <1>1, <1>2, <2>1 DEF Buffered
  <1>4. CASE k # Len(s)
    <2>1. k < Len(s) /\ k + 1 \in 1..Len(s)
      BY <1>4 DEF Buffered
    <2>2. /\ s[k + 1].header \in Nat \ {0} /\ s[k + 1].body \in Nat
          /\ Size(s, k + 1) = s[k + 1].header + s[k + 1].body
      BY <2>1, MessageFacts, Zenon DEF Size
    <2>3. p <= Size(s, k + 1) /\ p # s[k + 1].header
      BY <1>1, <1>2, <1>4, <2>2, SMTT(60)
    <2>4. d[p] = <<k + 1, p>>
      BY <1>2, <2>1, <2>3, BufferedBytes, Zenon
    <2> QED
      BY <1>2, <2>3, <2>4
  <1> QED
    BY <1>3, <1>4, Zenon

\* Nothing was read yet.
LEMMA BufferedFirst ==
    ASSUME NEW s \in Seq(Sendable)
    PROVE  Buffered(s, 0, 0, <<>>)
  <1>1. 0 \in 0..Len(s)
    OBVIOUS
  <1>2. Len(Total(s)) \in Nat /\ Offset(s, 0) = 0
    BY <1>1, StreamShape, Zenon
  <1>3. Len(<<>>) = 0 /\ 1..0 = {} /\ 0 <= Len(s)
    BY EmptyFacts
  <1> QED
    BY <1>2, <1>3 DEF Buffered

\* The n bytes of d behind the first a.
LEMMA SegmentFacts ==
    ASSUME NEW d \in Seq(Byte), NEW a \in Nat, NEW n \in Nat, a + n <= Len(d)
    PROVE  /\ SubSeq(d, a + 1, a + n) \in Seq(Byte)
           /\ Len(SubSeq(d, a + 1, a + n)) = n
           /\ \A i \in 1..n : SubSeq(d, a + 1, a + n)[i] = d[a + i]
  BY SMTT(60)

\* e is d with the next n bytes of s appended, as recv leaves the buffer.
Extends(s, k, r, d, n, e) ==
    /\ s \in Seq(Sendable) /\ k \in Nat /\ r \in Nat /\ d \in Seq(Byte)
    /\ Buffered(s, k, r, d)
    /\ n \in Nat /\ r + n <= Len(Total(s))
    /\ e = d \o SubSeq(Total(s), r + 1, r + n)

LEMMA BufferedRecv ==
    ASSUME NEW s, NEW k, NEW r, NEW d, NEW n, NEW e, Extends(s, k, r, d, n, e)
    PROVE  e \in Seq(Byte) /\ Len(e) = Len(d) + n /\ Buffered(s, k, r + n, e)
  <1>0. /\ s \in Seq(Sendable) /\ k \in Nat /\ r \in Nat /\ d \in Seq(Byte)
        /\ Buffered(s, k, r, d) /\ n \in Nat /\ r + n <= Len(Total(s))
    BY Zenon DEF Extends
  <1> DEFINE t == Total(s)
             u == SubSeq(t, r + 1, r + n)
             o == Offset(s, k)
  <1>1. k \in 0..Len(s)
    BY <1>0 DEF Buffered
  <1>2. t \in Seq(Byte) /\ Len(t) \in Nat /\ o \in Nat /\ Len(d) \in Nat
    BY <1>0, <1>1, StreamShape, SequenceFacts, Zenon
  <1>3. /\ k <= Len(s) /\ r = o + Len(d) /\ \A p \in 1..Len(d) : d[p] = t[o + p]
    BY <1>0, Zenon DEF Buffered
  <1> HIDE DEF t, o
  <1>4. u \in Seq(Byte) /\ Len(u) = n /\ \A i \in 1..n : u[i] = t[r + i]
    <2>1. r + n <= Len(t)
      BY <1>0, Zenon DEF t
    <2> QED
      BY <1>0, <1>2, <2>1, SegmentFacts, ZenonT(60) DEF u
  <1> HIDE DEF u
  <1>5. /\ d \o u \in Seq(Byte) /\ Len(d \o u) = Len(d) + n
        /\ \A i \in 1..(Len(d) + n) : (d \o u)[i] = IF i <= Len(d) THEN d[i] ELSE u[i - Len(d)]
    <2>1. /\ d \o u \in Seq(Byte) /\ Len(d \o u) = Len(d) + Len(u)
          /\ \A i \in 1..(Len(d) + Len(u)) :
                (d \o u)[i] = IF i <= Len(d) THEN d[i] ELSE u[i - Len(d)]
      BY <1>0, <1>4, JoinAt, Zenon
    <2>2. Len(u) = n
      BY <1>4, Zenon
    <2> QED
      BY <2>1, <2>2, Zenon
  <1>6. ASSUME NEW p \in 1..(Len(d) + n) PROVE (d \o u)[p] = t[o + p]
    <2>1. CASE p <= Len(d)
      BY <1>0, <1>2, <1>3, <1>5, <2>1
    <2>2. CASE ~(p <= Len(d))
      <3>1. p - Len(d) \in 1..n /\ r + (p - Len(d)) = o + p
        BY <1>0, <1>2, <1>3, <2>2
      <3>2. u[p - Len(d)] = t[o + p]
        BY <1>4, <3>1, Zenon
      <3> QED
        BY <1>5, <2>2, <3>2, Zenon
    <2> QED
      BY <2>1, <2>2, Zenon
  <1>7. r + n = o + (Len(d) + n)
    BY <1>0, <1>2, <1>3
  <1>8. e = d \o u
    BY Zenon DEF Extends, u, t
  <1>9. Buffered(s, k, r + n, e)
    BY <1>0, <1>3, <1>5, <1>6, <1>7, <1>8, Zenon DEF Buffered, t, o
  <1> QED
    BY <1>5, <1>8, <1>9, Zenon

\* take_message cuts off exactly the message of the request at the front.
LEMMA BufferedTake ==
    ASSUME NEW s \in Seq(Sendable), NEW k \in Nat, NEW r \in Nat, NEW d \in Seq(Byte),
           Buffered(s, k, r, d), k < Len(s), Size(s, k + 1) <= Len(d)
    PROVE  /\ SubSeq(d, 1, Size(s, k + 1)) = Message(s, k + 1)
           /\ SubSeq(d, Size(s, k + 1) + 1, Len(d)) \in Seq(Byte)
           /\ Len(SubSeq(d, Size(s, k + 1) + 1, Len(d))) <= Len(d)
           /\ Buffered(s, k + 1, r, SubSeq(d, Size(s, k + 1) + 1, Len(d)))
  <1> DEFINE z == Size(s, k + 1)
             u == SubSeq(d, 1, z)
             v == SubSeq(d, z + 1, Len(d))
             m == Message(s, k + 1)
             t == Total(s)
  <1>1. k \in 0..Len(s) /\ k + 1 \in 1..Len(s) /\ Len(d) \in Nat
    BY SequenceFacts
  <1>2. z \in Nat /\ m \in Seq(Byte) /\ Len(m) = z /\ \A i \in 1..z : m[i] = <<k + 1, i>>
    BY <1>1, MessageFacts, Zenon
  <1>3. /\ Offset(s, k) \in Nat /\ Offset(s, k + 1) = Offset(s, k) + z
        /\ Offset(s, k + 1) <= Len(t) /\ Len(t) \in Nat
    BY <1>1, StreamShape, Zenon
  <1>4. ASSUME NEW i \in 1..z PROVE d[i] = <<k + 1, i>>
    <2>1. i \in 1..Len(d) /\ i <= z
      BY <1>1, <1>2
    <2> QED
      BY <2>1, BufferedBytes, Zenon
  <1>5. r = Offset(s, k) + Len(d) /\ r <= Len(t) /\ \A p \in 1..Len(d) : d[p] = t[Offset(s, k) + p]
    BY Zenon DEF Buffered
  <1>6. z <= Len(d)
    BY Zenon
  <1> HIDE DEF z, m, t
  <1>7. /\ u \in Seq(Byte) /\ Len(u) = z /\ \A i \in 1..z : u[i] = d[i]
    BY <1>2, <1>6
  <1>8. /\ v \in Seq(Byte) /\ Len(v) = Len(d) - z /\ \A i \in 1..(Len(d) - z) : v[i] = d[z + i]
    BY <1>1, <1>2, <1>6, SMTT(60)
  <1> HIDE DEF u, v
  <1>9. u = m
    <2>1. \A i \in 1..Len(u) : u[i] = m[i]
      BY <1>2, <1>4, <1>7, Zenon
    <2> QED
      BY <1>2, <1>7, <2>1, SameSequence, Zenon
  <1>10. ASSUME NEW p \in 1..Len(v) PROVE v[p] = t[Offset(s, k + 1) + p]
    <2>1. p \in 1..(Len(d) - z) /\ z + p \in 1..Len(d) /\ Offset(s, k) + (z + p) = Offset(s, k + 1) + p
      BY <1>1, <1>2, <1>3, <1>6, <1>8, SMTT(60)
    <2> QED
      BY <1>5, <1>8, <2>1, Zenon
  <1>11. k + 1 <= Len(s) /\ r = Offset(s, k + 1) + Len(v) /\ Len(v) <= Len(d)
    BY <1>1, <1>2, <1>3, <1>5, <1>8, SMTT(60)
  <1>12. Buffered(s, k + 1, r, v)
    BY <1>5, <1>10, <1>11, Zenon DEF Buffered, t
  <1> QED
    BY <1>8, <1>9, <1>11, <1>12, Zenon DEF u, v, m, z

\* The messages delivered so far, end to end, are the bytes of their requests.
LEMMA FlatIsBytes ==
    ASSUME NEW s \in Seq(Sendable), NEW d, NEW k \in 0..Len(s), NEW f, Chain(f, k, d),
           \A j \in 1..k : d[j] = Message(s, j)
    PROVE  f[k] = BytesOf(s)[k]
  <1> DEFINE S == {j \in Nat : j <= k => f[j] = BytesOf(s)[j]}
  <1>0. Len(s) \in Nat /\ k \in Nat
    OBVIOUS
  <1>1. 0 \in S
    <2>1. f[0] = <<>> /\ BytesOf(s)[0] = <<>>
      BY BytesChain, Zenon DEF Chain
    <2> QED
      BY <2>1, Zenon
  <1>2. ASSUME NEW j \in Nat, j \in S PROVE j + 1 \in S
    <2>1. CASE j + 1 <= k
      <3> DEFINE i == j + 1
      <3>1. i \in 1..k /\ i \in 1..Len(s) /\ i - 1 = j /\ f[j] = BytesOf(s)[j]
        BY <1>0, <1>2, <2>1
      <3> HIDE DEF i
      <3>2. f[i] = Link(f[i - 1], d[i]) /\ d[i] = Message(s, i)
        BY <3>1, Zenon DEF Chain
      <3>3. BytesOf(s)[i] = Link(BytesOf(s)[i - 1], Message(s, i))
        BY <3>1, BytesChain, Zenon DEF Chain, Messages
      <3>4. f[i] = BytesOf(s)[i]
        BY <3>1, <3>2, <3>3, Zenon
      <3> QED
        BY <3>4 DEF i
    <2> QED
      BY <2>1
  <1> HIDE DEF S
  <1>3. Nat \subseteq S
    BY <1>1, <1>2, SetInduction, Zenon
  <1> QED
    BY <1>0, <1>3 DEF S

\* Delivered and buffered bytes are what was read.
LEMMA BufferedIsRead ==
    ASSUME NEW s \in Seq(Sendable), NEW k \in Nat, NEW r \in Nat, NEW d \in Seq(Byte),
           Buffered(s, k, r, d)
    PROVE  BytesOf(s)[k] \o d = SubSeq(Total(s), 1, r)
  <1> DEFINE b == BytesOf(s)[k]
             t == Total(s)
  <1>1. k \in 0..Len(s)
    BY DEF Buffered
  <1>2. b \in Seq(Byte) /\ t \in Seq(Byte) /\ Begins(b, t)
    BY <1>1, BytesFacts, Zenon DEF Total
  <1>3. /\ r = Len(b) + Len(d) /\ r <= Len(t)
        /\ \A p \in 1..Len(d) : d[p] = t[Len(b) + p]
    BY Zenon DEF Buffered, Offset
  <1> HIDE DEF b, t
  <1>4. \A p \in 1..Len(b) : t[p] = b[p]
    BY <1>2, Zenon DEF Begins
  <1>5. b \o d \in Seq(Byte) /\ Len(b \o d) = r
    BY <1>2, <1>3
  <1>6. SubSeq(t, 1, r) \in Seq(Byte) /\ Len(SubSeq(t, 1, r)) = r
    BY <1>2, <1>3
  <1>7. ASSUME NEW p \in 1..r PROVE (b \o d)[p] = SubSeq(t, 1, r)[p]
    <2>1. SubSeq(t, 1, r)[p] = t[p]
      BY <1>2, <1>3
    <2>2. CASE p <= Len(b)
      BY <1>2, <1>3, <1>4, <2>1, <2>2, SMTT(60)
    <2>3. CASE ~(p <= Len(b))
      <3>1. p - Len(b) \in 1..Len(d) /\ Len(b) + (p - Len(b)) = p
        BY <1>2, <1>3, <2>3
      <3>2. (b \o d)[p] = d[p - Len(b)]
        BY <1>2, <1>3, <2>3
      <3> QED
        BY <1>3, <2>1, <3>1, <3>2, Zenon
    <2> QED
      BY <2>2, <2>3, Zenon
  <1>8. b \o d = SubSeq(t, 1, r)
    BY <1>5, <1>6, <1>7, SameSequence, Zenon
  <1> QED
    BY <1>8, Zenon DEF b, t

-----------------------------------------------------------------------------
(* ensure_capacity.                                                        *)

GrowStep(g, needed, c) ==
    IF c >= needed THEN c ELSE IF c > MaxMessage \div 2 THEN MaxMessage ELSE g[2 * c]

\* The doubling loop ends, for every capacity it starts from.
LEMMA GrowExists ==
    ASSUME NEW needed \in Nat
    PROVE  \E g : g = [c \in 1..MaxMessage |-> GrowStep(g, needed, c)]
  <1> DEFINE M == MaxMessage
             Done(g, n) == \A c \in 1..M : c > M - n => g[c] = GrowStep(g, needed, c)
             S == {n \in Nat : \E g \in [1..M -> Int] : Done(g, n)}
  <1>0. M \in Nat
    BY LimitsAssumption DEF MaxMessage
  <1>1. 0 \in S
    <2>1. [c \in 1..M |-> 0] \in [1..M -> Int]
      OBVIOUS
    <2>2. Done([c \in 1..M |-> 0], 0)
      BY <1>0
    <2> QED
      BY <2>1, <2>2, Zenon
  <1>2. ASSUME NEW n \in Nat, n \in S PROVE n + 1 \in S
    <2>0. n + 1 \in Nat
      OBVIOUS
    <2>1. PICK g \in [1..M -> Int] : Done(g, n)
      BY <1>2, Zenon
    <2> DEFINE w == M - n
               h == [g EXCEPT ![w] = GrowStep(g, needed, w)]
    <2>2. CASE w \in 1..M
      <3>1. GrowStep(g, needed, w) \in Int
        BY <1>0, <2>2 DEF GrowStep
      <3>2. h \in [1..M -> Int] /\ h[w] = GrowStep(g, needed, w)
            /\ \A c \in 1..M : c # w => h[c] = g[c]
        BY <2>2, <3>1, Zenon
      <3> HIDE DEF h
      <3>3. ASSUME NEW c \in 1..M, c > M - (n + 1) PROVE h[c] = GrowStep(h, needed, c)
        <4>1. c >= w /\ 2 * c # w /\ (~(c > M \div 2) => 2 * c \in 1..M)
          BY <1>0, <2>2, <3>3
        <4>2. ~(c > M \div 2) => h[2 * c] = g[2 * c]
          BY <3>2, <4>1, Zenon
        <4>3. GrowStep(h, needed, c) = GrowStep(g, needed, c)
          BY <4>2, Zenon DEF GrowStep
        <4>4. c # w => c > M - n
          BY <1>0, <4>1
        <4>5. c # w => g[c] = GrowStep(g, needed, c) /\ h[c] = g[c]
          BY <2>1, <3>2, <4>4, Zenon
        <4> QED
          BY <3>2, <4>3, <4>5, Zenon
      <3>4. Done(h, n + 1)
        BY <3>3, Zenon
      <3> HIDE DEF Done
      <3> QED
        BY <2>0, <3>2, <3>4, Zenon
    <2>3. CASE w \notin 1..M
      <3>1. Done(g, n + 1)
        BY <1>0, <2>1, <2>3
      <3> HIDE DEF Done
      <3> QED
        BY <2>0, <3>1, Zenon
    <2> QED
      BY <2>2, <2>3, Zenon
  <1>3. M \in S
    <2> HIDE DEF S, M
    <2> QED
      BY <1>0, <1>1, <1>2, SetInduction, Zenon
  <1>4. PICK g \in [1..M -> Int] : Done(g, M)
    BY <1>3, Zenon
  <1>5. \A c \in 1..M : g[c] = GrowStep(g, needed, c)
    BY <1>0, <1>4
  <1>6. g = [c \in 1..M |-> GrowStep(g, needed, c)]
    <2> DEFINE e == [c \in 1..M |-> GrowStep(g, needed, c)]
    <2>1. \A c \in 1..M : g[c] = e[c]
      BY <1>5, Zenon
    <2> QED
      BY <2>1, Zenon
  <1> QED
    BY <1>6, Zenon

\* ensure_capacity gives at least what is needed, never less than there was and
\* never more than HTTP_MAX_MESSAGE_BYTES.
LEMMA GrownFacts ==
    ASSUME NEW needed \in Nat, needed <= MaxMessage, capacity \in Nat, capacity <= MaxMessage
    PROVE  /\ GrownCapacity(needed) \in Nat
           /\ needed <= GrownCapacity(needed) /\ capacity <= GrownCapacity(needed)
           /\ GrownCapacity(needed) <= MaxMessage
  <1> DEFINE M == MaxMessage
             Obeys(g) == g = [c \in 1..MaxMessage |->
                                IF c >= needed THEN c
                                ELSE IF c > MaxMessage \div 2 THEN MaxMessage
                                ELSE g[2 * c]]
             grow == CHOOSE g : Obeys(g)
             start == IF capacity = 0 THEN InitialCapacity ELSE capacity
  <1>0. M \in Nat /\ start \in 1..M
    BY LimitsAssumption DEF MaxMessage
  <1>1. \E g : Obeys(g)
    BY GrowExists, Zenon DEF GrowStep
  <1>2. Obeys(grow)
    BY <1>1, Zenon
  <1>3. GrownCapacity(needed) = IF needed <= capacity THEN capacity ELSE grow[start]
    BY Zenon DEF GrownCapacity
  <1> HIDE DEF grow
  <1>4. ASSUME NEW c \in 1..M PROVE grow[c] = GrowStep(grow, needed, c)
    BY <1>2, <1>4, Zenon DEF GrowStep
  <1> HIDE DEF Obeys
  <1> DEFINE Fits(c) == grow[c] \in Nat /\ c <= grow[c] /\ needed <= grow[c] /\ grow[c] <= M
             S == {n \in Nat : \A c \in 1..M : c > M - n => Fits(c)}
  <1>5. 0 \in S
    BY <1>0
  <1>6. ASSUME NEW n \in Nat, n \in S PROVE n + 1 \in S
    <2> SUFFICES ASSUME NEW c \in 1..M, c > M - (n + 1) PROVE Fits(c)
      OBVIOUS
    <2>1. grow[c] = GrowStep(grow, needed, c)
      BY <1>4, Zenon
    <2>2. CASE c >= needed
      BY <1>0, <2>1, <2>2, SMTT(60) DEF GrowStep
    <2>3. CASE ~(c >= needed) /\ c > M \div 2
      BY <1>0, <2>1, <2>3 DEF GrowStep
    <2>4. CASE ~(c >= needed) /\ ~(c > M \div 2)
      <3>1. 2 * c \in 1..M /\ 2 * c > M - n
        BY <1>0, <2>4
      <3>2. Fits(2 * c)
        BY <1>6, <3>1, Zenon
      <3>3. grow[c] = grow[2 * c]
        BY <2>1, <2>4, Zenon DEF GrowStep
      <3> QED
        BY <3>2, <3>3
    <2> QED
      BY <2>2, <2>3, <2>4, Zenon
  <1>7. M \in S
    <2> HIDE DEF S, M
    <2> QED
      BY <1>0, <1>5, <1>6, SetInduction, Zenon
  <1>8. Fits(start)
    BY <1>0, <1>7
  <1> QED
    BY <1>0, <1>3, <1>8, LimitsAssumption

\* The smaller of two numbers.
LEMMA MinOfTwo ==
    ASSUME NEW a \in Int, NEW b \in Int
    PROVE  Min({a, b}) = IF a <= b THEN a ELSE b
  <1> DEFINE m == IF a <= b THEN a ELSE b
  <1>1. m \in {a, b} /\ (\A y \in {a, b} : m <= y) /\ \A x, y \in {a, b} : x <= y /\ y <= x => x = y
    OBVIOUS
  <1> HIDE DEF m
  <1>2. Min({a, b}) = m
    BY <1>1, Zenon DEF Min
  <1> QED
    BY <1>2, Zenon DEF m

\* The greater of two numbers.
LEMMA MaxOfTwo ==
    ASSUME NEW a \in Int, NEW b \in Int
    PROVE  Max({a, b}) = IF a >= b THEN a ELSE b
  <1> DEFINE m == IF a >= b THEN a ELSE b
  <1>1. m \in {a, b} /\ (\A y \in {a, b} : m >= y) /\ \A x, y \in {a, b} : x >= y /\ y >= x => x = y
    OBVIOUS
  <1> HIDE DEF m
  <1>2. Max({a, b}) = m
    BY <1>1, ZenonT(60) DEF Max
  <1> QED
    BY <1>2, Zenon DEF m

-----------------------------------------------------------------------------
(* The invariant.                                                          *)

Places == {"idle", "try", "poll", "recv", "returned", "destroyed"}
Reading == {"idle", "try", "poll", "recv"}

Shape ==
    /\ stream \in Streams /\ received \in Nat
    /\ data \in Seq(Byte) /\ delivered \in Seq(Seq(Byte))
    /\ capacity \in Nat /\ Len(data) <= capacity /\ capacity <= MaxMessage

\* What was delivered are the first requests, whole.
Whole ==
    /\ Len(delivered) <= Len(stream)
    /\ \A k \in 1..Len(delivered) : delivered[k] = Message(stream, k)

\* While the connection is read the buffer begins where a request begins.
InPlace == at \in Reading => Buffered(stream, Len(delivered), received, data)

\* What the last call has returned.
Results ==
    /\ at \in Places
    /\ at \in {"try", "poll", "recv"} => result = "NONE"
    /\ at = "idle" => result \in {"NONE", "OK"}

ReaderInv == Shape /\ Whole /\ InPlace /\ Results

\* A header and a body within their limits are a message within its limit.
LEMMA HeaderAndBody ==
    ASSUME MaxHeader \in Nat, MaxBody \in Nat, NEW h \in Nat, NEW b \in Nat
    PROVE  ~(h > MaxHeader) /\ b <= MaxBody =>
              ~(b > MaxMessage - h) /\ h + b <= MaxMessage /\ h + b \in Nat
  BY DEF MaxMessage

\* What http_reader.c finds in the buffer is what the request at its front determines.
LEMMA TryFacts ==
    ASSUME stream \in Seq(Sendable), data \in Seq(Byte), NEW n \in Nat, n = Len(delivered),
           Buffered(stream, n, received, data)
    PROVE  /\ TryExtractLength = "OK" =>
                 /\ n < Len(stream) /\ Requests!Verdict(stream[n + 1]) = "OK"
                 /\ HeaderBytes + First.body = Size(stream, n + 1)
                 /\ Size(stream, n + 1) <= Len(data)
           /\ TryExtractLength \notin {"OK", "NEED_DATA"} =>
                 /\ n < Len(stream) /\ TryExtractLength = Requests!Verdict(stream[n + 1])
                 /\ TryExtractLength \in Verdicts
           /\ TryExtractLength = "NEED_DATA" =>
                 Need \in Nat /\ Len(data) < Need /\ Need <= MaxMessage
  <1> DEFINE r == stream[n + 1]
             h == r.header
             Goal == /\ TryExtractLength = "OK" =>
                           /\ n < Len(stream) /\ Requests!Verdict(r) = "OK"
                           /\ HeaderBytes + First.body = Size(stream, n + 1)
                           /\ Size(stream, n + 1) <= Len(data)
                     /\ TryExtractLength \notin {"OK", "NEED_DATA"} =>
                           /\ n < Len(stream) /\ TryExtractLength = Requests!Verdict(r)
                           /\ TryExtractLength \in Verdicts
                     /\ TryExtractLength = "NEED_DATA" =>
                           Need \in Nat /\ Len(data) < Need /\ Need <= MaxMessage
  <1>0. Len(data) \in Nat /\ MaxHeader \in Nat \ {0} /\ MaxBody \in Nat /\ RecvChunk \in Nat \ {0}
    BY LimitsAssumption, SMTT(60)
  <1>1. ASSUME n < Len(stream), h <= Len(data) PROVE Goal
    <2>1. n + 1 \in 1..Len(stream)
      BY <1>1, SMTT(60)
    <2>2. /\ h \in Nat \ {0} /\ r.body \in Nat /\ Size(stream, n + 1) = h + r.body
          /\ r.framing \in Verdicts /\ (r.framing = "OK" => r.body <= MaxBody)
      BY <2>1, MessageFacts, Zenon DEF Size, Sendable
    <2>3. Ends(stream, data) # {} /\ Min(Ends(stream, data)) = h /\ data[h][1] = n + 1
      BY <1>1, HeaderInBuffer, Zenon
    <2>4. HasHeader /\ HeaderBytes = h
      BY <2>3, Zenon DEF HasHeader, HeaderBytes, HeaderEnds, Ends
    <2>5. First = r
      BY <2>3, <2>4, Zenon DEF First
    <2> HIDE DEF r
    <2>6. TryExtractLength =
             IF h > MaxHeader THEN "TOO_LARGE"
             ELSE IF r.framing # "OK" THEN MapFramingError(r.framing)
             ELSE IF r.body > MaxMessage - h THEN "TOO_LARGE"
             ELSE IF Len(data) < h + r.body THEN "NEED_DATA" ELSE "OK"
      <3> DEFINE inner ==
                   CASE r.framing # "OK" -> MapFramingError(r.framing)
                     [] r.framing = "OK" /\ r.body > MaxMessage - h -> "TOO_LARGE"
                     [] r.framing = "OK" /\ r.body <= MaxMessage - h ->
                          IF Len(data) < h + r.body THEN "NEED_DATA" ELSE "OK"
      <3>1. MaxMessage - h \in Int /\ h + r.body \in Int
        BY <1>0, <2>2 DEF MaxMessage
      <3>2. inner = IF r.framing # "OK" THEN MapFramingError(r.framing)
                    ELSE IF r.body > MaxMessage - h THEN "TOO_LARGE"
                    ELSE IF Len(data) < h + r.body THEN "NEED_DATA" ELSE "OK"
        BY <2>2, <3>1, SMTT(60)
      <3>3. TryExtractLength =
               CASE ~HasHeader -> IF Len(data) >= MaxHeader THEN "TOO_LARGE" ELSE "NEED_DATA"
                 [] HasHeader /\ h > MaxHeader -> "TOO_LARGE"
                 [] HasHeader /\ h <= MaxHeader -> inner
        BY <2>4, <2>5, Zenon DEF TryExtractLength
      <3> HIDE DEF inner
      <3>4. TryExtractLength = IF h > MaxHeader THEN "TOO_LARGE" ELSE inner
        BY <1>0, <2>2, <2>4, <3>3
      <3> QED
        BY <3>2, <3>4, Zenon
    <2>7. Need = h + r.body
      BY <2>4, <2>5, Zenon DEF Need
    <2>8. ~(h > MaxHeader) /\ r.framing = "OK" => ~(r.body > MaxMessage - h)
      BY <1>0, <2>2, HeaderAndBody, Zenon
    <2>9. r.framing # "OK" => MapFramingError(r.framing) = r.framing
      BY <2>2, Zenon DEF MapFramingError, Verdicts
    <2>10. Requests!Verdict(r) = IF h > MaxHeader THEN "TOO_LARGE" ELSE r.framing
      BY Zenon DEF Requests!Verdict
    <2>11. "NEED_DATA" \notin Verdicts /\ "TOO_LARGE" \in Verdicts /\ "OK" # "TOO_LARGE"
      BY Zenon DEF Verdicts
    <2>12. CASE h > MaxHeader
      BY <1>1, <2>6, <2>10, <2>11, <2>12, Zenon
    <2>13. CASE ~(h > MaxHeader) /\ r.framing # "OK"
      BY <1>1, <2>2, <2>6, <2>9, <2>10, <2>11, <2>13, ZenonT(60)
    <2>14. CASE ~(h > MaxHeader) /\ r.framing = "OK"
      <3>1. TryExtractLength = IF Len(data) < h + r.body THEN "NEED_DATA" ELSE "OK"
        BY <2>6, <2>8, <2>14, Zenon
      <3>2. h + r.body <= MaxMessage /\ h + r.body \in Nat
        BY <1>0, <2>2, <2>14, HeaderAndBody, Zenon
      <3>3. ~(Len(data) < h + r.body) => h + r.body <= Len(data)
        BY <1>0, <3>2
      <3>4. HeaderBytes + First.body = Size(stream, n + 1)
        BY <2>2, <2>4, <2>5, Zenon
      <3> QED
        BY <1>1, <2>2, <2>7, <2>10, <2>14, <3>1, <3>2, <3>3, <3>4, ZenonT(60)
    <2> QED
      BY <2>12, <2>13, <2>14, Zenon
  <1>2. ASSUME n = Len(stream) \/ Len(data) < h PROVE Goal
    <2>1. Ends(stream, data) = {}
      BY <1>2, NoHeaderInBuffer, Zenon
    <2>2. ~HasHeader
      BY <2>1, Zenon DEF HasHeader, HeaderEnds, Ends
    <2>3. TryExtractLength = IF Len(data) >= MaxHeader THEN "TOO_LARGE" ELSE "NEED_DATA"
      BY <2>2, Zenon DEF TryExtractLength
    <2>4. Need = Min({Len(data) + RecvChunk, MaxHeader})
      BY <2>2, Zenon DEF Need
    <2>5. CASE Len(data) >= MaxHeader
      <3>1. n # Len(stream)
        <4> SUFFICES ASSUME n = Len(stream) PROVE FALSE
          BY Zenon
        <4>1. n \in 0..Len(stream)
          OBVIOUS
        <4>2. Offset(stream, n) \in Nat /\ Offset(stream, n) = Len(Total(stream))
          BY <4>1, StreamShape, Zenon
        <4> QED
          BY <1>0, <2>5, <4>2 DEF Buffered
      <3>2. n < Len(stream) /\ n + 1 \in 1..Len(stream)
        BY <3>1 DEF Buffered
      <3>3. h \in Nat
        BY <3>2, MessageFacts, Zenon
      <3>4. h > MaxHeader
        BY <1>0, <1>2, <2>5, <3>1, <3>3, SMTT(60)
      <3> QED
        BY <2>3, <2>5, <3>2, <3>4, Zenon DEF Requests!Verdict, Verdicts
    <2>6. CASE ~(Len(data) >= MaxHeader)
      <3>1. /\ Need \in Nat /\ Len(data) < Need /\ Need <= MaxHeader
        <4>1. Len(data) + RecvChunk \in Int /\ MaxHeader \in Int
          BY <1>0
        <4>2. Need = IF Len(data) + RecvChunk <= MaxHeader THEN Len(data) + RecvChunk ELSE MaxHeader
          BY <2>4, <4>1, MinOfTwo, Zenon
        <4> QED
          BY <1>0, <2>6, <4>2
      <3>2. Need <= MaxMessage
        BY <1>0, <3>1 DEF MaxMessage
      <3> QED
        BY <2>3, <2>6, <3>1, <3>2, Zenon
    <2> QED
      BY <2>5, <2>6, Zenon
  <1>3. n <= Len(stream)
    BY Zenon DEF Buffered
  <1>4. n < Len(stream) => h \in Nat
    <2> SUFFICES ASSUME n < Len(stream) PROVE h \in Nat
      BY Zenon
    <2>1. n + 1 \in 1..Len(stream)
      OBVIOUS
    <2> QED
      BY <2>1, MessageFacts, Zenon
  <1>5. (n < Len(stream) /\ h <= Len(data)) \/ n = Len(stream) \/ Len(data) < h
    BY <1>0, <1>3, <1>4
  <1> QED
    BY <1>1, <1>2, <1>5, Zenon

-----------------------------------------------------------------------------

\* A stream is a sequence of requests.
LEMMA StreamType == ASSUME Shape PROVE stream \in Seq(Sendable)
  BY StreamsAssumption, Zenon DEF Shape

LEMMA ReaderInit == Init => ReaderInv
  <1> SUFFICES ASSUME Init PROVE ReaderInv
    BY Zenon
  <1>1. Len(<<>>) = 0 /\ 1..0 = {} /\ <<>> \in Seq(Byte) /\ <<>> \in Seq(Seq(Byte))
    BY EmptyFacts
  <1>2. Shape
    BY <1>1, LimitsAssumption DEF Init, Shape, MaxMessage
  <1>3. stream \in Seq(Sendable) /\ Len(stream) \in Nat
    BY <1>2, StreamType
  <1>4. Whole
    BY <1>1, <1>3 DEF Init, Whole
  <1>5. Buffered(stream, 0, 0, <<>>)
    BY <1>3, BufferedFirst, Zenon
  <1>6. InPlace
    BY <1>1, <1>5, Zenon DEF Init, InPlace
  <1>7. Results
    BY Zenon DEF Init, Results, Places
  <1> QED
    BY <1>2, <1>4, <1>6, <1>7, Zenon DEF ReaderInv

Kept == UNCHANGED <<stream, received, data, capacity, delivered>>

\* A step that leaves buffer and messages alone.
LEMMA KeptStep ==
    ASSUME ReaderInv, Kept, at' \in Reading => at \in Reading, Results'
    PROVE  ReaderInv'
  <1>1. Shape' /\ Whole'
    BY Zenon DEF ReaderInv, Shape, Whole, Kept
  <1>2. InPlace'
    BY Zenon DEF ReaderInv, InPlace, Kept
  <1> QED
    BY <1>1, <1>2, Zenon DEF ReaderInv

\* A step that empties the buffer for good.
LEMMA EmptiedStep ==
    ASSUME ReaderInv, UNCHANGED <<stream, received, delivered>>, data' = <<>>,
           capacity' \in {0, capacity}, at' \in {"returned", "destroyed"}
    PROVE  ReaderInv'
  <1>1. Len(<<>>) = 0 /\ <<>> \in Seq(Byte)
    BY EmptyFacts, Zenon
  <1>2. Shape'
    BY <1>1, LimitsAssumption DEF ReaderInv, Shape, MaxMessage
  <1>3. Whole'
    BY Zenon DEF ReaderInv, Whole
  <1>4. InPlace' /\ Results'
    BY Zenon DEF InPlace, Results, Reading, Places
  <1> QED
    BY <1>2, <1>3, <1>4, Zenon DEF ReaderInv

LEMMA TakeStep == ASSUME ReaderInv, TakeMessage PROVE ReaderInv'
  <1> DEFINE n == Len(delivered)
             z == Size(stream, n + 1)
             m == Message(stream, n + 1)
  <1>1. stream \in Seq(Sendable)
    BY StreamType, Zenon DEF ReaderInv
  <1>2. /\ n \in Nat /\ data \in Seq(Byte) /\ delivered \in Seq(Seq(Byte)) /\ received \in Nat
        /\ Buffered(stream, n, received, data)
    BY DEF ReaderInv, Shape, InPlace, Reading, TakeMessage
  <1>3. n < Len(stream) /\ HeaderBytes + First.body = z /\ z <= Len(data)
    BY <1>1, <1>2, TryFacts, Zenon DEF TakeMessage
  <1>4. /\ delivered' = Append(delivered, SubSeq(data, 1, z)) /\ data' = SubSeq(data, z + 1, Len(data))
        /\ UNCHANGED <<stream, received, capacity>> /\ at' = "idle" /\ result' = "OK"
    BY <1>3, Zenon DEF TakeMessage
  <1>5. /\ SubSeq(data, 1, z) = m /\ data' \in Seq(Byte) /\ Len(data') <= Len(data)
        /\ Buffered(stream, n + 1, received, data')
    BY <1>1, <1>2, <1>3, <1>4, BufferedTake, ZenonT(60)
  <1>6. n + 1 \in 1..Len(stream)
    BY <1>1, <1>2, <1>3, SMTT(60)
  <1>7. m \in Seq(Byte)
    BY <1>1, <1>6, MessageFacts, Zenon
  <1> HIDE DEF m, z
  <1>8. delivered' = Append(delivered, m)
    BY <1>4, <1>5, Zenon
  <1>9. /\ delivered' \in Seq(Seq(Byte)) /\ Len(delivered') = n + 1 /\ delivered'[n + 1] = m
        /\ \A k \in 1..n : delivered'[k] = delivered[k]
    <2>1. delivered \in Seq(Seq(Byte)) /\ m \in Seq(Byte)
      BY <1>2, <1>7, Zenon
    <2>2. /\ Append(delivered, m) \in Seq(Seq(Byte)) /\ Len(Append(delivered, m)) = n + 1
          /\ Append(delivered, m)[n + 1] = m
          /\ \A k \in 1..n : Append(delivered, m)[k] = delivered[k]
      BY <2>1, AppendFacts, SMTT(60)
    <2> QED
      BY <1>8, <2>2, Zenon
  <1>10. Shape'
    <2>1. Len(data') \in Nat /\ Len(data) \in Nat
      BY <1>2, <1>5, SequenceFacts, Zenon
    <2>2. capacity \in Nat /\ Len(data) <= capacity
      BY Zenon DEF ReaderInv, Shape
    <2>3. Len(data') <= capacity
      BY <1>5, <2>1, <2>2, SMTT(60)
    <2> QED
      BY <1>4, <1>5, <1>9, <2>3, Zenon DEF ReaderInv, Shape
  <1>11. Whole'
    <2>1. ASSUME NEW k \in 1..(n + 1) PROVE delivered'[k] = Message(stream, k)
      <3>1. CASE k = n + 1
        BY <1>9, <3>1, Zenon DEF m
      <3>2. CASE k \in 1..n
        BY <1>9, <3>2, Zenon DEF ReaderInv, Whole
      <3> QED
        BY <1>2, <3>1, <3>2
    <2> QED
      BY <1>4, <1>6, <1>9, <2>1, SMTT(60) DEF Whole
  <1>12. InPlace'
    BY <1>4, <1>5, <1>9, Zenon DEF InPlace
  <1>13. Results'
    BY <1>4, Zenon DEF Results, Places
  <1> QED
    BY <1>10, <1>11, <1>12, <1>13, Zenon DEF ReaderInv

LEMMA RecvStep ==
    ASSUME ReaderInv, NEW n \in Nat, Recv(n)
    PROVE  ReaderInv' /\ Len(data) \in Nat /\ Len(data') = Len(data) + n
  <1> DEFINE k == Len(delivered)
             t == Total(stream)
  <1>1. stream \in Seq(Sendable)
    BY StreamType, Zenon DEF ReaderInv
  <1>2. /\ k \in Nat /\ data \in Seq(Byte) /\ received \in Nat /\ capacity \in Nat
        /\ Len(data) \in Nat /\ Buffered(stream, k, received, data)
    BY DEF ReaderInv, Shape, InPlace, Reading, Recv
  <1>3. StreamBytes = t
    BY StreamBytesIs, Zenon DEF Total
  <1>4. Len(t) \in Nat
    <2>1. 0 \in 0..Len(stream)
      BY <1>1
    <2> QED
      BY <1>1, <2>1, StreamShape, Zenon
  <1>5. n <= capacity - Len(data) /\ n <= Len(t) - received
    <2> DEFINE a == capacity - Len(data)
               b == Len(t) - received
    <2>1. a \in Int /\ b \in Int
      BY <1>2, <1>4
    <2>2. n \in 1..Min({a, b})
      BY <1>3, Zenon DEF Recv
    <2> HIDE DEF a, b
    <2>3. n <= a /\ n <= b
      BY <2>1, <2>2, MinOfTwo
    <2> QED
      BY <2>3, Zenon DEF a, b
  <1>6. /\ data' = data \o SubSeq(t, received + 1, received + n) /\ received' = received + n
        /\ UNCHANGED <<stream, capacity, delivered, result>> /\ at' = "try"
    BY <1>3, Zenon DEF Recv
  <1>7. received + n <= Len(t)
    BY <1>2, <1>4, <1>5
  <1>8. /\ data' \in Seq(Byte) /\ Len(data') = Len(data) + n
        /\ Buffered(stream, k, received', data')
    <2>1. Extends(stream, k, received, data, n, data')
      BY <1>1, <1>2, <1>6, <1>7, Zenon DEF Extends
    <2>2. /\ data' \in Seq(Byte) /\ Len(data') = Len(data) + n
          /\ Buffered(stream, k, received + n, data')
      BY <2>1, BufferedRecv, Zenon
    <2> QED
      BY <1>6, <2>2, Zenon
  <1>9. Shape'
    BY <1>2, <1>5, <1>6, <1>8, SMTT(60) DEF ReaderInv, Shape
  <1>10. Whole'
    BY <1>6, Zenon DEF ReaderInv, Whole
  <1>11. InPlace'
    BY <1>6, <1>8, Zenon DEF InPlace
  <1>12. Results'
    BY <1>6, Zenon DEF ReaderInv, Results, Places, Recv
  <1> QED
    BY <1>2, <1>8, <1>9, <1>10, <1>11, <1>12, ZenonT(60) DEF ReaderInv

\* Making room never fails for want of a limit.
LEMMA PrepareFacts ==
    ASSUME ReaderInv, NEW t, Prepare(t)
    PROVE  /\ capacity' = GrownCapacity(Need) /\ t \in PollTimeouts
           /\ at' = (IF t = 0 THEN "returned" ELSE "poll")
           /\ result' = (IF t = 0 THEN "TIMEOUT" ELSE "NONE")
           /\ timeout' = t /\ wait' = t
           /\ extended' = (extended \/ (deadline_active /\ t > left))
           /\ UNCHANGED <<stream, received, data, deadline_active, left, age, delivered>>
           /\ capacity' \in Nat /\ capacity <= capacity' /\ capacity' <= MaxMessage
           /\ at = "try" /\ result = "NONE"
  <1> DEFINE n == Len(delivered)
  <1>1. stream \in Seq(Sendable)
    BY StreamType, Zenon DEF ReaderInv
  <1>2. n \in Nat /\ data \in Seq(Byte) /\ Buffered(stream, n, received, data) /\ Len(data) \in Nat
    BY DEF ReaderInv, Shape, InPlace, Reading, Prepare
  <1>3. Need \in Nat /\ Len(data) < Need /\ Need <= MaxMessage
    BY <1>1, <1>2, TryFacts, Zenon DEF Prepare
  <1>4. /\ GrownCapacity(Need) \in Nat /\ Need <= GrownCapacity(Need)
        /\ capacity <= GrownCapacity(Need) /\ GrownCapacity(Need) <= MaxMessage
    BY <1>3, GrownFacts, Zenon DEF ReaderInv, Shape
  <1>5. MaxMessage \in Nat
    BY LimitsAssumption DEF MaxMessage
  <1>6. ~(Need <= Len(data) \/ Need > MaxMessage \/ GrownCapacity(Need) = Len(data))
    BY <1>2, <1>3, <1>4, <1>5
  <1>7. at = "try" /\ result = "NONE"
    BY Zenon DEF Prepare, ReaderInv, Results
  <1> QED
    BY <1>4, <1>6, <1>7, Zenon DEF Prepare

LEMMA PrepareStep == ASSUME ReaderInv, NEW t, Prepare(t) PROVE ReaderInv'
  <1>1. /\ UNCHANGED <<stream, received, data, delivered>>
        /\ capacity' \in Nat /\ capacity <= capacity' /\ capacity' <= MaxMessage
        /\ at' \in {"returned", "poll"} /\ (at' = "poll" => result' = "NONE") /\ at = "try"
    BY PrepareFacts, Zenon
  <1>2. Shape'
    BY <1>1 DEF ReaderInv, Shape
  <1>3. Whole'
    BY <1>1, Zenon DEF ReaderInv, Whole
  <1>4. InPlace'
    <2>1. at \in Reading
      BY <1>1, Zenon DEF Reading
    <2> QED
      BY <1>1, <2>1, Zenon DEF ReaderInv, InPlace
  <1>5. Results'
    BY <1>1, Zenon DEF Results, Places
  <1> QED
    BY <1>2, <1>3, <1>4, <1>5, Zenon DEF ReaderInv

\* The steps that leave buffer and messages alone.
QuietStep ==
    \/ Call \/ CallClockFails \/ TakeMessageOutOfMemory \/ PrepareOutOfMemory
    \/ PollReadable \/ PollExpires \/ PollInterrupted \/ PollFails
    \/ RecvInterrupted \/ RecvFails \/ Tick

LEMMA QuietFacts ==
    ASSUME ReaderInv, QuietStep
    PROVE  /\ Kept /\ (at' \in Reading => at \in Reading) /\ Results'
           /\ result \in {"NONE", "OK"}
           /\ result' \in {"NONE", "OK", "TIMEOUT", "IO_ERROR", "OUT_OF_MEMORY"}
  <1>0. Results
    BY Zenon DEF ReaderInv
  <1> DEFINE Goal == /\ Kept /\ (at' \in Reading => at \in Reading) /\ Results'
                     /\ result \in {"NONE", "OK"}
                     /\ result' \in {"NONE", "OK", "TIMEOUT", "IO_ERROR", "OUT_OF_MEMORY"}
  <1>1. CASE Call
    BY <1>0, <1>1, Zenon DEF Call, Kept, Reading, Results, Places
  <1>2. ASSUME NEW r \in {"TIMEOUT", "IO_ERROR", "OUT_OF_MEMORY"}, Return(r),
               at \in {"idle", "try", "poll", "recv"}
        PROVE  Goal
    BY <1>0, <1>2, Zenon DEF Return, Kept, Reading, Results, Places
  <1>3. CASE CallClockFails \/ TakeMessageOutOfMemory \/ PrepareOutOfMemory \/ PollExpires
             \/ PollFails \/ RecvFails
    <2>1. /\ at \in {"idle", "try", "poll", "recv"}
          /\ \E r \in {"TIMEOUT", "IO_ERROR", "OUT_OF_MEMORY"} : Return(r)
      BY <1>3, Zenon DEF CallClockFails, TakeMessageOutOfMemory, PrepareOutOfMemory, PollExpires,
                  PollFails, RecvFails
    <2> QED
      BY <1>2, <2>1, Zenon
  <1>4. CASE PollReadable \/ RecvInterrupted
    BY <1>0, <1>4, Zenon DEF PollReadable, RecvInterrupted, Kept, Reading, Results, Places
  <1>5. CASE PollInterrupted \/ Tick
    BY <1>0, <1>5, Zenon DEF PollInterrupted, Tick, Kept, Reading, Results, Places
  <1> QED
    BY <1>1, <1>3, <1>4, <1>5, ZenonT(60) DEF QuietStep

\* The steps that empty the buffer.
LEMMA RejectFacts ==
    ASSUME ReaderInv, Reject
    PROVE  /\ Len(delivered) < Len(stream) /\ result = "NONE"
           /\ result' = Requests!Verdict(stream[Len(delivered) + 1])
           /\ result' \in Verdicts \ {"OK"}
  <1>1. stream \in Seq(Sendable)
    BY StreamType DEF ReaderInv
  <1>2. /\ Len(delivered) \in Nat /\ data \in Seq(Byte)
        /\ Buffered(stream, Len(delivered), received, data)
    BY DEF ReaderInv, Shape, InPlace, Reading, Reject
  <1>3. TryExtractLength \notin {"OK", "NEED_DATA"} /\ result' = TryExtractLength /\ result = "NONE"
    BY Zenon DEF Reject, Discard, ReaderInv, Results
  <1> QED
    BY <1>1, <1>2, <1>3, TryFacts, Zenon

LEMMA ReaderStep == ReaderInv /\ [Next]_vars => ReaderInv'
  <1> SUFFICES ASSUME ReaderInv, [Next]_vars PROVE ReaderInv'
    BY Zenon
  <1>1. CASE QuietStep
    BY <1>1, QuietFacts, KeptStep, Zenon
  <1>2. CASE Reject \/ FramingOutOfMemory \/ RecvClosed \/ Destroy
    <2>1. /\ UNCHANGED <<stream, received, delivered>> /\ data' = <<>>
          /\ capacity' \in {0, capacity} /\ at' \in {"returned", "destroyed"}
      BY <1>2, Zenon DEF Reject, FramingOutOfMemory, RecvClosed, Destroy, Discard
    <2> QED
      BY <2>1, EmptiedStep, Zenon
  <1>3. CASE TakeMessage
    BY <1>3, TakeStep, Zenon
  <1>4. ASSUME NEW n \in 1..MaxMessage, Recv(n) PROVE ReaderInv'
    <2>1. n \in Nat
      BY LimitsAssumption DEF MaxMessage
    <2> QED
      BY <1>4, <2>1, RecvStep, Zenon
  <1>5. ASSUME NEW t, Prepare(t) PROVE ReaderInv'
    BY <1>5, PrepareStep, Zenon
  <1>6. CASE UNCHANGED vars
    <2>1. Kept /\ at' = at /\ result' = result
      BY <1>6, Zenon DEF vars, Kept
    <2>2. Results'
      BY <2>1, Zenon DEF ReaderInv, Results
    <2> QED
      BY <2>1, <2>2, KeptStep, Zenon
  <1> QED
    BY <1>1, <1>2, <1>3, <1>4, <1>5, <1>6, ZenonT(60) DEF Next, Progress, Failure, Terminated, QuietStep

LEMMA ReaderInvariant == Spec => []ReaderInv
  BY ReaderInit, ReaderStep, PTL DEF Spec

\* NothingLost: whatever the requests, limits and segments, what http_reader.c
\* delivered followed by its buffer is what it took from the socket, and the buffer
\* stays within its capacity.
THEOREM ReaderLosesNothing == Spec => []NothingLost
  <1>1. ASSUME ReaderInv PROVE NothingLost
    <2> DEFINE flat[k \in 0..Len(delivered)] ==
                  IF k = 0 THEN <<>> ELSE flat[k - 1] \o delivered[k]
    <2>1. stream \in Seq(Sendable)
      BY <1>1, StreamType, Zenon DEF ReaderInv
    <2>2. /\ Len(delivered) \in Nat /\ data \in Seq(Byte) /\ received \in Nat
          /\ Len(delivered) <= Len(stream)
      BY <1>1 DEF ReaderInv, Shape, Whole
    <2>3. Chain(flat, Len(delivered), delivered)
      BY <2>2, ChainChosen, Zenon
    <2> HIDE DEF flat
    <2>4. ASSUME at \in Reading
          PROVE  flat[Len(delivered)] \o data = SubSeq(StreamBytes, 1, received)
      <3>1. Buffered(stream, Len(delivered), received, data)
        BY <1>1, <2>4, Zenon DEF ReaderInv, InPlace
      <3>2. BytesOf(stream)[Len(delivered)] \o data = SubSeq(Total(stream), 1, received)
        BY <2>1, <2>2, <3>1, BufferedIsRead, ZenonT(60)
      <3>3. flat[Len(delivered)] = BytesOf(stream)[Len(delivered)]
        <4>1. Len(delivered) \in 0..Len(stream)
          BY <2>1, <2>2
        <4>2. \A j \in 1..Len(delivered) : delivered[j] = Message(stream, j)
          BY <1>1, Zenon DEF ReaderInv, Whole
        <4> QED
          BY <2>1, <2>3, <4>1, <4>2, FlatIsBytes, Zenon
      <3>4. StreamBytes = Total(stream)
        BY StreamBytesIs, Zenon DEF Total
      <3> QED
        BY <3>2, <3>3, <3>4, Zenon
    <2>5. Len(data) <= capacity /\ capacity <= MaxMessage
      BY <1>1, Zenon DEF ReaderInv, Shape
    <2> QED
      BY <2>4, <2>5, Zenon DEF NothingLost, Reading, flat
  <1> QED
    BY <1>1, ReaderInvariant, PTL

\* ImplementsRequestStream: every step of the reader delivers the next request whole,
\* refuses it with the verdict its own header determines, ends the connection, or
\* cannot be seen.
THEOREM ReaderImplementsStream == Spec => ImplementsRequestStream
  <1>1. Init => Requests!Init
    BY Zenon DEF Init, Requests!Init
  <1>2. ASSUME ReaderInv, [Next]_vars PROVE [Requests!Next]_(Requests!vars)
    <2> USE <1>2
    <2> DEFINE outcome == IF result \in {"NONE", "OK"} THEN "OPEN" ELSE result
               Same == UNCHANGED <<stream, delivered, outcome>>
               Breaks == /\ result \in {"NONE", "OK"}
                         /\ result' \in {"CLIENT_CLOSED", "TIMEOUT", "IO_ERROR", "OUT_OF_MEMORY"}
                         /\ UNCHANGED <<stream, delivered>>
    <2>1. Same => UNCHANGED Requests!vars
      BY Zenon DEF Requests!vars
    <2>2. Breaks => Requests!Break
      BY Zenon DEF Requests!Break, Requests!Broken
    <2>3. ASSUME result' = result \/ (result \in {"NONE", "OK"} /\ result' \in {"NONE", "OK"}),
                 UNCHANGED <<stream, delivered>>
          PROVE  Same
      BY <2>3, Zenon
    <2>4. CASE QuietStep
      <3>1. /\ UNCHANGED <<stream, delivered>> /\ result \in {"NONE", "OK"}
            /\ result' \in {"NONE", "OK", "TIMEOUT", "IO_ERROR", "OUT_OF_MEMORY"}
        BY <2>4, QuietFacts, Zenon DEF Kept
      <3>2. CASE result' \in {"NONE", "OK"}
        BY <2>1, <2>3, <3>1, <3>2, Zenon
      <3>3. CASE result' \notin {"NONE", "OK"}
        <4>1. Breaks
          BY <3>1, <3>3, Zenon
        <4> QED
          BY <2>2, <4>1, Zenon DEF Requests!Next
      <3> QED
        BY <3>2, <3>3, Zenon
    <2>5. CASE FramingOutOfMemory \/ RecvClosed
      <3>1. Breaks
        BY <2>5, Zenon DEF FramingOutOfMemory, RecvClosed, Discard, ReaderInv, Results
      <3> QED
        BY <2>2, <3>1 DEF Requests!Next
    <2>6. CASE Reject
      <3>1. /\ Len(delivered) < Len(stream) /\ result = "NONE"
            /\ result' = Requests!Verdict(stream[Len(delivered) + 1])
            /\ result' \in Verdicts \ {"OK"}
        BY <2>6, RejectFacts, Zenon
      <3>2. UNCHANGED <<stream, delivered>>
        BY <2>6, Zenon DEF Reject, Discard
      <3>3. Len(delivered) \in Nat /\ Len(stream) \in Nat
        BY StreamType DEF ReaderInv, Shape
      <3>4. result' \notin {"NONE", "OK"}
        BY <3>1, Zenon DEF Verdicts
      <3>5. Requests!Refuse
        BY <3>1, <3>2, <3>3, <3>4, SMTT(60) DEF Requests!Refuse, Requests!Upcoming
      <3> QED
        BY <3>5, Zenon DEF Requests!Next
    <2>7. CASE TakeMessage
      <3> DEFINE n == Len(delivered)
      <3>1. stream \in Seq(Sendable)
        BY StreamType, Zenon DEF ReaderInv
      <3>2. /\ n \in Nat /\ data \in Seq(Byte) /\ received \in Nat /\ Len(stream) \in Nat
            /\ Buffered(stream, n, received, data)
        BY <2>7, <3>1, SMTT(60) DEF ReaderInv, Shape, InPlace, Reading, TakeMessage
      <3>3. /\ n < Len(stream) /\ Requests!Verdict(stream[n + 1]) = "OK"
            /\ HeaderBytes + First.body = Size(stream, n + 1) /\ Size(stream, n + 1) <= Len(data)
        BY <2>7, <3>1, <3>2, TryFacts, Zenon DEF TakeMessage
      <3>4. SubSeq(data, 1, Size(stream, n + 1)) = Message(stream, n + 1)
        BY <3>1, <3>2, <3>3, BufferedTake, Zenon
      <3>5. delivered' = Append(delivered, Message(stream, n + 1))
        BY <2>7, <3>3, <3>4, Zenon DEF TakeMessage
      <3>6. Message(stream, n + 1) = Requests!Message(n + 1)
        BY Zenon DEF Message, Requests!Message
      <3>7. result = "NONE" /\ result' = "OK" /\ stream' = stream
        BY <2>7, Zenon DEF TakeMessage, ReaderInv, Results
      <3>8. Requests!Deliver
        BY <3>2, <3>3, <3>5, <3>6, <3>7, SMTT(60) DEF Requests!Deliver, Requests!Upcoming
      <3> QED
        BY <3>8, Zenon DEF Requests!Next
    <2>8. ASSUME NEW n, Recv(n) PROVE UNCHANGED Requests!vars
      BY <2>1, <2>3, <2>8, Zenon DEF Recv
    <2>9. ASSUME NEW t, Prepare(t) PROVE [Requests!Next]_(Requests!vars)
      <3>1. /\ UNCHANGED <<stream, delivered>> /\ result = "NONE"
            /\ result' \in {"TIMEOUT", "NONE"}
        BY <2>9, PrepareFacts, Zenon
      <3>2. CASE result' = "NONE"
        BY <2>1, <2>3, <3>1, <3>2, Zenon
      <3>3. CASE result' = "TIMEOUT"
        <4>1. Breaks
          BY <3>1, <3>3, Zenon
        <4> QED
          BY <2>2, <4>1 DEF Requests!Next
      <3> QED
        BY <3>1, <3>2, <3>3, Zenon
    <2>10. CASE Destroy \/ UNCHANGED vars
      BY <2>1, <2>3, <2>10, Zenon DEF Destroy, vars
    <2> QED
      BY <2>4, <2>5, <2>6, <2>7, <2>8, <2>9, <2>10, ZenonT(60)
         DEF Next, Progress, Failure, Terminated, QuietStep
  <1> QED
    BY <1>1, <1>2, ReaderInvariant, PTL DEF Spec, ImplementsRequestStream, Requests!Spec

-----------------------------------------------------------------------------
(* The deadline.                                                           *)

\* While a call goes on: buffered bytes have a deadline, what is left of it and the
\* age of the request add up to no more than the limit, and a wait that was not
\* extended ends by the deadline.
Waiting == at \in {"try", "poll", "recv"}

Ticks == left \in Nat /\ wait \in Nat /\ timeout \in Nat /\ age \in Nat /\ age <= RequestTimeout
Flags == deadline_active \in BOOLEAN /\ extended \in BOOLEAN
Bounds ==
    /\ Waiting /\ data # <<>> => deadline_active
    /\ Waiting /\ data = <<>> => age = 0
    /\ Waiting /\ deadline_active => age + left <= RequestTimeout
    /\ at = "poll" /\ deadline_active /\ ~extended => wait <= left
DeadlineInv == Ticks /\ Flags /\ Bounds

LEMMA DeadlineInit == Init => DeadlineInv
  <1> SUFFICES ASSUME Init PROVE DeadlineInv
    OBVIOUS
  <1>1. Flags
    BY Zenon DEF Init, Flags
  <1>2. Ticks
    BY LimitsAssumption DEF Init, Ticks
  <1>3. Bounds
    BY Zenon DEF Init, Bounds, Waiting
  <1> QED
    BY <1>1, <1>2, <1>3, Zenon DEF DeadlineInv

\* A call that has returned waits for nothing.
LEMMA EndedStep ==
    ASSUME DeadlineInv, UNCHANGED time, at' \in {"idle", "returned", "destroyed"}
    PROVE  DeadlineInv'
  BY Zenon DEF DeadlineInv, Ticks, Flags, Bounds, Waiting, time

LEMMA TickStep == ASSUME DeadlineInv, Tick PROVE DeadlineInv'
  <1> DEFINE less(x) == IF x = 0 THEN 0 ELSE x - 1
  <1>1. left \in Nat /\ wait \in Nat /\ age \in Nat /\ RequestTimeout \in Nat
    BY LimitsAssumption, Zenon DEF DeadlineInv, Ticks
  <1>2. left' = less(left) /\ (at = "poll" => wait' = less(wait)) /\ (at # "poll" => wait' = wait)
    <2>1. ASSUME NEW x \in Nat PROVE Max({x - 1, 0}) = less(x)
      <3>1. x - 1 \in Int /\ 0 \in Int
        OBVIOUS
      <3> QED
        BY <3>1, MaxOfTwo
    <2> QED
      BY <1>1, <2>1, Zenon DEF Tick
  <1>3. age' = IF data = <<>> THEN 0
               ELSE IF age + 1 <= RequestTimeout THEN age + 1 ELSE RequestTimeout
    <2>1. age + 1 \in Int /\ RequestTimeout \in Int
      BY <1>1
    <2>2. Min({age + 1, RequestTimeout}) =
             IF age + 1 <= RequestTimeout THEN age + 1 ELSE RequestTimeout
      BY <2>1, MinOfTwo, Zenon
    <2> QED
      BY <2>2, Zenon DEF Tick
  <1>4. UNCHANGED <<data, deadline_active, timeout, extended, at>>
    BY Zenon DEF Tick
  <1>5. Flags'
    BY <1>4, Zenon DEF DeadlineInv, Flags
  <1>6. Ticks'
    BY <1>1, <1>2, <1>3, <1>4 DEF DeadlineInv, Ticks
  <1>7. Bounds'
    BY <1>1, <1>2, <1>3, <1>4 DEF DeadlineInv, Bounds, Ticks, Waiting
  <1> QED
    BY <1>5, <1>6, <1>7, Zenon DEF DeadlineInv

LEMMA DeadlineStep == ReaderInv /\ DeadlineInv /\ [Next]_vars => DeadlineInv'
  <1> SUFFICES ASSUME ReaderInv, DeadlineInv, [Next]_vars PROVE DeadlineInv'
    BY Zenon
  <1>0. /\ RequestTimeout \in Nat \ {0} /\ KeepAliveTimeout \in Nat /\ Faults \in BOOLEAN
    BY LimitsAssumption, Zenon
  <1>1. CASE Call
    <2>1. Flags'
      BY <1>1, Zenon DEF Call, DeadlineInv, Flags
    <2>2. Ticks'
      BY <1>0, <1>1, SMTT(60) DEF Call, DeadlineInv, Ticks
    <2>3. Bounds'
      <3>1. /\ at' = "try" /\ data' = data /\ age' = 0
            /\ (data # <<>> => left' = RequestTimeout) /\ (deadline_active' <=> data # <<>>)
        BY <1>1, Zenon DEF Call
      <3> QED
        BY <1>0, <3>1 DEF Bounds, Waiting
    <2> QED
      BY <2>1, <2>2, <2>3, Zenon DEF DeadlineInv
  <1>2. CASE \/ CallClockFails \/ TakeMessageOutOfMemory \/ PrepareOutOfMemory
             \/ PollExpires \/ PollFails \/ RecvFails
             \/ Reject \/ FramingOutOfMemory \/ RecvClosed \/ Destroy \/ TakeMessage
    <2>1. UNCHANGED time /\ at' \in {"idle", "returned", "destroyed"}
      BY <1>2, Zenon DEF CallClockFails, TakeMessageOutOfMemory, PrepareOutOfMemory, PollExpires,
                  PollFails, RecvFails, Reject, FramingOutOfMemory, RecvClosed, Destroy,
                  TakeMessage, Return, Discard
    <2> QED
      BY <2>1, EndedStep, Zenon
  <1>3. CASE PollReadable \/ RecvInterrupted
    BY <1>3, SMTT(60) DEF PollReadable, RecvInterrupted, DeadlineInv, Ticks, Flags, Bounds, Waiting, time
  <1>4. CASE PollInterrupted
    <2>1. /\ at = "poll" /\ wait' = timeout /\ extended' = TRUE
          /\ UNCHANGED <<at, data, deadline_active, left, timeout, age>>
      BY <1>4, Zenon DEF PollInterrupted
    <2>2. Flags'
      BY <2>1, Zenon DEF DeadlineInv, Flags
    <2>3. Ticks'
      BY <2>1, Zenon DEF DeadlineInv, Ticks
    <2>4. Bounds'
      BY <2>1, Zenon DEF DeadlineInv, Bounds, Waiting
    <2> QED
      BY <2>2, <2>3, <2>4 DEF DeadlineInv
  <1>5. CASE Tick
    BY <1>5, TickStep, Zenon
  <1>6. ASSUME NEW n \in 1..MaxMessage, Recv(n) PROVE DeadlineInv'
    <2>1. n # 0 /\ n \in Nat
      BY LimitsAssumption, SMTT(60) DEF MaxMessage
    <2>2. /\ UNCHANGED <<wait, age, extended>> /\ at = "recv" /\ at' = "try"
          /\ deadline_active' = TRUE
          /\ left' = IF deadline_active THEN left ELSE RequestTimeout
      BY <1>6, Zenon DEF Recv
    <2>3. data' # <<>>
      <3>1. Len(data') > 0
        BY <1>6, <2>1, RecvStep
      <3>2. Len(<<>>) = 0
        BY EmptyFacts, Zenon
      <3> QED
        BY <3>1, <3>2
    <2>4. Flags'
      BY <2>2, ZenonT(60) DEF DeadlineInv, Flags
    <2>5. Ticks'
      BY <1>0, <1>6, <2>2, Zenon DEF DeadlineInv, Ticks, Recv
    <2>6. Bounds'
      <3>1. age + left' <= RequestTimeout
        BY <1>0, <2>2, SMTT(60) DEF DeadlineInv, Ticks, Bounds, Waiting
      <3> QED
        BY <2>2, <2>3, <3>1, Zenon DEF Bounds, Waiting
    <2> QED
      BY <2>4, <2>5, <2>6, Zenon DEF DeadlineInv
  <1>7. ASSUME NEW t, Prepare(t) PROVE DeadlineInv'
    <2>1. /\ t \in PollTimeouts /\ at' = (IF t = 0 THEN "returned" ELSE "poll")
          /\ timeout' = t /\ wait' = t
          /\ extended' = (extended \/ (deadline_active /\ t > left))
          /\ UNCHANGED <<data, deadline_active, left, age>> /\ at = "try"
      BY <1>7, PrepareFacts, Zenon
    <2>2. t \in Nat /\ left \in Nat
      BY <1>0, <2>1 DEF PollTimeouts, DeadlineInv, Ticks
    <2>3. Flags'
      BY <2>1, Zenon DEF DeadlineInv, Flags
    <2>4. ~extended' /\ deadline_active => t <= left
      <3>1. ~extended' /\ deadline_active => ~ (t > left)
        BY <2>1, Zenon
      <3>2. ~ (t > left) => t <= left
        BY <2>2
      <3> QED
        BY <3>1, <3>2, Zenon
    <2>5. Ticks'
      BY <2>1, <2>2, Zenon DEF DeadlineInv, Ticks
    <2>6. Bounds'
      BY <2>1, <2>2, <2>4, Zenon DEF DeadlineInv, Bounds, Waiting
    <2> QED
      BY <2>3, <2>5, <2>6 DEF DeadlineInv
  <1>8. CASE UNCHANGED vars
    BY <1>8, Zenon DEF vars, time, DeadlineInv, Ticks, Flags, Bounds, Waiting
  <1> QED
    BY <1>1, <1>2, <1>3, <1>4, <1>5, <1>6, <1>7, <1>8, ZenonT(60) DEF Next, Progress, Failure, Terminated

\* DeadlineHonoured: for all limits and timeouts, no wait of http_reader.c for the
\* rest of a request goes beyond the request timeout, unless poll was interrupted or
\* the clock failed.
THEOREM DeadlinesHold == Spec => []DeadlineHonoured
  <1>1. DeadlineInv => DeadlineHonoured
    BY LimitsAssumption DEF DeadlineInv, Ticks, Bounds, DeadlineHonoured, Waiting
  <1> QED
    BY <1>1, DeadlineInit, DeadlineStep, ReaderInvariant, PTL DEF Spec
=============================================================================
