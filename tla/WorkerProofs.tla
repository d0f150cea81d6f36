---------------------------- MODULE WorkerProofs ----------------------------
(***************************************************************************)
(* Theorems about the code a worker runs for one connection: client_handle *)
(* (ClientHandler), http_response_send (ResponseSend) and the counters of  *)
(* server_stats.c (Statistics).                                            *)
(***************************************************************************)
EXTENDS ClientHandler, ResponseSend, Statistics, TLAPS

-----------------------------------------------------------------------------
(* The counters of server_stats.c (Statistics), for any number of threads  *)
(* and calls.                                                              *)

StatsInv == TypeOK /\ CountersExact /\ ReadIsCurrent /\ SnapshotIsInstant

\* The values a call can compute are natural numbers.
LEMMA UpdatedType ==
    ASSUME NEW c \in Calls, NEW n \in Nat
    PROVE  Updated(c, n) \in Nat
  BY SMTT(60) DEF Updated

\* A call has an operation and names a counter.
LEMMA CallType ==
    ASSUME NEW c \in Calls
    PROVE  c.counter \in Counters /\ c.op \in {"add", "subtract", "none", "snapshot"}
  BY SMTT(60) DEF Calls, Counters

\* Nothing has been called.
LEMMA StatsInvInit == StatsInit => StatsInv
  <1> SUFFICES ASSUME StatsInit PROVE StatsInv
    OBVIOUS
  <1>0. Zero \in [Counters -> Nat]
    BY SMTT(60) DEF Zero
  <1>1. Idle \in Calls
    BY SMTT(60) DEF Idle, Calls
  <1>2. TypeOK
    BY <1>0, <1>1, SMTT(60) DEF StatsInit, TypeOK
  <1>3. CountersExact /\ SnapshotIsInstant
    BY SMTT(60) DEF StatsInit, CountersExact, SnapshotIsInstant
  <1>4. ReadIsCurrent
    BY ThreadsAssumption, SMTT(60) DEF StatsInit, ReadIsCurrent, Inside
  <1> QED
    BY <1>2, <1>3, <1>4, SMTT(60) DEF StatsInv

\* Types are preserved by every step.
LEMMA StatsTypeStep == TypeOK /\ [StatsNext]_statsVars => TypeOK'
  <1> SUFFICES ASSUME TypeOK, [StatsNext]_statsVars PROVE TypeOK'
    OBVIOUS
  <1>z. Zero \in [Counters -> Nat] /\ Idle \in Calls
    BY SMTT(60) DEF Zero, Idle, Calls
  <1>1. ASSUME NEW t \in Threads, Call(t) PROVE TypeOK'
    BY <1>1, <1>z, SMTT(60) DEF TypeOK, Call, Goto, ghosts
  <1>2. ASSUME NEW t \in Threads, LockStats(t) PROVE TypeOK'
    BY <1>2, SMTT(60) DEF TypeOK, LockStats, Goto, Body
  <1>3. ASSUME NEW t \in Threads, Load(t) PROVE TypeOK'
    BY <1>3, CallType, SMTT(60) DEF TypeOK, Load, Goto, ghosts
  <1>4. ASSUME NEW t \in Threads, Store(t) PROVE TypeOK'
    <2> DEFINE c == call[t].counter
    <2>1. c \in Counters /\ call[t] \in Calls
      BY CallType, SMTT(60) DEF TypeOK
    <2>2. Updated(call[t], loaded[t]) \in Nat /\ Updated(call[t], exact[c]) \in Nat
      BY <2>1, UpdatedType, SMTT(60) DEF TypeOK
    <2> QED
      BY <1>4, <2>1, <2>2, SMTT(60) DEF TypeOK, Store, Goto
  <1>5. ASSUME NEW t \in Threads, Copy(t) PROVE TypeOK'
    <2>1. PICK c \in todo[t] : /\ snapshot' = [snapshot EXCEPT ![t][c] = counters[c]]
                               /\ todo' = [todo EXCEPT ![t] = @ \ {c}]
      BY <1>5, Zenon DEF Copy
    <2>2. c \in Counters
      BY <2>1, SMTT(60) DEF TypeOK
    <2>3. snapshot' \in [Threads -> [Counters -> Nat]]
      BY <2>1, <2>2, SMTT(60) DEF TypeOK
    <2>4. todo' \in [Threads -> SUBSET Counters]
      BY <2>1, SMTT(60) DEF TypeOK
    <2> QED
      BY <1>5, <2>3, <2>4, SMTT(60) DEF TypeOK, Copy, ghosts
  <1>6. ASSUME NEW t \in Threads, UnlockStats(t) PROVE TypeOK'
    BY <1>6, SMTT(60) DEF TypeOK, UnlockStats, Goto, ghosts
  <1>7. ASSUME NEW t \in Threads, StatsReturn(t) PROVE TypeOK'
    BY <1>7, <1>z, SMTT(60) DEF TypeOK, StatsReturn, Goto
  <1>8. CASE UNCHANGED statsVars
    BY <1>8, SMTT(60) DEF TypeOK, statsVars
  <1> QED
    BY <1>1, <1>2, <1>3, <1>4, <1>5, <1>6, <1>7, <1>8, SMTT(60)
       DEF StatsNext, Step, StatsTerminated

\* A thread inside holds the lock, so what it has read cannot change under it; its
\* store is therefore the update of one instant, and its copies are of one instant.
LEMMA StatsInvStep == StatsInv /\ [StatsNext]_statsVars => StatsInv'
  <1> SUFFICES ASSUME StatsInv, [StatsNext]_statsVars PROVE StatsInv'
    OBVIOUS
  <1>t. TypeOK /\ TypeOK'
    BY StatsTypeStep, Zenon DEF StatsInv
  <1> DEFINE Goal == CountersExact' /\ ReadIsCurrent' /\ SnapshotIsInstant'
  <1>1. ASSUME NEW t \in Threads, Call(t) PROVE Goal
    BY <1>1, <1>t, ThreadsAssumption, SMTT(60)
       DEF StatsInv, TypeOK, CountersExact, ReadIsCurrent, SnapshotIsInstant, Inside, Call,
           Goto, ghosts
  <1>2. ASSUME NEW t \in Threads, LockStats(t) PROVE Goal
    <2>1. call[t].op \in {"add", "subtract", "none", "snapshot"}
      BY <1>t, CallType, Zenon DEF TypeOK
    <2>2. \A u \in Threads : pc[u] \notin Inside
      BY <1>2, ThreadsAssumption, Zenon DEF StatsInv, ReadIsCurrent, LockStats
    <2>3. /\ \A u \in Threads : u # t => pc'[u] = pc[u] /\ instant'[u] = instant[u]
          /\ pc'[t] = Body(call[t]) /\ instant'[t] = exact /\ mutex' = t
          /\ UNCHANGED <<counters, call, loaded, snapshot, todo, exact>>
      BY <1>2, <1>t, Zenon DEF TypeOK, LockStats, Goto
    <2>4. CountersExact' /\ SnapshotIsInstant'
      BY <2>1, <2>3, Zenon DEF StatsInv, CountersExact, SnapshotIsInstant, Body
    <2>5. ReadIsCurrent'
      <3>1. pc[t] = "lock" /\ todo[t] = Counters
        BY <1>2, ThreadsAssumption, Zenon DEF StatsInv, ReadIsCurrent, LockStats
      <3> QED
        BY <2>1, <2>2, <2>3, <3>1, SMTT(60) DEF StatsInv, ReadIsCurrent, Inside, Body
    <2> QED
      BY <2>4, <2>5, Zenon
  <1>3. ASSUME NEW t \in Threads, Load(t) PROVE Goal
    BY <1>3, <1>t, ThreadsAssumption, SMTT(60)
       DEF StatsInv, TypeOK, CountersExact, ReadIsCurrent, SnapshotIsInstant, Inside, Load,
           Goto, ghosts
  <1>4. ASSUME NEW t \in Threads, Store(t) PROVE Goal
    <2>1. mutex = t /\ loaded[t] = counters[call[t].counter] /\ call[t].counter \in Counters
      BY <1>4, <1>t, CallType, Zenon DEF StatsInv, ReadIsCurrent, Inside, Store, TypeOK
    <2>2. CountersExact'
      BY <1>4, <2>1, Zenon DEF StatsInv, CountersExact, Store
    <2>3. \A u \in Threads : u # t => pc[u] \notin Inside
      BY <2>1, Zenon DEF StatsInv, ReadIsCurrent
    <2>4. ReadIsCurrent' /\ SnapshotIsInstant'
      BY <1>4, <1>t, <2>1, <2>3, SMTT(60)
         DEF StatsInv, TypeOK, ReadIsCurrent, SnapshotIsInstant, Inside, Store, Goto
    <2> QED
      BY <2>2, <2>4, Zenon
  <1>5. ASSUME NEW t \in Threads, Copy(t) PROVE Goal
    <2>1. PICK c \in todo[t] : /\ snapshot' = [snapshot EXCEPT ![t][c] = counters[c]]
                               /\ todo' = [todo EXCEPT ![t] = @ \ {c}]
      BY <1>5, Zenon DEF Copy
    <2>2. /\ c \in Counters /\ pc[t] = "copy" /\ todo'[t] = todo[t] \ {c}
          /\ snapshot'[t] = [snapshot[t] EXCEPT ![c] = counters[c]]
      BY <1>5, <1>t, <2>1, ZenonT(60) DEF Copy, TypeOK
    <2>3. \A u \in Threads : u # t => snapshot'[u] = snapshot[u] /\ todo'[u] = todo[u]
      BY <1>t, <2>1, Zenon DEF TypeOK
    <2>4. \A d \in Counters \ todo'[t] : snapshot'[t][d] = counters[d]
      BY <1>t, <2>2, SMTT(60) DEF StatsInv, ReadIsCurrent, TypeOK
    <2>5. UNCHANGED <<counters, mutex, pc, call, loaded, exact, instant>>
      BY <1>5, Zenon DEF Copy, ghosts
    <2>6. ReadIsCurrent'
      <3>1. /\ \A u \in Threads : pc'[u] \in Inside <=> mutex' = u
            /\ \A u \in Threads : pc'[u] = "store" => loaded'[u] = counters'[call'[u].counter]
            /\ \A u \in Threads : pc'[u] \in Inside => (pc'[u] = "copy" <=> call'[u].op = "snapshot")
            /\ \A u \in Threads : pc'[u] = "lock" => todo'[u] = Counters
            /\ \A u \in Threads : pc'[u] = "copy" => instant'[u] = exact'
        BY <2>2, <2>3, <2>5, Zenon DEF StatsInv, ReadIsCurrent
      <3>2. ASSUME NEW u \in Threads, pc'[u] = "copy", NEW d \in Counters \ todo'[u]
            PROVE  snapshot'[u][d] = counters'[d]
        <4>1. CASE u = t
          BY <4>1, <3>2, <2>4, <2>5, Zenon
        <4>2. CASE u # t
          BY <4>2, <3>2, <2>3, <2>5, SMTT(60) DEF StatsInv, ReadIsCurrent
        <4> QED
          BY <4>1, <4>2, Zenon
      <3> QED
        BY <3>1, <3>2, Zenon DEF ReadIsCurrent, Inside
    <2>7. CountersExact' /\ SnapshotIsInstant'
      BY <2>2, <2>3, <2>5, Zenon DEF StatsInv, CountersExact, SnapshotIsInstant
    <2> QED
      BY <2>6, <2>7, Zenon
  <1>6. ASSUME NEW t \in Threads, UnlockStats(t) PROVE Goal
    <2>1. mutex = t /\ pc[t] \in Inside
      BY <1>6, Zenon DEF StatsInv, ReadIsCurrent, UnlockStats, Copied, Inside
    <2>2. call[t].op = "snapshot" => snapshot[t] = instant[t]
      <3> SUFFICES ASSUME call[t].op = "snapshot" PROVE snapshot[t] = instant[t]
        OBVIOUS
      <3>1. pc[t] = "copy" /\ todo[t] = {} /\ instant[t] = counters
        BY <1>6, <2>1, Zenon
           DEF StatsInv, ReadIsCurrent, UnlockStats, Copied, CountersExact
      <3>2. \A c \in Counters : snapshot[t][c] = instant[t][c]
        BY <3>1, Zenon DEF StatsInv, ReadIsCurrent
      <3> QED
        BY <3>2, <1>t, SMTT(60) DEF TypeOK
    <2>3. CountersExact' /\ ReadIsCurrent'
      BY <1>6, <1>t, <2>1, ThreadsAssumption, SMTT(60)
         DEF StatsInv, TypeOK, CountersExact, ReadIsCurrent, Inside, UnlockStats, Goto,
             ghosts
    <2>4. SnapshotIsInstant'
      BY <1>6, <1>t, <2>2, Zenon
         DEF StatsInv, TypeOK, SnapshotIsInstant, UnlockStats, Goto, ghosts
    <2> QED
      BY <2>3, <2>4, Zenon
  <1>7. ASSUME NEW t \in Threads, StatsReturn(t) PROVE Goal
    BY <1>7, <1>t, ThreadsAssumption, SMTT(60)
       DEF StatsInv, TypeOK, CountersExact, ReadIsCurrent, SnapshotIsInstant, Inside,
           StatsReturn, Goto
  <1>8. ASSUME UNCHANGED statsVars PROVE Goal
    BY <1>8, Zenon
       DEF StatsInv, Inside, CountersExact, ReadIsCurrent, SnapshotIsInstant, statsVars
  <1>9. Goal
    BY <1>1, <1>2, <1>3, <1>4, <1>5, <1>6, <1>7, <1>8, Zenon
       DEF StatsNext, Step, StatsTerminated
  <1> QED
    BY <1>t, <1>9, Zenon DEF StatsInv

\* No increment or decrement of server_stats.c is lost, whatever the threads do.
THEOREM UpdatesNeverLost == StatsSpec => []CountersExact
  <1>1. StatsInv => CountersExact
    BY Zenon DEF StatsInv
  <1>2. StatsInit => StatsInv
    BY StatsInvInit, Zenon
  <1>3. StatsInv /\ [StatsNext]_statsVars => StatsInv'
    BY StatsInvStep, Zenon
  <1> QED
    BY <1>1, <1>2, <1>3, PTL DEF StatsSpec

\* server_stats_snapshot returns the counters of one instant.
THEOREM SnapshotsAreConsistent == StatsSpec => []SnapshotIsInstant
  <1>1. StatsInv => SnapshotIsInstant
    BY Zenon DEF StatsInv
  <1>2. StatsInit => StatsInv
    BY StatsInvInit, Zenon
  <1>3. StatsInv /\ [StatsNext]_statsVars => StatsInv'
    BY StatsInvStep, Zenon
  <1> QED
    BY <1>1, <1>2, <1>3, PTL DEF StatsSpec

-----------------------------------------------------------------------------
\* What a sequence is.
LEMMA SequenceIs ==
    ASSUME NEW S, NEW n \in Nat, NEW f \in [1..n -> S]
    PROVE  f \in Seq(S) /\ Len(f) = n
  OBVIOUS

LEMMA SequenceFacts ==
    ASSUME NEW S, NEW q \in Seq(S)
    PROVE  /\ Len(q) \in Nat /\ DOMAIN q = 1..Len(q) /\ q \in [1..Len(q) -> S]
           /\ \A i \in 1..Len(q) : q[i] \in S
  OBVIOUS

\* The empty sequence.
LEMMA EmptyFacts ==
    ASSUME NEW S
    PROVE  <<>> \in Seq(S) /\ Len(<<>>) = 0 /\ \A q \in Seq(S) : q # <<>> => Len(q) # 0
  OBVIOUS

\* One sequence after another.
LEMMA JoinFacts ==
    ASSUME NEW S, NEW p \in Seq(S), NEW q \in Seq(S)
    PROVE  /\ p \o q \in Seq(S) /\ Len(p \o q) = Len(p) + Len(q)
           /\ \A i \in 1..Len(p) : (p \o q)[i] = p[i]
           /\ \A i \in (Len(p) + 1)..(Len(p) + Len(q)) : (p \o q)[i] = q[i - Len(p)]
  OBVIOUS

\* Sequences with the same elements are equal.
LEMMA SameSequence ==
    ASSUME NEW S, NEW p \in Seq(S), NEW q \in Seq(S),
           Len(p) = Len(q), \A i \in 1..Len(p) : p[i] = q[i]
    PROVE  p = q
  OBVIOUS

\* The n elements of q behind the first a.
LEMMA SegmentFacts ==
    ASSUME NEW S, NEW q \in Seq(S), NEW a \in Nat, NEW n \in Nat, a + n <= Len(q)
    PROVE  /\ SubSeq(q, a + 1, a + n) \in Seq(S)
           /\ Len(SubSeq(q, a + 1, a + n)) = n
           /\ \A i \in 1..n : SubSeq(q, a + 1, a + n)[i] = q[a + i]
  OBVIOUS

-----------------------------------------------------------------------------
(* client_handle, for every limit on the requests of a connection and any  *)
(* number of Connection lines.                                             *)

Flags == keep_alive \in BOOLEAN /\ force_close \in BOOLEAN
Counts == requests \in Nat /\ received \in Nat /\ responses \in Nat
Parsed == request \in ParsedRequests \cup {NoRequest}

\* The statistics before the current request was counted, and after.
AnsweredAll == responses = requests /\ received = requests
OneToAnswer == responses = requests /\ received = requests + 1

\* What each place of the loop implies.  The request decides what may be announced;
\* the announcement and the flags then agree until the next iteration.
Places ==
    /\ at = "read" =>
          /\ AnsweredAll /\ requests < MaxRequests
          /\ requests > 0 => Persistent(announced)
          /\ ~keep_alive /\ ~force_close
    /\ at = "parse" => OneToAnswer /\ requests < MaxRequests /\ ~keep_alive
    /\ at = "dispatch" =>
          OneToAnswer /\ requests < MaxRequests /\ (keep_alive => WantsKeepAlive(request))
    /\ at = "send_one" =>
          /\ requests < MaxRequests
          /\ keep_alive => OneToAnswer /\ WantsKeepAlive(request)
    /\ at = "send" =>
          /\ ~sent
          /\ ~EndsConnection => /\ Persistent(announced) /\ WantsKeepAlive(request)
                               /\ requests < MaxRequests /\ received = requests
                                /\ requests = responses + 1
          /\ EndsConnection => ~Persistent(announced)
    /\ at = "end" =>
          /\ ~EndsConnection => AnsweredAll /\ requests < MaxRequests /\ Persistent(announced)
          /\ EndsConnection /\ sent => ~Persistent(announced)

Inv == Flags /\ Counts /\ Parsed /\ Places

-----------------------------------------------------------------------------

LEMMA InitInv == Init => Inv
  <1> SUFFICES ASSUME Init PROVE Inv
    BY Zenon
  <1>1. Flags /\ Parsed
    BY Zenon DEF Init, Flags, Parsed
  <1>2. Counts /\ Places
    BY Zenon DEF Init, Counts, Places
  <1> QED
    BY <1>1, <1>2, Zenon DEF Inv

\* A connection begins.
LEMMA StartStep == ASSUME Inv, Start PROVE Inv'
  <1>1. Flags' /\ Parsed'
    BY Zenon DEF Start, Fresh, Flags, Parsed
  <1>2. Counts' /\ Places'
    BY LimitsAssumption DEF Start, Fresh, Counts, Places, AnsweredAll
  <1> QED
    BY <1>1, <1>2, Zenon DEF Inv

LEMMA ReadStep == ASSUME Inv, Read PROVE Inv'
  <1>1. ASSUME NEW r, NEW left, ReadEnded(r, left) PROVE Inv'
    BY <1>1, Zenon DEF ReadEnded, loopVars, statVars, Inv, Flags, Counts, Parsed, Places
  <1>2. ASSUME NEW r, NEW left, ReadFailed(r, left) PROVE Inv'
    <2>1. Flags' /\ Parsed'
      BY <1>2, SMTT(60) DEF ReadFailed, Inv, Flags, Parsed
    <2>2. Counts' /\ Places'
      BY <1>2, Zenon DEF ReadFailed, statVars, Inv, Counts, Places, WantsKeepAlive
    <2> QED
      BY <2>1, <2>2 DEF Inv
  <1>3. ASSUME NEW left, ReadOk(left) PROVE Inv'
    <2>1. Flags' /\ Parsed'
      BY <1>3, Zenon DEF ReadOk, loopVars, Inv, Flags, Parsed
    <2>2. Counts' /\ Places'
      BY <1>3 DEF ReadOk, loopVars, Inv, Counts, Places, AnsweredAll, OneToAnswer
    <2> QED
      BY <2>1, <2>2 DEF Inv
  <1> QED
    BY <1>1, <1>2, <1>3, Zenon DEF Read

LEMMA ParseStep ==
    ASSUME Inv, ParseFailed \/ \E req \in ParsedRequests : ParseOk(req)
    PROVE  Inv'
  <1>1. CASE ParseFailed
    <2>1. Flags' /\ Parsed'
      BY <1>1, Zenon DEF ParseFailed, Inv, Flags, Parsed
    <2>2. Counts' /\ Places'
      BY <1>1, Zenon DEF ParseFailed, statVars, Inv, Counts, Places
    <2> QED
      BY <2>1, <2>2, Zenon DEF Inv
  <1>2. ASSUME NEW req \in ParsedRequests, ParseOk(req) PROVE Inv'
    <2>1. WantsKeepAlive(req) \in BOOLEAN
      BY Zenon DEF WantsKeepAlive
    <2>2. Flags' /\ Parsed'
      BY <1>2, <2>1, Zenon DEF ParseOk, Inv, Flags, Parsed
    <2>3. keep_alive' => WantsKeepAlive(request')
      BY <1>2, Zenon DEF ParseOk
    <2>4. Counts' /\ Places'
      BY <1>2, <2>3, Zenon DEF ParseOk, statVars, Inv, Counts, Places, OneToAnswer
    <2> QED
      BY <2>2, <2>4, Zenon DEF Inv
  <1> QED
    BY <1>1, <1>2, Zenon

LEMMA DispatchStep == ASSUME Inv, Dispatch PROVE Inv'
  <1>1. PICK S, forced : forced \in BOOLEAN /\ Respond(S, forced)
    BY ZenonT(60) DEF Dispatch, DispatchRouted, DispatchRouterError, DispatchStatic, DispatchNotAllowed
  <1>2. Flags' /\ Parsed'
    <2>1. StatusRequiresClose(status') \in BOOLEAN
      BY DEF StatusRequiresClose
    <2> QED
      BY <1>1, <2>1, Zenon DEF Respond, Inv, Flags, Parsed
  <1>3. keep_alive' => keep_alive
    BY <1>1, Zenon DEF Respond
  <1>4. Counts' /\ Places'
    BY <1>1, <1>3, Zenon DEF Respond, statVars, Inv, Counts, Places, OneToAnswer, WantsKeepAlive
  <1> QED
    BY <1>2, <1>4 DEF Inv

\* What SendOne announces: close, unless the connection persists, and then what the
\* client's version calls for.
LEMMA Announced ==
    ASSUME Inv, at = "send_one",
           NEW p \in ApplyConnectionPolicy(Persist, request.version),
           force_close' = (force_close \/ AtLimit \/ ~p.ok),
           IF p.ok THEN Announce(p)
           ELSE \E q \in ApplyConnectionPolicy(FALSE, request.version) : Announce(q)
    PROVE  /\ Persist /\ p.ok => Persistent(announced')
           /\ ~(Persist /\ p.ok) => ~Persistent(announced')
           /\ p.ok \in BOOLEAN
  <1>1. p.ok \in BOOLEAN
    <2>1. ASSUME NEW value, NEW r \in SetConnection(value) PROVE r.ok = TRUE \/ r.ok = FALSE
      BY DEF SetConnection
    <2>2. \/ p.ok = TRUE
          \/ \E r \in SetConnection(IF Persist THEN "keep-alive" ELSE "close") : p.ok = r.ok
      BY DEF ApplyConnectionPolicy
    <2> QED
      BY <2>1, <2>2, Zenon
  <1>2. ASSUME NEW q \in ApplyConnectionPolicy(FALSE, request.version)
        PROVE  Serialized(q) = "close"
    BY DEF ApplyConnectionPolicy, SetConnection, Serialized
  <1>3. CASE Persist /\ p.ok
    <2>1. request.version \in {"HTTP/1.0", "HTTP/1.1"}
      <3>1. WantsKeepAlive(request)
        BY <1>3, Zenon DEF Persist, Inv, Places
      <3> QED
        BY <3>1, Zenon DEF WantsKeepAlive
    <2>2. Serialized(p) = IF request.version = "HTTP/1.0" THEN "keep-alive" ELSE "none"
      BY <1>3, <2>1 DEF ApplyConnectionPolicy, SetConnection, Serialized
    <2> QED
      BY <1>3, <2>1, <2>2 DEF Announce, Persistent
  <1>4. CASE ~(Persist /\ p.ok)
    <2>1. ~Persist => Serialized(p) = "close"
      BY DEF ApplyConnectionPolicy, SetConnection, Serialized
    <2>2. \E q : Serialized(q) = "close" /\ Announce(q)
      BY <1>1, <1>2, <1>4, <2>1, Zenon
    <2>3. announced'.connection = "close"
      BY <2>2 DEF Announce
    <2> QED
      BY <1>1, <1>4, <2>3, Zenon DEF Persistent
  <1> QED
    BY <1>1, <1>3, <1>4, Zenon

LEMMA SendOneStep == ASSUME Inv, SendOne PROVE Inv'
  <1>1. /\ at = "send_one" /\ requests' = requests + 1
        /\ keep_alive' = (keep_alive /\ ~AtLimit) /\ sent' = FALSE
        /\ UNCHANGED <<request, received, responses>>
    BY Zenon DEF SendOne, statVars
  <1>2. Counts' /\ Parsed'
    BY <1>1 DEF Inv, Counts, Parsed
  <1>3. keep_alive' \in BOOLEAN /\ AtLimit \in BOOLEAN
    BY <1>1 DEF AtLimit
  <1>4. CASE force_close' = TRUE /\ at' = "end"
    <2>1. Places'
      BY <1>1, <1>4, Zenon DEF Places, EndsConnection
    <2> QED
      BY <1>2, <1>3, <1>4, <2>1, Zenon DEF Inv, Flags
  <1>5. ASSUME NEW p \in ApplyConnectionPolicy(Persist, request.version),
               force_close' = (force_close \/ AtLimit \/ ~p.ok),
               IF p.ok THEN Announce(p)
               ELSE \E q \in ApplyConnectionPolicy(FALSE, request.version) : Announce(q),
               at' = "send"
        PROVE  Inv'
    <2>1. /\ Persist /\ p.ok => Persistent(announced')
          /\ ~(Persist /\ p.ok) => ~Persistent(announced')
          /\ p.ok \in BOOLEAN
      BY <1>1, <1>5, Announced, Zenon
    <2>2. Flags'
      BY <1>3, <1>5, Zenon DEF Flags
    <2>3. EndsConnection' <=> ~(Persist /\ p.ok)
      BY <1>1, <1>3, <1>5, <2>1, Zenon DEF EndsConnection, Persist, Inv, Flags
    <2>4. Persist => /\ WantsKeepAlive(request') /\ requests' < MaxRequests
                     /\ received' = requests' /\ requests' = responses' + 1
      <3>1. Persist => keep_alive /\ requests + 1 < MaxRequests
        BY LimitsAssumption DEF Persist, AtLimit, Inv, Counts
      <3> QED
        BY <1>1, <3>1, Zenon DEF Inv, Places, OneToAnswer, Counts
    <2>5. Places'
      BY <1>1, <1>5, <2>1, <2>3, <2>4, Zenon DEF Places
    <2> QED
      BY <1>2, <2>2, <2>5, Zenon DEF Inv
  <1> QED
    BY <1>4, <1>5, Zenon DEF SendOne

LEMMA SendStep == ASSUME Inv, Sent \/ SendFailed PROVE Inv'
  <1>1. CASE Sent
    <2>1. Flags' /\ Parsed' /\ EndsConnection' = EndsConnection
      BY <1>1, Zenon DEF Sent, loopVars, Inv, Flags, Parsed, EndsConnection
    <2>2. Counts' /\ Places'
      BY <1>1, <2>1 DEF Sent, Inv, Counts, Places, AnsweredAll
    <2> QED
      BY <2>1, <2>2, Zenon DEF Inv
  <1>2. CASE SendFailed
    <2>1. Flags' /\ Parsed'
      BY <1>2, Zenon DEF SendFailed, Inv, Flags, Parsed
    <2>2. Counts' /\ Places'
      BY <1>2, Zenon DEF SendFailed, statVars, Inv, Counts, Places, EndsConnection
    <2> QED
      BY <2>1, <2>2, Zenon DEF Inv
  <1> QED
    BY <1>1, <1>2, Zenon

LEMMA EndStep == ASSUME Inv, NextIteration \/ CloseClient \/ ConnectionFinished PROVE Inv'
  <1>1. CASE at' = "read" /\ ~EndsConnection /\ NextIteration
    <2>1. Flags' /\ Parsed'
      BY <1>1, ZenonT(60) DEF NextIteration, Fresh, Flags, Parsed
    <2>2. Counts' /\ Places'
      BY <1>1, Zenon DEF NextIteration, Fresh, statVars, Inv, Counts, Places, AnsweredAll
    <2> QED
      BY <2>1, <2>2, Zenon DEF Inv
  <1>2. CASE at' \in {"close", "finish", "idle"} /\ UNCHANGED <<loopVars, requests, statVars>>
    BY <1>2, Zenon DEF loopVars, statVars, Inv, Flags, Counts, Parsed, Places
  <1> QED
    BY <1>1, <1>2, Zenon DEF NextIteration, CloseClient, ConnectionFinished

LEMMA InvStep == Inv /\ [Next]_vars => Inv'
  <1> SUFFICES ASSUME Inv, [Next]_vars PROVE Inv'
    BY Zenon
  <1>1. CASE UNCHANGED vars
    BY <1>1, ZenonT(60) DEF vars, loopVars, statVars, Inv, Flags, Counts, Parsed, Places, EndsConnection,
                AnsweredAll, OneToAnswer, Persistent, WantsKeepAlive
  <1> QED
    BY <1>1, StartStep, ReadStep, ParseStep, DispatchStep, SendOneStep, SendStep, EndStep, Zenon DEF Next

LEMMA Invariance == Spec => []Inv
  BY InitInv, InvStep, PTL DEF Spec

-----------------------------------------------------------------------------

\* client_handle reads again only when the last response left the connection open,
\* and leaves it open only when the first Connection line does not ask for close,
\* whatever the limit and the number of lines.
THEOREM NoReadAfterCloseHolds == Spec => []NoReadAfterClose
  <1>1. Inv => NoReadAfterClose
    <2> SUFFICES ASSUME Inv PROVE NoReadAfterClose
      BY Zenon
    <2>1. at = "read" /\ requests > 0 => Persistent(announced)
      BY Zenon DEF Inv, Places
    <2>2. ASSUME at = "send", Persistent(announced), request.connection # <<>>
          PROVE  "close" \notin request.connection[1]
      <3>1. WantsKeepAlive(request)
        BY <2>2, Zenon DEF Inv, Places
      <3>2. "close" \notin Head(request.connection)
        BY <2>2, <3>1, Zenon DEF WantsKeepAlive
      <3>3. request.connection \in Seq(SUBSET Tokens)
        BY <2>2, LimitsAssumption DEF Inv, Parsed, ParsedRequests, NoRequest, Lines
      <3> QED
        BY <2>2, <3>2, <3>3
    <2> QED
      BY <2>1, <2>2, Zenon DEF NoReadAfterClose
  <1> QED
    BY <1>1, Invariance, PTL

\* When client_handle reads, every earlier request was answered completely and
\* counted.
THEOREM AllAnsweredHolds == Spec => []AllAnswered
  <1>1. Inv => AllAnswered
    BY Zenon DEF Inv, Places, AnsweredAll, AllAnswered
  <1> QED
    BY <1>1, Invariance, PTL

\* client_handle does not close behind a response that was sent and left the
\* connection open.
THEOREM PersistenceKeptHolds == Spec => PersistenceKept
  <1>1. Inv /\ [Next]_vars => [(at = "end" /\ at' = "close" /\ sent) => ~Persistent(announced)]_vars
    <2> SUFFICES ASSUME Inv, Next, at = "end", at' = "close", sent PROVE ~Persistent(announced)
      BY Zenon
    <2>1. NextIteration
      BY ZenonT(60) DEF Next, Start, Read, ReadEnded, ReadFailed, ReadOk, ParseFailed, ParseOk, Dispatch,
             DispatchRouted, DispatchRouterError, DispatchStatic, DispatchNotAllowed, Respond,
             SendOne, Sent, SendFailed, CloseClient, ConnectionFinished
    <2>2. EndsConnection
      BY <2>1, Zenon DEF NextIteration
    <2> QED
      BY <2>2, Zenon DEF Inv, Places
  <1> QED
    BY <1>1, Invariance, PTL DEF Spec, PersistenceKept

\* A timeout is answered with 408 exactly when a byte of a request has arrived, before
\* the wait or during it.
THEOREM TimeoutAnsweredHolds == Spec => TimeoutAnsweredIfBegun
  <1>1. [Next]_vars => [(at = "read" /\ at' # "read" /\ read_result' = "TIMEOUT")
                           => (at' = "send_one" <=> buffered')]_vars
    <2> SUFFICES ASSUME Next, at = "read", read_result' = "TIMEOUT"
                 PROVE  at' = "send_one" <=> buffered'
      BY Zenon
    <2>1. Read
      BY ZenonT(60) DEF Next, Start, ParseFailed, ParseOk, Dispatch, DispatchRouted, DispatchRouterError,
             DispatchStatic, DispatchNotAllowed, Respond, SendOne, Sent, SendFailed, NextIteration,
             CloseClient, ConnectionFinished
    <2>2. PICK left \in LeftInBuffer("TIMEOUT") : ReadEnded("TIMEOUT", left) \/ ReadFailed("TIMEOUT", left)
      BY <2>1, Zenon DEF Read, ReadEnded, ReadFailed, ReadOk
    <2>3. buffered => left
      BY Zenon DEF LeftInBuffer
    <2>4. CASE ReadEnded("TIMEOUT", left)
      BY <2>4, Zenon DEF ReadEnded, IdleTimeout
    <2>5. CASE ReadFailed("TIMEOUT", left)
      BY <2>3, <2>5, Zenon DEF ReadFailed, IdleTimeout
    <2> QED
      BY <2>2, <2>4, <2>5, Zenon
  <1> QED
    BY <1>1, PTL DEF Spec, TimeoutAnsweredIfBegun

-----------------------------------------------------------------------------
(* The refinement: only the steps that leave receiving or sending, and the  *)
(* last two, change what the server sees.                                   *)

LEMMA ServiceStep == Inv /\ [Next]_vars => [Service!Next]_(Service!vars)
  <1> SUFFICES ASSUME Inv, [Next]_vars PROVE Service!Next \/ UNCHANGED <<Phase, requests>>
    BY Zenon DEF Service!vars
  <1>1. CASE Start
    BY <1>1, Zenon DEF Start, Phase, Service!Next, Service!Take, Service!Goto
  <1>2. CASE Read
    <2>1. ASSUME NEW r, NEW left, ReadEnded(r, left) PROVE Service!End
      BY <2>1, Zenon DEF ReadEnded, Phase, Service!End, Service!Goto
    <2>2. ASSUME NEW r, NEW left, ReadFailed(r, left) PROVE UNCHANGED <<Phase, requests>>
      BY <2>2, Zenon DEF ReadFailed, Phase
    <2>3. ASSUME NEW left, ReadOk(left) PROVE UNCHANGED <<Phase, requests>>
      BY <2>3, Zenon DEF ReadOk, Phase
    <2> QED
      BY <1>2, <2>1, <2>2, <2>3, Zenon DEF Read, Service!Next
  <1>3. CASE ParseFailed \/ (\E req \in ParsedRequests : ParseOk(req)) \/ Dispatch
    BY <1>3 DEF ParseFailed, ParseOk, Dispatch, DispatchRouted, DispatchRouterError, DispatchStatic,
                DispatchNotAllowed, Respond, Phase
  <1>4. CASE SendOne
    <2>1. CASE force_close' = TRUE /\ at' = "end"
      <3>1. Phase' = "close"
        BY <2>1, Zenon DEF Phase, EndsConnection
      <3> QED
        BY <1>4, <3>1, Zenon DEF SendOne, Phase, Service!Next, Service!End, Service!Goto
    <2>2. CASE at' = "send"
      BY <1>4, <2>2, Zenon DEF SendOne, Phase, Service!Next, Service!Answer, Service!Goto
    <2> QED
      BY <1>4, <2>1, <2>2, ZenonT(60) DEF SendOne
  <1>5. CASE Sent \/ SendFailed
    <2>1. at = "send" /\ at' = "end" /\ UNCHANGED requests
      BY <1>5, Zenon DEF Sent, SendFailed
    <2>2. Phase = "send"
      BY <2>1, Zenon DEF Phase
    <2>3. CASE EndsConnection'
      <3>1. Phase' = "close"
        BY <2>1, <2>3, Zenon DEF Phase
      <3> QED
        BY <2>1, <2>2, <3>1, Zenon DEF Service!Next, Service!Stop, Service!Goto
    <2>4. CASE ~EndsConnection'
      <3>1. Phase' = "recv"
        BY <2>1, <2>4, Zenon DEF Phase
      <3>2. ~EndsConnection
        BY <1>5, <2>4, Zenon DEF Sent, SendFailed, loopVars, EndsConnection
      <3>3. requests < MaxRequests
        BY <2>1, <3>2, Zenon DEF Inv, Places
      <3> QED
        BY <2>1, <2>2, <3>1, <3>3, Zenon DEF Service!Next, Service!Again, Service!Goto
    <2> QED
      BY <2>3, <2>4, Zenon
  <1>6. CASE NextIteration
    BY <1>6, Zenon DEF NextIteration, Phase
  <1>7. CASE CloseClient
    BY <1>7, Zenon DEF CloseClient, Phase, Service!Next, Service!Close, Service!Goto
  <1>8. CASE ConnectionFinished
    BY <1>8, Zenon DEF ConnectionFinished, Phase, Service!Next, Service!Finish, Service!Goto
  <1>9. CASE UNCHANGED vars
    BY <1>9, Zenon DEF vars, loopVars, Phase, EndsConnection
  <1> QED
    BY <1>1, <1>2, <1>3, <1>4, <1>5, <1>6, <1>7, <1>8, <1>9, Zenon DEF Next

\* client_handle does what module Server expects of a worker: at most MaxRequests
\* answers, then close, then the end of the accounting.
THEOREM ServiceImplemented == Spec => ImplementsService
  <1>1. Init => Service!Init
    BY Zenon DEF Init, Service!Init, Phase
  <1> QED
    BY <1>1, ServiceStep, Invariance, PTL DEF Spec, ImplementsService, Service!Spec

-----------------------------------------------------------------------------
(* http_response_send, for every size of headers, body, file and chunk.    *)

ByteSet == {"header", "body"} \X Int

\* The message, byte by byte.
MessageByte(i) == IF i <= HeaderBytes THEN <<"header", i - 1>> ELSE <<"body", i - HeaderBytes - 1>>

BodyLength == IF omit_body THEN 0 ELSE length

Types ==
    /\ omit_body \in BOOLEAN /\ body_kind \in {"NONE", "MEMORY", "FILE"}
    /\ stage \in {"call", "header", "memory", "sendfile", "read", "chunk", "returned"}
    /\ body_kind = "NONE" => length = 0
    /\ length \in Nat /\ file_size \in Nat /\ file_pos \in Nat
    /\ offset \in Nat /\ remaining \in Int /\ nr \in Nat
    /\ out \in Seq(ByteSet) /\ wire \in Seq(ByteSet)
    /\ result \in {-1, 0, 1}

\* What is on the wire, and what send_all has still to send, is the message up to
\* some byte.
InOrder ==
    /\ \A i \in 1..Len(wire) : wire[i] = MessageByte(i)
    /\ \A i \in 1..Len(out) : out[i] = MessageByte(Len(wire) + i)

\* How far the wire is at each place.
Reached ==
    /\ result = 0 => stage = "returned" /\ Len(wire) = HeaderBytes + BodyLength
    /\ stage = "call" => Len(wire) = 0 /\ Len(out) = 0
    /\ stage = "header" => Len(wire) + Len(out) = HeaderBytes
    /\ stage = "memory" => ~omit_body /\ Len(wire) + Len(out) = HeaderBytes + length
    /\ stage = "sendfile" => /\ ~omit_body /\ Len(out) = 0
                          /\ Len(wire) = HeaderBytes + offset
                          /\ offset <= length /\ remaining = length - offset
    /\ stage = "read" => /\ ~omit_body /\ Len(out) = 0
                      /\ Len(wire) = HeaderBytes + file_pos
                      /\ file_pos <= length /\ remaining = length - file_pos
    /\ stage = "chunk" => /\ ~omit_body
                       /\ Len(wire) + Len(out) = HeaderBytes + file_pos
                       /\ file_pos <= length /\ remaining = length - file_pos + nr
    /\ Len(wire) <= HeaderBytes + BodyLength

\* Inductive.
SendInv == Types /\ InOrder /\ Reached

\* A run of bytes of one part of the message.
LEMMA BytesProperties ==
    ASSUME NEW part \in {"header", "body"}, NEW from \in Int, NEW n \in Nat
    PROVE  /\ Bytes(part, from, n) \in Seq(ByteSet)
           /\ Len(Bytes(part, from, n)) = n
           /\ \A i \in 1..n : Bytes(part, from, n)[i] = <<part, from + i - 1>>
  <1>1. \A i \in 1..n : <<part, from + i - 1>> \in ByteSet
    BY DEF ByteSet
  <1>2. Bytes(part, from, n) \in [1..n -> ByteSet]
    BY <1>1, Zenon DEF Bytes
  <1>3. Bytes(part, from, n) \in Seq(ByteSet)
    BY <1>2, SequenceIs, Zenon
  <1>4. Len(Bytes(part, from, n)) = n
    BY <1>2, <1>3, SequenceFacts, SMTT(60)
  <1> QED
    BY <1>3, <1>4, Zenon DEF Bytes

\* Appending the bytes of the message that come next.
LEMMA WireGrows ==
    ASSUME NEW w \in Seq(ByteSet), NEW s \in Seq(ByteSet),
           \A i \in 1..Len(w) : w[i] = MessageByte(i),
           \A i \in 1..Len(s) : s[i] = MessageByte(Len(w) + i)
    PROVE  /\ w \o s \in Seq(ByteSet)
           /\ Len(w \o s) = Len(w) + Len(s)
           /\ \A i \in 1..Len(w \o s) : (w \o s)[i] = MessageByte(i)
  <1>1. /\ w \o s \in Seq(ByteSet) /\ Len(w \o s) = Len(w) + Len(s)
        /\ \A i \in 1..Len(w) : (w \o s)[i] = w[i]
        /\ \A i \in (Len(w) + 1)..(Len(w) + Len(s)) : (w \o s)[i] = s[i - Len(w)]
    BY JoinFacts, Zenon
  <1>2. ASSUME NEW i \in 1..Len(w) + Len(s) PROVE (w \o s)[i] = MessageByte(i)
    <2>1. CASE i <= Len(w)
      BY <1>1, <2>1, SMTT(60)
    <2>2. CASE i > Len(w)
      <3>1. i - Len(w) \in 1..Len(s) /\ Len(w) + (i - Len(w)) = i
        BY <2>2, SMTT(60)
      <3>2. s[i - Len(w)] = MessageByte(i)
        BY <3>1, Zenon
      <3> QED
        BY <1>1, <2>2, <3>2, SMTT(60)
    <2> QED
      BY <2>1, <2>2, SMTT(60)
  <1> QED
    BY <1>1, <1>2, Zenon

\* What one send takes, and what it leaves.
LEMMA SendSplits ==
    ASSUME NEW o \in Seq(ByteSet), NEW n \in 1..Len(o)
    PROVE  /\ SubSeq(o, 1, n) \in Seq(ByteSet) /\ Len(SubSeq(o, 1, n)) = n
           /\ \A i \in 1..n : SubSeq(o, 1, n)[i] = o[i]
           /\ SubSeq(o, n + 1, Len(o)) \in Seq(ByteSet)
           /\ Len(SubSeq(o, n + 1, Len(o))) = Len(o) - n
           /\ \A i \in 1..(Len(o) - n) : SubSeq(o, n + 1, Len(o))[i] = o[n + i]
  OBVIOUS

-----------------------------------------------------------------------------

LEMMA InvInit == SendInit => SendInv
  <1> SUFFICES ASSUME SendInit PROVE SendInv
    OBVIOUS
  <1>1. <<>> \in Seq(ByteSet) /\ Len(<<>>) = 0
    BY EmptyFacts, Zenon
  <1>2. length \in Nat
    BY SizesAssumption DEF SendInit
  <1>3. Types
    BY <1>1, <1>2 DEF SendInit, Types
  <1>4. InOrder
    BY <1>1, SMTT(60) DEF SendInit, InOrder
  <1>5. Reached
    BY <1>1, <1>2, SizesAssumption DEF SendInit, Reached, BodyLength
  <1> QED
    BY <1>3, <1>4, <1>5, Zenon DEF SendInv

\* Returning: 0 is allowed only where the whole message is on the wire.
LEMMA ReturnStep ==
    ASSUME SendInv, NEW r \in {-1, 0}, Return(r),
           r = 0 => Len(wire) = HeaderBytes + BodyLength
    PROVE  SendInv'
  <1>1. Types'
    BY Zenon DEF SendInv, Types, Return, response
  <1>2. InOrder'
    BY Zenon DEF SendInv, InOrder, Return
  <1>3. BodyLength' = BodyLength /\ Len(wire') <= HeaderBytes + BodyLength
    BY Zenon DEF SendInv, Reached, Return, response, BodyLength
  <1>4. Reached'
    BY <1>3, Zenon DEF Return, Reached
  <1> QED
    BY <1>1, <1>2, <1>4, Zenon DEF SendInv

\* The steps that return.
LEMMA ReturningSteps ==
    ASSUME SendInv,
           \/ SerializeFails \/ SendAllFails \/ SendfileFails \/ ReadFails
           \/ SendNoBody \/ MemoryBodySent
           \/ SendfileEof \/ SendfileDone \/ ReadEof \/ ReadDone
    PROVE  SendInv'
  <1>0. /\ length \in Nat /\ offset \in Nat /\ file_pos \in Nat /\ Len(wire) \in Nat
        /\ omit_body \in BOOLEAN /\ HeaderBytes \in Nat
    BY SequenceFacts, SizesAssumption, Zenon DEF SendInv, Types
  <1>1. out = <<>> => Len(out) = 0
    BY EmptyFacts, Zenon
  <1>2. CASE SerializeFails \/ SendAllFails \/ SendfileFails \/ ReadFails \/ SendfileEof \/ ReadEof
    <2>1. Return(-1)
      BY <1>2, Zenon DEF SerializeFails, SendAllFails, SendfileFails, ReadFails, SendfileEof, ReadEof
    <2> QED
      BY <2>1, ReturnStep
  <1>3. CASE SendNoBody
    <2>1. Return(0) /\ Len(wire) = HeaderBytes /\ ~HasBody
      BY <1>0, <1>1, <1>3 DEF SendNoBody, SendInv, Reached
    <2>2. BodyLength = 0
      BY <1>0, <2>1 DEF SendInv, Types, HasBody, BodyLength
    <2> QED
      BY <1>0, <2>1, <2>2, ReturnStep
  <1>4. CASE MemoryBodySent
    <2>1. Return(0) /\ Len(wire) = HeaderBytes + BodyLength
      BY <1>0, <1>1, <1>4, SMTT(60) DEF MemoryBodySent, SendInv, Reached, BodyLength
    <2> QED
      BY <2>1, ReturnStep, Zenon
  <1>5. CASE SendfileDone \/ ReadDone
    <2>1. Return(0) /\ Len(wire) = HeaderBytes + BodyLength
      BY <1>0, <1>5 DEF SendfileDone, ReadDone, SendInv, Reached, BodyLength
    <2> QED
      BY <2>1, ReturnStep
  <1> QED
    BY <1>2, <1>3, <1>4, <1>5, Zenon

\* One send of send_all.
LEMMA SendAllStep ==
    ASSUME SendInv, NEW n \in Int, SendAll(n)
    PROVE  SendInv'
  <1>0. /\ length \in Nat /\ file_pos \in Nat /\ HeaderBytes \in Nat /\ omit_body \in BOOLEAN
        /\ Len(wire) \in Nat /\ Len(out) \in Nat /\ n \in 1..Len(out)
        /\ wire \in Seq(ByteSet) /\ out \in Seq(ByteSet)
    BY SequenceFacts, SizesAssumption, Zenon DEF SendInv, Types, SendAll
  <1>1. /\ SubSeq(out, 1, n) \in Seq(ByteSet) /\ Len(SubSeq(out, 1, n)) = n
        /\ \A i \in 1..n : SubSeq(out, 1, n)[i] = out[i]
        /\ out' \in Seq(ByteSet) /\ Len(out') = Len(out) - n
        /\ \A i \in 1..(Len(out) - n) : out'[i] = out[n + i]
    BY <1>0, SendSplits, Zenon DEF SendAll
  <1>2. \A i \in 1..n : SubSeq(out, 1, n)[i] = MessageByte(Len(wire) + i)
    BY <1>0, <1>1, SMTT(60) DEF SendInv, InOrder
  <1>3. /\ wire' \in Seq(ByteSet) /\ Len(wire') = Len(wire) + n
        /\ \A i \in 1..Len(wire') : wire'[i] = MessageByte(i)
    BY <1>0, <1>1, <1>2, WireGrows, SMTT(60) DEF SendAll, SendInv, InOrder
  <1>4. ASSUME NEW i \in 1..Len(out') PROVE out'[i] = MessageByte(Len(wire') + i)
    <2>1. n + i \in 1..Len(out) /\ Len(wire) + (n + i) = Len(wire') + i
      BY <1>0, <1>1, <1>3, SMTT(60)
    <2> QED
      BY <1>1, <2>1, Zenon DEF SendInv, InOrder
  <1>5. Types'
    BY <1>1, <1>3, Zenon DEF SendInv, Types, SendAll, response
  <1>6. InOrder'
    BY <1>3, <1>4, Zenon DEF InOrder
  <1>7. Len(wire') + Len(out') = Len(wire) + Len(out) /\ Len(out) > 0 /\ Len(out') >= 0
    BY <1>0, <1>1, <1>3, SMTT(60)
  <1>8. stage \in {"header", "memory", "chunk"}
    BY <1>7 DEF SendAll, SendInv, Types, Reached
  <1>9. Len(wire') <= HeaderBytes + BodyLength
    <2>1. Len(wire') <= Len(wire) + Len(out)
      BY <1>0, <1>3, SMTT(60)
    <2>2. Len(wire) + Len(out) <= HeaderBytes + BodyLength
      BY <1>0, <1>8 DEF SendInv, Reached, BodyLength
    <2>3. BodyLength \in Nat
      BY <1>0, Zenon DEF BodyLength
    <2> QED
      BY <1>0, <1>3, <2>1, <2>2, <2>3
  <1>10. Reached'
    BY <1>0, <1>1, <1>3, <1>7, <1>8, <1>9, ZenonT(60) DEF SendInv, Reached, SendAll, response, BodyLength
  <1> QED
    BY <1>5, <1>6, <1>10, Zenon DEF SendInv

\* The steps that hand send_all its next bytes.
LEMMA SerializeStep ==
    ASSUME SendInv, SerializeHeaders \/ SendMemoryBody
    PROVE  SendInv'
  <1>0. /\ length \in Nat /\ HeaderBytes \in Nat /\ omit_body \in BOOLEAN /\ Len(wire) \in Nat
    BY SequenceFacts, SizesAssumption, Zenon DEF SendInv, Types
  <1>1. out = <<>> => Len(out) = 0
    BY EmptyFacts, Zenon
  <1>2. CASE SerializeHeaders
    <2>1. /\ out' \in Seq(ByteSet) /\ Len(out') = HeaderBytes
          /\ \A i \in 1..HeaderBytes : out'[i] = <<"header", 0 + i - 1>>
      <3>1. "header" \in {"header", "body"} /\ 0 \in Int
        OBVIOUS
      <3>2. out' = Bytes("header", 0, HeaderBytes)
        BY <1>2, Zenon DEF SerializeHeaders
      <3> QED
        BY <1>0, <3>1, <3>2, BytesProperties, Zenon
    <2>2. Len(wire) = 0 /\ wire' = wire
      BY <1>2, Zenon DEF SerializeHeaders, SendInv, Reached
    <2>3. ASSUME NEW i \in 1..HeaderBytes PROVE out'[i] = MessageByte(Len(wire') + i)
      <3>1. Len(wire') + i = i /\ i <= HeaderBytes /\ 0 + i - 1 = i - 1
        BY <1>0, <2>2, SMTT(60)
      <3> QED
        BY <2>1, <3>1, Zenon DEF MessageByte
    <2>4. Types'
      BY <1>2, <2>1, Zenon DEF SendInv, Types, SerializeHeaders, response
    <2>5. InOrder'
      BY <2>1, <2>2, <2>3, Zenon DEF SendInv, InOrder
    <2>6. Reached'
      <3>1. stage' = "header" /\ result' # 0
        BY <1>2, Zenon DEF SerializeHeaders, SendInv, Reached
      <3>2. BodyLength' \in Nat
        BY <1>0, <1>2, SMTT(60) DEF BodyLength, SerializeHeaders, response
      <3>3. Len(wire') + Len(out') = HeaderBytes /\ Len(wire') <= HeaderBytes + BodyLength'
        <4>1. Len(wire') = 0 /\ Len(out') = HeaderBytes
          BY <2>1, <2>2, Zenon
        <4>2. \A h, b \in Nat : 0 + h = h /\ 0 <= h + b
          OBVIOUS
        <4> QED
          BY <1>0, <3>2, <4>1, <4>2, Zenon
      <3> QED
        BY <3>1, <3>3, Zenon DEF Reached
    <2> QED
      BY <2>4, <2>5, <2>6, Zenon DEF SendInv
  <1>3. CASE SendMemoryBody
    <2>1. /\ out' \in Seq(ByteSet) /\ Len(out') = length
          /\ \A i \in 1..length : out'[i] = <<"body", 0 + i - 1>>
      <3>1. "body" \in {"header", "body"} /\ 0 \in Int
        OBVIOUS
      <3>2. out' = Bytes("body", 0, length)
        BY <1>3, Zenon DEF SendMemoryBody
      <3> QED
        BY <1>0, <3>1, <3>2, BytesProperties, Zenon
    <2>2. Len(wire) = HeaderBytes /\ wire' = wire
      BY <1>0, <1>1, <1>3 DEF SendMemoryBody, SendInv, Reached
    <2>3. ASSUME NEW i \in 1..length PROVE out'[i] = MessageByte(Len(wire') + i)
      <3>1. /\ ~(Len(wire') + i <= HeaderBytes) /\ Len(wire') + i - HeaderBytes - 1 = 0 + i - 1
            /\ Len(wire') + i \in Int /\ 0 + i - 1 \in Int
        BY <1>0, <2>2
      <3>2. MessageByte(Len(wire') + i) = <<"body", 0 + i - 1>>
        BY <1>0, <3>1, SMTT(60) DEF MessageByte
      <3> QED
        BY <2>1, <3>2, Zenon
    <2>4. Types'
      BY <1>3, <2>1, Zenon DEF SendInv, Types, SendMemoryBody, response
    <2>5. InOrder'
      BY <2>1, <2>2, <2>3, Zenon DEF SendInv, InOrder
    <2>6. Reached'
      BY <1>0, <1>3, <2>1, <2>2, ZenonT(60) DEF SendInv, Reached, SendMemoryBody, HasBody, response, BodyLength
    <2> QED
      BY <2>4, <2>5, <2>6 DEF SendInv
  <1> QED
    BY <1>2, <1>3

\* sendfile puts file bytes on the wire itself.
LEMMA SendfileStep ==
    ASSUME SendInv, NEW n \in Int, Sendfile(n)
    PROVE  SendInv'
  <1>0. /\ length \in Nat /\ HeaderBytes \in Nat /\ omit_body \in BOOLEAN /\ Len(wire) \in Nat
        /\ offset \in Nat /\ file_size \in Nat /\ remaining \in Int /\ wire \in Seq(ByteSet)
    BY SequenceFacts, SizesAssumption, Zenon DEF SendInv, Types
  <1>1. n \in Nat /\ n <= remaining /\ remaining = length - offset
    BY <1>0, SMTT(60) DEF Sendfile, Min, SendInv, Reached
  <1>2. ~omit_body /\ Len(out) = 0 /\ Len(wire) = HeaderBytes + offset
    BY Zenon DEF Sendfile, SendInv, Reached
  <1>3. /\ Bytes("body", offset, n) \in Seq(ByteSet) /\ Len(Bytes("body", offset, n)) = n
        /\ \A i \in 1..n : Bytes("body", offset, n)[i] = <<"body", offset + i - 1>>
    <2>1. "body" \in {"header", "body"} /\ offset \in Int
      BY <1>0
    <2> QED
      BY <1>1, <2>1, BytesProperties, Zenon
  <1>4. ASSUME NEW i \in 1..n PROVE Bytes("body", offset, n)[i] = MessageByte(Len(wire) + i)
    <2>1. /\ ~(Len(wire) + i <= HeaderBytes) /\ Len(wire) + i - HeaderBytes - 1 = offset + i - 1
          /\ Len(wire) + i \in Int /\ offset + i - 1 \in Int
      BY <1>0, <1>1, <1>2, SMTT(60)
    <2>2. MessageByte(Len(wire) + i) = <<"body", offset + i - 1>>
      BY <1>0, <2>1 DEF MessageByte
    <2> QED
      BY <1>3, <2>2, Zenon
  <1>5. /\ wire' \in Seq(ByteSet) /\ Len(wire') = Len(wire) + n
        /\ \A i \in 1..Len(wire') : wire'[i] = MessageByte(i)
    BY <1>0, <1>3, <1>4, WireGrows, ZenonT(60) DEF Sendfile, SendInv, InOrder
  <1>6. Types'
    BY <1>0, <1>1, <1>5 DEF SendInv, Types, Sendfile, response
  <1>7. InOrder'
    <2>1. Len(out') = 0
      BY <1>2, Zenon DEF Sendfile
    <2>2. 1..Len(out') = {}
      BY <2>1
    <2> QED
      BY <1>5, <2>2, Zenon DEF InOrder
  <1>8. Reached'
    BY <1>0, <1>1, <1>2, <1>5, SMTT(60) DEF SendInv, Reached, Sendfile, response, BodyLength
  <1> QED
    BY <1>6, <1>7, <1>8 DEF SendInv

\* Where a byte of a chunk is in the message.
LEMMA PastHeader ==
    ASSUME NEW h \in Nat, NEW f \in Nat, NEW n \in Nat, NEW i \in 1..n, NEW l, l = h + f
    PROVE  ~(l + i <= h) /\ l + i - h - 1 = f + i - 1 /\ l + i \in Int /\ f + i - 1 \in Int
  OBVIOUS

\* The fallback reads a chunk for send_all.
LEMMA ReadChunkStep ==
    ASSUME SendInv, NEW n \in Int, ReadChunk(n)
    PROVE  SendInv'
  <1>0. /\ length \in Nat /\ HeaderBytes \in Nat /\ omit_body \in BOOLEAN /\ Len(wire) \in Nat
        /\ file_pos \in Nat /\ file_size \in Nat /\ remaining \in Int /\ Chunk \in Nat
    BY SequenceFacts, SizesAssumption, Zenon DEF SendInv, Types
  <1>1. n \in Nat /\ n <= remaining /\ remaining = length - file_pos
    BY <1>0, SMTT(60) DEF ReadChunk, Min, SendInv, Reached
  <1>2. ~omit_body /\ Len(wire) = HeaderBytes + file_pos /\ wire' = wire
    BY Zenon DEF ReadChunk, SendInv, Reached
  <1>3. /\ out' \in Seq(ByteSet) /\ Len(out') = n
        /\ \A i \in 1..n : out'[i] = <<"body", file_pos + i - 1>>
    <2>1. "body" \in {"header", "body"} /\ file_pos \in Int
      BY <1>0
    <2>2. out' = Bytes("body", file_pos, n)
      BY Zenon DEF ReadChunk
    <2> QED
      BY <1>1, <2>1, <2>2, BytesProperties, Zenon
  <1>4. ASSUME NEW i \in 1..n PROVE out'[i] = MessageByte(Len(wire') + i)
    <2>1. /\ ~(Len(wire') + i <= HeaderBytes)
          /\ Len(wire') + i - HeaderBytes - 1 = file_pos + i - 1
          /\ Len(wire') + i \in Int /\ file_pos + i - 1 \in Int
      BY <1>0, <1>1, <1>2, PastHeader, SMTT(60)
    <2>2. MessageByte(Len(wire') + i) = <<"body", file_pos + i - 1>>
      BY <1>0, <2>1, SMTT(60) DEF MessageByte
    <2> QED
      BY <1>3, <2>2, Zenon
  <1>5. Types'
    BY <1>0, <1>1, <1>3, SMTT(60) DEF SendInv, Types, ReadChunk, response
  <1>6. InOrder'
    BY <1>2, <1>3, <1>4, ZenonT(60) DEF SendInv, InOrder
  <1>7. /\ stage' = "chunk" /\ result' = result /\ result # 0 /\ nr' = n /\ length' = length
        /\ omit_body' = omit_body /\ file_pos' = file_pos + n /\ remaining' = remaining
        /\ BodyLength' = BodyLength /\ Len(wire) <= HeaderBytes + BodyLength
    BY Zenon DEF SendInv, Reached, ReadChunk, response, BodyLength
  <1>8. /\ Len(wire') + Len(out') = HeaderBytes + file_pos'
        /\ file_pos' <= length' /\ remaining' = length' - file_pos' + nr'
    <2>1. Len(wire') = HeaderBytes + file_pos /\ Len(out') = n
      BY <1>2, <1>3, Zenon
    <2>2. HeaderBytes + file_pos + n = HeaderBytes + (file_pos + n)
      BY <1>0, <1>1
    <2>3. file_pos + n <= length /\ remaining = length - (file_pos + n) + n
      BY <1>0, <1>1, SMTT(60)
    <2> QED
      BY <1>7, <2>1, <2>2, <2>3, Zenon
  <1>9. Reached'
    BY <1>2, <1>7, <1>8, Zenon DEF Reached
  <1> QED
    BY <1>5, <1>6, <1>9 DEF SendInv

\* The steps that touch neither the wire nor what is to be sent.
LEMMA LocalStep ==
    ASSUME SendInv, SendFileBody \/ FallBack \/ ChunkSent \/ FileChanges \/ UNCHANGED sendVars
    PROVE  SendInv'
  <1>0. /\ length \in Nat /\ HeaderBytes \in Nat /\ omit_body \in BOOLEAN /\ Len(wire) \in Nat
        /\ offset \in Nat /\ file_pos \in Nat /\ nr \in Nat /\ remaining \in Int
    BY SequenceFacts, SizesAssumption, Zenon DEF SendInv, Types
  <1>1. out = <<>> => Len(out) = 0
    BY EmptyFacts, Zenon
  <1>2. wire' = wire /\ out' = out /\ UNCHANGED response
    BY Zenon DEF SendFileBody, FallBack, ChunkSent, FileChanges, sendVars
  <1>3. InOrder'
    BY <1>2, Zenon DEF SendInv, InOrder
  <1>4. CASE SendFileBody
    BY <1>0, <1>1, <1>2, <1>3, <1>4, SMTT(60)
       DEF SendInv, Types, Reached, SendFileBody, HasBody, response, BodyLength
  <1>5. CASE FallBack
    BY <1>0, <1>1, <1>2, <1>3, <1>5, SMTT(60) DEF SendInv, Types, Reached, FallBack, response, BodyLength
  <1>6. CASE ChunkSent
    BY <1>0, <1>1, <1>2, <1>3, <1>6, SMTT(60) DEF SendInv, Types, Reached, ChunkSent, response, BodyLength
  <1>7. CASE FileChanges
    BY <1>0, <1>2, <1>3, <1>7, SizesAssumption, SMTT(60)
       DEF SendInv, Types, Reached, FileChanges, response, BodyLength
  <1>8. CASE UNCHANGED sendVars
    BY <1>0, <1>2, <1>3, <1>8, SMTT(60) DEF SendInv, Types, Reached, sendVars, response, BodyLength
  <1> QED
    BY <1>4, <1>5, <1>6, <1>7, <1>8, Zenon

LEMMA SendInvStep == SendInv /\ [SendNext]_sendVars => SendInv'
  <1> SUFFICES ASSUME SendInv, [SendNext]_sendVars PROVE SendInv'
    OBVIOUS
  <1>1. CASE SerializeHeaders \/ SendMemoryBody
    BY <1>1, SerializeStep, Zenon
  <1>2. CASE \E n \in 1..(HeaderBytes + MaxBody) : SendAll(n)
    BY <1>2, SendAllStep
  <1>3. CASE \E n \in 1..MaxBody : Sendfile(n) \/ ReadChunk(n)
    BY <1>3, SendfileStep, ReadChunkStep
  <1>4. CASE \/ SerializeFails \/ SendAllFails \/ SendfileFails \/ ReadFails
             \/ SendNoBody \/ MemoryBodySent
             \/ SendfileEof \/ SendfileDone \/ ReadEof \/ ReadDone
    BY <1>4, ReturningSteps, Zenon
  <1>5. CASE SendFileBody \/ FallBack \/ ChunkSent \/ FileChanges \/ UNCHANGED sendVars
    BY <1>5, LocalStep, Zenon
  <1> QED
    BY <1>1, <1>2, <1>3, <1>4, <1>5, Zenon DEF SendNext, Progress, Failure, Terminated

-----------------------------------------------------------------------------

\* The message of the specification is the one described byte by byte.
LEMMA MessageProperties ==
    ASSUME SendInv
    PROVE  /\ Message \in Seq(ByteSet) /\ Len(Message) = HeaderBytes + BodyLength
           /\ \A i \in 1..Len(Message) : Message[i] = MessageByte(i)
  <1> DEFINE header == Bytes("header", 0, HeaderBytes)
             body   == Bytes("body", 0, BodyLength)
  <1>0. HeaderBytes \in Nat /\ BodyLength \in Nat
    BY SizesAssumption, Zenon DEF SendInv, Types, BodyLength
  <1>1. /\ header \in Seq(ByteSet) /\ Len(header) = HeaderBytes
        /\ \A i \in 1..HeaderBytes : header[i] = <<"header", 0 + i - 1>>
    BY <1>0, BytesProperties, SMTT(60)
  <1>2. /\ body \in Seq(ByteSet) /\ Len(body) = BodyLength
        /\ \A i \in 1..BodyLength : body[i] = <<"body", 0 + i - 1>>
    BY <1>0, BytesProperties, SMTT(60)
  <1>3. Message = header \o body
    BY Zenon DEF Message, BodyLength
  <1> HIDE DEF header, body
  <1>4. \A i \in 1..Len(header) : header[i] = MessageByte(i)
    BY <1>0, <1>1 DEF MessageByte
  <1>5. ASSUME NEW i \in 1..Len(body) PROVE body[i] = MessageByte(Len(header) + i)
    <2>1. /\ ~(Len(header) + i <= HeaderBytes) /\ Len(header) + i - HeaderBytes - 1 = 0 + i - 1
          /\ Len(header) + i \in Int /\ 0 + i - 1 \in Int /\ i \in 1..BodyLength
      BY <1>0, <1>1, <1>2
    <2>2. MessageByte(Len(header) + i) = <<"body", 0 + i - 1>>
      BY <1>0, <2>1 DEF MessageByte
    <2> QED
      BY <1>2, <2>2, Zenon
  <1>6. /\ header \o body \in Seq(ByteSet)
        /\ Len(header \o body) = Len(header) + Len(body)
        /\ \A i \in 1..Len(header \o body) : (header \o body)[i] = MessageByte(i)
    BY <1>1, <1>2, <1>4, <1>5, WireGrows, Zenon
  <1> QED
    BY <1>1, <1>2, <1>3, <1>6, Zenon

LEMMA InvImplies == SendInv => WireInOrder /\ CompleteOnSuccess
  <1> SUFFICES ASSUME SendInv PROVE WireInOrder /\ CompleteOnSuccess
    BY Zenon
  <1>1. /\ Message \in Seq(ByteSet) /\ Len(Message) = HeaderBytes + BodyLength
        /\ \A i \in 1..Len(Message) : Message[i] = MessageByte(i)
    BY MessageProperties, Zenon
  <1>2. /\ wire \in Seq(ByteSet) /\ Len(wire) \in Nat /\ Len(Message) \in Nat
        /\ Len(wire) <= Len(Message)
        /\ \A i \in 1..Len(wire) : wire[i] = MessageByte(i)
    BY <1>1, SequenceFacts, Zenon DEF SendInv, Types, InOrder, Reached
  <1>3. 0 + 1 = 1 /\ 0 + Len(wire) = Len(wire) /\ 0 \in Nat /\ 0 + Len(wire) <= Len(Message)
    BY <1>2, SMTT(60)
  <1>4. /\ SubSeq(Message, 0 + 1, 0 + Len(wire)) \in Seq(ByteSet)
        /\ Len(SubSeq(Message, 0 + 1, 0 + Len(wire))) = Len(wire)
        /\ \A i \in 1..Len(wire) : SubSeq(Message, 0 + 1, 0 + Len(wire))[i] = Message[0 + i]
    BY <1>1, <1>2, <1>3, SegmentFacts, ZenonT(60)
  <1>5. /\ SubSeq(Message, 1, Len(wire)) \in Seq(ByteSet)
        /\ Len(SubSeq(Message, 1, Len(wire))) = Len(wire)
    BY <1>3, <1>4, Zenon
  <1>6. ASSUME NEW i \in 1..Len(wire) PROVE wire[i] = SubSeq(Message, 1, Len(wire))[i]
    <2>1. 0 + i = i /\ i \in 1..Len(Message)
      BY <1>2
    <2> QED
      BY <1>1, <1>2, <1>3, <1>4, <2>1, Zenon
  <1>7. wire = SubSeq(Message, 1, Len(wire))
    BY <1>2, <1>5, <1>6, SameSequence, Zenon
  <1>8. ASSUME result = 0 PROVE wire = Message
    <2>1. Len(wire) = Len(Message)
      BY <1>1, <1>8, Zenon DEF SendInv, Reached
    <2> QED
      BY <1>1, <1>2, <2>1, SameSequence, Zenon
  <1> QED
    BY <1>2, <1>7, <1>8, Zenon DEF WireInOrder, CompleteOnSuccess

\* http_response_send never puts anything on the socket but the beginning of the
\* announced message, for headers, bodies, files and chunks of every size.
THEOREM SendsInOrder == SendSpec => []WireInOrder
  <1>1. SendInv => WireInOrder
    BY InvImplies, Zenon
  <1> QED
    BY <1>1, InvInit, SendInvStep, PTL DEF SendSpec

\* A return of 0 from http_response_send means that all of the message was sent.
THEOREM SuccessIsComplete == SendSpec => []CompleteOnSuccess
  <1>1. SendInv => CompleteOnSuccess
    BY InvImplies, Zenon
  <1> QED
    BY <1>1, InvInit, SendInvStep, PTL DEF SendSpec
=============================================================================
