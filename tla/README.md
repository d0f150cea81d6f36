# CinderHTTP in TLA+

Models of the CinderHTTP server, the properties TLC checks of them on small
instances, and theorems TLAPS proves for every instance. The modules are
translated from `src/src/*.c`; `PROJECT.json` names the lines behind each
definition.

## The system

One process. The **main thread** starts the subsystems, accepts connections and
pushes their descriptors into a **bounded queue**; a fixed pool of **workers**
pops them. A worker keeps a connection for its whole life: it **reads** a framed
request, **parses** it, lets the **router** or the **static files** build a
response, decides whether the connection **persists**, **sends**, and goes on or
closes. SIGINT and SIGTERM set a flag; the main thread then leaves its loop,
shuts the queue down, joins the workers and undoes the start in reverse order.

| part | state | operations | what is hard about it |
|---|---|---|---|
| connection queue (`connection_queue.c`) | ring, head, tail, count, shutdown flag, mutex, two conditions | init, destroy, push, pop, shutdown | lost wakeups, shutdown between test and wait, timed wait against abort, wrap-around, draining |
| process (`main.c`, `server.c`) | ready flags, listener, shutdown flag | start, signal, accept loop, cleanup | partial start, signals between test and accept, who closes a descriptor, order of teardown |
| thread pool (`thread_pool.c`) | threads, started_count | init, start, join, destroy, worker loop | a thread that cannot be created after others run; workers leaving on errors |
| client handler (`client_handler.c`) | per-request locals, request count | read, parse, dispatch, policy, send, close | agreement of what is announced with what is done, over every failure |
| persistence policy (`http_connection.c`) | Connection header | wants_keep_alive, apply_policy | versions, several lines, failed allocations |
| sending (`http_response.c`, `utils.c`) | offset, remaining, chunk | send_all, sendfile, fallback | short calls, a file that changes, the fallback in the middle |
| statistics (`server_stats.c`) | counters behind a mutex | accepted, started, finished, received, sent, snapshot | increment and decrement by different threads, a snapshot of six counters |
| reader (`http_reader.c`) | buffer, capacity, deadline | next_request | segmentation, limits, leftovers, deadlines over several waits |
| framing and parser (`http_parser.c`, `http_request.c`) | the request | inspect framing, parse, destroy | two passes that must agree, failures in the middle |
| router (`router.c`) | constant table | dispatch | methods, Allow |
| static files (`static_files.c`) | file descriptor | decode, normalise, resolve, serve, 404 page | ownership of the open file, a file that changes between steps |
| configuration (`config.c`) | seven options | parse_args | ranges, repetitions, words taken as values |
| logger, MIME types | little or none | | |

## The modules

**`BoundedQueue`** is what the queue promises: a FIFO of at most `Capacity`
descriptors whose operations take effect at one instant.

**`ConnectionQueue`** is the code. Each call is cut where another thread can
run: at the mutex and at the condition waits. `pc[t]` says where thread `t` is
inside its call; the waiters of a condition are the threads whose `pc` is
`push_wait` or `pop_wait`. A signal wakes any one waiter, a broadcast all, and a
wait may end spuriously or, for push, by its 100 ms timeout. With `Faults` the
checked pthread and clock calls may return errors. `Contents` (the ring read from
the head) and `OpOf` map it to `BoundedQueue`.

**`Server`** composes the queue (INSTANCE, one producer, the workers as
consumers) with `main`, `server_run`, `thread_pool` and the part of
`client_handle` that blocks. `main` is the main thread's place, `worker[w]` a
worker's, `ready` the `*_ready` flags, `open` the descriptors open in the
process. A descriptor number is available to accept as soon as it is closed, so
confusions by reuse can show. A signal handler may run in any thread; only a main
thread that is inside `accept` sees EINTR, and not one that has tested the flag and
is about to call it (`entering`). `logger_init` is checked by the code
but cannot fail, and the model does not let it.

**`ConnectionService`** is one connection as the rest of the process sees it:
receive, send, at most `MaxRequests` answers, then close, then the end of the
accounting. `ClientHandler` implements it (`ImplementsService`).

**`ClientHandler`** is all of `client_handle` with the persistence policy, the
Connection part of the serializer and the per-connection statistics. Reader,
parser, router and static files appear by every result they can return, with the
statuses the code maps these to; `-1` is a response that could not be built. A
request is its version and the tokens of each Connection line. `response_ready`
has no variable: on every path it is set exactly when `status >= 0`.

**`ServingProcess`** puts `ClientHandler` into `Server`: one worker, `Self`, runs all
of `client_handle` on each descriptor it pops, the rest is `Server`'s. It is shown to
implement `Server` (`ImplementsServer`): the phase of `client_handle` and its count of
requests are what `Server` has for a worker that serves. So `Server`'s worker can do
whatever `client_handle` does to the process, also close after a counted request for
which no response could be built. The other workers share nothing with `Self` but
what `Server` models, so the same holds of each of them in turn. Refinement carries
safety over; that `client_handle` gets out of `recv` is the fairness `Server` assumes.

**`ResponseSend`** is `http_response_send` with `send_all` and `send_file_body`.
A byte is named by its place in the message, so that a lost, repeated or
misplaced byte shows. Calls are short or fail anywhere, and the file grows or
shrinks at any time.

**`RequestStream`** is what the reader promises about one connection: the
client's requests, whole, in order and one at a time, up to the first that breaks
a limit or to the end of the connection. How the bytes were cut into segments has
no influence.

**`HttpReader`** is `http_reader.c` with a clock of ticks. A byte is named by its
request and its place in it; `data` is the buffer (`length` is `Len(data)`), `at`
the place in `http_reader_next_request`, `left` what remains to the deadline and
`wait` what remains of the current `poll`. `age` and `extended` serve the
properties only. It
implements `RequestStream`, whose variables it shares or maps directly. The
framing pass is here by its verdict on a header.

**`HttpParser`** is the way of one message through `http_parser.c` and
`http_request.c`: the framing pass for the reader, the cut, the framing pass
again, request line, fields, the second validation, the body. A line is a record
of what the two ways of splitting tell apart, among them blanks and NULs, which
the framing pass (C strings) and the parser treat differently.

**`StaticPath`** takes a target to a path: `path_portion`, `url_decode` and
`normalize_path` with its stack, over characters, because the properties are about
them; the test for the root and the choice of the extension come with it. The
reference for the normalisation counts names and ups over the whole path and has
no stack.

**`Response`** is the response object as its builders use it: status, body and
above all the open file it may own, and the error pages. **`StaticFiles`** goes
from a normalised path to an answer, one system call a step; other processes may
change the file system between any two (`OtherProcess`). A request is `disturbed`
or not, chosen when it begins: only then may its calls fail and files change under
it, so that what must hold of an undisturbed request can be stated; between
requests files may always change. **`Router`** is the table and what each dispatch
builds. **`Dispatch`** composes the three the way
`client_handle` does, for one request after the other with the same object, and begins
with the error pages for what the reader or the parser refused. The router looks at
the path as it was sent and the static files at what it normalises to, so a request
has both.
`Dispatch` and `ClientHandler` describe the same function at different depth:
`ClientHandler` keeps the connection's state over the requests, `Dispatch` opens
what happens inside one.

**`Config`** reads a command line of words; each option's range is written out as in
the code and compared with the limits of `config.h` in the property. **`Statistics`** cuts every call of
`server_stats.c` at its loads, stores and copies; `exact` is what the counters
would be if every call were atomic.

Theorems are in modules of their own: **`ConnectionQueueProofs`**,
**`ServerProofs`** (the process, for any set of workers), **`ServerGauge`** (the gauge
of active connections, which counts workers), **`WorkerProofs`** (`ClientHandler`,
`ResponseSend` and `Statistics`, the code a worker runs), **`HttpReaderProofs`**,
**`HttpParserProofs`**, **`StaticPathProofs`** and **`DispatchProofs`**.

The `MC*` modules instantiate them; each `.cfg` gives one instance. `MCInputs` runs
`HttpParser`, `StaticPath` and `Config` side by side: they are sequential and share
nothing, so a behaviour exercises one of them on one input. `MCWorker` does the same
with `ClientHandler`, `ResponseSend` and `Statistics`. Definitions
whose comment begins with "Variant:" are deliberate mistakes, used to confirm
that each property can fail.

## The runs

| run | instance | shows |
|---|---|---|
| `queue` | 1 producer, 2 workers, 2 descriptors, 2 slots, failing calls | consistent ring, no lost wakeup, no sleeper after shutdown, refinement of `BoundedQueue`; calls return after shutdown and a blocked push after a signal; no worker sleeps for ever beside work |
| `server_safety` | 2 workers, 3 descriptors, 2 slots, 3 connections of 2 requests, failing calls | one owner per descriptor, nothing used after its destruction, clean exit on every path, the gauge never misses a connection |
| `server_liveness` | 2 workers, 2 descriptors, 1 slot, 2 connections of 2 requests, no failing calls | the queue is drained before it is destroyed, a noticed signal ends the process, connections end |
| `worker` | 3 requests per connection, 2 Connection lines; 2 header bytes, bodies to 4, files to 5, chunks of 2; 3 threads with 3 calls of the statistics | announcements and behaviour agree in both directions, the stream never goes on after a damaged response, 408 exactly when a request had begun, a connection is a `ConnectionService`; what is sent is a prefix of the message, all of it on success, and the call returns; no update of a counter is lost, a snapshot is one instant |
| `serving_process` | 2 workers of which one runs `client_handle`, 1 descriptor, 1 slot, 1 connection of 2 requests | the process with the handler in it implements `Server` |
| `reader` | pipelined requests with headers to 4 and bodies to 5 bytes, and refused ones; chunks of 2, timeouts of 1 and 2 ticks, failing and interrupted calls | nothing in the buffer is lost, repeated, out of place or beyond its capacity; implements `RequestStream`; the deadline holds over all segments and waits; the call returns |
| `inputs` | 10 request lines with up to 3 of 13 header lines, at most 2 fields, bodies to 1; targets of up to 8 characters over `/`, `.` and a letter, of up to 4 with escapes, query, NUL and broken escapes, 3 roots; up to 3 options with values at both ends of each range and just outside | both passes agree, an accepted request has one meaning and a refused one leaves nothing, framing reports the first offence; normalisation is the walk, texts of paths are judged as their segments; accepted options are usable and the last one counts |
| `dispatch` | 16 requests, some refused before the dispatch, some not normalised, 2 descriptors, 11 kinds of node at the document, the page and their indexes, failing calls, a change of the file system at any moment | one owner per file, lengths of what is open, status and object agree, the answer is what table and files determine, a response is built |
| `gauge_drift`, `signal_window`, `send_unbounded`, `root_slash` | smallest instances | the disagreements below |

**Bounds.** Two slots and two workers let the ring wrap, the queue be full and
empty with waiters on both sides, and let a wakeup be consumed by a worker that was
not the one signalled; what holds of the queue for more threads is proved. Three descriptors allow one in the queue and one in each
worker, and reuse. `MaxAccepts` bounds the connections that ever arrive, not the
signals or failures. A limit of three requests has a first, a middle and a last
one. Bodies of four with chunks of two give full chunks, short chunks and a short
rest. The reader's limits are small so that the buffer starts below them, doubles
and is cut off at the maximum; its headers have one byte, the limit and one more.
Three lines with at most two fields allowed give two fields of each kind in both
orders and one too many. Eight characters hold four segments, enough to push, pop
and leave the root again. One change suffices to
replace what `stat` saw before `open`, or the page, and it may come before the
request as well; any number of changes is covered by the proofs. `StaticAnswer` is
stated for undisturbed requests, where an answer is determined. In `serving_process`
two requests are one within the limit and one at it, on a connection that is served
beside everything the other threads can do; what the handler sees of the process is
its descriptor only, so more connections repeat this. Connection lines are left out
there: they change what is announced, and `worker` has them. Workers and descriptors
are symmetric in `server_safety`; no symmetry is used where liveness is checked.

**Fairness.** A thread that can run does (WF), a thread that asks for a mutex that
is free again and again gets it (SF), a timed wait expires. A worker leaves `recv`
because `poll` and SO_RCVTIMEO bound it. Nothing in the code bounds `send`:
`FairSpec` does not assume it ends and `FairSpecReadingClients` adds it for the
properties that need it. No fairness is put on arriving clients, signals, spurious
wakeups or failures. In `ResponseSend` the fair action contains no failing system
call. In `HttpReader` the steps of the call and the clock are fair, no client has to
send anything, and signals do not come for ever: a `poll` interrupted again and
again before it expires never ends. In `Dispatch` the worker's steps are fair, and nobody has to
open the other end of a FIFO.

**Deadlock** is checked in every run; a process that has exited and a call that
has returned stutter explicitly.

## Disagreements found

* `gauge_drift`: `connection_started` comes after the push, so a fast worker's
  `connection_finished` can come first, is dropped at zero, and
  `active_connections` stays too high for good. The weaker `ActiveNeverUndercounts`
  holds.
* `signal_window`: a signal handled between the test of the flag and `accept`, or
  in a worker thread, does not end the loop before the next client comes. From
  every other place the process does end (`ShutdownCompletes`).
* `send_unbounded`: the documentation's bounded shutdown does not hold while a
  client does not read; with reading clients it does.
* `root_slash`: with the document root `/` the test for the root looks for a separator
  behind the root's own (`static_files.c:257`), and every file is refused, while the
  comment above it says "a path under `root`". For every other root the test is right
  (`TextMatchesSegments`).

Three more are stated as the exceptions of properties that hold otherwise:

* `NoReadAfterClose`: only the first Connection line is consulted
  (`http_connection.c:65`), so keep-alive there hides a close in a later line;
  `docs/http_support.md:44` says that close wins.
* `DeadlineHonoured`: a `poll` that a signal interrupts is called again with its
  first timeout (`http_reader.c:188`), so a request can take longer than
  `request_timeout_sec`, which `http_reader.h:16-18` calls its deadline.
* `ApiAnswer`: a method the parser does not support is answered 405 before the
  router sees the request, without the `Allow` of `docs/http_support.md:72`.

These properties do not catch what they except; the hazards in question are listed in
`PROJECT.json` as not covered. The same goes for `ResponseIsBuilt`, which excepts a file
that becomes a FIFO between `stat` and `open`.

## What is proved

**The queue.** For every set of threads and of descriptors, finite or not, every
`Capacity > 0`, with and without failing calls, from the assumptions named in
`ConnectionQueue`:

| theorem | states |
|---|---|
| `TypeCorrect` | `TypeOK`: the types of the ring, the flags and the calls |
| `QueueMutualExclusion` | `MutualExclusion`: exactly the owner of the mutex is between lock and unlock |
| `ShutdownWakesAll` | `NoSleepAfterShutdown` |
| `RingAlwaysConsistent` | `RingConsistent` |
| `WakeupsNeverLost` | `NoLostWakeup` |
| `QueueRefinesFifo` | `ImplementsBoundedQueue` |

The argument. Type correctness and mutual exclusion are inductive together: the
indices stay in range because `% Capacity` does, and `count` because push stores
only below capacity and pop takes only above zero, each holding the mutex.
`NoSleepAfterShutdown` needs mutual exclusion: a thread that goes to sleep does so
holding the mutex with the flag clear, so shutdown cannot have set it meanwhile.
`RingConsistent` needs that `tail` is `count` slots after `head` modulo the
capacity; the arithmetic is in lemmas on `%`. `NoLostWakeup` is stated and
proved without counting: while someone sleeps, every queued descriptor can be
given a thread of its own that is awake in pop or about to signal (`Suffice`). A
store gives the new descriptor the pusher, a signal replaces the pusher by the woken
worker, a take gives up the taker's, and a worker that goes to sleep found
`count = 0`. The refinement uses these invariants: a store appends to `Contents`, a
take removes its head, and every other step is a stutter, a call or a return of
`BoundedQueue`.

**Sending.** From `SizesAssumption` (sizes are naturals, the chunk is not zero):

| theorem | states |
|---|---|
| `SendsInOrder` | `WireInOrder` |
| `SuccessIsComplete` | `CompleteOnSuccess` |

The inductive invariant says, beside types, that byte `i` on the wire is byte `i`
of the message (`MessageByte`) and, for every place in the code, how far the wire
has come in terms of offset, remaining and chunk (`Reached`); the second is what
makes the first survive a step, because a send takes its bytes from the program's
counters and not from the wire.

**The reader.** From `LimitsAssumption` and `StreamsAssumption` of `HttpReader`
(limits and timeouts are positive, the buffer starts no larger than a message may be;
a request has a header, and the framing pass refuses a body beyond the limit), for
every stream of requests of any length and every way its bytes arrive:

| theorem | states |
|---|---|
| `ReaderLosesNothing` | `NothingLost` |
| `ReaderImplementsStream` | `ImplementsRequestStream` |
| `DeadlinesHold` | `DeadlineHonoured` |

`ReaderInv` says that what was delivered are the first requests of the stream, whole
(`Whole`), and that while the connection is read the buffer holds the bytes of the
stream from the start of the next request to what was received (`InPlace`). Where a
request starts is a sum over the ones before it, so the lemmas on offsets are by
induction over the number of requests; `SetInduction` gets it from the
well-foundedness of the natural numbers, applied to the set of lengths for which the
claim fails. From `InPlace` what the code finds at the front of the buffer is what
the next request determines (`TryFacts`), whatever the segments were; this gives the
refinement. `DeadlineInv` bounds the age of a request and what is left to its deadline
together by `request_timeout_sec`, as long as no interrupted `poll` was granted its
wait twice.

**The parser.** From `ParserLimits`, for any set of header lines, any number of them,
any limits and every failing allocation:

| theorem | states |
|---|---|
| `PassesAlwaysAgree` | `PassesAgree` |
| `AcceptedHasOneMeaning` | `AcceptedIsUnambiguous` |
| `VerdictIsFirstOffence` | `FramingIsFirstOffence` |

`ParserInv` says, for a pass that has come to line `i`, that the lines before are
sound and that the locals say of them what they say (`Framed`), or that they are
stored as they are (`StoredLines`). What the reader knows when it cuts a message
(`Cut`) is kept while the parser works, and contradicts every way its own framing pass
or the second validation could refuse the framing.

**The path.** From `TargetsAssumption` (a target is a sequence of literal and escaped
characters), for every set of targets, of any length: `NormalizationFollowsWalk` states `NormalizesToWalk`. The code has a stack and the
reference counts depths, so the invariant relates them (`Stacked`): when the walk has
come to a position, the length of the stack is the depth there, the segment at height
`k` is a name that brought the walk to depth `k`, the walk has not come back above it
since, and it has come back above every name that is not on the stack. A name, `..`,
and an empty or `.` segment each keep this (`PushKeepsStack`, `PopKeepsStack`,
`SkipKeepsStack`); at the end of the path it says that the stack holds exactly what
the walk keeps (`WalkEnds`), and `..` on an empty stack is a walk to depth -1.

**Responses and files.** From `FdsAssumption`, `NodesAssumption`,
`MaxFileAssumption` and `RequestsAssumption`, which give the constants their types,
for every set of requests, nodes and file systems and any number of changes:

| theorem | states |
|---|---|
| `FilesHaveOneOwner` | `OneOwnerPerFile` |
| `LengthsAreOfOpenFiles` | `LengthIsOfOpenFile` |
| `FailuresLeaveNothing` | `EmptyOnFailure`: a failed `static_files_serve` leaves an empty response |
| `StatusesAreOfResponses` | `StatusIsOfResponse` |
| `ApiAnswersFollowTable` | `ApiAnswer` |
| `StaticAnswersFollowFiles` | `StaticAnswer` |

The inductive invariant adds what each place implies (`Places`): a local descriptor
is held between `open` and `fstat` and nowhere else, an object owns a file only
when serving has succeeded, and then only one of the two does. From this the open
files are exactly the owned ones (`Owned`) and no destroy or copy on the way can
lose or double an owner.

The answers need a history. `ApiTrail` and `StaticTrail` say at every place of the
handler what has been decided of the request: the route and method it matched, or the
node at the path it is looking at and, for an undisturbed request, that the file
system still has it. `Faces` says how the response, its status and the returned result
correspond.

**Statistics.** From `ThreadsAssumption` (`NoThread` is no thread), for any set of
threads and number of calls: `UpdatesNeverLost` states `CountersExact`, `SnapshotsAreConsistent` states
`SnapshotIsInstant`. They are inductive together with the types and
`ReadIsCurrent`: what a thread inside the lock has read is still current, since
nobody else is inside.

**The process.** From the assumptions of `Server` (`WorkersAssumption`,
`QueueAssumption`, `LimitsAssumption`: at least one worker and a queue with at least
one slot), for any workers and descriptors, with and without failing calls unless it
is said otherwise:

| theorem | states |
|---|---|
| `QueueUsedByRules` | `Q!Spec`: the process uses the queue as `ConnectionQueue` allows |
| `NothingUsedAfterDestroy` | `NoUseAfterDestroy` |
| `DescriptorsHaveOneOwner` | `OneOwner` |
| `ExitIsClean` | `CleanExit` |
| `QueueIsDrained` | `DrainedBeforeDestroy`, when no call fails (`Faults = FALSE`) |
| `GaugeNeverUndercounts` | `ActiveNeverUndercounts`, for finitely many workers (`PoolAssumption`) |

Lifetimes come first (`Inv`): the place of the main thread determines the ready
flags (`ReadyByPlace`), a worker runs only while it is a started one, started ones
are joined before anything is taken down, and only a thread that waits for a call
is inside one (`Lifetimes`). This is inductive and gives `NoUseAfterDestroy`. It
also gives the two rules `ConnectionQueue` puts on its users, that calls are made
on a live queue and that creation and destruction find nobody inside; so every step
of the process is a step of the queue or leaves it alone, and the queue's theorems
hold inside the process.

Ownership rests on that. `Own` says that whoever has a descriptor (the main thread
until its push has succeeded, a position of the queue, a worker from the return of
pop to close) has an open one nobody else has (`Exclusive`), that no open one is
forgotten (`Covered`), and which calls a thread can be in (`CallResults`). For a
store or a take to move a descriptor without losing or doubling it, the positions
of the ring have to be different slots, which is `RingConsistent` of the queue; it
is taken over by `QueueUsedByRules` rather than proved again (`RingAlways`).

`QueueIsDrained` adds `Draining`: without failing calls a worker leaves its loop only
when the queue is shut down and empty, nothing enters the queue after that, and the
main thread has joined every worker, of which there is at least one, before it
destroys the queue. With failing calls it is false, and not claimed: workers may all
leave on an error and the queue is then emptied by its destruction.

`GaugeNeverUndercounts` adds `Gauge`: `active_connections`, and one for a push that
has succeeded and is not counted yet, is at least the number of queued connections, of
workers that have a descriptor and of workers whose `connection_finished` is to come.
The case that needs all of it is `connection_finished` at zero: the decrement is
dropped, and the inequality must then hold by the connection not counted yet.

**The client handler.** From `LimitsAssumption` of `ClientHandler` (the limit on
requests is positive, the number of Connection lines a natural number):

| theorem | states |
|---|---|
| `NoReadAfterCloseHolds` | `NoReadAfterClose` |
| `AllAnsweredHolds` | `AllAnswered` |
| `PersistenceKeptHolds` | `PersistenceKept` |
| `TimeoutAnsweredHolds` | `TimeoutAnsweredIfBegun` |
| `ServiceImplemented` | `ImplementsService` |

The properties speak of what was announced to the client and of the statistics, the
code decides on its locals. The inductive invariant therefore says for every place of
the loop how the two correspond (`Places`): how far the statistics are behind the
requests, and that what was announced is what the flags will decide.
`ServiceImplemented` is about one connection alone. That the theorems on `Server` are
about the code's workers rests on `ImplementsServer`, which is model-checked.

Only model-checked:

* all liveness properties: fairness and ENABLED are outside the prover's reach;
* `ImplementsServer` of `ServingProcess`;
* `TextMatchesSegments` of `StaticPath`: the text of a path is flattened from its
  segments, and its proof would have to take concatenations of unbounded length apart
  again;
* `AcceptedIsUsable` of `Config`: it is about command lines made of whole options,
  which is how the instance builds them, and not about any sequence of words;
* the four violations.

## Not modelled

The texts of headers, pages, JSON and log lines, the growth of the buffer the
headers are serialized into, and the table of MIME types: constant data and
formatting without state. Socket options of the listener; what `strtol` and
`strtoull` make of a word. Errors of the statistics mutex, of `pthread_join` and of
the lock in `connection_queue_shutdown` are ignored by the code and not modelled.
The counters' 64 bits do not overflow in the model. Only the tests call
`http_read_request`, which is the reader's init, one call and destroy. Time in
`HttpReader` is in ticks: that `poll` is given whole milliseconds, rounded down, is
below its resolution.

`Dispatch` takes how a target normalises as part of the request, and `HttpReader`
the verdict of the framing pass; `StaticPath` and `HttpParser` model these alone,
because the products have too many states.

## Plan

1. Done: every component with state; the proofs of every safety property but the
   three named above.
2. A proof of `ImplementsServer`.
3. `Dispatch` shown to produce the results `ClientHandler` assumes.
