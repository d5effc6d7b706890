# A TLA+ model of psql

psql (`include/psql/`) is a header-only C++ client for PostgreSQL: asynchronous
operations over libpq and Boost.Asio, a connection pool, pipelines, notifications
and a binary codec for C++ values.  This directory models its concurrent and
stateful parts and the codec, checks them with TLC, and proves with TLAPS the safety
of all of them: the pool, the connection, pipelines, the Oid cache, the ownership of
sockets and the codec.

Paths below are relative to `include/psql/`.

## The system

| component | state | operations | interacts with |
|---|---|---|---|
| connection pool (`connection_pool.hpp`) | `max_size_`, `aquired_conns_`, the queue `idle_conns_`, the timer `cv_` used as a condition variable, all under `mtx_` | `async_aquire`, `return_connection`, `max_size(value)`; handles are copies of a `shared_ptr` | pooled connections hold a `weak_ptr` and return themselves in their destructor, on any thread |
| connection (`connection.hpp`) | `pgconn_`, `socket_`, `notification_cs_`, `oid_map_`, `new_udts_`, `buffer_` | connect, close, move; query, prepare, describe; pipeline; receive a notification | libpq by calls, the socket by waits, the server by messages |
| single-result operations (`connection.hpp:244-341, 393-557`) | the coroutine state of a composed operation | flush, then receive a result and a null | share `PGconn` and socket with a receiver |
| notifications (`connection.hpp:343-382`) | `stored_notification`, the wait | receive, cancel | woken by input, or by the signal a query emits when it ends |
| user-defined types (`detail/extract_new_udts.hpp`, `connection.hpp:460-514`) | `oid_map_`, `new_udts_` | collect unknown types, ask the server, store Oids | every query and pipeline serializes with `oid_map_` |
| pipelines (`pipeline.hpp`, `connection.hpp:133-204`) | libpq's pipeline mode, results so far | run the caller's function, sync, flush, receive | as a query; no Oid query of its own |
| codec (`detail/serialization.hpp`, `deserialization.hpp`, `size_of.hpp`, `oid_of.hpp`) | `buffer_` | C++ value to binary parameters, field to C++ value | `oid_map_` |
| results (`result.hpp`, `row.hpp`, `field.hpp`) | an immutable `PGresult` | access by index and name, iteration, conversion | codec |
| ownership of the socket (`connection.hpp:37-131, 384-391`) | a descriptor number, in `pgconn_` and again in `socket_` | connect with libpq's reconnects, close, move, destructor | the kernel's table of descriptors, and with it the whole process |
| errors (`error.hpp`, `sqlstate.hpp`, `connection.hpp:559-580`) | none | a failed result to an `error_code`, SQLSTATE in base 36, tables of messages | every operation |

Hard parts.  The pool runs on several threads, its waiters can be overtaken and
cancelled at any point, and its objects die in any order.  On a connection,
two operations share one socket and one input buffer that either of them fills
and empties.  The Oid cache changes across operations that fail half way.  A
descriptor has two owners.  What makes each part correct:

* pool: slots are counted exactly, no waiter sleeps beside a free slot, the
  number of sessions is bounded, no session has two users or is leaked, nobody
  inherits a transaction, the pool may die at any time;
* connection: every operation ends, with its own result, and leaves the
  connection ready; notifications are delivered once and in order; no call
  into libpq blocks the thread;
* types: a stored Oid is the Oid of that type; a query is sent only with all
  its Oids; the server is asked no more than needed;
* pipelines: what one pushes is committed as a whole or not at all, its results are
  its own and at the right indices, and what it reports is what happened - also
  when an operation before it ended half way;
* codec: what the server reads is what the program passed, what the program reads
  is what the server sent or an exception;
* socket: each descriptor is closed once, by whoever owns it then.

`PROJECT.json` lists these as hazards, each with its line and the properties
that cover it; the few that no property covers have the reason.

## The modules

**ConnectionPool.**  Each task runs an acquire, uses what it gets and destroys
it.  A section of the pool under `mtx_` is one action (`Acquire`, `Resume`,
`ResumeCancelled`, `ReturnConnection`, `SetMaxSize`), so sections of different
tasks interleave as on several threads.  `cv` is the queue of waits pending on
the timer: `cancel_one` completes the oldest, `cancel` all, but the handler runs
later (`ready`), when somebody else may have taken the slot.  A cancellation
removes a wait (`cancelled`) or marks an acquire that was just woken; it cannot
stop a posted reuse.  The destructor of a pooled connection is three steps:
`Destroy` locks the weak pointer, `ReturnConnection` runs under the mutex,
`Release` drops the pointer (perhaps the last one, so that the pool dies there)
and then what was not put back.  A session has the status libpq reports; `stale`
is one the server ended unnoticed.  `peak` is a history variable.

**PoolContract.**  What the pool promises: a semaphore whose limit can change.
**MCPoolRefinement** maps the pool to it: the holders are the tasks that were
let through, so the counter of the code is not mentioned and has to agree.

**ConnectionPoolProofs**, **ConnectionPoolSessionProofs**, **DescriptorProofs**,
**OidCacheProofs**, **ConnectionProofs**, **PipelineProofs**, **CodecProofs.**  Theorems about the modules they are named for; see below.

**DataInduction.**  What the proofs about sequences and recursive functions rest on:
induction over the natural numbers stated with a set of numbers (the library's takes an
operator, which the provers cannot instantiate), recursion whose step is a function,
and how a concatenation of concatenations and the selection of a sequence's elements
behave.

**OidCache.**  Queries are sequences of user-defined parameter types; `Members`
gives the user-defined types inside a type.  `StartQuery` is `async_query` up to its
first yield: what is unknown is appended to `new_udts`, and if that is not empty
the Oid query comes first.  `Depth` is a measure by which members are below the type
they are in: a C++ type cannot contain itself.  `OidsReceived` stores rows up to the first NULL.
The server's types, its Oids and the session's transaction are external.

**Connection.**  One query operation and one notification receiver on one
socket.  Handlers run one at a time (the class is not thread-safe: an executor
of one thread or a strand), in any order.  Each action is a handler from where
it resumes to its next yield.  libpq is modelled by what its calls do to an
output buffer, an input buffer, a parsed state and a queue of notifications;
the socket takes `OutCap` chunks and holds `InCap` messages; the server reads
only when it has nothing to write.  The server may close the connection
(`ServerCloses`, if `MayClose`): libpq reads what was sent before, and the
`PQconsumeInput` that meets the end of the stream closes the socket (`net.link`
goes from `closing` to `broken`); a wait that is pending on it then never completes,
which is the worst the reactor may do.  `failed` is a history variable: some query
operation ended early.

**Pipeline.**  `async_exec_pipeline` and a single-result query, one after the other
on one session beside a receiver.  `StartPipeline` runs the caller's function (one of
`Scripts`, which may then throw), the ROLLBACK for one that threw, the sync, and the
flush up to its first wait; `PipelineResult` is the coroutine after each
`async_receive_result`: per push a result and a null, then the sync, then the exit from
pipeline mode.  `Cancel` ends an operation at any wait and, as the code does,
drains nothing and leaves pipeline mode on; the next operation starts on what is left.
`Recycle` passes the session through the pool, which keeps it only if libpq calls it
idle.  libpq's queue of commands, its aborted state and its own answers for
what follows an error are modelled (`PushCommand`, `ParseOne`, `ProcessQueue`), and a
server for which the commands up to a sync are one transaction.  Commands and
results carry the number of the operation and of the push, so that
"its own result" can be said.  `ops`, `last` and `stale` are history variables.

**Codec.**  Serialization and deserialization to the byte: `SizeOf`, `OidOf`,
`Serialized`, the shared `buffer_` with its capacity and its reallocations,
`Deserialized`, the accessors of results, rows and fields, and the number of an
SQLSTATE.  The templates are recursive over types; here each is a function of what it
does for the parts of a type (`SizeWith`, `WriteWith`, `ReadWith`) and a recursive
function over the types (`Sizes`, `Writes`, `Readers`).  `Depth` is a measure by which
the parts are below the type, as in `OidCache`.  The server's side is written
separately and reads strictly (`Received`) and writes (`Sends`) the wire format, so
an error in both directions of the library does not cancel out.  What the library
reads as a `std::byte` is a byte string of any length at the server, and its
timestamps reach further than the clock, whose ticks are a number of `ClockBytes`
bytes.  Reading bytes that are not there and an overflow of the clock are
`Undefined`, which no property accepts as a value.  `AsField` compares the Oid of the
column, which libpq has whatever the row is, and then deserializes what libpq has
for the field: nothing, outside the result.  `Meaning` is what a value of the server
is to a reader of another type, and is independent of bytes; it is "unspecified"
where the library does not check and no document says what happens (below).

**Descriptor.**  The kernel's table of descriptors, the two owners of each
connection's descriptor, and the rest of the process opening and closing others.
Member-wise moves and destructors are split at the points where other threads run,
and so is the poll loop of `async_connect`: `PollReconnects` closes libpq's socket
and `PollReopens` opens the next host's, while `socket_` keeps the first number.

Definitions named `Wrong...` are variants of an action, not part of any
specification; they document which slip a property would notice.

## The runs

| run | shows | bounds |
|---|---|---|
| `pool_safety` | `TypeOK`, `CountExact`, `NoLostWakeup`, `SessionsBounded`, `NoSharing`, `NoLeak`, `IdleReusable` | 4 tasks, 4 sessions, sizes 0..2, symmetry over tasks and sessions |
| `pool_contract` | the pool implements `PoolContract`; `DeadPoolUntouched`; `CancelledStopsWaiting`; `EveryWaiterServed` | 3 tasks, 3 sessions, sizes 0 and 2 |
| `oids` | `TypeOK`, `CacheTruthful`, `SendComplete`, `CacheStable` | 3 types, one nested in another; 3 Oids; queries start while `new_udts_` has at most 2 names |
| `connection` | `TypeOK`, `GetResultNeverBlocks`, `ReadyAfterSuccess`, `NotificationsConserved`, `NoStrandedNotification`, `QueryEndsAlone`, `NotificationDelivered`, `ReceiverToldOfClose` | 2 chunks per query, buffers of one, 2 queries, 2 notifications, a server that may close |
| `descriptor` | `TypeOK`, `NoForeignClose`, `NoDescriptorLeak` | 2 objects, 4 descriptors |
| `pipeline` | `TypeOK`, `AllOrNothing`, `OutcomeTruthful`, `PipelineResultsOwn`, `QueryResultOwn`, `PipelineCompletes`, `NoStrandedNotification`, `AnswerIsComing` | 2 operations, 5 scripts of at most 2 pushes (and the ROLLBACK), 1 notification; about 2 million states |
| `codec` | `TypeOK`, `PointersValid`, `ServerUnderstands`, `ReadTruthful`, `SqlStateKept` | 2 calls on one buffer, 18 types, 18 values in 14 queries, 9 tables of answers, 15 row types to read, 33 SQLSTATEs |

Why these are enough.

* Pool: overtaking needs a waiter, a returning holder and a third task; four tasks and
  two slots also give two waiters with different fates.  `pool_contract` takes the
  sizes 0 and 2: closing the pool under its waiters, and reopening it for two of them at
  once.  Symmetry is used only in `pool_safety`, which has no temporal property.
* Connection: with `InCap` 1 an answer of two or three messages never arrives at
  once, and with `OutCap` 1 a query never leaves at once, so every wait of the code
  is reached.
* Descriptor: two descriptors suffice to reuse a number; there are four so that a
  reconnecting object can hold a stale one beside another's new one.
* Pipeline: what goes wrong needs one operation that leaves something behind and one
  that meets it.  The scripts cover no push, all well, the last and the first
  failing (which libpq answers differently), and a COPY, each with and without an
  exception.
* Codec: nesting goes to an array of composites that hold an array of composites; each
  width, empty texts and arrays, negative numbers and instants, byte strings of none,
  one and two bytes, two composites that differ only in their names, a type the map
  does not know yet, and a second call on a dirty buffer are among the inputs.  The
  clock is scaled: `TickRatio` 10 for 1000, `EpochShift` 3 for the microseconds from
  1970 to 2000 and `ClockBytes` 2 for 8, so that small instants lie before 1970,
  between the two, between two microseconds, and at and just beyond both ends of the
  clock.  An index is converted modulo 2^16 instead of 2^64.

`CHECK_DEADLOCK FALSE` is given for the pool, whose last handle may be dropped
with nothing in use, and for `connection`, `pipeline` and `codec`, where all operations
may be over and the bounds on their number used up.

Five further runs end in a counterexample and record where the program
does not do what its documents say:

| run | what happens | against |
|---|---|---|
| `oids_refetch` | nothing empties `new_udts_` (`connection.hpp:223`), so after one query with a user-defined type every later query first asks for Oids that are stored; in a failed transaction that fails, and the ROLLBACK is not sent | `README.md:193-195` |
| `oids_error` | after a query with an unknown type, a query without any user-defined type fails with "No user-defined type with the given name was found on the server" | `error.hpp:88` |
| `connection_query_ends` | the receiver's handler, queued behind the query's, reads the rest of the answer after the query went back to waiting for the socket; the query never ends | `README.md:208` |
| `descriptor_close` | connect, `close()`, another connection gets the number, the destructor closes it | `connection.hpp:386` |
| `codec_mismatch` | a user-defined type, or an array of one, asked for of a field of another type: the expected Oid is 0 (`detail/oid_of.hpp:53, 82`), which is not compared, and the bytes of something else are deserialized | `README.md:56` |

## Fairness

* Pool, `FairSpec`: queued handlers run and a destructor that began ends, which
  is what an executor does.  Nothing is assumed of the server (a connect may
  hang) or of callers (a connection may be kept).  `EveryWaiterServed` supposes
  exactly those two (`CallerFairness`), and that new acquires and resizing
  cease: the code has no queue discipline (a new acquire takes a slot before
  the waiter that was woken), so without that a waiter may be overtaken for ever.
* Connection: queued handlers run, the reactor reports a readable or writable
  socket, the server reads, answers and writes.  Callers need not start or
  cancel anything.
* `OidCache`, `Descriptor`, `Pipeline` and `Codec` are checked for safety only.  That
  a pipeline ends is stated as the invariant `AnswerIsComing` instead: without a
  receiver, whoever waits waits for something that is on its way.  The liveness of the same flush and receive
  steps is in `Connection`.

Assumed of callers, because the code relies on it: a handle of the pool is kept
while an acquire is pending (`this` is captured), one operation and one receiver
at a time on a connection, objects outlive their operations.

Assumed of libpq and the server: in `Connection`, what was sent before the connection
was closed can still be read; in `Pipeline`, a notification comes at the end of a
transaction, before the report of the sync, and the server flushes its answers
at a sync or a notification (earlier if it likes).

What the properties leave out, because no document of the library promises more:
after an operation that ended early (`failed`, `stale`) a receiver may sleep beside a
notification, and a single query on the same session may get another's result or
wait for ever; the pool does not keep such a session (`QueryResultOwn`, `Recycle`).
An empty array may be refused with an exception.  `ReadTruthful` excepts what
`Meaning` calls unspecified: a NULL read as a value, a timestamp the clock does not
reach (after 2262, before 1677, infinity), a byte string that is not one byte read
as a `std::byte`; and `operator[]` with an index outside the result, which is not
checked (`at` is).  It also excepts a user-defined type asked for of another type:
there a document does say what should happen, and `MismatchThrows` records that it
does not.  What microsecond an instant between two is sent as follows the code's
truncation (`Stored`): that rounding is not checked against anything independent.
No property says that a stored Oid is still the type's: nothing refreshes the
cache, so `CacheTruthful` says that it has been and `CacheStable` that it stays.

What `NotificationDelivered` says: a caller that receives again and again, and in the
end no longer cancels, gets every notification that reached the client, wherever it
was then (the socket, libpq's input buffer, its queue, or stored for the caller),
provided that query operations end and none ended early.

## What is proved

Every invariant and every action property of the passing runs, for all values of the
constants that satisfy the assumptions of the modules (`PoolAssumption`,
`DescriptorAssumption`, `OidAssumption`, `NestingAssumption`, `ConnectionAssumption`,
`PipelineAssumption`, and those of the codec, below).  Outside the codec these only type
the constants, ask for a finite set of tasks and buffers of at least one, and say that
types do not contain themselves; the bounds of the runs (tasks, sessions, queries,
scripts, notifications) are arbitrary in the theorems.

**The counter and the waiters** (`ConnectionPoolProofs`): `TypeCorrect` (`TypeOK`, hence
the counter never wraps), `CounterCorrect` (`CountExact`), `WakeupCorrect`
(`NoLostWakeup`) and `SizeCorrect` (`SessionsBounded`).  The inductive invariant `IInv`
is their conjunction with what they need: `HandleHeld` (a pending acquire's caller
holds a handle, so the pool is alive when it takes a slot), `SessionHeld` (whoever
is counted owns a session, so what is put back is a connection), `QueueOfParked`
(the timer's queue holds parked tasks once each, so a wake-up turns exactly one
sleeper into a woken one) and `max_size <= peak`.  The argument is counting: lemma
`OneMoves` says how the number of tasks in a set of places changes when one task
moves, and each action moves one task, or two (`ReturnConnection`: the returner and
the one it wakes).  `NoLostWakeup` is the delicate one.  It holds of the sum of
woken tasks and acquired connections, not of either: a woken task that takes a slot
moves one unit across, a return moves one back, and an overtaken one parks only
when the counter alone covers the limit.

**The sessions** (`ConnectionPoolSessionProofs`): `OneOwner` (`NoSharing`),
`OpenIffOwned` (`NoLeak`), `IdleAreReusable` (`IdleReusable`) and `DeadStaysDead`
(`DeadPoolUntouched`).  The inductive invariant `SInv`, relative to `IInv`, is the first
three with `OwnsNothing` (a task owns no session before it takes a slot and after it
let go).  They need each other: a new session is not shared because it was closed and
`NoLeak` says that nobody has a closed one; a queued session keeps its status because
`NoSharing` says that no task is using it.  Every way a session can go is one lemma:
taken (`TakeSlotSessions`), swapped, put back (`ReturnSessions`), or dropped
together with a reference to the pool (`DropSessions`, which the destructor, the end of a
handle and a connection that outlives its pool all use).  `DeadStaysDead` follows
from `HandleHeld`: without handles nobody is pending, so only moves, uses and
destructors of held connections are left.

**The contract** (`ConnectionPoolProofs`): `PoolImplementsContract`, every step of the pool
is a step of `PoolContract` or changes nothing of it.  The step that carries it is
`FullMeansNoRoom`: by `CountExact` the code's test of its counter is the contract's
test of the number of holders.

**The socket** (`DescriptorProofs`): `TypeCorrect` (`TypeOK`), `OwnershipCorrect`
(`NoForeignClose`) and `NothingLeaks` (`NoDescriptorLeak`).  The invariant says, as long as
no caller misused an object: a PGconn's socket is open and its own (`OneOwner`);
`socket_` is set only beside a PGconn, whose presence makes the destructor release it
instead of closing it (`Beside`); and a move in progress has its source to itself and
will not set `socket_` without a PGconn (`Moving`).

**The Oid cache** (`OidCacheProofs`): `TypeCorrect` (`TypeOK`), `CacheIsTruthful`
(`CacheTruthful`), `SendIsAlwaysComplete` (`SendComplete`) and `CacheIsStable`
(`CacheStable`).  `NeededIsComplete` comes first: the recursion of `extract_new_udts`
visits every parameter type and, with a type, its members, by induction on `Depth`.
The invariant adds two facts to the checked ones: the server's current Oid of a type is
one it has had (`Recorded`), and while Oids are asked for, every type of the query is
stored or among the names (`AsksForAll`).  The second is what an answer without NULLs
turns into `SendComplete`; rows that come before a NULL only add entries.

**The connection** (`ConnectionProofs`): `TypeCorrect` (`TypeOK`), `ResultsAreReady`
(`GetResultNeverBlocks`), `ResultsAreOwn` (`ReadyAfterSuccess`), `NotificationsAreKept`
(`NotificationsConserved`) and `ReceiverSleepsOnNothing` (`NoStrandedNotification`).
The invariant `Ind` follows the one answer that is under way.  `Ahead` is what the
parser has not seen of it, in libpq's input buffer, the socket and the server;
`Phase` says that either the query is still on its way to the server and nothing is
ahead (`Waiting`), or that it is flushed and what is ahead is what the status of the
PGconn leaves to come (`Answering`), or a beginning of it once the server closed the
connection.  `First` and `Second` place the two `async_receive_result` of an operation
in that answer.  The invariant is about the buffers together, so it does not matter
whether the query or the receiver reads or parses: `ParseOneKeeps` shows it for one
message and induction over the input buffer for `Parsed`.  `NotificationsConserved` is
proved beside it: each step moves messages from one place of a fixed order to the next.
`ReceiverSleepsOnNothing` needs `Drained`, that such a receiver leaves nothing unparsed.

**Pipelines** (`PipelineProofs`): `TypeCorrect` (`TypeOK`), `PipelinesAreAtomic`
(`AllOrNothing`), `OutcomesAreTruthful` (`OutcomeTruthful`), `PipelineResultsAreOwn`
(`PipelineResultsOwn`), `QueryResultsAreOwn` (`QueryResultOwn`), `PipelinesComplete`
(`PipelineCompletes`), `NoneStranded` (`NoStrandedNotification`) and `AnswersAreComing`
(`AnswerIsComing`, of a session that has had no receiver and no notification: beside a
receiver it is false, as `connection_query_ends` shows).  Cancellation leaves commands
behind anywhere, so no condition on the current operation is inductive.  The invariant
says instead (theorem `Invariant`) that there is a log of the commands pushed on this
session, and two positions in it, of which everything is a function:

* What became of a command depends on the log alone: whether the server skips it
  (`Skipped`), the result it gets from the server or from libpq (`Answer`), whether its
  effect is open or committed after `s` commands (`Open`, `Kept`).
* `Link` ties the state to the log.  The server has served its first `s` commands, and
  the rest is in its input and libpq's output; libpq has taken the results of `c` of
  them, its queue, mode and status are those of position `c`, and the messages in
  between are the `Answer`s to the commands from `c` to `s` that get one.  Each call of
  libpq and each step of the server keeps `Link`, `Parsed` and `Push` by induction
  over the input buffer and the commands pushed.
* `LogOk` says that each pipeline stands in the log as one block that ends with its
  sync, or not at all; `KeptOk` draws `AllOrNothing` from that: within a block either
  every command survives up to the sync or none does.  `OldOk` carries it over
  `Recycle`, which begins a new log with what was committed before.
* `Running` says where the operation under way is.  libpq has taken at most as many
  commands of its block off the queue as it has received results, and when as many,
  they are its own (`InPipeline`).  After an early end it may have received what others
  left behind instead; then commands of its own are still in the queue when it believes
  to be at its end, pipeline mode cannot be left, and it does not succeed.  That is the
  step that carries `PipelineResultsOwn`.
* `Effected` and `Reported` are about the operation that ended last, and `Waits` about
  what the operation under way and the receiver sleep on.  `AnswersAreComing` combines it
  with `Link`: libpq is busy with a command the log has a sync behind, and the answer to
  that sync has not been read, so the command or its answer is still at the server.

**The codec** (`CodecProofs`): `TypeCorrect` (`TypeOK`), `PointersAreValid`
(`PointersValid`), `ServerUnderstandsAll` (`ServerUnderstands`), `ReadsAreTruthful`
(`ReadTruthful`) and `SqlStatesAreKept` (`SqlStateKept`), for any types however deep they
nest, any values and tables, and the real clock and widths.  The assumptions:

* `TypesAssumption`: no type contains itself, and an array's items are no arrays
  (neither compiles).
* `CatalogAssumption`: an Oid denotes one type of the server, but for anonymous
  composites, which share theirs; Oids are below 2^31 and a user's are not
  PostgreSQL's; the parts of the server's types are the server's.
* `ValuesAssumption`: values fit their types and are shorter than 2^31 bytes, which
  `static_cast<int>(size_of(...))` (`detail/serialization.hpp:45`) needs.
* `DataAssumption`: so are the server's, to which belong what a program sends and an
  empty array of each array type; any part may be null, a byte string has any
  length, and a timestamp is any 64-bit number.
* `ProgramAssumption`: programs send values of the server's types, or anonymous
  ones; rows, columns and what is asked for are fewer than the range of an index.

The inductive invariant `Ind` is small, because one action does a whole serialization or
reading; the work is in the lemmas, each by `TypeInduction` over the nesting of types:

* `RoundTrip`: the `w` bytes of a number, most significant first, are read back as the
  number, by induction over bytes.
* `SizeOfIsWritten`: `size_of` is what `serialize` appends.  `SerializePasses` follows:
  the sum that is reserved is never exceeded, so no pointer dangles, and each
  parameter's pointer and length delimit its own bytes.
* `ServerReceives`: what is written is a header and then framed parts (`Encodes`); the
  offsets that a reader of framed parts follows are where the parts begin
  (`Offsets`), whoever reads.  So the server's strict reading gives back each part.
* `ReadFaithful`: the same offsets on the bytes the server sends, for *any* pair of the
  type asked for and the type sent.  Where the Oids or the counts differ it throws
  before a part is read; where no part is unspecified, the parts are read as they
  mean, and the first that throws ends both.  A null, an instant beyond the clock, a
  byte string that is not one byte and a foreign user-defined type are unspecified, and
  with them the value that has them as parts: of those the theorem says nothing.
* `RowRead`, `RowsAre` and one lemma per accessor (`ResultTrue`, `RowsTrue`, `AtTrue`,
  `IndexTrue`, `NameTrue`) lift that to results, with `CheckedIs`: an index of -1 becomes
  the largest `size_t` and is refused.
* `SqlStateTold`: five digits of base 36 to a number and back, without the leading
  zeros, by arithmetic.

`Transferred`, in `Ind`, says of a sent query that the bytes at each parameter's pointer
are its serialization; `NothingRead` that what was read belongs to the answer at hand.

Only model-checked: liveness (`EveryWaiterServed`, `CancelledStopsWaiting`,
`QueryEndsAlone`, `NotificationDelivered`, `ReceiverToldOfClose`) and the fairness part of
`PoolContract`, which are beyond the prover.

## Not modelled

* Which wait a poll of `async_connect` asks for, and that the wait is on the number in
  `socket_` after libpq opened another: what it reports depends on the reactor.
* Malformed messages.  In the run, widths at their extremes: TLC's integers are 32
  bits (the theorems are about all widths).
* COPY IN, backward iteration over a result, iteration over the fields of a row.
* Failing allocations, and exceptions other than the ones the code throws itself.
* `sqlstate.hpp` and `error.hpp` beyond the functions above: tables of numbers and
  messages; `scripts/` generates the first.  `example/` only uses the library, and
  gives the runs their instances.
