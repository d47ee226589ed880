# boltwire, specified

TLA+ models of boltwire, an async Bolt 5 client library in Rust: what its
sessions, its pools and its managed transactions promise when futures are
dropped, reads time out, writes are cut off and threads interleave, and what its
codecs promise at their boundaries. The modules are checked with TLC on small
instances; the safety properties of sessions, pools, managed transactions, framing, headers,
URIs, the handshake and TLS trust are proved with TLAPS for every value of the constants.

All paths are relative to the repository's parent, so `src/src/pool.rs` is the
crate's `src/pool.rs`.

## The system

| Part | Source | State it keeps | Operations |
|---|---|---|---|
| Bolt session | `connection.rs` | `needs_reset`, `pending`, `broken`, `rbuf`; the handles `Transaction {done}` and `RecordStream {buffer, has_more, pull_in_flight, done, summary}` borrow it | connect, run, run_stream, begin, route, reset, close; tx run / run_stream / commit / rollback / drop; stream next / finish / drop |
| Framing | `connection.rs` (`encode`, `take_message`, `fill`) | `rbuf` | chunking, NOOPs, partial reads |
| Messages | `message.rs` | none | request constructors, `Response::from_structure` |
| Handshake | `handshake.rs` | none | version proposals, `supported` |
| PackStream | `packstream.rs` | none | pack, unpack |
| Pool | `pool.rs` | `idle` under a mutex, a tokio semaphore, `acquire_timeout` | get (checkout, mint), drop, detach, close |
| Cluster pool | `routed.rs`, `routing.rs` | routing table, `fetched_at`, map of pools, round-robin cursors, `closed` | read, write, table, refresh, evict, close |
| Managed transactions | `routed.rs` | the bookmark list | execute, try_once |
| Values, serde | `value.rs`, `view.rs`, `convert.rs` | none | to_value, params, from_value, rows_as; views |
| URIs | `uri.rs` | none | from_uri, addr, connect, routed_pool |
| TLS | `tls.rs`, `tls/rustls.rs` | the builder's fields | the builder's calls, build, connect |

How they interact. A `RoutedPool` has one `Pool` per server and asks routers for
the table over connections of its own. A `Pool` mints `BoltConnection`s with a
factory, keeps idle ones, and hands them out as `PooledConnection`s; a permit of
the semaphore travels with each. A `BoltConnection` writes requests and reads
replies on one socket; `Transaction` and `RecordStream` are exclusive borrows of
it, so that a session runs one operation at a time. There are no callbacks and no
messages between parts: everything is a call, and the shared state is the
semaphore, the two mutexes and an atomic flag.

What is hard. Every operation is a future, and a caller may drop it at any await.
The next operation then finds replies on the socket that belong to nobody; it has
to drop exactly those, in a session the server may have failed, ignored or
abandoned. Reads have deadlines, so an answer may come after its operation
returned. Requests are pipelined. Writes are not repairable. In the pools,
checkouts are cancelled while they hold a permit, connections come back while the
pool is being closed, and `Drop` cannot await.

What makes each part correct:

- session: no operation reads another's reply; the drain ends exactly at RESET's
  reply; a connection that says it is ready is; a transaction that accepts a
  statement is one; rows come complete and in order; a broken connection is left
  alone; every operation ends, but for a peer that trickles for ever;
- pool: permits are conserved; the number of connections is bounded; what is
  kept can be reused; waiters are served, or told that the pool is closed; a
  closed pool keeps nothing;
- cluster pool: an acquire tries every server of its list and ends; after close
  there is, in the end, no checkout, and no pool is open;
- managed transactions: a transaction sees those that ended before it; work takes
  effect once, but for commits whose answer was lost; execute ends;
- framing: the stream of bytes is a queue of whole messages, however it is cut;
- codecs: what is read is what was written, and what is cut short is refused;
- handshake, URIs, TLS: the highest common version, the address and the TLS name
  that the URI says, the trust that the builder's calls ask for.

## The modules

| Module | What it is |
|---|---|
| `Connection` | one session: client, socket and server |
| `ReadDeadline` | `Connection` with the deadline of a read, and its liveness |
| `MCConnection`, `MCDeadline` | their instances for TLC |
| `ConnectionProofs` | theorems about `Connection`: whose reply is whose |
| `SessionProofs` | theorems about `Connection`: where the server is, and which rows come |
| `Pool` | tasks sharing a pool |
| `PoolProofs` | theorems about `Pool` |
| `RoutedPool` | tasks sharing a cluster pool: routing table, map of pools, close |
| `MCRoutedPool` | its instances for TLC |
| `RoutedPoolProofs` | theorems about `RoutedPool` |
| `ManagedTx` | execute: retries, bookmarks, a server that commits |
| `MCManagedTx` | its instance for TLC |
| `ManagedTxProofs` | theorems about `ManagedTx` |
| `MessageQueue` | abstract: a queue of whole messages |
| `Framing` | chunks over a stream of bytes; implements `MessageQueue` |
| `MCFraming` | its instance for TLC |
| `FramingProofs` | theorems about `Framing`, the refinement among them |
| `PackHeader` | operators: the markers, sizes and integers of PackStream |
| `HeaderCodec`, `HeaderProofs` | one header packed and read, and its theorem |
| `Values` | operators: the values of Bolt |
| `PackStream` | whole values packed by the client or a peer, cut, and read |
| `Convert` | serde: to_value, params, from_value, rows_as |
| `Uri` | from_uri, and what is dialled |
| `Handshake` | version negotiation with a server |
| `TlsTrust` | the rustls builder and what a handshake then trusts |
| `DialProofs` | theorems about what is dialled: `Uri`, `Handshake` and `TlsTrust` |
| `MCCodecs` | the six parts without state between calls, in one instance for TLC |

### Connection

The granularity is the await. `at` names the await an operation is suspended in,
`op` the operation; an action is what runs between two awaits. A write is two
actions: `Send` (part of the action that builds the requests) sets `broken` and
`out`; then `Write` completes it, clears `broken` and adds to `pending`, or `Cut`
ends it after any number of whole requests reached the server, with `broken` left
set. (A request of which the server got a part is one it never answers.)
`EncodeFails` is the error of `encode`, before the first byte is written.

A read ends with a record (`ReadRecord`, `ReadUnexpected`), with a summary (one
action per place and kind of summary), with the deadline (`ReadTimeout`), with
the end of the stream or an undecodable message (`ReadBroken`), or with the
future being dropped (`Cancel`). Cancelling loses nothing that was received:
`read_buf` appends or does nothing.

`wire` is both directions of the socket: a FIFO of exchanges, each a request and
what the server has answered and the client has not read. `stale`, `lost` and
`got` are history variables: how many exchanges at the front belong to operations
that are over, whether a stream of this transaction failed, the last row given to
the caller.

Correspondence: `needs_reset`, `pending`, `broken`, `has_more`, `pull_in_flight`,
`batch`, `buffer` are the fields of those names; `tx` and `strm` are whether the
handle exists and its `done`; `summary` is `Some` exactly when `has_more` is
FALSE. Calls on a broken connection return an error and change nothing, so they
are not actions, except where a handle's drop then runs (`Commit`, `Rollback`,
`StreamDrop`). GOODBYE has no reply and its session no later operation: `Close`
gives the connection up. A `Call` with a batch size that `validate_batch`
refuses touches nothing (`BatchesAssumption`).

`ReadDeadline` adds time. The deadline is that of one `fill`; bytes that complete no
message, a NOOP or a piece of one, end the fill, and the loop of `read_message` starts
another with a deadline of its own ("NOOP keep-alives refresh it", `connection.rs:28`).
`Tick` is a deadline that passes with nothing arrived, `Trickle` such bytes. Neither is
a step of `Connection`, which knows whole messages, so its safety properties and theorems
are those of `ReadDeadline` too; the run checks them there.

The server is external, taken from what the client relies on: one summary per
request, in order; records only for PULL; after a failure, or when a RESET has
arrived behind a request, IGNORED until RESET, which brings the session back to
READY from wherever it was or ends it. It may also refuse any request, answer with
something that does not decode, stop answering, or hang up.

### Pool

Tasks run on several threads. A step is what a task does under one lock or
between two reads of shared state: `PooledConnection::drop` is `Drop` (looks at
`is_reusable` and `is_closed`), `Push` (under the mutex) and `Free` (the permit is
dropped after it); `Pool::close` is `Close`, `TakeIdle` and one `Goodbye` per
connection. `GiveUp` is a checkout that is dropped or meets its acquire timeout,
at any of its awaits. A connection is what its predicates say of it: "ready",
"dirty" (needs a RESET, owes nothing), "owed", "broken". Whether an idle
connection has expired is a free choice (`Pop`), as is what a caller leaves behind
(`Use`) and what the factory answers.

The semaphore is external: a count, a FIFO of waiters to whose head a freed permit
goes, and a closed flag that fails waiters and those that were given a permit and
not yet polled.

### RoutedPool

A step is what a task does under one lock of `state` or between two awaits. An
acquire is `Begin`, `EnsureFresh`, possibly a refresh (`ListRouters`, `RouteFails`,
`RouteAnswers`, `Store`), `Pick` (the list, and the round-robin cursor), and per
server `PoolFor`, `Get...` and, on a transient error, `Evict`; `NextLap` is the
second lap or the error. The table is answered in one step and stored in another,
so that other tasks evict, store and pick in between. `close` is `CloseBegin` (the
flag), `CloseDrain` and one `ClosePool` per pool, and its future may be dropped
(`CloseDropped`); it may be called again once a call is over, while two calls at once are
not modelled. A refresh ends with `Store`; a `ttl` that is not positive leaves the
table stale at once, otherwise `Expire` makes it so at any time. `from_meta` sorts a
router's answer into the three roles.

A per-server pool is what `Pool` shows of it: `MaxPerHost` permits, an error for who
waits once it is closed, a connection or an error for who has a permit. Pools have
numbers, given out again once nobody can reach the pool. `GiveUp` is a call dropped
at an await.

### ManagedTx

`execute` is `Execute`, then per attempt `Acquired`, `ReadBookmarks` (the list is
cloned under its lock), `Begun`, `Worked` or `WorkFails` and a rollback whose outcome
is ignored, a commit, and `Merge` (the list under its lock). An error is transient,
permanent or a moved cluster, which is refreshed for first; `Backoff` gives a delay
while attempts are left. The server is external: one log, a bookmark is a position
in it, and a COMMIT may take effect though its answer is lost (`CommitLost`) or nobody
waits for it any more (`Dropped`).

### Framing

`encode` cuts a body into chunks of `MAX_CHUNK`; a peer may cut it anywhere, put NOOPs
between messages and go away in the middle of one. `read_message` is `ReadMessage`,
`TakeMessage` (`take_message`: skip NOOPs, walk the headers to the terminator, join the
chunks), `Fill` with any number of the bytes that have arrived, `FillEnd`, and
`Cancel` for a dropped future or a deadline. `Base` scales the byte: with 2, a length
is two binary digits, so that chunk lengths, their bytes and NOOPs all look like
body bytes.

`ImplementsQueue` is the refinement: with `queue` what was sent and not handed over,
`taken` what was, and `open` that the connection is not broken, every behaviour of
`Framing` is one of `MessageQueue`, which hands over whole messages in order, each
once. This is the FIFO of messages that `Connection` takes for granted.

### The parts without state between calls

`HeaderCodec`, `PackStream`, `Convert` and `Uri` take an input through the code's
functions and back; `Handshake` is a client and an external server that takes the
first slot with a version it speaks, one that ignores ranges, or one that answers
anything; `TlsTrust` is the builder's calls in any order, then build and a server with
any certificate. They do not interact, so `MCCodecs` lets one of the six move in a
behaviour while the others stay in an initial state. It extends `HeaderCodec`, `Handshake`,
`TlsTrust` and `Uri`, whose specifications therefore have names of their own (`HeaderSpec`,
`HandshakeSpec`, `TrustSpec`, `UriSpec`), and instantiates the other two, which use recursive
operators, over the variables `v1` to `v5`.

Texts in `Uri` are sequences of tokens: the separators the code looks for, and words
without them; `://` is the two tokens `:` and `//`, so that a search for a colon sees it.
`TlsRustls` is whether the crate was built with TLS. A Rust type and a Rust value in `Convert` are records; what serde's derived
code asks of the crate is external.

## Runs

| Run | Instance | What it shows |
|---|---|---|
| `connection` | batches of all and of 1, 2 rows, 3 owed replies | the safety properties of a session; every operation ends |
| `connection_rollback` | the same, 4 owed replies | finding: `EveryReplyIsOwn` is violated |
| `connection_txstream` | the same, 4 owed replies | finding: `TxAlwaysLive` is violated |
| `pool` | 3 tasks, 2 slots, 2 attempts | permits, size and what is idle; close ends waiting; checkouts end; waiters are served |
| `pool_close` | 1 task, 1 slot | finding: `ClosedIsEmpty` is violated |
| `routed` | 2 tasks that read, 2 servers, 2 answers, `close`, tasks symmetric | the loop of acquire tries every server |
| `routed_end` | 2 tasks, writes, `table`, `refresh` and `close`, 1 server | every acquire ends; after `close` there are, in the end, no checkouts |
| `routed_close` | 2 tasks that read, 2 servers, `close` | finding: `CloseClosesAll` is violated |
| `managed` | 2 tasks, reads and writes, 2 attempts, 2 bookmarks kept, 3 commits | bookmarks, repeated work, execute ends |
| `managed_burst` | 3 tasks that write, 2 bookmarks kept | finding: `CausalRead` is violated |
| `framing` | 2 messages of 2 to 5 bytes, chunks of at most 3, a limit of 4 | refinement of `MessageQueue`; every message is handed over |
| `codecs` | see below | the parts without state between calls |

Properties of a session: `PendingCountsOwed`, `DrainEndsAtReset` and `ReplyIsOwn`
are the core, that a cancelled operation never shifts the replies of a later one;
`ReadyMeansReady` and `TxIsLive` relate the client's flags to the state the server
is in; `RowsInOrder` relates the buffer, the wire and the server's cursor to what
the caller was given; `BrokenIsFinal` is about steps. `ReplyIsOwn` and `TxIsLive`
name the exception that the code has; `EveryReplyIsOwn` and `TxAlwaysLive` are the
same statements without it, as the docs make them.

Properties of the pool: `PermitsConserved`, `SizeBound`, `IdleIsReusable`, and the
liveness properties below.

Properties of the cluster pool: `TriedAll` (the shared cursor is moved by other
tasks, and yet a lap tries each server of its list), `AcquireEnds`, `CloseQuiesces`, and
`CloseClosesAll`, which is what the doc of `close` says. Of managed transactions: `CausalRead`
compares the bookmarks a BEGIN sends with what had been acknowledged when its execute
was called; `OnceUnlessLost` counts the commits the server made for an execute.

Properties of the rest: `ImplementsQueue`, `Delivered`, and `BrokenForCause` (no way of
cutting a message within the limit breaks the connection); `HeaderRoundTrip`,
`RoundTrip`, `CutRefused`; `WrittenIsParsed`, `SeedIsDialled` (whatever `from_uri`
accepts, the address it writes is split again into the same host, which is the TLS
name); `HighestCommon`; `TrustAsAsked`; `ConvertRoundTrip`; and `RowRoundTrip` (a
struct that a query returns as a row comes back whatever the order of the columns, and is
refused exactly when a column beside it holds a graph structure at any depth).

Bounds. `MaxOwed` limits when an operation may start on a session that owes
replies: 3 lets a stream be abandoned with two replies owed, the next operation's
RESET be cancelled as well, and a third operation begin; 4 gives no other answer in the
safety properties, and the theorems have no bound. `MaxRows` of 2 with batches of 1 makes a batch end before, at and after
the last row. In the pool, 3 tasks over 2 slots give two holders and a waiter, or a
waiter, a permit in transit to another and a holder, and two attempts are one retry; the
safety properties are proved for any number of tasks.
Apart from the session's, the runs do not check for deadlock: once a pool is closed and
every connection is back, the peer is gone or the input is read, there is nothing
left to do. `routed` uses the symmetry of the tasks; the liveness runs do not.

In `routed`, two servers and two tasks let one task move the cursor and evict while
another is in its loop; of the two answers, one knows both servers and a router, the
other one server and no writer, with a `ttl` of -1. `RRModulus` is a multiple of the
lists' lengths, so that the cursor counts modulo it; `MaxPools` of 4 never
runs out (5 gives the same states). `routed_end` has the writes and the calls of `table` and `refresh` over one
server. In `managed`, `Cap` of 2 stands for 16 bookmarks and two tasks for as many at
once; three commits make the list drop one; two attempts are one retry. `managed_burst`
has one task more than bookmarks, as 17 executes at once would be. In `framing`, the
bodies are below a chunk, a chunk to the byte, one byte over it (and the limit), and over
the limit; `MaxPipe` bounds when a NOOP is put and `MaxSent` the messages. In `codecs`:
sizes and integers on both sides of every header boundary, with 2^31 scaled to
2^20 (TLC's integers are 32 bits wide); values of every kind around the header
boundaries, alone and nested, each cut at every byte; URIs from 168 combinations of parts and
every text of up to five tokens, `//` among them, in the place of the host; servers that speak any subset
of seven versions, below, at both ends of, inside and above the window; up to four builder
calls over five certificates, so that a pin, an added root, a replaced store and the danger
switch meet; types of one and two levels over nine leaf types, with an i64 that ends at 7.

Fairness. `ReadDeadline!Fairness`: a suspended future is polled again when its await
is over; time passes, and a fill that is due ends unless bytes arrive after all;
connecting ends by its timeout, which covers the whole of it. Nobody has to cancel, and
the server need not answer. Two things are not assumed, because the code has no deadline
for them, and `OperationsEnd` names both as what may hold an operation for ever: a server
that goes on sending bytes that complete no message, and a transport that never takes
what is written. That a statement's records come to an end is the model's `MaxRows`. `Pool!TaskFairness`: a checkout's awaits
end (probe by the read deadline, factory by the connect timeout, delay by itself)
and a drop that began goes on. `ReturnFairness`, a premise of `WaitersServed` only:
callers give their connections back. `CheckoutEnds` is conditional on other tasks' returns
coming to an end: checkout's loop pops whatever is in the list, and as long as
others keep filling it with connections that are found expired or dead nothing in
the loop bounds it (an acquire timeout does).

`RoutedPool!FairSpec`: the awaits of an acquire end (connect and ROUTE have timeouts),
`close` goes on, callers give their connections back, and a permit goes to those who
wait in turn, which is strong fairness of `GetPermit` and what `Pool!WaitersServed`
shows. That a per-server checkout which has its permit ends is an assumption here: `Pool!CheckoutEnds`
has it on condition that other tasks' returns come to an end, which they do where
`max_per_host` is 1, as in the runs, since then nobody else can return anything. `ManagedTx!FairSpec`: the awaits end, the user's work included. `Framing!FairSpec`:
the caller goes on reading, and not every read is cancelled before the bytes that have
arrived reach it: strong fairness of the fills.

## What the findings say

- `connection_rollback`. Cancel a statement of a transaction, then call
  `rollback()`: ROLLBACK is sent behind the statement's unread replies, and the
  first of those is taken for its answer. `needs_reset` is cleared with replies
  owed. The next operation on the connection still recovers, because
  `ensure_clean` also looks at `pending`; what is wrong is rollback's own result.
- `connection_txstream`. A FAILURE in a stream resets the session, which ends the
  transaction, and the `Transaction` does not learn of it: a later statement is
  run outside any transaction.
- `pool_close`. `drop` decides to keep the connection before `close` closes the
  semaphore, and pushes it after `close` has emptied the list.
- `routed_close`. An acquire that has passed the look at the flag is at an await while
  `close` drains the map; `pool_for` then puts a new pool into it (`routed.rs:306`), which
  is open, may mint a connection, and is closed by nobody.
- `managed_burst`. The list drops the bookmark merged first, not the lowest. With more
  executes in flight than bookmarks kept, the ones that committed early and merge late push
  out the highest one, and a transaction begun after it was acknowledged does not send it.

What the properties leave out, because the code does otherwise:

- `CloseQuiesces` is about checkouts, not pools: a pool that was evicted, on which others
  may wait, is out of `close`'s sight (`evict`, `routed.rs:319`). Those who wait on it are
  served by its permits instead (`AcquireEnds`).
- `TriedAll` speaks of the list that was read: an evict between `Store` and `Pick` may
  empty the list that a forced refresh has just stored, and the acquire then fails
  without a try (`routed.rs:281`).
- `CausalRead` holds in `managed` because no more executes hold a connection at once than
  bookmarks are kept (16 in the code, `routed.rs:205`).
- `HeaderRoundTrip` sets byte arrays of 2^32 bytes and more aside: `pack_bytes` casts
  their length without the check that the other sizes have (`packstream.rs:143`).
- `RowRoundTrip` says that a graph structure in a column the struct does not name fails the
  row: it is walked by `deserialize_any`, which refuses it (`convert.rs:430`).
- `ConvertRoundTrip` and `RowRoundTrip` set types aside that hold an Option of something that may itself be
  Null, as `Option<Option<T>>`: `Some(None)` comes back as `None`.
- `SeedIsDialled` sets hosts aside that hold a `[`, which are no host names.

## Proofs

Liveness apart, every property of the runs that concerns a stateful part is also a
theorem, for every value of the constants; so are those of `HeaderCodec`, `Uri`,
`Handshake` and `TlsTrust`. Each theorem is `Spec => []P`, or `Spec => P` for
a property of steps or a refinement, and follows from an inductive invariant; TLC found no violation of
these on the runs' instances (the header's names 64-bit integers, which TLC has not).

| Module | Theorem | Property | From |
|---|---|---|---|
| `ConnectionProofs` | `Typing` | `TypeOK` | `BatchesAssumption`, `BoundsAssumption` |
| | `PendingIsExact` | `PendingCountsOwed` | |
| | `ResetDrainsExactly` | `DrainEndsAtReset` | |
| | `RepliesAreOwn` | `ReplyIsOwn` | |
| | `BrokenStays` | `BrokenIsFinal` | |
| `SessionProofs` | `ReadyIsReady` | `ReadyMeansReady` | the same two |
| | `TxStaysLive` | `TxIsLive` | |
| | `RowsStayInOrder` | `RowsInOrder` | |
| `PoolProofs` | `Typing` | `TypeOK` | `TaskAssumption`, `ConfigAssumption` |
| | `PermitsAreConserved` | `PermitsConserved` | |
| | `SizeIsBounded` | `SizeBound` | |
| | `IdleStaysReusable` | `IdleIsReusable` | |
| `RoutedPoolProofs` | `Typing` | `TypeOK` | the assumptions of `RoutedPool` |
| | `LapTriesAll` | `TriedAll` | |
| `ManagedTxProofs` | `Typing` | `TypeOK` | `ManagedAssumption` |
| | `CommitsOnce` | `OnceUnlessLost` | |
| | `CausallyConsistent` | `CausalRead` | and finitely many tasks |
| `HeaderProofs` | `HeadersReadBack` | `HeaderRoundTrip` | `HeaderAssumption`; sizes are naturals, integers 64 bits wide |
| `FramingProofs` | `Typing` | `TypeOK` | `FramingAssumption` |
| | `BrokenOnlyForCause` | `BrokenForCause` | |
| | `Refinement` | `ImplementsQueue` | |
| `DialProofs` | `WritesAreParsed` | `WrittenIsParsed` | the assumptions of `Uri` |
| | `SeedsAreDialled` | `SeedIsDialled` | |
| | `AgreesOnHighest` | `HighestCommon` | versions and bytes are naturals |
| | `TrustIsAsAsked` | `TrustAsAsked` | nothing |

The hypotheses that are not assumptions of a module say that constants are numbers or
finite. `CausallyConsistent` is `Spec => ([](Cardinality(Holding) <= Cap) => []CausalRead)`:
of any number of tasks and in every behaviour, as long as no more than `Cap` executes hold a
connection at a time, which a deployment gets by keeping `max_per_host`, over all servers,
within 16; beyond it `managed_burst` violates the property.
`Half32 - 1 <= 2147483647` of `HeaderAssumption` admits the code's 2^31 and the smaller
ones the runs use. `RRModulus` is how the model's cursor stands for a `usize`: a multiple
of the length of every list that a router answers with. `UriAssumption` says which parts a
URI can be written from at all (a user name without a colon, nothing before the query with a
question mark ...); of other texts (`Raw`) it says only that they are texts.

### Sessions: whose reply is whose

`PendingCountsOwed` alone is not inductive: a read only keeps `pending` equal to the
length of the wire if it happens with the framing intact, and `ReplyIsOwn` needs to
know what is being written, by whom, and what is behind the reply being read. The
invariant `Inv` of `ConnectionProofs` therefore adds five parts to the two:

- `InvWriting`: while a write is under way, what is being written is what belongs
  to the await (RUN and PULL, one BEGIN, one RESET ...), and behind which replies;
- `InvReading`: while a reply is awaited the framing is intact, and the wire is
  the operation's own exchanges (RUN before PULL, RESET last), or for rollback
  anything;
- `InvIdle`: between operations, a session whose handle finds nothing to reset owes
  nothing, and an open stream is owed its batch in flight and nothing else;
- `InvStale`: how many of the exchanges at the front are nobody's;
- `InvHandles`: which handles an operation can find, and where `needs_reset` is set.

`InvStep` has one step per action, and `BrokenStays` follows from `Inv` and the
shape of the actions that write. Lemmas about sequences (`TailExchange`,
`ConcatExchange`) and about what an operation writes first (`StartFacts`) are
stated once.

### Sessions: where the server is

`ReadyMeansReady`, `TxIsLive` and `RowsInOrder` relate the client's fields to the server's
state, which runs ahead of what the client has read. `Served` says how far, on top of
`Inv`: replies come in order (`InvOrder`); the last one tells where the server is
(`InvLast`); between operations, while a statement starts, while it is read and while a
transaction ends the server is where the handles and the unread replies say
(`InvBetween`, `InvRunning`, `InvPulling`, `InvWhole`, `InvEnding`); and the rows in the
buffer, on the wire and at the server's cursor are those behind the last one handed out,
in order (`InvRows`). What a server's step and a client's read do to the wire is in the
lemmas `ServeFacts`, `TakesFacts` and `StepMoves`; then `PlacedStep` and `RowsStep` have a
case per action.

### The pool

Permits are counted over tasks: `CountIn(pc, S)` is how many tasks are in the states `S`,
and lemmas say how a task's step changes it. `PermitsConserved` is inductive only with the
queue: its members are the waiting tasks, each once (`InvQueue`), or else a freed
permit could go to a task that does not wait for it. `SizeBound` needs `PermitsConserved`, since
a task may make a connection only when nothing is idle, and `IdleIsReusable` needs that what is on
its way back is still reusable (`InvPushing`): the mutex is taken after the check.

### The cluster pool

`TriedAll` is about the end of a lap. `InvLoop` says of every turn that the servers tried are
those the index has passed from the task's own start, modulo the length of the list it
read; that the last turn completes the list is arithmetic (`DivMod` and the lemmas after it).

### Managed transactions

`Accounted` compares the commits made for an execute with those whose answer was lost, at
every await. `CausalRead` is harder, for commits are merged in any order and the list
drops its oldest: `Kept` says that the highest acknowledged bookmark is in the list, with
as much room behind it as there are tasks that may still merge a lower one (`Late`).
A task that is late can push the highest one place towards the end of the list, once;
this is where `Cap` has to reach the number of executes that hold a connection, when the
highest is merged (`MergeKeeps`).

### Framing

`Framed`, `Walk` and `Body` are recursive functions, which in TLA+ are a choice: that there is
a function that satisfies the equation has to be shown before anything is known of it.
`FramesEquation`, `WalksEquation` and `BodiesEquation` show it by a least counterexample: there
is no least `j` for which no function satisfies the equation on the last `j` places of the
body or the buffer. The induction over a body is of the same kind, from its end to
its beginning: `WalkFramed` says of every cut `k` that a walk which is at the header of the
chunk after `k` ends where the frame ends, stops where the buffer does, or refuses, and
that the second walk then yields the rest of the body. `EncodeCuts` shows
that `encode` is one of the ways to cut (`NextMultiple` is its arithmetic), so what is said of
a peer's cuts covers it.

The invariant (`Inv`) is about `rbuf` and `pipe` together, for what has arrived and what has
not is one stream: `Laid` says that there are places, one per message sent and not
handed over, at which a frame of that message stands, with nothing but pairs of zeros between
them (`Gap`), and that the stream may end before they do only if the peer has gone away.
`LaidPut`, `LaidNoop`, `LaidCut` and `LaidDrop` are its four ways to change; `TakeFacts`
joins it to the walk over a buffer that holds a part of the stream. A message with a prefix
of zeros is why NOOPs have to be skipped in pairs and only before the first header: a
frame does not begin with two zeros (`FrameHead`). `QueueStep` maps each step to one
of `MessageQueue` or to none.

### URIs

Proofs about `split_once` and `rsplit_once` go through one predicate, `Around(t, a, tok, b)`:
the text `t` is `a`, the separator, `b`. `FoundFirst` and `FoundLast` find the separator where
`a` or `b` is free of it, and `AroundParts` gives the halves. `HostPortRead` is the core
of both theorems: what is written for a host and a port, in brackets if there is a colon in
the host, is split into them again. `SeedsAreDialled` takes it together with what
`split_host_port` can give at all (`SplitGives`): a host that is never empty, and without a `]`
when it has a colon. `WritesAreParsed` goes through the text in the order in which `from_uri` takes
it apart (`WrittenText`): scheme, query (`QueryRead`), userinfo up to the last `@`
(`UserRead`), host and port.

### Headers, handshake, TLS

`HeadersReadBack` covers every 64-bit integer and every size: lemmas read big-endian
bytes of each width back (`Unsigned1` to the signed eight), and then each range of
`pack_header`, `pack_int` and `bytes_header` against the Reader's markers. It showed that
the Reader's table had been modelled by a CASE whose guards overlapped, for
which TLA+ fixes no value; `Number` now takes the first guard that holds, as a `match`
does. `AgreesOnHighest` needs that a bounded set of minors has a greatest, and goes through
the slots of `client_hello`. `TrustIsAsAsked` needs that `build` leaves the builder alone, and
that no pinned PEM is without a certificate, or else a pin could vanish and the roots take
its place.

### Only model-checked

- Liveness (`OperationsEnd`, `CloseFailsWaiters`, `CheckoutEnds`, `WaitersServed`,
  `AcquireEnds`, `CloseQuiesces`, `ExecuteEnds`, `Delivered`): fairness and ENABLED are
  beyond the prover.
- `RoundTrip`, `CutRefused`, `ConvertRoundTrip`, `RowRoundTrip`: their operators are recursive
  over values and types of any depth.

## Not modelled

- `view.rs`, accessors that select the fields of a structure by position, and the crate
  root: no state, no order and no decision.
- The contents of queries, parameters and metadata, except PULL's `n` and
  `has_more`, and bookmarks. A `qid` selects the statement of the stream that carries
  it; the borrow rules leave one stream at a time, so the last statement is always meant.
- Time: deadlines, expiry, ttl and delays are choices.
- UTF-8 beyond ASCII (any byte from 128 up is refused) and the contents of floats, of
  which `Convert` tells only whether an f32 holds them.
- Which name a certificate is for (that a name is none is `InvalidName`), its dates, and chains longer than one issuer; the cryptography.
  rustls, webpki, serde's derived code, tokio's semaphore and the server are external:
  what the code relies on.

## Plan

1. Done: `Connection`, `Pool`, `RoutedPool`, `ManagedTx`, `Framing` with `MessageQueue`,
   and the parts without state.
2. Done: proofs of the safety properties of the session, the pools, managed
   transactions, framing and its refinement, the headers, URIs, the handshake and TLS trust.
3. `Session`: an abstract specification of a session (a request is answered by its own
   reply, or not at all), implemented by `Connection`, with its refinement proved from
   `PendingCountsOwed` and `InvStale`.
4. `RoundTrip` for values of any depth, with `PackStream` written over recursive functions,
   along the lines of `FramingProofs`.
