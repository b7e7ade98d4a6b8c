# A TLA+ model of the Jac server and of its JavaScript engine

This project models two bodies of code whose correctness depends on what interleaves:

- the parts of the Jac runtime (`src/jac/jaclang`) that keep a served program's data
  correct while requests, retries, workers and failures meet: the unit-of-work session and
  its store, the retry loop around every request, the outbox that delivers deferred walker
  spawns, and the scheduler of static tasks;
- the JavaScript library of the engine (`src/jac/js_engine/engine/src/builtins/js`) that
  runs client code and Node programs: streams, fetch, sockets, HTTP, WebSockets, events,
  promises, typed arrays and the text and name functions they stand on.

`PROJECT.json` lists every component with its status, every definition with the lines it
translates, every hazard with the line at which it bites, and every run.

## The system

A Jac server runs each request as a *unit of work*. The request's context holds a
`Session` (`server/session.jac`), an in-memory graph of anchors over one connection of
the anchor store (`PgStore`, `data/impl/store.impl.jac`). The body (a walker or a
function) reads and writes anchors in memory; the session opens a transaction at the
first statement, flushes dirty anchors before every read, and commits at the end. When
PostgreSQL refuses a transaction, the session replays its write set; when an upsert finds
another version than it presents, it raises `WriteConflict` and the retry loop
(`_run_function_with_occ`, `server/impl/server.impl.jac`) aborts the session, waits for
its turn on the contended rows and runs the body again. A body may put other rows in the
same transaction: `enqueue` writes a row of the outbox there, which worker threads of any
server process deliver later over HTTP, at least once. Each server process also runs a
loop over its static tasks; replicas agree on who runs a tick by rows of `kv_state` in the
same database.

The JavaScript engine runs one program on one thread. Native bridges (sockets, polls,
timers, compression) call back into the event loop (`vm/event_loop.jac`), which runs one
call to completion, then the `nextTick` queue and the promise reactions. The library's
modules are JavaScript: they call the program's callbacks in the middle of their own
functions, and the program calls them again from there. That re-entrancy, and answers of
the outside that arrive after the question has lost its sense, are what is hard in them.

### Inventory: the server

| Component | State | Operations | Interacts with | Hard behaviour | What makes it correct |
|---|---|---|---|---|---|
| Row ledger (`server/session.jac`) | committed, upserted, removed rows, joined flag | loaded, upserted, removed, promote, discard, forget | its session | outlives the transaction it describes | never counts a write no transaction holds |
| Session (`server/impl/session.impl.jac`) | transaction, memory, dirty/deleted sets, lost flag, unit stack, read tier, queue | get, flush, read_barrier, commit, abort, wait_turn, unit_enter/exit | store, retry loop, outbox | dead transactions, replay, swallowed errors, read-only snapshots | answered writes are stored; no lost update; joined work is all or nothing |
| Store (`data/impl/store.impl.jac`) | rows with versions, locks | upsert, delete, load, begin/commit | sessions | serialization failures, lock timeouts, lost connections | version check |
| Retry loop (`server/impl/server.impl.jac`) | attempt counts | run, re-run, answer | session | three kinds of retry with different budgets | one run of the body counts; every request is answered |
| Outbox (`server/impl/outbox.impl.jac`) | rows by key, remembered keys | enqueue, list, claim, deliver, update, prune | requests, receivers | crashes, leases, duplicated deliveries, stale clocks | nothing lost, nothing run twice, everything settles |
| Receiver (`server/endpoints/impl/walkers.impl.jac`) | remembered answers | replay, run, remember | outbox workers | overlapping duplicates | duplicates answered, not run |
| Static scheduler (`server/impl/task_scheduler.impl.jac`) | next tick, run holds, runs in flight, keepers | due, hold, claim tick, launch, renew, release, drain, stop | `kv_state` | two replicas, lost holds, stop during launch, clocks set back | a tick is run once, a run keeps its hold, stop leaves nothing behind |
| Dynamic scheduler, state backends, rate limiter, RPC and breaker, event streams, WebSocket connections, connection pool | | | | | not modelled: see below |

### Inventory: the JavaScript library

| Component | State | Operations | Hard behaviour | What makes it correct |
|---|---|---|---|---|
| Streams (`stream.js`) | buffers, flags of both halves, pipes, listeners | push, read, write, end, destroy, pipe, pipeline, eos | one handler runs in the middle of another; hooks that answer at once or later | chunks arrive in order and complete; one answer |
| fetch (`fetch.js`) | pool of connections, abort signals, body streams | connect, send, read, redirect, abort, release | late connections, kept sockets, aborts during a read | the answer is to one's own request; a socket has one owner; every fetch settles once |
| Sockets (`net.js`) | write queue, read loop, connection count, block list | connect, write, end, destroy, accept, close | callbacks between a flush and its end | every write is called back once, events in order |
| HTTP (`http.js`, `http_core.js`, `http_server.js`) | agent's pool, a connection's exchanges and timers, blocking calls | request, reuse, free, respond, upgrade, timeout | requests sent before the last is answered, sockets that die in the pool, handlers that serve | each request answered once on a live socket, each message its own body and end, bodies framed |
| HTTP/2 (`http2.js`) | sessions and streams of both ends | request, respond, trailers, close, destroy | events of one read against listeners | events ordered, bodies whole, sessions end |
| WebSockets (`websocket.js`, `websocket_server.js`) | read buffers, ready state | handshake, send, ping, close, terminate | frames cut anywhere, closes that cross | messages once and in order, both ends agree |
| Datagrams (`dgram.js`) | bind and connect state, timers | bind, connect, send, receive, close | late callbacks | what arrives is heard, nothing after 'close' |
| Events and context (`events.js`, `event_target.js`, `diagnostics_channel.js`, `async_hooks.js`) | listener arrays, dispatches, resource stack | on, once, off, emit, dispatch, run, enterWith | listeners that change the list being called | who is called, how often, in what context |
| Workers (`worker_threads.js`) | queues of ports, a worker's state | post, drain, terminate, exit | listeners that close or leave within a drain | messages in order, one exit |
| Language library (`builtins_stubs.js`) | iterators, counters of combinators, waiter lists, disposal stacks | helpers, `Promise.all`..., `waitAsync`, `dispose`, RegExp, set methods | the program's callbacks throw or call again | closed once, right result, reverse order |
| Binary data (`binary_types.js`) | blocks, views | TypedArray and ArrayBuffer methods, DataView, codecs | the program resizes or detaches within a call | nothing read or written outside a view |
| Buffers, text, names (`buffer.js`, `string_decoder.js`, `text_codec.js`, `path.js`, `querystring.js`, `punycode.js`, `url.js`) | a decoder's rest, a URL and its parameters | encode, decode, find, resolve, set | chunks cut anywhere; two objects that write each other | same as the reference function; URL and parameters in step |

## The modules

| Module | Models |
|---|---|
| `Store` | one connection: a transaction is its snapshot, its writes, its predicate and row locks; what PostgreSQL answers to an upsert, a delete, a commit |
| `Session` | `obj RowLedger` and `obj Session`: a ledger and a session are records, a method is an operator from sessions to (sets of) sessions |
| `Requests` | the retry loop, an arbitrary body and the session's commit, for a set of requests that interleave at every database statement |
| `SessionProofs`, `RequestsProofs` | theorems about `Session` and `Requests` |
| `Outbox`, `OutboxProofs` | the table, the workers' delivery passes, the receiver, time; theorems |
| `Scheduler` | the loop of a static task in every replica, its holds and claims; with its theorems, of which `MCOutbox` has the instance |
| `EventLoop` | one call at a time, the calls it makes, the tick queue and the reactions |
| `Streams`, `Transfer` | `stream.js`, with a theorem; what `pipeline()` promises, which `Streams` implements |
| `Fetch`, `FetchProofs` | `fetch.js`: hops, pool, signals, framings, body streams; what is proved of it |
| `WebSockets`, `HttpAgent`, `HttpServer`, `BlockingServer`, `Http2`, `Datagrams` | the other clients and servers |
| `Sockets` | a `Socket` and the accept loop of a `Server` |
| `Iterators`, `Combinators`, `Waiters`, `Disposables`, `Regex`, `SetMethods` | `builtins_stubs.js` |
| `TypedArrays`, `BinaryCodecs` | `binary_types.js` |
| `Emitters`, `EventTargets`, `Channels`, `AsyncContext`, `Ports` | modules that call the program back |
| `Computations` | the frame of functions that keep no state: a question, its answer |
| `Buffers`, `StringDecoder`, `Names`, `Addresses`, `HttpText`, `Urls` | text, paths, addresses, heads and headers, URLs |
| `MCRequests`, `MCOutbox`, `MCStreams`, `MCNetwork`, `MCBuiltins`, `MCPlatform` | instances for TLC |

`Requests` EXTENDS `Session` EXTENDS `Store`. The outbox's `Enqueue`
is the commit of a request whose body did `Join`: `JoinedOrNothing` is the guarantee of
the one that the other assumes. `Streams` and `Fetch` EXTEND `EventLoop`; `StringDecoder`
uses the codecs of `Buffers`, and `Streams` has `Transfer` as the specification it refines.

Modules that share nothing are checked in one run, one at a time. `MCNetwork`,
`MCBuiltins` and `MCPlatform` (which has the streams of `MCStreams` as one of its parts) take
as initial states those of each part, with the others idle, and `MCOutbox` those of the outbox or of the scheduler; a variable `part`, or the
idle values, say which part is at work, and a step is a step of that part. The states of
such a run are the disjoint union of the parts' states, not their product.

### State and actions of `Requests`

`rows` is the committed table, `ses[s]` the session and `req[s]` the place of request
`s`'s coroutine: `body` (between two calls of the body), `call` (a read that is being
tried again), `raised` (an exception on its way through the body), `commit` and
`committing` (`Session.commit` before and after its flush), `exit` (`unit_exit`),
`handle` (the `except` clauses of the loop), `turn`, `pin` (`wait_turn`), `reload` (the
next attempt resolves the root), `closing`, `done`. Every action is a statement of the
database or a stretch of code between two. A body is any sequence of reads, scans,
writes, in-place mutations, creates after a scan that found nothing, deletes, joined
statements, ends of walks, failures and swallowed exceptions; a configuration's
`Bodies` lists the walkers, and a behaviour is about requests of one of them.
`landed`, `Anchor.base`, `req.want` and `req.joins` are history, read by the properties
only.

Contents are distinct per write, so a hash comparison is an equality. Everything the
database decides of its own accord (`fault`) is one database error of the class the code
calls a serialization conflict, at any statement.

### State and actions of `Outbox`

`box` is `jac_outbox` by idempotency key, `seen` is `jac_outbox_seen`, `workers[w]` one
delivery pass with the clock reading it began with, the copies it listed and the item in
hand, `calls` the deliveries under way at the receiver. Clock readings are kept relative
to now: `wait` is `next_attempt_at - now`, so the reachable states are finite without a
bound on time itself. `Prompt` states the assumption under which documentation and code
agree: a due row is tried soon, a delivery ends before its row is due again, and a
receiver does not die between its commit and its `remember`.

### State and actions of `Scheduler`

`lease` and `claimed` are the two rows of `kv_state` (`lease:sched-run:...` and
`tick:sched:...`), `phase[r]` and `life[r]` the process of replica `r`, `loop[r]` the place
of its `_run_loop`, `flight[r]` the thread in `_in_flight`, `keeper[r]` the thread that
renews the hold. What remains of a hold is counted down, the clock itself stops at
`MaxTime`. The loop looks for the task that is due, takes the hold, claims the tick, starts
the run and moves on to the next tick; the run releases its hold after it has joined its
keeper. `drain`, `stop` (whose budget may run out), a process that exits or crashes and is
replaced, a database error at any statement, a thread that cannot be started and a clock
set back by an interval are actions of their own. `slow`, `missed`, `lapsed`, `erred` and
`ran` are history, read by the properties only.

### State and actions of the JavaScript modules

`EventLoop` keeps `stack`, the call that runs with what its callers have left to do, and
the queues of ticks and reactions. In `Streams` and `Fetch` each function of the source is
one call, `emit` pushes the listeners on the stack, and the fields of a stream, a socket or
a body are the record the code calls `this._...`. The other modules inline what is atomic:
an action is a handler, from where the outside or the program calls it to where it returns
or calls the program back; a callback of the program is a state in which any of the
program's actions may be taken (`frames` of `Emitters`, `dispatches` of `EventTargets`,
`now` of `Sockets`, `at` of `Ports`). Names of fields and functions are those of the source.

The kernel and the bridges are external: they answer what they are asked, in any order they
may, and cut what they send anywhere. A frame or a head on the wire is one or two cells, so
a read can end within it; a chunk is its number, so order and loss can be seen.

`Computations` holds functions without state. A question is an initial state, its one
action the answer, and the property compares the answer with a definition that does not
look at the code: decoding what was encoded, searching by trying every place, the path as a
walk. The sets of questions are all small texts over the characters the function treats
differently.

`Streams` refines `Transfer` by mapping the chunks its last stream was given to `moved`,
what the callback was called with to `result` and a `destroy()` of the application to
`givenUp`; `ImplementsTransfer` is the instance's specification as a property.

#### Behaviour left out by a `...Faults` constant

In some places the code does what breaks a property although no document of the
repository promises otherwise. They are in the models, each behind a name in a constant,
and the passing runs leave them out (the constant is the
empty set); adding the name to the set shows them. `Fetch`'s `Faults` is what the outside
may do, of which `network` has a refused connection, an abort and the end of an idle one. Three
choices of the instances belong here too: `Whole = TRUE` (the end of a chunked body comes in
one segment; otherwise its rest is read as the next answer), a signal for each fetch (of
fetches that share one, an abort reaches every second), and no source that pushes within
`_read` into a Transform (`MCEager`: its first chunk is lost).

| Constant | Names |
|---|---|
| `Faults` (`Fetch`) | `cut`: a connection ends within a body, which closes the body's stream as if it were whole; `late`: an abort while the body is read, after which the socket is kept with the rest of the answer on its way |
| `SocketFaults` | `late`: callbacks of a flush are lost when a later entry fails; `early`: a `destroy()` while connecting leaks the handle; `failed`: a second 'close' after a failed connect; `callback`: 'finish' after 'close' |
| `WsFaults` | `early`, `late`: `close()` or `terminate()` while connecting, or after a read has its data; `buffered`: a listener closes with frames left in the buffer; `eof`: a connection cut while closing; `upgrade`: the server closes while it reads a request |
| `AgentFaults` | `queued`, `stale`, `cut`, `dead`: a request destroyed in the queue or after its response, a server that closes first, `end()` on a dead socket |
| `ServerFaults` | `merged`, `late`, `several`: bodies mixed by the loop's shared variables when a chunk goes past the end of a request, a header changed after the head, a 'close' per connection |
| `BlockingFaults` | `nested`, `refused`, `throwing`: a nested call overwrites `_pendingUpgrade` |
| `Http2Faults` | `twice`, `bare`, `within`, `late`, `early`, `closing`, `cancelled`, `unsent`, `cut` |
| `DatagramFaults` | `unread`: a failed read is never asked again; `full`: a `close()` loses the callback of a send that waits; `late`, `silent`: 'error' after 'close' |
| `EmitterFaults`, `TargetFaults` | listeners for once called twice or left by a throw in nested emits; an array emptied within an emit; a listener added again under an old signal |
| `ContextFaults` | `same`, `again`, `reenter`, `exit`, `clearSelf`: contexts not put back, a timeout destroyed twice |
| `PortFaults` | `leaving`: the rest of a queue is dropped when the last listener leaves; `away`, `deaf`, `within`, `failed` |
| `UrlFaults` | `href`: parts the new one lacks are kept; `old`: a replaced `searchParams` still writes the URL |
| `BinaryFaults` | `slice`, `transfer`: a length measured before the arguments were converted |

Of functions without state, questions are chosen around what is known: `isIP` rejects
`::1.2.3.4` and takes wrong numbers of groups, `_ipv4ToInt` reads `1e2` and `0x1`, an IPv6
rule with a dotted tail blocks that IPv4 address, a setting of `Infinity` passes its limit,
a `*ba` entry of the
proxy exceptions matches host `a`, `_bufferFromStringChunked` does not clamp its end,
`toString("utf16le")` reads latin1, and a `StringDecoder` given invalid UTF-8 answers
differently by chunking. The models have these as the code does, and the properties say
where they do not apply (`CutText`, `Paired`, `Given`, the sets of `MCPlatform`).

## What is checked

The largest run, `two_rows`, has a million states; with two workers none needs more than two
minutes.

| Run | Instance | Shows |
|---|---|---|
| `one_row` | 2 requests, a row and one that may be created, 2 calls, 3 attempts, 1 fault; a walker that joins statements, changes values in place, fails and swallows, one that deletes, joins and commits at the end of a walk, and a find-or-create; COMMITs whose answer is lost | an ok answer means everything landed; nothing left at close; no update is lost; the holder of the turn wins |
| `two_rows` | 2 requests of a read-tier walker, 2 rows, 3 calls, 2 attempts, 1 fault; in-place changes and swallowed exceptions, a response that reads, or joined statements | types; no write counted that is not in the transaction; one run of each body lands; joined or nothing; no write is committed by a snapshot |
| `answers` | fairness, read tier, walk ends, response reads, joined statements | every request is answered |
| `outbox_prompt` | outbox: 2 workers, 2 calls, 2 rows (two keys, or one key twice), 1 fault, prompt; scheduler: 2 replicas of which one may leave, 6 ticks of the clock, 1 failure, 1 restart | types; one run per message; delivered stays delivered; a tick runs once, a run keeps and gives back its hold, `stop` leaves none |
| `outbox_slow` | 1 row, 2 workers, 3 attempts, 1 fault, any delay, fairness | attempts counted were made; no message is lost; every message is delivered or dead in the end |
| `network` | 2 fetches over plain, chunked, compressed, closing, HTTP/2 and redirected answers, 4 connections, one kept; and each of the other six parts, of which the server's has 2 requests sent at any time | own answer, one owner, settles once, whole body, aborts reach; messages, pools, frames and timers of the others |
| `builtins` | every kind of helper, combinator and disposal with a fault at each place; every match table over texts of up to three characters; typed arrays of 4 bytes under 2 changes; a socket with two writes and a server with two peers | closed once; right results and codes; memory untouched outside; sockets; everything pending settles |
| `platform` | pipelines of two and three streams, an async iterator, a writer; 4 chunks, buffers of 4, 2 failures or destroys; every timing of the hooks; every small text, path, query, label, address, head and URL; 2 listeners added and 2 emits or dispatches, 2 resources, two ports with 1 to 2 messages | order, one answer, back-pressure, `Transfer`, and that a stream settles; text and names as their references; who is called back, how often and in which context |

Four runs expect a violation: a place where a document, or a comment, and the code disagree.

| Run | The document says | The code does |
|---|---|---|
| `converge` | racing find-or-creates converge | the write set is replayed, the body is not |
| `snapshots` | the first time a unit on the read tier writes, the request is re-run at SERIALIZABLE | the commit at the end of a walk ends the read-only snapshot and keeps its reads; the write after it opens a SERIALIZABLE transaction and commits over them |
| `drained` | `resume()` just to finish a message still brings its 'end' | called before the body has come it does nothing; the body then waits for a listener, and 'end' behind it |
| `slow_sink` | the streams are Node's, whose pipeline succeeds when all is written | a Transform's 'finish' closes it while chunks wait for a slow sink; the close ends the sink, and the pipeline reports success |

Behaviour the code has and no property denies is listed among the hazards with a note: a
replayed DELETE carries no version, the end of a walk may have committed what a later
refusal does not take back, a claim whose answer is lost spends its tick, and so on. Where
a property listed with a hazard does not catch it, or catches a part, the note says that too.

Of a server's connection `network` claims less than HTTP asks of one. The code puts no
response in the order of its request, keeps no two apart that are written at the same time,
and lets the first that finishes stop the timer of the others and start the idle one: what
holds, whenever the client sends, is that each message gets its own body and one end, that
the bytes of each response say its end and hold what was written, and that each finishes as
its own request asked; and the timers are right as long as no request comes while a response
is due (`overlapped`).

A run that says `CHECK_DEADLOCK FALSE` is of a program that ends: the streams have
settled, the fetches and connections of `network` are closed, a part of `builtins` or
`platform` has answered, the scheduler's clock has reached `MaxTime`. That they do not stop
too early is `StreamsSettle`, `Settles` and `LibrarySettles`, or an invariant of the states
in which nothing is left to do (`HandleClosed`, `SessionsSettle`).

### Bounds

Requests: `MaxOps` calls per run of a body, `MaxAttempts`, `MaxRetries`, `MaxFaults`,
`MaxRuns = MaxAttempts + 2` (the read tier gives two attempts back). Two requests and one
or two rows are enough for every race between a read, a write and a commit. Two calls
(read, write) make a lost update, a swallowed failure or a joined statement followed by a
write; three let two rows be written in both orders, and one be read, written and joined to.
Two attempts make a re-run, three a re-run that has waited its turn and meets another
request. Three requests (a queue with a waiter behind the holder) are beyond these
runs.

Outbox: two workers (one stale), two calls at the receiver (one orphaned), a lease of two
ticks (one can pass inside it), and `MaxPass` below the lease (prompt) or at it (a pass as
old as a lease). `MaxRows` is the number of rows ever made: with two, two keys have one
each, or one key is used again after its row is pruned or purged.

Scheduler: an interval and a hold of three ticks of the clock with a renewal at each: a
hold can run out, and be taken by the other replica, within one run of the task. The
horizon of six has the ticks due at 3 and 6, so a run of the first may still be under way,
its hold kept or run out, when the second is due. One failure (`MaxBlips`) can be any of: a
statement without effect, one whose answer is lost, a thread refused, a crash, a clock set
back; that two renewals fail in a row is beyond it, so `Renewed` is checked to say that
only a late process loses a hold.

Streams: four chunks and buffers of four let a buffer be empty, part full and full while
another waits; two faults make one stream fail while another is being destroyed. Fetch: two
requests and one place in the pool make every reuse; four handles let each be dialled
again; a body of two chunks can be cut between them. The other parts: two of whatever can
overlap (messages, requests, writes, listeners, calls) and one more of what is queued
behind them (the agent has three requests).

Texts: the characters are one of each class a function tells apart, and lengths (three to
six) one more than the longest unit it looks at, a four-byte character, an escape, a dot
segment.

### Fairness

`FairSpec` of `Requests` is weak fairness of each request's step: its coroutine or thread
keeps running, and the database answers or times out (`lock_timeout`), so no statement
waits forever. No fairness is assumed of the choices a step makes. `FairSpec` of `Outbox`
is weak fairness of each worker's step (the thread loops every interval), of each call
the receiver is working on, and of the clock; faults are bounded and need none.

`StreamsSpec` is weak fairness of `StreamsRun`: the event loop runs what is queued, and the
hooks of the streams call back. `FetchFair` is that of the calls of the event loop and of
the sockets' answers (a server sends what it was asked for, a poll is called back).
`builtins` has weak fairness of the iteration and reactions of a combinator, of timers, of
disposers and of the kernel's answers to a socket, and none of the program: a peer that
sends nothing and a thenable that never calls back are not pending. The parts of
`platform`, the scheduler and the six other parts of `network` are checked for safety only.

## What is proved

Each theorem is of every instance: any sets of sessions, rows, keys, workers or replicas,
any contents and bodies, any bounds. The assumptions are those named in the modules
(`ConstantsAssumption`, `NoAnchorAssumption`, `OutboxAssumption`, `NullAssumption`,
`SchedulerAssumption`, `FetchAssumption`) and, where a theorem has more, in its statement. No proof uses
induction over data. A field of a record in a function is updated as `[f EXCEPT ![k] = [f[k]
EXCEPT ...]]` throughout: the prover's translation of two updates at one key (`![k].a = ...,
![k].b = ...`) is not that of the language.

### Requests

`SessionProofs` states what the session's methods preserve, method by method; each action of
`Requests` is a lemma of `RequestsProofs`, and the methods enter only through those facts.

| Invariant | Says | Gives |
|---|---|---|
| `IInv` | `TypeOK`; `NoOrphanWrites`; `QuietIsIdle`: a request that has not begun, or waits for its turn, has nothing in flight | `TypeCorrect`, `OrphanFree` |
| `WInv` | `Served`: where a run's writes are, at each place of the request's coroutine | `NoAnswerUnlanded` (`AnsweredWritesLanded`), `ClosesClean` (`SettledClean`), `NoHalfRun`, `JoinsLandTogether` (`JoinedOrNothing`) |
| `OInv` | `Alone`: once anything of a request has landed, it is of the run at hand, which only leaves | `OneRunCounts` (`OneRunLands`) |
| `BInv` | `Based`: which row each content in memory was computed from; `Apart`: two sessions write different rows | `NoUpdateLost` (`NoLostUpdate`) |
| `HInv` | `Firm`: what a session that holds rows by `SELECT ... FOR UPDATE` has in memory; `Looked`, `Blank`: how it comes to have only that | `HoldersKeepTheirTurn` (`TurnHolderWins`) |
| `RInv` | `ReadOnly`: a session on a read-only snapshot has written nothing there, joined nothing, and its ledger has nothing in flight | `WritesSerialized` (`WritesAreSerializable`) |

*No write is counted that no transaction holds.* `NoOrphanWrites` is what `commit` relies on
when it promotes the ledger. It is not inductive: `Begin` and `Pin` open a transaction under
a ledger they do not look at, and `QuietIsIdle` is why they may.

*What is answered is committed.* While the body works, all its run wrote is committed, in
memory, or (what it joined) in the transaction, unless the session knows that it has lost it
and will refuse to commit (`Carries`, `Rides`). That helps only if a commit finds what is in
memory and nothing else; so the session's part is `Faithful`: ledger, snapshot and clean
anchors hold what is committed, and what memory, ledger and transaction hold beyond that is
the work of the run at hand (`Honest`, `Signed`); ledger and transaction agree on every row
with nothing left to flush (`Exact`); and a unit the read tier has refused writes nothing
more (`Wary`). A flush leaves the session `Flushed`; a commit that lands makes the request
`Settled`, and the places after it (`Late`) keep that. `handle` claims nothing, and a re-run
starts from a memory with committed contents only. `NoHalfRun` is the same argument at the
step: a COMMIT that lands anything of a request lands all its run has written by then.

*One run counts.* `OneRunCounts` has a hypothesis, `OneCommit`: no walk of the body ends in
a commit of its own, its response loads nothing, and no COMMIT that was applied is taken for
refused. Each is needed: with any of the three the code commits a request in two places, and
a failure between them re-runs a body of which something has landed. (`two_rows` checks
`OneRunLands` with a response that reads as well; there it holds for want of a second
fault.)

*No update is lost.* `NoLostUpdate` relates what a COMMIT replaces to a content computed
steps, transactions and attempts ago, and `BInv` says what the session remembers of it. What
the ledger calls committed is the row in the table or an earlier version of it (`Behind`),
and a cached content was computed from just that (`Rooted`); so when an upsert meets the
version it presents, the row it goes over is the one the content came from, and stays so
until the COMMIT, for the row is locked (`Ahead`). A replay rolls this back and presents
the same version again, which by then may be too old: the conflict it meets is the point.
`Builds` says of each method of the session that it keeps this, and takes no row another
has written (`Claims`). The hypothesis, `VersionsTell`, has two parts, and TLC shows
that each is needed:

- No body deletes. With three requests of which one deletes the row and a second puts it back
  from memory, the row starts over at the version it had when the third loaded it: the
  third's upsert passes, over a content it has never seen (`{"delete", "walkend"}`, one row,
  three sessions, three calls each). With two requests `one_row` checks the property, a
  body that deletes included.
- A request that makes anchors is told of its COMMIT. Otherwise it may replay over the very
  anchor it has just made, of which its memory says that it came from nothing; the content
  it replaces is its own (`{"create", "walkend"}`, four calls, two faults).

*The holder of the rows keeps them.* A request that lost a race queues for its rows, begins
a transaction that pins them, and re-runs its body in it; `TurnHolderWins` says that it does
not lose again. The locks are only half of why. A flush may also present a version that the
row no longer has, of a pinned row or of any other; and `HInv` says that a holder has no such
version. It aborted before it queued (`Blank`), so all it has in memory since was loaded or
written in the transaction that pins, and the version it presents of a row is the one this
transaction sees, or has written (`Firm`). A row that another has changed since then is
refused as a serialization failure before its version is looked at, and a serialization
failure costs the transaction and its pins, which makes it a transient error and no
conflict (`lock_timeout` too, of a session that has queued). What the body makes has no row
that this transaction sees, because its scan, which saw none, was of the same transaction
(`Looked`). `Calm` and `Wins` say this of each method of the session, those that send no
statement of a flush and those that do. The theorem has no hypothesis: bodies that swallow
failures, delete, end walks or lose the answer to a COMMIT are all in it, and what is proved
is more than the property says: while its transaction holds rows a session meets no conflict
at all (`HoldersWin`).

*Writes are SERIALIZABLE.* On the read tier a session reads from a read-only snapshot, whose
reads SERIALIZABLE does not track. `WritesSerialized` says that no write and no joined
statement is ever committed from there, and has no hypothesis. What a flush or a joined
statement finds open it must leave if it is a snapshot (`_begin_writable`), and what it
begins is SERIALIZABLE; but transactions end under the session's feet, by failures the body
swallows and by commits at the end of a walk, and the next read may begin a snapshot under a
ledger that still describes the last one. So the invariant is of both: on a snapshot nothing
is in the transaction and nothing in flight in the ledger (`ReadOnly`).
`_reclaim_dead_txn` raises `lost` where a ledger outlives its transaction
(`ReclaimReadOnly`), a snapshot begins only where nothing is dirty (`EnsureReadOnly`), a
flush that writes has left the snapshot before its first statement (`FlushReadOnly`), and at
the COMMIT what lands is what the transaction holds (`LandsWritable`, with `WInv`).

It does not say that what is written was not computed from a snapshot's reads. That is what
the documentation promises and the code does not keep: snapshot reads are dropped, or the
request re-run, only while the open transaction is that snapshot, and the commit at the end
of a walk ends it (run `snapshots`; a failed read that the body swallows does too).

### Outbox

`OutboxTypes` (`TypeOK`), `Attempts` (`AttemptsWereMade`) and `NothingLost`
(`NoMessageLost`) hold with or without prompt deliveries, of either kind of receiver. They
follow from `OutboxInv`: `TypeOK`; `InHand` (a worker between claim and update holds an
item, and the delivery it waits for is of that item and its only one); `Counted` (a row, a
listed copy and the copy in hand count at most the deliveries begun, and what is to be tried
has an attempt left); `RanFirst` (a row marked delivered, a remembered key, a delivery whose
walker ran and an outcome "ok" in a worker's hand each come after a run). `AttemptsWereMade`
alone is not inductive: `Update` writes the count of a copy listed long ago, so the copies
must be in the invariant; and which copy an answer settles is what `InHand` is for.
`RanFirst` is what makes `Prune` safe although `Update` goes by id alone. No step of the
argument reads a clock.

Two more need the clock, and say so:

- `StaysSettled` (`DeliveredStays`) assumes `Timely`: `Prompt`, and `Lease > MaxPass`. Its
  invariant `Alone`: a message is in the hand of one worker and in one delivery, and while
  it is, its row is open and not yet due, so that no claim succeeds. It is re-established by
  the claim (the lease, less the age of the pass's clock reading, is positive: `MaxPass`)
  and by the update (the backoff is at least a second: `BackoffPositive`), and time cannot
  break it where a row in hand does not fall due (`Prompt`).
- `RunOnlyOnce` (`RunsOnce`) assumes also that the receiver is remote (`~ InProcess`: a
  colocated one never sees the key) and, of the behaviour, `KeysOutlast`: a key is not
  forgotten while its message has run and may yet be received. In the code a key is kept a
  week, and a message is open for the backoffs of its attempts, which are minutes; that sum
  over attempts is arithmetic over a history the model does not keep, so the theorem takes
  it as a hypothesis and the run `outbox_prompt`, in which it holds, checks the property
  without it. Its invariant `Once`: a message that ran is remembered, or about to be, while
  it may yet be received.

### Static scheduler

`TasksHeld` is the whole of `TaskHeld`, from `TicksRunOnce`, `HoldsKept`, `RenewalsKeep` and
`NothingLeft`; `RunsAlone` says that two replicas run the task at once only if the hold of
one has run out. `MCOutbox!TaskAlwaysHeld` lifts it to the module the run checks.
`SchedulerAssumption`: the numbers are positive, the value for "no owner" is no owner, and a
hold lasts at least three beats (`_keep_hold` waits `hold_ttl / 3`).

- `IInv`: `TypeInv`; `OneAtATime` (while its loop goes after a tick, a process has no run);
  `ClaimsOnce` (of a tick, the runs made and the claims that are still to become a run are
  at most one, and none of a tick beyond what is claimed). `TickOnce` is not inductive: what
  stops the second run is the claim, made by another process than the one that ran. The
  clock may be set back, so the argument reads `claimed` and never `time`.
- `HoldInv` extends `HoldKept` to the states between the hold's answer and the launch.
- `LeaveInv`: `BeatInv` (the hold of a process in time, with at most one renewal failed, has
  left what the beats it waited for, and the one that failed, leave of its ttl: two beats of
  three, which is why one failure is made up for and two are not); `KeeperInv` and `TidyInv`
  (where a keeper is, which lives a hold may name, and what a process that has joined its
  loop still has).

### fetch()

`SettledOnce` (`SettlesOnce`) has no hypothesis but `FetchAssumption`: signals may be shared,
and any of the faults may happen, those that the run leaves out too. A promise has one
`done` only if nobody goes on with a fetch that somebody else goes on with already, and six
functions go on with one (`Settling`). `SettleInv` says that of the calls on the stack at
most one does so for a fetch, and that the fetch is then in neither of the places from which
the outside, or an abort, could start another: it has left `connecting` and `headers`, whose
guards `_abortNow`, the answer of a connection and the reading of the head share (`Due`).
`LoopInv` adds that a reaction only ever reads a body on. `GoesOn` and `Begins` are the two
ways a fetch is taken on; each action is one of them, or leaves every fetch aside (`Aside`).

`PoolIsKept` (`PoolKept`: one owner of a socket, a limit to the idle ones) rests on the same
two and on three more. What can go wrong is that a socket is given back twice, to be lent to
two fetches, or that a body starts with a socket somebody else still reads from; both are
about who is going to call what:

- `KnownInv`: what is called is about a fetch and a signal there are (`SignalInv`: listeners
  are fetches), and no call of `onDone` leaves its body open.
- `ReadInv`: a body is read by one loop at most. Of the calls on the stack one at most reads
  a body (`ThreadInv`), only while the body is open and no read of its socket is under way,
  and a read is under way only of an open body (`BodyInv`): so `onDone` runs once for a body,
  and the socket is given back once. That `_buildStreamingResponse` never replaces a body is
  `HopInv`: a body of the hop a fetch is at exists only if the fetch is settled or about to be
  answered or redirected, and the function that reads a head is called only before that.
- `PoolInv`: fetches, open bodies and the pool's list share no socket, hold none twice, and
  what they hold is open (`Sole`); the timers are those of the listed sockets; and for every
  origin, whatever it is, no more than `MaxFree` are idle (`IdleKept`).

Most actions move no socket (`Aloof`); of the seven that do, `FetchOne` and `Connected` take
one nobody holds, `BuildStreamingResponse` passes it from the fetch to the body, `AbortNow`
and `Evict` close it, and `OnDone` and `H2Done` give it back (`Released`), when the count of
idle ones is what `freeCount` finds in the list (`IdleCount`: places and sockets are as many).

`AbortAlwaysReaches` (`AbortReaches`) assumes that no two fetches share a signal. Of those
that do some are not told: `_fire` goes through the list of listeners by index while each
takes itself out of it. `AloneIsReached` is therefore stated of each fetch that has its
signal for itself, whatever the others do, and needs no assumption. What an abort could miss
is a fetch that does not listen yet, or no longer, while it waits:

- `ListenInv`: the listeners of a signal are the fetches that wait (`connecting`, `headers`),
  each once. Every step that begins or ends a wait changes the list with it (`Moves`,
  `CalledMoves`, `EnteredMoves`).
- `AbortInv`: no hop that is about to begin has an aborted signal, since `_fetchFollow` looks
  and nothing comes between; and for a fetch that waits although its signal is aborted the
  call that ends the wait is on the stack (`Reaches`): `_fire` at its first listener, or
  `_abortNow`. When nothing is called any more nobody waits.

### pipeline()

`AnsweredOnce` (`OneAnswer`): of all functions only two call the callback, the one for errors
and the one for the end of the last stream, and `AnswerInv` says that each leaves behind
(`settled`) what stops both. No assumption is needed about the streams or their hooks.

### Only model-checked

Every safety property the passing runs check of `Requests` is stated by a theorem:
`OneRunLands` and `NoLostUpdate` under hypotheses without which they do not hold, the others
of every body. Of the JavaScript modules, all but `SettlesOnce`,
`PoolKept`, `AbortReaches` and `OneAnswer` are only model-checked: most states are built with
recursive functions over sequences, `SelectSeq` and operators of the community modules, of
which the provers know nothing, or need induction over data. Liveness (`Answered`,
`Settles`, `StreamsSettle`, `LibrarySettles`) stays with TLC: ENABLED is out of the prover's
reach.

## What the model leaves out

Of the session and store: request pool and threads (each request has its own session),
nested units and middleware read scopes (with them the branch of `_begin_writable` that
drops snapshot reads, which no run reaches), the hop cache, sealed scans, frozen fields,
edges as rows, type index, quarantine of unreadable rows, write permission checks. The
root's row is constant. `Begin` takes its snapshot with the transaction although
PostgreSQL takes it with the first statement; a barrier's flush and the load after it are
one step. The serialization error is raised at COMMIT only, by the pivot test of
`Store!Pivot`; PostgreSQL may raise it earlier, which is a fault here. Of the loop:
streaming responses, `on_conflict = fail` (`MaxAttempts = 1`), backoff sleeps,
`on_commit` callbacks.

Of the outbox: order among rows due at the same time, the process-local LRU over
`jac_outbox_seen` (same key, same expiry), expired rows of `jac_outbox_seen` (absence and
expiry are the same answer), `next_attempt_at` of a settled row (never read), the choice
between SQLite and PostgreSQL, hashing and scoping of keys, `older_than_s` of
`purge_dead`. An enqueue that finds a row, whatever its status, changes nothing.

Of the scheduler: cron expressions and dates, several tasks in one loop (they share its
thread: a slow statement for one delays the others), tasks registered later, and a server
without a database, in which a tick of a clock set back runs again.

Of the JavaScript library: what only installs names and descriptors, validates or overloads
arguments, formats, or wraps a native call. Streams are in object mode, without cork,
compose, the iterator helpers and AbortSignal. Fetch is without proxies, Blob, FormData and
the table of headers. Sockets are without happy eyeballs and timeouts. HTTP is without
proxies, cookies and trailers, several origins under one limit; HTTP/2 without flow
control, ping and pushes, secure connections. WebSockets are without sub-protocols and
continuation frames, whose `fin` bit neither side reads. Ports are without cloning and
locks. Nobody listens for an emitter's 'newListener' and 'removeListener', which are emitted
before and after the list changes.

### Not modelled

- *Dynamic scheduler, state backends, rate limiter.* Their tick claims and leases are those
  the static scheduler uses, which are modelled there; a job store and counters per window
  add little that interleaves.
- *RPC and breaker, event streams, WebSocket connections and backplane, connection pool,
  shared key-value store*: shared state of the scale layer, for want of room.
- *HTTP server, middleware, identity, hot reload, gateway, deployment and external
  services*: wiring and I/O without shared persistent state of their own beyond the store.
- *Compilers, SQL compilation, serializer, language server, command line, LLM runtime*:
  sequential translations or tools.
- *The engine's virtual machine, parser, collector, native bridges and package manager*:
  the models stand on the language as its specification has it; bridges are external.
- *File system, utilities, processes, TLS, ciphers, compression, web streams, domains,
  timers*: calls into the system, formatting, or (web streams, domains, timers) left for
  want of room.

What would come next: a third request in the queue of `Requests`; the pool and the
circuit breaker, each with a theorem; the web streams as a second refinement of
`Transfer`.
