# TLA+ models of the multithreaded web server

This directory holds TLA+ specifications of the server in `src/`, the TLC
configurations that check them, and TLAPS proofs of what they check, for both event
loops, the connection handler, the parser, the logger and the services behind them.
File and line references are to the repository.

    tlc -workers 4 -config PoolLoop_sweep.cfg MCPoolLoop     # one run
    tlapm PoolLoopProofs.tla                                 # the proofs of one module

## 1. Inventory of the system

| part | state | operations | shared with |
|---|---|---|---|
| `PoolLoop` (pool_loop.cpp) | table `connections`, `workQueue`, `running`, three descriptors, `busy` per connection | `run`, `acceptLoop`, `workerLoop`, `handleEvent`, `rearm`, `closeConnection`, `sweepIdleConnections`, `stop` | epoll thread, N workers, signal handler: two mutexes, one condition variable, one atomic |
| `ReactorLoop` (reactor_loop.cpp) | per reactor: listener, epoll, eventfd, table; `running` | `setupReactor`, `run`, `reactorLoop`, `closeConnection`, `sweepIdleConnections`, `stop` | only `running`, the eventfds and the process' descriptor numbers |
| `ConnectionHandler` (connection_handler.cpp) | a `Connection`: buffers, parser, `closeAfterWrite`, `lastActive` | `onReadable`, `onWritable`, `flush`, `appendResponse` | called by both loops, answers WaitRead, WaitWrite or Close |
| `RequestParser` (http.cpp) | `state`, `contentLength`, `headerBytes`, the request | `parse`, `reset` | one per connection |
| `Logger` (logger.cpp) | queue, `running`, file | `log`, `drainLoop`, constructor, destructor | every thread: one mutex, one condition variable |
| `Metrics` (metrics.cpp) | relaxed atomic counters, latency buckets | `recordRequest`, `connectionOpened`, `connectionClosed`, `percentile`, `toJson` | every thread |
| `LRUCache`, `FileManager` | list, index, hit and miss counts | `get`, `put`, `readFile` | every worker: one mutex |
| `KvStore` (api.cpp) | map of at most `maxEntries` keys | `list`, `get`, `put`, `remove` | every worker: one mutex |
| `Router`, `StaticFileHandler`, HTTP responses | constant after start | `route`, `resolve`, accessors | every worker, read-only |
| `main`, utils.cpp | `g_loop`, `config` | options, routes, `handleSignal` | installs the signal handlers before `run` |

What is hard here, and what correctness means for it:

* **Descriptor numbers are names that the kernel reuses at once.** Events, the
  table and the sweep all speak of connections by number. Correct: no number is
  closed twice or leaked, and nobody acts on a stranger's socket.
* **Three parties close connections in pool mode** (a worker, the sweep, stop) and
  metrics are updated next to each of them. Correct: exactly one of them closes.
* **EPOLLONESHOT is the only lock on a connection.** Correct: one worker at a time,
  and a disarmed connection is always rearmed or closed.
* **stop() is a signal handler** that takes a mutex and a condition variable's
  notification without its mutex. Correct: run() returns.
* **Arbitrary chunks** in both directions. Correct: the answers do not depend on
  where the bytes are cut, nothing complete waits behind a drained socket, nothing
  is sent twice or dropped.
* **The idle sweep races with everything else.**
* **Shutdown of the logger** with lines still queued.
* **Several threads in the handlers at once**: a file is looked up, read and inserted
  in three steps while others do the same and the file changes. Correct: list and
  index agree, the most recent files are kept, an answer is a content that was on disk.
* **Counters without a lock**, read while they are updated. Correct: nothing is lost,
  and what a report can miss is bounded by the number of threads.
* **Limits and conversions of the API**: a full store, tokens at the edges of a body,
  text that is unescaped on the way in and escaped on the way out.

## 2. Modules

| module | models | run module |
|---|---|---|
| `EventLoop` | the interface `EventLoop` as the clients see it (abstract specification) | |
| `PoolLoop` | pool_loop.cpp, the signal handler of main.cpp, the gauge of metrics.cpp | `MCPoolLoop` |
| `ReactorLoop` | reactor_loop.cpp, likewise | `MCReactorLoop` |
| `ConnectionHandler` | connection_handler.cpp with one client | `MCConnectionHandler` |
| `RequestParser` | the parser of http.cpp and the parse loop of `onReadable` | `MCRequestParser` |
| `Logger` | logger.cpp | `MCLogger` |
| `Config` | the configuration of main.cpp and utils.cpp | |
| `Router` | router.cpp and the table of routes in main.cpp | |
| `FileCache` | lru_cache.cpp, and the disk behind file_manager.cpp | |
| `KvStore` | api.cpp and `queryParam` of http.cpp | |
| `Metrics` | metrics.cpp | |
| `Application` | composes the five: start-up, then handlers and recording in every thread | `MCApplication` |
| `PrefixSums` | sums along a sequence, for `RequestParser` and `Metrics` | |
| `PoolLoopProofs`, `ReactorLoopProofs`, `LoggerProofs`, `ConnectionHandlerProofs`, `RequestParserProofs` | theorems about the module of that name | |
| `ServiceProofs` | lemmas about `Config`, `FileCache` and `KvStore` alone | |
| `ApplicationProofs` | theorems about `Application` and the services | |
| `NumberLemmas` | lemmas on numbers, sums and iterations that the proofs share | |

Definitions called "Seeded fault" in the modules are not part of any
specification: each is a plausible wrong version of the definition after it and
makes a property fail when it takes its place.

### PoolLoop

A member of `Conns` is a TCP client and the `Connection` object made for it; a
member of `Fds` is a descriptor number. The kernel is `sock` (which client is behind
a number), `interest` (its epoll registration, `off` once EPOLLONESHOT has fired),
`accepted`, `stopSignalled`, `listenOpen`. The program is `running`, `connections`,
`workQueue`, `busy`, `idle` (lastActive is too old), `active` (the gauge), and one
program counter per thread of control: `mpc` for run() and acceptLoop(), `wpc` for
each worker, `hpc` for stop() in the signal handler, which freezes the epoll thread
while it runs (Linux delivers SIGINT and SIGTERM of the process to the main thread).

Each step is what another thread can see: lock-protected sections are one step unless
somebody can get in between. Those are the worker that has found its wait predicate
false and still holds `queueMutex` (`blocking`), and the epoll thread inside its
critical sections, where the signal can hit it (`inserting`, `scanning`, `erasing`).
close() and connectionClosed() are two steps in each of the three parties that close
(`Close` and `Closed`, `SweepClose` and `SweepClosed`, `StopClose` and `StopClosed`), as
accept() and connectionOpened() are: in between the number is free for the next client
and the gauge is not yet right. epoll_wait may report any subset of what is ready, in
any order; a peer may send, close or reset at any time; what the handler decides for a
connection is any of its three actions (module `ConnectionHandler` says which).
Condition variables wake up spuriously. `Expirable` names the clients that can be silent
past the timeout. A second, different signal inside the handler is not modelled: stop()
would find `running` false and return. The destructor's call of stop() finds it false
too.

### ReactorLoop

A reactor's table and epoll instance are seen by one thread only, so accept + insert
+ EPOLL_CTL_ADD (`Accept`) and erase + EPOLL_CTL_DEL + close (`CloseConnection`) are
steps with one access to what the reactors share, the numbers in `sock`. The gauge is
shared too, so connectionOpened() and connectionClosed() are steps of their own
(`Opened`, `Closed`). The early `continue` of reactor_loop.cpp:117 is no
action: `EventIsCurrent` shows that the lookup never fails.

### ConnectionHandler

Bytes are counted in units; a request is RequestUnits long and a response
ResponseUnits, the send buffer holds SndBuf. `OnReadable` is the whole handler:
recv until drained, FIN included, the parse loop, the responses, the flush and the
action returned to the loop, which becomes `interest`. `Reset` stands for EPOLLHUP,
EPOLLERR and failing system calls, `Sweep` for the loops' idle sweeps.

### RequestParser

Bytes are positions in the client's stream: a line has a length and a kind, the
limits of http.h are constants. One action per branch of the switch in parse();
`Complete` and `Error` include what onReadable does with the result. `Decided` is the
reference: what becomes of a request seen as a whole. Repeated Content-Length fields
are joined by the parser and are then no number, hence 400.

### Logger

A line is a pair of thread and rank. enqueue() is three steps (test of `running`,
push under the lock, notification), the drain thread has the test of its predicate
apart from its wait, and the destructor is called when no thread is inside
enqueue(), because run() has joined them. `pushed` is a history variable.

### Application and its parts

`Application` is what lies between `ConnectionHandler` and the shared services. Its
initial states are what main() makes of an option set: `Config` layers .env, process
environment and flags into `config`, whose `cacheCapacity` sizes the cache and whose
`threads` says how many workers may be busy at once. If a number cannot be read
main() returns and nothing is served.

A worker (`wpc`) takes a request and goes through the handler that `Router` picks,
one step per access to shared state: `KvRead`, `KvWrite`, `KvDelete` are one
critical section each; readFile() is a lookup (`FileHit`, `FileMiss`), the read
(`FileRead`, `FileAbsent`) and the insertion (`FileInsert`); toJson() is a step per
counter and per bucket (`StatsTotal`, `StatsLoad`, `StatsWalk`). The four `Count...`
actions are recordRequest(), for parser errors (`Refuse`) too. `Disk` edits and removes
files at any moment; an edit replaces the content at once.

* `FileCache`: the content of a file is a version; `used` is a history of the keys
  by last use, the reference for LRU. Capacity is converted from int to size_t
  (% 2^SizeBits), then clamped.
* `KvStore`: texts are sequences of characters of which only the ones the code
  treats differently are told apart (`Characters` holds those and any others; `Alphabet`
  in the run); a JSON body is a sequence of tokens, a form a sequence of segments. The
  loops of the conversions are recursive functions on the length that has been read,
  with one operator for a turn of the loop (`ReadCharacter`, `ReadField`,
  `ReadSegment`). `created` and `deleted` are histories.
* `Metrics`: every fetch_add and every load is a step, in program order. The
  operations are relaxed; on x86-64 a fetch_add is a locked instruction and loads keep
  their order, so program order is what the build does. On other machines
  `ReportLagBounded` and `UnfoundOnlyWhenFew` would need acquire and release.
* resolve() is the constant `Resolve`: it asks the file system.

### EventLoop, the abstract specification

Clients are new, open or closed; run() is idle, running or returned; a client is
opened and closed at most once, only while run() runs. `PoolLoop` and `ReactorLoop`
implement it through `ClientStatus` and `RunPhase` (property `ImplementsEventLoop`).

## 3. Runs

| run | shows | bounds |
|---|---|---|
| `pool_sweep` | TypeOK, OneCustodian, ActiveConnectionsAccounted, NoneStranded, AllButOneClosedAtExit, ImplementsEventLoop hold | 2 descriptors, 2 clients, 2 workers, all clients expirable, 1 signal, epoll_wait may fail (1.8 M states) |
| `pool_oneshot` | SingleOwner, NoCrossTalk, EventServed hold when nobody expires | 2 descriptors, 2 clients, 2 workers |
| `pool_two_owners` | SingleOwner fails when clients expire | as above, expirable |
| `pool_self_deadlock` | HandlerNeverBlocksItself fails | 1 signal |
| `pool_lost_wakeup` | NoSleeperAtJoin fails | 1 signal |
| `reactor` | TypeOK, OneReactorOwns, EventIsCurrent, ActiveConnectionsAccounted, ImplementsEventLoop, StopTerminates hold | 2 reactors, 2 descriptors, 2 clients, 1 signal (0.36 M states) |
| `handler` | TypeOK, NothingCompleteLeftBehind, NothingAfterLast, ServedCompletely, AllAnswered hold | all scripts of up to 3 requests of 2 units, responses of 3 units, send buffer of 2 |
| `handler_fin` | PipelinedAnswered fails | keep-alive scripts and a FIN |
| `parser_streams` | TypeOK, ChunkingIrrelevantBelowLimit, WaitsOnlyForMissingBytes, FramedExactly, BoundedWhileWaiting hold | 2 requests out of 55, limits 3, 8 and 2 bytes, chunks of 1 to 5 bytes |
| `parser_split_crlf` | ChunkingIrrelevant fails | 1 request with a line of maximal length |
| `application` | TypeOK, HighestLayerWins, CacheIsLru (IndexMatchesList, HoldsMostRecent), ServedWasOnDisk, StoreAccounted, AllowExact, JsonFaithful (JsonDecodedAsMeant, EscapedReadsBack), NothingUncounted, ReportLagBounded, PercentileHonest (PercentileInBucket, UnfoundOnlyWhenFew) hold | 3 threads, eight workloads of up to 4 requests, see below (0.4 M states) |
| `logger` | TypeOK, LogComplete (NothingLost, FlushedAtClose), NoSleepOverWork, EveryLineWritten, DestructorReturns hold | 2 threads, 3 lines each |

Why the bounds are enough. Two clients and two descriptors already give reuse of a
number by another client while an event, a sweep or a worker still holds the old
meaning; two workers give every race between owners; a second signal only reaches
the early return of stop(). Two requests give one parser reuse after each kind of
first request, and the lengths lie below, at and above every limit. A send buffer
smaller than a response forces partial writes; scripts of three requests contain a
middle one. In `application` one workload is chosen at the start, so that the services'
states add up: `kv` (three keys for two places, so that the limit is met, replaced at,
and freed), `decode` (a two-field object with every token dropped or exchanged, every
body of up to two tokens, forms and escapes), `route` (every method and path),
`stats` (three requests and a report on them; three threads are the fewest with which
two requests are half recorded while the third reads), `options` (150 option sets),
and files with an unlimited, a clamped and a two-entry cache for three files, one of
which is edited and removed meanwhile. All invariants are also proved
without bounds (section 4).

Deadlock checking is off in every run: the clients run out, and the server may stop.

Fairness. `pool_oneshot` assumes strong fairness of each thread: a thread that can
run again and again runs (the scheduler), and a mutex that is free again and again is
obtained (futex mutexes do not starve a waiter when the others block in between);
nothing is assumed of clients, nor of spurious wakeups. `reactor` and `logger` need
weak fairness of each thread only; epoll_wait returns within its timeout of one
second. In `handler` the client also sends its script and reads what arrives:
a client that does neither waits for itself.

### Disagreements with the documentation

* `pool_two_owners`: include/event_loop.h:34 and README.md:52-54 say that exactly one
  worker owns a connection. The sweep looks at `busy`, which is set only when a worker
  has looked the event up; an event still in `workQueue` does not protect its
  connection. After the sweep the next client may get the number, the stale event is
  applied to it, and its own event reaches a second worker. (For the same reason the
  sweep may close a connection that was taken by a worker after the scan, contrary
  to the comment at pool_loop.cpp:216.)
* `pool_self_deadlock`: stop() locks `connectionsMutex` inside the signal handler; if
  the signal hits the epoll thread in a section that holds it, both wait for ever.
* `pool_lost_wakeup`: stop() clears `running` and notifies without `queueMutex`; so does
  run() at line 57. A worker between its test and its wait misses both and run()
  never returns.
* `handler_fin`: a FIN read with pipelined requests makes the loop stop after the first.
* `parser_split_crlf`: http.cpp:197 counts a lone CR that http.cpp:203 does not.

Others are described here without a run of their own. In the loops: a signal handled
before run() sets `running` is forgotten (pool_loop.cpp:48, reactor_loop.cpp:49); a
client between accept() and its insertion during stop() stays open when run() returns,
at most one (`AllButOneClosedAtExit`); ReactorLoop::stop() closes no connection at all,
the kernel does when the process ends (README.md:306); a response that drains for longer
than the idle timeout is cut by the sweep, since only reading refreshes `lastActive`
(connection_handler.cpp:43), although README.md:125 says "large responses are never
truncated".

In the services:

* main.cpp:28 and README.md:299 put the process environment above .env, but main.cpp:41-42
  reads `SERVER_PORT` before `PORT`: a `PORT` in .env beats a `SERVER_PORT` of the
  process. `HighestLayerWins` leaves exactly this case out.
* metrics.cpp:40 announces "linear interpolation"; percentile() returns the upper bound
  of the bucket, and in the last bucket, which has none, the bound below it
  (metrics.cpp:51): a p99 of 1000 ms may stand for requests that took longer.
  `PercentileInBucket` states both, a bound that is kept below the last bucket and one
  that is exceeded in it. A rank that truncates to 0 (p50 of one request) reports the
  first bucket even if it is empty, so that a bucket holds a request is stated for ranks
  above 0. Because each percentile walks the histogram anew, a report made while
  requests are recorded can show p50 above p95 (TLC finds it with three threads).
* api.h:30-31 says of parseFlatJson that it "refuses anything it does not fully
  understand": it ignores what follows the closing brace, and reads `\u0041` as `u0041`.
  `JsonDecodedAsMeant` leaves these two kinds of body open and states what is guaranteed
  for the others: what does not begin with an object is refused, and an object whose
  strings are written the standard way is printed by get() as it was written.
* jsonEscape() prints a control character below 16 with one digit after `\u00`, which is
  no JSON escape; `EscapedReadsBack` leaves control characters out.
* Two threads that miss on a file may insert an older content over a newer one
  (file_manager.cpp:31), and nothing ever invalidates an entry: a hit may be stale.
  `ServedWasOnDisk` promises freshness to requests that missed only.
* A negative CACHE_CAPACITY is an unlimited cache (file_manager.cpp:7).

## 4. Proofs

The theorems hold for every value of the constants, assuming only the named ASSUMEs of
the modules, which TLC evaluates on the instances. Those are types and finiteness
(descriptors, workers, reactors), distinct special values, and what the code guarantees:

* at least one worker in pool mode (`WorkersAssumption`, main.cpp:58), at least one unit
  in a request, a response and the send buffer;
* streams and scripts are sequences of requests of the modelled shape
  (`StreamsAssumption`, `ScriptsAssumption`), options are texts (`OptionTypes`);
* bodies are tokens and segments made of characters (`BodyTypes` in
  `WorkloadsAssumption`), and the characters that the code treats differently, and those
  it writes in their place, and the names `key` and `value` are among `Characters`
  (`CharactersAssumption`);
* bucket bounds ascend and the last one is above every latency (it is the largest
  integer in metrics.cpp);
* 2^SizeBits is a positive number, which the provers cannot compute
  (`SizeBitsAssumption`).

Together the theorems state every invariant the passing runs check, and both
refinements:

| module | theorem | property of |
|---|---|---|
| `PoolLoopProofs` | `TypeCorrect`, `OneCustodianAlways`, `GaugeAlwaysAccounted`, `NeverStranded`, `AtMostOneLeftOpen`, `PoolImplementsEventLoop`; if `Expirable = {}`, `SingleOwnerWithoutExpiry` and `NoCrossTalkWithoutExpiry` | `PoolLoop` |
| `ReactorLoopProofs` | `ReactorTypeCorrect`, `OneReactorAlwaysOwns`, `EventAlwaysCurrent`, `ReactorGaugeAccounted`, `ReactorImplementsEventLoop` | `ReactorLoop` |
| `LoggerProofs` | `LoggerTypeCorrect`, `LogAlwaysComplete`, `DrainNeverOversleeps` | `Logger` |
| `ConnectionHandlerProofs` | `HandlerTypeCorrect`, `NeverLeftBehind`, `NeverAfterLast`, `AlwaysServedCompletely` | `ConnectionHandler` |
| `RequestParserProofs` | `ParserTypeCorrect`, `ChunkingNeverMatters`, `NeverWaitsInVain`, `AlwaysFramedExactly`, `BufferAlwaysBounded` | `RequestParser` |
| `ApplicationProofs` | `AllowIsExact`, `ApplicationTypeCorrect`, `HighestLayerAlwaysWins`, `CacheAlwaysLru`, `AlwaysServedFromDisk`, `StoreAlwaysAccounted`, `AllowAlwaysExact`, `AlwaysCounted`, `ReportLagAlwaysBounded`, `PercentileAlwaysHonest`, `JsonAlwaysFaithful` | `Application` and its parts |

Each preservation lemma has one case per action, split by thread.

### PoolLoopProofs

*Custody.* OneCustodian counts parties; it is not inductive because nothing in it says
what the program counters mean. `Control` does (which counters imply a real
descriptor, `hopen` is empty outside the closing loop of stop()), and `Custody` spells
the count out pair by pair: table, epoll thread, worker, stop().

*Ownership.* The argument is about tokens. A descriptor's token is its armed
registration, its event in the batch or in the queue, or the worker that has popped
it; `UniqueToken` says there is at most one, `FreshDescriptor` that a number accept()
can return has none, `OwnConnection` that a worker's connection is the one behind its
number. Only the sweep closes a descriptor without consuming its token, which is why
`NoSweep` (from `Expirable = {}`) is needed, and why `pool_two_owners` fails.

*Gauge.* The gauge differs from the number of open sockets by the threads that are
between a system call and its count. Custody makes every close remove one open socket
(`OneMoreOpen` and `OneLessOpen` turn that into cardinalities) and put one thread into
that place, and the count takes it out again; the workers there are a finite set.

*Stranding.* Holds with sweeps and stale events; it rests on `Unregistered`: a closed
or just accepted descriptor has no registration.

*Exit.* When stop() has emptied the table, the only open socket without a place in it
is the one the epoll thread holds between accept() and its insertion (`Stopping`,
`Late`); what a worker has taken out of the table it closes before it is joined.

*Refinement.* `OneSocket` (a client has at most one number) and `Ended` (nothing runs
after run() returned) make every step an abstract step or a stutter.

### ReactorLoopProofs

OneReactorOwns and EventIsCurrent are inductive together with three facts about control:
`Phases` (no reactor runs before its thread is started or after run() returned),
`Batching` (events are left only during dispatch, at most one per source: this is what
makes a close in a batch harmless, since the closed connection has no second event in
it) and `Sweeping` (what a sweep still has to close is in its own table). Both last over
the step between close() and its count, when a thread is neither in its batch nor in its
sweep. The gauge is `Balanced` when it is right but for the reactors in front of a
count; a call and its count are a pair of lemmas (`AcceptPending` and `OpenedSettles`,
`ClosePending` and `ClosedSettles`). `OwnStateOnly` is the reason why reactors need no
lock: a step of one leaves the state of the others alone.

### LoggerProofs

`Locking` (who holds the mutex), `Lifecycle` (when `running` holds, and that nobody is
inside enqueue() once it does not) and `Queueing` (the queue is empty when the drain
thread is about to block or has ended). The last is what makes the wake-up of the drain
thread safe, and the final drain complete.

### ConnectionHandlerProofs

`HandlerInv` adds to the types that response units are conserved (`Conserved`), what the
registration says of the buffers (`Registered`), and that on a connection that stays
open every complete request has been answered and asked to keep it (`CaughtUp`). The
lemma `ParseLoop` says what the loop of onReadable() does in one go.

### RequestParserProofs

`Position` says for each state of the parser where in the stream it is, which header
fields it has accepted, and that its counters are sums over them; ChunkingIrrelevant
follows because the verdict at each point is the reference's verdict on the whole
request. Sums are the recursive function of `PrefixSums`; `NumberLemmas` proves that it
satisfies its equation, grows, and how it changes when one term does.

### ServiceProofs and ApplicationProofs

*Configuration.* parseEnvFile() and the loop over the flags are finite iterations.
`IterationExists` gives the table of their intermediate values, `LastAssignment` says that
the last assignment to a setting wins, and `ConfigRight` compares that with
HighestLayerWins, which looks only for the highest place that names the setting.

*Cache.* `CacheInv` says that the list is the beginning of the history of keys without
repetitions, and as long as capacity and history allow. A hit, a replacement and an
insertion are two moves on sequences (`Moved`, `Pushed`), about which the lemmas are
stated once. Capacity is at least 1 for every configured number (`CacheInvInit`), which
the eviction of the last entry needs.

*Files.* ServedWasOnDisk needs `DiskInv`: every cached entry is a content its file has
had (`Truthful`), and what a thread holds between lookup, read and insertion is the file
it was asked for and not older than the lookup (`Serving`). Versions only grow, so
neither is disturbed by an edit or by what other threads insert (`Only`: a step of the
cache adds no other entry than the one given).

*Store.* `StoreInv` makes the store finite, so that its size changes by one.

*Metrics.* `CountInv`: each group of counters lags the total by the threads that are in
front of it, and never more than `threads` are busy. `ReportInv` is about a report that is
being made: what it has loaded plus what it will still load from the present counters
lags its total by less than `threads`; counters only grow (`Grows`, `ReportStays`), so the
recording of others keeps it. The walk over the histogram carries `OnTheWay`: what it
has seen is at most the present sum, and below the rank.

*Texts.* JsonFaithful is about loops over a text or a body of any length. Each is a
table of intermediate values (`EscapeComputed`, `ReadComputed`, `JsonComputed`, all from
`IterationExists`), and what holds along a table is shown by `IterationFollows`: there
is no least position where it fails. `ReadsBack` runs the two tables of readString() and
jsonEscape() side by side: wherever one character's escape ends, readString() is outside
an escape and has produced the text up to that character. `JsonMeaning` does the same
along the tokens of a body, four at a time: the loop is at its n-th field exactly when
the tokens begin with n fields and commas (`ReadsOn`), at the end exactly when an object
has been closed (`ReadsClosed`), and stays there (`ReadStays`); `ClosedFields` compares
the map that was filled with the last value of each name. What that value is worth does
not rest on readString() itself: `StandardEchoed` runs jsonEscape() behind readString()
and shows that a string written the standard way is printed as it was written. In the
composed system two invariants carry this to the answers: `HoldsTexts`, everything
stored is a text, whichever body parser it came from; and `AnswerInv`, the status of a
worker that has answered a POST to /api/kv is 400 exactly when its body said so, and 405
only for a path with routes (`PutAnswered`, hence also AllowExact), since the lookups
under the lock never produce a 400 and no other handler answers such a request. The
latter is not implied by the types: between the answer and the first counter nothing
else remembers what was decoded.

### What is only model-checked

* Liveness: EventServed, StopTerminates, AllAnswered, EveryLineWritten,
  DestructorReturns. The proof system does not reason about fairness or ENABLED.
* That the properties called violated in section 3 fail, which TLC shows by example.

## 5. Not modelled

* Formatting of responses, log lines and the report (its uptime, byte, connection and
  cache figures too), MIME types, header lookup: conversions without state.
* net.cpp and the path helpers of utils.cpp: wrappers over system calls; the outcome of
  createListener() is a choice in the loops.
* resolve() of the static files: it is a query of the file system and enters as a
  given function.
* Assets, benchmarks, container files.
* A read of a file that is being written: edits replace a file at once.
* Weak memory: the atomics of the loops are sequentially consistent, the relaxed ones
  are counters (see `Metrics`).
* Descriptors used by file reads share the number space with clients and are left out.

## 6. What is left

* The liveness properties stay with TLC, on the bounds of section 3.
* Extensions of the model that would be worth their states: descriptors of file reads in
  the number space of the loops; the counters under a weaker memory model than x86-64's;
  resolve() with a small file tree, so that the normalisation of paths is checked and not
  given.
* When one of the disagreements of section 3 is repaired in the code, its run turns into
  one that passes, and the assumption made because of it (`Expirable = {}` in two theorems
  of `PoolLoopProofs`) can go.
