# TLA+ models of lightwatch

lightwatch watches running Rust programs. A *probe* linked into a program measures
its functions and its types; an emitter thread sends what the probe gathered, once a
window, over a Unix socket; a *daemon* folds the frames of every process into totals
and rings of time windows and serves them to a web page. A *bridge* feeds the daemon
from programs that a third-party profiler measures.

This directory holds specifications of all of these, the instances TLC checks and the
theorems TLAPS proves. Paths below are relative to `src/crates/`.

## Inventory

| component | state it keeps | operations | what is hard | what makes it correct |
|---|---|---|---|---|
| probe registry (`lightwatch-probe/src/registry.rs`) | functions, types and contexts named so far, one mutex each; contexts refused by a full table | `intern_function`, `intern_type`, `intern_path`, `registers_since`, `tracked_types` | threads interning the same pair; the ceiling | one id per pair, a forest, every name registered before or soon after it is used |
| probe calls (`calls.rs`) | per thread: stack, depth per function, memo, accumulator; globally: the list of accumulators | `Site::enter`, guard drop, `drain`, `snapshot`, thread start and exit | recursion, the per-thread cache, `drain` walking slots whose threads run and exit | no time lost or doubled, bounded tree, contexts that tell what happened |
| probe census (`census.rs`) | live count and size buckets per type, all atomics | `Census` new, clone, drop; `live`, `size_buckets` | readings while other threads are between two counters; two threads naming a type | the counters are exact, a reading is off by what overlapped it |
| probe emitter (`emit.rs`) | seq, what was registered, the connection | one `tick` a window; reconnect through a list of candidates | failed sends that may have arrived, reconnects, the cap on registrations | each window is shown at most once, names precede their use |
| protocol (`lightwatch-proto/src`) | none | `bucket_of`, `bucket_range`, `Dist`, `socket_dir` | boundaries of buckets; both ends choosing one path | every value lies in its bucket; both ends meet |
| daemon ring (`lightwatch-daemon/src/ring.rs`, `quantity.rs`) | contiguous windows, newest last | `window_for`, `get`, adding to a window | idle gaps, late frames, capacity, saturation | one contiguous stretch of time |
| daemon store (`store.rs`) | per process: names, tree, totals, two rings, the open window, live connections | `apply_frame`, `connect`, `disconnect` | late, contradictory and orphaned input; overlapping connections | totals, tree and both rings tell one story; what is pushed is complete |
| daemon ingest (`ingest.rs`, `main.rs`) | the socket path, the HTTP port, one task per connection | `bind`, accept loop, `handle_connection`, shutdown | two daemons starting at once; files that outlive their daemon | one listener; a daemon alone always comes up |
| daemon sessions (`session.rs`) | none: computed | `pair_sessions`, `find` | identity while members come and go | every emitter in exactly one session |
| daemon server, api (`server.rs`, `api.rs`) | subscriptions, bounded broadcasts | session list, snapshot, session stream | a window closing between snapshot and subscription; a slow client | what is told is what is stored |
| web page (`lightwatch-daemon/web/`) | the page's copy of a session | attach, snapshots, socket, reconnect, fallback; folding and laying out | every callback in any order | the page follows the session; what it draws is what was stored |
| hotpath bridge (`lightwatch-hotpath/src`) | last report per run, stream state | poll, absorb, send | restarts of the target and of the daemon, partial reports | no call is invented; it waits everything out |

How they interact. The program's threads call `Site::enter`, which interns through the
registry and works on thread-local state; closing an activation adds to the thread's
accumulator under that accumulator's mutex. The emit thread calls `drain`, reads the
registry and the census, and writes one frame. A connection task of the daemon reads
frames and applies each under its process's write lock; `apply_frame` broadcasts a
window when a later frame puts it out of reach, `disconnect` broadcasts the last one.
The page lists sessions, fetches snapshots (read lock) and subscribes to the broadcasts
of a session's two processes over one websocket.

## Modules

| module | models | extends |
|---|---|---|
| `Registry` | `registry.rs`: functions and contexts | |
| `ProbeCalls` | `calls.rs` | `Registry` |
| `Testing` | `testing.rs` and the read-only half of `calls.rs`; what the chains of the contexts tell | `ProbeCalls` |
| `Dist` | `dist.rs`, the raw-or-bucket `Samples` of `calls.rs`, `duration_total`, `bytes_from_buckets` | |
| `Census` | `census.rs`, one tracked type | `Dist` |
| `CensusReading` | the emit thread's reading of it | `Census` |
| `Emitter` | `emit.rs` `tick`, `registers_since` | `Registry` |
| `Rendezvous` | `socket.rs`, `candidate_sockets` | |
| `Bind` | `ingest.rs` `bind`, `main.rs` | `Rendezvous` |
| `Pipeline` | program, emitter, socket path, connections, daemons | `Emitter`, `Bind` |
| `Delivery` | abstract: what becomes of a window | |
| `Ring` | `ring.rs`: a ring as a value | |
| `Store` | `store.rs`, `quantity.rs`; one process of the daemon | `Ring` |
| `Views` | `api.rs` snapshots; `buckets.js`, `flame.js`, `force.js`, `timeline.js`, `palette.js` | `Store` |
| `Sessions` | `session.rs`, the session JSON, `chooseSession` | |
| `Feed` | the daemon as clients see it, `server.rs`, `app.js`, `feed.js` | `Ring`, `Sessions` |
| `Bridge` | `lightwatch-hotpath` | `Dist` |
| `MC*` | the small instances, and the properties no theorem states; facts about pure functions as `ASSUME`s | |
| `RegistryProofs` | lemmas: what interning keeps | `Registry` |
| `DataProofs` | lemmas: induction, folds and sums over finite sets and sequences, quotients; a theorem on `window_for` | `Ring` |
| `ProbeCallsProofs` | theorems of the probe | `Testing`, `RegistryProofs`, `DataProofs` |
| `CensusProofs` | theorems of the census and its reading | `CensusReading`, `DataProofs` |
| `PipelineProofs` | theorems of the pipeline and of the daemons on one path; the refinement of `Delivery` | `Pipeline`, `RegistryProofs` |
| `StoreProofs` | theorems of the store | `Store`, `DataProofs` |
| `BridgeProofs` | theorems of the bridge | `Bridge` |
| `FeedProofs` | theorems of the page's feeds | `Feed`, `DataProofs` |

### The probe

| TLA+ | code |
|---|---|
| `Enter(t, f)`, `RegisterThread(t)`, `Open(t, f)` | `Site::enter` in its three steps: the function's id (one lock), the first use of the thread-local, which registers the slot (`THREADS` lock, so not while `drain` runs), `ThreadState::open` |
| `Context`, `InternPath = Find \/ Grow \/ Refuse` | `ThreadState::context` and `intern_path` |
| `Close(t)` | guard drop, `ThreadState::close` |
| `Exit(t)` | the thread-local is destroyed and drops its reference to the slot |
| `DrainBegin`, `DrainAbsorb`, `DrainRetain`, `DrainEnd` | `drain`: lock; for each slot take the accumulator, then look at the reference count; unlock and return |
| `Recording`, `EdgeCounts`, `Stacks`, `SelfNs`, ... | `snapshot()` and the readers a program's tests use |

`open` is one step although it takes `PATHS` inside: the rest of it touches only the
thread's own state, so no other thread can tell. `close` is one step for the same
reason, its lock being the accumulator's. `drain` is *not* one step: it holds `THREADS`
throughout but each accumulator only while it takes it, and the thread it visits may
close and exit between the take and the look at the count. A duration is a difference of
readings of one clock; a key absent from a map is a zero entry. Panics are guard drops
like any other.

`Census` has every atomic access as a step: `live`, then the bucket, then the type's id,
then, if it is not out yet, `intern_type` under its lock. The access order other threads
see is taken to be the order of the code. An uncounted token (`Census::UNCOUNTED`) is one
that counts nothing until it is overwritten, and a copy of it counts nothing either.

### The pipeline

`Tick` is `Drain`, then reaching a daemon (`OpenSink` or `NoSink`), then
`RegistersSince`, then the census and the send (`SendFrame`, `SendToNobody`,
`SendTimesOut`), with the program free to intern between any two. A connection is a
queue of lines read by a handler: `Admit`, `ApplyFrame`, `SkipTorn`, `EndStream`, or
`HandlerStops`. A frame is what it *names* - all the daemon may refuse - and a window's
program is busy: it calls all it has named. `Main` is a daemon from `Start` through the
system calls of `bind` to its end, with `Crash` at any step; what it held dies with it,
its socket file does not.

`Rendezvous` says which path both ends arrive at from one environment and in which order
a probe tries the sockets of a directory; its `ASSUME` checks over every environment and
every subset of four directory entries that they meet. In `Pipeline` one path stands for
those candidates.

### The store

| TLA+ | code |
|---|---|
| `ApplyFrame(c, frame)` | `apply_frame`, in its order: the counts and seq, the registrations, closing the open window, the totals, the rings, the broadcast |
| `Register`, `Accepts`, `RegisterPath` | `register` |
| `Known`, `Folded`, `AddStack`, `Record` | `accumulate_totals`, and `fold` for a window |
| `RingAfter`, `WindowFor` | `fold_into_rings`, `window_for` |
| `Admit(c)`, `Connect(c)` | `Registry::connect`: the entry is found under one lock, marked connected under another |
| `Disconnect(c)`, `FlushOpenWindow` | `disconnect`, `flush_open_window` |

A handler runs under the process's write lock, so each is one step. `count` and
`self_ns`, and `count` and `ns`, accumulate in the same places in the same way: one
`amount` stands for both. An operator reads the registrations *after* the frame's own,
which is the code's order (a frame may name what it introduces). `Views` holds pure
functions over that state: what `api.rs` answers and what the page folds and lays out of
it.

### Sessions and the page

`Sessions` is the pairing as a computation. `Feed` has the daemon as clients can tell
it - per process a fine and a coarse ring, the open window, the names, the log of what
was broadcast - and the page with one action per callback: a list or a snapshot that
arrives or fails, the attach that awaits its snapshots, the socket's open, message and
close, the reconnect timer, the fallback poll, the user's choices. A request's reply is
computed by `Answer` while it is under way and arrives later. A receiver more than
`UpdateBacklog` behind skips (`Lag`).

### The bridge

`ReadStatus`, `ReadReport`, `KeepSession` or `OpenSession` or `NoDaemon`, `Send` or
`SendFails` are the steps of `poll_once` and of the loop around it; the target and its
metrics server are external and start, work, die and restart between any two. A reply is
whole, cut off or something else, and `BodyOf` says what comes of it.

## Runs

Bounds are constants and appear only in guards (`MaxClock`, `MaxEntries`, `MaxDepth`,
`MaxFrames`, `MaxWindows`, `MaxConns`, `MaxStarts`, `MaxFaults`, `MaxRuns`, `MaxCalls`,
`MaxElapsed`, `MaxOverlapped`, `MaxEvents` and its parts, `ContextTimes`) or are limits
the code itself has, made small (`MaxPaths`, `MaxRegisters`, the rings' capacities and
resolutions, `MaxCumulative`, `UpdateBacklog`, the page's `MaxWindows`). `OverflowChecks`
says which build of the daemon is modelled: with it a sum past `u64::MAX` panics; without
it, as in the runs, it wraps. In `Feed` one session list is under way at a time, a choice
is made while none is, and the axis is changed and the fallback polls while no snapshot
is: the timers' intervals (1 s and 3 s) outlast a request.

| run | bounds | why they suffice |
|---|---|---|
| `calls_tree` | 1 thread, 2 functions, 5 entries 4 deep, 3 contexts, 2 ticks | direct recursion, `f g f g`, re-entry after return and refusal by a full table all fit in five entries; the tree wants more contexts than three |
| `calls_threads` | 2 threads, 2 functions, 3 entries 2 deep, 2 contexts, 1 tick | the threads meet in the table before and after it is full; one of them exits while `drain` is at any point of either slot |
| `census` | 2 threads, 3 tokens, sizes 7 and 1024, 4 operations during a reading | both threads are in the middle of something over each other's originals; one size is exact and one is not |
| `pipeline` | 2 functions, 1 type, 1 context, 1 context a frame, 3 windows, one daemon started twice, 2 connections, 1 fault | a context waits its turn, another is refused, a type falls between the two readings, a daemon dies, stops and restarts at every point of a tick |
| `store` | 4 frames, saturation at 3, fine 2 ns x 3, coarse 4 ns x 2; of contexts: 3, of 2 functions, times 1 2, 1 connection; of calls and a census: times 0 1 2 5 9, 2 connections | nine register lists put every context before and after its parent, twice, and under another name; a frame falls into the same window, the next, at capacity, beyond it, too late for the fine ring only and for both; reconnects overlap |
| `feed` | 3 emitters of one pid, 3 frames, 4 comings, 2 turns of the user or of failure, 4 events in all, 2 sockets, backlog 1 | two sessions become one when the third emitter joins, so ids move; one slow receiver, one failed request, one dropped socket at any point |
| `bridge` | 2 functions, 2 pids, 2 runs, 2 calls, 2 faults | a restart under the same pid and another, at every step of a poll, with the daemon gone or back |

What each passing run shows:

- `calls_tree`, `calls_threads`. `SelfTimeConserved`: at every moment, what all contexts
  hold is the time of the closed roots plus what open activations have been charged for
  their callees, wherever the numbers are (thread, slot, `drain`). `ReadersAddUp`: edges,
  chains, call counts and self times that a test reads agree with each other and with the
  clock. `DurationWithinWallClock`: recursion never makes a function run longer than the
  clock. `CallsMatchContexts`: the two tables a window carries agree while the table has
  room. `RecursionBounded`: a chain names a function at most twice, the second directly
  under the first. `ContextTellsTheStack`: the chain of an open activation is a
  subsequence of what is really open. `MemoAgrees` and `PathForest` for the shared table;
  `DepthMatchesStack` for the bookkeeping of recursion; `ExitedThreadForgotten` is
  liveness.
- `census`. The counters are exact at every atomic step (`CountersMatchTheTokens`), the
  type is tracked once and after its first instance has landed
  (`RegisteredOnceAndLanded`), a reading's histogram and live count differ by at most
  what overlapped it (`DriftIsWhatOverlapped`). Its `ASSUME`s check the bucket layout,
  both encodings of a distribution and the error of rebuilt totals.
- `pipeline`. Every call names a known function (`EveryCallIsNamed`), a context is
  refused only while its registration waits for its turn or for want of a context at all
  (`StacksNamedInTurn`), what the emitter believes it told a listener, the listener knows
  or is about to read (`SentNamesReachTheStore`), a type has at most one reading refused
  (`OneReadingUnnamedAtMost`), `missed_frames` moves only for overtaken or abandoned
  frames (`GapsAreNotTheEmittersDrops`), a daemon alone always comes up
  (`RefusedOnlyByAnother`); and the whole implements `Delivery` (below).
- `store`. The process is one of two programs (`MCSpec`: each is a part of `Spec`). One
  tells contexts: the edges and each function's own time are readings of the tree, in every
  window and in the totals, saturated or not; the tree is a forest whose contexts never
  change their names; and what the page draws of the fine windows (bucket fold, flame
  tree, call graph, strip) is what the daemon's coarse window holds
  (`PageReadsTheTree`), its cores being its rates where the recent windows add up within
  a `u64` (`RatesFit`; the rest is under the divergences). The other tells calls and a
  census: the rings are contiguous; a coarse window holds what its fine windows hold, and
  exactly that while none is gone; the totals are what the coarse ring holds until it
  evicts; the newest reading of a census wins in both; a process has ended exactly when
  its last connection closed; what is broadcast comes in order and, at the end, lacks
  nothing. The two do not mix: a context's amounts and a census's readings never meet in
  one operation. `MCViews` adds, as `ASSUME`s over bounded inputs, that folded buckets are
  contiguous and keep every delta, boxes of the flame graph nest, a graph over budget
  keeps the busiest, the strip's ceiling clips only outliers, and the palette never
  repaints.
- `feed`. A feed holds windows of one process (`OneProcessPerFeed`), no window stands
  twice or with more than the daemon has (`NothingCountedTwice`), and once programs stop
  coming and going the page follows what its session says (`EndsUpFollowing`); the first
  and the last except where the code itself lets a second stream in, see below.
  `SessionsTellEveryEmitter` (an `ASSUME`): pairing is a partition of every registry of up
  to three emitters, a half is never a dead emitter's while a live one could fill it.
- `bridge`. What a run's function is charged with, and what it had done before the stream
  first read it, are together no more than it did (`NeverMoreThanHappened`, of the history
  `settled`); every connection is told every name once and before its first use
  (`NamedOnceOnEveryConnection`), and the bridge ends up streaming (`WaitsOut`).

Runs that show a disagreement between the code and what it says of itself:

- `calls_exit_race`: `drain` takes a slot's accumulator, the thread closes its last
  activation and exits, `drain` sees one reference and drops the slot. The comment says
  "One reference alone means the thread is gone and drained." What the thread did last
  is lost. (`SelfTimeConserved` counts that loss on its own line, `lost`, so it still
  says that nothing disappears anywhere else.)
- `calls_recursion_count`: a function that re-enters itself twice in turn opens its
  recursion context twice within one outermost entry; `API.md` says once.
- `store_closed_window`: "a fine window that can no longer change" changes when the
  process reconnects within the window its disconnect had flushed.
- `bind_race`: a daemon that starts while another is stopping finds its file on the path
  and nobody behind it; before it unlinks, the other has removed the file, started again
  and bound. What is unlinked is the socket of a running daemon, which `bind`'s comment
  rules out.
- `pipeline_gaps`: the emitter gives up one window, whose number goes to the next one, and
  goes on over a new connection, which is read before what is left in the old one; the
  daemon counts those frames as missed and applies them after. Four places say that a gap
  is a window the emitter dropped. `GapsAreNotTheEmittersDrops` is what does hold.

`CHECK_DEADLOCK FALSE` where the system really may stop: a process whose connections have
all closed, daemons that were all refused, a program whose windows are out, a census whose
thread may do no more within the bound on a reading, and the bounded events of `feed` and
`bridge`. The probe never stops: `drain` can always be called.

### Fairness

- `ProbeCalls`: `Drain` alone. The emit thread loops for as long as the process lives
  (`emit.rs:83-88`) and waits for nobody but short critical sections. The program's
  threads may stop inside a function for ever.
- `Pipeline`: the tick, each connection's handler while its daemon lives, a daemon's main
  between start and serving. Nothing makes the program call, a daemon start or a fault
  happen.
- `Feed`: the session list's timer and its answer, requests being answered, the socket's
  two ends. No fairness on comings, frames, choices or failures.
- `Bridge`: the loop; and, for the supervisor its documentation assumes, a target and a
  daemon that come up again. `WaitsOut` only speaks of behaviours in which both stay.

### Refinement

`Delivery` is what the emitter promises, seen from outside: a window is open, under way,
shown or lost; it is shown at most once, lost only from under way, and does not stay under
way for ever. `Pipeline` implements it (`DeliversWindows`, checked as a property of the
run): a window is *shown* once a daemon's handler has applied its frame, *under way* while
the emit thread or a line on a live connection holds it, *lost* otherwise. It is at most
once because a failed send is never retried: the frame may have arrived, at once or when
the buffer is dropped. The mutant that retries shows a window twice.

## Proofs

For every number of threads, functions, contexts, tokens, daemons, connections, processes
and sockets and every value of the bounds:

| theorem | says | argument |
|---|---|---|
| `ProbeTypesHold` | `TypeOK` | conjunct of `Inv` |
| `ContextsFormAForest` | `PathForest` | `Grow` adds a pair only if it is not known, under a parent that is either 0 or the context of an open activation, which is in the table |
| `MemosNeverGoStale` | `MemoAgrees` | an entry is written from the table's answer, and the table only grows at its end |
| `DepthMirrorsTheStack` | `DepthMatchesStack` | opening and closing change one function's levels at the top of the stack |
| `SelfTimeIsConserved` | `SelfTimeConserved` | a step of `close` moves one amount from the stack into one cell of one accumulator, a step of `drain` one accumulator as a whole (`Additive`, `Everywhere`) |
| `DurationsFitTheWallClock` | `DurationWithinWallClock` | a thread has at most one outermost activation of a function open; closing it records what it ran, and a tick adds one to each |
| `CallsMatchTheirContexts` | `CallsMatchContexts` | the close of an outermost activation adds one call and one to a context its function opens; every other close counts in no such context |
| `ContextsTellTheStack` | `ContextTellsTheStack` | the chain of a context asked for is its parent's with one function after it, or its parent's own (`ContextExtends`), and its parent's lies below on the stack |
| `RecursionIsBounded` | `RecursionBounded` | a chain is made longer by a function not on it, or by the one it ends in (`ChainsInARow`) |
| `CensusExact` | `CountersMatchTheTokens` | each counter is the cardinality of a set of tokens, and a step moves one token into or out of each set it changes |
| `CensusRegisteredOnce` | `RegisteredOnceAndLanded` | the second look under the lock; whoever is past its bucket has landed |
| `ReadingsDriftNoFurther` | `DriftIsWhatOverlapped` | the buckets add up to the live count, less the threads that have raised it alone, plus those that have lowered it alone |
| `CallsAreNamed` | `EveryCallIsNamed` | what a frame was counted up to is in the store or in a line not after it (`Covered`) |
| `StacksAreNamedInTurn` | `StacksNamedInTurn` | the same, over contexts |
| `SentNamesAreKnown` | `SentNamesReachTheStore` | what is counted as sent lies in the store or on the way (`SentCovered`) |
| `RefusedOnce` | `OneReadingUnnamedAtMost` | a census is listed under the count of the next frame's registrations |
| `GapsNeedDisorder` | `GapsAreNotTheEmittersDrops` | undisturbed, the numbers a daemon saw last or will read have no hole (`InTurn`) |
| `OnlyDaemonServes`, `OnlyDaemonComesUp` | `RefusedOnlyByAnother`, in the pipeline and in `Bind` alone | alone, nobody touches the path between two steps of `bind` |
| `WindowsShownOnceOrLost` | `Pipeline` implements `Delivery!Spec` | a window is in one place at a time (`WindowsInv`) |
| `WindowForIsRing` | `window_for` returns a contiguous ring within its capacity | by the four cases of `window_for` |
| `RingsStayContiguous` | `RingsContiguous` | `WindowForIsRing`; folding changes no index |
| `ContextsAreForest` | `TreeWellFormed` | a fold over registrations, each of which keeps the forest |
| `NamesAreKept` | `ContextsKeepTheirNames` | the same fold never changes a node that is there |
| `EdgesAreRead` | `EdgesReadTheTree` | one event adds the same amount to one context and to the only edge whose sum it is in |
| `SelfIsRead` | `SelfReadsTheTree` | the same, per function |
| `TotalsAreTheCoarse` | `TotalsMatchCoarse` | an event adds one amount to the totals and to one coarse window (`AddsTheSame`) |
| `CoarseIsTheFine` | `CoarseCoversFine` | and to the one fine window of that coarse one it falls in (`LandsOnce`), or to none that is left |
| `NewestReadingStays` | `NewestReadingWins` | the process's reading and the windows' move together, in `Record`'s order |
| `WindowsPushedInOrder` | `PushedInOrder` | while frames come in time order the open window is the one of the last frame and nothing beyond it has gone out |
| `NothingLeftUnpushed` | `EndedMeansPushed` | every other window with content went out as it is |
| `EndedWhenSilent` | `EndedExactlyWhenSilent` | `live` is the number of streaming handlers, a finite set's cardinality |
| `StoreTypesHold` | `TypeOK` | conjunct of `TypesInv` |
| `ChargesWhatHappened` | `NeverMoreThanHappened` | what is settled of a run, charged or made before the first reading, lies below what its stream has read, and that below what it has made |
| `NamesBeforeCharging` | `NamedOnceOnEveryConnection` | a connection was told exactly the names its stream has readings of |
| `FeedsHoldTheirOwn` | `OneProcessPerFeed` | the one socket there is streams what the feeds are of |
| `EachWindowStandsOnce` | `NothingCountedTwice` | every window on its way or shown is an earlier state of one the daemon has or has evicted (`Kept`) |

*The probe.* `TypeOK`, `PathForest`, `MemoAgrees` and `DepthMatchesStack` are inductive
only together. `PathForest` needs every
path that is held anywhere (on a stack, in a depth entry, in a memo) to be one the table
has, or a new context could hang off a parent that does not exist yet; the depth entries
need `DepthMatchesStack` to know that a function with levels open has its outermost path
in the table; and `drain`'s cursor must stand on a slot when it decides whether to keep
it, or the types break. `Inv` in `ProbeCallsProofs` is the conjunction of these, with one
lemma per action; `Kept` in `RegistryProofs` says what an action that interns leaves
alone.

*Its books.* What is recorded is in the hands of a thread, in `drain`'s, returned or lost.
`Additive(m)` says that a measure `m` of accumulators goes through `Absorb` and is nothing
of `Zero`; `Everywhere(m)` adds it up over all those places, no step of `drain` changes it
(`DrainConserves`) and `close` changes it by what it adds to one accumulator. Each book is
an equation between such a measure and the stacks, which is inductive with what it needs
to know of them: `SelfInv` that an activation's closed callees fit into the time since it
began (`ChildrenFit`; else `close` would cut a difference off at zero) and that `drain`
holds nothing between two rounds (`IdleIsEmpty`); `WallClockInv` nothing more; `CallsInv`
that no context is counted before it exists (`NothingUnborn`), and, while nothing was
refused, in whose contexts the activations and the depth entries are (`ContextsFit`).

*Its chains.* `ChainOf` is a function recursive along the tree, which exists because a
parent is numbered below its children (`ChainsExist`), and which a tree that grows leaves
as it was (`ChainsAgree`). `ChainsInv` adds to `Inv` that every open level's chain lies on
the stack up to it (`StacksTold`), that the context a recursion shares is that of the
function's outermost level with the function once more, or the same where the table
refused it (`RecursionHangs`), and that no chain names a function but in a row
(`ChainsInARow`). The three hold together only: an outermost level is opened under the
chain of what is on top of the stack, which does not name the function because the stack
does not; a recursive one under that of the function's lowest level, which names it at its
end alone, because nothing below that level does.

*The census.* `CountersMatchTheTokens` alone says nothing of who may change which counter
next: two threads in the middle of one token would count it twice. `CensusInv` adds
`Owned` - a thread inside an operation has a token nobody else has and which is no
instance outside it - and `LandedFirst`. `LiveFollows` and `CountFollows` carry a counter
over a step once the set it counts is known to gain or lose one token. A reading needs to
know how far the two counters may be apart at any moment: `Held`, the sum of the buckets,
is the live count less the threads that have changed only that (`Up`, `Down`), and
`Mix`, what the buckets would add up to if those not read yet were read now, is off by no
more than the operations that overlapped and are done. Reading one more bucket does not
change `Mix`; every change of a counter changes one of the terms by one.

*The pipeline.* `PipelineInv` speaks of lines by connection and position, `Line(c, i)`,
so that a line keeps its name while others are appended, and each handler's step is one
renaming of positions. It has a part per property. *Names*: `FramesTrue` (a frame names
nothing newer than the counts it was given), `Covered` and `SentCovered`; a connection
that is torn keeps what it has before the tear, and a new one starts from nothing sent.
*Readings*: what was refused, or is in a census on its way, lies among the names the next
frame was counted up to. *Numbers*: a daemon that has not bound has met nobody, and for
the daemon the emitter talks to, or would, the numbers have no hole up to the emitter's
own. *Windows*: no window is in two lines, or in a line and applied, or in the emitter's
hands and anywhere else. With the last, each step of the pipeline is a `Take`, a `Show`
or a `Lose` of `Delivery` (`DeliveryStep`), which is the safety of the refinement.

*The daemons.* `RefusedOnlyByAnother` needs that a file or a port is held only by a
daemon that got as far as binding it (`HoldersHaveBound`: a lone daemon that probes cannot
be answered by itself), and that while one is alone the file it found is there to unlink
and the path it cleared stays clear (`Alone`). Those two fail with a second daemon, which
is `bind_race`.

*Folds and sums.* A frame is a fold over its registrations and its events, and what an
edge, a function's own time or a histogram adds up to is a fold over a finite set.
`DataProofs` proves from the definition of the folds that the function exists
(`FoldExists`, `ListFoldExists`), that what every single step keeps the whole keeps
(`ListFoldKeeps`), and how a sum over a finite set changes when one member's value does
(`SumChanges`) or the set gains one (`SumOverMore`); the induction is over sets instead of
predicates (`EveryNatural`, `SetInduction`), which the provers can instantiate.

*The store.* `TreeInv` is the forest; `Told(tree)` is the data that reads a tree: nothing
is held for a context that is not registered - or the sum would jump when it comes - and
every edge is the saturated sum of its contexts. Saturation makes the sums a lemma of
their own: adding to a saturated counter is saturating the sum. `RingInv` puts told data
in every window of both rings, `CensusInv` relates the latest reading to each fine window,
and `BroadcastInv` relates the open window and what was broadcast to the ring: a window
found in a contiguous ring is the one asked for, so all of it rests on `RingInv`.

*The store's sums.* `CoarseCoversFine` and `TotalsMatchCoarse` speak of the windows that
are retained, which are others after each frame, and are not inductive. `StoriesInv` says
the same of every index from the oldest coarse window on, retained or yet to come: what is
held for an index without a window is nothing, and the equalities hold while the ring they
read still reaches back (`TotalsTold`, `FinesTold`). A frame lands in one window of each
ring and may cost each its oldest (`LandsOnce`); a block of indices takes the frame's
amount once, or loses what was trimmed and can only be less (`BlockLands`). That the fine
index of a time lies in the block of its coarse index is arithmetic of the two
resolutions.

*The bridge.* A call of a run is *settled* once it is charged to a window, or when the
reading that registers its function comes after it. `ChargedWithinReadings` holds for the
run reported last, the frame on its way included, and `NothingAhead` for the runs after
it; a run under the same pid that passes `same_run` is differenced against another run's
readings, and the difference is then less than it made. `NamedIsRead` distinguishes the
moment between the report and the write, when the stream already has readings the daemon
has not heard of.

*The page.* `ProcsInv` says that what a process broadcast is no more than its ring has, or
the ring has passed it (`Kept`); `PageInv` that the same goes for every window in a
reply, in a socket's queue and in a feed. `OneSocket` and `StreamsTheFeeds` hold unless
an attach was overtaken or a stream crossed, which is where the code lets a feed mix.
Nothing is asked of the pairing of sessions: the daemon serves the ids it has registered,
whatever a session names.

The assumptions are the ones the modules declare: a positive ceiling, natural bounds,
sentinels outside the sets they extend, resolutions that divide and rings that reach back
as `ring.rs` has them, frames of the protocol's types, and finitely many connections,
threads, functions, tokens, sizes and contexts.

Model-checked only:

- Liveness, under the fairness above, and so the second half of `DeliversWindows`, that no
  window stays under way: it is out of the provers' reach.
- `ReadersAddUp`, which relates six readers of one snapshot to each other, to the tree and
  to the clock; `CallsMatchContexts` and `SelfTimeConserved`, which it rests on, are
  proved.
- `PageReadsTheTree`, whose flame tree is a recursive operator, and all that is checked as
  an `ASSUME` over bounded inputs.

## Divergences noted without a run

Behaviour of the code that the models have and that a reader should know of. None of it
breaks a property above, because the properties say where they hold.

- An attach that resumes from awaiting its snapshots after a newer attach began opens a
  second socket, and windows are applied by feed name alone, so the newer session's feeds
  may take windows of the older session's processes (`app.js:174-175, 197-203`).
  `OneProcessPerFeed` excludes it by name (`overtaken`).
- The session is looked up again when the socket is upgraded (`server.rs:90`): its
  speakers may differ from those the page attached to (`crossed`).
- A snapshot's rates add up recent windows with a plain `+` and `.sum::<u64>()`
  (`api.rs:346, 357`): two windows that fit a `u64` each and not together make the request
  panic in a build with overflow checks and the rate wrap round in one without, where
  `quantity.rs:20-23` says of the same counts "Saturating, because the arithmetic runs on
  counts a hostile client chooses and a panic here would take down a connection".
  `Wrapped` and `Snapshot` have both builds; `PageReadsTheTree` excludes those rates by
  name (`RatesFit`).
- `probe lib.rs:138-141` says that past the ceiling "every nanosecond is still accounted
  for"; a root that is refused reports against path 0, which the daemon drops
  (`StacksNamedInTurn` excludes it by name).
- A target that restarts under the same pid and has run as long as the last reading said
  passes `same_run`: its first report is differenced against the dead run's readings,
  which `bridge.rs:19-20` rules out, and charges calls made before the bridge attached,
  which `bridge.rs:66-72` rules out. `NeverMoreThanHappened` bounds what such a run is
  charged with by what it made; that it is charged nothing at first, it does not say.
- The page appends pushed fine windows to a coarse axis (`app.js:201-202`), although
  `API.md:255-256` tells a client to fold or re-poll. `NothingCountedTwice` speaks of the
  fine axis.
- `session.rs:194` calls a session's id "Stable across requests"; it moves when an emitter
  with an earlier start joins. A page that asked for the old id gets a 404 and another
  choice; `EndsUpFollowing` shows that it recovers.
- `everyFeedEnded` compares every feed of the session with the one process that ended
  (`app.js:214-220`), so a session told by both a bridge and a probe is never shown as
  ended.
- A snapshot answered before windows pushed since replaces them when it arrives
  (`feed.js:43-46`); a replaced window's unknown names are not looked at
  (`feed.js:56-59`); a reconnect loads no snapshot (`app.js:208-210`).
- The call graph of a bucket has no edge from a caller that reported nothing in it, for
  instance because it is still open (`force.js:45-60`); the flame tree of the same bucket
  shows it.
- `LIGHTWATCH_SOCK` is honoured by the probe only; daemon and bridge go by the socket
  directory.

## Not modelled

- The procedural macros: code generation over syntax trees; what they expand to is
  modelled where it is called. The hasher. The demo application.
- The text of frames, of JSON and of session ids, names and source locations, wall clock
  times, histograms as the page shows them, log lines, `malformed_lines` (a count nothing
  decides by), back-off lengths.
- A connection whose first line is no hello, or a hello of another schema: it ends before
  it changes anything. `read_line`'s cap is `HandlerStops`.
- The stream of a single process (`pump` in `server.rs`): the loop of `fan_in` over one
  receiver, which the page does not use; the process list; static files; the parsing of
  query parameters.
- `Site::enter` inside a finished thread's destructors, which interns a function and opens
  nothing. The census readers of `testing.rs`, one lookup each.
- Drawing on a canvas, tables, tips, and the force simulation, which is numerical.
- Widths beyond the counters that saturate and the rates: `seq`, the counts of frames and
  the raw sums of a distribution (`dist.rs:76, 98`) are taken to fit their integers, and
  the page's sums, doubles, to be exact.
- Weak memory: the census's relaxed accesses are taken in program order.

## What could follow

A theorem for `ReadersAddUp`: with nothing drained the readers see what the books of the
probe see, so that it comes down to sums over contexts taken in another order, by edge, by
function or by chain. A flame tree written as a recursive function rather than as a
recursive operator, so that `PageReadsTheTree` can be proved of it.
