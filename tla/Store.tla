------------------------------- MODULE Store --------------------------------
(***************************************************************************)
(* What the daemon keeps of one process and does with its frames           *)
(* (crates/lightwatch-daemon/src/store.rs, quantity.rs).  Every operation  *)
(* runs under the process's write lock, so each handler is one step; the   *)
(* connection handlers of one process (crates/.../ingest.rs) interleave.   *)
(*                                                                         *)
(* count and self_ns of an event, and count and ns, accumulate in the same *)
(* places: one amount stands for both.  Names, locations and size buckets  *)
(* ride along and are left out.                                            *)
(***************************************************************************)
EXTENDS Ring, Functions, FiniteSets

CONSTANTS Functions, Types, PathIds,  \* ids the emitters may name
          NoFunction, NoReading,      \* "no such function", "no reading yet"
          Connections,                \* sockets opened by this process's emitter
          None,                       \* Option::None
          FineResolution, FineCapacity, CoarseResolution, CoarseCapacity,
          MaxCumulative,              \* u64::MAX, where accumulation saturates
          RegisterLists, EventLists,  \* what a frame may carry
          Times, Seqs,                \* the t_ns and seq a frame may carry
          MaxFrames                   \* bound: frames applied

ASSUME StoreSentinels ==
  NoFunction \notin Functions /\ None \notin Nat /\ NoReading \notin [live: Nat, at: Nat]
ASSUME ConnectionsFinite == IsFiniteSet(Connections)
ASSUME StoreSizes ==
  /\ PathIds \subseteq Nat \ {0} /\ IsFiniteSet(PathIds)
  /\ {FineResolution, FineCapacity, CoarseResolution, CoarseCapacity} \subseteq Nat \ {0}
  /\ MaxCumulative \in Nat
  /\ Times \subseteq Nat /\ Seqs \subseteq Nat
\* Ten fine windows make a coarse one, and the coarse ring reaches further back
\* (ring.rs:13-16).
ASSUME StoreResolutions ==
  /\ CoarseResolution % FineResolution = 0
  /\ FineCapacity * FineResolution <= CoarseCapacity * CoarseResolution

\* What a frame may register, and what it may report.
RegisterType ==
  [kind: {"function"}, id: Functions] \cup [kind: {"type"}, id: Types] \cup
  [kind: {"path"}, id: PathIds, parent: PathIds \cup {0}, func: Functions]
EventType ==
  [kind: {"calls"}, func: Functions, amount: Nat] \cup
  [kind: {"stack"}, path: Nat, amount: Nat] \cup
  [kind: {"census"}, ty: Types, live: Nat]
ASSUME StoreFrames ==
  RegisterLists \subseteq Seq(RegisterType) /\ EventLists \subseteq Seq(EventType)

VARIABLES functions,   \* the registered functions
          types,       \* the registered types
          paths,       \* PathId -> node, NoNode where not registered
          totals,      \* lifetime: calls, stacks (path_totals), edges, latest census
          selfTotals,  \* FunctionState.self_ns_total
          fine, coarse,      \* the two rings
          open,        \* open_fine_index
          seq,         \* last_seq
          lastT,       \* last_t_ns
          counts,      \* Counts: frames, unknown_id, missed_frames, late_frames
          handler,     \* per connection: "none", "admitted", "streaming", "closed"
          live,        \* live_connections
          ended,       \* ended_unix_ms is set
          pushed,      \* history: the windows broadcast, in order
          inOrder      \* history: no frame was older than the one before it

registered == <<functions, types, paths>>
rings == <<fine, coarse, open>>
vars == <<registered, totals, selfTotals, rings, seq, lastT, counts, handler, live,
          ended, pushed, inOrder>>

NoNode == [parent |-> 0, func |-> NoFunction]
NodeType == [parent: PathIds \cup {0}, func: Functions]

Empty == [calls |-> [f \in Functions |-> 0],
          stacks |-> [p \in PathIds |-> 0],
          edges |-> [e \in Functions \X Functions |-> 0],
          census |-> [ty \in Types |-> NoReading]]

Amount == 0..MaxCumulative
Reading == [live: Nat, at: Times] \cup {NoReading}
DataType == [calls: [Functions -> Amount], stacks: [PathIds -> Amount],
             edges: [Functions \X Functions -> Amount], census: [Types -> Reading]]
WindowType == [index: Nat, data: DataType]

TypeOK ==
  /\ functions \subseteq Functions /\ types \subseteq Types
  /\ paths \in [PathIds -> NodeType \cup {NoNode}]
  /\ totals \in DataType
  /\ selfTotals \in [Functions -> Amount]
  /\ fine \in Seq(WindowType) /\ coarse \in Seq(WindowType)
  /\ open \in Nat \cup {None}
  /\ seq \in Seqs \cup {None} /\ lastT \in Nat
  /\ counts \in [frames: Nat, unknown_id: Nat, missed_frames: Nat, late_frames: Nat]
  /\ handler \in [Connections -> {"none", "admitted", "streaming", "closed"}]
  /\ live \in Nat /\ ended \in BOOLEAN
  /\ pushed \in Seq(WindowType) /\ inOrder \in BOOLEAN

Init ==
  /\ functions = {} /\ types = {} /\ paths = [p \in PathIds |-> NoNode]
  /\ totals = Empty /\ selfTotals = [f \in Functions |-> 0]
  /\ fine = << >> /\ coarse = << >> /\ open = None
  /\ seq = None /\ lastT = 0
  /\ counts = [frames |-> 0, unknown_id |-> 0, missed_frames |-> 0, late_frames |-> 0]
  /\ handler = [c \in Connections |-> "none"]
  /\ live = 0 /\ ended = FALSE
  /\ pushed = << >> /\ inOrder = TRUE

-----------------------------------------------------------------------------
(* ProcessState::register, over what the stream has introduced so far.     *)

\* Plain addition, which wraps.
AccumulateWrapping(a, delta) == (a + delta) % (MaxCumulative + 1)

\* Cumulative::accumulate.
Accumulate(a, delta) == IF a + delta > MaxCumulative THEN MaxCumulative ELSE a + delta

\* A context taken on its own word, whatever it hangs off.
AcceptsOrphan(reg, r) == r.func \in reg.functions /\ reg.paths[r.id] = NoNode

\* A context is only meaningful once both ends of it are known.
Accepts(reg, r) ==
  /\ r.id > r.parent
  /\ r.func \in reg.functions
  /\ r.parent # 0 => reg.paths[r.parent] # NoNode

\* Replacing whatever the id named before.
RegisterPathAnew(reg, r) ==
  IF ~Accepts(reg, r) THEN [reg EXCEPT !.unknown = @ + 1]
  ELSE [reg EXCEPT !.paths[r.id] = [parent |-> r.parent, func |-> r.func]]

\* A context's identity cannot change once it is registered.
RegisterPath(reg, r) ==
  LET node == [parent |-> r.parent, func |-> r.func] IN
  IF ~Accepts(reg, r) THEN [reg EXCEPT !.unknown = @ + 1]
  ELSE IF reg.paths[r.id] = NoNode THEN [reg EXCEPT !.paths[r.id] = node]
  ELSE IF reg.paths[r.id] # node THEN [reg EXCEPT !.unknown = @ + 1]
  ELSE reg

Register(reg, r) ==
  CASE r.kind = "function" -> [reg EXCEPT !.functions = @ \cup {r.id}]
    [] r.kind = "type" -> [reg EXCEPT !.types = @ \cup {r.id}]
    [] r.kind = "path" -> RegisterPath(reg, r)

Registered(registers) ==
  FoldLeft(Register, [functions |-> functions, types |-> types, paths |-> paths,
                      unknown |-> 0], registers)

-----------------------------------------------------------------------------
(* accumulate_totals and fold: the same events into the lifetime totals    *)
(* and into a window of each ring.                                         *)

Known(reg, e) ==
  CASE e.kind = "calls" -> e.func \in reg.functions
    [] e.kind = "stack" -> e.path \in PathIds /\ reg.paths[e.path] # NoNode
    [] e.kind = "census" -> e.ty \in reg.types

\* The events that name what is registered, in their order.
Survivors(reg, events) ==
  FoldLeft(LAMBDA kept, e : IF Known(reg, e) THEN Append(kept, e) ELSE kept, << >>, events)

CallerOf(tree, node) == IF node.parent = 0 THEN NoFunction ELSE tree[node.parent].func

\* The edge counted under the path's own function, as if its caller were itself.
AddStackToOwnEdge(tree, data, e) ==
  LET node == tree[e.path] IN
  [data EXCEPT !.stacks[e.path] = Accumulate(@, e.amount),
               !.edges[<<node.func, node.func>>] = Accumulate(@, e.amount)]

\* The context's own total, and the edge it stands for.
AddStack(tree, data, e) ==
  LET node == tree[e.path]
      caller == CallerOf(tree, node)
      stacked == [data EXCEPT !.stacks[e.path] = Accumulate(@, e.amount)]
  IN  IF caller = NoFunction THEN stacked
      ELSE [stacked EXCEPT !.edges[<<caller, node.func>>] = Accumulate(@, e.amount)]

\* The last reading to arrive replaces the one held.
RecordArrival(held, reading) == reading

\* A newer reading wins regardless of arrival order; of two taken at the same
\* time, the later to arrive.
Record(held, reading) ==
  IF held # NoReading /\ held.at > reading.at THEN held ELSE reading

Add(tree, data, e, at) ==
  CASE e.kind = "calls" -> [data EXCEPT !.calls[e.func] = Accumulate(@, e.amount)]
    [] e.kind = "stack" -> AddStack(tree, data, e)
    [] e.kind = "census" ->
         [data EXCEPT !.census[e.ty] = Record(@, [live |-> e.live, at |-> at])]

Folded(tree, data, applied, at) ==
  FoldLeft(LAMBDA d, e : Add(tree, d, e, at), data, applied)

SelfFolded(tree, self, applied) ==
  FoldLeft(LAMBDA s, e : IF e.kind = "stack"
                         THEN [s EXCEPT ![tree[e.path].func] = Accumulate(@, e.amount)]
                         ELSE s,
           self, applied)

FoldAt(ring, index, tree, applied, at) ==
  IF Retains(ring, index)
  THEN [ring EXCEPT ![Slot(ring, index)].data = Folded(tree, @, applied, at)]
  ELSE ring

\* What survived validation lands in ring, in the window of its time, unless that
\* window is gone; a frame nothing survived of leaves the ring as it was.
RingAfter(ring, resolution, cap, tree, applied, t) ==
  IF applied = << >> THEN ring
  ELSE LET index == IndexOf(t, resolution)
       IN  FoldAt(WindowFor(ring, index, cap, Empty), index, tree, applied, t)

-----------------------------------------------------------------------------
(* apply_frame and its parts.                                              *)

\* The difference taken of every frame, a repeated number's included.
MissedUnguarded(frame) == IF seq = None THEN 0 ELSE frame.seq - seq - 1

\* What the numbers skipped.
Missed(frame) ==
  IF seq # None /\ frame.seq > seq + 1 THEN frame.seq - seq - 1 ELSE 0

\* A window closed by any frame of another one, older frames included.
ClosesOnAnyOther(index) == open # None /\ index # open

\* The open window is put out of reach by a frame of a later one.
Closes(index) == open # None /\ index > open

\* What close_open_window_before hands to the broadcast.
PushClosed(index) ==
  pushed' = IF Closes(index) /\ Retains(fine, open)
            THEN Append(pushed, fine[Slot(fine, open)]) ELSE pushed

ApplyFrame(c, frame) ==
  LET index == IndexOf(frame.t, FineResolution)
      reg == Registered(frame.registers)
      applied == Survivors(reg, frame.events)
      fine_ == RingAfter(fine, FineResolution, FineCapacity, reg.paths, applied, frame.t)
  IN
  /\ handler[c] = "streaming"
  /\ counts.frames < MaxFrames
  /\ seq' = frame.seq
  /\ lastT' = IF frame.t > lastT THEN frame.t ELSE lastT
  /\ functions' = reg.functions /\ types' = reg.types /\ paths' = reg.paths
  /\ PushClosed(index)
  /\ open' = IF open = None \/ Closes(index) THEN index ELSE open
  /\ totals' = Folded(reg.paths, totals, applied, frame.t)
  /\ selfTotals' = SelfFolded(reg.paths, selfTotals, applied)
  /\ coarse' = RingAfter(coarse, CoarseResolution, CoarseCapacity, reg.paths, applied,
                         frame.t)
  /\ fine' = fine_
  /\ counts' = [frames |-> counts.frames + 1,
                unknown_id |-> counts.unknown_id + reg.unknown
                                 + Len(frame.events) - Len(applied),
                missed_frames |-> counts.missed_frames + Missed(frame),
                late_frames |-> counts.late_frames +
                  (IF applied # << >> /\ ~Retains(fine_, index) THEN 1 ELSE 0)]
  /\ inOrder' = (inOrder /\ frame.t >= lastT)
  /\ UNCHANGED <<handler, live, ended>>

-----------------------------------------------------------------------------
(* Registry::connect: the process entry is found under one lock and marked *)
(* connected under another; Registry::disconnect at the end of the stream. *)
Admit(c) ==
  /\ handler[c] = "none"
  /\ handler' = [handler EXCEPT ![c] = "admitted"]
  /\ UNCHANGED <<registered, totals, selfTotals, rings, seq, lastT, counts, live, ended,
                 pushed, inOrder>>

Connect(c) ==
  /\ handler[c] = "admitted"
  /\ handler' = [handler EXCEPT ![c] = "streaming"]
  /\ live' = live + 1
  /\ ended' = FALSE
  /\ UNCHANGED <<registered, totals, selfTotals, rings, seq, lastT, counts, pushed,
                 inOrder>>

HasContent(data) == data # Empty

\* Forgetting the open window instead of sealing it.
DropOpenWindow == UNCHANGED pushed /\ open' = None

\* Pushing everything still retained, what was already pushed included.
FlushWholeRing ==
  pushed' = pushed \o SelectSeq(fine, LAMBDA w : HasContent(w.data)) /\ open' = None

\* flush_open_window: the window still open is sealed and pushed.
FlushOpenWindow ==
  /\ pushed' = IF open # None /\ Retains(fine, open) /\ HasContent(Data(fine, open))
               THEN Append(pushed, fine[Slot(fine, open)]) ELSE pushed
  /\ open' = None

\* The process ended by whichever connection closes first.
EndOnAnyClose(remaining) ==
  ended' = TRUE /\ FlushOpenWindow

\* Only the last connection to close ends the process.
EndWhenSilent(remaining) ==
  IF remaining = 0
  THEN ended' = TRUE /\ FlushOpenWindow
  ELSE UNCHANGED <<ended, pushed, open>>

Disconnect(c) ==
  /\ handler[c] = "streaming"
  /\ handler' = [handler EXCEPT ![c] = "closed"]
  /\ live' = IF live = 0 THEN 0 ELSE live - 1
  /\ EndWhenSilent(live')
  /\ UNCHANGED <<registered, totals, selfTotals, fine, coarse, seq, lastT, counts,
                 inOrder>>

Frames == [seq: Seqs, t: Times, registers: RegisterLists, events: EventLists]

Next ==
  \E c \in Connections :
    \/ Admit(c) \/ Connect(c) \/ Disconnect(c)
    \/ \E frame \in Frames : ApplyFrame(c, frame)

Spec == Init /\ [][Next]_vars

-----------------------------------------------------------------------------
\* Both rings stay one contiguous stretch of time within their capacity
\* (ring.rs:110, 181-182).
RingsContiguous == IsRing(fine, FineCapacity) /\ IsRing(coarse, CoarseCapacity)

\* The windows of a stream whose frames arrive in time order are broadcast in the
\* order of time, across its reconnects too (store.rs:275-289, 377-388).
PushedInOrder ==
  inOrder => \A i, j \in DOMAIN pushed : i < j => pushed[i].index <= pushed[j].index

\* Whatever a stream registers, in whatever order, the stored contexts are a
\* forest over registered functions in which walking upward terminates
\* (API.md:216-219, store.rs:239-262).
TreeWellFormed ==
  \A p \in PathIds : paths[p] # NoNode =>
    /\ paths[p].func \in functions
    /\ paths[p].parent < p
    /\ paths[p].parent # 0 => paths[paths[p].parent] # NoNode

\* A context's identity never changes after it is registered, so the history
\* attributed to it stays its own (store.rs:252-260).
ContextsKeepTheirNames ==
  [][\A p \in PathIds : paths[p] # NoNode => paths'[p] = paths[p]]_paths

\* A stream whose frames arrive in time order leaves nothing unpushed when it
\* ends: every window with content that is still retained was broadcast with the
\* content it has (store.rs:275-289, 377-388).
EndedMeansPushed ==
  inOrder /\ ended =>
    \A w \in Range(fine) : HasContent(w.data) => w \in Range(pushed)

Saturated(a) == IF a > MaxCumulative THEN MaxCumulative ELSE a

AllData == {totals} \cup {w.data : w \in Range(fine) \cup Range(coarse)}

\* The call graph is a reading of the tree and never a second set of counters: in
\* the lifetime totals and in every window, an edge holds what the contexts that
\* stand for it hold (store.rs:329-340).
EdgesReadTheTree ==
  \A data \in AllData : \A a, b \in Functions :
    LET contexts == {p \in PathIds : /\ paths[p].func = b
                                     /\ paths[p].parent # 0
                                     /\ paths[paths[p].parent].func = a}
    IN  data.edges[<<a, b>>]
          = Saturated(MapThenSumSet(LAMBDA p : data.stacks[p], contexts))

\* A function's own time is what its contexts hold, however often they were
\* registered again (store.rs:92-94, 320-322).
SelfReadsTheTree ==
  \A a \in Functions :
    selfTotals[a] = Saturated(MapThenSumSet(LAMBDA p : totals.stacks[p],
                                            {p \in PathIds : paths[p].func = a}))

\* The calls of a function in each window of a ring.
CallsIn(ring, a) == [i \in DOMAIN ring |-> ring[i].data.calls[a]]

\* Lifetime totals are what the coarse windows hold, until one is evicted or a
\* frame comes too late for all of them.
TotalsMatchCoarse ==
  \A a \in Functions :
    LET held == Saturated(SumFunction(CallsIn(coarse, a)))
    IN  /\ held <= totals.calls[a]
        /\ coarse # << >> /\ Oldest(coarse) = 0 => held = totals.calls[a]

\* The fine windows of a coarse one's time.
Within(w) ==
  {i \in DOMAIN fine : IndexOf(fine[i].index * FineResolution, CoarseResolution) = w.index}

FineSum(w, a) == Saturated(SumFunctionOnSet(CallsIn(fine, a), Within(w)))

\* The two resolutions tell the same story: a coarse window holds everything its
\* retained fine windows hold, and exactly that while none of them is gone
\* (store.rs:365-375).
CoarseCoversFine ==
  \A w \in Range(coarse) : \A a \in Functions :
    /\ FineSum(w, a) <= w.data.calls[a]
    /\ Oldest(fine) * FineResolution <= w.index * CoarseResolution
         => FineSum(w, a) = w.data.calls[a]

\* A census is the reading with the latest time, not the last to arrive: no
\* window holds a newer one than the process, and the window of that time holds
\* the same one if it is retained (store.rs:353-357, ring.rs:99-107).
NewestReadingWins ==
  \A y \in Types :
    LET latest == totals.census[y] IN
    /\ \A w \in Range(fine) : w.data.census[y] # NoReading =>
         /\ latest # NoReading /\ w.data.census[y].at <= latest.at
         /\ IndexOf(w.data.census[y].at, FineResolution) = w.index
    /\ latest # NoReading =>
         LET index == IndexOf(latest.at, FineResolution) IN
         Retains(fine, index) => Data(fine, index).census[y] = latest

\* A process has ended exactly when it had connections and the last of them
\* closed, however the old stream and the new one of a reconnect overlap
\* (store.rs:435-467).
EndedExactlyWhenSilent ==
  /\ live = Cardinality({c \in Connections : handler[c] = "streaming"})
  /\ ended <=> live = 0 /\ \E c \in Connections : handler[c] = "closed"
=============================================================================
