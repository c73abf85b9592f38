------------------------------ MODULE MCStore -------------------------------
(***************************************************************************)
(* The properties of Store that relate its rings to what was pushed or to  *)
(* the page that reads them, and the frames of its small instances.        *)
(***************************************************************************)
EXTENDS MCViews

CONSTANTS f, g, ty,
          ContextTimes   \* bound: the t_ns of a frame that tells contexts

\* "A fine window that can no longer change." (store.rs:123), for the in-order
\* frames of one emitter.
ClosedWindowNeverChanges ==
  inOrder =>
    \A w \in Range(pushed) : Retains(fine, w.index) => Data(fine, w.index) = w.data

Graph(snapshot, bucket) == GraphOf(snapshot.paths, bucket, Cardinality(Functions))

\* Every nanosecond of a bucket is in its flame graph, its call graph and its strip.
DrawsAll(snapshot, bucket) ==
  /\ BuildTree(snapshot.paths, bucket).total = TotalSelf(bucket)
  /\ SumOf(Graph(snapshot, bucket).nodes) = TotalSelf(bucket)
  /\ bucket.stacks # << >> =>
       SumOf(CpuColumn(snapshot, bucket, [a \in Functions |-> a])) = TotalSelf(bucket)

\* A coarse window none of whose fine ones is gone.
WholeInFine(index) ==
  Retains(coarse, index) /\ Oldest(fine) * FineResolution <= index * CoarseResolution

ReadsTheCoarse(snapshot, bucket) ==
  LET told == Data(coarse, bucket.key)
      graph == Graph(snapshot, bucket)
  IN /\ \A p \in PathIds : Saturated(Held(bucket.stacks, p)) = told.stacks[p]
     /\ \A a, b \in DOMAIN graph.nodes :
          Saturated(Held(graph.edges, <<a, b>>)) = told.edges[<<a, b>>]

\* One tree, read at both ends: what the page folds out of the fine windows is what the
\* daemon's coarse window of that stretch holds, context by context and, between the
\* functions its graph shows, edge by edge; none of it is left undrawn; and where the
\* recent windows add up within a u64, the header's cores are the functions' rates
\* together (buckets.js:23-66, flame.js:22-66, force.js:31-62, timeline.js:25-44,
\* feed.js:116-125; store.rs:312-341, 365-375, api.rs:324-374).  Beyond a u64 the rates
\* wrap, or the request panics, where quantity.rs:20-23 would have them saturate: those
\* are exempt.
PageReadsTheTree ==
  LET snapshot == Snapshot("fine", FineCapacity)
      buckets == Fold(snapshot.windows, Per(CoarseResolution, FineResolution))
      rates == [a \in functions |-> snapshot.functions[a].self_ns_per_sec.of]
  IN snapshot # None =>
       /\ RatesFit =>
            Cores(snapshot.windows, FineResolution, RateWindow).of = SumOf(rates)
       /\ \A i \in DOMAIN buckets :
            /\ DrawsAll(snapshot, buckets[i])
            /\ WholeInFine(buckets[i].key) => ReadsTheCoarse(snapshot, buckets[i])

-----------------------------------------------------------------------------
(* Frames.                                                                 *)
RegFunction(a) == [kind |-> "function", id |-> a]
RegType(y) == [kind |-> "type", id |-> y]
RegPath(p, parent, a) == [kind |-> "path", id |-> p, parent |-> parent, func |-> a]

Calls(a, n) == [kind |-> "calls", func |-> a, amount |-> n]
Stack(p, n) == [kind |-> "stack", path |-> p, amount |-> n]
Census(y, n) == [kind |-> "census", ty |-> y, live |-> n]

TreeRegisters ==
  { << >>, <<RegFunction(f)>>, <<RegFunction(f), RegFunction(g), RegPath(1, 0, f)>>,
    <<RegPath(2, 1, f), RegPath(3, 2, f)>>, <<RegPath(2, 1, g)>>, <<RegPath(3, 1, g)>>,
    <<RegPath(1, 0, g)>>, <<RegPath(1, 2, f)>>, <<RegPath(3, 0, f), RegPath(2, 0, g)>> }
TreeEvents ==
  { << >>, <<Stack(1, 1), Stack(2, 1)>>, <<Stack(3, 2)>>, <<Stack(2, 1), Stack(3, 1)>> }

RingRegisters == { <<RegFunction(f), RegType(ty)>> }
RingEvents == { << >>, <<Calls(f, 1)>>, <<Census(ty, 1), Calls(f, 2)>>, <<Census(ty, 2)>> }

AnyRegisters == TreeRegisters \cup RingRegisters
AnyEvents == TreeEvents \cup RingEvents

VARIABLE program   \* which of two the process is: what it tells, and over which sockets

SocketsOf ==
  [contexts |-> {CHOOSE c \in Connections : TRUE}, counts |-> Connections]

FramesOf ==
  [contexts |-> [seq: Seqs, t: ContextTimes, registers: TreeRegisters, events: TreeEvents],
   counts |-> [seq: Seqs, t: Times, registers: RingRegisters, events: RingEvents]]

MCInit == Init /\ program \in DOMAIN FramesOf

\* Next, for the frames of one program.
MCNext ==
  /\ \E c \in SocketsOf[program] :
       \/ Admit(c) \/ Connect(c) \/ Disconnect(c)
       \/ \E frame \in FramesOf[program] : ApplyFrame(c, frame)
  /\ UNCHANGED program

MCSpec == MCInit /\ [][MCNext]_<<vars, program>>
=============================================================================
