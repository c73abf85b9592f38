------------------------------- MODULE Views --------------------------------
(***************************************************************************)
(* What a reader makes of a process: the snapshot the daemon answers with  *)
(* (crates/lightwatch-daemon/src/api.rs) and what the page folds it into   *)
(* (web/buckets.js, flame.js, force.js, timeline.js, palette.js).  Every   *)
(* one is a pure function.  A JavaScript Map is a function on the keys it  *)
(* has; calls and self time are one amount, as in Store, and a reading's   *)
(* live count stands for its bytes too.  The daemon's sums have the width  *)
(* of their u64; the page's are doubles, taken to be exact.                *)
(***************************************************************************)
EXTENDS Store, FiniteSetsExt

CONSTANTS RateWindow,      \* RATE_WINDOW_MS, in the unit of the resolutions
          OverflowChecks   \* whether a sum past u64::MAX panics, as in a debug build

ASSUME RatesHaveAWindow == RateWindow \in Nat \ {0}
ASSUME BuildIsOneOrTheOther == OverflowChecks \in BOOLEAN

SumOf(map) == MapThenSumSet(LAMBDA k : map[k], DOMAIN map)

-----------------------------------------------------------------------------
(* api.rs.                                                                 *)

\* The entries a map of the store has; an amount of zero is none.
Entries(amounts) == Restrict(amounts, {k \in DOMAIN amounts : amounts[k] # 0})

WindowJson(w) ==
  [index |-> w.index,
   calls |-> Entries(w.data.calls), edges |-> Entries(w.data.edges),
   stacks |-> Entries(w.data.stacks),
   census |-> Restrict(w.data.census, {y \in Types : w.data.census[y] # NoReading})]

\* Only the contexts something was reported of.
PathsJsonReported == Restrict(paths, {p \in PathIds : totals.stacks[p] # 0})

PathsJson == Restrict(paths, {p \in PathIds : paths[p] # NoNode})

\* Rates come off the fine ring, whatever the axis.
Recent == Trimmed(fine, Max({1, RateWindow \div FineResolution}))

\* What the recent windows hold of a function.
CallsHeld(a) == MapThenSumSet(LAMBDA i : Recent[i].data.calls[a], DOMAIN Recent)

SelfHeld(a) ==
  MapThenSumSet(LAMBDA i : MapThenSumSet(LAMBDA p : Recent[i].data.stacks[p],
                                         {p \in PathIds : paths[p].func = a}),
                DOMAIN Recent)

\* Each window saturates, and their sum is plain addition, which does not.
Wrapped(sum) == sum % (MaxCumulative + 1)

CallsRecently(a) == Wrapped(CallsHeld(a))
SelfRecently(a) == Wrapped(SelfHeld(a))

RatesFit == \A a \in functions : CallsHeld(a) <= MaxCumulative /\ SelfHeld(a) <= MaxCumulative

\* A rate is an amount over the time the windows cover; over no time it is nothing.
PerSec(amount) == [of |-> amount, over |-> Len(Recent) * FineResolution]

FunctionsJson ==
  [a \in functions |-> [calls_total |-> totals.calls[a], self_ns_total |-> selfTotals[a],
                        calls_per_sec |-> PerSec(CallsRecently(a)),
                        self_ns_per_sec |-> PerSec(SelfRecently(a))]]

CountsJson ==
  [frames |-> counts.frames, unknown_id |-> counts.unknown_id,
   missed_frames |-> counts.missed_frames, late_frames |-> counts.late_frames,
   functions |-> Cardinality(functions), types |-> Cardinality(types),
   paths |-> Cardinality(DOMAIN PathsJson), edges |-> Cardinality(DOMAIN Entries(totals.edges))]

Summary ==
  [connected |-> live > 0, ended |-> ended, last_t |-> lastT, counts |-> CountsJson]

\* The newest windows of one ring, at most as many as asked for; nothing where a sum
\* panicked on the way.
Snapshot(resolution, limit) ==
  LET ring == Trimmed(IF resolution = "fine" THEN fine ELSE coarse, limit)
  IN IF OverflowChecks /\ ~RatesFit THEN None
     ELSE [process |-> Summary, resolution |-> resolution, functions |-> FunctionsJson,
           types |-> [y \in types |-> totals.census[y]],
           edges |-> Entries(totals.edges), paths |-> PathsJson,
           path_totals |-> [p \in DOMAIN PathsJson |-> totals.stacks[p]],
           windows |-> [i \in DOMAIN ring |-> WindowJson(ring[i])]]

-----------------------------------------------------------------------------
(* feed.js: what the page can say of one process.                          *)

HasTree(feed) == DOMAIN feed.paths # {}

\* The functions down to a context, outermost first, the innermost 64 of them.
ChainOf(tree, path) ==
  LET above[p \in DOMAIN tree \cup {tree[q].parent : q \in DOMAIN tree} \cup {path}] ==
        IF p \notin DOMAIN tree THEN << >> ELSE Append(above[tree[p].parent], tree[p].func)
  IN Trimmed(above[path], 64)

\* Self time over the trailing windows, and the time they cover.
Cores(windows, window, rateWindow) ==
  LET recent == Trimmed(windows, Max({1, (2 * rateWindow + window) \div (2 * window)}))
  IN [of |-> MapThenSumSet(LAMBDA i : SumOf(recent[i].stacks), DOMAIN recent),
      over |-> Len(recent) * window]

-----------------------------------------------------------------------------
(* buckets.js.                                                             *)

Held(map, key) == IF key \in DOMAIN map THEN map[key] ELSE 0

\* Deltas add.
Added(maps) ==
  [k \in UNION {DOMAIN maps[i] : i \in DOMAIN maps} |->
     MapThenSumSet(LAMBDA i : Held(maps[i], k), DOMAIN maps)]

\* Readings replace.
Replaced(maps) == FoldLeft(LAMBDA held, map : map @@ held, << >>, maps)

Each(windows, field) == [i \in DOMAIN windows |-> windows[i][field]]

\* A bucket that heard nothing of a type holds the reading of the one before.
Carried(buckets) ==
  FoldLeft(LAMBDA done, bucket :
             LET before == IF done = << >> THEN << >> ELSE Last(done).census
             IN Append(done, [bucket EXCEPT !.carried = DOMAIN before \ DOMAIN bucket.census,
                                            !.census = @ @@ before]),
           << >>, buckets)

Per(bucket, window) == Max({1, (2 * bucket + window) \div (2 * window)})

\* Contiguous: an idle stretch is empty buckets.
Fold(windows, per) ==
  IF windows = << >> THEN << >>
  ELSE LET first == windows[1].index \div per
           last == Last(windows).index \div per
           In(key) == SelectSeq(windows, LAMBDA w : w.index \div per = key)
       IN Carried([i \in 1..(last - first + 1) |->
            LET inside == In(first + i - 1)
            IN [key |-> first + i - 1, stacks |-> Added(Each(inside, "stacks")),
                calls |-> Added(Each(inside, "calls")),
                census |-> Replaced(Each(inside, "census")), carried |-> {}]])

TotalSelf(bucket) == SumOf(bucket.stacks)

-----------------------------------------------------------------------------
(* flame.js: one bucket's tree, a context's width being its own time and   *)
(* all beneath it.                                                         *)

\* Every reported context the feed can name, and every ancestor of one.
Nodes(tree, bucket) ==
  LET above[p \in DOMAIN tree \cup {tree[q].parent : q \in DOMAIN tree}] ==
        IF p \notin DOMAIN tree THEN {} ELSE {p} \cup above[tree[p].parent]
  IN UNION {above[p] : p \in DOMAIN bucket.stacks \cap DOMAIN tree}

BuildTree(tree, bucket) ==
  LET nodes == Nodes(tree, bucket)
      children(p) == {c \in nodes : tree[c].parent = p}
      inclusive[p \in nodes] ==
        Held(bucket.stacks, p) + MapThenSumSet(LAMBDA c : inclusive[c], children(p))
      roots == {p \in nodes : tree[p].parent \notin nodes}
  IN [nodes |-> nodes, roots |-> roots, inclusive |-> inclusive,
      parent |-> [p \in nodes |-> tree[p].parent],
      total |-> MapThenSumSet(LAMBDA p : inclusive[p], roots)]

\* Siblings side by side, the widest first; a box too thin to see is left out with all
\* it holds.  In units of time: a pixel is total / width of them.
Layout(flame, thinnest) ==
  LET wider(a, b) == \/ flame.inclusive[a] > flame.inclusive[b]
                     \/ flame.inclusive[a] = flame.inclusive[b] /\ a < b
      siblings(p) == IF p \in flame.roots THEN flame.roots
                     ELSE {c \in flame.nodes : flame.parent[c] = flame.parent[p]}
      x[p \in flame.nodes] ==
        (IF p \in flame.roots THEN 0 ELSE x[flame.parent[p]])
          + MapThenSumSet(LAMBDA s : flame.inclusive[s], {s \in siblings(p) : wider(s, p)})
      depth[p \in flame.nodes] ==
        IF p \in flame.roots THEN 0 ELSE depth[flame.parent[p]] + 1
  IN {[node |-> p, x |-> x[p], w |-> flame.inclusive[p], depth |-> depth[p]] :
        p \in {q \in flame.nodes : flame.inclusive[q] >= thinnest /\ flame.total > 0}}

-----------------------------------------------------------------------------
(* force.js: the call graph of one bucket, its busiest functions.          *)

GraphOf(tree, bucket, budget) ==
  LET active == DOMAIN bucket.stacks \cap DOMAIN tree
      self(a) == MapThenSumSet(LAMBDA p : bucket.stacks[p], {p \in active : tree[p].func = a})
      ranked == SetToSortSeq({tree[p].func : p \in active}, LAMBDA a, b : self(a) > self(b))
      kept == {ranked[i] : i \in 1..Min({budget, Len(ranked)})}
      stands(a, b) == {p \in active : /\ tree[p].parent \in DOMAIN tree
                                      /\ tree[tree[p].parent].func = a /\ tree[p].func = b}
  IN [nodes |-> [a \in kept |-> self(a)],
      edges |-> [e \in {d \in kept \X kept : stands(d[1], d[2]) # {}} |->
                   MapThenSumSet(LAMBDA p : bucket.stacks[p], stands(e[1], e[2]))],
      hidden |-> Len(ranked) - Cardinality(kept)]

-----------------------------------------------------------------------------
(* timeline.js and palette.js.                                             *)

Grouped(map, group) ==
  [h \in {group[k] : k \in DOMAIN map} |->
     MapThenSumSet(LAMBDA k : map[k], {k \in DOMAIN map : group[k] = h})]

\* Self time by module where there is a tree, else each function's own duration.
CpuColumn(feed, bucket, groupOf) ==
  IF HasTree(feed)
    THEN Grouped(Restrict(bucket.stacks, DOMAIN bucket.stacks \cap DOMAIN feed.paths),
                 [p \in DOMAIN feed.paths |-> groupOf[feed.paths[p].func]])
    ELSE Grouped(bucket.calls, groupOf)

MemoryColumn(bucket) == [y \in DOMAIN bucket.census |-> bucket.census[y].live]

\* The top of a strip: its tallest column, unless that dwarfs the 95th percentile.
CeilingFor(columns) ==
  LET sums == SelectSeq([i \in DOMAIN columns |-> SumOf(columns[i])], LAMBDA s : s > 0)
      sorted == SortSeq(sums, <)
      busiest == Last(sorted)
      percentile == sorted[((Len(sorted) - 1) * 95) \div 100 + 1]
      ceiling == IF busiest > percentile * 3 THEN percentile ELSE busiest
  IN IF sums = << >> THEN [peak |-> 1, clipped |-> FALSE, busiest |-> 0]
     ELSE [peak |-> Max({1, ceiling}), clipped |-> ceiling < busiest, busiest |-> busiest]

\* Each group the next slot, in the order of its lowest function id; slots held stay.
Learn(slots, groupOf) ==
  LET first(h) == Min({a \in DOMAIN groupOf : groupOf[a] = h})
      unseen == SetToSortSeq(Range(groupOf) \ DOMAIN slots, LAMBDA g, h : first(g) < first(h))
  IN slots @@ [h \in Range(unseen) |->
                 Cardinality(DOMAIN slots) + (CHOOSE i \in DOMAIN unseen : unseen[i] = h) - 1]

Other == "other"

\* Never cycled: past the hues every group is "other".
ColorOf(slots, hues, group) ==
  IF group \notin DOMAIN slots \/ slots[group] >= hues THEN Other ELSE slots[group]

Legend(slots, hues) ==
  [named |-> {h \in DOMAIN slots : slots[h] < hues},
   overflow |-> Cardinality({h \in DOMAIN slots : slots[h] >= hues})]
=============================================================================
