------------------------------ MODULE MCViews -------------------------------
(***************************************************************************)
(* The page's folds checked over bounded inputs.                           *)
(***************************************************************************)
EXTENDS Views

\* Windows as the feed holds them: some idle, some with a delta, some with a reading.
TestWindow(i) ==
  [index |-> i, calls |-> [a \in {1} |-> i], stacks |-> [p \in {1 + (i % 2)} |-> i + 1],
   census |-> IF i % 3 = 0 THEN << >> ELSE [y \in {i % 3} |-> [live |-> i, at |-> i]]]

TestWindows(indices) ==
  LET sorted == SetToSortSeq(indices, <) IN [i \in DOMAIN sorted |-> TestWindow(sorted[i])]

\* "Buckets are contiguous", deltas add up to what the windows held and a reading is the
\* last one taken up to the bucket's end, never a sum (buckets.js:1-13, 20-22, 60-72).
ASSUME FoldKeepsEverything ==
  \A indices \in SUBSET (0..6) \ {{}}, per \in 1..3 :
    LET windows == TestWindows(indices)
        buckets == Fold(windows, per)
        upTo(i, y) == {n \in indices : n \div per <= buckets[i].key /\ n % 3 = y}
    IN /\ \A i \in DOMAIN buckets : buckets[i].key = buckets[1].key + i - 1
       /\ MapThenSumSet(LAMBDA i : TotalSelf(buckets[i]), DOMAIN buckets)
            = MapThenSumSet(LAMBDA n : n + 1, indices)
       /\ \A i \in DOMAIN buckets : \A y \in {1, 2} :
            IF upTo(i, y) = {} THEN y \notin DOMAIN buckets[i].census
            ELSE /\ MemoryColumn(buckets[i])[y] = Max(upTo(i, y))
                 /\ y \in buckets[i].carried <=> Max(upTo(i, y)) \div per < buckets[i].key

\* Contexts over two functions, a node's parent known or not.
TestTrees == [{1, 2, 4} -> {0, 1, 2, 3}]
TestTree(parents) ==
  [p \in {q \in DOMAIN parents : parents[q] < q} |-> [parent |-> parents[p], func |-> p % 2]]
TestStacks == {Entries(stacks) : stacks \in [{1, 2, 4} -> 0..2]}

Apart(a, b) == a.x + a.w <= b.x \/ b.x + b.w <= a.x

\* A box is as wide as its own time and what lies beneath, beneath a box its callees'
\* lie side by side, and the roots together are the whole (flame.js:1-8, 61-92).
ASSUME BoxesNest ==
  \A parents \in TestTrees, stacks \in TestStacks :
    LET tree == TestTree(parents)
        bucket == [stacks |-> stacks]
        flame == BuildTree(tree, bucket)
        boxes == Layout(flame, 1)
    IN /\ flame.total = SumOf(Restrict(stacks, DOMAIN stacks \cap DOMAIN tree))
       /\ \A a, b \in boxes : a # b /\ a.depth = b.depth => Apart(a, b)
       /\ \A a \in boxes : a.depth > 0 =>
            \E b \in boxes : /\ b.node = flame.parent[a.node] /\ b.depth = a.depth - 1
                             /\ b.x <= a.x /\ a.x + a.w <= b.x + b.w

\* Past its budget the graph keeps the busiest, counts the rest, and draws no edge to a
\* function it does not show (force.js:27-62).
ASSUME BudgetKeepsTheBusiest ==
  \A parents \in TestTrees, stacks \in TestStacks, budget \in 1..2 :
    LET tree == TestTree(parents)
        all == GraphOf(tree, [stacks |-> stacks], 9)
        some == GraphOf(tree, [stacks |-> stacks], budget)
    IN /\ all.hidden = 0
       /\ SumOf(all.nodes) = SumOf(Restrict(stacks, DOMAIN stacks \cap DOMAIN tree))
       /\ Cardinality(DOMAIN some.nodes) + some.hidden = Cardinality(DOMAIN all.nodes)
       /\ \A a \in DOMAIN some.nodes, b \in DOMAIN all.nodes \ DOMAIN some.nodes :
            all.nodes[a] >= all.nodes[b]
       /\ \A e \in DOMAIN some.edges : {e[1], e[2]} \subseteq DOMAIN some.nodes

\* A strip is as tall as its busiest bucket, or as the 95th percentile of those that did
\* something where the busiest is more than three times that (timeline.js:69-94).
ASSUME CeilingShowsTheRest ==
  \A n \in 1..4 : \A sums \in [1..n -> {0, 1, 2, 5}] :
    LET ceiling == CeilingFor([i \in 1..n |-> [k \in {1} |-> sums[i]]])
        active == {i \in 1..n : sums[i] > 0}
        over == {i \in active : sums[i] > ceiling.peak}
    IN /\ active # {} => ceiling.busiest = Max({sums[i] : i \in active})
       /\ ceiling.clipped <=> over # {}
       /\ ceiling.clipped => 3 * ceiling.peak < ceiling.busiest
       /\ active # {} => 20 * Cardinality(over) <= Cardinality(active) - 1 + 19

\* "A module that appears later takes the next free slot instead of shuffling the ones
\* already on screen", and no two share one (palette.js:40-57).
ASSUME PaletteNeverRepaints ==
  \A groupOf \in [1..4 -> {"a", "b", "c"}], early \in SUBSET (1..4), hues \in 1..3 :
    LET first == Learn(<< >>, Restrict(groupOf, early))
        slots == Learn(first, groupOf)
    IN /\ \A h \in DOMAIN first : ColorOf(slots, hues, h) = ColorOf(first, hues, h)
       /\ \A g, h \in Legend(slots, hues).named :
            ColorOf(slots, hues, g) = ColorOf(slots, hues, h) => g = h
       /\ Cardinality(Legend(slots, hues).named) + Legend(slots, hues).overflow
            = Cardinality(Range(groupOf))

\* The chain above a context is its callers' and then its own function.
ASSUME ChainReadsUpward ==
  \A parents \in TestTrees :
    LET tree == TestTree(parents)
    IN \A p \in DOMAIN tree :
         ChainOf(tree, p) = Append(ChainOf(tree, tree[p].parent), tree[p].func)
=============================================================================
