---------------------------- MODULE MCProbeCalls ----------------------------
(***************************************************************************)
(* What the drain and the recursion contexts promise of the probe, and its *)
(* small instances.                                                        *)
(***************************************************************************)
EXTENDS Testing

FunctionSymmetry == Permutations(Functions)

\* drain() stops visiting threads that have exited (calls.rs:386-387).
ExitedThreadForgotten ==
  \A t \in Threads : phase[t] = "gone" ~> t \notin Range(slots)

\* "One reference alone means the thread is gone and drained" (calls.rs:394).
ExitedThreadFullyDrained == lost = Zero

\* "for the shared one that is one per outermost entry, not one per level"
\* (API.md:226-229): when nothing is open, a recursion context was opened at
\* most as often as the outermost context it hangs off.
RecursionCountsOncePerEntry ==
  (\A t \in Threads : stack[t] = << >>) =>
    \A p \in DOMAIN nodes :
      LET q == nodes[p].parent IN
      q # 0 /\ nodes[q].func = nodes[p].func
        => Total.stacks[p].count <= Total.stacks[q].count
=============================================================================
