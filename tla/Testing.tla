------------------------------ MODULE Testing -------------------------------
(***************************************************************************)
(* How a program's own tests read the probe                                *)
(* (crates/lightwatch-probe/src/testing.rs): the accumulators of the       *)
(* threads that are registered, left in place, against the context table.  *)
(* A function stands for its name, and an entry that is all zeros for an   *)
(* entry that is not there.  The chains it reads off the call tree are     *)
(* those a window tells, so what holds of them is stated here.             *)
(***************************************************************************)
EXTENDS ProbeCalls, FiniteSetsExt

\* calls::snapshot.
Recording == FoldSet(LAMBDA t, acc : Absorb(acc, accum[t]), Zero, Range(slots))

Reported(path) == Recording.stacks[path] # [count |-> 0, self_ns |-> 0]

Edge(id) == <<nodes[nodes[id].parent].func, nodes[id].func>>

\* Read off the call tree: an edge's weight is how often the contexts on it were entered.
EdgeCounts ==
  LET recorded == {id \in DOMAIN nodes : nodes[id].parent # 0 /\ Reported(id)}
  IN [edge \in {Edge(id) : id \in recorded} |->
        MapThenSumSet(LAMBDA id : Recording.stacks[id].count,
                      {id \in recorded : Edge(id) = edge})]

\* ChainOf[id] names the functions from the root of the tree down to id.
ChainOf[id \in 0..Len(nodes)] ==
  IF id = 0 THEN << >> ELSE Append(ChainOf[nodes[id].parent], nodes[id].func)

\* Every context recorded so far by its chain.
Stacks ==
  LET recorded == {id \in DOMAIN nodes : Reported(id)}
  IN [chain \in {ChainOf[id] : id \in recorded} |->
        Recording.stacks[CHOOSE id \in recorded : ChainOf[id] = chain]]

PathCount == Len(nodes)
DeepestChain == Max({Len(ChainOf[id]) : id \in 0..Len(nodes)})

\* One context of the function, as if it had no other.
SelfNsOfOne(func) ==
  LET ids == {id \in DOMAIN nodes : nodes[id].func = func}
  IN IF ids = {} THEN 0 ELSE Recording.stacks[Min(ids)].self_ns

SelfNs(func) ==
  MapThenSumSet(LAMBDA id : Recording.stacks[id].self_ns,
                {id \in DOMAIN nodes : nodes[id].func = func})

CallCount(func) == Recording.calls[func].count
CallDurations(func) == Recording.calls[func].ns

OpenActivations(t) == IF phase[t] = "gone" THEN 0 ELSE Len(stack[t])

-----------------------------------------------------------------------------
StackFunctions(t, i) == [j \in 1..i |-> stack[t][j].func]

\* s is what is left of t after some of its elements are removed.
Embeds(s, t) ==
  \E at \in [DOMAIN s -> DOMAIN t] :
    \A i \in DOMAIN s : s[i] = t[at[i]] /\ \A j \in 1..(i - 1) : at[j] < at[i]

Occurrences(s, x) == {i \in DOMAIN s : s[i] = x}

\* What the program's tests read adds up, as long as nobody drained: while the table
\* has room, a function was called as often as its contexts under the root and the edges
\* that lead into it from others say, its self time is within its duration once nothing
\* is open, all self time together is the time inside the roots, and no chain is told
\* twice (testing.rs:17-21, 46-50, 99-109; lib.rs:109-121).
ReadersAddUp ==
  drained = Zero /\ merged = Zero /\ lost = Zero /\ overflowed = 0 =>
    LET fromRoot(f) == MapThenSumSet(LAMBDA id : Recording.stacks[id].count,
                         {id \in DOMAIN nodes : nodes[id] = Node(0, f)})
        into(f) == {e \in DOMAIN EdgeCounts : e[2] = f /\ e[1] # f}
        idle == \A t \in Threads : OpenActivations(t) = 0
    IN /\ \A f \in Functions :
            CallCount(f) = fromRoot(f) + MapThenSumSet(LAMBDA e : EdgeCounts[e], into(f))
       /\ idle => /\ \A f \in Functions : SelfNs(f) <= CallDurations(f)
                  /\ MapThenSumSet(SelfNs, Functions) = rootNs
       /\ MapThenSumSet(LAMBDA chain : Stacks[chain].self_ns, DOMAIN Stacks)
            = MapThenSumSet(SelfNs, Functions)
       /\ PathCount = Cardinality({ChainOf[id] : id \in DOMAIN nodes})

\* Recursion, direct or through other functions, is two contexts per chain
\* however deep it goes: no function is named more than twice on the way to the
\* root, and the second naming hangs directly off the first (calls.rs:173-178).
RecursionBounded ==
  /\ DeepestChain <= 2 * Cardinality(Functions)
  /\ \A id \in DOMAIN nodes : \A f \in Functions :
       \A i, j \in Occurrences(ChainOf[id], f) : i < j => j = i + 1

\* A context only tells chains that happened: the chain of every open
\* activation's context is a subsequence of the functions open up to it, ends
\* in its own function unless the table refused it, and means the same on every
\* thread.
ContextTellsTheStack ==
  \A t \in Threads : \A i \in DOMAIN stack[t] :
    LET chain == ChainOf[stack[t][i].path]
    IN  /\ Embeds(chain, StackFunctions(t, i))
        /\ \/ overflowed > 0
           \/ chain # << >> /\ Last(chain) = stack[t][i].func
=============================================================================
