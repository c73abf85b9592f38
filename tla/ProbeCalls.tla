----------------------------- MODULE ProbeCalls -----------------------------
(***************************************************************************)
(* What the probe does inside the measured program                         *)
(* (crates/lightwatch-probe/src/calls.rs).  Each thread keeps a stack of   *)
(* open activations, a per-function depth and a memo of the context table; *)
(* a closing activation adds to the thread's accumulator under its mutex.  *)
(* The emit thread's drain() visits the accumulators one by one under the  *)
(* THREADS mutex and drops the slots of threads that are gone.             *)
(*                                                                         *)
(* A duration is the difference of two readings of one monotonic clock;    *)
(* Samples, the multiset of a function's durations, is its sum.  Histories *)
(* (drained, lost, rootNs, entries) record what happened; no action but    *)
(* the bound MaxEntries reads them.                                        *)
(***************************************************************************)
EXTENDS Registry, SequencesExt, FiniteSets

CONSTANTS Threads,      \* OS threads of the program
          NoFunction,   \* "not inside Site::enter"
          MaxClock,     \* bound: clock ticks
          MaxEntries,   \* bound: calls of measured functions, over all threads
          MaxDepth      \* bound: activations open on one thread

ASSUME ThreadsFinite == IsFiniteSet(Threads)
ASSUME NoFunctionAssumption == NoFunction \notin Functions
ASSUME BoundsAssumption == MaxClock \in Nat /\ MaxEntries \in Nat /\ MaxDepth \in Nat

VARIABLES clock,      \* Instant::now()
          phase,      \* the thread-local STATE: "fresh", "live" or "gone"
          entering,   \* the function a thread is inside Site::enter for
          stack,      \* ThreadState.stack, the innermost activation last
          depth,      \* ThreadState.depth; count 0 where the map has no entry
          memo,       \* ThreadState.memo; 0 where the map has no entry
          slots,      \* THREADS: the registered accumulators, by thread
          accum,      \* ThreadSlot.accum
          drain,      \* where drain() stands, and which slot it is at
          merged,     \* the accumulator drain() is filling
          drained,    \* history: everything drain() has returned
          lost,       \* history: what was in a slot when drain() dropped it
          rootNs,     \* history: time spent inside outermost-of-all activations
          entries     \* history: how many times Site::enter was called

threadVars == <<phase, entering, stack, depth, memo>>
drainVars == <<drain, merged, drained, lost>>
vars == <<registryVars, clock, threadVars, slots, accum, drainVars, rootNs, entries>>

Paths == 0..MaxPaths   \* 0: the context of a root the table had no room for

Zero == [calls |-> [f \in Functions |-> [count |-> 0, ns |-> 0]],
         stacks |-> [p \in Paths |-> [count |-> 0, self_ns |-> 0]]]

\* Accum::absorb.
Absorb(mine, other) ==
  [calls |-> [f \in Functions |->
                [count |-> mine.calls[f].count + other.calls[f].count,
                 ns |-> mine.calls[f].ns + other.calls[f].ns]],
   stacks |-> [p \in Paths |->
                [count |-> mine.stacks[p].count + other.stacks[p].count,
                 self_ns |-> mine.stacks[p].self_ns + other.stacks[p].self_ns]]]

NoDepth == [count |-> 0, path |-> 0, recursion_path |-> 0]

AccumType == [calls: [Functions -> [count: Nat, ns: Nat]],
              stacks: [Paths -> [count: Nat, self_ns: Nat]]]
ActivationType == [func: Functions, path: Paths, start: Nat, child_ns: Nat,
                   outermost: BOOLEAN, counts_here: BOOLEAN]
DepthType == [count: Nat, path: Paths, recursion_path: Paths]
DrainType == [at: {"idle", "absorb", "retain"}, cursor: Nat \ {0}]

TypeOK ==
  /\ RegistryTypeOK
  /\ clock \in Nat
  /\ phase \in [Threads -> {"fresh", "live", "gone"}]
  /\ entering \in [Threads -> Functions \cup {NoFunction}]
  /\ stack \in [Threads -> Seq(ActivationType)]
  /\ depth \in [Threads -> [Functions -> DepthType]]
  /\ memo \in [Threads -> [Paths \X Functions -> Paths]]
  /\ slots \in Seq(Threads)
  /\ accum \in [Threads -> AccumType]
  /\ drain \in DrainType
  /\ merged \in AccumType
  /\ drained \in AccumType
  /\ lost \in AccumType
  /\ rootNs \in Nat
  /\ entries \in Nat

Init ==
  /\ RegistryInit
  /\ clock = 0
  /\ phase = [t \in Threads |-> "fresh"]
  /\ entering = [t \in Threads |-> NoFunction]
  /\ stack = [t \in Threads |-> << >>]
  /\ depth = [t \in Threads |-> [f \in Functions |-> NoDepth]]
  /\ memo = [t \in Threads |-> [pf \in Paths \X Functions |-> 0]]
  /\ slots = << >>
  /\ accum = [t \in Threads |-> Zero]
  /\ drain = [at |-> "idle", cursor |-> 1]
  /\ merged = Zero
  /\ drained = Zero
  /\ lost = Zero
  /\ rootNs = 0
  /\ entries = 0

-----------------------------------------------------------------------------
(* Site::enter, first half: the function's id, interned if it has none.    *)
Enter(t, func) ==
  /\ phase[t] # "gone"
  /\ entering[t] = NoFunction
  /\ entries < MaxEntries
  /\ Len(stack[t]) < MaxDepth
  /\ InternFunction(func)
  /\ entering' = [entering EXCEPT ![t] = func]
  /\ entries' = entries + 1
  /\ UNCHANGED <<nodes, overflowed, clock, phase, stack, depth, memo, slots, accum,
                 drainVars, rootNs>>

(* The first use of STATE on a thread registers its slot; drain() holds    *)
(* THREADS throughout.                                                     *)
RegisterThread(t) ==
  /\ phase[t] = "fresh"
  /\ entering[t] # NoFunction
  /\ drain.at = "idle"
  /\ phase' = [phase EXCEPT ![t] = "live"]
  /\ slots' = Append(slots, t)
  /\ UNCHANGED <<registryVars, clock, entering, stack, depth, memo, accum, drainVars,
                 rootNs, entries>>

CurrentPath(t) == IF stack[t] = << >> THEN 0 ELSE Last(stack[t]).path

\* A refusal remembered as if the parent were the child's own context.
ContextMemoisingRefusal(t, parent, func, path) ==
  \/ /\ memo[t][<<parent, func>>] # 0
     /\ path = memo[t][<<parent, func>>]
     /\ UNCHANGED <<nodes, overflowed, memo>>
  \/ /\ memo[t][<<parent, func>>] = 0
     /\ \E id \in Paths :
          /\ InternPath(parent, func, id)
          /\ path = IF id = 0 THEN parent ELSE id
          /\ memo' = [memo EXCEPT ![t][<<parent, func>>] = path]

(* ThreadState::context(parent, func) returns path.  A full table makes    *)
(* the activation report against its parent, and is not remembered.        *)
Context(t, parent, func, path) ==
  \/ /\ memo[t][<<parent, func>>] # 0
     /\ path = memo[t][<<parent, func>>]
     /\ UNCHANGED <<nodes, overflowed, memo>>
  \/ /\ memo[t][<<parent, func>>] = 0
     /\ \E id \in Paths :
          /\ InternPath(parent, func, id)
          /\ path = IF id = 0 THEN parent ELSE id
          /\ memo' = [memo EXCEPT ![t][<<parent, func>>] = id]

Push(t, func, path, outermost, counts_here) ==
  stack' = [stack EXCEPT ![t] = Append(@,
              [func |-> func, path |-> path, start |-> clock, child_ns |-> 0,
               outermost |-> outermost, counts_here |-> counts_here])]

\* A shared context counted at every level that runs in it.
OpensContextAtEveryLevel(held) == TRUE

\* counts_here, from the depth of func before this level: the second level opens
\* the recursion context, the deeper ones only run in it.
OpensContext(held) == held.count <= 1

(* ThreadState::open where func is not on the stack: an ordinary context   *)
(* under whoever called it.                                                *)
OpenOutermost(t, func) ==
  /\ depth[t][func].count = 0
  /\ \E path \in Paths :
       /\ Context(t, CurrentPath(t), func, path)
       /\ depth' = [depth EXCEPT ![t][func] =
                      [count |-> 1, path |-> path, recursion_path |-> 0]]
       /\ Push(t, func, path, TRUE, OpensContext(depth[t][func]))

\* The recursion context hung off the caller instead of off func's outermost node.
RecursionContextUnderCaller(t, func, held, path) ==
  Context(t, CurrentPath(t), func, path)

RecursionContext(t, func, held, path) ==
  IF held.recursion_path = 0
  THEN Context(t, held.path, func, path)
  ELSE path = held.recursion_path /\ UNCHANGED <<nodes, overflowed, memo>>

(* ThreadState::open where it is: every level shares one context hanging   *)
(* off func's own outermost one.                                           *)
OpenRecursive(t, func) ==
  LET held == depth[t][func] IN
  /\ held.count > 0
  /\ \E path \in Paths :
       /\ RecursionContext(t, func, held, path)
       /\ depth' = [depth EXCEPT ![t][func] =
                      [held EXCEPT !.count = @ + 1, !.recursion_path = path]]
       /\ Push(t, func, path, FALSE, OpensContext(held))

(* Site::enter, second half.                                               *)
Open(t, func) ==
  /\ phase[t] = "live"
  /\ entering[t] = func
  /\ entering' = [entering EXCEPT ![t] = NoFunction]
  /\ \/ OpenOutermost(t, func)
     \/ OpenRecursive(t, func)
  /\ UNCHANGED <<functions, clock, phase, slots, accum, drainVars, rootNs, entries>>

-----------------------------------------------------------------------------
\* caller.child_ns += elapsed, for the activation now on top, if any.
ChargeCaller(rest, elapsed) ==
  IF rest = << >> THEN rest
  ELSE [rest EXCEPT ![Len(rest)].child_ns = @ + elapsed]

\* Only an outermost callee charged: a recursive level's time is lost on the way up.
PoppedChargingOutermostOnly(s, elapsed) ==
  IF Last(s).outermost THEN ChargeCaller(Front(s), elapsed) ELSE Front(s)

\* The stack after the innermost activation closed, having taken elapsed.
Popped(s, elapsed) == ChargeCaller(Front(s), elapsed)

SatSub(a, b) == IF a >= b THEN a - b ELSE 0

\* A call counted wherever a context is.
AddsCallPerContext(a) == a.counts_here

\* A duration added by every level of a recursion.
AddsCallAtEveryLevel(a) == TRUE

AddsCall(a) == a.outermost

\* What close() adds to the thread's accumulator.
Recorded(acc, a, elapsed) ==
  [calls |-> IF AddsCall(a)
             THEN [acc.calls EXCEPT ![a.func] = [count |-> @.count + 1,
                                                 ns |-> @.ns + elapsed]]
             ELSE acc.calls,
   stacks |-> [acc.stacks EXCEPT ![a.path] =
                 [count |-> @.count + (IF a.counts_here THEN 1 ELSE 0),
                  self_ns |-> @.self_ns + SatSub(elapsed, a.child_ns)]]]

\* The depth entry left behind when its last level closes.
ShallowerButHeld(d) == IF d.count = 1 THEN d ELSE [d EXCEPT !.count = @ - 1]

\* The depth entry taken down by one, and removed at zero.
Shallower(d) == IF d.count = 1 THEN NoDepth ELSE [d EXCEPT !.count = @ - 1]

(* Guard::drop -> ThreadState::close.                                      *)
Close(t) ==
  LET a == Last(stack[t])
      elapsed == clock - a.start
  IN
  /\ stack[t] # << >>
  /\ entering[t] = NoFunction
  /\ stack' = [stack EXCEPT ![t] = Popped(@, elapsed)]
  /\ depth' = [depth EXCEPT ![t][a.func] = Shallower(@)]
  /\ accum' = [accum EXCEPT ![t] = Recorded(@, a, elapsed)]
  /\ rootNs' = IF Len(stack[t]) = 1 THEN rootNs + elapsed ELSE rootNs
  /\ UNCHANGED <<registryVars, clock, phase, entering, memo, slots, drainVars, entries>>

(* The thread ends; its thread-local drops its reference to the slot.      *)
Exit(t) ==
  /\ phase[t] = "live"
  /\ stack[t] = << >>
  /\ entering[t] = NoFunction
  /\ phase' = [phase EXCEPT ![t] = "gone"]
  /\ UNCHANGED <<registryVars, clock, entering, stack, depth, memo, slots, accum,
                 drainVars, rootNs, entries>>

Tick ==
  /\ clock < MaxClock
  /\ clock' = clock + 1
  /\ UNCHANGED <<registryVars, threadVars, slots, accum, drainVars, rootNs, entries>>

-----------------------------------------------------------------------------
(* drain(), by the emit thread: THREADS is locked from DrainBegin to       *)
(* DrainEnd, each accumulator only while it is taken.                      *)
DrainBegin ==
  /\ drain.at = "idle"
  /\ drain' = [at |-> "absorb", cursor |-> 1]
  /\ merged' = Zero
  /\ UNCHANGED <<registryVars, clock, threadVars, slots, accum, drained, lost, rootNs,
                 entries>>

\* Reading the accumulator without emptying it.
DrainAbsorbCopy ==
  /\ drain.at = "absorb"
  /\ drain.cursor <= Len(slots)
  /\ merged' = Absorb(merged, accum[slots[drain.cursor]])
  /\ accum' = accum
  /\ drain' = [drain EXCEPT !.at = "retain"]
  /\ UNCHANGED <<registryVars, clock, threadVars, slots, drained, lost, rootNs, entries>>

DrainAbsorb ==
  /\ drain.at = "absorb"
  /\ drain.cursor <= Len(slots)
  /\ merged' = Absorb(merged, accum[slots[drain.cursor]])
  /\ accum' = [accum EXCEPT ![slots[drain.cursor]] = Zero]
  /\ drain' = [drain EXCEPT !.at = "retain"]
  /\ UNCHANGED <<registryVars, clock, threadVars, slots, drained, lost, rootNs, entries>>

\* The slot kept whatever became of its thread.
DrainKeep ==
  /\ drain.at = "retain"
  /\ drain' = [at |-> "absorb", cursor |-> drain.cursor + 1]
  /\ UNCHANGED <<registryVars, clock, threadVars, slots, accum, merged, drained, lost,
                 rootNs, entries>>

\* A slot is kept while its thread still holds the other reference to it.
DrainRetain ==
  /\ drain.at = "retain"
  /\ LET t == slots[drain.cursor] IN
     IF phase[t] = "gone"
     THEN /\ slots' = RemoveAt(slots, drain.cursor)
          /\ drain' = [drain EXCEPT !.at = "absorb"]
          /\ lost' = Absorb(lost, accum[t])
          /\ accum' = [accum EXCEPT ![t] = Zero]
     ELSE /\ drain' = [at |-> "absorb", cursor |-> drain.cursor + 1]
          /\ UNCHANGED <<slots, lost, accum>>
  /\ UNCHANGED <<registryVars, clock, threadVars, merged, drained, rootNs, entries>>

DrainEnd ==
  /\ drain.at = "absorb"
  /\ drain.cursor > Len(slots)
  /\ drain' = [at |-> "idle", cursor |-> 1]
  /\ drained' = Absorb(drained, merged)
  /\ merged' = Zero
  /\ UNCHANGED <<registryVars, clock, threadVars, slots, accum, lost, rootNs, entries>>

Drain == DrainBegin \/ DrainAbsorb \/ DrainRetain \/ DrainEnd

Thread(t) ==
  \/ \E func \in Functions : Enter(t, func) \/ Open(t, func)
  \/ RegisterThread(t)
  \/ Close(t)
  \/ Exit(t)

Next == Drain \/ Tick \/ \E t \in Threads : Thread(t)

Spec == Init /\ [][Next]_vars

(* The emit thread calls drain() once a window for as long as the process  *)
(* lives; nothing obliges the program's own threads to take a step.        *)
FairSpec == Spec /\ WF_vars(Drain)

-----------------------------------------------------------------------------
\* A thread's memo never disagrees with the shared table (calls.rs:140-143).
MemoAgrees ==
  \A t \in Threads : \A pf \in Paths \X Functions :
    LET id == memo[t][pf] IN
    id # 0 => id \in DOMAIN nodes /\ nodes[id] = Node(pf[1], pf[2])

Levels(s, func) == {i \in DOMAIN s : s[i].func = func}

DepthTells(s, func, d) ==
  /\ d.count = Cardinality(Levels(s, func))
  /\ \A i \in Levels(s, func) :
       /\ s[i].outermost <=> \A j \in Levels(s, func) : i <= j
       /\ s[i].outermost => s[i].path = d.path
       /\ s[i].counts_here <=> Cardinality({j \in Levels(s, func) : j <= i}) <= 2

\* The depth map is the stack seen per function: as many levels as are open, the
\* lowest of them outermost and in the context the map remembers, and exactly the
\* first two open a context (calls.rs:169-197, 229-234).
DepthMatchesStack ==
  \A t \in Threads : \A func \in Functions : DepthTells(stack[t], func, depth[t][func])
-----------------------------------------------------------------------------
(* The books as a whole.                                                   *)
\* Everything the probe has recorded, wherever it is now.
Total ==
  FoldSet(LAMBDA t, acc : Absorb(acc, accum[t]),
          Absorb(Absorb(drained, merged), lost), Threads)

\* What closed callees have charged to the activations still open on a stack.
Charged(s) == SumFunction([i \in DOMAIN s |-> s[i].child_ns])

\* No nanosecond inside a measured root is lost or counted twice: what all
\* contexts hold is the time of the closed roots plus the closed callees of the
\* activations still open (calls.rs:107-115, 224-227), whoever drained what in
\* between.  Time in a slot that was dropped is part of the sum, see
\* ExitedThreadFullyDrained.
SelfTimeConserved ==
  SumFunction([p \in Paths |-> Total.stacks[p].self_ns])
    = rootNs + SumFunction([t \in Threads |-> Charged(stack[t])])

Outermost(s, func) == {i \in Levels(s, func) : s[i].outermost}

\* How long the outermost activation of func on t has been open, if there is one.
Running(t, func) ==
  SumFunction([i \in Outermost(stack[t], func) |-> clock - stack[t][i].start])

\* Recursion never makes a function run longer than the wall clock: the time in
\* its closed outermost activations and in those still open is at most what has
\* passed on every thread (calls.rs:117-119, 242-247).
DurationWithinWallClock ==
  \A f \in Functions :
    Total.calls[f].ns + SumFunction([t \in Threads |-> Running(t, f)])
      <= Cardinality(Threads) * clock

\* The contexts func opens as an outermost activation.
OwnContexts(func) ==
  {p \in DOMAIN nodes : /\ nodes[p].func = func
                        /\ \/ nodes[p].parent = 0
                           \/ nodes[nodes[p].parent].func # func}

\* The two tables a window carries agree: while no context was refused, the
\* calls of a function are the counts of the contexts it opened as an outermost
\* activation (proto lib.rs:125-130).
CallsMatchContexts ==
  overflowed = 0 =>
    \A f \in Functions :
      Total.calls[f].count
        = SumFunction([p \in OwnContexts(f) |-> Total.stacks[p].count])
=============================================================================
