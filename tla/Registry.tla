------------------------------ MODULE Registry ------------------------------
(***************************************************************************)
(* The probe's process-wide interning tables                               *)
(* (crates/lightwatch-probe/src/registry.rs): the measured functions and   *)
(* the calling contexts the program has reached.  A context is a node      *)
(* <<parent, func>>; its id is its index in nodes, and 0 is both "nothing  *)
(* measured called it" and "the table is full".  Every operation runs      *)
(* under one mutex, so each is one step.  A function is its own name here: *)
(* its id is its index in functions.                                       *)
(***************************************************************************)
EXTENDS Naturals, Sequences, FiniteSets, Functions

CONSTANTS Functions,   \* the measured functions of the program
          MaxPaths     \* LIGHTWATCH_MAX_PATHS, how many contexts it may name

\* A program has finitely many instrumented functions.
ASSUME FunctionsFinite == IsFiniteSet(Functions)
\* The override is read from the environment and ignored unless positive.
ASSUME MaxPathsAssumption == MaxPaths \in Nat \ {0}

VARIABLES functions,   \* FUNCTIONS: every function that was ever entered
          nodes,       \* PATHS.nodes: the call tree, in the order it grew
          overflowed   \* PATHS.overflowed: contexts refused since the start

registryVars == <<functions, nodes, overflowed>>

PathIds == 1..MaxPaths
NodeType == [parent: 0..MaxPaths, func: Functions]

RegistryTypeOK ==
  /\ functions \in Seq(Functions)
  /\ nodes \in Seq(NodeType)
  /\ Len(nodes) <= MaxPaths
  /\ overflowed \in Nat

RegistryInit ==
  /\ functions = << >>
  /\ nodes = << >>
  /\ overflowed = 0

Interned(func) == func \in Range(functions)

\* The second look under the lock makes interning idempotent.
InternFunction(func) ==
  functions' = IF Interned(func) THEN functions ELSE Append(functions, func)

Node(parent, func) == [parent |-> parent, func |-> func]

Known(parent, func) == Node(parent, func) \in Range(nodes)

(* intern_path, under the PATHS lock, in its three outcomes.               *)

\* A context found by its function alone, whatever called it.
FindByFunction(parent, func, id) ==
  /\ id \in DOMAIN nodes
  /\ nodes[id].func = func
  /\ UNCHANGED <<nodes, overflowed>>

Find(parent, func, id) ==
  /\ id \in DOMAIN nodes
  /\ nodes[id] = Node(parent, func)
  /\ UNCHANGED <<nodes, overflowed>>

\* Pushing without looking the pair up first.
GrowBlindly(parent, func, id) ==
  /\ Len(nodes) < MaxPaths
  /\ id = Len(nodes) + 1
  /\ nodes' = Append(nodes, Node(parent, func))
  /\ UNCHANGED overflowed

Grow(parent, func, id) ==
  /\ ~Known(parent, func)
  /\ Len(nodes) < MaxPaths
  /\ id = Len(nodes) + 1
  /\ nodes' = Append(nodes, Node(parent, func))
  /\ UNCHANGED overflowed

\* The ceiling looked at after the push.
RefuseAfterPush(parent, func, id) ==
  /\ ~Known(parent, func)
  /\ Len(nodes) >= MaxPaths
  /\ id = 0
  /\ overflowed' = overflowed + 1
  /\ nodes' = Append(nodes, Node(parent, func))

Refuse(parent, func, id) ==
  /\ ~Known(parent, func)
  /\ Len(nodes) >= MaxPaths
  /\ id = 0
  /\ overflowed' = overflowed + 1
  /\ nodes' = nodes

\* intern_path(parent, func) returns id.
InternPath(parent, func, id) ==
  \/ Find(parent, func, id)
  \/ Grow(parent, func, id)
  \/ Refuse(parent, func, id)

-----------------------------------------------------------------------------
\* The call tree is a forest that only names what exists: a context is numbered
\* above the one it extends, its function was interned before it, and no pair
\* has two ids (registry.rs:33-35, 102-111, 133-135).
PathForest ==
  /\ \A id \in DOMAIN nodes : nodes[id].parent < id /\ Interned(nodes[id].func)
  /\ IsInjective(nodes)
=============================================================================
