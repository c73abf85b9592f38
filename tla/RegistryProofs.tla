--------------------------- MODULE RegistryProofs ---------------------------
(***************************************************************************)
(* What interning keeps true of the tables, for every set of functions,    *)
(* every ceiling and every order of calls.                                 *)
(***************************************************************************)
EXTENDS Registry, SequenceTheorems, TLAPS

\* What the tables and their contents satisfy between any two calls.
RegistryInv == RegistryTypeOK /\ PathForest

\* A context keeps its id and its meaning whatever is interned after it.
Kept == /\ Len(nodes) <= Len(nodes')
        /\ \A id \in 1..Len(nodes) : nodes'[id] = nodes[id]

LEMMA RegistryInvInit == RegistryInit => RegistryInv
<1> SUFFICES ASSUME RegistryInit PROVE RegistryInv
  OBVIOUS
<1>1. functions \in Seq(Functions) /\ nodes \in Seq(NodeType) /\ Len(nodes) = 0
  BY EmptySeq DEF RegistryInit
<1>2. DOMAIN nodes = {}
  BY <1>1, LenProperties
<1>3. PathForest
  BY <1>2 DEF PathForest, IsInjective
<1> QED BY <1>1, <1>3, MaxPathsAssumption DEF RegistryInit, RegistryInv, RegistryTypeOK

\* Interning a function leaves every other its number, and numbers the one asked for.
LEMMA InternFunctionNumbers ==
  ASSUME functions \in Seq(Functions), NEW func \in Functions, InternFunction(func)
  PROVE  /\ functions' \in Seq(Functions) /\ Len(functions) <= Len(functions')
         /\ \A i \in 1..Len(functions) : functions'[i] = functions[i]
         /\ Interned(func)'
         /\ \A g : Interned(g) => Interned(g)'
<1>1. Len(functions) \in Nat /\ DOMAIN functions = 1..Len(functions)
  BY LenProperties
<1>2. CASE Interned(func)
  BY <1>1, <1>2 DEF InternFunction, Interned
<1>3. CASE ~Interned(func)
  <2>1. functions' = Append(functions, func)
    BY <1>3 DEF InternFunction
  <2>2. /\ functions' \in Seq(Functions) /\ Len(functions') = Len(functions) + 1
        /\ \A i \in 1..Len(functions) : functions'[i] = functions[i]
        /\ functions'[Len(functions) + 1] = func
    BY <1>1, <2>1, AppendProperties
  <2>3. DOMAIN functions' = 1..(Len(functions) + 1)
    BY <2>2, LenProperties
  <2> QED BY <1>1, <2>2, <2>3 DEF Interned, Range
<1> QED BY <1>2, <1>3

\* Interning a function loses none and adds the one asked for.
LEMMA InternFunctionKeeps ==
  ASSUME RegistryInv, NEW func \in Functions, InternFunction(func),
         UNCHANGED <<nodes, overflowed>>
  PROVE  /\ RegistryInv' /\ Kept
         /\ Interned(func)'
         /\ \A g \in Functions : Interned(g) => Interned(g)'
<1>1. /\ functions' \in Seq(Functions) /\ Interned(func)'
      /\ \A g : Interned(g) => Interned(g)'
  BY InternFunctionNumbers DEF RegistryInv, RegistryTypeOK
<1>2. nodes' = nodes /\ Len(nodes) \in Nat
  BY LenProperties DEF RegistryInv, RegistryTypeOK
<1> QED BY <1>1, <1>2 DEF RegistryInv, RegistryTypeOK, PathForest, Kept

\* A context interned under an existing one leaves the tree a forest, every id
\* meaning what it meant; the id it gets is its own, or none when the table is full.
LEMMA InternPathKeeps ==
  ASSUME RegistryInv, NEW parent \in 0..Len(nodes), NEW func \in Functions,
         NEW id, InternPath(parent, func, id),
         functions' \in Seq(Functions), Interned(func)', \A g : Interned(g) => Interned(g)'
  PROVE  /\ RegistryInv' /\ Kept
         /\ id # 0 => id \in 1..Len(nodes') /\ nodes'[id] = Node(parent, func)
<1>1. /\ nodes \in Seq(NodeType) /\ Len(nodes) \in Nat /\ Len(nodes) <= MaxPaths
      /\ DOMAIN nodes = 1..Len(nodes) /\ overflowed \in Nat
  BY LenProperties DEF RegistryInv, RegistryTypeOK
<1>2. CASE Find(parent, func, id)
  BY <1>1, <1>2 DEF Find, Kept, RegistryInv, RegistryTypeOK, PathForest, Interned
<1>3. CASE Grow(parent, func, id)
  <2>1. PICK n \in Nat : n = Len(nodes)
    BY <1>1
  <2>2. PICK node : node = Node(parent, func)
    OBVIOUS
  <2>3. node \in NodeType /\ node.parent = parent /\ node.func = func
    BY <1>1, <2>2, MaxPathsAssumption DEF Node, NodeType
  <2>4. nodes' = Append(nodes, node) /\ id = n + 1 /\ n < MaxPaths /\ node \notin Range(nodes)
    BY <1>3, <2>1, <2>2 DEF Grow, Known
  <2>5. /\ nodes' \in Seq(NodeType) /\ Len(nodes') = n + 1
        /\ \A i \in 1..n : nodes'[i] = nodes[i]
        /\ nodes'[n + 1] = node
    BY <1>1, <2>1, <2>3, <2>4, AppendProperties
  <2>6. DOMAIN nodes' = 1..(n + 1)
    BY <2>5, LenProperties
  <2>7. RegistryTypeOK'
    BY <1>3, <2>4, <2>5, MaxPathsAssumption DEF RegistryInv, RegistryTypeOK, Grow
  <2>8. ASSUME NEW i \in 1..(n + 1)
        PROVE  nodes'[i].parent < i /\ nodes'[i].func \in Range(functions')
    <3>1. CASE i = n + 1
      BY <2>1, <2>3, <2>5, <3>1 DEF Interned
    <3>2. CASE i # n + 1
      <4>1. i \in DOMAIN nodes /\ nodes'[i] = nodes[i]
        BY <1>1, <2>1, <2>5, <3>2
      <4>2. nodes[i].parent < i /\ Interned(nodes[i].func)
        BY <4>1 DEF RegistryInv, PathForest
      <4> QED BY <4>1, <4>2 DEF Interned
    <3> QED BY <3>1, <3>2
  <2>9. ASSUME NEW i \in 1..(n + 1), NEW j \in 1..(n + 1), nodes'[i] = nodes'[j]
        PROVE  i = j
    <3>1. \A k \in 1..n : nodes'[k] # node
      BY <1>1, <2>1, <2>4, <2>5 DEF Range
    <3>2. i \in 1..n /\ j \in 1..n => i = j
      BY <1>1, <2>1, <2>5, <2>9 DEF RegistryInv, PathForest, IsInjective
    <3> QED BY <2>5, <2>9, <3>1, <3>2
  <2>10. PathForest'
    <3>1. \A i \in DOMAIN nodes' : nodes'[i].parent < i /\ nodes'[i].func \in Range(functions')
      BY <2>6, <2>8
    <3>2. IsInjective(nodes')
      BY <2>6, <2>9 DEF IsInjective
    <3> QED BY <3>1, <3>2 DEF PathForest, Interned
  <2> QED BY <2>1, <2>2, <2>4, <2>5, <2>7, <2>10 DEF RegistryInv, Kept
<1>4. CASE Refuse(parent, func, id)
  <2>1. nodes' = nodes /\ id = 0 /\ overflowed' \in Nat
    BY <1>1, <1>4 DEF Refuse
  <2> QED BY <1>1, <2>1 DEF Kept, RegistryInv, RegistryTypeOK, PathForest, Interned
<1> QED BY <1>2, <1>3, <1>4 DEF InternPath
=============================================================================
