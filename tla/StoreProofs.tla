---------------------------- MODULE StoreProofs -----------------------------
(***************************************************************************)
(* Theorems of Store, for every set of frames, of connections and every    *)
(* size of the rings: the contexts stay a forest that keeps its names, the *)
(* edges and the functions' own time stay readings of it, the rings stay   *)
(* rings, both resolutions and the totals count the same calls, the        *)
(* windows of an in-order stream are broadcast in order and all of them,   *)
(* and a process has ended exactly when its last connection closed.        *)
(***************************************************************************)
EXTENDS Store, DataProofs

-----------------------------------------------------------------------------
(* What a frame registers.                                                 *)

Tables == [functions: SUBSET Functions, types: SUBSET Types,
           paths: [PathIds -> NodeType \cup {NoNode}], unknown: Nat]

\* Contexts of known functions, whose parents are smaller and registered.
Forest(fs, tree) ==
  \A p \in PathIds : tree[p] # NoNode =>
    /\ tree[p].func \in fs
    /\ tree[p].parent < p
    /\ tree[p].parent # 0 => tree[tree[p].parent] # NoNode

KeepsNames(old, tree) == \A p \in PathIds : old[p] # NoNode => tree[p] = old[p]

Grown(fs, tree) ==
  {reg \in Tables : Forest(reg.functions, reg.paths) /\ KeepsNames(tree, reg.paths)}

\* A fold over the entries a frame registers keeps to what each entry keeps to.
LEMMA RegistersStay ==
  ASSUME NEW l \in Seq(RegisterType), NEW X, NEW b \in X,
         \A reg \in X : \A r \in RegisterType : Register(reg, r) \in X
  PROVE  FoldLeft(Register, b, l) \in X
<1> DEFINE D == DOMAIN l
           step == [r \in RegisterType |-> [reg \in X |-> Register(reg, r)]]
<1>1. \A i \in D : l[i] \in RegisterType
  BY ListIsFinite
<1>2. \A s \in SUBSET D : s # {} => Max(s) \in s
  BY ListIsFinite
<1>3. \A r \in RegisterType : \A reg \in X : step[r][reg] \in X
  OBVIOUS
<1>0. \A r \in RegisterType : \A reg \in X : step[r][reg] = Register(reg, r)
  OBVIOUS
<1> HIDE DEF step
<1>4. PICK h : ListUnfolds(h, l, X, b, step)
  BY <1>3, ListFoldExists
<1>5. \A s \in SUBSET D : h[s] = IF s = {} THEN b ELSE Register(h[s \ {Max(s)}], l[Max(s)])
  <2> SUFFICES ASSUME NEW s \in SUBSET D, s # {}
               PROVE  h[s] = Register(h[s \ {Max(s)}], l[Max(s)])
    BY <1>4 DEF ListUnfolds
  <2>1. Max(s) \in D /\ h[s \ {Max(s)}] \in X
    BY <1>2, <1>4 DEF ListUnfolds
  <2>2. h[s] = step[l[Max(s)]][h[s \ {Max(s)}]]
    BY <1>4 DEF ListUnfolds
  <2> QED BY <1>0, <1>1, <2>1, <2>2
<1>6. PICK iter :
        /\ iter = [s \in SUBSET D |->
                     IF s = {} THEN b ELSE Register(iter[s \ {Max(s)}], l[Max(s)])]
        /\ FoldLeft(Register, b, l) = iter[D]
  <2>1. h = [s \in SUBSET D |->
               IF s = {} THEN b ELSE Register(h[s \ {Max(s)}], l[Max(s)])]
    BY <1>4, <1>5 DEF ListUnfolds
  <2> QED BY <2>1 DEF FoldLeft, MapThenFoldSet
<1>7. iter[{}] \in X
  BY <1>6
<1>8. \A s \in SUBSET D : s # {} /\ iter[s \ {Max(s)}] \in X => iter[s] \in X
  <2> SUFFICES ASSUME NEW s \in SUBSET D, s # {}, iter[s \ {Max(s)}] \in X
               PROVE  iter[s] \in X
    OBVIOUS
  <2>1. Max(s) \in D /\ iter[s] = Register(iter[s \ {Max(s)}], l[Max(s)])
    BY <1>2, <1>6
  <2> QED BY <1>1, <2>1
<1>9. iter[D] \in X
  BY <1>7, <1>8, ListFoldKeeps
<1> QED BY <1>6, <1>9

LEMMA NoNodeIsNone == NoNode \notin NodeType /\ NoNode.func = NoFunction
BY StoreSentinels DEF NoNode, NodeType

\* An entry adds to the tables and leaves alone what is there, whatever it says.
LEMMA RegisterGrows ==
  ASSUME NEW fs, NEW tree, NEW reg \in Grown(fs, tree), NEW r \in RegisterType
  PROVE  Register(reg, r) \in Grown(fs, tree)
<1>1. CASE r.kind = "function"
  <2>1. r.id \in Functions
    BY <1>1 DEF RegisterType
  <2>2. Register(reg, r) = [reg EXCEPT !.functions = @ \cup {r.id}]
    BY <1>1 DEF Register
  <2> QED BY <2>1, <2>2 DEF Grown, Tables, Forest, KeepsNames
<1>2. CASE r.kind = "type"
  <2>1. r.id \in Types
    BY <1>2 DEF RegisterType
  <2>2. Register(reg, r) = [reg EXCEPT !.types = @ \cup {r.id}]
    BY <1>2 DEF Register
  <2> QED BY <2>1, <2>2 DEF Grown, Tables, Forest, KeepsNames
<1>3. CASE r.kind = "path"
  <2>1. /\ r.id \in PathIds /\ r.parent \in PathIds \cup {0} /\ r.func \in Functions
        /\ Register(reg, r) = RegisterPath(reg, r)
    BY <1>3 DEF RegisterType, Register
  <2>2. CASE RegisterPath(reg, r) = reg
    BY <2>1, <2>2
  <2>3. CASE RegisterPath(reg, r) = [reg EXCEPT !.unknown = @ + 1]
    BY <2>1, <2>3 DEF Grown, Tables
  <2>4. CASE /\ Accepts(reg, r) /\ reg.paths[r.id] = NoNode
             /\ RegisterPath(reg, r)
                  = [reg EXCEPT !.paths[r.id] = [parent |-> r.parent, func |-> r.func]]
    <3>1. PICK node : node = [parent |-> r.parent, func |-> r.func]
      OBVIOUS
    <3>2. node \in NodeType /\ node.parent = r.parent /\ node.func = r.func /\ node # NoNode
      BY <2>1, <3>1, NoNodeIsNone DEF NodeType
    <3>3. PICK ps : ps = [reg.paths EXCEPT ![r.id] = node]
      OBVIOUS
    <3>4. Register(reg, r) = [reg EXCEPT !.paths = ps]
      BY <2>1, <2>4, <3>1, <3>3
    <3>5. ps \in [PathIds -> NodeType \cup {NoNode}]
      BY <3>2, <3>3 DEF Grown, Tables
    <3>6. \A p \in PathIds : ps[p] = IF p = r.id THEN node ELSE reg.paths[p]
      BY <2>1, <3>3 DEF Grown, Tables
    <3>7. Forest(reg.functions, ps)
      <4> SUFFICES ASSUME NEW p \in PathIds, ps[p] # NoNode
                   PROVE  /\ ps[p].func \in reg.functions
                          /\ ps[p].parent < p
                          /\ ps[p].parent # 0 => ps[ps[p].parent] # NoNode
        BY DEF Forest
      <4>1. CASE p = r.id
        <5>1. /\ r.id > r.parent /\ r.func \in reg.functions
              /\ r.parent # 0 => reg.paths[r.parent] # NoNode
          BY <2>4 DEF Accepts
        <5>2. r.parent < r.id
          BY <2>1, <5>1, StoreSizes
        <5> QED BY <2>1, <3>2, <3>6, <4>1, <5>1, <5>2
      <4>2. CASE p # r.id
        <5>1. /\ reg.paths[p].func \in reg.functions
              /\ reg.paths[p].parent < p
              /\ reg.paths[p].parent # 0 => reg.paths[reg.paths[p].parent] # NoNode
          BY <3>6, <4>2 DEF Grown, Forest
        <5>2. reg.paths[p].parent \in PathIds \cup {0}
          BY <3>6, <4>2 DEF Grown, Tables, NodeType
        <5> QED BY <3>2, <3>6, <4>2, <5>1, <5>2
      <4> QED BY <4>1, <4>2
    <3>8. KeepsNames(tree, ps)
      BY <2>4, <3>6 DEF Grown, KeepsNames
    <3> QED BY <3>4, <3>5, <3>7, <3>8 DEF Grown, Tables
  <2> QED BY <2>2, <2>3, <2>4 DEF RegisterPath
<1> QED BY <1>1, <1>2, <1>3 DEF RegisterType

-----------------------------------------------------------------------------
(* What a frame reports.                                                   *)

KnownEvents(reg) == {e \in EventType : Known(reg, e)}

\* The events counted are known ones, and no more than the frame carried.
LEMMA SurvivorsAreKnown ==
  ASSUME NEW l \in Seq(EventType), NEW reg
  PROVE  /\ Survivors(reg, l) \in Seq(KnownEvents(reg))
         /\ Len(Survivors(reg, l)) <= Len(l)
<1> DEFINE D == DOMAIN l
           X == Seq(KnownEvents(reg))
           Kept(kept, e) == IF Known(reg, e) THEN Append(kept, e) ELSE kept
           step == [e \in EventType |-> [kept \in X |-> Kept(kept, e)]]
<1>1. /\ \A i \in D : l[i] \in EventType
      /\ IsFiniteSet(D) /\ Len(l) \in Nat /\ D = 1..Len(l)
      /\ \A s \in SUBSET D : s # {} => Max(s) \in s
  BY ListIsFinite
<1>2. \A e \in EventType : \A kept \in X :
        /\ Kept(kept, e) \in X
        /\ Len(kept) \in Nat /\ Len(Kept(kept, e)) <= Len(kept) + 1
  <2> SUFFICES ASSUME NEW e \in EventType, NEW kept \in X
               PROVE  /\ Kept(kept, e) \in X
                      /\ Len(kept) \in Nat /\ Len(Kept(kept, e)) <= Len(kept) + 1
    OBVIOUS
  <2>1. Len(kept) \in Nat
    BY LenProperties
  <2>2. CASE Known(reg, e)
    <3>1. e \in KnownEvents(reg)
      BY <2>2 DEF KnownEvents
    <3>2. Append(kept, e) \in X /\ Len(Append(kept, e)) = Len(kept) + 1
      BY <3>1, AppendProperties
    <3> QED BY <2>1, <2>2, <3>2
  <2>3. CASE ~Known(reg, e)
    BY <2>1, <2>3
  <2> QED BY <2>2, <2>3
<1>3. << >> \in X /\ Len(<< >>) = 0
  BY EmptySeq
<1>4. \A e \in EventType : \A kept \in X : step[e][kept] = Kept(kept, e) /\ step[e][kept] \in X
  BY <1>2
<1> HIDE DEF step, Kept, X
<1>5. PICK h : ListUnfolds(h, l, X, << >>, step)
  <2>1. \A e \in EventType : \A kept \in X : step[e][kept] \in X
    BY <1>4
  <2> QED BY <1>3, <2>1, ListFoldExists
<1>6. h = [s \in SUBSET D |-> IF s = {} THEN << >> ELSE Kept(h[s \ {Max(s)}], l[Max(s)])]
  <2>1. ASSUME NEW s \in SUBSET D, s # {}
        PROVE  h[s] = Kept(h[s \ {Max(s)}], l[Max(s)])
    <3>1. Max(s) \in D /\ h[s \ {Max(s)}] \in X
      BY <1>1, <1>5, <2>1 DEF ListUnfolds
    <3>2. h[s] = step[l[Max(s)]][h[s \ {Max(s)}]]
      BY <1>5, <2>1 DEF ListUnfolds
    <3> QED BY <1>1, <1>4, <3>1, <3>2
  <2> QED BY <1>5, <2>1 DEF ListUnfolds
<1>7. PICK iter :
        /\ iter = [s \in SUBSET D |->
                     IF s = {} THEN << >> ELSE Kept(iter[s \ {Max(s)}], l[Max(s)])]
        /\ Survivors(reg, l) = iter[D]
  <2> USE DEF Kept
  <2> QED BY <1>6 DEF Survivors, FoldLeft, MapThenFoldSet
<1> DEFINE Holds == {s \in SUBSET D : iter[s] \in X /\ Len(iter[s]) <= Cardinality(s)}
<1>8. {} \in Holds
  BY <1>3, <1>7, FS_EmptySet
<1>9. ASSUME NEW s \in SUBSET D, s # {}, s \ {Max(s)} \in Holds PROVE s \in Holds
  <2>1. Max(s) \in s /\ l[Max(s)] \in EventType
    BY <1>1, <1>9
  <2>2. Cardinality(s \ {Max(s)}) = Cardinality(s) - 1 /\ Cardinality(s) \in Nat
    BY <1>1, <2>1, FS_Subset, FS_RemoveElement, FS_CardinalityType
  <2>3. iter[s \ {Max(s)}] \in X /\ Len(iter[s \ {Max(s)}]) <= Cardinality(s) - 1
    BY <1>9, <2>2
  <2>4. iter[s] = Kept(iter[s \ {Max(s)}], l[Max(s)])
    BY <1>7, <1>9
  <2>5. iter[s] \in X /\ Len(iter[s]) \in Nat
        /\ Len(iter[s]) <= Len(iter[s \ {Max(s)}]) + 1 /\ Len(iter[s \ {Max(s)}]) \in Nat
    BY <1>2, <2>1, <2>3, <2>4
  <2>6. Len(iter[s]) <= Cardinality(s)
    <3> HIDE DEF X, Holds
    <3> QED BY <2>2, <2>3, <2>5
  <2> QED BY <2>5, <2>6
<1>10. D \in Holds
  <2>1. \A s \in SUBSET D : s # {} /\ s \ {Max(s)} \in Holds => s \in Holds
    BY <1>9
  <2> HIDE DEF Holds
  <2> QED BY <1>8, <2>1, ListInduction
<1>11. Cardinality(D) = Len(l)
  BY <1>1, FS_Interval
<1> QED BY <1>7, <1>10, <1>11 DEF X

\* The fold of events into data that stays in X whichever is added, entry by entry.
FoldsTo(iter, l, b, tree, at) ==
  /\ \A s \in SUBSET (DOMAIN l) :
       iter[s] = IF s = {} THEN b ELSE Add(tree, iter[s \ {Max(s)}], l[Max(s)], at)
  /\ Folded(tree, b, l, at) = iter[DOMAIN l]

LEMMA FoldedUnfolds ==
  ASSUME NEW E, NEW l \in Seq(E), NEW X, NEW b \in X, NEW tree, NEW at,
         \A data \in X : \A e \in E : Add(tree, data, e, at) \in X
  PROVE  \E iter : FoldsTo(iter, l, b, tree, at)
<1> DEFINE D == DOMAIN l
           step == [e \in E |-> [data \in X |-> Add(tree, data, e, at)]]
<1>1. /\ \A i \in D : l[i] \in E
      /\ \A s \in SUBSET D : s # {} => Max(s) \in s
  BY ListIsFinite
<1>2. \A e \in E : \A data \in X : step[e][data] \in X
  OBVIOUS
<1>3. \A e \in E : \A data \in X : step[e][data] = Add(tree, data, e, at)
  OBVIOUS
<1> HIDE DEF step
<1>4. PICK h : ListUnfolds(h, l, X, b, step)
  BY <1>2, ListFoldExists
<1>5. h = [s \in SUBSET D |->
             IF s = {} THEN b ELSE Add(tree, h[s \ {Max(s)}], l[Max(s)], at)]
  <2>1. ASSUME NEW s \in SUBSET D, s # {}
        PROVE  h[s] = Add(tree, h[s \ {Max(s)}], l[Max(s)], at)
    <3>1. Max(s) \in D /\ h[s \ {Max(s)}] \in X
      BY <1>1, <1>4, <2>1 DEF ListUnfolds
    <3>2. h[s] = step[l[Max(s)]][h[s \ {Max(s)}]]
      BY <1>4, <2>1 DEF ListUnfolds
    <3> QED BY <1>1, <1>3, <3>1, <3>2
  <2> QED BY <1>4, <2>1 DEF ListUnfolds
<1>6. PICK iter :
        /\ iter = [s \in SUBSET D |->
                     IF s = {} THEN b ELSE Add(tree, iter[s \ {Max(s)}], l[Max(s)], at)]
        /\ Folded(tree, b, l, at) = iter[D]
  BY <1>5 DEF Folded, FoldLeft, MapThenFoldSet
<1>7. \A s \in SUBSET D :
        iter[s] = IF s = {} THEN b ELSE Add(tree, iter[s \ {Max(s)}], l[Max(s)], at)
  BY <1>6
<1> QED BY <1>6, <1>7 DEF FoldsTo

LEMMA FoldedStays ==
  ASSUME NEW E, NEW l \in Seq(E), NEW X, NEW b \in X, NEW tree, NEW at,
         \A data \in X : \A e \in E : Add(tree, data, e, at) \in X
  PROVE  Folded(tree, b, l, at) \in X
<1>1. PICK iter : FoldsTo(iter, l, b, tree, at)
  BY FoldedUnfolds
<1>2. iter[{}] \in X
  BY <1>1 DEF FoldsTo
<1>3. \A s \in SUBSET (DOMAIN l) : s # {} /\ iter[s \ {Max(s)}] \in X => iter[s] \in X
  <2> SUFFICES ASSUME NEW s \in SUBSET (DOMAIN l), s # {}, iter[s \ {Max(s)}] \in X
               PROVE  iter[s] \in X
    OBVIOUS
  <2>1. l[Max(s)] \in E
    BY ListIsFinite
  <2>2. iter[s] = Add(tree, iter[s \ {Max(s)}], l[Max(s)], at)
    BY <1>1 DEF FoldsTo
  <2> QED BY <2>1, <2>2
<1>4. iter[DOMAIN l] \in X
  BY <1>2, <1>3, ListFoldKeeps
<1> QED BY <1>1, <1>4 DEF FoldsTo

\* A stack's own time goes to its function; the other events have none.
SelfAdd(tree, self, e) ==
  IF e.kind = "stack" THEN [self EXCEPT ![tree[e.path].func] = Accumulate(@, e.amount)]
  ELSE self

SelfFoldsTo(iter, l, b, tree) ==
  /\ \A s \in SUBSET (DOMAIN l) :
       iter[s] = IF s = {} THEN b ELSE SelfAdd(tree, iter[s \ {Max(s)}], l[Max(s)])
  /\ SelfFolded(tree, b, l) = iter[DOMAIN l]

LEMMA SelfFoldedUnfolds ==
  ASSUME NEW E, NEW l \in Seq(E), NEW X, NEW b \in X, NEW tree,
         \A self \in X : \A e \in E : SelfAdd(tree, self, e) \in X
  PROVE  \E iter : SelfFoldsTo(iter, l, b, tree)
<1> DEFINE D == DOMAIN l
           step == [e \in E |-> [self \in X |-> SelfAdd(tree, self, e)]]
<1>1. /\ \A i \in D : l[i] \in E
      /\ \A s \in SUBSET D : s # {} => Max(s) \in s
  BY ListIsFinite
<1>2. \A e \in E : \A self \in X : step[e][self] \in X
  OBVIOUS
<1>3. \A e \in E : \A self \in X : step[e][self] = SelfAdd(tree, self, e)
  OBVIOUS
<1> HIDE DEF step
<1>4. PICK h : ListUnfolds(h, l, X, b, step)
  BY <1>2, ListFoldExists
<1>5. h = [s \in SUBSET D |->
             IF s = {} THEN b ELSE SelfAdd(tree, h[s \ {Max(s)}], l[Max(s)])]
  <2>1. ASSUME NEW s \in SUBSET D, s # {}
        PROVE  h[s] = SelfAdd(tree, h[s \ {Max(s)}], l[Max(s)])
    <3>1. Max(s) \in D /\ h[s \ {Max(s)}] \in X
      BY <1>1, <1>4, <2>1 DEF ListUnfolds
    <3>2. h[s] = step[l[Max(s)]][h[s \ {Max(s)}]]
      BY <1>4, <2>1 DEF ListUnfolds
    <3> QED BY <1>1, <1>3, <3>1, <3>2
  <2> QED BY <1>4, <2>1 DEF ListUnfolds
<1>6. PICK iter :
        /\ iter = [s \in SUBSET D |->
                     IF s = {} THEN b ELSE SelfAdd(tree, iter[s \ {Max(s)}], l[Max(s)])]
        /\ SelfFolded(tree, b, l) = iter[D]
  BY <1>5 DEF SelfFolded, SelfAdd, FoldLeft, MapThenFoldSet
<1>7. \A s \in SUBSET D :
        iter[s] = IF s = {} THEN b ELSE SelfAdd(tree, iter[s \ {Max(s)}], l[Max(s)])
  BY <1>6
<1> QED BY <1>6, <1>7 DEF SelfFoldsTo

\* Both folds of the same events, side by side.
LEMMA FoldedTogether ==
  ASSUME NEW E, NEW l \in Seq(E), NEW X, NEW Y, NEW R \in SUBSET (X \X Y),
         NEW b \in X, NEW c \in Y, <<b, c>> \in R, NEW tree, NEW at,
         \A data \in X : \A e \in E : Add(tree, data, e, at) \in X,
         \A self \in Y : \A e \in E : SelfAdd(tree, self, e) \in Y,
         \A data \in X : \A self \in Y : \A e \in E : <<data, self>> \in R =>
           <<Add(tree, data, e, at), SelfAdd(tree, self, e)>> \in R
  PROVE  <<Folded(tree, b, l, at), SelfFolded(tree, c, l)>> \in R
<1>1. PICK iter : FoldsTo(iter, l, b, tree, at)
  BY FoldedUnfolds
<1>2. PICK itself : SelfFoldsTo(itself, l, c, tree)
  BY SelfFoldedUnfolds
<1> DEFINE Holds == {s \in SUBSET (DOMAIN l) : <<iter[s], itself[s]>> \in R}
<1>3. {} \in Holds
  BY <1>1, <1>2 DEF FoldsTo, SelfFoldsTo
<1>4. ASSUME NEW s \in SUBSET (DOMAIN l), s # {}, s \ {Max(s)} \in Holds PROVE s \in Holds
  <2>1. l[Max(s)] \in E
    BY <1>4, ListIsFinite
  <2>2. /\ iter[s] = Add(tree, iter[s \ {Max(s)}], l[Max(s)], at)
        /\ itself[s] = SelfAdd(tree, itself[s \ {Max(s)}], l[Max(s)])
    BY <1>1, <1>2, <1>4 DEF FoldsTo, SelfFoldsTo
  <2>3. /\ <<iter[s \ {Max(s)}], itself[s \ {Max(s)}]>> \in R
        /\ iter[s \ {Max(s)}] \in X /\ itself[s \ {Max(s)}] \in Y
    BY <1>4
  <2> QED BY <2>1, <2>2, <2>3
<1>5. DOMAIN l \in Holds
  <2>1. \A s \in SUBSET (DOMAIN l) : s # {} /\ s \ {Max(s)} \in Holds => s \in Holds
    BY <1>4
  <2> HIDE DEF Holds
  <2> QED BY <1>3, <2>1, ListInduction
<1> QED BY <1>1, <1>2, <1>5 DEF FoldsTo, SelfFoldsTo

-----------------------------------------------------------------------------
(* What the events come to.                                                *)

\* The contexts an edge stands for, and the ones a function has.
EdgeContexts(tree, a, b) ==
  {p \in PathIds : /\ tree[p].func = b
                   /\ tree[p].parent # 0
                   /\ tree[tree[p].parent].func = a}

OwnContexts(tree, a) == {p \in PathIds : tree[p].func = a}

\* Data that reads the tree: nothing outside it, and the edges are sums over it.
Told(tree) ==
  {data \in DataType :
     /\ \A p \in PathIds : tree[p] = NoNode => data.stacks[p] = 0
     /\ \A a, b \in Functions :
          data.edges[<<a, b>>] = Saturated(SumOn(data.stacks, EdgeContexts(tree, a, b)))}

SelfTold(tree) ==
  {pair \in DataType \X [Functions -> Amount] :
     \A a \in Functions :
       pair[2][a] = Saturated(SumOn(pair[1].stacks, OwnContexts(tree, a)))}

LEMMA AccumulateIsAmount ==
  ASSUME NEW a \in Amount, NEW n \in Nat
  PROVE  Accumulate(a, n) \in Amount
BY StoreSizes DEF Accumulate, Amount

LEMMA ContextsAreFinite ==
  ASSUME NEW tree, NEW a, NEW b
  PROVE  /\ EdgeContexts(tree, a, b) \subseteq PathIds /\ IsFiniteSet(EdgeContexts(tree, a, b))
         /\ OwnContexts(tree, a) \subseteq PathIds /\ IsFiniteSet(OwnContexts(tree, a))
BY StoreSizes, FS_Subset DEF EdgeContexts, OwnContexts

\* Adding to one context adds as much to the sum of every set it is in, the ceiling
\* included.
LEMMA SumAccumulates ==
  ASSUME NEW held \in [PathIds -> Amount], NEW S \in SUBSET PathIds, NEW p \in S,
         NEW n \in Nat
  PROVE  Saturated(SumOn([held EXCEPT ![p] = Accumulate(@, n)], S))
           = Accumulate(Saturated(SumOn(held, S)), n)
<1>1. IsFiniteSet(S) /\ IsFiniteSet(S \ {p}) /\ MaxCumulative \in Nat
  BY StoreSizes, FS_Subset
<1>2. PICK next : next = [held EXCEPT ![p] = Accumulate(@, n)]
  OBVIOUS
<1>3. /\ \A q \in S : held[q] \in Int /\ next[q] \in Int
      /\ \A q \in S \ {p} : held[q] = next[q] /\ held[q] \in Nat
      /\ next[p] = Accumulate(held[p], n) /\ held[p] \in Amount
  BY <1>2, AccumulateIsAmount DEF Amount
<1>4. SumOn(next, S) = SumOn(held, S) + next[p] - held[p]
  BY <1>1, <1>3, SumChanges
<1>5. SumOn(held, S) = held[p] + SumOn(held, S \ {p})
  BY <1>1, <1>3, SumWithout
<1>6. PICK rest \in Nat : rest = SumOn(held, S \ {p})
  BY <1>1, <1>3, SumIsNat
<1>7. SumOn(next, S) = rest + Accumulate(held[p], n) /\ SumOn(held, S) = rest + held[p]
  BY <1>3, <1>4, <1>5, <1>6, <1>1 DEF Accumulate, Amount
<1>8. Saturated(rest + Accumulate(held[p], n)) = Accumulate(Saturated(rest + held[p]), n)
  BY <1>1, <1>3, <1>6 DEF Saturated, Accumulate, Amount
<1> QED BY <1>2, <1>7, <1>8

\* And leaves the sum of every other set.
LEMMA SumLeftAlone ==
  ASSUME NEW held \in [PathIds -> Amount], NEW S \in SUBSET PathIds, NEW p, p \notin S,
         NEW n \in Nat
  PROVE  SumOn([held EXCEPT ![p] = Accumulate(@, n)], S) = SumOn(held, S)
<1>1. IsFiniteSet(S)
  BY StoreSizes, FS_Subset
<1>2. PICK next : next = [held EXCEPT ![p] = Accumulate(@, n)]
  OBVIOUS
<1>3. \A q \in S : held[q] \in Int /\ held[q] = next[q]
  BY <1>2 DEF Amount
<1> QED BY <1>1, <1>2, <1>3, SumAgrees

\* In a forest of known functions, a context has a caller unless it is a root.
LEMMA CallerOfKnown ==
  ASSUME NEW reg \in Tables, Forest(reg.functions, reg.paths),
         NEW p \in PathIds, reg.paths[p] # NoNode
  PROVE  /\ reg.paths[p] \in NodeType
         /\ reg.paths[p].func \in Functions
         /\ \A a, b \in Functions :
              p \in EdgeContexts(reg.paths, a, b)
                <=> reg.paths[p].func = b /\ CallerOf(reg.paths, reg.paths[p]) = a
         /\ CallerOf(reg.paths, reg.paths[p]) \in Functions \cup {NoFunction}
<1> DEFINE tree == reg.paths
<1>1. tree[p] \in NodeType /\ tree[p].func \in Functions
      /\ tree[p].parent \in PathIds \cup {0}
  BY DEF Tables, NodeType
<1>2. CASE tree[p].parent = 0
  BY <1>1, <1>2, StoreSentinels DEF CallerOf, EdgeContexts
<1>3. CASE tree[p].parent # 0
  <2>1. tree[p].parent \in PathIds /\ tree[tree[p].parent] # NoNode
    BY <1>1, <1>3 DEF Forest
  <2>2. tree[tree[p].parent].func \in Functions
    BY <2>1 DEF Tables, NodeType
  <2> QED BY <1>1, <1>3, <2>2 DEF CallerOf, EdgeContexts
<1> QED BY <1>2, <1>3

LEMMA AddTells ==
  ASSUME NEW reg \in Tables, Forest(reg.functions, reg.paths),
         NEW data \in Told(reg.paths), NEW e \in KnownEvents(reg), NEW at \in Times
  PROVE  Add(reg.paths, data, e, at) \in Told(reg.paths)
<1> DEFINE tree == reg.paths
<1>0. data \in DataType /\ e \in EventType /\ Known(reg, e)
  BY DEF Told, KnownEvents
<1>1. CASE e.kind = "calls"
  <2>1. e.func \in Functions /\ e.amount \in Nat
    BY <1>0, <1>1 DEF EventType
  <2>2. PICK calls : calls = [data.calls EXCEPT ![e.func] = Accumulate(@, e.amount)]
    OBVIOUS
  <2>3. calls \in [Functions -> Amount]
    BY <1>0, <2>1, <2>2, AccumulateIsAmount DEF DataType
  <2>4. Add(tree, data, e, at) = [data EXCEPT !.calls = calls]
    BY <1>0, <1>1, <2>2 DEF Add, DataType
  <2> QED BY <2>3, <2>4 DEF Told, DataType
<1>2. CASE e.kind = "census"
  <2>1. e.ty \in Types /\ e.live \in Nat
    BY <1>0, <1>2 DEF EventType
  <2>2. PICK census : census = [data.census EXCEPT ![e.ty]
                                  = Record(@, [live |-> e.live, at |-> at])]
    OBVIOUS
  <2>3. census \in [Types -> Reading]
    <3>1. [live |-> e.live, at |-> at] \in Reading
      BY <2>1 DEF Reading
    <3> QED BY <1>0, <2>1, <2>2, <3>1 DEF DataType, Record
  <2>4. Add(tree, data, e, at) = [data EXCEPT !.census = census]
    BY <1>0, <1>2, <2>2 DEF Add, DataType
  <2> QED BY <2>3, <2>4 DEF Told, DataType
<1>3. CASE e.kind = "stack"
  <2>1. PICK p \in PathIds, n \in Nat : p = e.path /\ n = e.amount /\ tree[p] # NoNode
    BY <1>0, <1>3 DEF EventType, Known
  <2>2. PICK caller, func : caller = CallerOf(tree, tree[p]) /\ func = tree[p].func
    OBVIOUS
  <2>3. /\ func \in Functions /\ caller \in Functions \cup {NoFunction}
        /\ \A a, b \in Functions : p \in EdgeContexts(tree, a, b) <=> func = b /\ caller = a
    BY <2>1, <2>2, CallerOfKnown
  <2>4. PICK stacks : stacks = [data.stacks EXCEPT ![p] = Accumulate(@, n)]
    OBVIOUS
  <2>5. PICK edges : edges = IF caller = NoFunction THEN data.edges
                             ELSE [data.edges EXCEPT ![<<caller, func>>] = Accumulate(@, n)]
    OBVIOUS
  <2>6. Add(tree, data, e, at) = [data EXCEPT !.stacks = stacks, !.edges = edges]
    <3>1. AddStack(tree, data, e) = [data EXCEPT !.stacks = stacks, !.edges = edges]
      <4>1. CASE caller = NoFunction
        BY <1>0, <2>1, <2>2, <2>4, <2>5, <4>1 DEF AddStack, DataType
      <4>2. CASE caller # NoFunction
        BY <1>0, <2>1, <2>2, <2>4, <2>5, <4>2 DEF AddStack, DataType
      <4> QED BY <4>1, <4>2
    <3> QED BY <1>3, <3>1 DEF Add
  <2>7. stacks \in [PathIds -> Amount] /\ \A q \in PathIds : tree[q] = NoNode => stacks[q] = 0
    BY <1>0, <2>1, <2>4, AccumulateIsAmount DEF Told, DataType
  <2>8. edges \in [Functions \X Functions -> Amount]
    <3>1. CASE caller = NoFunction
      BY <1>0, <2>5, <3>1 DEF DataType
    <3>2. CASE caller # NoFunction
      <4>1. <<caller, func>> \in Functions \X Functions
        BY <2>3, <3>2
      <4> QED BY <1>0, <2>1, <2>5, <3>2, <4>1, AccumulateIsAmount DEF DataType
    <3> QED BY <3>1, <3>2
  <2>9. ASSUME NEW a \in Functions, NEW b \in Functions
        PROVE  edges[<<a, b>>] = Saturated(SumOn(stacks, EdgeContexts(tree, a, b)))
    <3>1. /\ EdgeContexts(tree, a, b) \in SUBSET PathIds
          /\ data.stacks \in [PathIds -> Amount]
          /\ data.edges \in [Functions \X Functions -> Amount]
          /\ data.edges[<<a, b>>] = Saturated(SumOn(data.stacks, EdgeContexts(tree, a, b)))
      BY <1>0, ContextsAreFinite DEF Told, DataType
    <3>2. CASE func = b /\ caller = a
      <4>1. p \in EdgeContexts(tree, a, b) /\ caller # NoFunction
        BY <2>3, <3>2, StoreSentinels
      <4>2. edges[<<a, b>>] = Accumulate(data.edges[<<a, b>>], n)
        BY <2>5, <3>1, <3>2, <4>1
      <4>3. Saturated(SumOn(stacks, EdgeContexts(tree, a, b)))
              = Accumulate(Saturated(SumOn(data.stacks, EdgeContexts(tree, a, b))), n)
        BY <2>4, <3>1, <4>1, SumAccumulates
      <4> QED BY <3>1, <4>2, <4>3
    <3>3. CASE ~(func = b /\ caller = a)
      <4>1. p \notin EdgeContexts(tree, a, b)
        BY <2>3, <3>3
      <4>2. edges[<<a, b>>] = data.edges[<<a, b>>]
        BY <2>5, <3>1, <3>3
      <4>3. SumOn(stacks, EdgeContexts(tree, a, b)) = SumOn(data.stacks, EdgeContexts(tree, a, b))
        BY <2>4, <3>1, <4>1, SumLeftAlone
      <4> QED BY <3>1, <4>2, <4>3
    <3> QED BY <3>2, <3>3
  <2> QED BY <1>0, <2>6, <2>7, <2>8, <2>9 DEF Told, DataType
<1> QED BY <1>0, <1>1, <1>2, <1>3 DEF EventType

LEMMA SelfTells ==
  ASSUME NEW reg \in Tables, NEW e \in KnownEvents(reg), NEW at \in Times,
         NEW data \in DataType, NEW self \in [Functions -> Amount],
         Add(reg.paths, data, e, at) \in DataType
  PROVE  /\ SelfAdd(reg.paths, self, e) \in [Functions -> Amount]
         /\ <<data, self>> \in SelfTold(reg.paths) =>
              <<Add(reg.paths, data, e, at), SelfAdd(reg.paths, self, e)>>
                \in SelfTold(reg.paths)
<1> DEFINE tree == reg.paths
<1>0. e \in EventType /\ Known(reg, e)
  BY DEF KnownEvents
<1>1. CASE e.kind # "stack"
  <2>1. SelfAdd(tree, self, e) = self
    BY <1>1 DEF SelfAdd
  <2>2. Add(tree, data, e, at).stacks = data.stacks
    <3>1. CASE e.kind = "calls"
      BY <3>1 DEF Add, DataType
    <3>2. CASE e.kind = "census"
      BY <3>2 DEF Add, DataType
    <3> QED BY <1>0, <1>1, <3>1, <3>2 DEF EventType
  <2> QED BY <2>1, <2>2 DEF SelfTold
<1>2. CASE e.kind = "stack"
  <2>1. PICK p \in PathIds, n \in Nat : p = e.path /\ n = e.amount /\ tree[p] # NoNode
    BY <1>0, <1>2 DEF EventType, Known
  <2>2. PICK func \in Functions : func = tree[p].func
    BY <2>1 DEF Tables, NodeType
  <2>3. PICK later : later = SelfAdd(tree, self, e)
    OBVIOUS
  <2>4. later = [self EXCEPT ![func] = Accumulate(@, n)]
    BY <1>2, <2>1, <2>2, <2>3 DEF SelfAdd
  <2>5. later \in [Functions -> Amount]
    BY <2>2, <2>1, <2>4, AccumulateIsAmount
  <2>6. PICK stacks : stacks = [data.stacks EXCEPT ![p] = Accumulate(@, n)]
    OBVIOUS
  <2>7. Add(tree, data, e, at).stacks = stacks
    BY <1>2, <2>1, <2>6 DEF Add, AddStack, DataType
  <2>8. ASSUME NEW a \in Functions, <<data, self>> \in SelfTold(tree)
        PROVE  later[a] = Saturated(SumOn(stacks, OwnContexts(tree, a)))
    <3>1. /\ OwnContexts(tree, a) \in SUBSET PathIds
          /\ data.stacks \in [PathIds -> Amount]
          /\ self[a] = Saturated(SumOn(data.stacks, OwnContexts(tree, a)))
      BY <2>8, ContextsAreFinite DEF SelfTold, DataType
    <3>2. CASE func = a
      <4>1. p \in OwnContexts(tree, a)
        BY <2>2, <3>2 DEF OwnContexts
      <4>2. Saturated(SumOn(stacks, OwnContexts(tree, a)))
              = Accumulate(Saturated(SumOn(data.stacks, OwnContexts(tree, a))), n)
        BY <2>6, <3>1, <4>1, SumAccumulates
      <4> QED BY <2>4, <3>1, <3>2, <4>2
    <3>3. CASE func # a
      <4>1. p \notin OwnContexts(tree, a)
        BY <2>2, <3>3 DEF OwnContexts
      <4>2. SumOn(stacks, OwnContexts(tree, a)) = SumOn(data.stacks, OwnContexts(tree, a))
        BY <2>6, <3>1, <4>1, SumLeftAlone
      <4> QED BY <2>4, <3>1, <3>3, <4>2
    <3> QED BY <3>2, <3>3
  <2>9. <<data, self>> \in SelfTold(tree)
          => <<Add(tree, data, e, at), later>> \in SelfTold(tree)
    BY <2>5, <2>7, <2>8 DEF SelfTold
  <2> QED BY <2>3, <2>5, <2>9
<1> QED BY <1>1, <1>2

\* Contexts registered later held nothing before, so what was told is told still.
LEMMA GrowingTells ==
  ASSUME NEW fs \in SUBSET Functions, NEW tree \in [PathIds -> NodeType \cup {NoNode}],
         Forest(fs, tree), NEW reg \in Grown(fs, tree)
  PROVE  /\ Told(tree) \subseteq Told(reg.paths)
         /\ \A data \in Told(tree) : \A self :
              <<data, self>> \in SelfTold(tree) => <<data, self>> \in SelfTold(reg.paths)
<1> DEFINE next == reg.paths
<1>0. /\ next \in [PathIds -> NodeType \cup {NoNode}]
      /\ \A p \in PathIds : tree[p] # NoNode => next[p] = tree[p]
  BY DEF Grown, Tables, KeepsNames
<1>1. ASSUME NEW data \in Told(tree), NEW S \in SUBSET PathIds, NEW T \in SUBSET S,
             \A p \in S \ T : tree[p] = NoNode
      PROVE  SumOn(data.stacks, S) = SumOn(data.stacks, T)
  <2>1. IsFiniteSet(S)
    BY StoreSizes, FS_Subset
  <2>2. \A p \in S : data.stacks[p] \in Int
    BY DEF Told, DataType, Amount
  <2>3. \A p \in S \ T : data.stacks[p] = 0
    BY <1>1 DEF Told
  <2> QED BY <2>1, <2>2, <2>3, SumOverMore
<1>2. ASSUME NEW a \in Functions, NEW b \in Functions
      PROVE  /\ EdgeContexts(tree, a, b) \subseteq EdgeContexts(next, a, b)
             /\ \A p \in EdgeContexts(next, a, b) \ EdgeContexts(tree, a, b) : tree[p] = NoNode
  <2>1. ASSUME NEW p \in EdgeContexts(tree, a, b) PROVE p \in EdgeContexts(next, a, b)
    <3>1. /\ p \in PathIds /\ tree[p].func = b /\ tree[p].parent # 0
          /\ tree[tree[p].parent].func = a
      BY DEF EdgeContexts
    <3>2. tree[p] # NoNode /\ tree[tree[p].parent] # NoNode
      BY <3>1, NoNodeIsNone, StoreSentinels
    <3>3. tree[p].parent \in PathIds
      BY <3>1, <3>2 DEF NodeType
    <3>4. next[p] = tree[p] /\ next[tree[p].parent] = tree[tree[p].parent]
      BY <1>0, <3>1, <3>2, <3>3
    <3> QED BY <3>1, <3>4 DEF EdgeContexts
  <2>2. ASSUME NEW p \in EdgeContexts(next, a, b), tree[p] # NoNode
        PROVE  p \in EdgeContexts(tree, a, b)
    <3>1. /\ p \in PathIds /\ next[p].func = b /\ next[p].parent # 0
          /\ next[next[p].parent].func = a
      BY DEF EdgeContexts
    <3>2. next[p] = tree[p] /\ tree[p].parent \in PathIds
      BY <1>0, <2>2, <3>1 DEF NodeType
    <3>3. tree[tree[p].parent] # NoNode
      BY <2>2, <3>1, <3>2 DEF Forest
    <3>4. next[tree[p].parent] = tree[tree[p].parent]
      BY <1>0, <3>2, <3>3
    <3> QED BY <3>1, <3>2, <3>4 DEF EdgeContexts
  <2> QED BY <2>1, <2>2
<1>3. ASSUME NEW a \in Functions
      PROVE  /\ OwnContexts(tree, a) \subseteq OwnContexts(next, a)
             /\ \A p \in OwnContexts(next, a) \ OwnContexts(tree, a) : tree[p] = NoNode
  BY <1>0, NoNodeIsNone, StoreSentinels DEF OwnContexts
<1>4. ASSUME NEW data \in Told(tree) PROVE data \in Told(next)
  <2>1. \A a, b \in Functions :
          SumOn(data.stacks, EdgeContexts(next, a, b)) = SumOn(data.stacks, EdgeContexts(tree, a, b))
    BY <1>1, <1>2, ContextsAreFinite
  <2>2. \A p \in PathIds : next[p] = NoNode => tree[p] = NoNode
    BY <1>0
  <2> QED BY <2>1, <2>2 DEF Told
<1>5. ASSUME NEW data \in Told(tree), NEW self, <<data, self>> \in SelfTold(tree)
      PROVE  <<data, self>> \in SelfTold(next)
  <2>1. \A a \in Functions :
          SumOn(data.stacks, OwnContexts(next, a)) = SumOn(data.stacks, OwnContexts(tree, a))
    BY <1>1, <1>3, ContextsAreFinite
  <2> QED BY <1>5, <2>1 DEF SelfTold
<1> QED BY <1>4, <1>5

-----------------------------------------------------------------------------
(* What is stored: the tables, the totals and the rings, whose windows     *)
(* hold data that reads the tree.                                          *)

TreeInv ==
  /\ functions \in SUBSET Functions /\ types \in SUBSET Types
  /\ paths \in [PathIds -> NodeType \cup {NoNode}]
  /\ Forest(functions, paths)

TotalsInv ==
  /\ totals \in Told(paths)
  /\ <<totals, selfTotals>> \in SelfTold(paths)

RingInv ==
  /\ fine \in Seq(WindowOf(Told(paths))) /\ IsRing(fine, FineCapacity)
  /\ coarse \in Seq(WindowOf(Told(paths))) /\ IsRing(coarse, CoarseCapacity)

StoredInv == TreeInv /\ TotalsInv /\ RingInv

LEMMA IndexIsNat ==
  ASSUME NEW t \in Nat, NEW r \in Nat \ {0}
  PROVE  IndexOf(t, r) \in Nat
BY DEF IndexOf

LEMMA SizesAreNat ==
  /\ FineResolution \in Nat \ {0} /\ FineCapacity \in Nat \ {0}
  /\ CoarseResolution \in Nat \ {0} /\ CoarseCapacity \in Nat \ {0}
BY StoreSizes

LEMMA EmptyIsTold ==
  ASSUME NEW tree
  PROVE  /\ Empty \in Told(tree)
         /\ <<Empty, [a \in Functions |-> 0]>> \in SelfTold(tree)
<1>1. Empty \in DataType
  BY StoreSizes DEF Empty, DataType, Amount, Reading
<1>2. ASSUME NEW S \in SUBSET PathIds PROVE Saturated(SumOn(Empty.stacks, S)) = 0
  <2>1. IsFiniteSet(S) /\ IsFiniteSet({}) /\ {} \in SUBSET S
    BY StoreSizes, FS_Subset
  <2>2. \A p \in S : Empty.stacks[p] \in Int /\ Empty.stacks[p] = 0
    BY DEF Empty
  <2>3. \A p \in S \ {} : Empty.stacks[p] = 0
    BY <2>2
  <2>4. SumOn(Empty.stacks, S) = SumOn(Empty.stacks, {})
    BY <2>1, <2>2, <2>3, SumOverMore
  <2>5. SumOn(Empty.stacks, {}) = 0
    BY SumOfNone
  <2> QED BY <2>4, <2>5, StoreSizes DEF Saturated
<1>3. \A a, b \in Functions : Empty.edges[<<a, b>>] = 0
  BY DEF Empty
<1>4. \A p \in PathIds : Empty.stacks[p] = 0
  BY DEF Empty
<1>5. [a \in Functions |-> 0] \in [Functions -> Amount]
  BY StoreSizes DEF Amount
<1> QED BY <1>1, <1>2, <1>3, <1>4, <1>5, ContextsAreFinite DEF Told, SelfTold

\* What a frame leaves of the tables and the events it counts.
LEMMA FrameIsKnown ==
  ASSUME TreeInv, NEW frame \in Frames
  PROVE  /\ Registered(frame.registers) \in Grown(functions, paths)
         /\ Survivors(Registered(frame.registers), frame.events)
              \in Seq(KnownEvents(Registered(frame.registers)))
         /\ Len(Survivors(Registered(frame.registers), frame.events)) <= Len(frame.events)
         /\ frame.events \in Seq(EventType)
         /\ frame.t \in Times /\ frame.t \in Nat
<1>1. /\ frame.registers \in Seq(RegisterType) /\ frame.events \in Seq(EventType)
      /\ frame.t \in Times /\ frame.t \in Nat
  BY StoreFrames, StoreSizes DEF Frames
<1>2. PICK b : b = [functions |-> functions, types |-> types, paths |-> paths, unknown |-> 0]
  OBVIOUS
<1>3. b \in Grown(functions, paths)
  BY <1>2 DEF TreeInv, Grown, Tables, KeepsNames
<1>4. \A reg \in Grown(functions, paths) : \A r \in RegisterType :
        Register(reg, r) \in Grown(functions, paths)
  BY RegisterGrows
<1>5. Registered(frame.registers) \in Grown(functions, paths)
  BY <1>1, <1>2, <1>3, <1>4, RegistersStay DEF Registered
<1> QED BY <1>1, <1>5, SurvivorsAreKnown

\* What becomes of a window when events land in the one of an index.
Landed(w, index, tree, applied, at) ==
  [index |-> w.index,
   data |-> IF w.index = index THEN Folded(tree, w.data, applied, at) ELSE w.data]

\* Events that land in one window of a ring leave the windows where they are.
LEMMA FoldAtIs ==
  ASSUME NEW D, NEW ring \in Seq(WindowOf(D)), NEW cap \in Nat, IsRing(ring, cap),
         NEW index \in Nat, NEW tree, NEW applied, NEW at,
         \A d \in D : Folded(tree, d, applied, at) \in D
  PROVE  /\ FoldAt(ring, index, tree, applied, at) \in Seq(WindowOf(D))
         /\ IsRing(FoldAt(ring, index, tree, applied, at), cap)
         /\ DOMAIN FoldAt(ring, index, tree, applied, at) = DOMAIN ring
         /\ Len(FoldAt(ring, index, tree, applied, at)) = Len(ring)
         /\ \A j \in DOMAIN ring :
              FoldAt(ring, index, tree, applied, at)[j]
                = Landed(ring[j], index, tree, applied, at)
<1>0. PICK l \in Nat : l = Len(ring) /\ DOMAIN ring = 1..l
  BY LenProperties
<1>1. \A j \in 1..l : /\ ring[j].index \in Nat /\ ring[1].index \in Nat
                      /\ ring[j].index = ring[1].index + j - 1
                      /\ ring[j] \in WindowOf(D)
  BY <1>0, RingIndexes, ElementOfSeq DEF IsRing
<1>2. CASE ~Retains(ring, index)
  <2>1. ASSUME NEW j \in 1..l PROVE ring[j].index # index
    <3>1. ring # << >> /\ 1 \in 1..l /\ l \in 1..l
      BY <1>0, <2>1, EmptySeq
    <3>2. ring[1].index <= ring[j].index /\ ring[j].index <= ring[l].index
      <4>1. PICK first \in Nat : first = ring[1].index
        BY <1>1, <3>1
      <4>2. ring[j].index = first + j - 1 /\ ring[l].index = first + l - 1
        BY <1>1, <3>1, <4>1
      <4> QED BY <4>1, <4>2
    <3> QED BY <1>0, <1>2, <3>1, <3>2 DEF Retains, Oldest, Newest
  <2>2. \A j \in 1..l : ring[j] = Landed(ring[j], index, tree, applied, at)
    BY <1>1, <2>1 DEF Landed, WindowOf
  <2> QED BY <1>0, <1>2, <2>2 DEF FoldAt
<1>3. CASE Retains(ring, index)
  <2>1. l \in 1..l /\ 1 \in 1..l
    BY <1>0, <1>3, EmptySeq DEF Retains
  <2>2. ring[1].index <= index /\ index <= ring[l].index
    BY <1>0, <1>3 DEF Retains, Oldest, Newest
  <2>3. PICK i \in 1..l : i = Slot(ring, index)
    BY <1>1, <2>1, <2>2 DEF Slot, Oldest
  <2>4. ring[i].index = index
    <3>1. PICK first \in Nat : first = ring[1].index
      BY <1>1, <2>1
    <3>2. i = index - first + 1
      BY <2>3, <3>1 DEF Slot, Oldest
    <3>3. ring[i].index = first + i - 1
      BY <1>1, <3>1
    <3>4. first + i - 1 = index
      BY <3>2
    <3> QED BY <3>3, <3>4
  <2>5. PICK d \in D : d = Folded(tree, ring[i].data, applied, at)
    BY <1>1 DEF WindowOf
  <2>6. PICK w : w = [ring[i] EXCEPT !.data = d]
    OBVIOUS
  <2>7. FoldAt(ring, index, tree, applied, at) = [ring EXCEPT ![i] = w]
    BY <1>3, <2>3, <2>5, <2>6 DEF FoldAt
  <2>8. w \in WindowOf(D) /\ w.index = ring[i].index
        /\ w = Landed(ring[i], index, tree, applied, at)
    BY <1>1, <2>4, <2>5, <2>6 DEF WindowOf, Landed
  <2>9. PICK s : s = [ring EXCEPT ![i] = w]
    OBVIOUS
  <2>10. /\ s \in Seq(WindowOf(D)) /\ Len(s) = l
         /\ \A j \in 1..l : s[j] = IF j = i THEN w ELSE ring[j]
    BY <1>0, <2>8, <2>9, ExceptSeq
  <2>11. ASSUME NEW j \in 1..l
         PROVE  s[j] = Landed(ring[j], index, tree, applied, at) /\ s[j].index = ring[j].index
    <3>1. CASE j = i
      BY <2>8, <2>10, <3>1
    <3>2. CASE j # i
      <4>1. ring[j].index # index
        <5>1. PICK first \in Nat : first = ring[1].index
          BY <1>1, <2>1
        <5>2. ring[i].index = first + i - 1 /\ ring[j].index = first + j - 1
          BY <1>1, <5>1
        <5> QED BY <2>4, <3>2, <5>1, <5>2
      <4> QED BY <1>1, <2>10, <3>2, <4>1 DEF Landed, WindowOf
    <3> QED BY <3>1, <3>2
  <2>12. DOMAIN s = 1..l
    BY <2>10, LenProperties
  <2>13. Contiguous(s)
    BY <1>1, <2>1, <2>11, <2>12 DEF Contiguous
  <2>14. IsRing(s, cap)
    BY <1>0, <2>10, <2>13 DEF IsRing
  <2> QED BY <1>0, <2>7, <2>9, <2>10, <2>11, <2>12, <2>14
<1> QED BY <1>2, <1>3

\* A window of a ring after events landed in it was a window of the ring, or an empty
\* one later than those.
Lands(after, ring, D, index, tree, applied, at) ==
  /\ after # << >> /\ index <= Newest(after)
  /\ ring # << >> => Newest(ring) <= Newest(after)
  /\ \A i \in DOMAIN after : \E w \in WindowOf(D) :
       /\ after[i] = Landed(w, index, tree, applied, at)
       /\ \/ \E j \in DOMAIN ring : w = ring[j]
          \/ w.data = Empty /\ (ring # << >> => w.index > Newest(ring))

LEMMA RingAfterIsRing ==
  ASSUME NEW D, NEW ring \in Seq(WindowOf(D)), NEW cap \in Nat \ {0}, IsRing(ring, cap),
         Empty \in D, NEW resolution \in Nat \ {0}, NEW t \in Nat, NEW tree, NEW applied,
         \A d \in D : Folded(tree, d, applied, t) \in D
  PROVE  /\ RingAfter(ring, resolution, cap, tree, applied, t) \in Seq(WindowOf(D))
         /\ IsRing(RingAfter(ring, resolution, cap, tree, applied, t), cap)
         /\ applied # << >> =>
              Lands(RingAfter(ring, resolution, cap, tree, applied, t), ring, D,
                    IndexOf(t, resolution), tree, applied, t)
<1>1. CASE applied = << >>
  BY <1>1 DEF RingAfter
<1>2. CASE applied # << >>
  <2>1. PICK index \in Nat : index = IndexOf(t, resolution)
    BY IndexIsNat
  <2>2. PICK r : r = WindowFor(ring, index, cap, Empty)
    OBVIOUS
  <2>3. r \in Seq(WindowOf(D)) /\ IsRing(r, cap) /\ r # << >>
    BY <2>2, WindowForIsRing
  <2>4. /\ index <= Newest(r)
        /\ ring # << >> => Newest(ring) <= Newest(r)
        /\ \A i \in DOMAIN r :
             \/ \E j \in DOMAIN ring : r[i] = ring[j]
             \/ r[i].data = Empty /\ (ring # << >> => r[i].index > Newest(ring))
    BY <2>2, WindowForKeeps
  <2>5. PICK after : after = FoldAt(r, index, tree, applied, t)
    OBVIOUS
  <2>6. RingAfter(ring, resolution, cap, tree, applied, t) = after
    BY <1>2, <2>1, <2>2, <2>5 DEF RingAfter
  <2>7. /\ after \in Seq(WindowOf(D)) /\ IsRing(after, cap)
        /\ DOMAIN after = DOMAIN r /\ Len(after) = Len(r)
        /\ \A i \in DOMAIN r : after[i] = Landed(r[i], index, tree, applied, t)
    BY <2>3, <2>5, FoldAtIs
  <2>8. Len(r) \in Nat \ {0} /\ DOMAIN r = 1..Len(r) /\ \A i \in DOMAIN r : r[i] \in WindowOf(D)
    BY <2>3, LenProperties, ElementOfSeq, EmptySeq
  <2>9. after # << >> /\ Newest(after) = Newest(r)
    <3>1. Len(r) \in DOMAIN r
      BY <2>8
    <3>2. after[Len(r)].index = r[Len(r)].index
      BY <2>7, <3>1 DEF Landed
    <3> QED BY <2>7, <2>8, <3>2, EmptySeq DEF Newest
  <2>10. Lands(after, ring, D, index, tree, applied, t)
    BY <2>4, <2>7, <2>8, <2>9 DEF Lands
  <2> QED BY <2>1, <2>6, <2>7, <2>10
<1> QED BY <1>1, <1>2

LEMMA StoredInvInit == Init => StoredInv
<1> SUFFICES ASSUME Init PROVE StoredInv
  OBVIOUS
<1>1. << >> \in Seq(WindowOf(Told(paths))) /\ IsRing(<< >>, FineCapacity)
      /\ IsRing(<< >>, CoarseCapacity)
  BY SizesAreNat, EmptySeq DEF IsRing, Contiguous
<1>2. TreeInv
  BY DEF Init, TreeInv, Forest
<1>3. totals \in Told(paths) /\ <<totals, selfTotals>> \in SelfTold(paths)
  BY EmptyIsTold DEF Init
<1> QED BY <1>1, <1>2, <1>3 DEF Init, StoredInv, RingInv, TotalsInv

\* The tables and the events a frame comes to, and where those land.
Landing(frame, reg, applied) ==
  /\ reg \in Grown(functions, paths) /\ applied \in Seq(KnownEvents(reg))
  /\ functions' = reg.functions /\ types' = reg.types /\ paths' = reg.paths
  /\ totals' = Folded(reg.paths, totals, applied, frame.t)
  /\ applied # << >> => Lands(fine', fine, Told(reg.paths),
                              IndexOf(frame.t, FineResolution), reg.paths, applied, frame.t)
  /\ applied # << >> => Lands(coarse', coarse, Told(reg.paths),
                              IndexOf(frame.t, CoarseResolution), reg.paths, applied, frame.t)
  /\ applied = << >> => fine' = fine /\ coarse' = coarse

LEMMA ApplyFrameStores ==
  ASSUME StoredInv, NEW c \in Connections, NEW frame \in Frames, ApplyFrame(c, frame)
  PROVE  /\ StoredInv' /\ KeepsNames(paths, paths')
         /\ \E reg, applied : Landing(frame, reg, applied)
<1>1. PICK reg, applied : /\ reg = Registered(frame.registers)
                          /\ applied = Survivors(reg, frame.events)
  OBVIOUS
<1>2. /\ reg \in Grown(functions, paths) /\ applied \in Seq(KnownEvents(reg))
      /\ frame.t \in Times /\ frame.t \in Nat
  BY <1>1, FrameIsKnown DEF StoredInv
<1>3. /\ functions' = reg.functions /\ types' = reg.types /\ paths' = reg.paths
      /\ totals' = Folded(reg.paths, totals, applied, frame.t)
      /\ selfTotals' = SelfFolded(reg.paths, selfTotals, applied)
      /\ coarse' = RingAfter(coarse, CoarseResolution, CoarseCapacity, reg.paths, applied,
                             frame.t)
      /\ fine' = RingAfter(fine, FineResolution, FineCapacity, reg.paths, applied, frame.t)
  BY <1>1, <1>2 DEF ApplyFrame
<1>4. reg \in Tables /\ Forest(reg.functions, reg.paths) /\ KeepsNames(paths, reg.paths)
  BY <1>2 DEF Grown
<1>5. TreeInv'
  BY <1>3, <1>4 DEF TreeInv, Tables
<1> DEFINE D == Told(reg.paths)
           Both == SelfTold(reg.paths)
<1>6. /\ Told(paths) \subseteq D
      /\ totals \in D /\ <<totals, selfTotals>> \in Both
  BY <1>2, GrowingTells DEF StoredInv, TreeInv, TotalsInv
<1>7. \A data \in D : \A e \in KnownEvents(reg) : Add(reg.paths, data, e, frame.t) \in D
  BY <1>2, <1>4, AddTells
<1>8. \A d \in D : Folded(reg.paths, d, applied, frame.t) \in D
  BY <1>2, <1>7, FoldedStays
<1>9. TotalsInv'
  <2> DEFINE Selves == [Functions -> Amount]
  <2>1. D \subseteq DataType /\ selfTotals \in Selves
    BY <1>6 DEF Told, SelfTold
  <2> DEFINE R == {pair \in D \X Selves : pair \in Both}
  <2>2. \A self \in Selves : \A e \in KnownEvents(reg) : SelfAdd(reg.paths, self, e) \in Selves
    BY <1>2, <1>4, <1>6, <1>7, <2>1, SelfTells
  <2>3. \A data \in D : \A self \in Selves : \A e \in KnownEvents(reg) :
          <<data, self>> \in R =>
            <<Add(reg.paths, data, e, frame.t), SelfAdd(reg.paths, self, e)>> \in R
    BY <1>2, <1>4, <1>7, <2>1, <2>2, SelfTells
  <2>4. <<totals, selfTotals>> \in R /\ R \in SUBSET (D \X Selves)
    BY <1>6, <2>1
  <2>5. <<Folded(reg.paths, totals, applied, frame.t),
          SelfFolded(reg.paths, selfTotals, applied)>> \in R
    <3>1. applied \in Seq(KnownEvents(reg)) /\ totals \in D /\ selfTotals \in Selves
      BY <1>2, <1>6, <2>1
    <3>2. R \in SUBSET (D \X Selves) /\ <<totals, selfTotals>> \in R
      BY <2>4
    <3> HIDE DEF R, D, Selves
    <3> QED BY <1>7, <2>2, <2>3, <3>1, <3>2, FoldedTogether, SMTT(40)
  <2> QED BY <1>3, <2>5 DEF TotalsInv
<1>10. RingInv' /\ Landing(frame, reg, applied)
  <2>1. WindowOf(Told(paths)) \subseteq WindowOf(D)
    BY <1>6 DEF WindowOf
  <2>2. /\ fine \in Seq(WindowOf(D)) /\ IsRing(fine, FineCapacity)
        /\ coarse \in Seq(WindowOf(D)) /\ IsRing(coarse, CoarseCapacity)
    BY <2>1, SeqMonotonic DEF StoredInv, RingInv
  <2>3. Empty \in D
    BY EmptyIsTold
  <2>4. /\ fine' \in Seq(WindowOf(D)) /\ IsRing(fine', FineCapacity)
        /\ coarse' \in Seq(WindowOf(D)) /\ IsRing(coarse', CoarseCapacity)
        /\ applied # << >> => Lands(fine', fine, D, IndexOf(frame.t, FineResolution),
                                    reg.paths, applied, frame.t)
        /\ applied # << >> => Lands(coarse', coarse, D, IndexOf(frame.t, CoarseResolution),
                                    reg.paths, applied, frame.t)
    <3> HIDE DEF D
    <3> QED BY <1>2, <1>3, <1>8, <2>2, <2>3, SizesAreNat, RingAfterIsRing
  <2>5. applied = << >> => fine' = fine /\ coarse' = coarse
    BY <1>3 DEF RingAfter
  <2> QED BY <1>2, <1>3, <2>4, <2>5 DEF RingInv, Landing
<1> QED BY <1>3, <1>4, <1>5, <1>9, <1>10 DEF StoredInv

LEMMA ApplyFrameLands ==
  ASSUME StoredInv, NEW c \in Connections, NEW frame \in Frames, ApplyFrame(c, frame)
  PROVE  \E reg, applied : Landing(frame, reg, applied)
BY ApplyFrameStores

LEMMA StoredInvStep == StoredInv /\ [Next]_vars => StoredInv' /\ KeepsNames(paths, paths')
<1> SUFFICES ASSUME StoredInv, [Next]_vars PROVE StoredInv' /\ KeepsNames(paths, paths')
  OBVIOUS
<1>1. ASSUME NEW c \in Connections, NEW frame \in Frames, ApplyFrame(c, frame)
      PROVE  StoredInv' /\ KeepsNames(paths, paths')
  BY <1>1, ApplyFrameStores
<1>2. CASE UNCHANGED <<registered, totals, selfTotals, fine, coarse>>
  BY <1>2 DEF StoredInv, TreeInv, TotalsInv, RingInv, KeepsNames, registered
<1>3. ASSUME NEW c \in Connections, Admit(c) \/ Connect(c) \/ Disconnect(c)
      PROVE  UNCHANGED <<registered, totals, selfTotals, fine, coarse>>
  BY <1>3 DEF Admit, Connect, Disconnect, rings
<1>4. CASE UNCHANGED vars
  BY <1>2, <1>4 DEF vars, rings
<1> QED BY <1>1, <1>2, <1>3, <1>4 DEF Next

\* Whatever the frames, both rings stay contiguous and within their capacity.
THEOREM RingsStayContiguous == Spec => []RingsContiguous
<1>1. StoredInv => RingsContiguous
  BY DEF StoredInv, RingInv, RingsContiguous
<1> QED BY <1>1, StoredInvInit, StoredInvStep, PTL DEF Spec

\* Whatever is registered, in whatever order, the contexts are a forest over
\* registered functions.
THEOREM ContextsAreForest == Spec => []TreeWellFormed
<1>1. StoredInv => TreeWellFormed
  BY DEF StoredInv, TreeInv, Forest, TreeWellFormed
<1> QED BY <1>1, StoredInvInit, StoredInvStep, PTL DEF Spec

\* No later frame gives a registered context another function or another parent.
THEOREM NamesAreKept == Spec => ContextsKeepTheirNames
<1>1. KeepsNames(paths, paths')
        => [\A p \in PathIds : paths[p] # NoNode => paths'[p] = paths[p]]_paths
  BY DEF KeepsNames
<1> QED BY <1>1, StoredInvInit, StoredInvStep, PTL DEF Spec, ContextsKeepTheirNames

\* In the totals and in every window of both rings, an edge of the call graph holds
\* what the contexts that stand for it hold, for any ceiling of the counters.
THEOREM EdgesAreRead == Spec => []EdgesReadTheTree
<1>1. StoredInv => EdgesReadTheTree
  <2> SUFFICES ASSUME StoredInv, NEW data \in AllData, NEW a \in Functions,
                      NEW b \in Functions
               PROVE  data.edges[<<a, b>>]
                        = Saturated(SumOn(data.stacks, EdgeContexts(paths, a, b)))
    BY DEF EdgesReadTheTree, SumOn, EdgeContexts
  <2>1. ASSUME NEW ring \in Seq(WindowOf(Told(paths))), NEW w \in Range(ring)
        PROVE  w.data \in Told(paths)
    <3>1. PICK i \in DOMAIN ring : w = ring[i]
      BY DEF Range
    <3>2. ring[i] \in WindowOf(Told(paths))
      BY LenProperties, ElementOfSeq
    <3> QED BY <3>1, <3>2 DEF WindowOf
  <2>2. data \in Told(paths)
    BY <2>1 DEF AllData, StoredInv, TotalsInv, RingInv
  <2> QED BY <2>2 DEF Told
<1> QED BY <1>1, StoredInvInit, StoredInvStep, PTL DEF Spec

\* A function's own time is what its contexts hold together.
THEOREM SelfIsRead == Spec => []SelfReadsTheTree
<1>1. StoredInv => SelfReadsTheTree
  <2> SUFFICES ASSUME StoredInv, NEW a \in Functions
               PROVE  selfTotals[a] = Saturated(SumOn(totals.stacks, OwnContexts(paths, a)))
    BY DEF SelfReadsTheTree, SumOn, OwnContexts
  <2> QED BY DEF StoredInv, TotalsInv, SelfTold
<1> QED BY <1>1, StoredInvInit, StoredInvStep, PTL DEF Spec

-----------------------------------------------------------------------------
(* The censuses.  A window's reading of a type and the process's are taken *)
(* from the same events: the window has the one the process has, if that   *)
(* was taken in its time, and never a newer one.                           *)

\* Of two folds of the same events.
LEMMA FoldedTwice ==
  ASSUME NEW E, NEW l \in Seq(E), NEW X, NEW R \in SUBSET (X \X X),
         NEW b \in X, NEW c \in X, <<b, c>> \in R, NEW tree, NEW at,
         \A data \in X : \A e \in E : Add(tree, data, e, at) \in X,
         \A d1, d2 \in X : \A e \in E : <<d1, d2>> \in R =>
           <<Add(tree, d1, e, at), Add(tree, d2, e, at)>> \in R
  PROVE  <<Folded(tree, b, l, at), Folded(tree, c, l, at)>> \in R
<1>1. PICK iter : FoldsTo(iter, l, b, tree, at)
  BY FoldedUnfolds
<1>2. PICK other : FoldsTo(other, l, c, tree, at)
  BY FoldedUnfolds
<1> DEFINE Holds == {s \in SUBSET (DOMAIN l) : <<iter[s], other[s]>> \in R}
<1>3. {} \in Holds
  BY <1>1, <1>2 DEF FoldsTo
<1>4. ASSUME NEW s \in SUBSET (DOMAIN l), s # {}, s \ {Max(s)} \in Holds PROVE s \in Holds
  <2>1. l[Max(s)] \in E
    BY <1>4, ListIsFinite
  <2>2. /\ iter[s] = Add(tree, iter[s \ {Max(s)}], l[Max(s)], at)
        /\ other[s] = Add(tree, other[s \ {Max(s)}], l[Max(s)], at)
    BY <1>1, <1>2, <1>4 DEF FoldsTo
  <2>3. /\ <<iter[s \ {Max(s)}], other[s \ {Max(s)}]>> \in R
        /\ iter[s \ {Max(s)}] \in X /\ other[s \ {Max(s)}] \in X
    BY <1>4
  <2> QED BY <2>1, <2>2, <2>3
<1>5. DOMAIN l \in Holds
  <2>1. \A s \in SUBSET (DOMAIN l) : s # {} /\ s \ {Max(s)} \in Holds => s \in Holds
    BY <1>4
  <2> HIDE DEF Holds
  <2> QED BY <1>3, <2>1, ListInduction
<1> QED BY <1>1, <1>2, <1>5 DEF FoldsTo

LEMMA FoldedOfNone ==
  ASSUME NEW b, NEW tree, NEW at
  PROVE  Folded(tree, b, << >>, at) = b
<1>1. PICK E, X, l : E = {} /\ X = {b} /\ l = << >>
  OBVIOUS
<1>2. l \in Seq(E) /\ b \in X
  BY <1>1
<1>3. \A data \in X : \A e \in E : Add(tree, data, e, at) \in X
  BY <1>1
<1>4. Folded(tree, b, l, at) \in X
  BY <1>2, <1>3, FoldedStays
<1> QED BY <1>1, <1>4

\* What a window of index has, the process having latest.
Follows(latest, reading, index) ==
  /\ reading # NoReading => /\ latest # NoReading /\ reading.at <= latest.at
                            /\ IndexOf(reading.at, FineResolution) = index
  /\ latest # NoReading /\ IndexOf(latest.at, FineResolution) = index => reading = latest

\* What the process has after readings taken at a time, having latest before.
Raised(latest, next, at) ==
  \/ next = latest
  \/ next # NoReading /\ next.at = at /\ (latest # NoReading => latest.at <= at)

CensusInv ==
  /\ StoredInv
  /\ \A y \in Types :
       /\ totals.census[y] # NoReading =>
            fine # << >> /\ IndexOf(totals.census[y].at, FineResolution) <= Newest(fine)
       /\ \A i \in DOMAIN fine :
            Follows(totals.census[y], fine[i].data.census[y], fine[i].index)

LEMMA AddRecords ==
  ASSUME NEW tree, NEW data \in DataType, NEW e \in EventType, NEW at, NEW y \in Types
  PROVE  IF e.kind = "census" /\ e.ty = y
         THEN Add(tree, data, e, at).census[y]
                = Record(data.census[y], [live |-> e.live, at |-> at])
         ELSE Add(tree, data, e, at).census[y] = data.census[y]
<1>1. CASE e.kind = "calls"
  BY <1>1 DEF Add, DataType
<1>2. CASE e.kind = "stack"
  <2>1. AddStack(tree, data, e).census = data.census
    BY DEF AddStack, DataType
  <2> QED BY <1>2, <2>1 DEF Add
<1>3. CASE e.kind = "census"
  <2>1. e.ty \in Types
    BY <1>3 DEF EventType
  <2> QED BY <1>3, <2>1 DEF Add, DataType
<1> QED BY <1>1, <1>2, <1>3 DEF EventType

\* A reading recorded in the window of its time and in the process.
LEMMA RecordFollows ==
  ASSUME NEW latest \in Reading, NEW held \in Reading, NEW n \in Nat, NEW at \in Times,
         Follows(latest, held, IndexOf(at, FineResolution))
  PROVE  LET r == [live |-> n, at |-> at] IN
         Follows(Record(latest, r), Record(held, r), IndexOf(at, FineResolution))
<1>1. PICK r : r = [live |-> n, at |-> at]
  OBVIOUS
<1>2. /\ r.at = at /\ r # NoReading /\ at \in Nat
      /\ latest # NoReading => latest.at \in Nat
      /\ held # NoReading => held.at \in Nat
  <2>1. at \in Nat /\ Times \subseteq Nat
    BY StoreSizes
  <2>2. r \in [live: Nat, at: Nat] /\ r.at = at
    BY <1>1, <2>1
  <2> QED BY <2>1, <2>2, StoreSentinels DEF Reading
<1>3. CASE held # NoReading /\ held.at > at
  <2>1. latest # NoReading /\ latest.at > at
    BY <1>2, <1>3 DEF Follows
  <2> QED BY <1>1, <1>2, <1>3, <2>1 DEF Record
<1>4. CASE ~(held # NoReading /\ held.at > at)
  <2>1. Record(held, r) = r
    BY <1>2, <1>4 DEF Record
  <2>2. CASE latest # NoReading /\ latest.at > at
    <3>1. Record(latest, r) = latest
      BY <1>2, <2>2 DEF Record
    <3>2. IndexOf(latest.at, FineResolution) # IndexOf(at, FineResolution)
      BY <1>4, <2>2 DEF Follows
    <3> QED BY <1>1, <1>2, <2>1, <2>2, <3>1, <3>2 DEF Follows
  <2>3. CASE ~(latest # NoReading /\ latest.at > at)
    <3>1. Record(latest, r) = r
      BY <1>2, <2>3 DEF Record
    <3> QED BY <1>1, <1>2, <2>1, <3>1 DEF Follows
  <2> QED BY <2>2, <2>3
<1> QED BY <1>3, <1>4

LEMMA RecordRaises ==
  ASSUME NEW latest \in Reading, NEW next \in Reading, NEW n \in Nat, NEW at \in Times,
         Raised(latest, next, at)
  PROVE  Raised(latest, Record(next, [live |-> n, at |-> at]), at)
<1>1. PICK r : r = [live |-> n, at |-> at]
  OBVIOUS
<1>2. /\ r.at = at /\ r # NoReading /\ at \in Nat
      /\ latest # NoReading => latest.at \in Nat
      /\ next # NoReading => next.at \in Nat
  BY <1>1, StoreSizes, StoreSentinels DEF Reading
<1> QED BY <1>1, <1>2 DEF Record, Raised

\* The readings of a frame raise what the process has, and land alike in the window of
\* the frame's time.
LEMMA FrameRecords ==
  ASSUME NEW reg \in Tables, Forest(reg.functions, reg.paths),
         NEW applied \in Seq(KnownEvents(reg)), NEW at \in Times,
         NEW latest \in Told(reg.paths), NEW held \in Told(reg.paths), NEW y \in Types
  PROVE  /\ Raised(latest.census[y], Folded(reg.paths, latest, applied, at).census[y], at)
         /\ Follows(latest.census[y], held.census[y], IndexOf(at, FineResolution))
              => Follows(Folded(reg.paths, latest, applied, at).census[y],
                         Folded(reg.paths, held, applied, at).census[y],
                         IndexOf(at, FineResolution))
<1> DEFINE D == Told(reg.paths)
           E == KnownEvents(reg)
           Up == {d \in D : Raised(latest.census[y], d.census[y], at)}
           R == {pair \in D \X D : Follows(pair[1].census[y], pair[2].census[y],
                                           IndexOf(at, FineResolution))}
<1>1. \A d \in D : \A e \in E : Add(reg.paths, d, e, at) \in D
  BY AddTells
<1>2. \A d \in D : d.census[y] \in Reading
  BY DEF Told, DataType
<1>3. ASSUME NEW d \in D, NEW e \in E
      PROVE  \/ Add(reg.paths, d, e, at).census[y] = d.census[y]
             \/ /\ e.kind = "census" /\ e.ty = y /\ e.live \in Nat
                /\ Add(reg.paths, d, e, at).census[y]
                     = Record(d.census[y], [live |-> e.live, at |-> at])
  <2>1. d \in DataType /\ e \in EventType
    BY DEF Told, KnownEvents
  <2>2. e.kind = "census" => e.live \in Nat
    BY <2>1 DEF EventType
  <2> QED BY <2>1, <2>2, AddRecords
<1>4. Raised(latest.census[y], Folded(reg.paths, latest, applied, at).census[y], at)
  <2>1. latest \in Up
    BY DEF Raised
  <2>2. ASSUME NEW d \in Up, NEW e \in E PROVE Add(reg.paths, d, e, at) \in Up
    <3>1. Raised(latest.census[y], Add(reg.paths, d, e, at).census[y], at)
      <4>1. CASE Add(reg.paths, d, e, at).census[y] = d.census[y]
        BY <4>1
      <4>2. CASE /\ e.live \in Nat
                 /\ Add(reg.paths, d, e, at).census[y]
                      = Record(d.census[y], [live |-> e.live, at |-> at])
        <5>1. latest.census[y] \in Reading /\ d.census[y] \in Reading
          BY <1>2
        <5> QED BY <4>2, <5>1, RecordRaises
      <4> QED BY <1>3, <4>1, <4>2
    <3> QED BY <1>1, <3>1
  <2>3. Folded(reg.paths, latest, applied, at) \in Up
    <3>1. \A d \in Up : \A e \in E : Add(reg.paths, d, e, at) \in Up
      BY <2>2
    <3> HIDE DEF Up
    <3> QED BY <2>1, <3>1, FoldedStays
  <2> QED BY <2>3
<1>5. ASSUME Follows(latest.census[y], held.census[y], IndexOf(at, FineResolution))
      PROVE  Follows(Folded(reg.paths, latest, applied, at).census[y],
                     Folded(reg.paths, held, applied, at).census[y],
                     IndexOf(at, FineResolution))
  <2>1. <<latest, held>> \in R /\ R \in SUBSET (D \X D)
    BY <1>5
  <2>2. ASSUME NEW d1 \in D, NEW d2 \in D, NEW e \in E, <<d1, d2>> \in R
        PROVE  <<Add(reg.paths, d1, e, at), Add(reg.paths, d2, e, at)>> \in R
    <3>1. d1 \in DataType /\ d2 \in DataType /\ e \in EventType
          /\ d1.census[y] \in Reading /\ d2.census[y] \in Reading
      BY <1>2 DEF Told, KnownEvents
    <3>2. Follows(Add(reg.paths, d1, e, at).census[y], Add(reg.paths, d2, e, at).census[y],
                  IndexOf(at, FineResolution))
      <4>1. CASE e.kind = "census" /\ e.ty = y
        <5>1. e.live \in Nat
          BY <3>1, <4>1 DEF EventType
        <5>2. /\ Add(reg.paths, d1, e, at).census[y]
                   = Record(d1.census[y], [live |-> e.live, at |-> at])
              /\ Add(reg.paths, d2, e, at).census[y]
                   = Record(d2.census[y], [live |-> e.live, at |-> at])
          BY <3>1, <4>1, AddRecords
        <5> QED BY <2>2, <3>1, <5>1, <5>2, RecordFollows
      <4>2. CASE ~(e.kind = "census" /\ e.ty = y)
        <5>1. Add(reg.paths, d1, e, at).census[y] = d1.census[y]
          BY <1>3, <4>2
        <5>2. Add(reg.paths, d2, e, at).census[y] = d2.census[y]
          BY <1>3, <4>2
        <5> QED BY <2>2, <5>1, <5>2
      <4> QED BY <4>1, <4>2
    <3> QED BY <1>1, <3>2
  <2>3. <<Folded(reg.paths, latest, applied, at), Folded(reg.paths, held, applied, at)>> \in R
    <3>1. \A d1, d2 \in D : \A e \in E : <<d1, d2>> \in R =>
            <<Add(reg.paths, d1, e, at), Add(reg.paths, d2, e, at)>> \in R
      BY <2>2
    <3>2. applied \in Seq(E) /\ latest \in D /\ held \in D
      OBVIOUS
    <3> HIDE DEF R, D, E
    <3> QED BY <1>1, <2>1, <3>1, <3>2, FoldedTwice
  <2> QED BY <2>3
<1> QED BY <1>4, <1>5

LEMMA NewestIsNat ==
  ASSUME NEW D, NEW ring \in Seq(WindowOf(D)), Contiguous(ring), ring # << >>
  PROVE  Newest(ring) \in Nat
<1>1. Len(ring) \in 1..Len(ring)
  BY EmptySeq, LenProperties
<1> QED BY <1>1, RingIndexes DEF Newest

LEMMA CensusInvInit == Init => CensusInv
<1> SUFFICES ASSUME Init PROVE CensusInv
  OBVIOUS
<1>1. fine = << >> /\ DOMAIN fine = {} /\ \A y \in Types : totals.census[y] = NoReading
  BY EmptySeq DEF Init, Empty
<1> QED BY <1>1, StoredInvInit DEF CensusInv

LEMMA ApplyFrameFollows ==
  ASSUME CensusInv, NEW c \in Connections, NEW frame \in Frames, ApplyFrame(c, frame)
  PROVE  CensusInv'
<1>0. StoredInv /\ StoredInv'
  BY ApplyFrameStores DEF CensusInv
<1>1. PICK reg, applied : Landing(frame, reg, applied)
  BY <1>0, ApplyFrameLands
<1>2. PICK at \in Times : at = frame.t /\ at \in Nat
  BY StoreSizes DEF Frames
<1>3. PICK index \in Nat : index = IndexOf(at, FineResolution)
  BY <1>2, IndexIsNat, SizesAreNat
<1>4. /\ reg \in Tables /\ Forest(reg.functions, reg.paths)
      /\ applied \in Seq(KnownEvents(reg))
      /\ totals \in Told(reg.paths)
      /\ totals' = Folded(reg.paths, totals, applied, at)
  BY <1>0, <1>1, <1>2, GrowingTells DEF Landing, Grown, StoredInv, TreeInv, TotalsInv
<1>5. CASE applied = << >>
  <2>1. totals' = totals /\ fine' = fine
    BY <1>1, <1>4, <1>5, FoldedOfNone DEF Landing
  <2> QED BY <1>0, <2>1 DEF CensusInv
<1>6. CASE applied # << >>
  <2>1. Lands(fine', fine, Told(reg.paths), index, reg.paths, applied, at)
    BY <1>1, <1>2, <1>3, <1>6 DEF Landing
  <2>2. /\ fine' # << >> /\ Newest(fine') \in Nat /\ index <= Newest(fine')
        /\ fine # << >> => Newest(fine) \in Nat /\ Newest(fine) <= Newest(fine')
    BY <1>0, <2>1, NewestIsNat DEF Lands, StoredInv, RingInv, IsRing
  <2> SUFFICES ASSUME NEW y \in Types
               PROVE  /\ totals'.census[y] # NoReading =>
                           IndexOf(totals'.census[y].at, FineResolution) <= Newest(fine')
                      /\ \A i \in DOMAIN fine' :
                           Follows(totals'.census[y], fine'[i].data.census[y], fine'[i].index)
    BY <1>0, <2>2 DEF CensusInv
  <2>3. PICK latest, next : latest = totals.census[y] /\ next = totals'.census[y]
    OBVIOUS
  <2>4. Raised(latest, next, at)
    BY <1>4, <2>3, FrameRecords
  <2>5. /\ latest \in Reading /\ next \in Reading
        /\ latest # NoReading =>
             fine # << >> /\ IndexOf(latest.at, FineResolution) <= Newest(fine)
    BY <1>0, <2>3 DEF CensusInv, StoredInv, TotalsInv, Told, DataType
  <2>6. /\ latest # NoReading => latest.at \in Nat /\ IndexOf(latest.at, FineResolution) \in Nat
        /\ next # NoReading => next.at \in Nat
    BY <2>5, StoreSizes, StoreSentinels, IndexIsNat, SizesAreNat DEF Reading
  <2>7. next # NoReading => IndexOf(next.at, FineResolution) <= Newest(fine')
    <3>1. CASE next = latest
      BY <2>2, <2>5, <2>6, <3>1
    <3>2. CASE next # latest
      BY <1>3, <2>2, <2>4, <3>2 DEF Raised
    <3> QED BY <3>1, <3>2
  <2>8. ASSUME NEW i \in DOMAIN fine'
        PROVE  Follows(next, fine'[i].data.census[y], fine'[i].index)
    <3>1. PICK w \in WindowOf(Told(reg.paths)) :
            /\ fine'[i] = Landed(w, index, reg.paths, applied, at)
            /\ \/ \E j \in DOMAIN fine : w = fine[j]
               \/ w.data = Empty /\ (fine # << >> => w.index > Newest(fine))
      BY <2>1 DEF Lands
    <3>2. w.data \in Told(reg.paths) /\ w.index \in Nat /\ w.data.census[y] \in Reading
      BY DEF WindowOf, Told, DataType
    <3>3. Follows(latest, w.data.census[y], w.index)
      <4>1. CASE \E j \in DOMAIN fine : w = fine[j]
        BY <2>3, <4>1 DEF CensusInv
      <4>2. CASE w.data = Empty /\ (fine # << >> => w.index > Newest(fine))
        <5>1. w.data.census[y] = NoReading
          BY <4>2 DEF Empty
        <5>2. latest # NoReading => IndexOf(latest.at, FineResolution) # w.index
          BY <2>2, <2>5, <2>6, <3>2, <4>2
        <5> QED BY <5>1, <5>2 DEF Follows
      <4> QED BY <3>1, <4>1, <4>2
    <3>4. CASE w.index = index
      <4>1. /\ fine'[i].index = index
            /\ fine'[i].data = Folded(reg.paths, w.data, applied, at)
        BY <3>1, <3>4 DEF Landed
      <4> QED BY <1>3, <1>4, <2>3, <3>2, <3>3, <3>4, <4>1, FrameRecords
    <3>5. CASE w.index # index
      <4>1. fine'[i].index = w.index /\ fine'[i].data = w.data
        BY <3>1, <3>5 DEF Landed
      <4>2. Follows(next, w.data.census[y], w.index)
        <5>1. CASE next = latest
          BY <3>3, <5>1
        <5>2. CASE next # latest
          <6>1. /\ next # NoReading /\ next.at = at
                /\ latest # NoReading => latest.at <= at
            BY <2>4, <5>2 DEF Raised
          <6>2. w.data.census[y] # NoReading => w.data.census[y].at \in Nat
            BY <3>2, StoreSizes, StoreSentinels DEF Reading
          <6> QED BY <1>2, <1>3, <2>6, <3>3, <3>5, <6>1, <6>2 DEF Follows
        <5> QED BY <5>1, <5>2
      <4> QED BY <4>1, <4>2
    <3> QED BY <3>4, <3>5
  <2> QED BY <2>3, <2>7, <2>8
<1> QED BY <1>5, <1>6

LEMMA CensusInvStep == CensusInv /\ [Next]_vars => CensusInv'
<1> SUFFICES ASSUME CensusInv, [Next]_vars PROVE CensusInv'
  OBVIOUS
<1>0. StoredInv'
  BY StoredInvStep DEF CensusInv
<1>1. ASSUME NEW c \in Connections, NEW frame \in Frames, ApplyFrame(c, frame)
      PROVE  CensusInv'
  BY <1>1, ApplyFrameFollows
<1>2. CASE UNCHANGED <<totals, fine>>
  BY <1>0, <1>2 DEF CensusInv
<1>3. ASSUME NEW c \in Connections, Admit(c) \/ Connect(c) \/ Disconnect(c)
      PROVE  UNCHANGED <<totals, fine>>
  BY <1>3 DEF Admit, Connect, Disconnect, rings
<1>4. CASE UNCHANGED vars
  BY <1>2, <1>4 DEF vars, rings
<1> QED BY <1>1, <1>2, <1>3, <1>4 DEF Next

\* In whatever order readings arrive, the process has the newest, and the window of
\* that one's time has the same.
THEOREM NewestReadingStays == Spec => []NewestReadingWins
<1>1. CensusInv => NewestReadingWins
  <2> SUFFICES ASSUME CensusInv, NEW y \in Types
               PROVE  /\ \A w \in Range(fine) : w.data.census[y] # NoReading =>
                           /\ totals.census[y] # NoReading
                           /\ w.data.census[y].at <= totals.census[y].at
                           /\ IndexOf(w.data.census[y].at, FineResolution) = w.index
                      /\ totals.census[y] # NoReading =>
                           LET index == IndexOf(totals.census[y].at, FineResolution) IN
                           Retains(fine, index)
                             => Data(fine, index).census[y] = totals.census[y]
    BY DEF NewestReadingWins
  <2>1. \A i \in DOMAIN fine : Follows(totals.census[y], fine[i].data.census[y], fine[i].index)
    BY DEF CensusInv
  <2>2. ASSUME NEW w \in Range(fine), w.data.census[y] # NoReading
        PROVE  /\ totals.census[y] # NoReading
               /\ w.data.census[y].at <= totals.census[y].at
               /\ IndexOf(w.data.census[y].at, FineResolution) = w.index
    BY <2>1, <2>2 DEF Range, Follows
  <2>3. ASSUME totals.census[y] # NoReading, NEW index,
               index = IndexOf(totals.census[y].at, FineResolution), Retains(fine, index)
        PROVE  Data(fine, index).census[y] = totals.census[y]
    <3>1. totals.census[y].at \in Nat
      BY <2>3, StoreSizes DEF CensusInv, StoredInv, TotalsInv, Told, DataType, Reading
    <3>2. index \in Nat
      BY <2>3, <3>1, IndexIsNat, SizesAreNat
    <3>3. Slot(fine, index) \in DOMAIN fine /\ fine[Slot(fine, index)].index = index
      BY <2>3, <3>2, SlotHolds DEF CensusInv, StoredInv, RingInv, IsRing
    <3> QED BY <2>1, <2>3, <3>3 DEF Follows, Data
  <2> QED BY <2>2, <2>3
<1> QED BY <1>1, CensusInvInit, CensusInvStep, PTL DEF Spec

-----------------------------------------------------------------------------
(* Who is connected.                                                       *)

Streaming == {c \in Connections : handler[c] = "streaming"}

ConnectedInv ==
  /\ handler \in [Connections -> {"none", "admitted", "streaming", "closed"}]
  /\ EndedExactlyWhenSilent

LEMMA ConnectedInvInit == Init => ConnectedInv
<1> SUFFICES ASSUME Init PROVE ConnectedInv
  OBVIOUS
<1>1. Streaming = {}
  BY DEF Init, Streaming
<1>2. live = Cardinality(Streaming)
  BY <1>1, FS_EmptySet DEF Init
<1> QED BY <1>2 DEF Init, ConnectedInv, EndedExactlyWhenSilent, Streaming

\* The three steps of a handler move its connection in or out of the set counted.
LEMMA ConnectedInvStep == ConnectedInv /\ [Next]_vars => ConnectedInv'
<1> SUFFICES ASSUME ConnectedInv, [Next]_vars PROVE ConnectedInv'
  OBVIOUS
<1>0. IsFiniteSet(Streaming) /\ live = Cardinality(Streaming) /\ live \in Nat
  <2>1. IsFiniteSet(Streaming)
    BY ConnectionsFinite, FS_Subset DEF Streaming
  <2>2. live = Cardinality(Streaming)
    BY DEF ConnectedInv, EndedExactlyWhenSilent, Streaming
  <2> QED BY <2>1, <2>2, FS_CardinalityType
<1>1. ASSUME NEW c \in Connections, Admit(c) PROVE ConnectedInv'
  <2>1. Streaming' = Streaming
    BY <1>1 DEF Admit, Streaming, ConnectedInv
  <2> QED BY <1>1, <2>1 DEF Admit, ConnectedInv, EndedExactlyWhenSilent, Streaming
<1>2. ASSUME NEW c \in Connections, Connect(c) PROVE ConnectedInv'
  <2>1. Streaming' = Streaming \cup {c} /\ c \notin Streaming
    BY <1>2 DEF Connect, Streaming, ConnectedInv
  <2>2. Cardinality(Streaming') = live + 1
    BY <1>0, <2>1, FS_AddElement
  <2>3. live' = Cardinality(Streaming') /\ live' # 0
    BY <1>0, <1>2, <2>2 DEF Connect
  <2> QED BY <1>2, <2>3 DEF Connect, ConnectedInv, EndedExactlyWhenSilent, Streaming
<1>3. ASSUME NEW c \in Connections, Disconnect(c) PROVE ConnectedInv'
  <2>1. Streaming' = Streaming \ {c} /\ c \in Streaming
    BY <1>3 DEF Disconnect, Streaming, ConnectedInv
  <2>2. Cardinality(Streaming') = live - 1 /\ live # 0
    <3>1. Cardinality(Streaming') = Cardinality(Streaming) - 1
      BY <1>0, <2>1, FS_RemoveElement
    <3>2. Cardinality(Streaming) # 0
      BY <1>0, <2>1, FS_EmptySet
    <3> QED BY <1>0, <3>1, <3>2
  <2>3. live' = Cardinality(Streaming')
    BY <1>3, <2>2 DEF Disconnect
  <2>4. handler' \in [Connections -> {"none", "admitted", "streaming", "closed"}]
    BY <1>3 DEF Disconnect, ConnectedInv
  <2>5. handler'[c] = "closed"
    BY <1>3 DEF Disconnect, ConnectedInv
  <2>6. CASE live' = 0
    <3>1. ended' = TRUE
      BY <1>3, <2>6 DEF Disconnect, EndWhenSilent
    <3> QED BY <2>3, <2>4, <2>5, <2>6, <3>1
         DEF ConnectedInv, EndedExactlyWhenSilent, Streaming
  <2>7. CASE live' # 0
    <3>1. ended' = ended /\ ~ended
      BY <1>3, <2>2, <2>7 DEF Disconnect, EndWhenSilent, ConnectedInv, EndedExactlyWhenSilent
    <3> QED BY <2>3, <2>4, <2>7, <3>1 DEF ConnectedInv, EndedExactlyWhenSilent, Streaming
  <2> QED BY <2>6, <2>7
<1>4. ASSUME NEW c \in Connections, NEW frame \in Frames, ApplyFrame(c, frame)
      PROVE  UNCHANGED <<handler, live, ended>>
  BY <1>4 DEF ApplyFrame
<1>5. CASE UNCHANGED <<handler, live, ended>>
  BY <1>5 DEF ConnectedInv, EndedExactlyWhenSilent
<1>6. CASE UNCHANGED vars
  BY <1>5, <1>6 DEF vars
<1> QED BY <1>1, <1>2, <1>3, <1>4, <1>5, <1>6 DEF Next

\* However its streams overlap, a process is ended exactly when the last closed.
THEOREM EndedWhenSilent == Spec => []EndedExactlyWhenSilent
<1>1. ConnectedInv => EndedExactlyWhenSilent
  BY DEF ConnectedInv
<1> QED BY <1>1, ConnectedInvInit, ConnectedInvStep, PTL DEF Spec

-----------------------------------------------------------------------------
(* What is broadcast, and when.  A stream in time order has its open       *)
(* window where its last frame was, has broadcast nothing beyond, and has  *)
(* broadcast every other window it filled.                                 *)

Upto(windows, m) == \A i \in DOMAIN windows : windows[i].index <= m

Sorted(windows) == \A i, j \in DOMAIN windows : i < j => windows[i].index <= windows[j].index

Pushes(windows, w) == \E i \in DOMAIN windows : windows[i] = w

BroadcastInv ==
  /\ StoredInv /\ ConnectedInv
  /\ open \in Nat \cup {None} /\ lastT \in Nat /\ inOrder \in BOOLEAN
  /\ pushed \in Seq(WindowType)
  /\ ended => open = None
  /\ inOrder => /\ Sorted(pushed)
                /\ Upto(pushed, IndexOf(lastT, FineResolution))
                /\ open # None => open = IndexOf(lastT, FineResolution)
                /\ \A i \in DOMAIN fine : HasContent(fine[i].data) =>
                     Pushes(pushed, fine[i]) \/ fine[i].index = open

LEMMA StoredWindows ==
  ASSUME StoredInv
  PROVE  fine \in Seq(WindowType) /\ coarse \in Seq(WindowType)
<1>1. WindowOf(Told(paths)) \subseteq WindowType
  BY DEF WindowOf, WindowType, Told
<1> QED BY <1>1, SeqMonotonic DEF StoredInv, RingInv

LEMMA IndexOfMonotonic ==
  ASSUME NEW r \in Nat \ {0}, NEW a \in Nat, NEW b \in Nat, a <= b
  PROVE  IndexOf(a, r) <= IndexOf(b, r)
<1>1. PICK q \in Nat : q = a \div r
  OBVIOUS
<1>2. PICK p \in Nat : p = b \div r
  OBVIOUS
<1>3. r * q <= a /\ b < r * (p + 1)
  BY <1>1, <1>2
<1>4. SUFFICES ASSUME p < q PROVE FALSE
  BY <1>1, <1>2 DEF IndexOf
<1>5. r * (p + 1) <= r * q
  BY <1>4
<1> QED BY <1>3, <1>5

\* One more window, not before any that went out, keeps the order.
LEMMA AppendIsSorted ==
  ASSUME NEW D, NEW windows \in Seq(WindowOf(D)), NEW w \in WindowOf(D)
  PROVE  /\ Append(windows, w) \in Seq(WindowOf(D))
         /\ Pushes(Append(windows, w), w)
         /\ \A x : Pushes(windows, x) => Pushes(Append(windows, w), x)
         /\ Sorted(windows) /\ Upto(windows, w.index)
              => Sorted(Append(windows, w)) /\ Upto(Append(windows, w), w.index)
<1>1. PICK l \in Nat : l = Len(windows) /\ DOMAIN windows = 1..l
  BY LenProperties
<1>2. PICK s : s = Append(windows, w)
  OBVIOUS
<1>3. /\ s \in Seq(WindowOf(D)) /\ DOMAIN s = 1..(l + 1)
      /\ \A i \in 1..l : s[i] = windows[i]
      /\ s[l + 1] = w
  BY <1>1, <1>2, AppendProperties, LenProperties
<1>4. w.index \in Nat
  BY DEF WindowOf
<1>5. Pushes(s, w) /\ \A x : Pushes(windows, x) => Pushes(s, x)
  <2>1. l + 1 \in DOMAIN s /\ \A i \in 1..l : i \in DOMAIN s
    BY <1>3
  <2> QED BY <1>1, <1>3, <2>1 DEF Pushes
<1>6. ASSUME Sorted(windows), Upto(windows, w.index)
      PROVE  Sorted(s) /\ Upto(s, w.index)
  <2>1. \A i \in 1..(l + 1) : s[i].index <= w.index
    <3> SUFFICES ASSUME NEW i \in 1..(l + 1) PROVE s[i].index <= w.index
      OBVIOUS
    <3>1. CASE i = l + 1
      BY <1>3, <1>4, <3>1
    <3>2. CASE i # l + 1
      <4>1. i \in 1..l
        BY <3>2
      <4> QED BY <1>1, <1>3, <1>6, <4>1 DEF Upto
    <3> QED BY <3>1, <3>2
  <2>2. \A i, j \in 1..(l + 1) : i < j => s[i].index <= s[j].index
    <3> SUFFICES ASSUME NEW i \in 1..(l + 1), NEW j \in 1..(l + 1), i < j
                 PROVE  s[i].index <= s[j].index
      OBVIOUS
    <3>1. CASE j = l + 1
      BY <1>3, <2>1, <3>1
    <3>2. CASE j # l + 1
      <4>1. i \in 1..l /\ j \in 1..l
        BY <3>2
      <4>2. windows[i].index <= windows[j].index
        BY <1>1, <1>6, <4>1 DEF Sorted
      <4> QED BY <1>3, <4>1, <4>2
    <3> QED BY <3>1, <3>2
  <2> QED BY <1>3, <2>1, <2>2 DEF Sorted, Upto
<1> QED BY <1>2, <1>3, <1>5, <1>6

LEMMA UptoMore ==
  ASSUME NEW windows \in Seq(WindowType), NEW m \in Nat, NEW n \in Nat, m <= n,
         Upto(windows, m)
  PROVE  Upto(windows, n)
<1> SUFFICES ASSUME NEW i \in DOMAIN windows PROVE windows[i].index <= n
  BY DEF Upto
<1>1. windows[i].index \in Nat
  <2>1. windows[i] \in WindowType
    BY LenProperties, ElementOfSeq
  <2> QED BY <2>1 DEF WindowType
<1>2. windows[i].index <= m
  BY DEF Upto
<1> QED BY <1>1, <1>2

LEMMA BroadcastInvInit == Init => BroadcastInv
<1> SUFFICES ASSUME Init PROVE BroadcastInv
  OBVIOUS
<1>1. << >> \in Seq(WindowType) /\ DOMAIN << >> = {}
  BY EmptySeq
<1>2. Sorted(pushed) /\ Upto(pushed, IndexOf(lastT, FineResolution))
  BY <1>1 DEF Init, Sorted, Upto
<1> QED BY <1>1, <1>2, StoredInvInit, ConnectedInvInit DEF Init, BroadcastInv

\* Sealing the open window, whoever asks for it.
LEMMA SealIsInOrder ==
  ASSUME BroadcastInv, open # None, Retains(fine, open)
  PROVE  LET sealed == Append(pushed, fine[Slot(fine, open)]) IN
         /\ sealed \in Seq(WindowType)
         /\ Pushes(sealed, fine[Slot(fine, open)])
         /\ \A x : Pushes(pushed, x) => Pushes(sealed, x)
         /\ inOrder => Sorted(sealed) /\ Upto(sealed, IndexOf(lastT, FineResolution))
<1>0. WindowType = WindowOf(DataType)
  BY DEF WindowType, WindowOf
<1>1. open \in Nat /\ pushed \in Seq(WindowOf(DataType)) /\ fine \in Seq(WindowOf(DataType))
      /\ Contiguous(fine)
  BY <1>0, StoredWindows DEF BroadcastInv, StoredInv, RingInv, IsRing
<1>2. PICK w : w = fine[Slot(fine, open)]
  OBVIOUS
<1>3. w \in WindowOf(DataType) /\ w.index = open
  BY <1>1, <1>2, SlotHolds
<1>4. PICK sealed : sealed = Append(pushed, w)
  OBVIOUS
<1>5. /\ sealed \in Seq(WindowOf(DataType)) /\ Pushes(sealed, w)
      /\ \A x : Pushes(pushed, x) => Pushes(sealed, x)
      /\ Sorted(pushed) /\ Upto(pushed, w.index) => Sorted(sealed) /\ Upto(sealed, w.index)
  BY <1>1, <1>3, <1>4, AppendIsSorted
<1>6. inOrder => Sorted(pushed) /\ Upto(pushed, w.index)
                 /\ w.index = IndexOf(lastT, FineResolution)
  BY <1>3 DEF BroadcastInv
<1> QED BY <1>0, <1>2, <1>4, <1>5, <1>6

\* A window with content that a frame did not land in was there before.
LEMMA UntouchedWindows ==
  ASSUME StoredInv, NEW c \in Connections, NEW frame \in Frames, ApplyFrame(c, frame),
         NEW i \in DOMAIN fine', HasContent(fine'[i].data),
         fine'[i].index # IndexOf(frame.t, FineResolution)
  PROVE  \E j \in DOMAIN fine : fine'[i] = fine[j]
<1>1. PICK reg, applied :
        /\ applied # << >> => Lands(fine', fine, Told(reg.paths),
                                    IndexOf(frame.t, FineResolution), reg.paths, applied,
                                    frame.t)
        /\ applied = << >> => fine' = fine
  BY ApplyFrameLands DEF Landing
<1>2. CASE applied = << >>
  BY <1>1, <1>2
<1>3. CASE applied # << >>
  <2>1. PICK w \in WindowOf(Told(reg.paths)) :
          /\ fine'[i] = Landed(w, IndexOf(frame.t, FineResolution), reg.paths, applied, frame.t)
          /\ \/ \E j \in DOMAIN fine : w = fine[j]
             \/ w.data = Empty /\ (fine # << >> => w.index > Newest(fine))
    BY <1>1, <1>3 DEF Lands
  <2>2. fine'[i] = w
    BY <2>1 DEF Landed, WindowOf
  <2> QED BY <2>1, <2>2 DEF HasContent
<1> QED BY <1>2, <1>3

LEMMA ApplyFrameBroadcasts ==
  ASSUME BroadcastInv, NEW c \in Connections, NEW frame \in Frames, ApplyFrame(c, frame),
         StoredInv', ConnectedInv'
  PROVE  BroadcastInv'
<1>1. frame.t \in Nat
  BY StoreSizes DEF Frames
<1>2. PICK index \in Nat : index = IndexOf(frame.t, FineResolution)
  BY <1>1, IndexIsNat, SizesAreNat
<1>3. /\ lastT' = IF frame.t > lastT THEN frame.t ELSE lastT
      /\ PushClosed(index)
      /\ open' = IF open = None \/ Closes(index) THEN index ELSE open
      /\ inOrder' = (inOrder /\ frame.t >= lastT)
      /\ handler[c] = "streaming" /\ ended' = ended
  BY <1>2 DEF ApplyFrame
<1>4. /\ open' \in Nat \cup {None} /\ lastT' \in Nat /\ lastT \in Nat
      /\ inOrder' \in BOOLEAN
  BY <1>1, <1>3 DEF BroadcastInv
<1>5. PICK last \in Nat : last = IndexOf(lastT, FineResolution)
  BY <1>4, IndexIsNat, SizesAreNat
<1>6. ~ended'
  <2>1. IsFiniteSet(Streaming) /\ c \in Streaming
    BY <1>3, ConnectionsFinite, FS_Subset DEF Streaming
  <2>2. Cardinality(Streaming) # 0
    BY <2>1, FS_EmptySet
  <2> QED BY <1>3, <2>2 DEF BroadcastInv, ConnectedInv, EndedExactlyWhenSilent, Streaming
<1>7. /\ pushed' \in Seq(WindowType)
      /\ \A x : Pushes(pushed, x) => Pushes(pushed', x)
      /\ inOrder => Sorted(pushed') /\ Upto(pushed', last)
      /\ Closes(index) /\ Retains(fine, open) => Pushes(pushed', fine[Slot(fine, open)])
  <2>1. CASE Closes(index) /\ Retains(fine, open)
    <3>1. pushed' = Append(pushed, fine[Slot(fine, open)]) /\ open # None
      BY <1>3, <2>1 DEF PushClosed, Closes
    <3> QED BY <1>5, <2>1, <3>1, SealIsInOrder
  <2>2. CASE ~(Closes(index) /\ Retains(fine, open))
    <3>1. pushed' = pushed
      BY <1>3, <2>2 DEF PushClosed
    <3> QED BY <1>5, <2>2, <3>1 DEF BroadcastInv
  <2> QED BY <2>1, <2>2
<1>8. ASSUME inOrder'
      PROVE  /\ Sorted(pushed')
             /\ Upto(pushed', IndexOf(lastT', FineResolution))
             /\ open' # None => open' = IndexOf(lastT', FineResolution)
             /\ \A i \in DOMAIN fine' : HasContent(fine'[i].data) =>
                  Pushes(pushed', fine'[i]) \/ fine'[i].index = open'
  <2>1. inOrder /\ frame.t >= lastT
    BY <1>3, <1>8
  <2>2. IndexOf(lastT', FineResolution) = index
    BY <1>1, <1>2, <1>3, <1>4, <2>1
  <2>3. last <= index
    BY <1>1, <1>2, <1>4, <1>5, <2>1, SizesAreNat, IndexOfMonotonic
  <2>4. Upto(pushed', index)
    BY <1>5, <1>7, <2>1, <2>3, <1>2, UptoMore
  <2>5. /\ open # None => open = last
        /\ open' = index
    <3>1. open # None => open = last
      BY <1>5, <2>1 DEF BroadcastInv
    <3> QED BY <1>3, <2>3, <3>1 DEF Closes
  <2>6. ASSUME NEW i \in DOMAIN fine', HasContent(fine'[i].data), fine'[i].index # index
        PROVE  Pushes(pushed', fine'[i])
    <3>1. PICK j \in DOMAIN fine : fine'[i] = fine[j]
      BY <1>2, <2>6, UntouchedWindows DEF BroadcastInv
    <3>2. CASE Pushes(pushed, fine[j])
      BY <1>7, <3>1, <3>2
    <3>3. CASE fine[j].index = open
      <4>1. /\ fine[j].index \in Nat
            /\ Retains(fine, fine[j].index) /\ Slot(fine, fine[j].index) = j
        BY WindowsAreRetained DEF BroadcastInv, StoredInv, RingInv, IsRing
      <4>2. open # None /\ Closes(index)
        BY <2>3, <2>5, <2>6, <3>1, <3>3, <4>1, StoreSentinels DEF Closes
      <4> QED BY <1>7, <3>1, <3>3, <4>1, <4>2
    <3> QED BY <2>1, <2>6, <3>1, <3>2, <3>3 DEF BroadcastInv
  <2> QED BY <1>7, <2>1, <2>2, <2>4, <2>5, <2>6
<1> QED BY <1>4, <1>6, <1>7, <1>8 DEF BroadcastInv

LEMMA DisconnectBroadcasts ==
  ASSUME BroadcastInv, NEW c \in Connections, Disconnect(c), StoredInv', ConnectedInv'
  PROVE  BroadcastInv'
<1>1. lastT' = lastT /\ inOrder' = inOrder /\ fine' = fine
  BY DEF Disconnect
<1>2. CASE UNCHANGED <<ended, pushed, open>>
  BY <1>1, <1>2 DEF BroadcastInv
<1>3. CASE FlushOpenWindow
  <2>1. open' = None
    BY <1>3 DEF FlushOpenWindow
  <2>2. /\ pushed' \in Seq(WindowType)
        /\ \A x : Pushes(pushed, x) => Pushes(pushed', x)
        /\ inOrder => Sorted(pushed') /\ Upto(pushed', IndexOf(lastT, FineResolution))
    <3>1. CASE UNCHANGED pushed
      BY <3>1 DEF BroadcastInv
    <3>2. CASE ~UNCHANGED pushed
      <4>1. /\ pushed' = Append(pushed, fine[Slot(fine, open)])
            /\ open # None /\ Retains(fine, open)
        BY <1>3, <3>2 DEF FlushOpenWindow
      <4> QED BY <4>1, SealIsInOrder
    <3> QED BY <3>1, <3>2
  <2>3. ASSUME inOrder, NEW i \in DOMAIN fine, HasContent(fine[i].data)
        PROVE  Pushes(pushed', fine[i])
    <3>1. CASE Pushes(pushed, fine[i])
      BY <2>2, <3>1
    <3>2. CASE fine[i].index = open
      <4>1. /\ fine[i].index \in Nat
            /\ Retains(fine, fine[i].index) /\ Slot(fine, fine[i].index) = i
        BY WindowsAreRetained DEF BroadcastInv, StoredInv, RingInv, IsRing
      <4>2. open # None /\ Retains(fine, open) /\ Slot(fine, open) = i
        BY <3>2, <4>1, StoreSentinels
      <4>3. pushed' = Append(pushed, fine[Slot(fine, open)])
        BY <1>3, <2>3, <4>2 DEF FlushOpenWindow, Data
      <4> QED BY <4>2, <4>3, SealIsInOrder
    <3> QED BY <2>3, <3>1, <3>2 DEF BroadcastInv
  <2> QED BY <1>1, <2>1, <2>2, <2>3 DEF BroadcastInv
<1> QED BY <1>2, <1>3 DEF Disconnect, EndWhenSilent

LEMMA BroadcastInvStep == BroadcastInv /\ [Next]_vars => BroadcastInv'
<1> SUFFICES ASSUME BroadcastInv, [Next]_vars PROVE BroadcastInv'
  OBVIOUS
<1>1. StoredInv' /\ ConnectedInv'
  BY StoredInvStep, ConnectedInvStep DEF BroadcastInv
<1>2. ASSUME NEW c \in Connections, NEW frame \in Frames, ApplyFrame(c, frame)
      PROVE  BroadcastInv'
  BY <1>1, <1>2, ApplyFrameBroadcasts
<1>3. ASSUME NEW c \in Connections, Disconnect(c)
      PROVE  BroadcastInv'
  BY <1>1, <1>3, DisconnectBroadcasts
<1>4. CASE UNCHANGED <<open, lastT, inOrder, pushed, fine>> /\ (ended' => ended)
  BY <1>1, <1>4 DEF BroadcastInv
<1>5. ASSUME NEW c \in Connections, Admit(c) \/ Connect(c)
      PROVE  UNCHANGED <<open, lastT, inOrder, pushed, fine>> /\ (ended' => ended)
  BY <1>5 DEF Admit, Connect, rings
<1>6. CASE UNCHANGED vars
  BY <1>4, <1>6 DEF vars, rings
<1> QED BY <1>2, <1>3, <1>4, <1>5, <1>6 DEF Next

\* Frames in time order are broadcast in time order, whatever the sizes of the
\* rings and however often the process disconnects in between.
THEOREM WindowsPushedInOrder == Spec => []PushedInOrder
<1>1. BroadcastInv => PushedInOrder
  BY DEF BroadcastInv, PushedInOrder, Sorted
<1> QED BY <1>1, BroadcastInvInit, BroadcastInvStep, PTL DEF Spec

\* When the last connection of such a stream has closed, every window the fine ring
\* still holds has gone out with the content it has.
THEOREM NothingLeftUnpushed == Spec => []EndedMeansPushed
<1>1. BroadcastInv => EndedMeansPushed
  <2> SUFFICES ASSUME BroadcastInv, inOrder, ended, NEW w \in Range(fine), HasContent(w.data)
               PROVE  w \in Range(pushed)
    BY DEF EndedMeansPushed
  <2>1. PICK i \in DOMAIN fine : w = fine[i]
    BY DEF Range
  <2>2. fine[i].index \in Nat /\ open = None
    BY WindowsAreRetained DEF BroadcastInv, StoredInv, RingInv, IsRing
  <2>3. Pushes(pushed, w)
    BY <2>1, <2>2, StoreSentinels DEF BroadcastInv
  <2> QED BY <2>3 DEF Pushes, Range
<1> QED BY <1>1, BroadcastInvInit, BroadcastInvStep, PTL DEF Spec

-----------------------------------------------------------------------------
(* The types, those of the counts included.                                *)

CountsInv ==
  /\ seq \in Seqs \cup {None}
  /\ counts \in [frames: Nat, unknown_id: Nat, missed_frames: Nat, late_frames: Nat]
  /\ ended \in BOOLEAN

TypesInv == BroadcastInv /\ CountsInv

LEMMA TypesInvInit == Init => TypesInv
<1> SUFFICES ASSUME Init PROVE CountsInv
  BY BroadcastInvInit DEF TypesInv
<1> QED BY DEF Init, CountsInv

\* The sequence numbers only grow in the subtraction, and no event is made up.
LEMMA ApplyFrameCounts ==
  ASSUME TypesInv, NEW c \in Connections, NEW frame \in Frames, ApplyFrame(c, frame)
  PROVE  CountsInv'
<1>1. PICK reg, applied : /\ reg = Registered(frame.registers)
                          /\ applied = Survivors(reg, frame.events)
  OBVIOUS
<1>2. /\ reg \in Grown(functions, paths) /\ applied \in Seq(KnownEvents(reg))
      /\ Len(applied) <= Len(frame.events) /\ frame.events \in Seq(EventType)
  BY <1>1, FrameIsKnown DEF TypesInv, BroadcastInv, StoredInv
<1>3. Len(applied) \in Nat /\ Len(frame.events) \in Nat
  BY <1>2, LenProperties
<1>4. PICK missed \in Nat : missed = Missed(frame)
  <2>1. frame.seq \in Nat /\ (seq # None => seq \in Nat)
    BY StoreSizes DEF Frames, TypesInv, CountsInv
  <2>2. Missed(frame) \in Nat
    BY <2>1 DEF Missed
  <2> QED BY <2>2
<1>5. PICK late \in {0, 1} :
        counts' = [frames |-> counts.frames + 1,
                   unknown_id |-> counts.unknown_id + reg.unknown + Len(frame.events)
                                    - Len(applied),
                   missed_frames |-> counts.missed_frames + missed,
                   late_frames |-> counts.late_frames + late]
  BY <1>1, <1>4 DEF ApplyFrame
<1>6. reg.unknown \in Nat /\ counts.unknown_id \in Nat
  BY <1>2 DEF Grown, Tables, TypesInv, CountsInv
<1>7. counts.unknown_id + reg.unknown + Len(frame.events) - Len(applied) \in Nat
  BY <1>2, <1>3, <1>6
<1>8. seq' = frame.seq /\ ended' = ended
  BY DEF ApplyFrame
<1>9. counts' \in [frames: Nat, unknown_id: Nat, missed_frames: Nat, late_frames: Nat]
  <2>1. counts \in [frames: Nat, unknown_id: Nat, missed_frames: Nat, late_frames: Nat]
    BY DEF TypesInv, CountsInv
  <2>2. PICK unknown \in Nat :
          unknown = counts.unknown_id + reg.unknown + Len(frame.events) - Len(applied)
    BY <1>7
  <2>3. /\ counts.frames + 1 \in Nat /\ counts.missed_frames + missed \in Nat
        /\ counts.late_frames + late \in Nat
    BY <2>1
  <2> QED BY <1>5, <2>2, <2>3
<1> QED BY <1>8, <1>9 DEF TypesInv, CountsInv, Frames

LEMMA TypesInvStep == TypesInv /\ [Next]_vars => TypesInv'
<1> SUFFICES ASSUME TypesInv, [Next]_vars PROVE CountsInv'
  BY BroadcastInvStep DEF TypesInv
<1>1. ASSUME NEW c \in Connections, NEW frame \in Frames, ApplyFrame(c, frame)
      PROVE  CountsInv'
  BY <1>1, ApplyFrameCounts
<1>2. CASE UNCHANGED <<seq, counts>> /\ ended' \in BOOLEAN
  BY <1>2 DEF TypesInv, CountsInv
<1>3. ASSUME NEW c \in Connections, Admit(c) \/ Connect(c)
      PROVE  UNCHANGED <<seq, counts>> /\ ended' \in BOOLEAN
  BY <1>3 DEF Admit, Connect, TypesInv, CountsInv
<1>4. ASSUME NEW c \in Connections, Disconnect(c)
      PROVE  UNCHANGED <<seq, counts>> /\ ended' \in BOOLEAN
  BY <1>4 DEF Disconnect, EndWhenSilent, TypesInv, CountsInv
<1>5. CASE UNCHANGED vars
  BY <1>5 DEF vars, TypesInv, CountsInv
<1> QED BY <1>1, <1>2, <1>3, <1>4, <1>5 DEF Next

\* Every quantity kept of a process stays within its ceiling, and no count goes below
\* nothing.
THEOREM StoreTypesHold == Spec => []TypeOK
<1>1. TypesInv => TypeOK
  <2> SUFFICES ASSUME TypesInv PROVE TypeOK
    OBVIOUS
  <2>1. BroadcastInv /\ StoredInv /\ ConnectedInv /\ CountsInv
    BY DEF TypesInv, BroadcastInv
  <2>2. live \in Nat
    <3>1. IsFiniteSet(Streaming)
      BY ConnectionsFinite, FS_Subset DEF Streaming
    <3> QED BY <2>1, <3>1, FS_CardinalityType DEF ConnectedInv, EndedExactlyWhenSilent, Streaming
  <2>3. fine \in Seq(WindowType) /\ coarse \in Seq(WindowType)
    BY <2>1, StoredWindows
  <2>4. /\ totals \in DataType /\ selfTotals \in [Functions -> Amount]
        /\ functions \subseteq Functions /\ types \subseteq Types
        /\ paths \in [PathIds -> NodeType \cup {NoNode}]
    BY <2>1 DEF StoredInv, TreeInv, TotalsInv, Told, SelfTold
  <2> QED BY <2>1, <2>2, <2>3, <2>4 DEF TypeOK, BroadcastInv, ConnectedInv, CountsInv
<1> QED BY <1>1, TypesInvInit, TypesInvStep, PTL DEF Spec

-----------------------------------------------------------------------------
(* The calls: what one frame adds to the totals it adds to one window of   *)
(* each ring, so the two resolutions and the totals tell the same story.   *)

\* Amounts held after one another are held as their sum, and nothing changes nothing.
LEMMA AccumulatesOn ==
  ASSUME NEW x \in Amount, NEW m \in Nat, NEW n \in Nat
  PROVE  Accumulate(Accumulate(x, m), n) = Accumulate(x, m + n)
BY StoreSizes DEF Accumulate, Amount

LEMMA AccumulatesNothing == \A x \in Amount : Accumulate(x, 0) = x
BY StoreSizes DEF Accumulate, Amount

\* One event adds the same calls to any data.
CallsOf(e, a) == IF e.kind = "calls" /\ e.func = a THEN e.amount ELSE 0

LEMMA AddCalls ==
  ASSUME NEW data \in DataType, NEW e \in EventType, NEW tree, NEW at, NEW a \in Functions
  PROVE  /\ Add(tree, data, e, at).calls[a] = Accumulate(data.calls[a], CallsOf(e, a))
         /\ CallsOf(e, a) \in Nat
<1>1. data.calls \in [Functions -> Amount] /\ data.calls[a] \in Amount
  BY DEF DataType
<1>2. CASE e.kind = "calls"
  <2>1. e.func \in Functions /\ e.amount \in Nat
    BY <1>2 DEF EventType
  <2>2. Add(tree, data, e, at).calls = [data.calls EXCEPT ![e.func] = Accumulate(@, e.amount)]
    BY <1>2 DEF Add, DataType
  <2> QED BY <1>1, <1>2, <2>1, <2>2, AccumulatesNothing DEF CallsOf
<1>3. CASE e.kind = "census"
  <2>1. Add(tree, data, e, at).calls = data.calls
    BY <1>3 DEF Add, DataType
  <2> QED BY <1>1, <1>3, <2>1, AccumulatesNothing DEF CallsOf
<1>4. CASE e.kind = "stack"
  <2>1. Add(tree, data, e, at) = AddStack(tree, data, e)
    BY <1>4 DEF Add
  <2>2. AddStack(tree, data, e).calls = data.calls
    BY DEF AddStack, DataType
  <2> QED BY <1>1, <1>4, <2>1, <2>2, AccumulatesNothing DEF CallsOf
<1> QED BY <1>2, <1>3, <1>4 DEF EventType

\* Adding events of E stays within X.
AddsWithin(X, E, tree, at) == \A data \in X : \A e \in E : Add(tree, data, e, at) \in X

\* A list of them adds the same calls to whatever data of X it is folded into.
AddsTheSame(X, l, tree, at, a) ==
  \E n \in Nat : \A b \in X : Folded(tree, b, l, at).calls[a] = Accumulate(b.calls[a], n)

LEMMA FoldedAdds ==
  ASSUME NEW E \in SUBSET EventType, NEW l \in Seq(E), NEW X \in SUBSET DataType,
         NEW tree, NEW at, AddsWithin(X, E, tree, at), NEW a \in Functions
  PROVE  AddsTheSame(X, l, tree, at, a)
<1> DEFINE D == DOMAIN l
           iters == [b \in X |-> CHOOSE iter : FoldsTo(iter, l, b, tree, at)]
           Holds == {s \in SUBSET D : \E n \in Nat : \A b \in X :
                       /\ iters[b][s] \in X
                       /\ iters[b][s].calls[a] = Accumulate(b.calls[a], n)}
<1>1. \A b \in X : FoldsTo(iters[b], l, b, tree, at)
  <2> SUFFICES ASSUME NEW b \in X PROVE \E iter : FoldsTo(iter, l, b, tree, at)
    OBVIOUS
  <2> QED BY FoldedUnfolds DEF AddsWithin
<1> HIDE DEF iters
<1>2. \A b \in X : b.calls[a] \in Amount
  BY DEF DataType
<1>3. {} \in Holds
  <2>1. \A b \in X : iters[b][{}] = b
    BY <1>1 DEF FoldsTo
  <2>2. \A b \in X : iters[b][{}] \in X /\ iters[b][{}].calls[a] = Accumulate(b.calls[a], 0)
    BY <1>2, <2>1, AccumulatesNothing
  <2> QED BY <2>2
<1>4. ASSUME NEW s \in SUBSET D, s # {}, s \ {Max(s)} \in Holds PROVE s \in Holds
  <2>1. PICK e \in E : e = l[Max(s)]
    BY <1>4, ListIsFinite
  <2>2. PICK r : r = s \ {Max(s)}
    OBVIOUS
  <2>3. PICK n \in Nat : \A b \in X : /\ iters[b][r] \in X
                                      /\ iters[b][r].calls[a] = Accumulate(b.calls[a], n)
    BY <1>4, <2>2
  <2>4. PICK m \in Nat : m = CallsOf(e, a)
    <3>1. e \in EventType
      OBVIOUS
    <3> QED BY <3>1 DEF CallsOf, EventType
  <2>5. ASSUME NEW b \in X
        PROVE  /\ iters[b][s] \in X
               /\ iters[b][s].calls[a] = Accumulate(b.calls[a], n + m)
    <3>1. iters[b][s] = Add(tree, iters[b][r], e, at)
      BY <1>1, <1>4, <2>1, <2>2 DEF FoldsTo
    <3>2. PICK held \in X : held = iters[b][r]
      BY <2>3
    <3>3. Add(tree, held, e, at).calls[a] = Accumulate(held.calls[a], m)
      BY <2>4, AddCalls
    <3>4. held.calls[a] = Accumulate(b.calls[a], n) /\ b.calls[a] \in Amount
      BY <1>2, <2>3, <3>2
    <3>5. Accumulate(Accumulate(b.calls[a], n), m) = Accumulate(b.calls[a], n + m)
      BY <3>4, AccumulatesOn
    <3>6. Add(tree, held, e, at) \in X
      BY DEF AddsWithin
    <3> QED BY <3>1, <3>2, <3>3, <3>4, <3>5, <3>6
  <2>6. n + m \in Nat
    OBVIOUS
  <2> QED BY <2>5, <2>6
<1>5. D \in Holds
  <2>1. \A s \in SUBSET D : s # {} /\ s \ {Max(s)} \in Holds => s \in Holds
    BY <1>4
  <2> HIDE DEF Holds
  <2> QED BY <1>3, <2>1, ListInduction
<1>6. PICK n \in Nat : \A b \in X : iters[b][D].calls[a] = Accumulate(b.calls[a], n)
  BY <1>5
<1>7. \A b \in X : Folded(tree, b, l, at) = iters[b][D]
  BY <1>1 DEF FoldsTo
<1> QED BY <1>6, <1>7 DEF AddsTheSame

-----------------------------------------------------------------------------
\* The calls a ring has for an index, nothing where it has no window.
CallsAt(ring, a, k) == IF Retains(ring, k) THEN Data(ring, k).calls[a] ELSE 0

\* And for a set of indices.
CallsOver(ring, a, K) == SumOn([k \in K |-> CallsAt(ring, a, k)], K)

LEMMA CallsAtIsAmount ==
  ASSUME NEW D \in SUBSET DataType, NEW ring \in Seq(WindowOf(D)), Contiguous(ring),
         NEW a \in Functions, NEW k \in Nat
  PROVE  CallsAt(ring, a, k) \in Amount
<1>1. CASE Retains(ring, k)
  <2>1. ring[Slot(ring, k)] \in WindowOf(D)
    BY <1>1, SlotHolds
  <2> QED BY <1>1, <2>1 DEF CallsAt, Data, WindowOf, DataType
<1>2. CASE ~Retains(ring, k)
  BY <1>2, StoreSizes DEF CallsAt, Amount
<1> QED BY <1>1, <1>2

\* What a frame's calls come to in the windows of a ring: the amount n in the one of
\* index, nothing in the others, and the oldest may be gone.
LandsOnce(after, ring, a, index, n) ==
  /\ \A k \in Nat : CallsAt(ring, a, k) \in Amount
  /\ after # << >>
  /\ Oldest(after) \in Nat /\ Newest(after) \in Nat /\ index <= Newest(after)
  /\ ring # << >> => Oldest(ring) <= Oldest(after) /\ Newest(ring) <= Newest(after)
  /\ \A k \in Nat :
       CallsAt(after, a, k)
         = IF k < Oldest(after) THEN 0
           ELSE IF k = index THEN Accumulate(CallsAt(ring, a, k), n)
           ELSE CallsAt(ring, a, k)

\* That is what landing a frame's events in a ring does, for one function.
LEMMA CallsLandOnce ==
  ASSUME NEW D \in SUBSET DataType, NEW ring \in Seq(WindowOf(D)), Contiguous(ring),
         NEW after \in Seq(WindowOf(D)), Contiguous(after), NEW index \in Nat,
         NEW tree, NEW applied, NEW at, Lands(after, ring, D, index, tree, applied, at),
         NEW a \in Functions, NEW n \in Nat,
         \A b \in D : Folded(tree, b, applied, at).calls[a] = Accumulate(b.calls[a], n),
         Empty \in D
  PROVE  LandsOnce(after, ring, a, index, n)
<1>1. PICK l \in Nat \ {0} : l = Len(after) /\ DOMAIN after = 1..l
  BY LenProperties, EmptySeq DEF Lands
<1>2. /\ Oldest(after) \in Nat /\ Newest(after) \in Nat
      /\ Oldest(after) = after[1].index /\ Newest(after) = after[l].index
  BY <1>1, RingIndexes DEF Oldest, Newest
<1>3. ASSUME NEW i \in DOMAIN after
      PROVE  \E w \in WindowOf(D) :
               /\ after[i] = Landed(w, index, tree, applied, at)
               /\ after[i].index = w.index
               /\ after[i].data.calls[a]
                    = IF w.index = index THEN Accumulate(w.data.calls[a], n)
                      ELSE w.data.calls[a]
               /\ \/ \E j \in DOMAIN ring : w = ring[j]
                  \/ w.data = Empty /\ (ring # << >> => w.index > Newest(ring))
  <2>1. PICK w \in WindowOf(D) :
               /\ after[i] = Landed(w, index, tree, applied, at)
               /\ \/ \E j \in DOMAIN ring : w = ring[j]
                  \/ w.data = Empty /\ (ring # << >> => w.index > Newest(ring))
    BY DEF Lands
  <2>2. w.data \in D
    BY DEF WindowOf
  <2>3. /\ after[i].index = w.index
        /\ after[i].data = IF w.index = index THEN Folded(tree, w.data, applied, at)
                           ELSE w.data
    BY <2>1 DEF Landed
  <2>4. Folded(tree, w.data, applied, at).calls[a] = Accumulate(w.data.calls[a], n)
    BY <2>2
  <2> QED BY <2>1, <2>3, <2>4
<1>4. ASSUME NEW j \in DOMAIN ring
      PROVE  /\ Retains(ring, ring[j].index) /\ ring # << >>
             /\ CallsAt(ring, a, ring[j].index) = ring[j].data.calls[a]
  <2>1. Retains(ring, ring[j].index) /\ Slot(ring, ring[j].index) = j
    BY WindowsAreRetained
  <2> QED BY <2>1 DEF CallsAt, Data, Retains
<1>5. /\ ring # << >> => /\ Oldest(ring) \in Nat /\ Newest(ring) \in Nat
                         /\ Oldest(ring) <= Newest(ring)
      /\ index <= Newest(after)
      /\ ring # << >> => Newest(ring) <= Newest(after)
  <2>1. ASSUME ring # << >>
        PROVE  Oldest(ring) \in Nat /\ Newest(ring) \in Nat /\ Oldest(ring) <= Newest(ring)
    <3>1. Len(ring) \in 1..Len(ring) /\ DOMAIN ring = 1..Len(ring) /\ 1 \in DOMAIN ring
      BY <2>1, EmptySeq, LenProperties
    <3>2. Retains(ring, ring[1].index)
      BY <3>1, <1>4
    <3> QED BY <3>1, <3>2, RingIndexes DEF Retains, Oldest, Newest
  <2> QED BY <2>1 DEF Lands
<1>6. ring # << >> => Oldest(ring) <= Oldest(after)
  <2> SUFFICES ASSUME ring # << >> PROVE Oldest(ring) <= Oldest(after)
    OBVIOUS
  <2>1. PICK w \in WindowOf(D) :
          /\ after[1].index = w.index
          /\ \/ \E j \in DOMAIN ring : w = ring[j]
             \/ w.data = Empty /\ w.index > Newest(ring)
    BY <1>1, <1>3
  <2>2. CASE \E j \in DOMAIN ring : w = ring[j]
    BY <1>2, <1>4, <2>1, <2>2 DEF Retains
  <2>3. CASE w.index > Newest(ring)
    <3>1. w.index \in Nat
      BY DEF WindowOf
    <3> QED BY <1>2, <1>5, <2>1, <2>3, <3>1
  <2> QED BY <2>1, <2>2, <2>3
<1>7. ASSUME NEW k \in Nat
      PROVE  CallsAt(after, a, k)
               = IF k < Oldest(after) THEN 0
                 ELSE IF k = index THEN Accumulate(CallsAt(ring, a, k), n)
                 ELSE CallsAt(ring, a, k)
  <2>1. CASE k < Oldest(after)
    BY <1>2, <2>1 DEF CallsAt, Retains
  <2>2. CASE k > Newest(after)
    <3>1. ~Retains(after, k) /\ ~Retains(ring, k)
      BY <1>2, <1>5, <2>2 DEF Retains
    <3>2. k # index /\ ~(k < Oldest(after))
      <4>1. Retains(after, after[l].index)
        BY <1>1, WindowsAreRetained
      <4> QED BY <1>2, <1>5, <2>2, <4>1 DEF Retains
    <3> QED BY <3>1, <3>2 DEF CallsAt
  <2>3. CASE Oldest(after) <= k /\ k <= Newest(after)
    <3>1. Retains(after, k)
      BY <2>3 DEF Retains, Lands
    <3>2. PICK i \in DOMAIN after : i = Slot(after, k) /\ after[i].index = k
      BY <3>1, SlotHolds
    <3>3. CallsAt(after, a, k) = after[i].data.calls[a]
      BY <3>1, <3>2 DEF CallsAt, Data
    <3>4. PICK w \in WindowOf(D) :
               /\ w.index = k
               /\ after[i].data.calls[a]
                    = IF w.index = index THEN Accumulate(w.data.calls[a], n)
                      ELSE w.data.calls[a]
               /\ \/ \E j \in DOMAIN ring : w = ring[j]
                  \/ w.data = Empty /\ (ring # << >> => w.index > Newest(ring))
      BY <1>3, <3>2
    <3>5. CallsAt(ring, a, k) = w.data.calls[a]
      <4>1. CASE \E j \in DOMAIN ring : w = ring[j]
        BY <1>4, <3>4, <4>1
      <4>2. CASE w.data = Empty /\ (ring # << >> => w.index > Newest(ring))
        <5>1. ~Retains(ring, k)
          BY <1>5, <3>4, <4>2 DEF Retains
        <5> QED BY <4>2, <5>1 DEF CallsAt, Empty
      <4> QED BY <3>4, <4>1, <4>2
    <3>6. ~(k < Oldest(after))
      BY <1>2, <2>3
    <3> QED BY <3>3, <3>4, <3>5, <3>6
  <2> QED BY <1>2, <2>1, <2>2, <2>3
<1>8. \A k \in Nat : CallsAt(ring, a, k) \in Amount
  BY CallsAtIsAmount
<1> QED BY <1>2, <1>5, <1>6, <1>7, <1>8 DEF LandsOnce, Lands

-----------------------------------------------------------------------------
\* Adding to one member adds as much to the sum, the ceiling included.
LEMMA SumLands ==
  ASSUME NEW K, IsFiniteSet(K), NEW held, NEW next, NEW n \in Nat, NEW index \in K,
         \A k \in K : held[k] \in Amount,
         next[index] = Accumulate(held[index], n),
         \A k \in K \ {index} : next[k] = held[k]
  PROVE  Saturated(SumOn(next, K)) = Accumulate(Saturated(SumOn(held, K)), n)
<1>1. IsFiniteSet(K \ {index}) /\ MaxCumulative \in Nat
  BY StoreSizes, FS_Subset
<1>2. PICK x \in Amount : x = held[index]
  OBVIOUS
<1>3. PICK y \in Amount : y = next[index] /\ y = Accumulate(x, n)
  BY <1>2, AccumulateIsAmount
<1>4. \A k \in K : held[k] \in Nat /\ held[k] \in Int /\ next[k] \in Int
  BY <1>3 DEF Amount
<1>5. SumOn(held, K) = x + SumOn(held, K \ {index})
  BY <1>2, <1>4, SumWithout
<1>6. SumOn(next, K) = y + SumOn(next, K \ {index})
  BY <1>3, <1>4, SumWithout
<1>7. PICK rest \in Nat : rest = SumOn(held, K \ {index})
  BY <1>1, <1>4, SumIsNat
<1>8. SumOn(next, K \ {index}) = rest
  BY <1>1, <1>4, <1>7, SumAgrees
<1>9. Saturated(y + rest) = Accumulate(Saturated(x + rest), n)
  BY <1>1, <1>3 DEF Saturated, Accumulate, Amount
<1> QED BY <1>5, <1>6, <1>7, <1>8, <1>9

\* What a frame's calls come to over any set of indices: as much more if the one of the
\* frame is among them, less if a window of the set is gone.
LandedIn(K, index, n) == IF index \in K THEN n ELSE 0

(* What a block's calls become when n of them land at one index: no more than those held and
   those that landed in it, and exactly that when the ring still reaches back to the block. *)
BlockLands(after, ring, a, K, index, n) ==
  /\ Saturated(CallsOver(ring, a, K)) \in Amount
  /\ Saturated(CallsOver(after, a, K)) \in Amount
  /\ Saturated(CallsOver(after, a, K))
       <= Accumulate(Saturated(CallsOver(ring, a, K)), LandedIn(K, index, n))
  /\ (\A k \in K : Oldest(after) <= k) =>
       Saturated(CallsOver(after, a, K))
         = Accumulate(Saturated(CallsOver(ring, a, K)), LandedIn(K, index, n))

LEMMA LandsOver ==
  ASSUME NEW K \in SUBSET Nat, IsFiniteSet(K), NEW after, NEW ring, NEW a, NEW index \in Nat,
         NEW n \in Nat, LandsOnce(after, ring, a, index, n)
  PROVE  BlockLands(after, ring, a, K, index, n)
<1>0. PICK more \in Nat : more = LandedIn(K, index, n)
  BY DEF LandedIn
<1>1. PICK held, next : /\ held = [k \in K |-> CallsAt(ring, a, k)]
                        /\ next = [k \in K |-> CallsAt(after, a, k)]
  OBVIOUS
<1>2. PICK full : full = [k \in K |-> IF k = index THEN Accumulate(held[k], n) ELSE held[k]]
  OBVIOUS
<1>3. \A k \in K : held[k] \in Amount /\ full[k] \in Amount
  BY <1>1, <1>2, AccumulateIsAmount DEF LandsOnce
<1>4. \A k \in K : next[k] = IF k < Oldest(after) THEN 0 ELSE full[k]
  <2> SUFFICES ASSUME NEW k \in K PROVE next[k] = IF k < Oldest(after) THEN 0 ELSE full[k]
    OBVIOUS
  <2>1. CallsAt(after, a, k)
          = IF k < Oldest(after) THEN 0
            ELSE IF k = index THEN Accumulate(CallsAt(ring, a, k), n)
            ELSE CallsAt(ring, a, k)
    BY DEF LandsOnce
  <2> QED BY <1>1, <1>2, <2>1
<1>5. \A k \in K : /\ held[k] \in Int /\ next[k] \in Int /\ full[k] \in Int
                   /\ held[k] \in Nat /\ next[k] \in Nat /\ full[k] \in Nat
                   /\ next[k] <= full[k]
  BY <1>3, <1>4 DEF Amount
<1>6. PICK x \in Nat : x = SumOn(held, K)
  BY <1>5, SumIsNat
<1>7. PICK y \in Nat : y = SumOn(next, K)
  BY <1>5, SumIsNat
<1>8. PICK z \in Nat : z = SumOn(full, K)
  BY <1>5, SumIsNat
<1>9. y <= z
  BY <1>5, <1>7, <1>8, SumIsBelow
<1>10. /\ Saturated(x) \in Amount /\ Saturated(y) \in Amount
       /\ Saturated(y) <= Saturated(z)
  BY <1>9, StoreSizes DEF Saturated, Amount
<1>11. Saturated(z) = Accumulate(Saturated(x), more)
  <2>1. CASE index \in K
    <3>1. full[index] = Accumulate(held[index], n) /\ \A k \in K \ {index} : full[k] = held[k]
      BY <1>2, <2>1
    <3>2. \A k \in K : held[k] \in Amount
      BY <1>3
    <3>3. Saturated(SumOn(full, K)) = Accumulate(Saturated(SumOn(held, K)), n)
      BY <2>1, <3>1, <3>2, SumLands
    <3> QED BY <1>0, <1>6, <1>8, <2>1, <3>3 DEF LandedIn
  <2>2. CASE index \notin K
    <3>1. \A k \in K : full[k] \in Int /\ full[k] = held[k]
      BY <1>2, <1>5, <2>2
    <3>2. z = x
      BY <1>6, <1>8, <3>1, SumAgrees
    <3> QED BY <1>0, <1>10, <2>2, <3>2, AccumulatesNothing DEF LandedIn
  <2> QED BY <2>1, <2>2
<1>12. ASSUME \A k \in K : Oldest(after) <= k PROVE y = z
  <2>1. Oldest(after) \in Nat
    BY DEF LandsOnce
  <2>2. \A k \in K : next[k] \in Int /\ next[k] = full[k]
    BY <1>4, <1>5, <1>12, <2>1
  <2> QED BY <1>7, <1>8, <2>2, SumAgrees
<1>13. CallsOver(ring, a, K) = x /\ CallsOver(after, a, K) = y
  BY <1>1, <1>6, <1>7 DEF CallsOver
<1> QED BY <1>0, <1>10, <1>11, <1>12, <1>13 DEF BlockLands

\* Nothing is held where there are no windows.
LEMMA NothingOver ==
  ASSUME NEW K, IsFiniteSet(K), NEW a
  PROVE  Saturated(CallsOver(<< >>, a, K)) = 0
<1>1. PICK held : held = [k \in K |-> CallsAt(<< >>, a, k)]
  OBVIOUS
<1>2. \A k \in K : held[k] \in Int /\ held[k] = 0
  BY <1>1 DEF CallsAt, Retains
<1>3. {} \in SUBSET K /\ \A k \in K \ {} : held[k] = 0
  BY <1>2
<1>4. SumOn(held, K) = SumOn(held, {})
  BY <1>2, <1>3, SumOverMore
<1> QED BY <1>1, <1>4, SumOfNone, StoreSizes DEF CallsOver, Saturated

\* The windows of a ring, by their indices: some set of positions P holds what a set K of
\* indices does that has all of theirs and no other retained one.
LEMMA PositionsAndIndices ==
  ASSUME NEW D \in SUBSET DataType, NEW ring \in Seq(WindowOf(D)), Contiguous(ring),
         NEW a \in Functions, NEW P \in SUBSET DOMAIN ring,
         NEW K \in SUBSET Nat, IsFiniteSet(K),
         \A i \in DOMAIN ring : i \in P <=> ring[i].index \in K
  PROVE  SumOn(CallsIn(ring, a), P) = CallsOver(ring, a, K)
<1>1. PICK held : held = [k \in K |-> CallsAt(ring, a, k)]
  OBVIOUS
<1>2. PICK name : name = [i \in P |-> ring[i].index]
  OBVIOUS
<1> DEFINE Named == Names(name, P)
<1>3. PICK l \in Nat : l = Len(ring) /\ DOMAIN ring = 1..l
  BY LenProperties
<1>4. IsFiniteSet(P)
  <2>1. IsFiniteSet(1..l)
    BY FS_Interval
  <2> QED BY <1>3, <2>1, FS_Subset
<1>5. \A i \in DOMAIN ring :
        /\ ring[i].index \in Nat /\ ring[i].index = ring[1].index + i - 1
        /\ ring[1].index \in Nat
        /\ CallsIn(ring, a)[i] = ring[i].data.calls[a] /\ ring[i].data.calls[a] \in Amount
        /\ CallsAt(ring, a, ring[i].index) = ring[i].data.calls[a]
  <2> SUFFICES ASSUME NEW i \in DOMAIN ring
        PROVE  /\ ring[i].index \in Nat /\ ring[i].index = ring[1].index + i - 1
               /\ ring[1].index \in Nat
               /\ CallsIn(ring, a)[i] = ring[i].data.calls[a] /\ ring[i].data.calls[a] \in Amount
               /\ CallsAt(ring, a, ring[i].index) = ring[i].data.calls[a]
    OBVIOUS
  <2>1. /\ ring[i].index \in Nat /\ ring[i].index = ring[1].index + i - 1
        /\ ring[1].index \in Nat
    BY <1>3, RingIndexes
  <2>2. /\ ring[i] \in WindowOf(D) /\ Retains(ring, ring[i].index)
        /\ Slot(ring, ring[i].index) = i
    BY WindowsAreRetained
  <2>3. ring[i].data \in DataType
    BY <2>2 DEF WindowOf
  <2> QED BY <2>1, <2>2, <2>3 DEF CallsIn, CallsAt, Data, DataType
<1>6. \A i \in P : CallsIn(ring, a)[i] \in Int /\ held[name[i]] = CallsIn(ring, a)[i]
  BY <1>1, <1>2, <1>5 DEF Amount
<1>7. \A i, j \in P : name[i] = name[j] => i = j
  <2> SUFFICES ASSUME NEW i \in P, NEW j \in P, name[i] = name[j] PROVE i = j
    OBVIOUS
  <2>1. PICK first \in Nat : first = ring[1].index
    BY <1>5
  <2>2. first + i - 1 = first + j - 1 /\ i \in Nat /\ j \in Nat
    BY <1>2, <1>3, <1>5, <2>1
  <2> QED BY <2>2
<1>8. SumOn(held, Named) = SumOn(CallsIn(ring, a), P)
  <2>1. PICK calls : calls = CallsIn(ring, a)
    OBVIOUS
  <2>2. \A i \in P : calls[i] \in Int /\ held[name[i]] = calls[i]
    BY <1>6, <2>1
  <2>3. SumOn(held, Names(name, P)) = SumOn(calls, P)
    BY <1>4, <1>7, <2>2, SumRenamed
  <2> QED BY <2>1, <2>3
<1>9. Named \in SUBSET K
  BY <1>2 DEF Names
<1>10. ASSUME NEW k \in K PROVE held[k] \in Int /\ (k \notin Named => held[k] = 0)
  <2>1. CASE Retains(ring, k)
    <3>1. PICK i \in DOMAIN ring : ring[i].index = k
      BY <2>1, SlotHolds
    <3>2. i \in P /\ name[i] = k
      BY <1>2, <3>1
    <3> QED BY <1>6, <3>2 DEF Names
  <2>2. CASE ~Retains(ring, k)
    BY <1>1, <2>2 DEF CallsAt
  <2> QED BY <2>1, <2>2
<1>11. SumOn(held, K) = SumOn(held, Named)
  <2> HIDE DEF Named
  <2> QED BY <1>9, <1>10, SumOverMore
<1> QED BY <1>1, <1>8, <1>11 DEF CallsOver

-----------------------------------------------------------------------------
\* The indices of the fine windows of a coarse one's time.
FinesOf(W) == {k \in Nat : IndexOf(k * FineResolution, CoarseResolution) = W}

LEMMA FinesAreFinite ==
  ASSUME NEW W \in Nat
  PROVE  /\ FinesOf(W) \in SUBSET Nat /\ IsFiniteSet(FinesOf(W))
         /\ \A k \in FinesOf(W) : W * CoarseResolution <= k * FineResolution
<1>1. FineResolution \in Nat \ {0} /\ CoarseResolution \in Nat \ {0}
  BY SizesAreNat
<1>2. PICK last \in Nat : last = W * CoarseResolution + CoarseResolution
  BY <1>1
<1>3. ASSUME NEW k \in FinesOf(W)
      PROVE  k \in 0..last /\ W * CoarseResolution <= k * FineResolution
  <2>1. k \in Nat /\ (k * FineResolution) \div CoarseResolution = W
    BY DEF FinesOf, IndexOf
  <2>2. PICK start \in Nat : start = k * FineResolution
    BY <1>1, <2>1
  <2>3. W * CoarseResolution <= start /\ start < W * CoarseResolution + CoarseResolution
    BY <1>1, <2>1, <2>2, QuotientBounds
  <2>4. k <= start
    BY <1>1, <2>1, <2>2, TimesMonotonic
  <2>5. k <= last
    BY <1>2, <2>1, <2>2, <2>3, <2>4
  <2> QED BY <2>1, <2>2, <2>3, <2>5
<1>4. FinesOf(W) \subseteq 0..last /\ IsFiniteSet(0..last)
  BY <1>2, <1>3, FS_Interval
<1>5. FinesOf(W) \in SUBSET Nat
  BY DEF FinesOf
<1> QED BY <1>3, <1>4, <1>5, FS_Subset

\* A frame lands in a fine window of the coarse one it lands in.
LEMMA FineWithinCoarse ==
  ASSUME NEW t \in Nat, NEW W \in Nat
  PROVE  IndexOf(t, FineResolution) \in FinesOf(W) <=> IndexOf(t, CoarseResolution) = W
<1>1. FineResolution \in Nat \ {0} /\ CoarseResolution \in Nat \ {0}
      /\ CoarseResolution % FineResolution = 0
  BY SizesAreNat, StoreResolutions
<1>2. PICK F \in Nat \ {0}, C \in Nat \ {0} : F = FineResolution /\ C = CoarseResolution
  BY <1>1
<1>3. PICK m \in Nat : C = m * F
  BY <1>1, <1>2
<1>4. PICK k \in Nat : k = t \div F /\ k * F <= t /\ t < k * F + F
  BY QuotientBounds
<1>5. PICK q \in Nat : q = t \div C /\ q * C <= t /\ t < q * C + C
  BY QuotientBounds
<1>6. PICK n \in Nat : n = q * m /\ n * F = q * C
  BY <1>3, TimesAssociates
<1>7. n <= k
  BY <1>4, <1>5, <1>6, QuotientAbove
<1>8. q * C <= k * F
  BY <1>6, <1>7, TimesMonotonic
<1>9. PICK start \in Nat : start = k * F
  OBVIOUS
<1>10. start \div C = q
  BY <1>4, <1>5, <1>8, <1>9, QuotientIs
<1> QED BY <1>2, <1>4, <1>5, <1>9, <1>10 DEF FinesOf, IndexOf

\* What the coarse ring holds and the totals; what the fine windows of a coarse one hold
\* and it does, or would if it were there.
TotalsTold ==
  \A a \in Functions : \A n \in Nat :
    /\ Saturated(CallsOver(coarse, a, 0..n)) <= totals.calls[a]
    /\ (coarse # << >> => Oldest(coarse) = 0 /\ Newest(coarse) <= n)
         => Saturated(CallsOver(coarse, a, 0..n)) = totals.calls[a]

FinesTold ==
  \A a \in Functions : \A W \in Nat : (coarse # << >> => Oldest(coarse) <= W) =>
    /\ Saturated(CallsOver(fine, a, FinesOf(W))) <= CallsAt(coarse, a, W)
    /\ (fine # << >> => Oldest(fine) * FineResolution <= W * CoarseResolution)
         => Saturated(CallsOver(fine, a, FinesOf(W))) = CallsAt(coarse, a, W)

\* The indices are quantified over whether a window stands for them or not: a coarse window
\* yet to come covers fine ones already there, which is what makes this inductive.
StoriesInv == StoredInv /\ TotalsTold /\ FinesTold

LEMMA StoriesInvInit == Init => StoriesInv
<1> SUFFICES ASSUME Init PROVE StoriesInv
  OBVIOUS
<1>1. StoredInv
  BY StoredInvInit
<1>2. fine = << >> /\ coarse = << >> /\ totals = Empty
  BY DEF Init
<1>3. TotalsTold
  <2> SUFFICES ASSUME NEW a \in Functions, NEW n \in Nat
               PROVE  Saturated(CallsOver(coarse, a, 0..n)) = 0 /\ totals.calls[a] = 0
    BY DEF TotalsTold
  <2>1. IsFiniteSet(0..n)
    BY FS_Interval
  <2> QED BY <1>2, <2>1, NothingOver DEF Empty
<1>4. FinesTold
  <2> SUFFICES ASSUME NEW a \in Functions, NEW W \in Nat
               PROVE  Saturated(CallsOver(fine, a, FinesOf(W))) = 0 /\ CallsAt(coarse, a, W) = 0
    BY DEF FinesTold
  <2> QED BY <1>2, FinesAreFinite, NothingOver DEF CallsAt, Retains
<1> QED BY <1>1, <1>3, <1>4 DEF StoriesInv

\* A ring that holds something has a first and a last index.
LEMMA OldestIsNat ==
  ASSUME NEW D, NEW ring \in Seq(WindowOf(D)), NEW cap, IsRing(ring, cap), ring # << >>
  PROVE  Oldest(ring) \in Nat /\ Newest(ring) \in Nat
<1>1. Len(ring) \in 1..Len(ring) /\ 1 \in 1..Len(ring)
  BY EmptySeq
<1> QED BY <1>1, RingIndexes DEF IsRing, Oldest, Newest

\* A frame adds the same calls to the totals and, at its index, to each ring.
LEMMA FrameLandsOnce ==
  ASSUME StoredInv, NEW frame \in Frames, NEW reg, NEW applied, Landing(frame, reg, applied),
         StoredInv', applied # << >>, NEW a \in Functions
  PROVE  \E n \in Nat :
           /\ totals'.calls[a] = Accumulate(totals.calls[a], n) /\ totals.calls[a] \in Amount
           /\ LandsOnce(fine', fine, a, IndexOf(frame.t, FineResolution), n)
           /\ LandsOnce(coarse', coarse, a, IndexOf(frame.t, CoarseResolution), n)
<1> DEFINE D == Told(reg.paths)
<1>1. /\ reg \in Grown(functions, paths) /\ applied \in Seq(KnownEvents(reg))
      /\ paths' = reg.paths /\ totals' = Folded(reg.paths, totals, applied, frame.t)
      /\ Lands(fine', fine, D, IndexOf(frame.t, FineResolution), reg.paths, applied, frame.t)
      /\ Lands(coarse', coarse, D, IndexOf(frame.t, CoarseResolution), reg.paths, applied,
               frame.t)
  BY DEF Landing
<1>2. reg \in Tables /\ Forest(reg.functions, reg.paths) /\ frame.t \in Times /\ frame.t \in Nat
  BY <1>1, FrameIsKnown DEF Grown, StoredInv
<1>3. Told(paths) \subseteq D /\ totals \in D
  BY <1>1, GrowingTells DEF StoredInv, TreeInv, TotalsInv
<1>4. D \in SUBSET DataType /\ Empty \in D
  BY EmptyIsTold DEF Told
<1>5. \A data \in D : \A e \in KnownEvents(reg) : Add(reg.paths, data, e, frame.t) \in D
  BY <1>2, AddTells
<1>6. KnownEvents(reg) \in SUBSET EventType
  BY DEF KnownEvents
<1>7. /\ fine \in Seq(WindowOf(D)) /\ Contiguous(fine)
      /\ coarse \in Seq(WindowOf(D)) /\ Contiguous(coarse)
      /\ fine' \in Seq(WindowOf(D)) /\ Contiguous(fine')
      /\ coarse' \in Seq(WindowOf(D)) /\ Contiguous(coarse')
  <2>1. WindowOf(Told(paths)) \subseteq WindowOf(D)
    BY <1>3 DEF WindowOf
  <2> QED BY <1>1, <2>1, SeqMonotonic DEF StoredInv, RingInv, IsRing
<1> HIDE DEF D
<1>8. PICK n \in Nat : \A b \in D :
        Folded(reg.paths, b, applied, frame.t).calls[a] = Accumulate(b.calls[a], n)
  <2>1. PICK E, tree, at : E = KnownEvents(reg) /\ tree = reg.paths /\ at = frame.t
    OBVIOUS
  <2>2. E \in SUBSET EventType /\ applied \in Seq(E) /\ D \in SUBSET DataType
    BY <1>1, <1>4, <1>6, <2>1
  <2>3. AddsWithin(D, E, tree, at)
    BY <1>5, <2>1 DEF AddsWithin
  <2>4. AddsTheSame(D, applied, tree, at, a)
    BY <2>2, <2>3, FoldedAdds
  <2> QED BY <2>1, <2>4 DEF AddsTheSame
<1>9. totals'.calls[a] = Accumulate(totals.calls[a], n) /\ totals.calls[a] \in Amount
  BY <1>1, <1>3, <1>4, <1>8 DEF DataType
<1>10. /\ IndexOf(frame.t, FineResolution) \in Nat /\ IndexOf(frame.t, CoarseResolution) \in Nat
  BY <1>2, SizesAreNat, IndexIsNat
<1>11. LandsOnce(fine', fine, a, IndexOf(frame.t, FineResolution), n)
  BY <1>1, <1>4, <1>7, <1>8, <1>10, CallsLandOnce
<1>12. LandsOnce(coarse', coarse, a, IndexOf(frame.t, CoarseResolution), n)
  BY <1>1, <1>4, <1>7, <1>8, <1>10, CallsLandOnce
<1> QED BY <1>9, <1>11, <1>12

\* The ceiling keeps amounts in order.
LEMMA AccumulatesMonotonically ==
  ASSUME NEW x \in Amount, NEW y \in Amount, NEW n \in Nat, x <= y
  PROVE  Accumulate(x, n) <= Accumulate(y, n) /\ x <= Accumulate(x, n)
         /\ Accumulate(x, n) \in Amount
BY StoreSizes DEF Accumulate, Amount

\* The frame's calls land in the totals and in the coarse ring alike.
LEMMA LandedTotals ==
  ASSUME StoredInv, TotalsTold, StoredInv', NEW index \in Nat, NEW a \in Functions, NEW n \in Nat,
         totals.calls[a] \in Amount, totals'.calls[a] = Accumulate(totals.calls[a], n),
         LandsOnce(coarse', coarse, a, index, n),
         NEW m \in Nat
  PROVE  /\ Saturated(CallsOver(coarse', a, 0..m)) <= totals'.calls[a]
         /\ (coarse' # << >> => Oldest(coarse') = 0 /\ Newest(coarse') <= m)
              => Saturated(CallsOver(coarse', a, 0..m)) = totals'.calls[a]
<1>1. PICK K \in SUBSET Nat : K = 0..m /\ IsFiniteSet(K)
  <2>1. IsFiniteSet(0..m)
    BY FS_Interval
  <2> QED BY <2>1
<1>2. PICK more \in Nat : more = LandedIn(K, index, n)
  BY DEF LandedIn
<1>3. PICK after : after = coarse'
  OBVIOUS
<1>4. PICK x \in Amount, y \in Amount :
        /\ x = Saturated(CallsOver(coarse, a, K)) /\ y = Saturated(CallsOver(after, a, K))
        /\ y <= Accumulate(x, more)
        /\ (\A k \in K : Oldest(after) <= k) => y = Accumulate(x, more)
  <2>1. LandsOnce(after, coarse, a, index, n) /\ IsFiniteSet(K)
    BY <1>1, <1>3
  <2>2. BlockLands(after, coarse, a, K, index, n)
    BY <2>1, LandsOver
  <2> QED BY <1>2, <2>2 DEF BlockLands
<1>5. PICK was \in Amount, is \in Amount : /\ was = totals.calls[a] /\ is = totals'.calls[a]
                                           /\ is = Accumulate(was, n)
  BY AccumulateIsAmount
<1>6. x <= was
  BY <1>1, <1>4, <1>5 DEF TotalsTold
<1>7. y <= is
  <2>1. more = n \/ more = 0
    BY <1>2 DEF LandedIn
  <2> QED BY <1>4, <1>5, <1>6, <2>1, StoreSizes DEF Accumulate, Amount
<1>8. ASSUME after # << >> => Oldest(after) = 0 /\ Newest(after) <= m PROVE y = is
  <2>1. /\ after # << >> /\ index <= Newest(after)
        /\ coarse # << >> => Oldest(coarse) <= Oldest(after) /\ Newest(coarse) <= Newest(after)
        /\ Oldest(after) \in Nat /\ Newest(after) \in Nat
    BY <1>3 DEF LandsOnce
  <2>2. more = n
    BY <1>1, <1>2, <1>8, <2>1 DEF LandedIn
  <2>3. y = Accumulate(x, more)
    BY <1>1, <1>4, <1>8, <2>1
  <2>4. coarse # << >> => Oldest(coarse) \in Nat /\ Newest(coarse) \in Nat
    BY OldestIsNat DEF StoredInv, RingInv
  <2>5. coarse # << >> => Oldest(coarse) = 0 /\ Newest(coarse) <= m
    BY <1>8, <2>1, <2>4
  <2>6. x = was
    BY <1>1, <1>4, <1>5, <2>5 DEF TotalsTold
  <2> QED BY <1>5, <2>2, <2>3, <2>6
<1> QED BY <1>1, <1>3, <1>4, <1>5, <1>7, <1>8

\* They land in a fine window and in the coarse one over it, or in neither.
LEMMA LandedFines ==
  ASSUME StoredInv, FinesTold, NEW t \in Nat, NEW a \in Functions, NEW n \in Nat,
         LandsOnce(coarse', coarse, a, IndexOf(t, CoarseResolution), n),
         LandsOnce(fine', fine, a, IndexOf(t, FineResolution), n),
         NEW W \in Nat, Oldest(coarse') <= W
  PROVE  /\ Saturated(CallsOver(fine', a, FinesOf(W))) <= CallsAt(coarse', a, W)
         /\ Oldest(fine') * FineResolution <= W * CoarseResolution
              => Saturated(CallsOver(fine', a, FinesOf(W))) = CallsAt(coarse', a, W)
<1>1. PICK K \in SUBSET Nat : /\ K = FinesOf(W) /\ IsFiniteSet(K)
                              /\ \A k \in K : W * CoarseResolution <= k * FineResolution
  BY FinesAreFinite
<1>0. PICK index \in Nat : index = IndexOf(t, FineResolution)
  BY SizesAreNat, IndexIsNat
<1>2. PICK f : f = fine' /\ index = IndexOf(t, FineResolution)
  BY <1>0
<1>3. PICK more \in Nat : more = LandedIn(K, index, n)
  BY DEF LandedIn
<1>4. PICK x \in Amount, y \in Amount :
        /\ x = Saturated(CallsOver(fine, a, K)) /\ y = Saturated(CallsOver(f, a, K))
        /\ y <= Accumulate(x, more)
        /\ (\A k \in K : Oldest(f) <= k) => y = Accumulate(x, more)
  <2>1. LandsOnce(f, fine, a, index, n) /\ IsFiniteSet(K)
    BY <1>1, <1>2
  <2>2. BlockLands(f, fine, a, K, index, n)
    BY <2>1, LandsOver
  <2> QED BY <1>3, <2>2 DEF BlockLands
<1>5. PICK was \in Amount : was = CallsAt(coarse, a, W)
  BY DEF LandsOnce
<1>6. CallsAt(coarse', a, W) = Accumulate(was, more)
  <2>1. Oldest(coarse') \in Nat /\ ~(W < Oldest(coarse'))
    BY DEF LandsOnce
  <2>2. CallsAt(coarse', a, W)
          = IF W = IndexOf(t, CoarseResolution) THEN Accumulate(was, n) ELSE was
    BY <1>5, <2>1 DEF LandsOnce
  <2>3. index \in K <=> W = IndexOf(t, CoarseResolution)
    BY <1>1, <1>2, FineWithinCoarse
  <2> QED BY <1>3, <2>2, <2>3, AccumulatesNothing DEF LandedIn
<1>7. /\ coarse # << >> => Oldest(coarse) <= W
      /\ f # << >> /\ Oldest(f) \in Nat
      /\ fine # << >> => Oldest(fine) <= Oldest(f) /\ Oldest(fine) \in Nat
  <2>1. /\ coarse # << >> => Oldest(coarse) \in Nat
        /\ fine # << >> => Oldest(fine) \in Nat
    BY OldestIsNat DEF StoredInv, RingInv
  <2>2. /\ coarse # << >> => Oldest(coarse) <= Oldest(coarse')
        /\ Oldest(coarse') \in Nat
    BY DEF LandsOnce
  <2>3. coarse # << >> => Oldest(coarse) <= W
    BY <2>1, <2>2
  <2> QED BY <1>2, <2>1, <2>3 DEF LandsOnce
<1>8. /\ x <= was
      /\ (fine # << >> => Oldest(fine) * FineResolution <= W * CoarseResolution) => x = was
  BY <1>1, <1>4, <1>5, <1>7 DEF FinesTold
<1>9. y <= Accumulate(was, more)
  <2>1. PICK p \in Amount, q \in Amount : p = Accumulate(x, more) /\ q = Accumulate(was, more)
    BY AccumulateIsAmount
  <2>2. p <= q
    BY <1>8, <2>1, AccumulatesMonotonically
  <2>3. y <= p
    BY <1>4, <2>1
  <2>4. y \in Nat /\ p \in Nat /\ q \in Nat
    BY DEF Amount
  <2> QED BY <2>1, <2>2, <2>3, <2>4
<1>10. ASSUME Oldest(f) * FineResolution <= W * CoarseResolution PROVE y = Accumulate(was, more)
  <2>1. PICK F \in Nat \ {0}, o \in Nat, start \in Nat :
          F = FineResolution /\ o = Oldest(f) /\ start = W * CoarseResolution
    BY <1>7, SizesAreNat
  <2>2. \A k \in K : o <= k
    <3> SUFFICES ASSUME NEW k \in K PROVE o <= k
      OBVIOUS
    <3>1. PICK x1 \in Nat, x2 \in Nat : x1 = o * F /\ x2 = k * F
      OBVIOUS
    <3>2. x1 <= start /\ start <= x2
      BY <1>1, <1>10, <2>1, <3>1
    <3> QED BY <2>1, <3>1, <3>2, TimesMonotonic
  <2>3. fine # << >> => Oldest(fine) * FineResolution <= W * CoarseResolution
    <3> SUFFICES ASSUME fine # << >> PROVE Oldest(fine) * F <= start
      BY <2>1
    <3>1. PICK p \in Nat : p = Oldest(fine) /\ p <= o
      BY <1>7, <2>1
    <3>2. PICK x1 \in Nat, x2 \in Nat : x1 = p * F /\ x2 = o * F
      OBVIOUS
    <3>3. x1 <= x2 /\ x2 <= start
      BY <1>10, <2>1, <3>1, <3>2, TimesMonotonic
    <3> QED BY <3>1, <3>2, <3>3
  <2> QED BY <1>4, <1>8, <2>1, <2>2, <2>3
<1> QED BY <1>1, <1>2, <1>4, <1>6, <1>9, <1>10

\* A frame that applies nothing lands nowhere; any other keeps the totals and the rings told.
LEMMA ApplyFrameTells ==
  ASSUME StoriesInv, NEW c \in Connections, NEW frame \in Frames, ApplyFrame(c, frame)
  PROVE  StoriesInv'
<1>1. StoredInv /\ TotalsTold /\ FinesTold
  BY DEF StoriesInv
<1>2. StoredInv'
  BY <1>1, ApplyFrameStores
<1>3. PICK reg, applied : Landing(frame, reg, applied)
  BY <1>1, ApplyFrameStores
<1>4. CASE applied = << >>
  <2>1. fine' = fine /\ coarse' = coarse /\ totals' = totals
    BY <1>3, <1>4, FoldedOfNone DEF Landing
  <2> QED BY <1>1, <1>2, <2>1 DEF StoriesInv, TotalsTold, FinesTold
<1>5. CASE applied # << >>
  <2>1. PICK t \in Nat : t = frame.t
    BY <1>1, FrameIsKnown DEF StoredInv
  <2>2. PICK index \in Nat : index = IndexOf(t, CoarseResolution)
    BY SizesAreNat, IndexIsNat
  <2>3. ASSUME NEW a \in Functions
        PROVE  \E n \in Nat :
                 /\ totals'.calls[a] = Accumulate(totals.calls[a], n)
                 /\ totals.calls[a] \in Amount
                 /\ LandsOnce(fine', fine, a, IndexOf(t, FineResolution), n)
                 /\ LandsOnce(coarse', coarse, a, IndexOf(t, CoarseResolution), n)
    BY <1>1, <1>2, <1>3, <1>5, <2>1, FrameLandsOnce
  <2>4. TotalsTold'
    <3> SUFFICES ASSUME NEW a \in Functions, NEW m \in Nat
          PROVE  /\ Saturated(CallsOver(coarse', a, 0..m)) <= totals'.calls[a]
                 /\ (coarse' # << >> => Oldest(coarse') = 0 /\ Newest(coarse') <= m)
                      => Saturated(CallsOver(coarse', a, 0..m)) = totals'.calls[a]
      BY DEF TotalsTold
    <3> QED BY <1>1, <1>2, <2>2, <2>3, LandedTotals
  <2>5. FinesTold'
    <3> SUFFICES ASSUME NEW a \in Functions, NEW W \in Nat,
                        coarse' # << >> => Oldest(coarse') <= W
          PROVE  /\ Saturated(CallsOver(fine', a, FinesOf(W))) <= CallsAt(coarse', a, W)
                 /\ (fine' # << >> => Oldest(fine') * FineResolution <= W * CoarseResolution)
                      => Saturated(CallsOver(fine', a, FinesOf(W))) = CallsAt(coarse', a, W)
      BY DEF FinesTold
    <3>1. PICK n \in Nat :
            /\ LandsOnce(fine', fine, a, IndexOf(t, FineResolution), n)
            /\ LandsOnce(coarse', coarse, a, IndexOf(t, CoarseResolution), n)
      BY <2>3
    <3>2. fine' # << >> /\ coarse' # << >>
      BY <3>1 DEF LandsOnce
    <3>3. /\ Saturated(CallsOver(fine', a, FinesOf(W))) <= CallsAt(coarse', a, W)
          /\ Oldest(fine') * FineResolution <= W * CoarseResolution
               => Saturated(CallsOver(fine', a, FinesOf(W))) = CallsAt(coarse', a, W)
      BY <1>1, <3>1, <3>2, LandedFines
    <3> QED BY <3>2, <3>3
  <2> QED BY <1>2, <2>4, <2>5 DEF StoriesInv
<1> QED BY <1>4, <1>5

\* No other step touches what is held.
LEMMA StoriesInvStep == StoriesInv /\ [Next]_vars => StoriesInv'
<1> SUFFICES ASSUME StoriesInv, [Next]_vars PROVE StoriesInv'
  OBVIOUS
<1>1. ASSUME NEW c \in Connections, NEW frame \in Frames, ApplyFrame(c, frame)
      PROVE  StoriesInv'
  BY <1>1, ApplyFrameTells
<1>2. CASE UNCHANGED <<totals, fine, coarse>>
  <2>1. StoredInv'
    BY StoredInvStep DEF StoriesInv
  <2> QED BY <1>2, <2>1 DEF StoriesInv, TotalsTold, FinesTold
<1>3. ASSUME NEW c \in Connections, Admit(c) \/ Connect(c) \/ Disconnect(c)
      PROVE  UNCHANGED <<totals, fine, coarse>>
  BY <1>3 DEF Admit, Connect, Disconnect, rings
<1>4. CASE UNCHANGED vars
  BY <1>2, <1>4 DEF vars, rings
<1> QED BY <1>1, <1>2, <1>3, <1>4 DEF Next

\* Both rings and the totals count the same calls: the totals are what the coarse windows
\* hold, exactly that until one is gone.
THEOREM TotalsAreTheCoarse == Spec => []TotalsMatchCoarse
<1>1. StoriesInv => TotalsMatchCoarse
  <2> SUFFICES ASSUME StoriesInv, NEW a \in Functions
        PROVE  /\ Saturated(SumFunction(CallsIn(coarse, a))) <= totals.calls[a]
               /\ coarse # << >> /\ Oldest(coarse) = 0
                    => Saturated(SumFunction(CallsIn(coarse, a))) = totals.calls[a]
    BY DEF TotalsMatchCoarse
  <2>1. PICK D \in SUBSET DataType : coarse \in Seq(WindowOf(D)) /\ Contiguous(coarse)
    BY DEF StoriesInv, StoredInv, RingInv, IsRing, Told
  <2>2. PICK n \in Nat : coarse # << >> => n = Newest(coarse)
    BY <2>1, NewestIsNat
  <2>3. PICK K \in SUBSET Nat : K = 0..n /\ IsFiniteSet(K)
    <3>1. IsFiniteSet(0..n)
      BY FS_Interval
    <3> QED BY <3>1
  <2>4. \A i \in DOMAIN coarse : i \in DOMAIN coarse <=> coarse[i].index \in K
    <3> SUFFICES ASSUME NEW i \in DOMAIN coarse PROVE coarse[i].index \in K
      OBVIOUS
    <3>1. coarse[i].index \in Nat /\ Retains(coarse, coarse[i].index)
      BY <2>1, WindowsAreRetained
    <3> QED BY <2>2, <2>3, <3>1 DEF Retains
  <2>5. SumOn(CallsIn(coarse, a), DOMAIN coarse) = CallsOver(coarse, a, K)
    BY <2>1, <2>3, <2>4, PositionsAndIndices
  <2>6. SumFunction(CallsIn(coarse, a)) = CallsOver(coarse, a, 0..n)
    BY <2>3, <2>5, SumFunctionIs DEF CallsIn
  <2> QED BY <2>2, <2>6 DEF StoriesInv, TotalsTold
<1> QED BY <1>1, StoriesInvInit, StoriesInvStep, PTL DEF Spec

\* A coarse window holds what its retained fine windows hold, exactly that until one of
\* them is gone, late frames and idle stretches included.
THEOREM CoarseIsTheFine == Spec => []CoarseCoversFine
<1>1. StoriesInv => CoarseCoversFine
  <2> SUFFICES ASSUME StoriesInv, NEW w \in Range(coarse), NEW a \in Functions
        PROVE  /\ FineSum(w, a) <= w.data.calls[a]
               /\ Oldest(fine) * FineResolution <= w.index * CoarseResolution
                    => FineSum(w, a) = w.data.calls[a]
    BY DEF CoarseCoversFine
  <2>1. PICK D \in SUBSET DataType : /\ coarse \in Seq(WindowOf(D)) /\ Contiguous(coarse)
                                     /\ fine \in Seq(WindowOf(D)) /\ Contiguous(fine)
    BY DEF StoriesInv, StoredInv, RingInv, IsRing, Told
  <2>2. PICK i \in DOMAIN coarse : coarse[i] = w
    BY DEF Range
  <2>3. /\ w.index \in Nat /\ Retains(coarse, w.index) /\ Slot(coarse, w.index) = i
    BY <2>1, <2>2, WindowsAreRetained
  <2>4. PICK W \in Nat : W = w.index
    BY <2>3
  <2>5. CallsAt(coarse, a, W) = w.data.calls[a] /\ Oldest(coarse) <= W
    BY <2>2, <2>3, <2>4 DEF CallsAt, Data, Retains
  <2>6. PICK K \in SUBSET Nat : K = FinesOf(W) /\ IsFiniteSet(K)
    BY FinesAreFinite
  <2>7. PICK P \in SUBSET DOMAIN fine : P = Within(w)
    BY DEF Within
  <2>8. \A j \in DOMAIN fine : j \in P <=> fine[j].index \in K
    <3>1. \A j \in DOMAIN fine : fine[j].index \in Nat
      BY <2>1, WindowsAreRetained
    <3> QED BY <2>4, <2>6, <2>7, <3>1 DEF Within, FinesOf
  <2>9. SumOn(CallsIn(fine, a), P) = CallsOver(fine, a, K)
    BY <2>1, <2>6, <2>8, PositionsAndIndices
  <2>10. FineSum(w, a) = Saturated(CallsOver(fine, a, FinesOf(W)))
    BY <2>6, <2>7, <2>9, SumFunctionIs DEF FineSum
  <2> QED BY <2>4, <2>5, <2>10 DEF StoriesInv, FinesTold
<1> QED BY <1>1, StoriesInvInit, StoriesInvStep, PTL DEF Spec
=============================================================================
