-------------------------- MODULE ProbeCallsProofs --------------------------
(***************************************************************************)
(* What holds of the probe for every number of threads, every program and  *)
(* every ceiling on the tree: its types, the forest it builds, the memos   *)
(* the threads trust instead of asking for the tree's lock, the time its   *)
(* books keep, the calls its contexts count while it refuses nothing, and  *)
(* what the chain of a context tells.                                      *)
(***************************************************************************)
EXTENDS Testing, RegistryProofs, DataProofs

(* The types as a thread keeps them: no activation is in a context that    *)
(* does not exist yet, or started in the future.                           *)
ActivationUpTo(n, now) ==
  [func: Functions, path: 0..n, start: 0..now, child_ns: Nat,
   outermost: BOOLEAN, counts_here: BOOLEAN]
DepthUpTo(n) == [count: Nat, path: 0..n, recursion_path: 0..n]

StackInv == stack \in [Threads -> Seq(ActivationUpTo(Len(nodes), clock))]
DepthInv == depth \in [Threads -> [Functions -> DepthUpTo(Len(nodes))]]
MemoInv == memo \in [Threads -> [Paths \X Functions -> Paths]] /\ MemoAgrees
EnteringInv ==
  /\ entering \in [Threads -> Functions \cup {NoFunction}]
  /\ \A t \in Threads : entering[t] # NoFunction => Interned(entering[t])
SlotsInv ==
  /\ slots \in Seq(Threads)
  /\ drain \in DrainType
  /\ drain.at = "retain" => drain.cursor <= Len(slots)
AccumInv ==
  /\ accum \in [Threads -> AccumType]
  /\ merged \in AccumType /\ drained \in AccumType /\ lost \in AccumType
CountersInv == clock \in Nat /\ rootNs \in Nat /\ entries \in Nat
PhaseInv == phase \in [Threads -> {"fresh", "live", "gone"}]

Inv ==
  /\ RegistryInv /\ CountersInv /\ PhaseInv
  /\ EnteringInv /\ StackInv /\ DepthInv /\ MemoInv
  /\ SlotsInv /\ AccumInv
  /\ DepthMatchesStack

-----------------------------------------------------------------------------
(* Facts about the data.                                                   *)

LEMMA NodesBound ==
  ASSUME RegistryInv
  PROVE  Len(nodes) \in Nat /\ Len(nodes) <= MaxPaths /\ MaxPaths \in Nat
         /\ DOMAIN nodes = 1..Len(nodes)
BY LenProperties, MaxPathsAssumption DEF RegistryInv, RegistryTypeOK

\* What is up to n and now is also up to anything later.
LEMMA StackWidens ==
  ASSUME NEW n \in Nat, NEW m \in Nat, n <= m,
         NEW now \in Nat, NEW later \in Nat, now <= later,
         NEW s \in Seq(ActivationUpTo(n, now))
  PROVE  s \in Seq(ActivationUpTo(m, later))
<1>1. 0..n \subseteq 0..m /\ 0..now \subseteq 0..later
  OBVIOUS
<1>2. ActivationUpTo(n, now) \subseteq ActivationUpTo(m, later)
  BY <1>1 DEF ActivationUpTo
<1> QED BY <1>2, SeqMonotonic

LEMMA DepthWidens ==
  ASSUME NEW n \in Nat, NEW m \in Nat, n <= m, NEW d \in [Functions -> DepthUpTo(n)]
  PROVE  d \in [Functions -> DepthUpTo(m)]
<1>1. 0..n \subseteq 0..m
  OBVIOUS
<1>2. DepthUpTo(n) \subseteq DepthUpTo(m)
  BY <1>1 DEF DepthUpTo
<1> QED BY <1>2

LEMMA ZeroIsAccum == Zero \in AccumType
BY DEF Zero, AccumType

LEMMA AbsorbIsAccum ==
  ASSUME NEW a \in AccumType, NEW b \in AccumType
  PROVE  Absorb(a, b) \in AccumType
BY DEF Absorb, AccumType

\* What close() adds keeps an accumulator one.
LEMMA RecordedIsAccum ==
  ASSUME NEW acc \in AccumType, NEW elapsed \in Nat, NEW n \in Nat, n <= MaxPaths,
         NEW now \in Nat, NEW a \in ActivationUpTo(n, now)
  PROVE  Recorded(acc, a, elapsed) \in AccumType
<1>1. /\ a.func \in Functions /\ a.path \in Paths /\ a.child_ns \in Nat
      /\ a.outermost \in BOOLEAN /\ a.counts_here \in BOOLEAN
  BY MaxPathsAssumption DEF ActivationUpTo, Paths
<1>2. SatSub(elapsed, a.child_ns) \in Nat
  BY <1>1 DEF SatSub
<1>3. acc.calls \in [Functions -> [count: Nat, ns: Nat]]
      /\ acc.stacks \in [Paths -> [count: Nat, self_ns: Nat]]
  BY DEF AccumType
<1>4. PICK one \in Nat : one = IF a.counts_here THEN 1 ELSE 0
  OBVIOUS
<1>5. PICK self \in Nat : self = SatSub(elapsed, a.child_ns)
  BY <1>2
<1>6. [acc.calls EXCEPT ![a.func] = [count |-> @.count + 1, ns |-> @.ns + elapsed]]
        \in [Functions -> [count: Nat, ns: Nat]]
  BY <1>1, <1>3
<1>7. [acc.stacks EXCEPT ![a.path] = [count |-> @.count + one, self_ns |-> @.self_ns + self]]
        \in [Paths -> [count: Nat, self_ns: Nat]]
  BY <1>1, <1>3
<1> QED BY <1>3, <1>4, <1>5, <1>6, <1>7 DEF Recorded, AccumType

LEMMA RemoveAtIsSeq ==
  ASSUME NEW S, NEW s \in Seq(S), NEW i \in 1..Len(s)
  PROVE  RemoveAt(s, i) \in Seq(S)
<1>1. Len(s) \in Nat
  BY LenProperties
<1>2. \A j \in 1..(i - 1) : s[j] \in S
  BY <1>1, ElementOfSeq
<1>3. \A j \in (i + 1)..Len(s) : s[j] \in S
  BY <1>1, ElementOfSeq
<1>4. SubSeq(s, 1, i - 1) \in Seq(S)
  BY <1>1, <1>2, SubSeqProperties
<1>5. SubSeq(s, i + 1, Len(s)) \in Seq(S)
  BY <1>1, <1>3, SubSeqProperties
<1> QED BY <1>4, <1>5, ConcatProperties DEF RemoveAt

\* What of an activation its depth entry summarises.
SameLevel(a, b) ==
  /\ a.func = b.func /\ a.path = b.path
  /\ a.outermost = b.outermost /\ a.counts_here = b.counts_here

\* Closing the innermost activation leaves a stack, the levels below as they were.
LEMMA PoppedIsStack ==
  ASSUME NEW n \in Nat, NEW now \in Nat, NEW s \in Seq(ActivationUpTo(n, now)),
         s # << >>, NEW elapsed \in Nat
  PROVE  /\ Popped(s, elapsed) \in Seq(ActivationUpTo(n, now))
         /\ Len(s) = Len(Popped(s, elapsed)) + 1
         /\ \A i \in 1..Len(Popped(s, elapsed)) : SameLevel(s[i], Popped(s, elapsed)[i])
<1>1. PICK A : A = ActivationUpTo(n, now)
  OBVIOUS
<1>2. Len(s) \in Nat \ {0}
  BY EmptySeq
<1>3. \A i \in 1..(Len(s) - 1) : s[i] \in A
  BY <1>1, <1>2, ElementOfSeq
<1>4. PICK rest : rest = Front(s)
  OBVIOUS
<1>5. /\ rest \in Seq(A) /\ Len(s) = Len(rest) + 1
      /\ \A i \in 1..Len(rest) : rest[i] = s[i]
  <2>1. PICK m \in Nat : m = Len(s) - 1
    BY <1>2
  <2>2. rest = SubSeq(s, 1, m) /\ \A i \in 1..m : s[i] \in A
    BY <1>3, <1>4, <2>1 DEF Front
  <2>3. rest \in Seq(A) /\ Len(rest) = m /\ \A i \in 1..m : rest[i] = s[i]
    <3>1. /\ SubSeq(s, 1, m) \in Seq(A)
          /\ Len(SubSeq(s, 1, m)) = IF 1 <= m THEN m - 1 + 1 ELSE 0
          /\ \A i \in 1..(m - 1 + 1) : SubSeq(s, 1, m)[i] = s[1 + i - 1]
      BY <2>2, SubSeqProperties
    <3>2. \A i \in 1..m : SubSeq(s, 1, m)[i] = s[i]
      BY <3>1
    <3> QED BY <2>2, <3>1, <3>2
  <2> QED BY <1>2, <2>1, <2>3
<1>6. CASE rest = << >>
  BY <1>1, <1>4, <1>5, <1>6 DEF Popped, ChargeCaller, SameLevel
<1>7. CASE rest # << >>
  <2>1. PICK l \in Nat \ {0} : l = Len(rest)
    BY <1>5, <1>7, EmptySeq
  <2>2. PICK top \in A : top = rest[l]
    BY <1>5, <2>1, ElementOfSeq
  <2>3. [top EXCEPT !.child_ns = @ + elapsed] \in A
    <3>1. top.child_ns \in Nat
      BY <1>1, <2>2 DEF ActivationUpTo
    <3>2. PICK sum \in Nat : sum = top.child_ns + elapsed
      BY <3>1
    <3>3. [top EXCEPT !.child_ns = sum] \in A
      BY <1>1, <2>2, <3>2, Zenon DEF ActivationUpTo
    <3> QED BY <3>2, <3>3
  <2>4. PICK charged \in A : charged = [top EXCEPT !.child_ns = @ + elapsed]
    BY <2>3
  <2>5. l \in 1..Len(rest)
    BY <2>1
  <2>6. /\ [rest EXCEPT ![l] = charged] \in Seq(A)
        /\ Len([rest EXCEPT ![l] = charged]) = Len(rest)
        /\ \A i \in 1..Len(rest) :
             [rest EXCEPT ![l] = charged][i] = IF i = l THEN charged ELSE rest[i]
    BY <1>5, <2>4, <2>5, ExceptSeq
  <2>7. SameLevel(top, charged)
    BY <1>1, <2>4 DEF SameLevel, ActivationUpTo
  <2>8. \A i \in 1..Len(rest) : SameLevel(s[i], [rest EXCEPT ![l] = charged][i])
    <3> SUFFICES ASSUME NEW i \in 1..Len(rest)
                 PROVE  SameLevel(s[i], [rest EXCEPT ![l] = charged][i])
      OBVIOUS
    <3>1. CASE i = l
      BY <1>5, <2>2, <2>6, <2>7, <3>1
    <3>2. CASE i # l
      BY <1>5, <2>6, <3>2 DEF SameLevel
    <3> QED BY <3>1, <3>2
  <2>9. Popped(s, elapsed) = [rest EXCEPT ![l] = charged]
    BY <1>4, <1>7, <2>1, <2>2, <2>4 DEF Popped, ChargeCaller
  <2> QED BY <1>1, <1>5, <2>6, <2>8, <2>9
<1> QED BY <1>6, <1>7

LEMMA InnermostIsActivation ==
  ASSUME NEW n \in Nat, NEW now \in Nat, NEW s \in Seq(ActivationUpTo(n, now)), s # << >>
  PROVE  Last(s) \in ActivationUpTo(n, now)
<1>1. Len(s) \in 1..Len(s)
  BY EmptySeq
<1> QED BY <1>1, ElementOfSeq DEF Last

-----------------------------------------------------------------------------
(* A stack and the depth entry that summarises it for one function.        *)

LEMMA LevelsFinite ==
  ASSUME NEW S, NEW s \in Seq(S), NEW f
  PROVE  /\ Levels(s, f) \subseteq 1..Len(s) /\ Len(s) \in Nat
         /\ IsFiniteSet(Levels(s, f)) /\ Cardinality(Levels(s, f)) \in Nat
         /\ \A i : IsFiniteSet({j \in Levels(s, f) : j <= i})
<1>1. DOMAIN s = 1..Len(s) /\ Len(s) \in Nat
  BY LenProperties
<1>2. IsFiniteSet(1..Len(s))
  BY <1>1, FS_Interval
<1>3. Levels(s, f) \subseteq 1..Len(s)
  BY <1>1 DEF Levels
<1>4. IsFiniteSet(Levels(s, f))
  BY <1>2, <1>3, FS_Subset
<1>5. \A i : IsFiniteSet({j \in Levels(s, f) : j <= i})
  BY <1>4, FS_Subset
<1> QED BY <1>1, <1>3, <1>4, <1>5, FS_CardinalityType

\* r is s without its last element, as far as levels go: what s tells of a
\* function below its last level, r tells too.
LEMMA LowerLevels ==
  ASSUME NEW S, NEW s \in Seq(S), NEW r \in Seq(S), Len(s) = Len(r) + 1,
         \A i \in 1..Len(r) : SameLevel(s[i], r[i]), NEW f
  PROVE  /\ Levels(r, f) = Levels(s, f) \ {Len(s)}
         /\ \A i \in Levels(r, f) :
              {j \in Levels(r, f) : j <= i} = {j \in Levels(s, f) : j <= i}
<1>1. /\ DOMAIN s = 1..Len(s) /\ DOMAIN r = 1..Len(r)
      /\ Len(r) \in Nat /\ Len(s) \in Nat
  BY LenProperties
<1>2. 1..Len(r) = (1..Len(s)) \ {Len(s)}
  BY <1>1
<1>3. \A i \in 1..Len(r) : s[i].func = r[i].func
  BY DEF SameLevel
<1>4. Levels(r, f) = Levels(s, f) \ {Len(s)}
  BY <1>1, <1>2, <1>3, Zenon DEF Levels
<1>5. ASSUME NEW i \in Levels(r, f)
      PROVE  {j \in Levels(r, f) : j <= i} = {j \in Levels(s, f) : j <= i}
  <2>1. i \in Nat /\ i < Len(s)
    BY <1>1, LevelsFinite
  <2>2. ~(Len(s) <= i)
    BY <1>1, <2>1
  <2> QED BY <1>4, <2>2
<1> QED BY <1>4, <1>5

\* open(): one more level, outermost and counted as the entry before it says.
LEMMA PushTells ==
  ASSUME NEW S, NEW r \in Seq(S), NEW a \in S, NEW f, NEW d, NEW e,
         DepthTells(r, f, d),
         a.func # f => e = d,
         a.func = f => /\ a.outermost <=> d.count = 0
                       /\ a.counts_here <=> d.count <= 1
                       /\ e.count = d.count + 1
                       /\ e.path = IF d.count = 0 THEN a.path ELSE d.path
  PROVE  DepthTells(Append(r, a), f, e)
<1>1. PICK s \in Seq(S) : s = Append(r, a)
  BY AppendProperties
<1>2. /\ Len(r) \in Nat /\ Len(s) = Len(r) + 1 /\ s[Len(s)] = a
      /\ \A i \in 1..Len(r) : s[i] = r[i]
  BY <1>1, AppendProperties, LenProperties
<1>3. /\ Levels(r, f) = Levels(s, f) \ {Len(s)}
      /\ \A i \in Levels(r, f) :
           {j \in Levels(r, f) : j <= i} = {j \in Levels(s, f) : j <= i}
  BY <1>2, LowerLevels DEF SameLevel
<1>4. /\ Levels(r, f) \subseteq 1..Len(r) /\ IsFiniteSet(Levels(r, f))
      /\ Levels(s, f) \subseteq 1..Len(s)
      /\ d.count = Cardinality(Levels(r, f)) /\ d.count \in Nat
  BY LevelsFinite DEF DepthTells
<1>5. DOMAIN s = 1..Len(s) /\ Len(s) \in DOMAIN s
  BY <1>2, LenProperties
<1>6. CASE a.func # f
  <2>1. Levels(s, f) = Levels(r, f)
    BY <1>2, <1>3, <1>6 DEF Levels
  <2>2. \A i \in Levels(r, f) : s[i] = r[i]
    BY <1>2, <1>4
  <2>3. e = d /\ e.count = Cardinality(Levels(s, f))
    BY <1>4, <1>6, <2>1
  <2>4. ASSUME NEW i \in Levels(s, f)
        PROVE  /\ s[i].outermost <=> \A j \in Levels(s, f) : i <= j
               /\ s[i].outermost => s[i].path = e.path
               /\ s[i].counts_here <=> Cardinality({j \in Levels(s, f) : j <= i}) <= 2
    <3>1. i \in Levels(r, f) /\ s[i] = r[i]
      BY <2>1, <2>2
    <3>2. /\ r[i].outermost <=> \A j \in Levels(r, f) : i <= j
          /\ r[i].outermost => r[i].path = d.path
          /\ r[i].counts_here <=> Cardinality({j \in Levels(r, f) : j <= i}) <= 2
      BY <3>1 DEF DepthTells
    <3> QED BY <2>1, <2>3, <3>1, <3>2, Zenon
  <2> QED BY <1>1, <2>3, <2>4, Zenon DEF DepthTells
<1>7. CASE a.func = f
  <2>1. Levels(s, f) = Levels(r, f) \cup {Len(s)} /\ Len(s) \notin Levels(r, f)
    <3>1. Len(s) \in Levels(s, f)
      BY <1>2, <1>5, <1>7, Zenon DEF Levels
    <3> QED BY <1>3, <3>1
  <2>2. e.count = Cardinality(Levels(s, f)) /\ Cardinality(Levels(s, f)) = d.count + 1
    <3>1. Cardinality(Levels(s, f)) = Cardinality(Levels(r, f)) + 1
      <4>1. Cardinality(Levels(r, f) \cup {Len(s)}) = Cardinality(Levels(r, f)) + 1
        BY <1>4, <2>1, FS_AddElement, Zenon
      <4> QED BY <2>1, <4>1, Zenon
    <3>2. e.count = d.count + 1
      BY <1>7
    <3> QED BY <1>4, <3>1, <3>2
  <2>3. ASSUME NEW i \in Levels(r, f)
        PROVE  /\ s[i].outermost <=> \A j \in Levels(s, f) : i <= j
               /\ s[i].outermost => s[i].path = e.path
               /\ s[i].counts_here <=> Cardinality({j \in Levels(s, f) : j <= i}) <= 2
    <3>1. s[i] = r[i] /\ i \in Nat /\ i <= Len(s)
      BY <1>2, <1>4
    <3>2. d.count # 0
      BY <1>4, FS_EmptySet
    <3>3. e.path = d.path
      BY <1>7, <3>2
    <3>4. (\A j \in Levels(s, f) : i <= j) <=> \A j \in Levels(r, f) : i <= j
      BY <2>1, <3>1
    <3>5. /\ r[i].outermost <=> \A j \in Levels(r, f) : i <= j
          /\ r[i].outermost => r[i].path = d.path
          /\ r[i].counts_here <=> Cardinality({j \in Levels(r, f) : j <= i}) <= 2
      BY DEF DepthTells
    <3> QED BY <1>3, <3>1, <3>3, <3>4, <3>5, Zenon
  <2>4. /\ a.outermost <=> \A j \in Levels(s, f) : Len(s) <= j
        /\ a.outermost => a.path = e.path
        /\ a.counts_here <=> Cardinality({j \in Levels(s, f) : j <= Len(s)}) <= 2
    <3>1. (\A j \in Levels(s, f) : Len(s) <= j) <=> Levels(r, f) = {}
      BY <1>2, <1>4, <2>1
    <3>2. Levels(r, f) = {} <=> d.count = 0
      BY <1>4, FS_EmptySet
    <3>3. {j \in Levels(s, f) : j <= Len(s)} = Levels(s, f)
      BY <1>2, <1>4
    <3>4. /\ a.outermost <=> d.count = 0
          /\ a.counts_here <=> d.count <= 1
          /\ e.path = IF d.count = 0 THEN a.path ELSE d.path
      BY <1>7
    <3>5. a.outermost <=> \A j \in Levels(s, f) : Len(s) <= j
      BY <3>1, <3>2, <3>4, Zenon
    <3>6. a.outermost => a.path = e.path
      BY <3>4, Zenon
    <3>7. d.count <= 1 <=> d.count + 1 <= 2
      BY <1>4
    <3>8. a.counts_here <=> Cardinality({j \in Levels(s, f) : j <= Len(s)}) <= 2
      BY <2>2, <3>3, <3>4, <3>7, Zenon
    <3> QED BY <3>5, <3>6, <3>8, Zenon
  <2>5. ASSUME NEW i \in Levels(s, f)
        PROVE  /\ s[i].outermost <=> \A j \in Levels(s, f) : i <= j
               /\ s[i].outermost => s[i].path = e.path
               /\ s[i].counts_here <=> Cardinality({j \in Levels(s, f) : j <= i}) <= 2
    <3>1. CASE i \in Levels(r, f)
      BY <2>3, <3>1
    <3>2. CASE i = Len(s)
      <4>1. s[i] = a
        BY <1>2, <3>2
      <4> QED BY <2>4, <3>2, <4>1, Zenon
    <3> QED BY <2>1, <3>1, <3>2
  <2> QED BY <1>1, <2>2, <2>5, Zenon DEF DepthTells
<1> QED BY <1>6, <1>7

\* close(): the entry of the function whose innermost level closed goes down by one.
LEMMA PopTells ==
  ASSUME NEW S, NEW s \in Seq(S), NEW r \in Seq(S), Len(s) = Len(r) + 1,
         \A i \in 1..Len(r) : SameLevel(s[i], r[i]),
         NEW f, NEW n \in Nat, NEW d \in DepthUpTo(n), DepthTells(s, f, d), NEW e,
         e = IF Last(s).func = f THEN Shallower(d) ELSE d
  PROVE  DepthTells(r, f, e) /\ e \in DepthUpTo(n)
<1>1. /\ Levels(r, f) = Levels(s, f) \ {Len(s)}
      /\ \A i \in Levels(r, f) :
           {j \in Levels(r, f) : j <= i} = {j \in Levels(s, f) : j <= i}
  BY LowerLevels
<1>2. /\ Levels(r, f) \subseteq 1..Len(r) /\ Len(r) \in Nat /\ Len(s) \in Nat
      /\ IsFiniteSet(Levels(s, f)) /\ d.count = Cardinality(Levels(s, f))
      /\ Levels(s, f) \subseteq 1..Len(s)
  BY LevelsFinite DEF DepthTells
<1>3. DOMAIN s = 1..Len(s) /\ Len(s) \in DOMAIN s
  BY <1>2, LenProperties
<1>4. /\ d.count \in Nat /\ d.path \in 0..n /\ d.recursion_path \in 0..n
      /\ d = [count |-> d.count, path |-> d.path, recursion_path |-> d.recursion_path]
  BY DEF DepthUpTo
<1>5. ASSUME NEW i \in Levels(r, f)
      PROVE  /\ r[i].outermost <=> \A j \in Levels(r, f) : i <= j
             /\ r[i].outermost => r[i].path = d.path
             /\ r[i].counts_here <=> Cardinality({j \in Levels(r, f) : j <= i}) <= 2
  <2>1. i \in Levels(s, f) /\ i \in 1..Len(r) /\ i <= Len(s)
    BY <1>1, <1>2
  <2>2. /\ s[i].outermost = r[i].outermost /\ s[i].path = r[i].path
        /\ s[i].counts_here = r[i].counts_here
    BY <2>1 DEF SameLevel
  <2>3. (\A j \in Levels(s, f) : i <= j) <=> \A j \in Levels(r, f) : i <= j
    BY <1>1, <2>1
  <2>4. /\ s[i].outermost <=> \A j \in Levels(s, f) : i <= j
        /\ s[i].outermost => s[i].path = d.path
        /\ s[i].counts_here <=> Cardinality({j \in Levels(s, f) : j <= i}) <= 2
    BY <2>1 DEF DepthTells
  <2> QED BY <1>1, <2>2, <2>3, <2>4, Zenon
<1>6. CASE Last(s).func # f
  <2>1. Levels(r, f) = Levels(s, f)
    BY <1>1, <1>3, <1>6 DEF Levels, Last
  <2>2. e = d /\ e.count = Cardinality(Levels(r, f))
    BY <1>2, <1>6, <2>1
  <2>3. DepthTells(r, f, e)
    BY <1>5, <2>2, Zenon DEF DepthTells
  <2> QED BY <2>2, <2>3
<1>7. CASE Last(s).func = f
  <2>1. Len(s) \in Levels(s, f)
    BY <1>3, <1>7 DEF Levels, Last
  <2>2. Cardinality(Levels(r, f)) = d.count - 1
    <3>1. Cardinality(Levels(s, f) \ {Len(s)}) = Cardinality(Levels(s, f)) - 1
      BY <1>2, <2>1, FS_RemoveElement, Zenon
    <3> QED BY <1>1, <1>2, <3>1, Zenon
  <2>3. d.count # 0
    BY <1>2, <2>1, FS_EmptySet
  <2>4. CASE d.count = 1
    <3>1. e = NoDepth
      BY <1>7, <2>4 DEF Shallower
    <3>2. IsFiniteSet(Levels(r, f)) /\ Cardinality(Levels(r, f)) = 0
      BY <2>2, <2>4, LevelsFinite
    <3>3. Levels(r, f) = {}
      BY <3>2, FS_EmptySet
    <3> QED BY <3>1, <3>2, <3>3 DEF DepthTells, NoDepth, DepthUpTo
  <2>5. CASE d.count # 1
    <3>1. PICK less \in Nat : less = d.count - 1
      BY <1>4, <2>3
    <3>2. e = [count |-> less, path |-> d.path, recursion_path |-> d.recursion_path]
      BY <1>4, <1>7, <2>5, <3>1 DEF Shallower
    <3>3. e.count = Cardinality(Levels(r, f)) /\ e.path = d.path
      BY <2>2, <3>1, <3>2
    <3>4. e \in DepthUpTo(n)
      BY <1>4, <3>1, <3>2 DEF DepthUpTo
    <3> QED BY <1>5, <3>3, <3>4 DEF DepthTells
  <2> QED BY <2>4, <2>5
<1> QED BY <1>6, <1>7

-----------------------------------------------------------------------------
(* What a step leaves alone stays good while the tree grows and time passes. *)

LEMMA StackKept ==
  ASSUME RegistryInv, StackInv, CountersInv, RegistryInv', Kept, clock' \in Nat,
         clock <= clock', stack' = stack
  PROVE  StackInv'
<1>1. /\ Len(nodes) \in Nat /\ Len(nodes') \in Nat /\ Len(nodes) <= Len(nodes')
      /\ clock \in Nat
  BY NodesBound, LenProperties DEF Kept, CountersInv, RegistryInv, RegistryTypeOK
<1>2. ASSUME NEW t \in Threads
      PROVE  stack[t] \in Seq(ActivationUpTo(Len(nodes'), clock'))
  <2>1. stack[t] \in Seq(ActivationUpTo(Len(nodes), clock))
    BY DEF StackInv
  <2> QED BY <1>1, <2>1, StackWidens
<1>3. stack = [t \in Threads |-> stack[t]]
  BY DEF StackInv
<1> QED BY <1>2, <1>3 DEF StackInv

LEMMA DepthKept ==
  ASSUME RegistryInv, DepthInv, RegistryInv', Kept, depth' = depth
  PROVE  DepthInv'
<1>1. Len(nodes) \in Nat /\ Len(nodes') \in Nat /\ Len(nodes) <= Len(nodes')
  BY NodesBound, LenProperties DEF Kept, RegistryInv, RegistryTypeOK
<1>2. ASSUME NEW t \in Threads
      PROVE  depth[t] \in [Functions -> DepthUpTo(Len(nodes'))]
  BY <1>1, DepthWidens DEF DepthInv
<1>3. depth = [t \in Threads |-> depth[t]]
  BY DEF DepthInv
<1> QED BY <1>2, <1>3 DEF DepthInv

\* What a memo agreed on stays agreed on.
LEMMA AgreedIsKept ==
  ASSUME RegistryInv, RegistryInv', Kept, NEW id \in DOMAIN nodes
  PROVE  id \in DOMAIN nodes' /\ nodes'[id] = nodes[id]
<1>1. /\ DOMAIN nodes = 1..Len(nodes) /\ DOMAIN nodes' = 1..Len(nodes')
      /\ Len(nodes) \in Nat /\ Len(nodes') \in Nat
  BY LenProperties DEF RegistryInv, RegistryTypeOK
<1> QED BY <1>1 DEF Kept

LEMMA MemoKept ==
  ASSUME RegistryInv, MemoInv, RegistryInv', Kept, memo' = memo
  PROVE  MemoInv'
BY AgreedIsKept DEF MemoInv, MemoAgrees

LEMMA NothingInterned ==
  ASSUME RegistryInv, MemoInv, EnteringInv, UNCHANGED <<functions, nodes, overflowed>>,
         UNCHANGED <<memo, entering>>
  PROVE  RegistryInv' /\ Kept /\ MemoInv' /\ EnteringInv'
<1>1. Len(nodes) \in Nat
  BY NodesBound
<1>2. RegistryInv' /\ Kept
  BY <1>1 DEF RegistryInv, RegistryTypeOK, PathForest, Interned, Kept
<1>3. EnteringInv'
  BY DEF EnteringInv, Interned
<1> QED BY <1>2, <1>3, MemoKept

\* A thread is told an existing context, and what it remembers is what the tree says.
LEMMA ContextKeeps ==
  ASSUME RegistryInv, MemoInv, NEW t \in Threads, NEW parent \in 0..Len(nodes),
         NEW func \in Functions, Interned(func), NEW path \in Paths,
         Context(t, parent, func, path), UNCHANGED functions
  PROVE  RegistryInv' /\ Kept /\ MemoInv' /\ path \in 0..Len(nodes')
<1>1. Len(nodes) \in Nat /\ Len(nodes) <= MaxPaths /\ DOMAIN nodes = 1..Len(nodes)
  BY NodesBound
<1>2. <<parent, func>> \in Paths \X Functions
  BY <1>1, MaxPathsAssumption DEF Paths
<1>3. CASE memo[t][<<parent, func>>] # 0
  <2>1. path = memo[t][<<parent, func>>] /\ UNCHANGED <<nodes, overflowed, memo>>
    BY <1>3 DEF Context
  <2>2. path \in DOMAIN nodes
    BY <1>2, <1>3, <2>1 DEF MemoInv, MemoAgrees
  <2>3. RegistryInv' /\ Kept
    BY <1>1, <2>1 DEF RegistryInv, RegistryTypeOK, PathForest, Interned, Kept
  <2>4. MemoInv'
    BY <2>1, <2>3, MemoKept
  <2> QED BY <1>1, <2>1, <2>2, <2>3, <2>4
<1>4. CASE memo[t][<<parent, func>>] = 0
  <2>1. PICK id \in Paths :
          /\ InternPath(parent, func, id)
          /\ path = IF id = 0 THEN parent ELSE id
          /\ memo' = [memo EXCEPT ![t][<<parent, func>>] = id]
    BY <1>4 DEF Context
  <2>2. /\ RegistryInv' /\ Kept
        /\ id # 0 => id \in 1..Len(nodes') /\ nodes'[id] = Node(parent, func)
    <3>1. functions' \in Seq(Functions) /\ \A g : Interned(g) => Interned(g)'
      BY DEF RegistryInv, RegistryTypeOK, Interned
    <3>2. Interned(func)'
      BY DEF Interned
    <3> QED BY <2>1, <3>1, <3>2, InternPathKeeps
  <2>3. DOMAIN nodes' = 1..Len(nodes') /\ Len(nodes') \in Nat /\ Len(nodes) <= Len(nodes')
    BY <2>2, LenProperties DEF RegistryInv, RegistryTypeOK, Kept
  <2>4. path \in 0..Len(nodes')
    BY <1>1, <2>1, <2>2, <2>3
  <2>5. memo' \in [Threads -> [Paths \X Functions -> Paths]]
    BY <2>1 DEF MemoInv
  <2>6. ASSUME NEW u \in Threads, NEW pf \in Paths \X Functions, memo'[u][pf] # 0
        PROVE  memo'[u][pf] \in DOMAIN nodes' /\ nodes'[memo'[u][pf]] = Node(pf[1], pf[2])
    <3>1. CASE u = t /\ pf = <<parent, func>>
      <4>1. memo'[u][pf] = id
        BY <1>2, <2>1, <3>1 DEF MemoInv
      <4> QED BY <2>2, <2>3, <2>6, <3>1, <4>1
    <3>2. CASE ~(u = t /\ pf = <<parent, func>>)
      <4>1. memo'[u][pf] = memo[u][pf]
        BY <2>1, <3>2 DEF MemoInv
      <4>2. memo[u][pf] \in DOMAIN nodes /\ nodes[memo[u][pf]] = Node(pf[1], pf[2])
        BY <2>6, <4>1 DEF MemoInv, MemoAgrees
      <4> QED BY <2>2, <4>1, <4>2, AgreedIsKept
    <3> QED BY <3>1, <3>2
  <2>7. MemoInv'
    BY <2>5, <2>6 DEF MemoInv, MemoAgrees
  <2> QED BY <2>2, <2>4, <2>7
<1> QED BY <1>3, <1>4

\* An activation pushed in a context that exists, now.
LEMMA PushKeeps ==
  ASSUME RegistryInv, StackInv, CountersInv, RegistryInv', Kept, UNCHANGED clock,
         NEW t \in Threads, NEW func \in Functions, NEW path \in 0..Len(nodes'),
         NEW outermost \in BOOLEAN, NEW counts_here \in BOOLEAN,
         Push(t, func, path, outermost, counts_here)
  PROVE  StackInv'
<1>1. /\ Len(nodes) \in Nat /\ Len(nodes') \in Nat /\ Len(nodes) <= Len(nodes')
      /\ clock \in Nat /\ clock' = clock
  BY LenProperties DEF Kept, CountersInv, RegistryInv, RegistryTypeOK
<1>2. PICK A : A = ActivationUpTo(Len(nodes'), clock)
  OBVIOUS
<1>3. ASSUME NEW u \in Threads
      PROVE  stack[u] \in Seq(A)
  <2>1. stack[u] \in Seq(ActivationUpTo(Len(nodes), clock))
    BY DEF StackInv
  <2> QED BY <1>1, <1>2, <2>1, StackWidens
<1>4. PICK a : a = [func |-> func, path |-> path, start |-> clock, child_ns |-> 0,
                    outermost |-> outermost, counts_here |-> counts_here]
  OBVIOUS
<1>5. a \in A
  BY <1>1, <1>2, <1>4 DEF ActivationUpTo
<1>6. Append(stack[t], a) \in Seq(A)
  BY <1>3, <1>5, AppendProperties
<1>7. stack' = [stack EXCEPT ![t] = Append(stack[t], a)]
  BY <1>4 DEF Push, StackInv
<1>8. stack' \in [Threads -> Seq(A)]
  BY <1>3, <1>6, <1>7 DEF StackInv
<1> QED BY <1>1, <1>2, <1>8 DEF StackInv

LEMMA CurrentPathExists ==
  ASSUME RegistryInv, StackInv, CountersInv, NEW t \in Threads
  PROVE  CurrentPath(t) \in 0..Len(nodes)
<1>1. Len(nodes) \in Nat /\ clock \in Nat
  BY NodesBound DEF CountersInv
<1>2. stack[t] \in Seq(ActivationUpTo(Len(nodes), clock))
  BY DEF StackInv
<1>3. CASE stack[t] = << >>
  BY <1>1, <1>3 DEF CurrentPath
<1>4. CASE stack[t] # << >>
  <2>1. Last(stack[t]) \in ActivationUpTo(Len(nodes), clock)
    BY <1>1, <1>2, <1>4, InnermostIsActivation
  <2> QED BY <1>4, <2>1 DEF CurrentPath, ActivationUpTo
<1> QED BY <1>3, <1>4

\* A depth entry replaced by one in contexts that exist.
LEMMA DepthSet ==
  ASSUME RegistryInv, DepthInv, RegistryInv', Kept, NEW t \in Threads,
         NEW func \in Functions, NEW d \in DepthUpTo(Len(nodes')),
         depth' = [depth EXCEPT ![t][func] = d]
  PROVE  DepthInv'
<1>1. Len(nodes) \in Nat /\ Len(nodes') \in Nat /\ Len(nodes) <= Len(nodes')
  BY LenProperties DEF Kept, RegistryInv, RegistryTypeOK
<1>2. PICK D : D = DepthUpTo(Len(nodes'))
  OBVIOUS
<1>3. ASSUME NEW u \in Threads
      PROVE  depth[u] \in [Functions -> D]
  BY <1>1, <1>2, DepthWidens DEF DepthInv
<1>4. [depth[t] EXCEPT ![func] = d] \in [Functions -> D]
  BY <1>2, <1>3
<1>5. depth' \in [Threads -> [Functions -> D]]
  BY <1>3, <1>4 DEF DepthInv
<1> QED BY <1>2, <1>5 DEF DepthInv

\* The depth map still tells the stack once open() is done with both.
LEMMA OpenTells ==
  ASSUME StackInv, DepthInv, DepthMatchesStack,
         NEW t \in Threads, NEW func \in Functions, NEW path,
         NEW outermost \in BOOLEAN, NEW counts_here \in BOOLEAN, NEW e,
         Push(t, func, path, outermost, counts_here),
         depth' = [depth EXCEPT ![t][func] = e],
         outermost <=> depth[t][func].count = 0,
         counts_here <=> depth[t][func].count <= 1,
         e.count = depth[t][func].count + 1,
         e.path = IF depth[t][func].count = 0 THEN path ELSE depth[t][func].path
  PROVE  DepthMatchesStack'
<1>1. PICK a : a = [func |-> func, path |-> path, start |-> clock, child_ns |-> 0,
                    outermost |-> outermost, counts_here |-> counts_here]
  OBVIOUS
<1>2. /\ a.func = func /\ a.path = path /\ a.outermost = outermost
      /\ a.counts_here = counts_here
  BY <1>1
<1>3. PICK S : S = ActivationUpTo(Len(nodes), clock) \cup {a}
  OBVIOUS
<1>4. stack[t] \in Seq(S) /\ a \in S
  BY <1>3, SeqMonotonic DEF StackInv
<1>5. stack' = [stack EXCEPT ![t] = Append(stack[t], a)]
  BY <1>1 DEF Push, StackInv
<1>6. ASSUME NEW u \in Threads, NEW f \in Functions
      PROVE  DepthTells(stack'[u], f, depth'[u][f])
  <2>1. DepthTells(stack[u], f, depth[u][f])
    BY DEF DepthMatchesStack
  <2>2. CASE u # t
    BY <1>5, <2>1, <2>2 DEF StackInv, DepthInv
  <2>3. CASE u = t
    <3>1. stack'[u] = Append(stack[t], a)
      BY <1>5, <2>3 DEF StackInv
    <3>2. depth'[u][f] = IF f = func THEN e ELSE depth[t][f]
      BY <2>3 DEF DepthInv
    <3>3. DepthTells(Append(stack[t], a), f, depth'[u][f])
      BY <1>2, <1>4, <2>1, <2>3, <3>2, PushTells
    <3> QED BY <3>1, <3>3
  <2> QED BY <2>2, <2>3
<1> QED BY <1>6 DEF DepthMatchesStack

-----------------------------------------------------------------------------
(* The invariant, one lemma per action that disturbs several of its parts. *)

LEMMA InvInit == Init => Inv
<1> SUFFICES ASSUME Init PROVE Inv
  OBVIOUS
<1>1. RegistryInv
  BY RegistryInvInit DEF Init
<1>2. Len(nodes) = 0 /\ clock = 0
  BY DEF Init, RegistryInit
<1>3. CountersInv /\ PhaseInv
  BY DEF Init, CountersInv, PhaseInv
<1>4. EnteringInv
  BY DEF Init, EnteringInv
<1>5. StackInv
  BY EmptySeq DEF Init, StackInv
<1>6. DepthInv
  BY <1>2 DEF Init, DepthInv, DepthUpTo, NoDepth
<1>7. MemoInv
  <2>1. memo = [t \in Threads |-> [pf \in Paths \X Functions |-> 0]] /\ 0 \in Paths
    BY MaxPathsAssumption DEF Init, Paths
  <2> QED BY <2>1 DEF MemoInv, MemoAgrees
<1>8. SlotsInv
  BY EmptySeq DEF Init, SlotsInv, DrainType
<1>9. AccumInv
  BY ZeroIsAccum DEF Init, AccumInv
<1>10. DepthMatchesStack
  <2>1. ASSUME NEW func \in Functions
        PROVE  DepthTells(<< >>, func, NoDepth)
    <3>1. DOMAIN << >> = {}
      OBVIOUS
    <3>2. Levels(<< >>, func) = {}
      BY <3>1 DEF Levels
    <3> QED BY <3>2, FS_EmptySet DEF DepthTells, NoDepth
  <2> QED BY <2>1 DEF Init, DepthMatchesStack
<1> QED BY <1>1, <1>3, <1>4, <1>5, <1>6, <1>7, <1>8, <1>9, <1>10 DEF Inv

LEMMA EnterKeeps ==
  ASSUME Inv, NEW t \in Threads, NEW func \in Functions, Enter(t, func)
  PROVE  Inv'
<1>1. InternFunction(func) /\ UNCHANGED <<nodes, overflowed>>
  BY DEF Enter
<1>2. /\ RegistryInv' /\ Kept /\ Interned(func)'
      /\ \A g \in Functions : Interned(g) => Interned(g)'
  BY <1>1, InternFunctionKeeps DEF Inv
<1>3. EnteringInv'
  <2>1. entering' = [entering EXCEPT ![t] = func]
    BY DEF Enter
  <2>2. entering' \in [Threads -> Functions \cup {NoFunction}]
    BY <2>1 DEF Inv, EnteringInv
  <2>3. ASSUME NEW u \in Threads, entering'[u] # NoFunction
        PROVE  entering'[u] \in Range(functions')
    <3>1. CASE u = t
      BY <1>2, <2>1, <3>1 DEF Inv, EnteringInv, Interned
    <3>2. CASE u # t
      <4>1. entering'[u] = entering[u] /\ entering[u] \in Functions
        BY <2>1, <2>3, <3>2 DEF Inv, EnteringInv
      <4>2. Interned(entering[u])
        BY <2>3, <4>1 DEF Inv, EnteringInv
      <4>3. Interned(entering[u])'
        <5>1. PICK g \in Functions : g = entering[u]
          BY <4>1
        <5>2. g \in Range(functions')
          BY <1>2, <4>2, <5>1 DEF Interned
        <5> QED BY <4>1, <5>1, <5>2 DEF Interned
      <4> QED BY <4>1, <4>3 DEF Interned
    <3> QED BY <3>1, <3>2
  <2> QED BY <2>2, <2>3 DEF EnteringInv, Interned
<1>4. CountersInv' /\ clock' = clock
  BY DEF Enter, Inv, CountersInv
<1>5. StackInv' /\ DepthInv' /\ MemoInv' /\ DepthMatchesStack'
  <2>1. UNCHANGED <<stack, depth, memo>>
    BY DEF Enter
  <2>2. DepthMatchesStack'
    BY <2>1 DEF Inv, DepthMatchesStack
  <2> QED BY <1>2, <1>4, <2>1, <2>2, StackKept, DepthKept, MemoKept DEF Inv, CountersInv
<1>6. SlotsInv' /\ AccumInv' /\ PhaseInv'
  BY DEF Enter, Inv, SlotsInv, AccumInv, PhaseInv, drainVars
<1> QED BY <1>2, <1>3, <1>4, <1>5, <1>6 DEF Inv

\* A context handed to open() and everything open() does with it.
LEMMA OpenOutermostKeeps ==
  ASSUME Inv, NEW t \in Threads, NEW func \in Functions, Interned(func),
         OpenOutermost(t, func), UNCHANGED <<functions, clock>>
  PROVE  RegistryInv' /\ MemoInv' /\ StackInv' /\ DepthInv' /\ DepthMatchesStack'
<1>1. PICK path \in Paths :
        /\ Context(t, CurrentPath(t), func, path)
        /\ depth' = [depth EXCEPT ![t][func] =
                       [count |-> 1, path |-> path, recursion_path |-> 0]]
        /\ Push(t, func, path, TRUE, OpensContext(depth[t][func]))
  BY DEF OpenOutermost
<1>2. CurrentPath(t) \in 0..Len(nodes)
  BY CurrentPathExists DEF Inv
<1>3. RegistryInv' /\ Kept /\ MemoInv' /\ path \in 0..Len(nodes')
  BY <1>1, <1>2, ContextKeeps DEF Inv
<1>4. OpensContext(depth[t][func]) \in BOOLEAN
  BY DEF OpensContext
<1>5. StackInv'
  BY <1>1, <1>3, <1>4, PushKeeps DEF Inv
<1>6. [count |-> 1, path |-> path, recursion_path |-> 0] \in DepthUpTo(Len(nodes'))
  <2>1. Len(nodes') \in Nat
    BY <1>3, LenProperties DEF RegistryInv, RegistryTypeOK
  <2> QED BY <1>3, <2>1 DEF DepthUpTo
<1>7. DepthInv'
  BY <1>1, <1>3, <1>6, DepthSet DEF Inv
<1>8. DepthMatchesStack'
  <2>1. depth[t][func].count = 0
    BY DEF OpenOutermost
  <2>2. PICK counts_here \in BOOLEAN : counts_here = OpensContext(depth[t][func])
    BY <1>4
  <2>3. counts_here <=> depth[t][func].count <= 1
    BY <2>2 DEF OpensContext
  <2>4. Push(t, func, path, TRUE, counts_here)
    BY <1>1, <2>2
  <2>5. PICK e : e = [count |-> 1, path |-> path, recursion_path |-> 0]
    OBVIOUS
  <2>6. depth' = [depth EXCEPT ![t][func] = e] /\ e.count = 1 /\ e.path = path
    BY <1>1, <2>5
  <2>7. /\ e.count = depth[t][func].count + 1
        /\ e.path = IF depth[t][func].count = 0 THEN path ELSE depth[t][func].path
    BY <2>1, <2>6
  <2>8. PICK outermost \in BOOLEAN : outermost = TRUE
    OBVIOUS
  <2>9. outermost <=> depth[t][func].count = 0
    BY <2>1, <2>8
  <2>10. Push(t, func, path, outermost, counts_here)
    BY <2>4, <2>8
  <2> QED BY <2>3, <2>6, <2>7, <2>9, <2>10, OpenTells DEF Inv
<1> QED BY <1>3, <1>5, <1>7, <1>8

LEMMA OpenRecursiveKeeps ==
  ASSUME Inv, NEW t \in Threads, NEW func \in Functions, Interned(func),
         OpenRecursive(t, func), UNCHANGED <<functions, clock>>
  PROVE  RegistryInv' /\ MemoInv' /\ StackInv' /\ DepthInv' /\ DepthMatchesStack'
<1>0. PICK held \in DepthUpTo(Len(nodes)) : held = depth[t][func]
  BY DEF Inv, DepthInv
<1>1. PICK path \in Paths :
        /\ RecursionContext(t, func, held, path)
        /\ depth' = [depth EXCEPT ![t][func] =
                       [held EXCEPT !.count = @ + 1, !.recursion_path = path]]
        /\ Push(t, func, path, FALSE, OpensContext(held))
  BY <1>0 DEF OpenRecursive
<1>2. /\ Len(nodes) \in Nat /\ held.path \in 0..Len(nodes) /\ held.count \in Nat
      /\ held.recursion_path \in 0..Len(nodes)
  BY NodesBound DEF Inv, DepthUpTo
<1>3. RegistryInv' /\ Kept /\ MemoInv' /\ path \in 0..Len(nodes')
  <2>1. CASE held.recursion_path = 0
    <3>1. Context(t, held.path, func, path)
      BY <1>1, <2>1 DEF RecursionContext
    <3> QED BY <1>2, <3>1, ContextKeeps DEF Inv
  <2>2. CASE held.recursion_path # 0
    <3>1. path = held.recursion_path /\ UNCHANGED <<nodes, overflowed, memo>>
      BY <1>1, <2>2 DEF RecursionContext
    <3>2. RegistryInv' /\ Kept
      BY <1>2, <3>1 DEF Inv, RegistryInv, RegistryTypeOK, PathForest, Interned, Kept
    <3> QED BY <1>2, <3>1, <3>2, MemoKept DEF Inv
  <2> QED BY <2>1, <2>2
<1>4. OpensContext(held) \in BOOLEAN
  BY DEF OpensContext
<1>5. StackInv'
  BY <1>1, <1>3, <1>4, PushKeeps DEF Inv
<1>6. [held EXCEPT !.count = @ + 1, !.recursion_path = path] \in DepthUpTo(Len(nodes'))
  <2>1. Len(nodes') \in Nat /\ Len(nodes) <= Len(nodes')
    BY <1>3, LenProperties DEF RegistryInv, RegistryTypeOK, Kept
  <2>2. held.path \in 0..Len(nodes')
    BY <1>2, <2>1
  <2>3. PICK deeper \in Nat : deeper = held.count + 1
    BY <1>2
  <2>4. held \in [count: Nat, path: 0..Len(nodes'), recursion_path: 0..Len(nodes')]
    <3>1. held = [count |-> held.count, path |-> held.path,
                  recursion_path |-> held.recursion_path]
      BY DEF DepthUpTo
    <3>2. held.recursion_path \in 0..Len(nodes')
      BY <1>2, <2>1
    <3> QED BY <1>2, <2>2, <3>1, <3>2
  <2>5. [held EXCEPT !.count = deeper, !.recursion_path = path]
          \in [count: Nat, path: 0..Len(nodes'), recursion_path: 0..Len(nodes')]
    BY <1>3, <2>3, <2>4
  <2> QED BY <2>3, <2>5 DEF DepthUpTo
<1>7. DepthInv'
  BY <1>1, <1>3, <1>6, DepthSet DEF Inv
<1>8. DepthMatchesStack'
  <2>1. depth[t][func].count # 0 /\ depth[t][func].count \in Nat
    BY <1>0, <1>2 DEF OpenRecursive
  <2>2. PICK counts_here \in BOOLEAN : counts_here = OpensContext(held)
    BY <1>4
  <2>3. counts_here <=> depth[t][func].count <= 1
    BY <1>0, <2>2 DEF OpensContext
  <2>4. Push(t, func, path, FALSE, counts_here)
    BY <1>1, <2>2
  <2>5. PICK e : e = [held EXCEPT !.count = @ + 1, !.recursion_path = path]
    OBVIOUS
  <2>6. e.count = depth[t][func].count + 1 /\ e.path = depth[t][func].path
    BY <1>0, <2>5 DEF DepthUpTo
  <2>7. depth' = [depth EXCEPT ![t][func] = e]
    BY <1>1, <2>5
  <2> QED BY <2>1, <2>3, <2>4, <2>6, <2>7, OpenTells DEF Inv
<1> QED BY <1>3, <1>5, <1>7, <1>8

LEMMA OpenKeeps ==
  ASSUME Inv, NEW t \in Threads, NEW func \in Functions, Open(t, func)
  PROVE  Inv'
<1>1. /\ entering[t] = func /\ func # NoFunction /\ Interned(func)
      /\ UNCHANGED <<functions, clock>>
  BY NoFunctionAssumption DEF Open, Inv, EnteringInv
<1>2. RegistryInv' /\ MemoInv' /\ StackInv' /\ DepthInv' /\ DepthMatchesStack'
  BY <1>1, OpenOutermostKeeps, OpenRecursiveKeeps DEF Open
<1>3. EnteringInv'
  <2>1. entering' = [entering EXCEPT ![t] = NoFunction] /\ functions' = functions
    BY DEF Open
  <2> QED BY <2>1 DEF Inv, EnteringInv, Interned
<1>4. CountersInv' /\ PhaseInv' /\ SlotsInv' /\ AccumInv'
  BY DEF Open, Inv, CountersInv, PhaseInv, SlotsInv, AccumInv, drainVars
<1> QED BY <1>2, <1>3, <1>4 DEF Inv

LEMMA CloseKeeps ==
  ASSUME Inv, NEW t \in Threads, Close(t)
  PROVE  Inv'
<1>1. /\ Len(nodes) \in Nat /\ Len(nodes) <= MaxPaths /\ clock \in Nat
      /\ UNCHANGED <<registryVars, clock, phase, entering, memo, slots, drainVars, entries>>
  BY NodesBound DEF Inv, CountersInv, Close
<1>2. PICK A : A = ActivationUpTo(Len(nodes), clock)
  OBVIOUS
<1>3. stack[t] \in Seq(A) /\ stack[t] # << >>
  BY <1>2 DEF Inv, StackInv, Close
<1>4. PICK a \in A : a = Last(stack[t])
  BY <1>1, <1>2, <1>3, InnermostIsActivation
<1>5. PICK elapsed \in Nat : elapsed = clock - a.start
  BY <1>1, <1>2, <1>4 DEF ActivationUpTo
<1>6. /\ stack' = [stack EXCEPT ![t] = Popped(@, elapsed)]
      /\ depth' = [depth EXCEPT ![t][a.func] = Shallower(@)]
      /\ accum' = [accum EXCEPT ![t] = Recorded(@, a, elapsed)]
      /\ rootNs' = IF Len(stack[t]) = 1 THEN rootNs + elapsed ELSE rootNs
  BY <1>4, <1>5 DEF Close
<1>7. RegistryInv' /\ Kept /\ MemoInv' /\ EnteringInv'
  BY <1>1, NothingInterned DEF Inv, registryVars
<1>8. nodes' = nodes /\ clock' = clock
  BY <1>1 DEF registryVars
<1>9. /\ Popped(stack[t], elapsed) \in Seq(A)
      /\ Len(stack[t]) = Len(Popped(stack[t], elapsed)) + 1
      /\ \A i \in 1..Len(Popped(stack[t], elapsed)) :
           SameLevel(stack[t][i], Popped(stack[t], elapsed)[i])
  BY <1>1, <1>2, <1>3, PoppedIsStack
<1>10. stack \in [Threads -> Seq(A)] /\ stack' \in [Threads -> Seq(A)]
  BY <1>2, <1>6, <1>9 DEF Inv, StackInv
<1>11. StackInv'
  BY <1>2, <1>8, <1>10 DEF StackInv
<1>12. a.func \in Functions /\ depth \in [Threads -> [Functions -> DepthUpTo(Len(nodes))]]
  BY <1>2 DEF Inv, DepthInv, ActivationUpTo
<1>13. ASSUME NEW f \in Functions
       PROVE  /\ DepthTells(stack'[t], f, depth'[t][f])
              /\ depth'[t][f] \in DepthUpTo(Len(nodes))
  <2>1. stack'[t] = Popped(stack[t], elapsed)
    BY <1>6, <1>10
  <2>2. depth'[t][f] = IF Last(stack[t]).func = f THEN Shallower(depth[t][f]) ELSE depth[t][f]
    BY <1>4, <1>6, <1>12
  <2>3. DepthTells(stack[t], f, depth[t][f]) /\ depth[t][f] \in DepthUpTo(Len(nodes))
    BY <1>12 DEF Inv, DepthMatchesStack
  <2> QED BY <1>1, <1>3, <1>9, <2>1, <2>2, <2>3, PopTells
<1>14. ASSUME NEW u \in Threads, u # t, NEW f \in Functions
       PROVE  /\ DepthTells(stack'[u], f, depth'[u][f])
              /\ depth'[u][f] \in DepthUpTo(Len(nodes))
  <2>1. stack'[u] = stack[u] /\ depth'[u][f] = depth[u][f]
    BY <1>6, <1>10, <1>12, <1>14
  <2> QED BY <1>12, <2>1 DEF Inv, DepthMatchesStack
<1>15. DepthMatchesStack'
  BY <1>13, <1>14 DEF DepthMatchesStack
<1>16. DepthInv'
  <2>1. PICK D : D = DepthUpTo(Len(nodes))
    OBVIOUS
  <2>2. depth' = [depth EXCEPT ![t] = [depth[t] EXCEPT ![a.func] = Shallower(@)]]
    BY <1>6, <1>12
  <2>3. depth'[t] = [depth[t] EXCEPT ![a.func] = Shallower(@)]
    BY <1>12, <2>2
  <2>4. depth'[t] \in [Functions -> D]
    BY <1>12, <1>13, <2>1, <2>3
  <2>5. depth' \in [Threads -> [Functions -> D]]
    BY <1>12, <2>1, <2>2, <2>3, <2>4
  <2> QED BY <1>8, <2>1, <2>5 DEF DepthInv
<1>17. AccumInv'
  <2>1. Recorded(accum[t], a, elapsed) \in AccumType
    BY <1>1, <1>2, RecordedIsAccum DEF Inv, AccumInv
  <2>2. accum' \in [Threads -> AccumType]
    BY <1>6, <2>1 DEF Inv, AccumInv
  <2> QED BY <1>1, <2>2 DEF Inv, AccumInv, drainVars
<1>18. CountersInv' /\ PhaseInv' /\ SlotsInv'
  BY <1>1, <1>6 DEF Inv, CountersInv, PhaseInv, SlotsInv, drainVars
<1> QED BY <1>7, <1>11, <1>15, <1>16, <1>17, <1>18 DEF Inv

\* The steps that touch neither a stack nor the tree.
LEMMA IdleKeeps ==
  ASSUME Inv, UNCHANGED <<registryVars, entering, stack, depth, memo>>,
         clock' \in Nat, clock <= clock'
  PROVE  RegistryInv' /\ EnteringInv' /\ StackInv' /\ DepthInv' /\ MemoInv'
         /\ DepthMatchesStack'
<1>1. RegistryInv' /\ Kept /\ MemoInv' /\ EnteringInv'
  BY NothingInterned DEF Inv, registryVars
<1>2. DepthMatchesStack'
  BY DEF Inv, DepthMatchesStack
<1> QED BY <1>1, <1>2, StackKept, DepthKept DEF Inv

LEMMA RegisterThreadKeeps ==
  ASSUME Inv, NEW t \in Threads, RegisterThread(t)
  PROVE  Inv'
<1>1. RegistryInv' /\ EnteringInv' /\ StackInv' /\ DepthInv' /\ MemoInv'
      /\ DepthMatchesStack'
  BY IdleKeeps DEF RegisterThread, Inv, CountersInv
<1>2. SlotsInv'
  <2>1. slots' \in Seq(Threads)
    BY AppendProperties DEF RegisterThread, Inv, SlotsInv
  <2> QED BY <2>1 DEF RegisterThread, Inv, SlotsInv, drainVars
<1>3. AccumInv' /\ CountersInv' /\ PhaseInv'
  BY DEF RegisterThread, Inv, AccumInv, CountersInv, PhaseInv, drainVars
<1> QED BY <1>1, <1>2, <1>3 DEF Inv

LEMMA ExitKeeps ==
  ASSUME Inv, NEW t \in Threads, Exit(t)
  PROVE  Inv'
<1>1. RegistryInv' /\ EnteringInv' /\ StackInv' /\ DepthInv' /\ MemoInv'
      /\ DepthMatchesStack'
  BY IdleKeeps DEF Exit, Inv, CountersInv
<1>2. SlotsInv' /\ AccumInv' /\ CountersInv' /\ PhaseInv'
  BY DEF Exit, Inv, SlotsInv, AccumInv, CountersInv, PhaseInv, drainVars
<1> QED BY <1>1, <1>2 DEF Inv

LEMMA TickKeeps ==
  ASSUME Inv, Tick
  PROVE  Inv'
<1>1. RegistryInv' /\ EnteringInv' /\ StackInv' /\ DepthInv' /\ MemoInv'
      /\ DepthMatchesStack'
  BY IdleKeeps DEF Tick, Inv, CountersInv, threadVars
<1>2. SlotsInv' /\ AccumInv' /\ CountersInv' /\ PhaseInv'
  BY DEF Tick, Inv, SlotsInv, AccumInv, CountersInv, PhaseInv, drainVars, threadVars
<1> QED BY <1>1, <1>2 DEF Inv

\* drain() moves what is recorded from one place to another.
LEMMA DrainKeeps ==
  ASSUME Inv, Drain
  PROVE  Inv'
<1>1. UNCHANGED <<registryVars, clock, threadVars, rootNs, entries>>
  BY DEF Drain, DrainBegin, DrainAbsorb, DrainRetain, DrainEnd
<1>2. RegistryInv' /\ EnteringInv' /\ StackInv' /\ DepthInv' /\ MemoInv'
      /\ DepthMatchesStack'
  BY <1>1, IdleKeeps DEF Inv, CountersInv, threadVars
<1>3. CountersInv' /\ PhaseInv'
  BY <1>1 DEF Inv, CountersInv, PhaseInv, threadVars
<1>4. /\ slots \in Seq(Threads) /\ Len(slots) \in Nat
      /\ drain.at \in {"idle", "absorb", "retain"} /\ drain.cursor \in Nat \ {0}
  BY LenProperties DEF Inv, SlotsInv, DrainType
<1>5. ASSUME drain.cursor <= Len(slots)
      PROVE  slots[drain.cursor] \in Threads
  BY <1>4, <1>5, ElementOfSeq
<1>6. ASSUME DrainBegin PROVE SlotsInv' /\ AccumInv'
  BY <1>6, ZeroIsAccum DEF DrainBegin, Inv, SlotsInv, AccumInv, DrainType
<1>7. ASSUME DrainAbsorb PROVE SlotsInv' /\ AccumInv'
  <2>1. PICK t \in Threads : t = slots[drain.cursor]
    BY <1>5, <1>7 DEF DrainAbsorb
  <2>2. AccumInv'
    <3>1. merged' \in AccumType
      BY <1>7, <2>1, AbsorbIsAccum DEF DrainAbsorb, Inv, AccumInv
    <3>2. accum' \in [Threads -> AccumType]
      BY <1>7, <2>1, ZeroIsAccum DEF DrainAbsorb, Inv, AccumInv
    <3> QED BY <1>7, <3>1, <3>2 DEF DrainAbsorb, Inv, AccumInv
  <2>3. SlotsInv'
    BY <1>4, <1>7 DEF DrainAbsorb, Inv, SlotsInv, DrainType
  <2> QED BY <2>2, <2>3
<1>8. ASSUME DrainRetain PROVE SlotsInv' /\ AccumInv'
  <2>1. drain.cursor <= Len(slots)
    BY <1>8 DEF DrainRetain, Inv, SlotsInv
  <2>2. PICK t \in Threads : t = slots[drain.cursor]
    BY <1>5, <2>1
  <2>3. CASE phase[t] = "gone"
    <3>1. /\ slots' = RemoveAt(slots, drain.cursor)
          /\ drain' = [drain EXCEPT !.at = "absorb"]
          /\ lost' = Absorb(lost, accum[t])
          /\ accum' = [accum EXCEPT ![t] = Zero]
          /\ UNCHANGED <<merged, drained>>
      BY <1>8, <2>2, <2>3 DEF DrainRetain
    <3>2. slots' \in Seq(Threads)
      BY <1>4, <2>1, <3>1, RemoveAtIsSeq
    <3>3. AccumInv'
      BY <3>1, ZeroIsAccum, AbsorbIsAccum DEF Inv, AccumInv
    <3>4. drain' \in DrainType /\ drain'.at # "retain"
      BY <1>4, <3>1 DEF Inv, SlotsInv, DrainType
    <3> QED BY <3>2, <3>3, <3>4 DEF SlotsInv
  <2>4. CASE phase[t] # "gone"
    <3>1. /\ drain' = [at |-> "absorb", cursor |-> drain.cursor + 1]
          /\ UNCHANGED <<slots, lost, accum, merged, drained>>
      BY <1>8, <2>2, <2>4 DEF DrainRetain
    <3> QED BY <1>4, <3>1 DEF Inv, SlotsInv, AccumInv, DrainType
  <2> QED BY <2>3, <2>4
<1>9. ASSUME DrainEnd PROVE SlotsInv' /\ AccumInv'
  BY <1>9, ZeroIsAccum, AbsorbIsAccum DEF DrainEnd, Inv, SlotsInv, AccumInv, DrainType
<1> QED BY <1>2, <1>3, <1>6, <1>7, <1>8, <1>9 DEF Inv, Drain

LEMMA InvStep == Inv /\ [Next]_vars => Inv'
<1> SUFFICES ASSUME Inv, [Next]_vars PROVE Inv'
  OBVIOUS
<1>1. ASSUME NEW t \in Threads, Thread(t) PROVE Inv'
  BY <1>1, EnterKeeps, OpenKeeps, RegisterThreadKeeps, CloseKeeps, ExitKeeps DEF Thread
<1>2. CASE UNCHANGED vars
  <2>1. RegistryInv' /\ EnteringInv' /\ StackInv' /\ DepthInv' /\ MemoInv'
        /\ DepthMatchesStack'
    BY <1>2, IdleKeeps DEF vars, threadVars, Inv, CountersInv
  <2>2. SlotsInv' /\ AccumInv' /\ CountersInv' /\ PhaseInv'
    BY <1>2 DEF vars, threadVars, drainVars, Inv, SlotsInv, AccumInv, CountersInv, PhaseInv
  <2> QED BY <2>1, <2>2 DEF Inv
<1> QED BY <1>1, <1>2, TickKeeps, DrainKeeps DEF Next

LEMMA InvAlways == Spec => []Inv
BY InvInit, InvStep, PTL DEF Spec

-----------------------------------------------------------------------------
(* The types, the tree and the memos.                                      *)

LEMMA InvGivesTypeOK == Inv => TypeOK
<1> SUFFICES ASSUME Inv PROVE TypeOK
  OBVIOUS
<1>1. Len(nodes) \in Nat /\ Len(nodes) <= MaxPaths /\ clock \in Nat
  BY NodesBound DEF Inv, CountersInv
<1>2. 0..Len(nodes) \subseteq Paths /\ 0..clock \subseteq Nat
  BY <1>1, MaxPathsAssumption DEF Paths
<1>3. ActivationUpTo(Len(nodes), clock) \subseteq ActivationType
  BY <1>2 DEF ActivationUpTo, ActivationType
<1>4. stack \in [Threads -> Seq(ActivationType)]
  <2>1. \A t \in Threads : stack[t] \in Seq(ActivationType)
    BY <1>3, SeqMonotonic DEF Inv, StackInv
  <2> QED BY <2>1 DEF Inv, StackInv
<1>5. DepthUpTo(Len(nodes)) \subseteq DepthType
  BY <1>2 DEF DepthUpTo, DepthType
<1>6. depth \in [Threads -> [Functions -> DepthType]]
  BY <1>5 DEF Inv, DepthInv
<1>7. RegistryTypeOK /\ phase \in [Threads -> {"fresh", "live", "gone"}]
  BY DEF Inv, RegistryInv, PhaseInv
<1>8. /\ entering \in [Threads -> Functions \cup {NoFunction}]
      /\ memo \in [Threads -> [Paths \X Functions -> Paths]]
  BY DEF Inv, EnteringInv, MemoInv
<1>9. slots \in Seq(Threads) /\ drain \in DrainType
  BY DEF Inv, SlotsInv
<1>10. AccumInv /\ CountersInv
  BY DEF Inv
<1> QED BY <1>4, <1>6, <1>7, <1>8, <1>9, <1>10 DEF TypeOK, AccumInv, CountersInv

\* Every state of every probe is well typed: no context id above the ceiling, no
\* negative duration or count.
THEOREM ProbeTypesHold == Spec => []TypeOK
BY InvAlways, InvGivesTypeOK, PTL

\* Threads interning concurrently never give one context two ids, and never name
\* a parent or a function that is not there yet.
THEOREM ContextsFormAForest == Spec => []PathForest
<1>1. Inv => PathForest
  BY DEF Inv, RegistryInv
<1> QED BY <1>1, InvAlways, PTL

\* What a thread remembers instead of taking the tree's lock is what the tree says,
\* and a context the full tree refused is never remembered.
THEOREM MemosNeverGoStale == Spec => []MemoAgrees
<1>1. Inv => MemoAgrees
  BY DEF Inv, MemoInv
<1> QED BY <1>1, InvAlways, PTL

\* Whatever a program calls, the depth map and the stack tell one story, so exactly
\* one activation of a function on a thread carries its duration.
THEOREM DepthMirrorsTheStack == Spec => []DepthMatchesStack
<1>1. Inv => DepthMatchesStack
  BY DEF Inv
<1> QED BY <1>1, InvAlways, PTL
-----------------------------------------------------------------------------
(* The books: every nanosecond and call that was recorded is in one of the *)
(* threads' accumulators, or where drain() has put it.                     *)

\* A quantity of an accumulator that absorbing adds up.
Additive(m) ==
  /\ m \in [AccumType -> Nat]
  /\ m[Zero] = 0
  /\ \A a, b \in AccumType : m[Absorb(a, b)] = m[a] + m[b]

InSlots(m) == [t \in Threads |-> m[accum[t]]]
Everywhere(m) == m[drained] + m[merged] + m[lost] + SumOn(InSlots(m), Threads)

LEMMA EverywhereIsNat ==
  ASSUME AccumInv, NEW m, Additive(m)
  PROVE  /\ Everywhere(m) \in Nat /\ SumOn(InSlots(m), Threads) \in Nat
         /\ m[drained] \in Nat /\ m[merged] \in Nat /\ m[lost] \in Nat
         /\ \A t \in Threads : InSlots(m)[t] = m[accum[t]] /\ m[accum[t]] \in Nat
<1>1. \A t \in Threads : InSlots(m)[t] = m[accum[t]] /\ InSlots(m)[t] \in Nat
  BY DEF AccumInv, Additive, InSlots
<1>2. SumOn(InSlots(m), Threads) \in Nat
  BY <1>1, ThreadsFinite, SumIsNat
<1>3. m[drained] \in Nat /\ m[merged] \in Nat /\ m[lost] \in Nat
  BY DEF AccumInv, Additive
<1> QED BY <1>1, <1>2, <1>3 DEF Everywhere

\* The fold over the slots adds up what is in them.
LEMMA TotalMeasures ==
  ASSUME AccumInv
  PROVE  /\ Total \in AccumType
         /\ \A m : Additive(m) => m[Total] = Everywhere(m)
<1> DEFINE Chosen(s) == CHOOSE t \in s : TRUE
           C == Choice(Threads)
           G == [t \in Threads |-> [acc \in AccumType |-> Absorb(acc, accum[t])]]
<1>1. PICK base \in AccumType : base = Absorb(Absorb(drained, merged), lost)
  BY AbsorbIsAccum DEF AccumInv
<1>2. \A s \in SUBSET Threads : C[s] = Chosen(s) /\ (s # {} => Chosen(s) \in s)
  BY DEF Choice
<1>3. \A t \in Threads : \A acc \in AccumType :
        G[t][acc] = Absorb(acc, accum[t]) /\ G[t][acc] \in AccumType
  BY AbsorbIsAccum DEF AccumInv
<1>4. PICK h \in [SUBSET Threads -> AccumType] : Unfolds(h, Threads, base, G, C)
  <2>1. Chooses(C, Threads)
    BY <1>2 DEF Chooses
  <2> HIDE DEF C, G
  <2> QED BY <1>3, <2>1, ThreadsFinite, FoldExists
<1>5. h = [s \in SUBSET Threads |->
             IF s = {} THEN base ELSE Absorb(h[s \ {Chosen(s)}], accum[Chosen(s)])]
  <2> SUFFICES ASSUME NEW s \in SUBSET Threads
               PROVE  h[s] = IF s = {} THEN base
                             ELSE Absorb(h[s \ {Chosen(s)}], accum[Chosen(s)])
    BY <1>4
  <2>1. h[s] = IF s = {} THEN base ELSE G[C[s]][h[s \ {C[s]}]]
    BY <1>4 DEF Unfolds
  <2>2. s # {} => C[s] \in Threads /\ h[s \ {C[s]}] \in AccumType
    BY <1>2, <1>4
  <2>3. C[s] = Chosen(s)
    BY <1>2
  <2> HIDE DEF C, G
  <2> QED BY <1>3, <2>1, <2>2, <2>3
<1>6. PICK iter :
        /\ iter = [s \in SUBSET Threads |->
                     IF s = {} THEN base ELSE Absorb(iter[s \ {Chosen(s)}], accum[Chosen(s)])]
        /\ Total = iter[Threads]
  <2>1. Total = LET iter[s \in SUBSET Threads] ==
                      IF s = {} THEN base
                      ELSE LET t == Chosen(s) IN Absorb(iter[s \ {t}], accum[t])
                IN  iter[Threads]
    BY <1>1, Zenon DEF Total, FoldSet, MapThenFoldSet
  <2> QED BY <1>5, <2>1
<1>7. /\ iter[{}] = base
      /\ \A s \in SUBSET Threads :
           s # {} => iter[s] = Absorb(iter[s \ {C[s]}], accum[C[s]]) /\ C[s] \in s
  BY <1>2, <1>6
<1>8. Chooses(C, Threads)
  BY <1>2 DEF Chooses
<1>9. Total \in AccumType
  <2> DEFINE Holds == {s \in SUBSET Threads : iter[s] \in AccumType}
  <2>1. {} \in Holds
    BY <1>7
  <2>2. ASSUME NEW s \in SUBSET Threads, s # {}, s \ {C[s]} \in Holds PROVE s \in Holds
    <3>1. accum[C[s]] \in AccumType
      BY <1>7, <2>2 DEF AccumInv
    <3> QED BY <1>7, <2>2, <3>1, AbsorbIsAccum
  <2>3. Threads \in Holds
    <3> HIDE DEF Holds, C
    <3> QED BY <1>8, <2>1, <2>2, ThreadsFinite, FoldInduction
  <2> QED BY <1>6, <2>3
<1>10. ASSUME NEW m, Additive(m) PROVE m[Total] = Everywhere(m)
  <2> DEFINE w == InSlots(m)
             Holds == {s \in SUBSET Threads : /\ iter[s] \in AccumType
                                              /\ m[iter[s]] = m[base] + SumOn(w, s)}
  <2>1. m[base] \in Nat /\ m[base] = m[drained] + m[merged] + m[lost]
    <3>1. Absorb(drained, merged) \in AccumType
      BY AbsorbIsAccum DEF AccumInv
    <3>2. m[base] = m[Absorb(drained, merged)] + m[lost]
      BY <1>1, <3>1, <1>10 DEF AccumInv, Additive
    <3>3. m[Absorb(drained, merged)] = m[drained] + m[merged]
      BY <1>10 DEF AccumInv, Additive
    <3> QED BY <1>1, <1>10, <3>2, <3>3 DEF Additive
  <2>2. \A t \in Threads : w[t] = m[accum[t]] /\ w[t] \in Nat /\ accum[t] \in AccumType
    BY <1>10, EverywhereIsNat DEF AccumInv
  <2>3. {} \in Holds
    BY <1>7, <2>1, SumOfNone
  <2>4. ASSUME NEW s \in SUBSET Threads, s # {}, s \ {C[s]} \in Holds PROVE s \in Holds
    <3>1. PICK t \in s : t = C[s] /\ iter[s] = Absorb(iter[s \ {t}], accum[t])
      BY <1>7, <2>4
    <3>2. iter[s \ {t}] \in AccumType /\ m[iter[s \ {t}]] = m[base] + SumOn(w, s \ {t})
      BY <2>4, <3>1
    <3>3. accum[t] \in AccumType /\ w[t] = m[accum[t]]
      BY <2>2
    <3>4. iter[s] \in AccumType
      BY <3>1, <3>2, <3>3, AbsorbIsAccum
    <3>5. m[iter[s]] = m[iter[s \ {t}]] + m[accum[t]]
      BY <1>10, <3>1, <3>2, <3>3 DEF Additive
    <3>6. IsFiniteSet(s) /\ IsFiniteSet(s \ {t})
      BY ThreadsFinite, FS_Subset
    <3>7. \A u \in s : w[u] \in Int
      BY <2>2
    <3>8. SumOn(w, s) = w[t] + SumOn(w, s \ {t}) /\ SumOn(w, s \ {t}) \in Int
      <4> HIDE DEF w
      <4> QED BY <3>6, <3>7, SumWithout, SumIsInt
    <3>9. m[iter[s]] = m[base] + SumOn(w, s)
      BY <2>1, <2>2, <3>2, <3>3, <3>5, <3>8
    <3> QED BY <3>4, <3>9
  <2>5. Threads \in Holds
    <3> HIDE DEF Holds, C
    <3> QED BY <1>8, <2>3, <2>4, ThreadsFinite, FoldInduction
  <2>6. m[Total] = m[base] + SumOn(w, Threads)
    BY <1>6, <2>5
  <2> QED BY <2>1, <2>6 DEF Everywhere
<1> QED BY <1>9, <1>10

\* One slot emptied or added to: what is in the slots changes by as much.
LEMMA SlotChanges ==
  ASSUME AccumInv, AccumInv', NEW m, Additive(m), NEW t \in Threads, NEW acc \in AccumType,
         accum' = [accum EXCEPT ![t] = acc]
  PROVE  SumOn(InSlots(m), Threads)' = SumOn(InSlots(m), Threads) + m[acc] - m[accum[t]]
<1>1. PICK f : f = InSlots(m)
  OBVIOUS
<1>2. PICK g : g = InSlots(m)'
  OBVIOUS
<1>3. \A u \in Threads : f[u] = m[accum[u]] /\ f[u] \in Int
  BY <1>1 DEF InSlots, AccumInv, Additive
<1>4. \A u \in Threads : g[u] = m[accum'[u]] /\ g[u] \in Int
  BY <1>2 DEF InSlots, AccumInv, Additive
<1>5. \A u \in Threads \ {t} : f[u] = g[u]
  BY <1>3, <1>4 DEF AccumInv
<1>6. SumOn(g, Threads) = SumOn(f, Threads) + g[t] - f[t]
  <2>1. \A u \in Threads : f[u] \in Int /\ g[u] \in Int
    BY <1>3, <1>4
  <2> QED BY <1>5, <2>1, ThreadsFinite, SumChanges
<1>7. g[t] = m[acc] /\ f[t] = m[accum[t]]
  BY <1>3, <1>4 DEF AccumInv
<1>8. SumOn(InSlots(m), Threads)' = SumOn(g, Threads)
  BY <1>2
<1>9. SumOn(InSlots(m), Threads) = SumOn(f, Threads)
  BY <1>1
<1> QED BY <1>6, <1>7, <1>8, <1>9

\* Between two windows drain() holds nothing.
IdleIsEmpty == drain.at = "idle" => merged = Zero

\* drain() loses nothing and takes nothing twice, wherever it stands.
LEMMA DrainConserves ==
  ASSUME Inv, IdleIsEmpty, Drain, NEW m, Additive(m)
  PROVE  Everywhere(m)' = Everywhere(m) /\ IdleIsEmpty'
<1>1. Inv' /\ AccumInv /\ AccumInv'
  BY DrainKeeps DEF Inv
<1>2. /\ Everywhere(m) \in Nat /\ SumOn(InSlots(m), Threads) \in Nat
      /\ m[drained] \in Nat /\ m[merged] \in Nat /\ m[lost] \in Nat
      /\ \A t \in Threads : m[accum[t]] \in Nat
  BY <1>1, EverywhereIsNat
<1>3. m[Zero] = 0 /\ Zero \in AccumType
  BY ZeroIsAccum DEF Additive
<1>4. \A t \in Threads : accum[t] \in AccumType
  BY <1>1 DEF AccumInv
<1>5. drained \in AccumType /\ merged \in AccumType /\ lost \in AccumType
  BY <1>1 DEF AccumInv
<1>6. \A a, b \in AccumType : m[Absorb(a, b)] = m[a] + m[b]
  BY DEF Additive
<1>7. Everywhere(m)' = m[drained'] + m[merged'] + m[lost'] + SumOn(InSlots(m), Threads)'
  BY DEF Everywhere
<1>8. Everywhere(m) = m[drained] + m[merged] + m[lost] + SumOn(InSlots(m), Threads)
  BY DEF Everywhere
<1>9. ASSUME accum' = accum
      PROVE  SumOn(InSlots(m), Threads)' = SumOn(InSlots(m), Threads)
  <2>1. InSlots(m)' = InSlots(m)
    BY <1>9 DEF InSlots
  <2> QED BY <2>1
<1>10. ASSUME drain.cursor <= Len(slots) PROVE slots[drain.cursor] \in Threads
  <2>1. slots \in Seq(Threads) /\ Len(slots) \in Nat /\ drain.cursor \in Nat \ {0}
    BY LenProperties DEF Inv, SlotsInv, DrainType
  <2> QED BY <1>10, <2>1, ElementOfSeq
<1>11. ASSUME DrainBegin PROVE Everywhere(m)' = Everywhere(m) /\ IdleIsEmpty'
  <2>1. /\ merged = Zero /\ merged' = Zero
        /\ UNCHANGED <<accum, drained, lost>> /\ drain'.at = "absorb"
    BY <1>11 DEF DrainBegin, IdleIsEmpty
  <2> QED BY <1>7, <1>8, <1>9, <2>1 DEF IdleIsEmpty
<1>12. ASSUME DrainAbsorb PROVE Everywhere(m)' = Everywhere(m) /\ IdleIsEmpty'
  <2>1. PICK t \in Threads : t = slots[drain.cursor]
    BY <1>10, <1>12 DEF DrainAbsorb
  <2>2. /\ merged' = Absorb(merged, accum[t]) /\ accum' = [accum EXCEPT ![t] = Zero]
        /\ UNCHANGED <<drained, lost>> /\ drain'.at = "retain"
    BY <1>12, <2>1 DEF DrainAbsorb, Inv, SlotsInv, DrainType
  <2>3. SumOn(InSlots(m), Threads)' = SumOn(InSlots(m), Threads) + 0 - m[accum[t]]
    BY <1>1, <1>3, <2>2, SlotChanges
  <2>4. m[merged'] = m[merged] + m[accum[t]]
    BY <1>4, <1>5, <1>6, <2>2
  <2>5. Everywhere(m)' = Everywhere(m)
    BY <1>2, <1>7, <1>8, <2>2, <2>3, <2>4
  <2> QED BY <2>2, <2>5 DEF IdleIsEmpty
<1>13. ASSUME DrainRetain PROVE Everywhere(m)' = Everywhere(m) /\ IdleIsEmpty'
  <2>1. PICK t \in Threads : t = slots[drain.cursor]
    BY <1>10, <1>13 DEF DrainRetain, Inv, SlotsInv
  <2>2. UNCHANGED <<merged, drained>> /\ drain'.at = "absorb"
    BY <1>13 DEF DrainRetain, Inv, SlotsInv, DrainType
  <2>3. CASE phase[t] = "gone"
    <3>1. lost' = Absorb(lost, accum[t]) /\ accum' = [accum EXCEPT ![t] = Zero]
      BY <1>13, <2>1, <2>3 DEF DrainRetain
    <3>2. SumOn(InSlots(m), Threads)' = SumOn(InSlots(m), Threads) + 0 - m[accum[t]]
      BY <1>1, <1>3, <3>1, SlotChanges
    <3>3. m[lost'] = m[lost] + m[accum[t]]
      BY <1>4, <1>5, <1>6, <3>1
    <3>4. Everywhere(m)' = Everywhere(m)
      BY <1>2, <1>7, <1>8, <2>2, <3>2, <3>3
    <3> QED BY <2>2, <3>4 DEF IdleIsEmpty
  <2>4. CASE phase[t] # "gone"
    <3>1. UNCHANGED <<lost, accum>>
      BY <1>13, <2>1, <2>4 DEF DrainRetain
    <3> QED BY <1>7, <1>8, <1>9, <2>2, <3>1 DEF IdleIsEmpty
  <2> QED BY <2>3, <2>4
<1>14. ASSUME DrainEnd PROVE Everywhere(m)' = Everywhere(m) /\ IdleIsEmpty'
  <2>1. /\ drained' = Absorb(drained, merged) /\ merged' = Zero
        /\ UNCHANGED <<accum, lost>>
    BY <1>14 DEF DrainEnd
  <2>2. m[drained'] = m[drained] + m[merged] /\ m[merged'] = 0
    BY <1>3, <1>5, <1>6, <2>1
  <2>3. Everywhere(m)' = Everywhere(m)
    BY <1>2, <1>7, <1>8, <1>9, <2>1, <2>2
  <2> QED BY <2>1, <2>3 DEF IdleIsEmpty
<1> QED BY <1>11, <1>12, <1>13, <1>14 DEF Drain

\* close() adds to the books what it records in its own slot.
LEMMA CloseBooks ==
  ASSUME Inv, NEW t \in Threads, NEW acc \in AccumType, UNCHANGED drainVars,
         accum' = [accum EXCEPT ![t] = acc]
  PROVE  \A m : Additive(m) => Everywhere(m)' = Everywhere(m) + m[acc] - m[accum[t]]
<1> SUFFICES ASSUME NEW m, Additive(m)
             PROVE  Everywhere(m)' = Everywhere(m) + m[acc] - m[accum[t]]
  OBVIOUS
<1>1. AccumInv /\ AccumInv'
  BY DEF Inv, AccumInv, drainVars
<1>2. SumOn(InSlots(m), Threads)' = SumOn(InSlots(m), Threads) + m[acc] - m[accum[t]]
  BY <1>1, SlotChanges
<1>3. UNCHANGED <<drained, merged, lost>>
  BY DEF drainVars
<1>4. /\ SumOn(InSlots(m), Threads) \in Nat /\ m[accum[t]] \in Nat /\ m[acc] \in Nat
      /\ m[drained] \in Nat /\ m[merged] \in Nat /\ m[lost] \in Nat
  BY <1>1, EverywhereIsNat DEF Additive
<1> QED BY <1>2, <1>3, <1>4 DEF Everywhere

\* A step that records nothing leaves the books as they are.
LEMMA BooksKept ==
  ASSUME UNCHANGED <<accum, drained, merged, lost>>, NEW m
  PROVE  Everywhere(m)' = Everywhere(m)
BY DEF Everywhere, InSlots

(* Self time.                                                              *)

SelfOf(acc) == [p \in Paths |-> acc.stacks[p].self_ns]
SelfTime == [acc \in AccumType |-> SumOn(SelfOf(acc), Paths)]

LEMMA PathsFinite == IsFiniteSet(Paths) /\ 0 \in Paths
BY MaxPathsAssumption, FS_Interval DEF Paths

LEMMA SelfTimeIsAdditive == Additive(SelfTime)
<1>1. \A acc \in AccumType : \A p \in Paths :
        SelfOf(acc)[p] = acc.stacks[p].self_ns /\ SelfOf(acc)[p] \in Nat
  BY DEF AccumType, SelfOf
<1>2. ASSUME NEW acc \in AccumType
      PROVE  SelfTime[acc] = SumOn(SelfOf(acc), Paths) /\ SelfTime[acc] \in Nat
  <2>1. SumOn(SelfOf(acc), Paths) \in Nat
    BY <1>1, PathsFinite, SumIsNat
  <2> QED BY <2>1 DEF SelfTime
<1>3. SelfTime[Zero] = 0
  <2>1. \A p \in Paths : SelfOf(Zero)[p] = 0 /\ SelfOf(Zero)[p] \in Int
    BY DEF SelfOf, Zero
  <2>2. SumOn(SelfOf(Zero), Paths) = SumOn(SelfOf(Zero), {})
    BY <2>1, PathsFinite, SumOverMore
  <2> QED BY <1>2, <2>2, ZeroIsAccum, SumOfNone
<1>4. ASSUME NEW a \in AccumType, NEW b \in AccumType
      PROVE  SelfTime[Absorb(a, b)] = SelfTime[a] + SelfTime[b]
  <2>1. \A p \in Paths : SelfOf(Absorb(a, b))[p] = SelfOf(a)[p] + SelfOf(b)[p]
    BY DEF SelfOf, Absorb
  <2>2. SumOn(SelfOf(Absorb(a, b)), Paths) = SumOn(SelfOf(a), Paths) + SumOn(SelfOf(b), Paths)
    BY <1>1, <2>1, PathsFinite, SumAdds
  <2> QED BY <1>2, <2>2, AbsorbIsAccum
<1>5. SelfTime \in [AccumType -> Nat]
  BY <1>2 DEF SelfTime
<1> QED BY <1>3, <1>4, <1>5 DEF Additive

\* A closing activation records its own time in its context.
LEMMA RecordedSelfTime ==
  ASSUME NEW acc \in AccumType, NEW a, a.path \in Paths, a.child_ns \in Nat,
         NEW elapsed \in Nat, Recorded(acc, a, elapsed) \in AccumType
  PROVE  SelfTime[Recorded(acc, a, elapsed)] = SelfTime[acc] + SatSub(elapsed, a.child_ns)
<1>1. PICK f : f = SelfOf(acc)
  OBVIOUS
<1>2. PICK g : g = SelfOf(Recorded(acc, a, elapsed))
  OBVIOUS
<1>3. PICK self \in Nat : self = SatSub(elapsed, a.child_ns)
  BY DEF SatSub
<1>4. acc.stacks \in [Paths -> [count: Nat, self_ns: Nat]]
  BY DEF AccumType
<1>5. \A p \in Paths : f[p] = acc.stacks[p].self_ns /\ f[p] \in Int
  BY <1>1, <1>4 DEF SelfOf
<1>6. \A p \in Paths : g[p] = IF p = a.path THEN f[p] + self ELSE f[p]
  BY <1>2, <1>3, <1>4, <1>5 DEF SelfOf, Recorded
<1>7. \A p \in Paths : f[p] \in Int /\ g[p] \in Int
  BY <1>5, <1>6
<1>8. \A p \in Paths \ {a.path} : f[p] = g[p]
  BY <1>6
<1>9. SumOn(g, Paths) = SumOn(f, Paths) + g[a.path] - f[a.path]
  <2>1. PICK x \in Paths : x = a.path
    OBVIOUS
  <2>2. SumOn(g, Paths) = SumOn(f, Paths) + g[x] - f[x]
    BY <1>7, <1>8, <2>1, PathsFinite, SumChanges
  <2> QED BY <2>1, <2>2
<1>10. SumOn(f, Paths) \in Int
  BY <1>7, PathsFinite, SumIsInt
<1>11. SumOn(g, Paths) = SumOn(f, Paths) + self
  BY <1>5, <1>6, <1>9, <1>10
<1> QED BY <1>1, <1>2, <1>3, <1>11 DEF SelfTime

\* Sums over the positions of a stack.
LEMMA SumOverPositions ==
  ASSUME NEW n \in Nat, NEW f, \A i \in 1..n : f[i] \in Nat
  PROVE  SumOn(f, 1..n) \in Nat
<1>1. IsFiniteSet(1..n)
  BY FS_Interval
<1> QED BY <1>1, SumIsNat

LEMMA SumOverOneMore ==
  ASSUME NEW n \in Nat, NEW f, NEW g, \A i \in 1..n : f[i] \in Nat /\ g[i] = f[i],
         g[n + 1] \in Nat
  PROVE  SumOn(g, 1..(n + 1)) = SumOn(f, 1..n) + g[n + 1] /\ SumOn(f, 1..n) \in Nat
<1>1. n + 1 \in 1..(n + 1) /\ (1..(n + 1)) \ {n + 1} = 1..n
  OBVIOUS
<1>2. IsFiniteSet(1..n) /\ IsFiniteSet(1..(n + 1))
  BY FS_Interval
<1>3. \A i \in 1..(n + 1) : g[i] \in Int
  OBVIOUS
<1>4. SumOn(g, 1..(n + 1)) = g[n + 1] + SumOn(g, 1..n)
  <2>1. SumOn(g, 1..(n + 1)) = g[n + 1] + SumOn(g, (1..(n + 1)) \ {n + 1})
    BY <1>1, <1>2, <1>3, SumWithout
  <2>2. SumOn(g, (1..(n + 1)) \ {n + 1}) = SumOn(g, 1..n)
    BY <1>1
  <2> QED BY <2>1, <2>2
<1>5. SumOn(f, 1..n) = SumOn(g, 1..n)
  <2>1. \A i \in 1..n : f[i] \in Int /\ f[i] = g[i]
    OBVIOUS
  <2> QED BY <1>2, <2>1, SumAgrees
<1>6. SumOn(f, 1..n) \in Nat
  BY SumOverPositions
<1>7. SumOn(g, 1..(n + 1)) = g[n + 1] + SumOn(f, 1..n)
  BY <1>4, <1>5
<1> QED BY <1>6, <1>7

LEMMA SumChangesLast ==
  ASSUME NEW n \in Nat, n # 0, NEW f, NEW g, \A i \in 1..n : f[i] \in Nat /\ g[i] \in Nat,
         \A i \in 1..n : i # n => f[i] = g[i]
  PROVE  SumOn(g, 1..n) = SumOn(f, 1..n) + g[n] - f[n]
<1>1. PICK m \in Nat : n = m + 1
  <2>1. n - 1 \in Nat /\ n = (n - 1) + 1
    OBVIOUS
  <2> QED BY <2>1
<1>2. /\ \A i \in 1..m : f[i] \in Nat /\ g[i] = f[i]
      /\ g[m + 1] \in Nat /\ f[m + 1] \in Nat
  BY <1>1
<1>3. SumOn(g, 1..(m + 1)) = SumOn(f, 1..m) + g[m + 1] /\ SumOn(f, 1..m) \in Nat
  BY <1>2, SumOverOneMore
<1>4. SumOn(f, 1..(m + 1)) = SumOn(f, 1..m) + f[m + 1]
  BY <1>2, SumOverOneMore
<1>5. SumOn(g, 1..(m + 1)) = SumOn(f, 1..(m + 1)) + g[m + 1] - f[m + 1]
  BY <1>2, <1>3, <1>4
<1> QED BY <1>1, <1>5

\* What callees have charged, and what one more or one fewer activation makes of it.
ChildTimes(s) == [i \in DOMAIN s |-> s[i].child_ns]

LEMMA ChargedIs ==
  ASSUME NEW n, NEW now, NEW s \in Seq(ActivationUpTo(n, now))
  PROVE  /\ Len(s) \in Nat /\ DOMAIN s = 1..Len(s)
         /\ \A i \in 1..Len(s) : ChildTimes(s)[i] = s[i].child_ns /\ s[i].child_ns \in Nat
         /\ Charged(s) = SumOn(ChildTimes(s), 1..Len(s)) /\ Charged(s) \in Nat
<1>1. Len(s) \in Nat /\ DOMAIN s = 1..Len(s)
  BY LenProperties
<1>2. \A i \in 1..Len(s) : s[i] \in ActivationUpTo(n, now)
  BY ElementOfSeq
<1>3. \A i \in 1..Len(s) : ChildTimes(s)[i] = s[i].child_ns /\ s[i].child_ns \in Nat
  BY <1>1, <1>2 DEF ChildTimes, ActivationUpTo
<1>4. DOMAIN ChildTimes(s) = 1..Len(s)
  BY <1>1 DEF ChildTimes
<1>5. Charged(s) = SumOn(ChildTimes(s), 1..Len(s))
  BY <1>4, SumFunctionIs DEF Charged, ChildTimes
<1>6. SumOn(ChildTimes(s), 1..Len(s)) \in Nat
  BY <1>1, <1>3, SumOverPositions
<1> QED BY <1>1, <1>3, <1>5, <1>6

LEMMA ChargedWhenPushed ==
  ASSUME NEW n, NEW now, NEW s \in Seq(ActivationUpTo(n, now)),
         NEW a \in ActivationUpTo(n, now)
  PROVE  Charged(Append(s, a)) = Charged(s) + a.child_ns
<1>1. PICK r \in Seq(ActivationUpTo(n, now)) : r = Append(s, a)
  BY AppendProperties
<1>2. /\ Len(r) = Len(s) + 1 /\ r[Len(s) + 1] = a
      /\ \A i \in 1..Len(s) : r[i] = s[i]
  BY <1>1, AppendProperties, LenProperties
<1>3. /\ Len(s) \in Nat
      /\ \A i \in 1..Len(s) : ChildTimes(s)[i] = s[i].child_ns /\ s[i].child_ns \in Nat
      /\ Charged(s) = SumOn(ChildTimes(s), 1..Len(s))
  BY ChargedIs
<1>4. /\ \A i \in 1..Len(r) : ChildTimes(r)[i] = r[i].child_ns /\ r[i].child_ns \in Nat
      /\ Charged(r) = SumOn(ChildTimes(r), 1..Len(r))
  BY ChargedIs
<1>5. \A i \in 1..Len(s) : ChildTimes(s)[i] \in Nat /\ ChildTimes(r)[i] = ChildTimes(s)[i]
  BY <1>2, <1>3, <1>4
<1>6. ChildTimes(r)[Len(s) + 1] = a.child_ns /\ a.child_ns \in Nat
  BY <1>2, <1>3, <1>4
<1>7. SumOn(ChildTimes(r), 1..(Len(s) + 1)) = SumOn(ChildTimes(s), 1..Len(s)) + a.child_ns
  <2>1. PICK f : f = ChildTimes(s)
    OBVIOUS
  <2>2. PICK g : g = ChildTimes(r)
    OBVIOUS
  <2>3. PICK l \in Nat : l = Len(s)
    BY <1>3
  <2>4. /\ \A i \in 1..l : f[i] \in Nat /\ g[i] = f[i]
        /\ g[l + 1] = a.child_ns /\ g[l + 1] \in Nat
    BY <1>5, <1>6, <2>1, <2>2, <2>3
  <2>5. SumOn(g, 1..(l + 1)) = SumOn(f, 1..l) + g[l + 1]
    BY <2>4, SumOverOneMore
  <2> QED BY <2>1, <2>2, <2>3, <2>4, <2>5
<1> QED BY <1>1, <1>2, <1>3, <1>4, <1>7

\* Popped, position by position.
LEMMA PoppedIs ==
  ASSUME NEW n \in Nat, NEW now \in Nat, NEW s \in Seq(ActivationUpTo(n, now)),
         s # << >>, NEW elapsed \in Nat
  PROVE  /\ Len(s) = Len(Popped(s, elapsed)) + 1 /\ Len(Popped(s, elapsed)) \in Nat
         /\ \A i \in 1..Len(Popped(s, elapsed)) :
              /\ Popped(s, elapsed)[i].start = s[i].start
              /\ Popped(s, elapsed)[i].child_ns
                   = s[i].child_ns + (IF i = Len(Popped(s, elapsed)) THEN elapsed ELSE 0)
<1>1. PICK A : A = ActivationUpTo(n, now)
  OBVIOUS
<1>2. PICK r \in Seq(A) : r = Popped(s, elapsed)
  BY <1>1, PoppedIsStack
<1>3. Len(s) = Len(r) + 1 /\ Len(r) \in Nat /\ Len(s) \in Nat
  BY <1>2, PoppedIsStack, LenProperties
<1>4. \A i \in 1..Len(s) : s[i] \in A
  BY <1>1, ElementOfSeq
<1>5. PICK rest : rest = Front(s)
  OBVIOUS
<1>6. /\ rest \in Seq(A) /\ Len(rest) = Len(r)
      /\ \A i \in 1..Len(r) : rest[i] = s[i]
  <2>1. PICK m \in Nat : m = Len(r)
    BY <1>3
  <2>2. rest = SubSeq(s, 1, m) /\ \A i \in 1..m : s[i] \in A
    BY <1>3, <1>4, <1>5, <2>1 DEF Front
  <2>3. /\ SubSeq(s, 1, m) \in Seq(A)
        /\ Len(SubSeq(s, 1, m)) = IF 1 <= m THEN m - 1 + 1 ELSE 0
        /\ \A i \in 1..(m - 1 + 1) : SubSeq(s, 1, m)[i] = s[1 + i - 1]
    BY <2>2, SubSeqProperties
  <2>4. \A i \in 1..m : SubSeq(s, 1, m)[i] = s[i]
    BY <2>3
  <2> QED BY <2>1, <2>2, <2>3, <2>4
<1>7. CASE rest = << >>
  <2>1. r = << >> /\ Len(r) = 0
    BY <1>2, <1>5, <1>7 DEF Popped, ChargeCaller
  <2>2. \A i \in 1..Len(r) : FALSE
    BY <2>1
  <2> QED BY <1>2, <1>3, <2>2
<1>8. CASE rest # << >>
  <2>1. PICK l \in Nat \ {0} : l = Len(r)
    BY <1>3, <1>6, <1>8, EmptySeq
  <2>2. r = [rest EXCEPT ![l].child_ns = @ + elapsed] /\ DOMAIN rest = 1..l
    BY <1>2, <1>5, <1>6, <1>8, <2>1, LenProperties DEF Popped, ChargeCaller
  <2>3. \A i \in 1..l : rest[i] = s[i] /\ s[i] \in A
    BY <1>3, <1>4, <1>6, <2>1
  <2>4. \A i \in 1..l : s[i].child_ns \in Nat /\ DOMAIN s[i] =
          {"func", "path", "start", "child_ns", "outermost", "counts_here"}
    BY <1>1, <2>3 DEF ActivationUpTo
  <2>5. ASSUME NEW i \in 1..l
        PROVE  /\ r[i].start = s[i].start
               /\ r[i].child_ns = s[i].child_ns + (IF i = l THEN elapsed ELSE 0)
    <3>1. CASE i = l
      <4>1. r[i] = [s[i] EXCEPT !.child_ns = @ + elapsed]
        BY <2>2, <2>3, <3>1
      <4> QED BY <2>4, <3>1, <4>1
    <3>2. CASE i # l
      <4>1. r[i] = s[i]
        BY <2>2, <2>3, <3>2
      <4> QED BY <2>4, <3>2, <4>1
    <3> QED BY <3>1, <3>2
  <2> QED BY <1>2, <1>3, <2>1, <2>5
<1> QED BY <1>7, <1>8

LEMMA ChargedWhenPopped ==
  ASSUME NEW n \in Nat, NEW now \in Nat, NEW s \in Seq(ActivationUpTo(n, now)),
         s # << >>, NEW elapsed \in Nat
  PROVE  /\ Charged(Popped(s, elapsed)) + Last(s).child_ns
              = Charged(s) + (IF Len(s) = 1 THEN 0 ELSE elapsed)
         /\ Charged(Popped(s, elapsed)) \in Nat
<1>1. PICK r \in Seq(ActivationUpTo(n, now)) : r = Popped(s, elapsed)
  BY PoppedIsStack
<1>2. PICK l \in Nat : l = Len(r)
  BY LenProperties
<1>3. /\ Len(s) = l + 1
      /\ \A i \in 1..l : r[i].child_ns = s[i].child_ns + (IF i = l THEN elapsed ELSE 0)
  <2>1. /\ Len(s) = Len(Popped(s, elapsed)) + 1
        /\ \A i \in 1..Len(Popped(s, elapsed)) :
             Popped(s, elapsed)[i].child_ns
               = s[i].child_ns + (IF i = Len(Popped(s, elapsed)) THEN elapsed ELSE 0)
    BY PoppedIs
  <2> QED BY <1>1, <1>2, <2>1
<1>4. /\ \A i \in 1..(l + 1) : ChildTimes(s)[i] = s[i].child_ns /\ s[i].child_ns \in Nat
      /\ Charged(s) = SumOn(ChildTimes(s), 1..(l + 1))
  BY <1>3, ChargedIs
<1>5. /\ \A i \in 1..l : ChildTimes(r)[i] = r[i].child_ns /\ r[i].child_ns \in Nat
      /\ Charged(r) = SumOn(ChildTimes(r), 1..l) /\ Charged(r) \in Nat
  BY <1>2, ChargedIs
<1>6. Last(s).child_ns = ChildTimes(s)[l + 1] /\ ChildTimes(s)[l + 1] \in Nat
  BY <1>3, <1>4 DEF Last
<1>7. /\ SumOn(ChildTimes(s), 1..(l + 1)) = SumOn(ChildTimes(s), 1..l) + ChildTimes(s)[l + 1]
      /\ SumOn(ChildTimes(s), 1..l) \in Nat
  <2>1. \A i \in 1..l : ChildTimes(s)[i] \in Nat /\ ChildTimes(s)[i] = ChildTimes(s)[i]
    BY <1>4
  <2> QED BY <1>6, <2>1, SumOverOneMore
<1>8. SumOn(ChildTimes(r), 1..l)
        = SumOn(ChildTimes(s), 1..l) + (IF l = 0 THEN 0 ELSE elapsed)
  <2>1. CASE l = 0
    <3>1. 1..l = {}
      BY <2>1
    <3>2. SumOn(ChildTimes(r), 1..l) = 0 /\ SumOn(ChildTimes(s), 1..l) = 0
      BY <3>1, SumOfNone
    <3> QED BY <2>1, <3>2
  <2>2. CASE l # 0
    <3>1. l \in 1..l /\ IsFiniteSet(1..l)
      BY <2>2, FS_Interval
    <3>2. \A i \in 1..l : ChildTimes(s)[i] \in Nat /\ ChildTimes(r)[i] \in Nat
      <4>1. \A i \in 1..l : i \in 1..(l + 1)
        OBVIOUS
      <4>2. \A i \in 1..l : ChildTimes(s)[i] \in Nat
        BY <1>4, <4>1
      <4>3. \A i \in 1..l : ChildTimes(r)[i] \in Nat
        BY <1>5
      <4> QED BY <4>2, <4>3
    <3>3. \A i \in (1..l) \ {l} : ChildTimes(s)[i] = ChildTimes(r)[i]
      BY <1>3, <1>4, <1>5
    <3>4. SumOn(ChildTimes(r), 1..l)
            = SumOn(ChildTimes(s), 1..l) + ChildTimes(r)[l] - ChildTimes(s)[l]
      <4>1. \A i \in 1..l : i # l => ChildTimes(s)[i] = ChildTimes(r)[i]
        BY <3>3
      <4> QED BY <2>2, <3>2, <4>1, SumChangesLast
    <3>5. ChildTimes(r)[l] = ChildTimes(s)[l] + elapsed /\ ChildTimes(s)[l] \in Nat
      BY <1>3, <1>4, <1>5, <3>1
    <3> QED BY <1>7, <2>2, <3>4, <3>5
  <2> QED BY <2>1, <2>2
<1>9. Len(s) = 1 <=> l = 0
  BY <1>3
<1> QED BY <1>1, <1>4, <1>5, <1>6, <1>7, <1>8, <1>9

\* An open activation's closed callees fit between its start and what is open on top
\* of it.
ChildrenFit ==
  \A t \in Threads : \A i \in 1..Len(stack[t]) :
    stack[t][i].start + stack[t][i].child_ns
      <= IF i = Len(stack[t]) THEN clock ELSE stack[t][i + 1].start

\* The sum over all threads of what is charged on their stacks.
ChargedOn == [t \in Threads |-> Charged(stack[t])]

SelfBooks == Everywhere(SelfTime) = rootNs + SumOn(ChargedOn, Threads)

LEMMA ChargedOnIs ==
  ASSUME Inv
  PROVE  /\ \A t \in Threads : ChargedOn[t] = Charged(stack[t]) /\ ChargedOn[t] \in Nat
         /\ SumOn(ChargedOn, Threads) \in Nat
<1>1. \A t \in Threads : stack[t] \in Seq(ActivationUpTo(Len(nodes), clock))
  BY DEF Inv, StackInv
<1>2. \A t \in Threads : ChargedOn[t] = Charged(stack[t]) /\ ChargedOn[t] \in Nat
  BY <1>1, ChargedIs DEF ChargedOn
<1> QED BY <1>2, ThreadsFinite, SumIsNat

\* One stack changed: what is charged on all of them changes by as much.
LEMMA ChargedOnChanges ==
  ASSUME Inv, Inv', NEW t \in Threads, NEW s, stack' = [stack EXCEPT ![t] = s]
  PROVE  SumOn(ChargedOn, Threads)' = SumOn(ChargedOn, Threads) + Charged(s) - Charged(stack[t])
<1>1. PICK f : f = ChargedOn
  OBVIOUS
<1>2. PICK g : g = ChargedOn'
  OBVIOUS
<1>3. \A u \in Threads : f[u] = Charged(stack[u]) /\ f[u] \in Int
  BY <1>1, ChargedOnIs
<1>4. \A u \in Threads : g[u] = Charged(stack'[u]) /\ g[u] \in Int
  <2>1. \A u \in Threads : stack'[u] \in Seq(ActivationUpTo(Len(nodes'), clock'))
    BY DEF Inv, StackInv
  <2>2. \A u \in Threads : g[u] = Charged(stack'[u])
    BY <1>2 DEF ChargedOn
  <2>3. \A u \in Threads : Charged(stack'[u]) \in Nat
    BY <2>1, ChargedIs
  <2> QED BY <2>2, <2>3
<1>5. \A u \in Threads \ {t} : f[u] = g[u]
  BY <1>3, <1>4 DEF Inv, StackInv
<1>6. SumOn(g, Threads) = SumOn(f, Threads) + g[t] - f[t]
  <2>1. \A u \in Threads : f[u] \in Int /\ g[u] \in Int
    BY <1>3, <1>4
  <2> QED BY <1>5, <2>1, ThreadsFinite, SumChanges
<1>7. g[t] = Charged(s) /\ f[t] = Charged(stack[t])
  BY <1>3, <1>4 DEF Inv, StackInv
<1>8. SumOn(ChargedOn, Threads)' = SumOn(g, Threads)
  BY <1>2
<1>9. SumOn(ChargedOn, Threads) = SumOn(f, Threads)
  BY <1>1
<1> QED BY <1>6, <1>7, <1>8, <1>9

\* What the innermost activation and its closing are.
LEMMA ClosingIs ==
  ASSUME Inv, NEW t \in Threads, Close(t)
  PROVE  \E a \in ActivationUpTo(Len(nodes), clock) : \E elapsed \in Nat :
           /\ a = Last(stack[t]) /\ a = stack[t][Len(stack[t])]
           /\ Len(stack[t]) \in Nat \ {0} /\ elapsed = clock - a.start
           /\ clock \in Nat /\ a.start \in Nat /\ a.child_ns \in Nat
           /\ a.path \in Paths /\ a.func \in Functions
           /\ stack' = [stack EXCEPT ![t] = Popped(stack[t], elapsed)]
           /\ stack'[t] = Popped(stack[t], elapsed)
           /\ accum' = [accum EXCEPT ![t] = Recorded(@, a, elapsed)]
           /\ Recorded(accum[t], a, elapsed) \in AccumType
           /\ rootNs' = IF Len(stack[t]) = 1 THEN rootNs + elapsed ELSE rootNs
           /\ UNCHANGED <<nodes, overflowed, clock, drainVars>>
<1>1. Len(nodes) \in Nat /\ Len(nodes) <= MaxPaths /\ clock \in Nat /\ MaxPaths \in Nat
  BY NodesBound DEF Inv, CountersInv
<1>2. stack[t] \in Seq(ActivationUpTo(Len(nodes), clock)) /\ stack[t] # << >>
  BY DEF Inv, StackInv, Close
<1>3. PICK a \in ActivationUpTo(Len(nodes), clock) : a = Last(stack[t])
  BY <1>1, <1>2, InnermostIsActivation
<1>4. /\ a.start \in 0..clock /\ a.child_ns \in Nat /\ a.path \in 0..Len(nodes)
      /\ a.func \in Functions
  BY <1>3 DEF ActivationUpTo
<1>5. PICK elapsed \in Nat : elapsed = clock - a.start
  BY <1>1, <1>4
<1>6. a.path \in Paths /\ a.start \in Nat
  BY <1>1, <1>4 DEF Paths
<1>7. Len(stack[t]) \in Nat \ {0} /\ a = stack[t][Len(stack[t])]
  BY <1>2, <1>3, EmptySeq DEF Last
<1>8. Recorded(accum[t], a, elapsed) \in AccumType
  BY <1>1, <1>3, RecordedIsAccum DEF Inv, AccumInv
<1>9. /\ stack' = [stack EXCEPT ![t] = Popped(stack[t], elapsed)]
      /\ accum' = [accum EXCEPT ![t] = Recorded(@, a, elapsed)]
      /\ rootNs' = IF Len(stack[t]) = 1 THEN rootNs + elapsed ELSE rootNs
      /\ UNCHANGED <<nodes, overflowed, clock, drainVars>>
  BY <1>3, <1>5 DEF Close, registryVars
<1>10. stack'[t] = Popped(stack[t], elapsed)
  BY <1>9 DEF Inv, StackInv
<1> QED BY <1>1, <1>3, <1>4, <1>5, <1>6, <1>7, <1>8, <1>9, <1>10

\* What opening puts on the stack.
LEMMA OpeningIs ==
  ASSUME Inv, NEW t \in Threads, NEW func \in Functions, Open(t, func)
  PROVE  \E a : /\ stack' = [stack EXCEPT ![t] = Append(stack[t], a)]
                /\ stack'[t] = Append(stack[t], a)
                /\ a.func = func /\ a.start = clock /\ a.child_ns = 0
                /\ a.outermost <=> depth[t][func].count = 0
                /\ stack[t] \in Seq(ActivationUpTo(Len(nodes'), clock))
                /\ a \in ActivationUpTo(Len(nodes'), clock)
                /\ UNCHANGED <<clock, rootNs, accum, drainVars>>
<1>1. UNCHANGED <<clock, rootNs, accum, drainVars>> /\ Inv'
  BY OpenKeeps DEF Open
<1>2. PICK path, outermost, counts_here :
        /\ Push(t, func, path, outermost, counts_here)
        /\ outermost <=> depth[t][func].count = 0
  <2>1. CASE OpenOutermost(t, func)
    BY <2>1 DEF OpenOutermost
  <2>2. CASE OpenRecursive(t, func)
    <3>1. PICK path : /\ Push(t, func, path, FALSE, OpensContext(depth[t][func]))
                      /\ depth[t][func].count > 0
      BY <2>2 DEF OpenRecursive
    <3>2. depth[t][func].count # 0
      <4>1. depth[t][func].count \in Nat
        BY DEF Inv, DepthInv, DepthUpTo
      <4> QED BY <3>1, <4>1
    <3> QED BY <3>1, <3>2
  <2> QED BY <2>1, <2>2 DEF Open
<1>3. PICK a : a = [func |-> func, path |-> path, start |-> clock, child_ns |-> 0,
                    outermost |-> outermost, counts_here |-> counts_here]
  OBVIOUS
<1>4. /\ stack' = [stack EXCEPT ![t] = Append(stack[t], a)]
      /\ stack'[t] = Append(stack[t], a)
  BY <1>2, <1>3 DEF Push, Inv, StackInv
<1>5. a.func = func /\ a.start = clock /\ a.child_ns = 0 /\ a.outermost = outermost
  BY <1>3
<1>6. stack[t] \in Seq(ActivationUpTo(Len(nodes'), clock))
      /\ a \in ActivationUpTo(Len(nodes'), clock)
  <2>1. PICK A : A = ActivationUpTo(Len(nodes'), clock)
    OBVIOUS
  <2>2. PICK r \in Seq(A) : r = Append(stack[t], a)
    BY <1>1, <1>4, <2>1 DEF Inv, StackInv
  <2>3. stack[t] \in Seq(ActivationUpTo(Len(nodes), clock))
    BY DEF Inv, StackInv
  <2>4. /\ Len(stack[t]) \in Nat /\ Len(r) = Len(stack[t]) + 1 /\ r[Len(stack[t]) + 1] = a
        /\ \A i \in 1..Len(stack[t]) : r[i] = stack[t][i]
    <3>1. stack[t] \in Seq(ActivationUpTo(Len(nodes), clock) \cup {a})
      BY <2>3, SeqMonotonic
    <3> QED BY <2>2, <3>1, AppendProperties, LenProperties
  <2>5. \A i \in 1..Len(r) : r[i] \in A
    BY ElementOfSeq
  <2>6. a \in A /\ \A i \in 1..Len(stack[t]) : stack[t][i] \in A
    <3>1. Len(stack[t]) + 1 \in 1..Len(r)
      BY <2>4
    <3>2. \A i \in 1..Len(stack[t]) : i \in 1..Len(r)
      BY <2>4
    <3> QED BY <2>4, <2>5, <3>1, <3>2
  <2>7. stack[t] \in Seq(A)
    BY <2>3, <2>4, <2>6, LenProperties, SeqDef
  <2> QED BY <2>1, <2>6, <2>7
<1> QED BY <1>1, <1>2, <1>4, <1>5, <1>6

LEMMA ChildrenFitStep ==
  ASSUME Inv, ChildrenFit, [Next]_vars
  PROVE  ChildrenFit'
<1>1. clock \in Nat /\ clock' \in Nat
  <2>1. Inv'
    BY InvStep
  <2> QED BY <2>1 DEF Inv, CountersInv
<1>2. \A u \in Threads : stack[u] \in Seq(ActivationUpTo(Len(nodes), clock))
  BY DEF Inv, StackInv
<1>3. \A u \in Threads : Len(stack[u]) \in Nat
  BY <1>2, LenProperties
<1>4. \A u \in Threads : \A i \in 1..Len(stack[u]) :
        stack[u][i].start \in Nat /\ stack[u][i].child_ns \in Nat
  <2> TAKE u \in Threads
  <2> TAKE i \in 1..Len(stack[u])
  <2>1. stack[u][i] \in ActivationUpTo(Len(nodes), clock)
    BY <1>2, ElementOfSeq
  <2> QED BY <1>1, <2>1 DEF ActivationUpTo
<1>5. ASSUME stack' = stack, clock <= clock' PROVE ChildrenFit'
  <2> SUFFICES ASSUME NEW u \in Threads, NEW i \in 1..Len(stack[u])
               PROVE  stack[u][i].start + stack[u][i].child_ns
                        <= IF i = Len(stack[u]) THEN clock' ELSE stack[u][i + 1].start
    BY <1>5 DEF ChildrenFit
  <2>1. stack[u][i].start + stack[u][i].child_ns
          <= IF i = Len(stack[u]) THEN clock ELSE stack[u][i + 1].start
    BY DEF ChildrenFit
  <2>2. stack[u][i].start + stack[u][i].child_ns \in Nat
    BY <1>4
  <2> QED BY <1>1, <1>5, <2>1, <2>2
<1>6. ASSUME NEW t \in Threads, NEW func \in Functions, Open(t, func) PROVE ChildrenFit'
  <2>1. PICK a : /\ stack' = [stack EXCEPT ![t] = Append(stack[t], a)]
                 /\ a.start = clock /\ a.child_ns = 0
                 /\ stack[t] \in Seq(ActivationUpTo(Len(nodes'), clock))
                 /\ a \in ActivationUpTo(Len(nodes'), clock)
                 /\ UNCHANGED clock
    BY <1>6, OpeningIs
  <2>2. PICK r : r = Append(stack[t], a)
    OBVIOUS
  <2>3. PICK l \in Nat : l = Len(stack[t])
    BY <1>3
  <2>4. /\ Len(r) = l + 1 /\ r[l + 1] = a
        /\ \A i \in 1..l : r[i] = stack[t][i]
    BY <2>1, <2>2, <2>3, AppendProperties
  <2>5. ASSUME NEW i \in 1..Len(r)
        PROVE  r[i].start + r[i].child_ns <= IF i = Len(r) THEN clock ELSE r[i + 1].start
    <3>1. CASE i = l + 1
      BY <1>1, <2>1, <2>4, <3>1
    <3>2. CASE i # l + 1
      <4>1. i \in 1..l /\ r[i] = stack[t][i]
        BY <2>3, <2>4, <3>2
      <4>2. stack[t][i].start + stack[t][i].child_ns
              <= IF i = l THEN clock ELSE stack[t][i + 1].start
        BY <2>3, <4>1 DEF ChildrenFit
      <4>3. CASE i = l
        BY <2>1, <2>4, <3>2, <4>1, <4>2, <4>3
      <4>4. CASE i # l
        <5>1. i + 1 \in 1..l
          BY <2>3, <4>1, <4>4
        <5> QED BY <2>4, <3>2, <4>1, <4>2, <4>4, <5>1
      <4> QED BY <4>3, <4>4
    <3> QED BY <3>1, <3>2
  <2>6. stack' = [stack EXCEPT ![t] = r] /\ clock' = clock
    BY <2>1, <2>2
  <2>7. ASSUME NEW u \in Threads, NEW i \in 1..Len(stack'[u])
        PROVE  stack'[u][i].start + stack'[u][i].child_ns
                 <= IF i = Len(stack'[u]) THEN clock' ELSE stack'[u][i + 1].start
    <3>1. CASE u = t
      <4>1. stack'[u] = r
        BY <2>6, <3>1 DEF Inv, StackInv
      <4> QED BY <2>5, <2>6, <4>1
    <3>2. CASE u # t
      <4>1. stack'[u] = stack[u]
        BY <2>6, <3>2 DEF Inv, StackInv
      <4> QED BY <2>6, <4>1 DEF ChildrenFit
    <3> QED BY <3>1, <3>2
  <2> QED BY <2>7 DEF ChildrenFit
<1>7. ASSUME NEW t \in Threads, Close(t) PROVE ChildrenFit'
  <2>1. PICK a \in ActivationUpTo(Len(nodes), clock), elapsed \in Nat :
          /\ a = stack[t][Len(stack[t])] /\ elapsed = clock - a.start
          /\ stack' = [stack EXCEPT ![t] = Popped(stack[t], elapsed)]
          /\ UNCHANGED clock /\ stack[t] # << >> /\ a.start \in Nat
    BY <1>7, ClosingIs DEF Close
  <2>2. PICK r : r = Popped(stack[t], elapsed)
    OBVIOUS
  <2>3. PICK l \in Nat : l = Len(r)
    BY <1>1, <1>2, <2>1, <2>2, PoppedIsStack, NodesBound, LenProperties DEF Inv
  <2>4. /\ Len(stack[t]) = l + 1
        /\ \A i \in 1..l : /\ r[i].start = stack[t][i].start
                           /\ r[i].child_ns = stack[t][i].child_ns
                                + (IF i = l THEN elapsed ELSE 0)
    <3>1. Len(nodes) \in Nat /\ stack[t] \in Seq(ActivationUpTo(Len(nodes), clock))
      BY <1>2, NodesBound DEF Inv
    <3>2. PICK n \in Nat : n = Len(nodes)
      BY <3>1
    <3>3. PICK s \in Seq(ActivationUpTo(n, clock)) : s = stack[t] /\ s # << >>
      BY <2>1, <3>1, <3>2
    <3>4. r = Popped(s, elapsed)
      BY <2>2, <3>3
    <3>5. /\ Len(s) = l + 1
          /\ \A i \in 1..l : /\ r[i].start = s[i].start
                             /\ r[i].child_ns = s[i].child_ns + (IF i = l THEN elapsed ELSE 0)
      <4>1. PICK now \in Nat : s \in Seq(ActivationUpTo(n, now)) /\ s # << >>
        BY <1>1, <3>3
      <4>2. /\ Len(s) = Len(Popped(s, elapsed)) + 1
            /\ \A i \in 1..Len(Popped(s, elapsed)) :
                 /\ Popped(s, elapsed)[i].start = s[i].start
                 /\ Popped(s, elapsed)[i].child_ns
                      = s[i].child_ns + (IF i = Len(Popped(s, elapsed)) THEN elapsed ELSE 0)
        BY <4>1, PoppedIs
      <4> QED BY <2>3, <3>4, <4>2
    <3> QED BY <3>3, <3>5
  <2>5. ASSUME NEW i \in 1..l
        PROVE  r[i].start + r[i].child_ns <= IF i = l THEN clock ELSE r[i + 1].start
    <3>1. i \in 1..Len(stack[t]) /\ i # Len(stack[t])
      BY <2>4
    <3>2. stack[t][i].start + stack[t][i].child_ns <= stack[t][i + 1].start
      BY <3>1 DEF ChildrenFit
    <3>3. stack[t][i].start \in Nat /\ stack[t][i].child_ns \in Nat
      BY <1>4, <3>1
    <3>4. CASE i = l
      <4>1. stack[t][i + 1].start = a.start
        BY <2>1, <2>4, <3>4
      <4>2. r[i].start = stack[t][i].start /\ r[i].child_ns = stack[t][i].child_ns + elapsed
        BY <2>4, <3>4
      <4>3. r[i].start + r[i].child_ns <= clock
        <5>1. PICK from \in Nat, child \in Nat, top \in Nat :
                from = stack[t][i].start /\ child = stack[t][i].child_ns /\ top = a.start
          BY <2>1, <3>3
        <5>2. from + child <= top /\ elapsed = clock - top
          BY <2>1, <3>2, <4>1, <5>1
        <5>3. r[i].start = from /\ r[i].child_ns = child + elapsed
          BY <4>2, <5>1
        <5>4. from + (child + elapsed) <= clock
          BY <1>1, <5>2
        <5> QED BY <5>3, <5>4
      <4> QED BY <3>4, <4>3
    <3>5. CASE i # l
      <4>1. i + 1 \in 1..l
        BY <3>5
      <4>2. r[i + 1].start = stack[t][i + 1].start
        BY <2>4, <4>1
      <4>3. r[i].start = stack[t][i].start /\ r[i].child_ns = stack[t][i].child_ns
        BY <2>4, <3>3, <3>5
      <4> QED BY <3>2, <3>5, <4>2, <4>3
    <3> QED BY <3>4, <3>5
  <2>6. stack' = [stack EXCEPT ![t] = r] /\ clock' = clock
    BY <2>1, <2>2
  <2>7. ASSUME NEW u \in Threads, NEW i \in 1..Len(stack'[u])
        PROVE  stack'[u][i].start + stack'[u][i].child_ns
                 <= IF i = Len(stack'[u]) THEN clock' ELSE stack'[u][i + 1].start
    <3>1. CASE u = t
      <4>1. stack'[u] = r
        BY <2>6, <3>1 DEF Inv, StackInv
      <4> QED BY <2>3, <2>5, <2>6, <4>1
    <3>2. CASE u # t
      <4>1. stack'[u] = stack[u]
        BY <2>6, <3>2 DEF Inv, StackInv
      <4> QED BY <2>6, <4>1 DEF ChildrenFit
    <3> QED BY <3>1, <3>2
  <2> QED BY <2>7 DEF ChildrenFit
<1>8. CASE UNCHANGED vars
  BY <1>1, <1>5, <1>8 DEF vars, threadVars
<1>9. CASE Drain
  BY <1>1, <1>5, <1>9 DEF Drain, DrainBegin, DrainAbsorb, DrainRetain, DrainEnd, threadVars
<1>10. CASE Tick
  BY <1>1, <1>5, <1>10 DEF Tick, threadVars
<1>11. ASSUME NEW t \in Threads, Thread(t) PROVE ChildrenFit'
  <2>1. ASSUME NEW func \in Functions, Enter(t, func) PROVE ChildrenFit'
    BY <1>1, <1>5, <2>1 DEF Enter
  <2>2. ASSUME RegisterThread(t) PROVE ChildrenFit'
    BY <1>1, <1>5, <2>2 DEF RegisterThread
  <2>3. ASSUME Exit(t) PROVE ChildrenFit'
    BY <1>1, <1>5, <2>3 DEF Exit
  <2> QED BY <1>6, <1>7, <1>11, <2>1, <2>2, <2>3 DEF Thread
<1> QED BY <1>8, <1>9, <1>10, <1>11 DEF Next

\* The steps as the books see them: some touch neither a stack nor a slot.
Quiet ==
  /\ UNCHANGED <<stack, depth, nodes, overflowed, rootNs, accum, drainVars>>
  /\ clock' = clock \/ clock' = clock + 1

LEMMA StepIs ==
  ASSUME [Next]_vars
  PROVE  \/ Quiet
         \/ Drain /\ UNCHANGED <<stack, depth, nodes, overflowed, rootNs, clock>>
         \/ \E t \in Threads : Close(t)
         \/ \E t \in Threads : \E func \in Functions : Open(t, func)
<1>1. CASE UNCHANGED vars
  BY <1>1 DEF vars, threadVars, registryVars, Quiet
<1>2. CASE Drain
  BY <1>2 DEF Drain, DrainBegin, DrainAbsorb, DrainRetain, DrainEnd, threadVars, registryVars
<1>3. CASE Tick
  BY <1>3 DEF Tick, threadVars, registryVars, Quiet
<1>4. ASSUME NEW t \in Threads, Thread(t)
      PROVE  Quiet \/ Close(t) \/ \E func \in Functions : Open(t, func)
  <2>1. ASSUME NEW func \in Functions, Enter(t, func) PROVE Quiet
    BY <2>1 DEF Enter, Quiet
  <2>2. ASSUME RegisterThread(t) PROVE Quiet
    BY <2>2 DEF RegisterThread, Quiet, registryVars
  <2>3. ASSUME Exit(t) PROVE Quiet
    BY <2>3 DEF Exit, Quiet, registryVars
  <2> QED BY <1>4, <2>1, <2>2, <2>3 DEF Thread
<1> QED BY <1>1, <1>2, <1>3, <1>4 DEF Next

LEMMA IdleIsEmptyStep ==
  ASSUME Inv, IdleIsEmpty, [Next]_vars
  PROVE  IdleIsEmpty'
<1>1. ASSUME UNCHANGED drainVars PROVE IdleIsEmpty'
  BY <1>1 DEF IdleIsEmpty, drainVars
<1>2. ASSUME Drain PROVE IdleIsEmpty'
  BY <1>2, SelfTimeIsAdditive, DrainConserves
<1> QED BY <1>1, <1>2, StepIs DEF Quiet, Open, Close

LEMMA SelfBooksStep ==
  ASSUME Inv, IdleIsEmpty, ChildrenFit, SelfBooks, [Next]_vars
  PROVE  SelfBooks'
<1>1. Inv' /\ AccumInv /\ rootNs \in Nat
  BY InvStep DEF Inv, CountersInv
<1>2. /\ Everywhere(SelfTime) \in Nat /\ SumOn(ChargedOn, Threads) \in Nat
      /\ Everywhere(SelfTime) = rootNs + SumOn(ChargedOn, Threads)
  BY <1>1, EverywhereIsNat, SelfTimeIsAdditive, ChargedOnIs DEF SelfBooks
<1>3. ASSUME stack' = stack PROVE SumOn(ChargedOn, Threads)' = SumOn(ChargedOn, Threads)
  BY <1>3 DEF ChargedOn
<1>4. CASE Quiet
  <2>1. Everywhere(SelfTime)' = Everywhere(SelfTime)
    BY <1>4, BooksKept DEF Quiet, drainVars
  <2> QED BY <1>2, <1>3, <1>4, <2>1 DEF Quiet, SelfBooks
<1>5. CASE Drain /\ UNCHANGED <<stack, depth, nodes, overflowed, rootNs, clock>>
  <2>1. Everywhere(SelfTime)' = Everywhere(SelfTime)
    BY <1>5, DrainConserves, SelfTimeIsAdditive
  <2> QED BY <1>2, <1>3, <1>5, <2>1 DEF SelfBooks
<1>6. ASSUME NEW t \in Threads, NEW func \in Functions, Open(t, func) PROVE SelfBooks'
  <2>1. PICK a : /\ stack' = [stack EXCEPT ![t] = Append(stack[t], a)]
                 /\ a.child_ns = 0
                 /\ stack[t] \in Seq(ActivationUpTo(Len(nodes'), clock))
                 /\ a \in ActivationUpTo(Len(nodes'), clock)
                 /\ UNCHANGED <<rootNs, accum, drainVars>>
    BY <1>6, OpeningIs
  <2>2. Everywhere(SelfTime)' = Everywhere(SelfTime)
    BY <2>1, BooksKept DEF drainVars
  <2>3. Charged(Append(stack[t], a)) = Charged(stack[t]) + 0 /\ Charged(stack[t]) \in Nat
    BY <2>1, ChargedWhenPushed, ChargedIs
  <2>4. SumOn(ChargedOn, Threads)'
          = SumOn(ChargedOn, Threads) + Charged(Append(stack[t], a)) - Charged(stack[t])
    BY <1>1, <2>1, ChargedOnChanges
  <2>5. SumOn(ChargedOn, Threads)' = SumOn(ChargedOn, Threads)
    BY <1>2, <2>3, <2>4
  <2> QED BY <1>2, <2>1, <2>2, <2>5 DEF SelfBooks
<1>7. ASSUME NEW t \in Threads, Close(t) PROVE SelfBooks'
  <2>1. PICK a \in ActivationUpTo(Len(nodes), clock), elapsed \in Nat :
          /\ a = Last(stack[t]) /\ a = stack[t][Len(stack[t])]
          /\ Len(stack[t]) \in Nat \ {0} /\ elapsed = clock - a.start
          /\ clock \in Nat /\ a.start \in Nat /\ a.child_ns \in Nat /\ a.path \in Paths
          /\ stack' = [stack EXCEPT ![t] = Popped(stack[t], elapsed)]
          /\ accum' = [accum EXCEPT ![t] = Recorded(@, a, elapsed)]
          /\ Recorded(accum[t], a, elapsed) \in AccumType
          /\ rootNs' = IF Len(stack[t]) = 1 THEN rootNs + elapsed ELSE rootNs
          /\ UNCHANGED drainVars
    BY <1>7, ClosingIs
  <2>2. PICK child \in Nat : child = a.child_ns
    BY <2>1
  <2>3. SatSub(elapsed, a.child_ns) = elapsed - child /\ child <= elapsed
    <3>1. Len(stack[t]) \in 1..Len(stack[t])
      BY <2>1
    <3>2. a.start + a.child_ns <= clock
      BY <2>1, <3>1 DEF ChildrenFit
    <3>3. child <= elapsed
      <4>1. PICK from \in Nat, now \in Nat : from = a.start /\ now = clock
        BY <2>1
      <4>2. elapsed = now - from
        BY <2>1, <4>1
      <4>3. from + child <= now
        BY <2>2, <3>2, <4>1
      <4> QED BY <4>2, <4>3
    <3> QED BY <2>2, <3>3 DEF SatSub
  <2>4. PICK before, after : /\ before = SelfTime[accum[t]]
                             /\ after = SelfTime[Recorded(accum[t], a, elapsed)]
    OBVIOUS
  <2>5. accum[t] \in AccumType
    BY <1>1 DEF AccumInv
  <2>6. after = before + (elapsed - child) /\ before \in Nat
    <3>1. SelfTime[Recorded(accum[t], a, elapsed)]
            = SelfTime[accum[t]] + SatSub(elapsed, a.child_ns)
      BY <2>1, <2>5, RecordedSelfTime
    <3>2. before \in Nat
      BY <2>4, <2>5, SelfTimeIsAdditive DEF Additive
    <3> QED BY <2>3, <2>4, <3>1, <3>2
  <2>7. Everywhere(SelfTime)' = Everywhere(SelfTime) + after - before
    <3>1. PICK acc \in AccumType : acc = Recorded(accum[t], a, elapsed)
      BY <2>1
    <3>2. accum' = [accum EXCEPT ![t] = acc] /\ UNCHANGED drainVars
      BY <2>1, <3>1
    <3>3. Everywhere(SelfTime)' = Everywhere(SelfTime) + SelfTime[acc] - SelfTime[accum[t]]
      <4>1. \A m : Additive(m) => Everywhere(m)' = Everywhere(m) + m[acc] - m[accum[t]]
        BY <3>2, CloseBooks
      <4> QED BY <4>1, SelfTimeIsAdditive
    <3> QED BY <2>4, <3>1, <3>3
  <2>8. PICK was \in Nat, is \in Nat :
          /\ was = Charged(stack[t]) /\ is = Charged(Popped(stack[t], elapsed))
          /\ is + child = was + (IF Len(stack[t]) = 1 THEN 0 ELSE elapsed)
    <3>1. PICK n \in Nat : n = Len(nodes)
      BY NodesBound DEF Inv
    <3>2. PICK s \in Seq(ActivationUpTo(n, clock)) : s = stack[t] /\ s # << >>
      <4>1. stack[t] \in Seq(ActivationUpTo(n, clock))
        BY <3>1 DEF Inv, StackInv
      <4>2. stack[t] # << >>
        BY <1>7 DEF Close
      <4> QED BY <4>1, <4>2
    <3>3. /\ Charged(Popped(s, elapsed)) + Last(s).child_ns
                = Charged(s) + (IF Len(s) = 1 THEN 0 ELSE elapsed)
          /\ Charged(Popped(s, elapsed)) \in Nat /\ Charged(s) \in Nat
      <4>1. /\ Charged(Popped(s, elapsed)) + Last(s).child_ns
                  = Charged(s) + (IF Len(s) = 1 THEN 0 ELSE elapsed)
            /\ Charged(Popped(s, elapsed)) \in Nat
        <5>1. clock \in Nat
          BY <2>1
        <5> QED BY <3>2, <5>1, ChargedWhenPopped
      <4>2. Charged(s) \in Nat
        BY <3>2, ChargedIs
      <4> QED BY <4>1, <4>2
    <3> QED BY <2>1, <2>2, <3>2, <3>3
  <2>9. SumOn(ChargedOn, Threads)' = SumOn(ChargedOn, Threads) + is - was
    BY <1>1, <2>1, <2>8, ChargedOnChanges
  <2>10. CASE Len(stack[t]) = 1
    <3>1. rootNs' = rootNs + elapsed /\ is + child = was
      BY <2>1, <2>8, <2>10
    <3>2. Everywhere(SelfTime)' = rootNs' + SumOn(ChargedOn, Threads)'
      BY <1>1, <1>2, <2>3, <2>6, <2>7, <2>9, <3>1
    <3> QED BY <3>2 DEF SelfBooks
  <2>11. CASE Len(stack[t]) # 1
    <3>1. rootNs' = rootNs /\ is + child = was + elapsed
      BY <2>1, <2>8, <2>11
    <3>2. Everywhere(SelfTime)' = rootNs' + SumOn(ChargedOn, Threads)'
      BY <1>1, <1>2, <2>3, <2>6, <2>7, <2>9, <3>1
    <3> QED BY <3>2 DEF SelfBooks
  <2> QED BY <2>10, <2>11
<1> QED BY <1>4, <1>5, <1>6, <1>7, StepIs

\* A quantity that Zero has none of starts at none.
LEMMA BooksInit ==
  ASSUME Init, NEW m, Additive(m)
  PROVE  Everywhere(m) = 0
<1>1. accum = [t \in Threads |-> Zero] /\ drained = Zero /\ merged = Zero /\ lost = Zero
  BY DEF Init
<1>2. m[Zero] = 0
  BY DEF Additive
<1>3. \A t \in Threads : InSlots(m)[t] = 0 /\ InSlots(m)[t] \in Int
  BY <1>1, <1>2 DEF InSlots
<1>4. SumOn(InSlots(m), Threads) = 0
  <2>1. SumOn(InSlots(m), Threads) = SumOn(InSlots(m), {})
    BY <1>3, ThreadsFinite, SumOverMore
  <2> QED BY <2>1, SumOfNone
<1> QED BY <1>1, <1>2, <1>4 DEF Everywhere

LEMMA SelfInit == Init => IdleIsEmpty /\ ChildrenFit /\ SelfBooks
<1> SUFFICES ASSUME Init PROVE IdleIsEmpty /\ ChildrenFit /\ SelfBooks
  OBVIOUS
<1>1. \A t \in Threads : stack[t] = << >> /\ Len(stack[t]) = 0
  BY DEF Init
<1>2. IdleIsEmpty /\ ChildrenFit
  BY <1>1 DEF Init, IdleIsEmpty, ChildrenFit
<1>3. Everywhere(SelfTime) = 0 /\ rootNs = 0
  BY BooksInit, SelfTimeIsAdditive DEF Init
<1>4. SumOn(ChargedOn, Threads) = 0
  <2>1. \A t \in Threads : ChargedOn[t] = 0 /\ ChargedOn[t] \in Int
    <3>1. << >> \in Seq(ActivationUpTo(0, 0)) /\ Len(<< >>) = 0 /\ 1..0 = {}
      BY EmptySeq
    <3>2. Charged(<< >>) = SumOn(ChildTimes(<< >>), {})
      <4>1. Charged(<< >>) = SumOn(ChildTimes(<< >>), 1..Len(<< >>))
        BY <3>1, ChargedIs, Zenon
      <4> QED BY <3>1, <4>1
    <3>3. Charged(<< >>) = 0
      BY <3>2, SumOfNone
    <3> QED BY <1>1, <3>3 DEF ChargedOn
  <2>2. SumOn(ChargedOn, Threads) = SumOn(ChargedOn, {})
    BY <2>1, ThreadsFinite, SumOverMore
  <2> QED BY <2>2, SumOfNone
<1> QED BY <1>2, <1>3, <1>4 DEF SelfBooks

SelfInv == Inv /\ IdleIsEmpty /\ ChildrenFit /\ SelfBooks

LEMMA SelfInvAlways == Spec => []SelfInv
<1>1. Init => SelfInv
  BY InvInit, SelfInit DEF SelfInv
<1>2. SelfInv /\ [Next]_vars => SelfInv'
  BY InvStep, IdleIsEmptyStep, ChildrenFitStep, SelfBooksStep DEF SelfInv
<1> QED BY <1>1, <1>2, PTL DEF Spec

\* No nanosecond of a measured root is lost or counted twice, however many threads
\* call whatever they call while the emit thread drains their slots one by one.
THEOREM SelfTimeIsConserved == Spec => []SelfTimeConserved
<1>1. SelfInv => SelfTimeConserved
  <2> SUFFICES ASSUME SelfInv PROVE SelfTimeConserved
    OBVIOUS
  <2>1. Total \in AccumType /\ SelfTime[Total] = Everywhere(SelfTime)
    BY TotalMeasures, SelfTimeIsAdditive DEF SelfInv, Inv
  <2>2. SumFunction([p \in Paths |-> Total.stacks[p].self_ns]) = SelfTime[Total]
    <3>1. SumFunction(SelfOf(Total)) = SumOn(SelfOf(Total), DOMAIN SelfOf(Total))
      BY SumFunctionIs
    <3>2. DOMAIN SelfOf(Total) = Paths
      BY DEF SelfOf
    <3>3. SelfTime[Total] = SumOn(SelfOf(Total), Paths)
      BY <2>1 DEF SelfTime
    <3> QED BY <3>1, <3>2, <3>3 DEF SelfOf
  <2>3. SumFunction([t \in Threads |-> Charged(stack[t])]) = SumOn(ChargedOn, Threads)
    <3>1. SumFunction(ChargedOn) = SumOn(ChargedOn, DOMAIN ChargedOn)
      BY SumFunctionIs
    <3>2. DOMAIN ChargedOn = Threads
      BY DEF ChargedOn
    <3> QED BY <3>1, <3>2 DEF ChargedOn
  <2> QED BY <2>1, <2>2, <2>3 DEF SelfTimeConserved, SelfInv, SelfBooks
<1> QED BY <1>1, SelfInvAlways, PTL

(* Durations.                                                              *)

DurationOf(f) == [acc \in AccumType |-> acc.calls[f].ns]

LEMMA DurationIsAdditive ==
  ASSUME NEW f \in Functions
  PROVE  Additive(DurationOf(f))
<1>1. \A acc \in AccumType : acc.calls[f].ns \in Nat
  BY DEF AccumType
<1>2. DurationOf(f) \in [AccumType -> Nat]
  BY <1>1 DEF DurationOf
<1>3. DurationOf(f)[Zero] = 0
  BY ZeroIsAccum DEF DurationOf, Zero
<1>4. ASSUME NEW a \in AccumType, NEW b \in AccumType
      PROVE  DurationOf(f)[Absorb(a, b)] = DurationOf(f)[a] + DurationOf(f)[b]
  <2>1. Absorb(a, b).calls[f].ns = a.calls[f].ns + b.calls[f].ns
    BY DEF Absorb
  <2> QED BY <2>1, AbsorbIsAccum DEF DurationOf
<1> QED BY <1>2, <1>3, <1>4 DEF Additive

LEMMA RecordedDuration ==
  ASSUME NEW acc \in AccumType, NEW a, a.func \in Functions, NEW elapsed \in Nat,
         Recorded(acc, a, elapsed) \in AccumType, NEW f \in Functions
  PROVE  DurationOf(f)[Recorded(acc, a, elapsed)]
           = DurationOf(f)[acc] + (IF a.func = f /\ a.outermost THEN elapsed ELSE 0)
<1>1. acc.calls \in [Functions -> [count: Nat, ns: Nat]]
  BY DEF AccumType
<1>2. PICK r \in AccumType : r = Recorded(acc, a, elapsed)
  OBVIOUS
<1>3. r.calls = IF a.outermost
                THEN [acc.calls EXCEPT ![a.func] = [count |-> @.count + 1,
                                                    ns |-> @.ns + elapsed]]
                ELSE acc.calls
  BY <1>2 DEF Recorded, AddsCall
<1>4. r.calls[f].ns = acc.calls[f].ns + (IF a.func = f /\ a.outermost THEN elapsed ELSE 0)
  BY <1>1, <1>3
<1> QED BY <1>2, <1>4 DEF DurationOf

\* How long the outermost activation of f on a stack has been open by now.
OpenFor(s, f, now) == [i \in Outermost(s, f) |-> now - s[i].start]
OpenTime(s, f, now) == SumOn(OpenFor(s, f, now), Outermost(s, f))

LEMMA RunningIs ==
  ASSUME NEW t, NEW f
  PROVE  Running(t, f) = OpenTime(stack[t], f, clock)
<1>1. SumFunction(OpenFor(stack[t], f, clock))
        = SumOn(OpenFor(stack[t], f, clock), DOMAIN OpenFor(stack[t], f, clock))
  BY SumFunctionIs
<1>2. DOMAIN OpenFor(stack[t], f, clock) = Outermost(stack[t], f)
  BY DEF OpenFor
<1> QED BY <1>1, <1>2 DEF Running, OpenTime, OpenFor

\* At most one activation of a function on a stack is outermost.
LEMMA OpenTimeIs ==
  ASSUME NEW n \in Nat, NEW now \in Nat, NEW s \in Seq(ActivationUpTo(n, now)),
         NEW f, NEW d, DepthTells(s, f, d)
  PROVE  /\ Outermost(s, f) = {} => OpenTime(s, f, now) = 0
         /\ \A i \in Outermost(s, f) :
              /\ Outermost(s, f) = {i}
              /\ OpenTime(s, f, now) = now - s[i].start
              /\ s[i].start \in Nat /\ s[i].start <= now /\ i \in 1..Len(s)
         /\ OpenTime(s, f, now) \in Nat
<1>1. Outermost(s, f) = {} => OpenTime(s, f, now) = 0
  BY SumOfNone DEF OpenTime
<1>2. ASSUME NEW i \in Outermost(s, f)
      PROVE  /\ Outermost(s, f) = {i}
             /\ OpenTime(s, f, now) = now - s[i].start
             /\ OpenTime(s, f, now) \in Nat
             /\ s[i].start \in Nat /\ s[i].start <= now /\ i \in 1..Len(s)
  <2>1. Levels(s, f) \subseteq 1..Len(s) /\ Len(s) \in Nat
    BY LevelsFinite
  <2>2. \A j \in Outermost(s, f) : /\ j \in 1..Len(s)
                                   /\ \A k \in Outermost(s, f) : j <= k
    BY <2>1 DEF Outermost, DepthTells
  <2>3. Outermost(s, f) = {i}
    <3>1. \A j \in Outermost(s, f) : j = i
      BY <2>1, <2>2
    <3> QED BY <3>1
  <2>4. i \in 1..Len(s) /\ s[i] \in ActivationUpTo(n, now)
    BY <2>2, ElementOfSeq
  <2>5. s[i].start \in Nat /\ s[i].start <= now
    BY <2>4 DEF ActivationUpTo
  <2>6. OpenFor(s, f, now)[i] = now - s[i].start /\ OpenFor(s, f, now)[i] \in Nat
    BY <2>5 DEF OpenFor
  <2>7. SumOn(OpenFor(s, f, now), {i}) = OpenFor(s, f, now)[i]
    <3>1. PICK g : g = OpenFor(s, f, now)
      OBVIOUS
    <3>2. g[i] \in Int
      BY <2>6, <3>1
    <3>3. SumOn(g, {i}) = g[i]
      BY <3>2, SumOfOne
    <3> QED BY <3>1, <3>3
  <2> QED BY <2>3, <2>4, <2>5, <2>6, <2>7 DEF OpenTime
<1>3. OpenTime(s, f, now) \in Nat
  BY <1>1, <1>2
<1> QED BY <1>1, <1>2, <1>3

\* One activation more or less on top.
LEMMA OpenTimeOfLonger ==
  ASSUME NEW n \in Nat, NEW now \in Nat, NEW s \in Seq(ActivationUpTo(n, now)),
         NEW r \in Seq(ActivationUpTo(n, now)), Len(s) = Len(r) + 1,
         \A i \in 1..Len(r) : SameLevel(s[i], r[i]) /\ s[i].start = r[i].start,
         NEW f, NEW d, DepthTells(s, f, d), NEW e, DepthTells(r, f, e)
  PROVE  OpenTime(s, f, now) = OpenTime(r, f, now)
           + (IF s[Len(s)].func = f /\ s[Len(s)].outermost THEN now - s[Len(s)].start ELSE 0)
<1>1. Levels(r, f) = Levels(s, f) \ {Len(s)}
  BY LowerLevels
<1>2. Levels(r, f) \subseteq 1..Len(r) /\ Len(r) \in Nat /\ Len(s) \in Nat
  BY LevelsFinite
<1>3. \A i \in Levels(r, f) : s[i].outermost = r[i].outermost
  BY <1>2 DEF SameLevel
<1>4. Outermost(r, f) = Outermost(s, f) \ {Len(s)} /\ Outermost(r, f) \subseteq 1..Len(r)
  BY <1>1, <1>2, <1>3 DEF Outermost
<1>5. DOMAIN s = 1..Len(s) /\ Len(s) \in DOMAIN s
  BY <1>2, LenProperties
<1>6. Len(s) \in Outermost(s, f) <=> s[Len(s)].func = f /\ s[Len(s)].outermost
  BY <1>5 DEF Outermost, Levels
<1>7. OpenTime(r, f, now) \in Nat /\ OpenTime(s, f, now) \in Nat
  BY OpenTimeIs
<1>8. CASE Len(s) \in Outermost(s, f)
  <2>1. Outermost(s, f) = {Len(s)} /\ OpenTime(s, f, now) = now - s[Len(s)].start
    BY <1>8, OpenTimeIs
  <2>2. Outermost(r, f) = {}
    BY <1>4, <2>1
  <2>3. OpenTime(r, f, now) = 0
    BY <2>2, OpenTimeIs
  <2> QED BY <1>6, <1>7, <1>8, <2>1, <2>3
<1>9. CASE Len(s) \notin Outermost(s, f)
  <2>1. Outermost(r, f) = Outermost(s, f)
    BY <1>4, <1>9
  <2>2. OpenTime(r, f, now) = OpenTime(s, f, now)
    <3>1. CASE Outermost(s, f) = {}
      <4>1. OpenTime(s, f, now) = 0
        BY <3>1, OpenTimeIs
      <4>2. OpenTime(r, f, now) = 0
        BY <2>1, <3>1, OpenTimeIs
      <4> QED BY <4>1, <4>2
    <3>2. CASE Outermost(s, f) # {}
      <4>1. PICK i \in Outermost(s, f) : i \in Outermost(r, f)
        BY <2>1, <3>2
      <4>2. OpenTime(s, f, now) = now - s[i].start
        BY OpenTimeIs
      <4>3. OpenTime(r, f, now) = now - r[i].start
        BY <4>1, OpenTimeIs
      <4>4. s[i].start = r[i].start
        BY <1>4, <4>1
      <4> QED BY <4>2, <4>3, <4>4
    <3> QED BY <3>1, <3>2
  <2> QED BY <1>6, <1>7, <1>9, <2>2
<1> QED BY <1>8, <1>9

LEMMA OpenTimeOfPopped ==
  ASSUME NEW n \in Nat, NEW now \in Nat, NEW s \in Seq(ActivationUpTo(n, now)),
         s # << >>, NEW elapsed \in Nat,
         NEW f, NEW d, DepthTells(s, f, d), NEW e, DepthTells(Popped(s, elapsed), f, e)
  PROVE  OpenTime(s, f, now) = OpenTime(Popped(s, elapsed), f, now)
           + (IF Last(s).func = f /\ Last(s).outermost THEN now - Last(s).start ELSE 0)
<1>1. PICK r \in Seq(ActivationUpTo(n, now)) : r = Popped(s, elapsed)
  BY PoppedIsStack
<1>2. Len(s) = Len(r) + 1 /\ \A i \in 1..Len(r) : SameLevel(s[i], r[i])
  BY <1>1, PoppedIsStack
<1>3. \A i \in 1..Len(r) : SameLevel(s[i], r[i]) /\ s[i].start = r[i].start
  <2>1. \A i \in 1..Len(Popped(s, elapsed)) : Popped(s, elapsed)[i].start = s[i].start
    BY PoppedIs
  <2> QED BY <1>1, <1>2, <2>1
<1>4. DepthTells(r, f, e) /\ Len(s) = Len(r) + 1
  BY <1>1, <1>2
<1>5. OpenTime(s, f, now) = OpenTime(r, f, now)
        + (IF s[Len(s)].func = f /\ s[Len(s)].outermost THEN now - s[Len(s)].start ELSE 0)
  <2>1. Levels(r, f) = Levels(s, f) \ {Len(s)}
    BY <1>3, <1>4, LowerLevels
  <2>2. Levels(r, f) \subseteq 1..Len(r) /\ Len(r) \in Nat /\ Len(s) \in Nat
    BY LevelsFinite
  <2>3. \A i \in Levels(r, f) : s[i].outermost = r[i].outermost
    BY <1>3, <2>2 DEF SameLevel
  <2>4. Outermost(r, f) = Outermost(s, f) \ {Len(s)} /\ Outermost(r, f) \subseteq 1..Len(r)
    BY <2>1, <2>2, <2>3 DEF Outermost
  <2>5. DOMAIN s = 1..Len(s) /\ Len(s) \in DOMAIN s
    BY <1>4, <2>2, LenProperties
  <2>6. Len(s) \in Outermost(s, f) <=> s[Len(s)].func = f /\ s[Len(s)].outermost
    BY <2>5 DEF Outermost, Levels
  <2>7. OpenTime(r, f, now) \in Nat /\ OpenTime(s, f, now) \in Nat
    BY <1>4, OpenTimeIs
  <2>8. CASE Len(s) \in Outermost(s, f)
    <3>1. Outermost(s, f) = {Len(s)} /\ OpenTime(s, f, now) = now - s[Len(s)].start
      BY <2>8, <1>4, OpenTimeIs
    <3>2. Outermost(r, f) = {}
      BY <2>4, <3>1
    <3>3. OpenTime(r, f, now) = 0
      BY <3>2, <1>4, OpenTimeIs
    <3> QED BY <2>6, <2>7, <2>8, <3>1, <3>3
  <2>9. CASE Len(s) \notin Outermost(s, f)
    <3>1. Outermost(r, f) = Outermost(s, f)
      BY <2>4, <2>9
    <3>2. OpenTime(r, f, now) = OpenTime(s, f, now)
      <4>1. CASE Outermost(s, f) = {}
        <5>1. OpenTime(s, f, now) = 0
          BY <4>1, <1>4, OpenTimeIs
        <5>2. OpenTime(r, f, now) = 0
          BY <3>1, <4>1, <1>4, OpenTimeIs
        <5> QED BY <5>1, <5>2
      <4>2. CASE Outermost(s, f) # {}
        <5>1. PICK i \in Outermost(s, f) : i \in Outermost(r, f)
          BY <3>1, <4>2
        <5>2. OpenTime(s, f, now) = now - s[i].start
          BY <1>4, OpenTimeIs
        <5>3. OpenTime(r, f, now) = now - r[i].start
          BY <5>1, <1>4, OpenTimeIs
        <5>4. s[i].start = r[i].start
          BY <1>3, <2>4, <5>1
        <5> QED BY <5>2, <5>3, <5>4
      <4> QED BY <4>1, <4>2
    <3> QED BY <2>6, <2>7, <2>9, <3>2
  <2> QED BY <2>8, <2>9
<1> QED BY <1>1, <1>5 DEF Last

RunningOn(f) == [t \in Threads |-> Running(t, f)]

WallClock ==
  \A f \in Functions :
    Everywhere(DurationOf(f)) + SumOn(RunningOn(f), Threads) <= Cardinality(Threads) * clock

LEMMA RunningOnIs ==
  ASSUME Inv, NEW f \in Functions
  PROVE  /\ \A t \in Threads : /\ RunningOn(f)[t] = OpenTime(stack[t], f, clock)
                               /\ RunningOn(f)[t] \in Nat
         /\ SumOn(RunningOn(f), Threads) \in Nat
<1>1. Len(nodes) \in Nat /\ clock \in Nat
  BY NodesBound DEF Inv, CountersInv
<1>2. ASSUME NEW t \in Threads
      PROVE  RunningOn(f)[t] = OpenTime(stack[t], f, clock) /\ RunningOn(f)[t] \in Nat
  <2>1. RunningOn(f)[t] = OpenTime(stack[t], f, clock)
    BY RunningIs DEF RunningOn
  <2>2. stack[t] \in Seq(ActivationUpTo(Len(nodes), clock))
        /\ DepthTells(stack[t], f, depth[t][f])
    BY DEF Inv, StackInv, DepthMatchesStack
  <2>3. OpenTime(stack[t], f, clock) \in Nat
    BY <1>1, <2>2, OpenTimeIs
  <2> QED BY <2>1, <2>3
<1> QED BY <1>2, ThreadsFinite, SumIsNat

\* The same after the step.
LEMMA RunningOnIsThen ==
  ASSUME Inv', NEW f \in Functions
  PROVE  \A t \in Threads : /\ RunningOn(f)'[t] = OpenTime(stack'[t], f, clock')
                            /\ OpenTime(stack'[t], f, clock') \in Nat
<1>1. Len(nodes') \in Nat /\ clock' \in Nat
  BY LenProperties DEF Inv, RegistryInv, RegistryTypeOK, CountersInv
<1> SUFFICES ASSUME NEW t \in Threads
             PROVE  /\ RunningOn(f)'[t] = OpenTime(stack'[t], f, clock')
                    /\ OpenTime(stack'[t], f, clock') \in Nat
  OBVIOUS
<1>2. RunningOn(f)'[t] = OpenTime(stack'[t], f, clock')
  <2>1. SumFunction(OpenFor(stack'[t], f, clock'))
          = SumOn(OpenFor(stack'[t], f, clock'), DOMAIN OpenFor(stack'[t], f, clock'))
    BY SumFunctionIs
  <2>2. DOMAIN OpenFor(stack'[t], f, clock') = Outermost(stack'[t], f)
    BY DEF OpenFor
  <2>3. RunningOn(f)'[t] = SumFunction(OpenFor(stack'[t], f, clock'))
    BY DEF RunningOn, Running, OpenFor
  <2> QED BY <2>1, <2>2, <2>3 DEF OpenTime
<1>3. stack'[t] \in Seq(ActivationUpTo(Len(nodes'), clock'))
      /\ DepthTells(stack'[t], f, depth'[t][f])
  BY DEF Inv, StackInv, DepthMatchesStack
<1>4. OpenTime(stack'[t], f, clock') \in Nat
  BY <1>1, <1>3, OpenTimeIs
<1> QED BY <1>2, <1>4

\* One stack longer or shorter: what runs on all of them changes by as much.
LEMMA RunningOnChanges ==
  ASSUME Inv, Inv', NEW f \in Functions, NEW t \in Threads, NEW s,
         stack' = [stack EXCEPT ![t] = s], clock' = clock
  PROVE  SumOn(RunningOn(f), Threads)'
           = SumOn(RunningOn(f), Threads) + OpenTime(s, f, clock) - OpenTime(stack[t], f, clock)
<1>1. PICK a : a = RunningOn(f)
  OBVIOUS
<1>2. PICK b : b = RunningOn(f)'
  OBVIOUS
<1>3. \A u \in Threads : a[u] = OpenTime(stack[u], f, clock) /\ a[u] \in Int
  BY <1>1, RunningOnIs
<1>4. \A u \in Threads : b[u] = OpenTime(stack'[u], f, clock) /\ b[u] \in Int
  BY <1>2, RunningOnIsThen
<1>5. \A u \in Threads \ {t} : a[u] = b[u]
  BY <1>3, <1>4 DEF Inv, StackInv
<1>6. SumOn(b, Threads) = SumOn(a, Threads) + b[t] - a[t]
  <2>1. \A u \in Threads : a[u] \in Int /\ b[u] \in Int
    BY <1>3, <1>4
  <2> QED BY <1>5, <2>1, ThreadsFinite, SumChanges
<1>7. b[t] = OpenTime(s, f, clock) /\ a[t] = OpenTime(stack[t], f, clock)
  BY <1>3, <1>4 DEF Inv, StackInv
<1>8. SumOn(RunningOn(f), Threads)' = SumOn(b, Threads)
  BY <1>2
<1>9. SumOn(RunningOn(f), Threads) = SumOn(a, Threads)
  BY <1>1
<1> QED BY <1>6, <1>7, <1>8, <1>9

\* Time passing adds at most a tick for every thread.
LEMMA RunningOnTicks ==
  ASSUME Inv, Inv', NEW f \in Functions, UNCHANGED <<stack, depth, nodes>>, clock' = clock + 1
  PROVE  SumOn(RunningOn(f), Threads)' <= SumOn(RunningOn(f), Threads) + Cardinality(Threads)
<1>1. PICK a : a = RunningOn(f)
  OBVIOUS
<1>2. PICK b : b = RunningOn(f)'
  OBVIOUS
<1>3. ASSUME NEW u \in Threads
      PROVE  a[u] \in Int /\ b[u] \in Int /\ b[u] <= a[u] + 1
  <2>1. a[u] = OpenTime(stack[u], f, clock) /\ a[u] \in Nat
    BY <1>1, RunningOnIs
  <2>2. b[u] = OpenTime(stack[u], f, clock') /\ b[u] \in Nat
    BY <1>2, RunningOnIsThen
  <2>3. Len(nodes) \in Nat /\ clock \in Nat /\ clock' \in Nat
    BY NodesBound DEF Inv, CountersInv
  <2>4. /\ stack[u] \in Seq(ActivationUpTo(Len(nodes), clock))
        /\ DepthTells(stack[u], f, depth[u][f])
    BY DEF Inv, StackInv, DepthMatchesStack
  <2>5. stack[u] \in Seq(ActivationUpTo(Len(nodes), clock'))
    BY <2>3, <2>4, StackWidens
  <2>6. CASE Outermost(stack[u], f) = {}
    <3>1. OpenTime(stack[u], f, clock') = 0
      BY <2>6, SumOfNone DEF OpenTime
    <3> QED BY <2>1, <2>2, <3>1
  <2>7. ASSUME NEW i \in Outermost(stack[u], f)
        PROVE  b[u] <= a[u] + 1
    <3>1. OpenTime(stack[u], f, clock) = clock - stack[u][i].start /\ stack[u][i].start \in Nat
      BY <2>3, <2>4, OpenTimeIs
    <3>2. OpenTime(stack[u], f, clock') = clock' - stack[u][i].start
      BY <2>3, <2>4, <2>5, OpenTimeIs
    <3>3. PICK from \in Nat : from = stack[u][i].start
      BY <3>1
    <3>4. a[u] = clock - from /\ b[u] = (clock + 1) - from
      BY <2>1, <2>2, <3>1, <3>2, <3>3
    <3> QED BY <2>3, <3>3, <3>4
  <2> QED BY <2>1, <2>2, <2>6, <2>7
<1>4. SumOn(b, Threads) <= SumOn(a, Threads) + Cardinality(Threads)
  BY <1>3, ThreadsFinite, SumGrows
<1>5. SumOn(RunningOn(f), Threads)' = SumOn(b, Threads)
  BY <1>2
<1>6. SumOn(RunningOn(f), Threads) = SumOn(a, Threads)
  BY <1>1
<1> QED BY <1>4, <1>5, <1>6

LEMMA WallClockStep ==
  ASSUME Inv, IdleIsEmpty, WallClock, [Next]_vars
  PROVE  WallClock'
<1>1. Inv' /\ AccumInv /\ clock \in Nat /\ Len(nodes) \in Nat
  BY InvStep, NodesBound DEF Inv, CountersInv
<1>2. Cardinality(Threads) \in Nat
  BY ThreadsFinite, FS_CardinalityType
<1> SUFFICES ASSUME NEW f \in Functions
             PROVE  Everywhere(DurationOf(f))' + SumOn(RunningOn(f), Threads)'
                      <= Cardinality(Threads) * clock'
  BY DEF WallClock
<1>3. PICK m : m = DurationOf(f) /\ Additive(m)
  BY DurationIsAdditive
<1>4. /\ Everywhere(m) \in Nat /\ SumOn(RunningOn(f), Threads) \in Nat
      /\ Everywhere(m) + SumOn(RunningOn(f), Threads) <= Cardinality(Threads) * clock
  <2>1. Everywhere(m) \in Nat
    BY <1>1, <1>3, EverywhereIsNat
  <2>2. SumOn(RunningOn(f), Threads) \in Nat
    BY RunningOnIs
  <2> QED BY <1>3, <2>1, <2>2 DEF WallClock
<1>5. Everywhere(DurationOf(f))' = Everywhere(m)'
  BY <1>3
<1>6. ASSUME UNCHANGED <<stack, clock>>
      PROVE  SumOn(RunningOn(f), Threads)' = SumOn(RunningOn(f), Threads)
  <2>1. RunningOn(f)' = RunningOn(f)
    BY <1>6 DEF RunningOn, Running
  <2> QED BY <2>1
<1>7. CASE Quiet
  <2>1. Everywhere(m)' = Everywhere(m)
    BY <1>7, BooksKept DEF Quiet, drainVars
  <2>2. CASE clock' = clock
    <3>1. SumOn(RunningOn(f), Threads)' = SumOn(RunningOn(f), Threads)
      BY <1>6, <1>7, <2>2 DEF Quiet
    <3>2. Cardinality(Threads) * clock' = Cardinality(Threads) * clock
      BY <2>2
    <3>3. PICK bound : bound = Cardinality(Threads) * clock
      OBVIOUS
    <3>4. /\ Everywhere(DurationOf(f))' = Everywhere(m)
          /\ Everywhere(m) + SumOn(RunningOn(f), Threads) <= bound
      BY <1>4, <1>5, <2>1, <3>3
    <3> QED BY <3>1, <3>2, <3>3, <3>4
  <2>3. CASE clock' = clock + 1
    <3>1. SumOn(RunningOn(f), Threads)' <= SumOn(RunningOn(f), Threads) + Cardinality(Threads)
      BY <1>1, <1>7, <2>3, RunningOnTicks DEF Quiet
    <3>2. SumOn(RunningOn(f), Threads)' \in Int
      <4>1. PICK b : b = RunningOn(f)'
        OBVIOUS
      <4>2. \A t \in Threads : b[t] \in Int
        BY <1>1, <4>1, RunningOnIsThen
      <4>3. SumOn(b, Threads) \in Int
        BY <4>2, ThreadsFinite, SumIsInt
      <4> QED BY <4>1, <4>3
    <3>3. PICK k \in Nat : k = Cardinality(Threads)
      BY <1>2
    <3>4. k * (clock + 1) = k * clock + k /\ k * clock \in Nat
      BY <1>1
    <3>5. PICK r \in Int : r = SumOn(RunningOn(f), Threads)'
      BY <3>2
    <3>6. PICK e \in Nat, was \in Nat : e = Everywhere(m) /\ was = SumOn(RunningOn(f), Threads)
      BY <1>4
    <3>7. r <= was + k /\ e + was <= k * clock
      BY <1>4, <3>1, <3>3, <3>5, <3>6
    <3>8. e + r <= k * clock + k
      BY <3>4, <3>7
    <3>9. e + r <= Cardinality(Threads) * clock'
      BY <2>3, <3>3, <3>4, <3>8
    <3> QED BY <1>5, <2>1, <3>5, <3>6, <3>9
  <2> QED BY <1>7, <2>2, <2>3 DEF Quiet
<1>8. CASE Drain /\ UNCHANGED <<stack, depth, nodes, overflowed, rootNs, clock>>
  <2>1. Everywhere(m)' = Everywhere(m)
    BY <1>3, <1>8, DrainConserves
  <2> QED BY <1>4, <1>5, <1>6, <1>8, <2>1
<1>9. ASSUME NEW t \in Threads, NEW func \in Functions, Open(t, func)
      PROVE  Everywhere(m)' + SumOn(RunningOn(f), Threads)' <= Cardinality(Threads) * clock'
  <2>1. PICK a : /\ stack' = [stack EXCEPT ![t] = Append(stack[t], a)]
                 /\ stack'[t] = Append(stack[t], a) /\ a.start = clock
                 /\ stack[t] \in Seq(ActivationUpTo(Len(nodes'), clock))
                 /\ a \in ActivationUpTo(Len(nodes'), clock)
                 /\ UNCHANGED <<clock, accum, drainVars>>
    BY <1>9, OpeningIs
  <2>2. Everywhere(m)' = Everywhere(m)
    BY <2>1, BooksKept DEF drainVars
  <2>3. PICK n \in Nat : n = Len(nodes')
    BY <1>1, LenProperties DEF Inv, RegistryInv, RegistryTypeOK
  <2>4. PICK s \in Seq(ActivationUpTo(n, clock)) : s = Append(stack[t], a)
    BY <2>1, <2>3, AppendProperties
  <2>5. PICK r \in Seq(ActivationUpTo(n, clock)) : r = stack[t]
    BY <2>1, <2>3
  <2>6. Len(s) = Len(r) + 1 /\ s[Len(s)] = a /\ \A i \in 1..Len(r) : s[i] = r[i]
    BY <2>1, <2>3, <2>4, <2>5, AppendProperties, LenProperties
  <2>7. DepthTells(r, f, depth[t][f]) /\ DepthTells(s, f, depth'[t][f])
    BY <1>1, <2>1, <2>4, <2>5 DEF Inv, DepthMatchesStack
  <2>8. OpenTime(s, f, clock) = OpenTime(r, f, clock)
    <3>1. \A i \in 1..Len(r) : SameLevel(s[i], r[i]) /\ s[i].start = r[i].start
      BY <2>6 DEF SameLevel
    <3>2. OpenTime(s, f, clock) = OpenTime(r, f, clock)
            + (IF s[Len(s)].func = f /\ s[Len(s)].outermost THEN clock - s[Len(s)].start ELSE 0)
      BY <1>1, <2>6, <2>7, <3>1, OpenTimeOfLonger
    <3>3. clock - s[Len(s)].start = 0
      BY <1>1, <2>1, <2>6
    <3>4. OpenTime(r, f, clock) \in Nat
      BY <1>1, <2>7, OpenTimeIs
    <3> QED BY <3>2, <3>3, <3>4
  <2>9. SumOn(RunningOn(f), Threads)'
          = SumOn(RunningOn(f), Threads) + OpenTime(s, f, clock) - OpenTime(stack[t], f, clock)
    BY <1>1, <2>1, <2>4, RunningOnChanges
  <2>10. SumOn(RunningOn(f), Threads)' = SumOn(RunningOn(f), Threads)
    <3>1. OpenTime(r, f, clock) \in Nat
      BY <1>1, <2>7, OpenTimeIs
    <3> QED BY <1>4, <2>5, <2>8, <2>9, <3>1
  <2> QED BY <1>4, <2>1, <2>2, <2>10
<1>10. ASSUME NEW t \in Threads, Close(t)
       PROVE  Everywhere(m)' + SumOn(RunningOn(f), Threads)' <= Cardinality(Threads) * clock'
  <2>1. PICK a \in ActivationUpTo(Len(nodes), clock), elapsed \in Nat :
          /\ a = Last(stack[t]) /\ a = stack[t][Len(stack[t])]
          /\ Len(stack[t]) \in Nat \ {0} /\ elapsed = clock - a.start
          /\ a.func \in Functions
          /\ stack' = [stack EXCEPT ![t] = Popped(stack[t], elapsed)]
          /\ stack'[t] = Popped(stack[t], elapsed)
          /\ accum' = [accum EXCEPT ![t] = Recorded(@, a, elapsed)]
          /\ Recorded(accum[t], a, elapsed) \in AccumType
          /\ UNCHANGED <<clock, drainVars>>
    BY <1>10, ClosingIs
  <2>2. PICK gain \in Nat : gain = IF a.func = f /\ a.outermost THEN elapsed ELSE 0
    OBVIOUS
  <2>3. Everywhere(m)' = Everywhere(m) + gain
    <3>1. PICK acc \in AccumType : acc = Recorded(accum[t], a, elapsed)
      BY <2>1
    <3>2. accum' = [accum EXCEPT ![t] = acc] /\ UNCHANGED drainVars
      BY <2>1, <3>1
    <3>3. Everywhere(m)' = Everywhere(m) + m[acc] - m[accum[t]]
      <4>1. \A q : Additive(q) => Everywhere(q)' = Everywhere(q) + q[acc] - q[accum[t]]
        BY <3>2, CloseBooks
      <4> QED BY <1>3, <4>1
    <3>4. accum[t] \in AccumType /\ m[accum[t]] \in Nat
      BY <1>1, <1>3 DEF AccumInv, Additive
    <3>5. m[acc] = m[accum[t]] + gain
      <4>1. DurationOf(f)[Recorded(accum[t], a, elapsed)] = DurationOf(f)[accum[t]]
              + (IF a.func = f /\ a.outermost THEN elapsed ELSE 0)
        BY <2>1, <3>4, RecordedDuration
      <4> QED BY <1>3, <2>2, <3>1, <4>1
    <3> QED BY <1>4, <3>3, <3>4, <3>5
  <2>4. PICK n \in Nat : n = Len(nodes)
    BY <1>1
  <2>5. PICK s \in Seq(ActivationUpTo(n, clock)) : s = stack[t] /\ s # << >>
    <3>1. stack[t] \in Seq(ActivationUpTo(n, clock))
      BY <2>4 DEF Inv, StackInv
    <3>2. stack[t] # << >>
      BY <1>10 DEF Close
    <3> QED BY <3>1, <3>2
  <2>6. PICK r \in Seq(ActivationUpTo(n, clock)) : r = Popped(s, elapsed)
    BY <1>1, <2>5, PoppedIsStack
  <2>8. DepthTells(s, f, depth[t][f]) /\ DepthTells(r, f, depth'[t][f])
    BY <1>1, <2>1, <2>5, <2>6 DEF Inv, DepthMatchesStack
  <2>9. OpenTime(s, f, clock) = OpenTime(r, f, clock) + gain
    <3>1. OpenTime(s, f, clock) = OpenTime(Popped(s, elapsed), f, clock)
            + (IF Last(s).func = f /\ Last(s).outermost THEN clock - Last(s).start ELSE 0)
      <4>1. clock \in Nat
        BY <1>1
      <4>2. PICK d, e : DepthTells(s, f, d) /\ DepthTells(Popped(s, elapsed), f, e)
        BY <2>6, <2>8
      <4> QED BY <2>5, <4>1, <4>2, OpenTimeOfPopped
    <3>2. Last(s) = a
      BY <2>1, <2>5
    <3> QED BY <2>1, <2>2, <2>6, <3>1, <3>2
  <2>10. SumOn(RunningOn(f), Threads)'
           = SumOn(RunningOn(f), Threads) + OpenTime(r, f, clock) - OpenTime(s, f, clock)
    BY <1>1, <2>1, <2>5, <2>6, RunningOnChanges
  <2>11. OpenTime(r, f, clock) \in Nat
    BY <1>1, <2>8, OpenTimeIs
  <2>12. Everywhere(m)' + SumOn(RunningOn(f), Threads)'
           = Everywhere(m) + SumOn(RunningOn(f), Threads)
    BY <1>4, <2>3, <2>9, <2>10, <2>11
  <2> QED BY <1>4, <2>1, <2>12
<1> QED BY <1>5, <1>7, <1>8, <1>9, <1>10, StepIs

WallClockInv == SelfInv /\ WallClock

LEMMA WallClockInit == Init => WallClock
<1> SUFFICES ASSUME Init, NEW f \in Functions
             PROVE  Everywhere(DurationOf(f)) + SumOn(RunningOn(f), Threads)
                      <= Cardinality(Threads) * clock
  BY DEF WallClock
<1>1. Everywhere(DurationOf(f)) = 0 /\ clock = 0 /\ Cardinality(Threads) \in Nat
  BY BooksInit, DurationIsAdditive, ThreadsFinite, FS_CardinalityType DEF Init
<1>2. Inv
  BY InvInit
<1>3. \A t \in Threads : RunningOn(f)[t] = 0 /\ RunningOn(f)[t] \in Int
  <2>1. \A t \in Threads : stack[t] = << >>
    BY DEF Init
  <2>2. Levels(<< >>, f) = {}
    <3>1. DOMAIN << >> = {}
      OBVIOUS
    <3> QED BY <3>1 DEF Levels
  <2>3. Outermost(<< >>, f) = {}
    BY <2>2 DEF Outermost
  <2>4. \A t \in Threads : RunningOn(f)[t] = OpenTime(stack[t], f, clock)
    BY <1>2, RunningOnIs
  <2>5. OpenTime(<< >>, f, clock) = 0
    BY <2>3, SumOfNone DEF OpenTime
  <2> QED BY <2>1, <2>4, <2>5
<1>4. SumOn(RunningOn(f), Threads) = 0
  <2>1. SumOn(RunningOn(f), Threads) = SumOn(RunningOn(f), {})
    BY <1>3, ThreadsFinite, SumOverMore
  <2> QED BY <2>1, SumOfNone
<1> QED BY <1>1, <1>4

\* Recursion never makes a function run longer than the wall clock: the inductive
\* statement counts the activation still open, whose time close() is about to add.
THEOREM DurationsFitTheWallClock == Spec => []DurationWithinWallClock
<1>1. Init => WallClockInv
  BY InvInit, SelfInit, WallClockInit DEF WallClockInv, SelfInv
<1>2. WallClockInv /\ [Next]_vars => WallClockInv'
  BY InvStep, IdleIsEmptyStep, ChildrenFitStep, SelfBooksStep, WallClockStep
     DEF WallClockInv, SelfInv
<1>3. WallClockInv => DurationWithinWallClock
  <2> SUFFICES ASSUME WallClockInv, NEW f \in Functions
               PROVE  Total.calls[f].ns + SumFunction([t \in Threads |-> Running(t, f)])
                        <= Cardinality(Threads) * clock
    BY DEF DurationWithinWallClock
  <2>1. Total \in AccumType /\ DurationOf(f)[Total] = Everywhere(DurationOf(f))
    BY TotalMeasures, DurationIsAdditive DEF WallClockInv, SelfInv, Inv
  <2>2. Total.calls[f].ns = Everywhere(DurationOf(f))
    BY <2>1 DEF DurationOf
  <2>3. SumFunction([t \in Threads |-> Running(t, f)]) = SumOn(RunningOn(f), Threads)
    <3>1. SumFunction(RunningOn(f)) = SumOn(RunningOn(f), DOMAIN RunningOn(f))
      BY SumFunctionIs
    <3>2. DOMAIN RunningOn(f) = Threads
      BY DEF RunningOn
    <3> QED BY <3>1, <3>2 DEF RunningOn
  <2> QED BY <2>2, <2>3 DEF WallClockInv, WallClock
<1> QED BY <1>1, <1>2, <1>3, PTL DEF Spec

-----------------------------------------------------------------------------
(* Calls and contexts: while the tree refused nothing, what is open is in  *)
(* contexts of its own function, an outermost one in one its function      *)
(* opens, a recursive one below it.                                        *)

InContext(a) ==
  /\ a.path \in DOMAIN nodes /\ nodes[a.path].func = a.func
  /\ a.outermost => a.counts_here /\ a.path \in OwnContexts(a.func)
  /\ ~a.outermost => a.path \notin OwnContexts(a.func)

Remembers(d, func) ==
  d.count # 0 =>
    /\ d.path \in DOMAIN nodes /\ nodes[d.path].func = func
    /\ d.recursion_path # 0 =>
         /\ d.recursion_path \in DOMAIN nodes
         /\ nodes[d.recursion_path] = Node(d.path, func)

ContextsFit ==
  /\ \A t \in Threads : \A i \in 1..Len(stack[t]) : InContext(stack[t][i])
  /\ \A t \in Threads : \A func \in Functions : Remembers(depth[t][func], func)

\* A tree that grows moves no context from one function to another.
LEMMA OwnContextsKept ==
  ASSUME RegistryInv, RegistryInv', Kept
  PROVE  /\ DOMAIN nodes = 1..Len(nodes) /\ DOMAIN nodes \subseteq DOMAIN nodes'
         /\ \A p \in DOMAIN nodes : nodes'[p] = nodes[p]
         /\ \A f : \A p \in DOMAIN nodes : p \in OwnContexts(f) <=> p \in OwnContexts(f)'
<1>1. /\ Len(nodes) \in Nat /\ Len(nodes') \in Nat /\ Len(nodes) <= Len(nodes')
      /\ DOMAIN nodes = 1..Len(nodes) /\ DOMAIN nodes' = 1..Len(nodes')
  BY LenProperties DEF RegistryInv, RegistryTypeOK, Kept
<1>2. DOMAIN nodes \subseteq DOMAIN nodes' /\ \A p \in DOMAIN nodes : nodes'[p] = nodes[p]
  BY <1>1 DEF Kept
<1>3. ASSUME NEW f, NEW p \in DOMAIN nodes
      PROVE  p \in OwnContexts(f) <=> p \in OwnContexts(f)'
  <2>1. nodes'[p] = nodes[p] /\ p \in DOMAIN nodes'
    BY <1>2
  <2>2. PICK from : from = nodes[p].parent
    OBVIOUS
  <2>3. from < p /\ from \in Nat
    <3>1. nodes[p] \in NodeType
      BY <1>1, ElementOfSeq DEF RegistryInv, RegistryTypeOK
    <3>2. from \in Nat
      BY <2>2, <3>1, MaxPathsAssumption DEF NodeType
    <3> QED BY <2>2, <3>2 DEF RegistryInv, PathForest
  <2>4. from # 0 => nodes'[from] = nodes[from]
    <3>1. p \in 1..Len(nodes)
      BY <1>1
    <3>2. from # 0 => from \in 1..Len(nodes)
      BY <1>1, <2>3, <3>1
    <3> QED BY <1>1, <1>2, <3>2
  <2>5. p \in OwnContexts(f) <=> nodes[p].func = f /\ (from = 0 \/ nodes[from].func # f)
    BY <2>2 DEF OwnContexts
  <2>6. p \in OwnContexts(f)' <=> nodes'[p].func = f /\ (from = 0 \/ nodes'[from].func # f)
    BY <2>1, <2>2 DEF OwnContexts
  <2> QED BY <2>1, <2>4, <2>5, <2>6
<1> QED BY <1>1, <1>2, <1>3

LEMMA InContextKept ==
  ASSUME RegistryInv, RegistryInv', Kept, NEW a, InContext(a)
  PROVE  InContext(a)'
<1>1. a.path \in DOMAIN nodes' /\ nodes'[a.path] = nodes[a.path]
  BY OwnContextsKept DEF InContext
<1>2. a.path \in OwnContexts(a.func) <=> a.path \in OwnContexts(a.func)'
  BY OwnContextsKept DEF InContext
<1> QED BY <1>1, <1>2 DEF InContext

LEMMA RemembersKept ==
  ASSUME RegistryInv, RegistryInv', Kept, NEW d, NEW func, Remembers(d, func)
  PROVE  Remembers(d, func)'
BY OwnContextsKept DEF Remembers

\* What context() returns while the tree refuses nothing.
LEMMA ContextIs ==
  ASSUME RegistryInv, RegistryInv', MemoInv, NEW t \in Threads,
         NEW parent \in 0..Len(nodes), NEW func \in Functions, NEW path \in Paths,
         Context(t, parent, func, path), overflowed' = 0
  PROVE  /\ path \in DOMAIN nodes' /\ nodes'[path] = Node(parent, func)
         /\ Kept /\ overflowed = 0
         /\ nodes' = nodes \/ Len(nodes') = Len(nodes) + 1
<1>1. /\ Len(nodes) \in Nat /\ Len(nodes) <= MaxPaths /\ DOMAIN nodes = 1..Len(nodes)
      /\ nodes \in Seq(NodeType) /\ overflowed \in Nat
  BY NodesBound DEF RegistryInv, RegistryTypeOK
<1>2. <<parent, func>> \in Paths \X Functions
  BY <1>1, MaxPathsAssumption DEF Paths
<1>3. CASE memo[t][<<parent, func>>] # 0
  <2>1. path = memo[t][<<parent, func>>] /\ UNCHANGED <<nodes, overflowed>>
    BY <1>3 DEF Context
  <2>2. path \in DOMAIN nodes /\ nodes[path] = Node(parent, func)
    BY <1>2, <1>3, <2>1 DEF MemoInv, MemoAgrees
  <2> QED BY <1>1, <2>1, <2>2 DEF Kept
<1>4. CASE memo[t][<<parent, func>>] = 0
  <2>1. PICK id \in Paths : InternPath(parent, func, id) /\ path = IF id = 0 THEN parent ELSE id
    BY <1>4 DEF Context
  <2>2. CASE Find(parent, func, id)
    <3>1. id \in DOMAIN nodes /\ nodes[id] = Node(parent, func) /\ UNCHANGED <<nodes, overflowed>>
      BY <2>2 DEF Find
    <3>2. path = id
      BY <1>1, <2>1, <3>1
    <3> QED BY <1>1, <3>1, <3>2 DEF Kept
  <2>3. CASE Grow(parent, func, id)
    <3>1. PICK node : node = Node(parent, func)
      OBVIOUS
    <3>2. nodes' = Append(nodes, node) /\ id = Len(nodes) + 1 /\ overflowed' = overflowed
      BY <2>3, <3>1 DEF Grow
    <3>3. node \in NodeType
      BY <1>1, <3>1, MaxPathsAssumption DEF Node, NodeType
    <3>4. /\ Len(nodes') = Len(nodes) + 1 /\ nodes'[Len(nodes) + 1] = node
          /\ \A i \in 1..Len(nodes) : nodes'[i] = nodes[i]
      BY <1>1, <3>2, <3>3, AppendProperties
    <3>5. DOMAIN nodes' = 1..Len(nodes')
      BY LenProperties DEF RegistryInv, RegistryTypeOK
    <3>6. path = Len(nodes) + 1 /\ path \in DOMAIN nodes'
      BY <1>1, <2>1, <3>2, <3>4, <3>5
    <3> QED BY <1>1, <3>1, <3>2, <3>4, <3>6 DEF Kept
  <2>4. CASE Refuse(parent, func, id)
    BY <1>1, <2>4 DEF Refuse
  <2> QED BY <2>1, <2>2, <2>3, <2>4 DEF InternPath
<1> QED BY <1>3, <1>4

\* The caller of an outermost activation is of another function, if there is one.
LEMMA CallerIsAnother ==
  ASSUME Inv, ContextsFit, NEW t \in Threads, NEW func \in Functions,
         depth[t][func].count = 0, CurrentPath(t) # 0
  PROVE  CurrentPath(t) \in DOMAIN nodes /\ nodes[CurrentPath(t)].func # func
<1>1. stack[t] \in Seq(ActivationUpTo(Len(nodes), clock))
  BY DEF Inv, StackInv
<1>2. stack[t] # << >> /\ CurrentPath(t) = stack[t][Len(stack[t])].path
  BY DEF CurrentPath, Last
<1>3. /\ Len(stack[t]) \in 1..Len(stack[t]) /\ DOMAIN stack[t] = 1..Len(stack[t])
  BY <1>1, <1>2, EmptySeq, LenProperties
<1>4. InContext(stack[t][Len(stack[t])])
  BY <1>3 DEF ContextsFit
<1>5. Levels(stack[t], func) = {}
  <2>1. DepthTells(stack[t], func, depth[t][func])
    BY DEF Inv, DepthMatchesStack
  <2>2. Cardinality(Levels(stack[t], func)) = 0
    BY <2>1 DEF DepthTells
  <2>3. IsFiniteSet(Levels(stack[t], func))
    BY <1>1, LevelsFinite
  <2> QED BY <2>2, <2>3, FS_EmptySet
<1>6. stack[t][Len(stack[t])].func # func
  BY <1>3, <1>5 DEF Levels
<1> QED BY <1>2, <1>4, <1>6 DEF InContext

\* What is opened is in a context of its own, what is opened again below it.
LEMMA OpenOutermostFits ==
  ASSUME Inv, Inv', ContextsFit, NEW t \in Threads, NEW func \in Functions,
         overflowed' = 0, OpenOutermost(t, func)
  PROVE  /\ Kept /\ overflowed = 0 /\ (nodes' = nodes \/ Len(nodes') = Len(nodes) + 1)
         /\ \E a, d : /\ stack' = [stack EXCEPT ![t] = Append(@, a)]
                      /\ depth' = [depth EXCEPT ![t][func] = d]
                      /\ InContext(a)' /\ Remembers(d, func)'
<1>1. PICK path \in Paths :
        /\ Context(t, CurrentPath(t), func, path)
        /\ depth' = [depth EXCEPT ![t][func] =
                       [count |-> 1, path |-> path, recursion_path |-> 0]]
        /\ Push(t, func, path, TRUE, OpensContext(depth[t][func]))
  BY DEF OpenOutermost
<1>2. depth[t][func].count = 0
  BY DEF OpenOutermost
<1>3. CurrentPath(t) \in 0..Len(nodes)
  BY CurrentPathExists DEF Inv
<1>4. /\ path \in DOMAIN nodes' /\ nodes'[path] = Node(CurrentPath(t), func)
      /\ Kept /\ overflowed = 0 /\ (nodes' = nodes \/ Len(nodes') = Len(nodes) + 1)
  BY <1>1, <1>3, ContextIs DEF Inv
<1>5. nodes'[path].func = func /\ nodes'[path].parent = CurrentPath(t)
  BY <1>4 DEF Node
<1>6. CurrentPath(t) = 0 \/ nodes'[CurrentPath(t)].func # func
  BY <1>2, <1>4, CallerIsAnother, OwnContextsKept DEF Inv
<1>7. path \in OwnContexts(func)'
  BY <1>4, <1>5, <1>6 DEF OwnContexts
<1>8. PICK d : d = [count |-> 1, path |-> path, recursion_path |-> 0]
  OBVIOUS
<1>9. Remembers(d, func)'
  BY <1>4, <1>5, <1>8 DEF Remembers
<1>10. PICK a : a = [func |-> func, path |-> path, start |-> clock, child_ns |-> 0,
                     outermost |-> TRUE, counts_here |-> OpensContext(depth[t][func])]
  OBVIOUS
<1>11. OpensContext(depth[t][func])
  BY <1>2 DEF OpensContext
<1>12. a.path = path /\ a.func = func /\ a.outermost /\ a.counts_here
  BY <1>10, <1>11
<1>13. InContext(a)'
  BY <1>4, <1>5, <1>7, <1>12 DEF InContext
<1>14. stack' = [stack EXCEPT ![t] = Append(@, a)]
  BY <1>1, <1>10 DEF Push
<1>15. depth' = [depth EXCEPT ![t][func] = d]
  BY <1>1, <1>8
<1> QED BY <1>4, <1>9, <1>13, <1>14, <1>15

LEMMA OpenRecursiveFits ==
  ASSUME Inv, Inv', ContextsFit, NEW t \in Threads, NEW func \in Functions,
         overflowed' = 0, OpenRecursive(t, func)
  PROVE  /\ Kept /\ overflowed = 0 /\ (nodes' = nodes \/ Len(nodes') = Len(nodes) + 1)
         /\ \E a, d : /\ stack' = [stack EXCEPT ![t] = Append(@, a)]
                      /\ depth' = [depth EXCEPT ![t][func] = d]
                      /\ InContext(a)' /\ Remembers(d, func)'
<1>1. PICK held : held = depth[t][func]
  OBVIOUS
<1>2. PICK path \in Paths :
        /\ RecursionContext(t, func, held, path)
        /\ depth' = [depth EXCEPT ![t][func] =
                       [held EXCEPT !.count = @ + 1, !.recursion_path = path]]
        /\ Push(t, func, path, FALSE, OpensContext(held))
  BY <1>1 DEF OpenRecursive
<1>3. held \in DepthUpTo(Len(nodes)) /\ held.count # 0
  <2>1. held \in DepthUpTo(Len(nodes)) /\ held.count > 0
    BY <1>1 DEF Inv, DepthInv, OpenRecursive
  <2>2. held.count \in Nat
    BY <2>1 DEF DepthUpTo
  <2> QED BY <2>1, <2>2
<1>4. held.path \in 0..Len(nodes) /\ held.recursion_path \in 0..Len(nodes)
  BY <1>3 DEF DepthUpTo
<1>5. Len(nodes) \in Nat /\ DOMAIN nodes = 1..Len(nodes)
  BY NodesBound DEF Inv
<1>6. /\ held.path \in DOMAIN nodes /\ nodes[held.path].func = func
      /\ held.recursion_path # 0 =>
           /\ held.recursion_path \in DOMAIN nodes
           /\ nodes[held.recursion_path] = Node(held.path, func)
  BY <1>1, <1>3 DEF ContextsFit, Remembers
<1>7. /\ path \in DOMAIN nodes' /\ nodes'[path] = Node(held.path, func)
      /\ Kept /\ overflowed = 0 /\ (nodes' = nodes \/ Len(nodes') = Len(nodes) + 1)
  <2>1. CASE held.recursion_path = 0
    <3>1. Context(t, held.path, func, path)
      BY <1>2, <2>1 DEF RecursionContext
    <3> QED BY <1>4, <3>1, ContextIs DEF Inv
  <2>2. CASE held.recursion_path # 0
    <3>1. path = held.recursion_path /\ UNCHANGED <<nodes, overflowed>>
      BY <1>2, <2>2 DEF RecursionContext
    <3> QED BY <1>5, <1>6, <2>2, <3>1 DEF Kept
  <2> QED BY <2>1, <2>2
<1>8. held.path \in DOMAIN nodes' /\ nodes'[held.path].func = func /\ held.path # 0
  <2>1. held.path # 0
    BY <1>5, <1>6
  <2> QED BY <1>6, <1>7, <2>1, OwnContextsKept DEF Inv
<1>9. nodes'[path].func = func /\ nodes'[path].parent = held.path
  BY <1>7 DEF Node
<1>10. path \notin OwnContexts(func)'
  BY <1>8, <1>9 DEF OwnContexts
<1>11. PICK d : d = [held EXCEPT !.count = @ + 1, !.recursion_path = path]
  OBVIOUS
<1>12. d.path = held.path /\ d.recursion_path = path
  BY <1>3, <1>11 DEF DepthUpTo
<1>13. Remembers(d, func)'
  BY <1>7, <1>8, <1>12 DEF Remembers
<1>14. PICK a : a = [func |-> func, path |-> path, start |-> clock, child_ns |-> 0,
                     outermost |-> FALSE, counts_here |-> OpensContext(held)]
  OBVIOUS
<1>15. a.path = path /\ a.func = func /\ ~a.outermost
  BY <1>14
<1>16. InContext(a)'
  BY <1>7, <1>9, <1>10, <1>15 DEF InContext
<1>17. stack' = [stack EXCEPT ![t] = Append(@, a)]
  BY <1>2, <1>14 DEF Push
<1>18. depth' = [depth EXCEPT ![t][func] = d]
  BY <1>2, <1>11
<1> QED BY <1>7, <1>13, <1>16, <1>17, <1>18

\* The stacks and the depth map stay in the contexts the tree has for them.
LEMMA OpenFits ==
  ASSUME Inv, ContextsFit, NEW t \in Threads, NEW func \in Functions,
         overflowed' = 0, Open(t, func)
  PROVE  /\ ContextsFit' /\ Kept /\ overflowed = 0
         /\ (nodes' = nodes \/ Len(nodes') = Len(nodes) + 1)
<1>1. Inv'
  BY OpenKeeps
<1>2. /\ Kept /\ overflowed = 0 /\ (nodes' = nodes \/ Len(nodes') = Len(nodes) + 1)
      /\ \E a, d : /\ stack' = [stack EXCEPT ![t] = Append(@, a)]
                   /\ depth' = [depth EXCEPT ![t][func] = d]
                   /\ InContext(a)' /\ Remembers(d, func)'
  <2>1. CASE OpenOutermost(t, func)
    BY <1>1, <2>1, OpenOutermostFits
  <2>2. CASE OpenRecursive(t, func)
    BY <1>1, <2>2, OpenRecursiveFits
  <2> QED BY <2>1, <2>2 DEF Open
<1>3. PICK a, d : /\ stack' = [stack EXCEPT ![t] = Append(@, a)]
                  /\ depth' = [depth EXCEPT ![t][func] = d]
                  /\ InContext(a)' /\ Remembers(d, func)'
  BY <1>2
<1>4. ASSUME NEW u \in Threads, NEW i \in 1..Len(stack'[u])
      PROVE  InContext(stack[u][i])'
  <2>1. CASE u # t
    <3>1. stack'[u] = stack[u]
      BY <1>3, <2>1 DEF Inv, StackInv
    <3>2. PICK b : b = stack[u][i] /\ InContext(b)
      BY <1>4, <3>1 DEF ContextsFit
    <3>3. InContext(b)'
      BY <1>1, <1>2, <3>2, InContextKept DEF Inv
    <3> QED BY <3>1, <3>2, <3>3 DEF InContext
  <2>2. CASE u = t
    <3>1. stack'[t] = Append(stack[t], a)
      BY <1>3 DEF Inv, StackInv
    <3>2. /\ Len(stack[t]) \in Nat /\ Len(stack'[t]) = Len(stack[t]) + 1
          /\ stack'[t][Len(stack[t]) + 1] = a
          /\ \A j \in 1..Len(stack[t]) : stack'[t][j] = stack[t][j]
      <4>1. stack[t] \in Seq(ActivationUpTo(Len(nodes), clock) \cup {a})
        <5>1. stack[t] \in Seq(ActivationUpTo(Len(nodes), clock))
          BY DEF Inv, StackInv
        <5> QED BY <5>1, SeqMonotonic
      <4> QED BY <3>1, <4>1, AppendProperties, LenProperties
    <3>3. CASE i = Len(stack[t]) + 1
      BY <1>3, <2>2, <3>2, <3>3 DEF InContext
    <3>4. CASE i # Len(stack[t]) + 1
      <4>1. i \in 1..Len(stack[t])
        BY <1>4, <2>2, <3>2, <3>4
      <4>2. PICK b : b = stack[t][i] /\ InContext(b)
        BY <4>1 DEF ContextsFit
      <4>3. InContext(b)'
        BY <1>1, <1>2, <4>2, InContextKept DEF Inv
      <4> QED BY <2>2, <3>2, <4>1, <4>2, <4>3 DEF InContext
    <3> QED BY <3>3, <3>4
  <2> QED BY <2>1, <2>2
<1>5. ASSUME NEW u \in Threads, NEW f \in Functions
      PROVE  Remembers(depth[u][f], f)'
  <2>1. CASE u = t /\ f = func
    BY <1>3, <2>1 DEF Inv, DepthInv, Remembers
  <2>2. CASE ~(u = t /\ f = func)
    <3>1. PICK e : e = depth[u][f] /\ Remembers(e, f)
      BY DEF ContextsFit
    <3>2. Remembers(e, f)'
      BY <1>1, <1>2, <3>1, RemembersKept DEF Inv
    <3>3. depth'[u][f] = e
      BY <1>3, <2>2, <3>1 DEF Inv, DepthInv
    <3> QED BY <3>2, <3>3 DEF Remembers
  <2> QED BY <2>1, <2>2
<1> QED BY <1>2, <1>4, <1>5 DEF ContextsFit

\* Closing takes the innermost activation away and leaves the others where they are.
LEMMA CloseFits ==
  ASSUME Inv, ContextsFit, NEW t \in Threads, Close(t)
  PROVE  ContextsFit'
<1>1. PICK a \in ActivationUpTo(Len(nodes), clock), elapsed \in Nat :
        /\ a = Last(stack[t]) /\ a.func \in Functions /\ clock \in Nat
        /\ stack' = [stack EXCEPT ![t] = Popped(stack[t], elapsed)]
        /\ stack'[t] = Popped(stack[t], elapsed)
        /\ UNCHANGED nodes
  BY ClosingIs
<1>2. depth' = [depth EXCEPT ![t][a.func] = Shallower(@)] /\ stack[t] # << >>
  BY <1>1 DEF Close
<1>3. /\ Len(stack[t]) = Len(stack'[t]) + 1 /\ Len(stack'[t]) \in Nat
      /\ \A i \in 1..Len(stack'[t]) : SameLevel(stack[t][i], stack'[t][i])
  <2>1. PICK n \in Nat : n = Len(nodes)
    BY NodesBound DEF Inv
  <2>2. PICK s \in Seq(ActivationUpTo(n, clock)) : s = stack[t] /\ s # << >>
    BY <1>2, <2>1 DEF Inv, StackInv
  <2>3. /\ Popped(s, elapsed) \in Seq(ActivationUpTo(n, clock))
        /\ Len(s) = Len(Popped(s, elapsed)) + 1
        /\ \A i \in 1..Len(Popped(s, elapsed)) : SameLevel(s[i], Popped(s, elapsed)[i])
    BY <1>1, <2>2, PoppedIsStack
  <2> QED BY <1>1, <2>2, <2>3, LenProperties
<1>4. ASSUME NEW u \in Threads, NEW i \in 1..Len(stack'[u])
      PROVE  InContext(stack[u][i])'
  <2>1. CASE u # t
    <3>1. stack'[u] = stack[u]
      BY <1>1, <2>1 DEF Inv, StackInv
    <3>2. InContext(stack[u][i])
      BY <1>4, <3>1 DEF ContextsFit
    <3> QED BY <1>1, <3>1, <3>2 DEF InContext, OwnContexts
  <2>2. CASE u = t
    <3>1. i \in 1..Len(stack[t]) /\ SameLevel(stack[t][i], stack'[t][i])
      BY <1>3, <1>4, <2>2
    <3>2. InContext(stack[t][i])
      BY <3>1 DEF ContextsFit
    <3>3. PICK b : b = stack'[t][i]
      OBVIOUS
    <3>4. InContext(b)
      BY <3>1, <3>2, <3>3 DEF InContext, SameLevel
    <3> QED BY <1>1, <2>2, <3>3, <3>4 DEF InContext, OwnContexts
  <2> QED BY <2>1, <2>2
<1>5. ASSUME NEW u \in Threads, NEW f \in Functions
      PROVE  Remembers(depth[u][f], f)'
  <2>1. Remembers(depth[u][f], f)
    BY DEF ContextsFit
  <2>2. CASE u = t /\ f = a.func
    <3>1. PICK d : d = depth[t][f]
      OBVIOUS
    <3>2. depth'[u][f] = Shallower(d)
      BY <1>2, <2>2, <3>1 DEF Inv, DepthInv
    <3>3. d \in DepthUpTo(Len(nodes))
      BY <3>1 DEF Inv, DepthInv
    <3>4. \/ Shallower(d).count = 0
          \/ /\ d.count # 0 /\ Shallower(d).path = d.path
             /\ Shallower(d).recursion_path = d.recursion_path
      <4>1. d.count \in Nat
        BY <3>3 DEF DepthUpTo
      <4>2. CASE d.count = 1
        BY <4>2 DEF Shallower, NoDepth
      <4>3. CASE d.count # 1
        <5>1. /\ Shallower(d).path = d.path /\ Shallower(d).recursion_path = d.recursion_path
              /\ Shallower(d).count = d.count - 1
          BY <3>3, <4>3 DEF Shallower, DepthUpTo
        <5>2. d.count # 0
          <6>1. Levels(stack[t], a.func) # {}
            <7>1. /\ Len(stack[t]) \in DOMAIN stack[t]
                  /\ stack[t][Len(stack[t])].func = a.func
              <8>1. stack[t] \in Seq(ActivationUpTo(Len(nodes), clock))
                BY DEF Inv, StackInv
              <8> QED BY <1>1, <1>3, <8>1, LenProperties DEF Last
            <7> QED BY <7>1 DEF Levels
          <6>2. d.count = Cardinality(Levels(stack[t], a.func))
            BY <2>2, <3>1 DEF Inv, DepthMatchesStack, DepthTells
          <6>3. IsFiniteSet(Levels(stack[t], a.func))
            BY LevelsFinite DEF Inv, StackInv
          <6> QED BY <6>1, <6>2, <6>3, FS_EmptySet
        <5> QED BY <5>1, <5>2
      <4> QED BY <4>2, <4>3
    <3> QED BY <1>1, <2>1, <2>2, <3>1, <3>2, <3>4 DEF Remembers
  <2>3. CASE ~(u = t /\ f = a.func)
    <3>1. depth'[u][f] = depth[u][f]
      BY <1>2, <2>3 DEF Inv, DepthInv
    <3> QED BY <1>1, <2>1, <3>1 DEF Remembers
  <2> QED BY <2>2, <2>3
<1> QED BY <1>4, <1>5 DEF ContextsFit

LEMMA ContextsFitStep ==
  ASSUME Inv, overflowed = 0 => ContextsFit, [Next]_vars, overflowed' = 0
  PROVE  ContextsFit' /\ overflowed = 0
<1>1. ASSUME UNCHANGED <<stack, depth, nodes, overflowed>>
      PROVE  ContextsFit' /\ overflowed = 0
  <2>1. ContextsFit /\ overflowed = 0
    BY <1>1
  <2>2. ASSUME NEW u \in Threads, NEW i \in 1..Len(stack'[u]) PROVE InContext(stack[u][i])'
    BY <1>1, <2>1, <2>2 DEF ContextsFit, InContext, OwnContexts
  <2>3. ASSUME NEW u \in Threads, NEW f \in Functions PROVE Remembers(depth[u][f], f)'
    BY <1>1, <2>1, <2>3 DEF ContextsFit, Remembers
  <2> QED BY <2>1, <2>2, <2>3 DEF ContextsFit
<1>2. ASSUME NEW t \in Threads, Close(t) PROVE ContextsFit' /\ overflowed = 0
  <2>1. overflowed = 0
    BY <1>2 DEF Close, registryVars
  <2> QED BY <1>2, <2>1, CloseFits
<1>3. ASSUME NEW t \in Threads, NEW func \in Functions, Open(t, func)
      PROVE  ContextsFit' /\ overflowed = 0
  <2>1. overflowed = 0
    <3>1. overflowed \in Nat /\ (overflowed' = overflowed \/ overflowed' = overflowed + 1)
      BY <1>3 DEF Open, OpenOutermost, OpenRecursive, RecursionContext, Context, InternPath,
                  Find, Grow, Refuse, Inv, RegistryInv, RegistryTypeOK
    <3> QED BY <3>1
  <2> QED BY <1>3, <2>1, OpenFits
<1> QED BY <1>1, <1>2, <1>3, StepIs DEF Quiet

-----------------------------------------------------------------------------
(* What was called, and what its contexts count.                           *)

CallsOf(f) == [acc \in AccumType |-> acc.calls[f].count]
CountIn(p) == [acc \in AccumType |-> acc.stacks[p].count]

LEMMA CallsAreAdditive == \A f \in Functions : Additive(CallsOf(f))
<1> SUFFICES ASSUME NEW f \in Functions PROVE Additive(CallsOf(f))
  OBVIOUS
<1>1. CallsOf(f) \in [AccumType -> Nat]
  <2>1. \A acc \in AccumType : acc.calls[f].count \in Nat
    BY DEF AccumType
  <2> QED BY <2>1 DEF CallsOf
<1>2. CallsOf(f)[Zero] = 0
  BY ZeroIsAccum DEF CallsOf, Zero
<1>3. ASSUME NEW a \in AccumType, NEW b \in AccumType
      PROVE  CallsOf(f)[Absorb(a, b)] = CallsOf(f)[a] + CallsOf(f)[b]
  <2>1. Absorb(a, b).calls[f].count = a.calls[f].count + b.calls[f].count
    BY DEF Absorb
  <2> QED BY <2>1, AbsorbIsAccum DEF CallsOf
<1> QED BY <1>1, <1>2, <1>3 DEF Additive

LEMMA CountsAreAdditive == \A p \in Paths : Additive(CountIn(p))
<1> SUFFICES ASSUME NEW p \in Paths PROVE Additive(CountIn(p))
  OBVIOUS
<1>1. CountIn(p) \in [AccumType -> Nat]
  <2>1. \A acc \in AccumType : acc.stacks[p].count \in Nat
    BY DEF AccumType
  <2> QED BY <2>1 DEF CountIn
<1>2. CountIn(p)[Zero] = 0
  BY ZeroIsAccum DEF CountIn, Zero
<1>3. ASSUME NEW a \in AccumType, NEW b \in AccumType
      PROVE  CountIn(p)[Absorb(a, b)] = CountIn(p)[a] + CountIn(p)[b]
  <2>1. Absorb(a, b).stacks[p].count = a.stacks[p].count + b.stacks[p].count
    BY DEF Absorb
  <2> QED BY <2>1, AbsorbIsAccum DEF CountIn
<1> QED BY <1>1, <1>2, <1>3 DEF Additive

LEMMA RecordedCalls ==
  ASSUME NEW acc \in AccumType, NEW a, a.func \in Functions, a.path \in Paths,
         NEW elapsed \in Nat, Recorded(acc, a, elapsed) \in AccumType
  PROVE  /\ \A f \in Functions :
              CallsOf(f)[Recorded(acc, a, elapsed)]
                = CallsOf(f)[acc] + (IF a.func = f /\ a.outermost THEN 1 ELSE 0)
         /\ \A p \in Paths :
              CountIn(p)[Recorded(acc, a, elapsed)]
                = CountIn(p)[acc] + (IF a.path = p /\ a.counts_here THEN 1 ELSE 0)
<1>1. /\ acc.calls \in [Functions -> [count: Nat, ns: Nat]]
      /\ acc.stacks \in [Paths -> [count: Nat, self_ns: Nat]]
  BY DEF AccumType
<1>2. PICK r \in AccumType : r = Recorded(acc, a, elapsed)
  OBVIOUS
<1>3. ASSUME NEW f \in Functions
      PROVE  r.calls[f].count
               = acc.calls[f].count + (IF a.func = f /\ a.outermost THEN 1 ELSE 0)
  <2>1. r.calls = IF a.outermost
                  THEN [acc.calls EXCEPT ![a.func] = [count |-> @.count + 1,
                                                      ns |-> @.ns + elapsed]]
                  ELSE acc.calls
    BY <1>2 DEF Recorded, AddsCall
  <2> QED BY <1>1, <2>1
<1>4. ASSUME NEW p \in Paths
      PROVE  r.stacks[p].count
               = acc.stacks[p].count + (IF a.path = p /\ a.counts_here THEN 1 ELSE 0)
  <2>1. r.stacks = [acc.stacks EXCEPT ![a.path] =
                      [count |-> @.count + (IF a.counts_here THEN 1 ELSE 0),
                       self_ns |-> @.self_ns + SatSub(elapsed, a.child_ns)]]
    BY <1>2 DEF Recorded
  <2> QED BY <1>1, <2>1
<1> QED BY <1>2, <1>3, <1>4 DEF CallsOf, CountIn

Counts == [p \in Paths |-> Everywhere(CountIn(p))]

\* A context that does not exist yet was never counted.
NothingUnborn == \A p \in Paths : Len(nodes) < p => Counts[p] = 0

CallsBooks ==
  overflowed = 0 =>
    \A f \in Functions : Everywhere(CallsOf(f)) = SumOn(Counts, OwnContexts(f))

LEMMA CountsAre ==
  ASSUME AccumInv
  PROVE  \A p \in Paths : Counts[p] = Everywhere(CountIn(p)) /\ Counts[p] \in Nat
<1> SUFFICES ASSUME NEW p \in Paths
             PROVE  Counts[p] = Everywhere(CountIn(p)) /\ Counts[p] \in Nat
  OBVIOUS
<1>1. Everywhere(CountIn(p)) \in Nat
  BY CountsAreAdditive, EverywhereIsNat
<1> QED BY <1>1 DEF Counts

LEMMA OwnContextsFinite ==
  ASSUME RegistryInv, NEW f
  PROVE  OwnContexts(f) \subseteq 1..Len(nodes) /\ OwnContexts(f) \subseteq Paths
         /\ IsFiniteSet(OwnContexts(f))
<1>1. /\ DOMAIN nodes = 1..Len(nodes) /\ Len(nodes) \in Nat /\ Len(nodes) <= MaxPaths
      /\ MaxPaths \in Nat
  BY NodesBound
<1>2. OwnContexts(f) \subseteq 1..Len(nodes) /\ OwnContexts(f) \subseteq Paths
  BY <1>1 DEF OwnContexts, Paths
<1> QED BY <1>2, PathsFinite, FS_Subset

\* What a step does to the counts it does to every one of them.
LEMMA CountsStay ==
  ASSUME \A p \in Paths : Everywhere(CountIn(p))' = Everywhere(CountIn(p))
  PROVE  Counts' = Counts
<1>1. Counts' = [p \in Paths |-> Everywhere(CountIn(p))']
  BY DEF Counts
<1> QED BY <1>1 DEF Counts

\* A tree that grew by a context nobody counted yet changes no sum.
LEMMA GrowingChangesNoSum ==
  ASSUME Inv, Inv', Kept, nodes' = nodes \/ Len(nodes') = Len(nodes) + 1,
         NothingUnborn, Counts' = Counts, NEW f
  PROVE  SumOn(Counts, OwnContexts(f))' = SumOn(Counts, OwnContexts(f))
<1>1. PICK w : w = Counts
  OBVIOUS
<1>2. PICK S : S = OwnContexts(f)
  OBVIOUS
<1>3. PICK D : D = OwnContexts(f)'
  OBVIOUS
<1>4. /\ Len(nodes) \in Nat /\ Len(nodes') \in Nat
      /\ DOMAIN nodes = 1..Len(nodes) /\ DOMAIN nodes' = 1..Len(nodes')
  BY LenProperties DEF Inv, RegistryInv, RegistryTypeOK
<1>5. /\ DOMAIN nodes \subseteq DOMAIN nodes'
      /\ \A p \in DOMAIN nodes : p \in S <=> p \in D
      /\ S \subseteq DOMAIN nodes
  BY <1>2, <1>3, OwnContextsKept DEF Inv, OwnContexts
<1>6. D \subseteq DOMAIN nodes' /\ D \subseteq Paths
  <2>1. DOMAIN nodes' \subseteq Paths
    <3>1. Len(nodes') <= MaxPaths /\ MaxPaths \in Nat
      BY MaxPathsAssumption DEF Inv, RegistryInv, RegistryTypeOK
    <3>2. PICK m \in Nat : m = Len(nodes')
      BY <1>4
    <3>3. DOMAIN nodes' = 1..m /\ m <= MaxPaths
      BY <1>4, <3>1, <3>2
    <3> QED BY <3>1, <3>3 DEF Paths
  <2> QED BY <1>3, <2>1 DEF OwnContexts
<1>7. IsFiniteSet(D)
  BY <1>6, PathsFinite, FS_Subset
<1>8. \A p \in D : w[p] \in Int
  BY <1>1, <1>6, CountsAre DEF Inv
<1>9. S \in SUBSET D
  BY <1>5
<1>10. \A p \in D \ S : w[p] = 0
  <2> SUFFICES ASSUME NEW p \in D \ S PROVE w[p] = 0
    OBVIOUS
  <2>1. p \in 1..Len(nodes') /\ p \notin 1..Len(nodes) /\ p \in Paths
    BY <1>4, <1>5, <1>6
  <2>2. Len(nodes) < p
    <3>1. PICK n \in Nat : n = Len(nodes)
      BY <1>4
    <3>2. PICK m \in Nat : m = Len(nodes')
      BY <1>4
    <3>3. p \in 1..m /\ p \notin 1..n
      BY <2>1, <3>1, <3>2
    <3>4. n < p
      BY <3>3
    <3> QED BY <3>1, <3>4
  <2> QED BY <1>1, <2>1, <2>2 DEF NothingUnborn
<1>11. SumOn(w, D) = SumOn(w, S)
  BY <1>7, <1>8, <1>9, <1>10, SumOverMore
<1>12. SumOn(Counts, OwnContexts(f))' = SumOn(w, D)
  BY <1>1, <1>3
<1>13. SumOn(Counts, OwnContexts(f)) = SumOn(w, S)
  BY <1>1, <1>2
<1> QED BY <1>11, <1>12, <1>13

\* One context counted once more.
LEMMA CountingChangesOneSum ==
  ASSUME NEW S, IsFiniteSet(S), NEW f, NEW g, NEW x, NEW k \in Nat,
         \A p \in S : f[p] \in Nat /\ g[p] = f[p] + (IF x = p THEN k ELSE 0)
  PROVE  SumOn(g, S) = SumOn(f, S) + (IF x \in S THEN k ELSE 0)
<1>1. \A p \in S : f[p] \in Int /\ g[p] \in Int
  OBVIOUS
<1>2. SumOn(f, S) \in Int
  BY <1>1, SumIsInt
<1>3. CASE x \in S
  <2>1. \A p \in S \ {x} : f[p] = g[p]
    OBVIOUS
  <2>2. SumOn(g, S) = SumOn(f, S) + g[x] - f[x]
    BY <1>1, <1>3, <2>1, SumChanges
  <2>3. g[x] = f[x] + k /\ f[x] \in Int
    BY <1>3
  <2> QED BY <1>2, <1>3, <2>2, <2>3
<1>4. CASE x \notin S
  <2>1. \A p \in S : f[p] \in Int /\ f[p] = g[p]
    BY <1>4
  <2>2. SumOn(f, S) = SumOn(g, S)
    BY <2>1, SumAgrees
  <2> QED BY <1>2, <1>4, <2>2
<1> QED BY <1>3, <1>4

\* What close() counts: the call if it is outermost, its context if it opened it.
LEMMA CloseCounts ==
  ASSUME Inv, NEW t \in Threads, Close(t)
  PROVE  \E a \in ActivationUpTo(Len(nodes), clock) :
           /\ a = stack[t][Len(stack[t])] /\ Len(stack[t]) \in 1..Len(stack[t])
           /\ UNCHANGED <<nodes, overflowed>>
           /\ \A f \in Functions :
                Everywhere(CallsOf(f))'
                  = Everywhere(CallsOf(f)) + (IF a.func = f /\ a.outermost THEN 1 ELSE 0)
           /\ \A p \in Paths :
                Counts'[p] = Counts[p] + (IF a.path = p /\ a.counts_here THEN 1 ELSE 0)
<1>1. PICK a \in ActivationUpTo(Len(nodes), clock), elapsed \in Nat :
        /\ a = stack[t][Len(stack[t])] /\ Len(stack[t]) \in Nat \ {0}
        /\ a.path \in Paths /\ a.func \in Functions
        /\ accum' = [accum EXCEPT ![t] = Recorded(@, a, elapsed)]
        /\ Recorded(accum[t], a, elapsed) \in AccumType
        /\ UNCHANGED <<nodes, overflowed, drainVars>>
  BY ClosingIs
<1>2. PICK acc \in AccumType : acc = Recorded(accum[t], a, elapsed)
  BY <1>1
<1>3. accum[t] \in AccumType /\ AccumInv
  BY DEF Inv, AccumInv
<1>4. \A m : Additive(m) => Everywhere(m)' = Everywhere(m) + m[acc] - m[accum[t]]
  BY <1>1, <1>2, CloseBooks
<1>5. /\ \A f \in Functions :
           CallsOf(f)[acc] = CallsOf(f)[accum[t]] + (IF a.func = f /\ a.outermost THEN 1 ELSE 0)
      /\ \A p \in Paths :
           CountIn(p)[acc] = CountIn(p)[accum[t]] + (IF a.path = p /\ a.counts_here THEN 1 ELSE 0)
  BY <1>1, <1>2, <1>3, RecordedCalls
<1>6. ASSUME NEW f \in Functions
      PROVE  Everywhere(CallsOf(f))'
               = Everywhere(CallsOf(f)) + (IF a.func = f /\ a.outermost THEN 1 ELSE 0)
  <2>1. PICK m : m = CallsOf(f) /\ Additive(m)
    BY CallsAreAdditive
  <2>2. Everywhere(m) \in Nat /\ m[accum[t]] \in Nat
    BY <1>3, <2>1, EverywhereIsNat
  <2>3. m[acc] = m[accum[t]] + (IF a.func = f /\ a.outermost THEN 1 ELSE 0)
    BY <1>5, <2>1
  <2>4. Everywhere(m)' = Everywhere(m) + m[acc] - m[accum[t]]
    BY <1>4, <2>1
  <2>5. Everywhere(m)' = Everywhere(m) + (IF a.func = f /\ a.outermost THEN 1 ELSE 0)
    BY <2>2, <2>3, <2>4
  <2> QED BY <2>1, <2>5
<1>7. ASSUME NEW p \in Paths
      PROVE  Counts'[p] = Counts[p] + (IF a.path = p /\ a.counts_here THEN 1 ELSE 0)
  <2>1. PICK m : m = CountIn(p) /\ Additive(m)
    BY CountsAreAdditive
  <2>2. Everywhere(m) \in Nat /\ m[accum[t]] \in Nat
    BY <1>3, <2>1, EverywhereIsNat
  <2>3. m[acc] = m[accum[t]] + (IF a.path = p /\ a.counts_here THEN 1 ELSE 0)
    BY <1>5, <2>1
  <2>4. Everywhere(m)' = Everywhere(m) + m[acc] - m[accum[t]]
    BY <1>4, <2>1
  <2>5. Everywhere(m)' = Everywhere(m) + (IF a.path = p /\ a.counts_here THEN 1 ELSE 0)
    BY <2>2, <2>3, <2>4
  <2>6. Counts[p] = Everywhere(m) /\ Counts'[p] = Everywhere(m)'
    BY <2>1 DEF Counts
  <2> QED BY <2>5, <2>6
<1>8. Len(stack[t]) \in 1..Len(stack[t])
  BY <1>1
<1> QED BY <1>1, <1>6, <1>7, <1>8

\* No other step counts anything.
LEMMA OthersCountNothing ==
  ASSUME Inv, IdleIsEmpty,
         \/ Drain
         \/ UNCHANGED <<accum, drained, merged, lost>>
  PROVE  /\ Counts' = Counts
         /\ \A f \in Functions : Everywhere(CallsOf(f))' = Everywhere(CallsOf(f))
<1>1. \A m : Additive(m) => Everywhere(m)' = Everywhere(m)
  BY BooksKept, DrainConserves
<1>2. \A f \in Functions : Everywhere(CallsOf(f))' = Everywhere(CallsOf(f))
  BY <1>1, CallsAreAdditive
<1>3. \A p \in Paths : Everywhere(CountIn(p))' = Everywhere(CountIn(p))
  BY <1>1, CountsAreAdditive
<1> QED BY <1>2, <1>3, CountsStay

\* The tree never shrinks.
LEMMA OpenGrows ==
  ASSUME Inv, NEW t \in Threads, NEW func \in Functions, Open(t, func)
  PROVE  Len(nodes) <= Len(nodes') /\ Len(nodes) \in Nat /\ Len(nodes') \in Nat
<1>1. nodes' = nodes \/ \E node : nodes' = Append(nodes, node)
  BY DEF Open, OpenOutermost, OpenRecursive, RecursionContext, Context, InternPath,
         Find, Grow, Refuse
<1>2. nodes \in Seq(NodeType) /\ Len(nodes) \in Nat
  BY LenProperties DEF Inv, RegistryInv, RegistryTypeOK
<1>3. ASSUME NEW node, nodes' = Append(nodes, node)
      PROVE  Len(nodes') = Len(nodes) + 1
  <2>1. nodes \in Seq(NodeType \cup {node})
    BY <1>2, SeqMonotonic
  <2> QED BY <1>3, <2>1, AppendProperties
<1> QED BY <1>1, <1>2, <1>3

LEMMA NothingUnbornStep ==
  ASSUME Inv, IdleIsEmpty, NothingUnborn, [Next]_vars
  PROVE  NothingUnborn'
<1>1. ASSUME Counts' = Counts, nodes' = nodes PROVE NothingUnborn'
  BY <1>1 DEF NothingUnborn
<1>2. CASE Quiet
  <2>1. Counts' = Counts
    BY <1>2, OthersCountNothing DEF Quiet, drainVars
  <2> QED BY <1>1, <1>2, <2>1 DEF Quiet
<1>3. CASE Drain /\ UNCHANGED <<stack, depth, nodes, overflowed, rootNs, clock>>
  BY <1>1, <1>3, OthersCountNothing
<1>4. ASSUME NEW t \in Threads, NEW func \in Functions, Open(t, func) PROVE NothingUnborn'
  <2>1. Counts' = Counts
    BY <1>4, OthersCountNothing DEF Open, drainVars
  <2>2. PICK n \in Nat, m \in Nat : n = Len(nodes) /\ m = Len(nodes') /\ n <= m
    BY <1>4, OpenGrows
  <2> SUFFICES ASSUME NEW p \in Paths, m < p PROVE Counts'[p] = 0
    BY <2>2 DEF NothingUnborn
  <2>3. n < p
    BY <2>2, MaxPathsAssumption DEF Paths
  <2> QED BY <2>1, <2>2, <2>3 DEF NothingUnborn
<1>5. ASSUME NEW t \in Threads, Close(t) PROVE NothingUnborn'
  <2>1. PICK a \in ActivationUpTo(Len(nodes), clock) :
          /\ UNCHANGED nodes
          /\ \A p \in Paths :
               Counts'[p] = Counts[p] + (IF a.path = p /\ a.counts_here THEN 1 ELSE 0)
    BY <1>5, CloseCounts
  <2>2. a.path \in 0..Len(nodes) /\ Len(nodes) \in Nat
    BY NodesBound DEF ActivationUpTo, Inv
  <2> SUFFICES ASSUME NEW p \in Paths, Len(nodes) < p PROVE Counts'[p] = 0
    BY <2>1 DEF NothingUnborn
  <2>3. a.path # p
    <3>1. PICK n \in Nat, q \in Nat : n = Len(nodes) /\ q = a.path /\ q <= n
      BY <2>2
    <3> QED BY <3>1, MaxPathsAssumption DEF Paths
  <2>4. Counts[p] = 0
    BY DEF NothingUnborn
  <2> QED BY <2>1, <2>3, <2>4
<1> QED BY <1>2, <1>3, <1>4, <1>5, StepIs

LEMMA CallsBooksStep ==
  ASSUME Inv, IdleIsEmpty, NothingUnborn, overflowed = 0 => ContextsFit, CallsBooks,
         [Next]_vars
  PROVE  CallsBooks'
<1> SUFFICES ASSUME overflowed' = 0, NEW f \in Functions
             PROVE  Everywhere(CallsOf(f))' = SumOn(Counts, OwnContexts(f))'
  BY DEF CallsBooks
<1>1. overflowed = 0 /\ ContextsFit /\ Inv'
  BY ContextsFitStep, InvStep
<1>2. Everywhere(CallsOf(f)) = SumOn(Counts, OwnContexts(f))
  BY <1>1 DEF CallsBooks
<1>3. ASSUME Counts' = Counts, nodes' = nodes
      PROVE  SumOn(Counts, OwnContexts(f))' = SumOn(Counts, OwnContexts(f))
  <2>1. OwnContexts(f)' = OwnContexts(f)
    BY <1>3 DEF OwnContexts
  <2> QED BY <1>3, <2>1
<1>4. CASE Quiet
  <2>1. Counts' = Counts /\ Everywhere(CallsOf(f))' = Everywhere(CallsOf(f))
    BY <1>4, OthersCountNothing DEF Quiet, drainVars
  <2> QED BY <1>2, <1>3, <1>4, <2>1 DEF Quiet
<1>5. CASE Drain /\ UNCHANGED <<stack, depth, nodes, overflowed, rootNs, clock>>
  <2>1. Counts' = Counts /\ Everywhere(CallsOf(f))' = Everywhere(CallsOf(f))
    BY <1>5, OthersCountNothing
  <2> QED BY <1>2, <1>3, <1>5, <2>1
<1>6. ASSUME NEW t \in Threads, NEW func \in Functions, Open(t, func)
      PROVE  Everywhere(CallsOf(f))' = SumOn(Counts, OwnContexts(f))'
  <2>1. Counts' = Counts /\ Everywhere(CallsOf(f))' = Everywhere(CallsOf(f))
    BY <1>6, OthersCountNothing DEF Open, drainVars
  <2>2. Kept /\ (nodes' = nodes \/ Len(nodes') = Len(nodes) + 1)
    BY <1>1, <1>6, OpenFits
  <2>3. SumOn(Counts, OwnContexts(f))' = SumOn(Counts, OwnContexts(f))
    BY <1>1, <2>1, <2>2, GrowingChangesNoSum
  <2> QED BY <1>2, <2>1, <2>3
<1>7. ASSUME NEW t \in Threads, Close(t)
      PROVE  Everywhere(CallsOf(f))' = SumOn(Counts, OwnContexts(f))'
  <2>1. PICK a :
          /\ a = stack[t][Len(stack[t])] /\ Len(stack[t]) \in 1..Len(stack[t])
          /\ UNCHANGED <<nodes, overflowed>>
          /\ Everywhere(CallsOf(f))'
               = Everywhere(CallsOf(f)) + (IF a.func = f /\ a.outermost THEN 1 ELSE 0)
          /\ \A p \in Paths :
               Counts'[p] = Counts[p] + (IF a.path = p /\ a.counts_here THEN 1 ELSE 0)
    BY <1>7, CloseCounts
  <2>2. InContext(a)
    BY <1>1, <2>1 DEF ContextsFit
  <2>3. a.path \in OwnContexts(f) /\ a.counts_here => a.func = f
    BY <2>2 DEF InContext, OwnContexts
  <2>4. a.path \in OwnContexts(f) <=> a.func = f /\ a.outermost
    <3>1. a.path \in OwnContexts(f) => a.func = f
      BY <2>2 DEF InContext, OwnContexts
    <3> QED BY <2>2, <3>1 DEF InContext
  <2>5. a.path \in OwnContexts(f) => a.counts_here
    BY <2>2, <2>4 DEF InContext
  <2>6. PICK S : S = OwnContexts(f) /\ S \subseteq Paths /\ IsFiniteSet(S)
    BY OwnContextsFinite DEF Inv
  <2>7. PICK v : v = Counts
    OBVIOUS
  <2>8. PICK w : w = Counts'
    OBVIOUS
  <2>9. PICK k \in Nat : k = IF a.counts_here THEN 1 ELSE 0
    OBVIOUS
  <2>10. \A p \in S : v[p] \in Nat /\ w[p] = v[p] + (IF a.path = p THEN k ELSE 0)
    <3>1. \A p \in Paths : Counts[p] \in Nat
      BY CountsAre DEF Inv
    <3> QED BY <2>1, <2>6, <2>7, <2>8, <2>9, <3>1
  <2>11. SumOn(w, S) = SumOn(v, S) + (IF a.path \in S THEN k ELSE 0)
    <3>1. PICK x : x = a.path
      OBVIOUS
    <3>2. \A p \in S : v[p] \in Nat /\ w[p] = v[p] + (IF x = p THEN k ELSE 0)
      BY <2>10, <3>1
    <3>3. IsFiniteSet(S) /\ k \in Nat
      BY <2>6
    <3>4. SumOn(w, S) = SumOn(v, S) + (IF x \in S THEN k ELSE 0)
      BY ONLY <3>2, <3>3, CountingChangesOneSum
    <3> QED BY <3>1, <3>4
  <2>12. OwnContexts(f)' = S
    BY <2>1, <2>6 DEF OwnContexts
  <2>13. SumOn(Counts, OwnContexts(f))' = SumOn(w, S)
    BY <2>8, <2>12
  <2>14. SumOn(Counts, OwnContexts(f)) = SumOn(v, S)
    BY <2>6, <2>7
  <2>15. (IF a.path \in S THEN k ELSE 0) = (IF a.func = f /\ a.outermost THEN 1 ELSE 0)
    BY <2>4, <2>5, <2>6, <2>9
  <2> QED BY <1>2, <2>1, <2>11, <2>13, <2>14, <2>15
<1> QED BY <1>4, <1>5, <1>6, <1>7, StepIs

CallsInv == /\ SelfInv /\ NothingUnborn /\ CallsBooks
            /\ overflowed = 0 => ContextsFit

LEMMA CallsInit == Init => NothingUnborn /\ CallsBooks /\ ContextsFit
<1> SUFFICES ASSUME Init PROVE NothingUnborn /\ CallsBooks /\ ContextsFit
  OBVIOUS
<1>1. \A p \in Paths : Counts[p] = 0
  BY BooksInit, CountsAreAdditive DEF Counts
<1>2. NothingUnborn
  BY <1>1 DEF NothingUnborn
<1>3. ASSUME NEW f \in Functions PROVE Everywhere(CallsOf(f)) = SumOn(Counts, OwnContexts(f))
  <2>1. Everywhere(CallsOf(f)) = 0
    BY BooksInit, CallsAreAdditive
  <2>2. OwnContexts(f) = {}
    <3>1. nodes = << >>
      BY DEF Init, RegistryInit
    <3>2. DOMAIN nodes = {}
      BY <3>1
    <3> QED BY <3>2 DEF OwnContexts
  <2>3. SumOn(Counts, {}) = 0
    BY SumOfNone
  <2> QED BY <2>1, <2>2, <2>3
<1>4. ContextsFit
  <2>1. \A t \in Threads : stack[t] = << >> /\ Len(stack[t]) = 0
    BY DEF Init
  <2>2. \A t \in Threads : \A f \in Functions : depth[t][f].count = 0
    BY DEF Init, NoDepth
  <2> QED BY <2>1, <2>2 DEF ContextsFit, Remembers
<1> QED BY <1>2, <1>3, <1>4 DEF CallsBooks

LEMMA CallsInvAlways == Spec => []CallsInv
<1>1. Init => CallsInv
  BY InvInit, SelfInit, CallsInit DEF CallsInv, SelfInv
<1>2. CallsInv /\ [Next]_vars => CallsInv'
  <2> SUFFICES ASSUME CallsInv, [Next]_vars PROVE CallsInv'
    OBVIOUS
  <2>1. SelfInv'
    BY InvStep, IdleIsEmptyStep, ChildrenFitStep, SelfBooksStep DEF CallsInv, SelfInv
  <2>2. NothingUnborn' /\ CallsBooks'
    BY NothingUnbornStep, CallsBooksStep DEF CallsInv, SelfInv
  <2>3. overflowed' = 0 => ContextsFit'
    BY ContextsFitStep DEF CallsInv, SelfInv
  <2> QED BY <2>1, <2>2, <2>3 DEF CallsInv
<1> QED BY <1>1, <1>2, PTL DEF Spec

\* The two tables of a window agree: the inductive statement says of every open
\* activation which context it is in, and that what does not exist is not counted.
THEOREM CallsMatchTheirContexts == Spec => []CallsMatchContexts
<1>1. CallsInv => CallsMatchContexts
  <2> SUFFICES ASSUME CallsInv, overflowed = 0, NEW f \in Functions
               PROVE  Total.calls[f].count
                        = SumFunction([p \in OwnContexts(f) |-> Total.stacks[p].count])
    BY DEF CallsMatchContexts
  <2>1. Inv /\ AccumInv /\ RegistryInv
    BY DEF CallsInv, SelfInv, Inv
  <2>2. Total \in AccumType /\ \A m : Additive(m) => m[Total] = Everywhere(m)
    BY <2>1, TotalMeasures
  <2>3. Total.calls[f].count = Everywhere(CallsOf(f))
    BY <2>2, CallsAreAdditive DEF CallsOf
  <2>4. \A p \in Paths : Total.stacks[p].count = Counts[p] /\ Counts[p] \in Int
    <3>1. \A p \in Paths : CountIn(p)[Total] = Everywhere(CountIn(p))
      BY <2>2, CountsAreAdditive
    <3>2. \A p \in Paths : Counts[p] = Everywhere(CountIn(p)) /\ Counts[p] \in Nat
      BY <2>1, CountsAre
    <3>3. PICK total \in AccumType : total = Total
      BY <2>2
    <3>4. \A p \in Paths : CountIn(p)[total] = total.stacks[p].count
      BY DEF CountIn
    <3> QED BY <3>1, <3>2, <3>3, <3>4
  <2>5. PICK w : w = [p \in OwnContexts(f) |-> Total.stacks[p].count]
    OBVIOUS
  <2>6. SumFunction(w) = SumOn(w, OwnContexts(f))
    BY <2>5, SumFunctionIs
  <2>7. SumOn(w, OwnContexts(f)) = SumOn(Counts, OwnContexts(f))
    <3>1. \A p \in OwnContexts(f) : w[p] \in Int /\ w[p] = Counts[p]
      BY <2>1, <2>4, <2>5, OwnContextsFinite
    <3> QED BY <2>1, <3>1, OwnContextsFinite, SumAgrees
  <2> QED BY <2>3, <2>5, <2>6, <2>7 DEF CallsInv, CallsBooks
<1> QED BY <1>1, CallsInvAlways, PTL

-----------------------------------------------------------------------------
(* Chains: a context's functions from the root of the tree down to it.     *)

\* c is the chains of the first n contexts of a tree.
Chains(c, tree, n) ==
  c = [id \in 0..n |-> IF id = 0 THEN << >> ELSE Append(c[tree[id].parent], tree[id].func)]

\* A tree's contexts lie below contexts numbered before them.
IsTree(tree) ==
  /\ tree \in Seq(NodeType)
  /\ \A id \in 1..Len(tree) : tree[id].parent \in 0..(id - 1) /\ tree[id].func \in Functions

LEMMA ForestsAreTrees ==
  ASSUME NEW tree \in Seq(NodeType), \A id \in DOMAIN tree : tree[id].parent < id
  PROVE  IsTree(tree)
<1>1. Len(tree) \in Nat /\ DOMAIN tree = 1..Len(tree)
  BY LenProperties
<1>2. ASSUME NEW id \in 1..Len(tree)
      PROVE  tree[id].parent \in 0..(id - 1) /\ tree[id].func \in Functions
  <2>1. PICK node \in NodeType : node = tree[id]
    BY ElementOfSeq
  <2>2. node.parent \in Nat /\ node.func \in Functions
    BY MaxPathsAssumption DEF NodeType
  <2>3. node.parent < id
    BY <1>1, <2>1
  <2> QED BY <1>1, <2>1, <2>2, <2>3
<1> QED BY <1>1, <1>2 DEF IsTree

LEMMA NodesAreTree ==
  RegistryInv => IsTree(nodes) /\ IsInjective(nodes)
BY ForestsAreTrees DEF RegistryInv, RegistryTypeOK, PathForest

LEMMA NodesAreTreeThen ==
  RegistryInv' => IsTree(nodes')
BY ForestsAreTrees DEF RegistryInv, RegistryTypeOK, PathForest

\* The chains of a tree exist.
LEMMA ChainsExist ==
  ASSUME NEW tree, IsTree(tree)
  PROVE  \E c : Chains(c, tree, Len(tree))
<1>1. PICK size \in Nat : size = Len(tree)
  BY LenProperties DEF IsTree
<1>2. \A id \in 1..size : tree[id].parent \in 0..(id - 1)
  BY <1>1 DEF IsTree
<1>3. \E c : Chains(c, tree, 0)
  <2>1. Chains([id \in 0..0 |-> << >>], tree, 0)
    BY DEF Chains
  <2> QED BY <2>1
<1>4. ASSUME NEW n \in Nat, n + 1 <= size, NEW c, Chains(c, tree, n)
      PROVE  \E d : Chains(d, tree, n + 1)
  <2>1. PICK last : last = Append(c[tree[n + 1].parent], tree[n + 1].func)
    OBVIOUS
  <2>2. PICK d : d = [id \in 0..(n + 1) |-> IF id = n + 1 THEN last ELSE c[id]]
    OBVIOUS
  <2>3. ASSUME NEW id \in 0..(n + 1)
        PROVE  d[id] = IF id = 0 THEN << >> ELSE Append(d[tree[id].parent], tree[id].func)
    <3>1. id # 0 => tree[id].parent \in 0..(id - 1)
      BY <1>2, <1>4
    <3>2. id # 0 => d[tree[id].parent] = c[tree[id].parent]
      BY <2>2, <3>1
    <3>3. CASE id = n + 1
      <4>1. d[id] = last /\ id # 0
        BY <2>2, <3>3
      <4> QED BY <2>1, <3>2, <3>3, <4>1
    <3>4. CASE id # n + 1
      <4>1. id \in 0..n /\ d[id] = c[id]
        BY <2>2, <3>4
      <4>2. c[id] = IF id = 0 THEN << >> ELSE Append(c[tree[id].parent], tree[id].func)
        BY <1>4, <4>1 DEF Chains
      <4> QED BY <3>2, <4>1, <4>2
    <3> QED BY <3>3, <3>4
  <2>4. Chains(d, tree, n + 1)
    BY <2>2, <2>3 DEF Chains
  <2> QED BY <2>4
<1> DEFINE N == {n \in Nat : n <= size => \E c : Chains(c, tree, n)}
<1>5. Nat \subseteq N
  <2>1. 0 \in N
    BY <1>3
  <2>2. \A n \in Nat : n \in N => n + 1 \in N
    BY <1>4
  <2> HIDE DEF N
  <2> QED BY <2>1, <2>2, EveryNatural
<1> QED BY <1>1, <1>5

ChainsOf(tree) == CHOOSE c : Chains(c, tree, Len(tree))

\* What the chains are, and that a tree with no context twice has no chain twice.
LEMMA ChainsAre ==
  ASSUME NEW tree, IsTree(tree)
  PROVE  /\ ChainsOf(tree)[0] = << >>
         /\ \A id \in 1..Len(tree) :
              ChainsOf(tree)[id] = Append(ChainsOf(tree)[tree[id].parent], tree[id].func)
         /\ \A id \in 0..Len(tree) : ChainsOf(tree)[id] \in Seq(Functions)
<1>1. PICK c : c = ChainsOf(tree) /\ Chains(c, tree, Len(tree))
  BY ChainsExist DEF ChainsOf
<1>2. Len(tree) \in Nat
  BY LenProperties DEF IsTree
<1>3. c[0] = << >> /\ \A id \in 1..Len(tree) : c[id] = Append(c[tree[id].parent], tree[id].func)
  <2>1. \A id \in 0..Len(tree) :
          c[id] = IF id = 0 THEN << >> ELSE Append(c[tree[id].parent], tree[id].func)
    BY <1>1 DEF Chains
  <2>2. 0 \in 0..Len(tree)
    BY <1>2
  <2>3. \A id \in 1..Len(tree) : id \in 0..Len(tree) /\ id # 0
    BY <1>2
  <2> QED BY <2>1, <2>2, <2>3
<1>4. PICK size \in Nat : size = Len(tree)
  BY <1>2
<1>5. c[0] \in Seq(Functions)
  BY <1>3, EmptySeq
<1>6. ASSUME NEW n \in Nat, \A id \in 0..n : c[id] \in Seq(Functions), n + 1 <= size
      PROVE  c[n + 1] \in Seq(Functions)
  <2>1. n + 1 \in 1..Len(tree)
    BY <1>4, <1>6
  <2>2. PICK p \in 0..n, f \in Functions : p = tree[n + 1].parent /\ f = tree[n + 1].func
    BY <2>1 DEF IsTree
  <2>3. c[n + 1] = Append(c[p], f)
    BY <1>3, <2>1, <2>2
  <2> QED BY <1>6, <2>2, <2>3, AppendProperties
<1>7. \A id \in 0..size : c[id] \in Seq(Functions)
  <2> DEFINE P == {id \in Nat : c[id] \in Seq(Functions)}
  <2>1. \A n \in Nat : (\A id \in 0..n : id \in P) /\ n + 1 <= size => n + 1 \in P
    BY <1>6
  <2>2. 0 \in P
    BY <1>5
  <2> HIDE DEF P
  <2>3. \A id \in 0..size : id \in P
    BY <2>1, <2>2, EveryNaturalUpTo
  <2> QED BY <2>3 DEF P
<1> QED BY <1>1, <1>3, <1>4, <1>7

\* A tree that grows leaves every chain as it was.
LEMMA ChainsAgree ==
  ASSUME NEW tree, IsTree(tree), NEW more, IsTree(more), Len(tree) <= Len(more),
         \A id \in 1..Len(tree) : more[id] = tree[id]
  PROVE  \A id \in 0..Len(tree) : ChainsOf(more)[id] = ChainsOf(tree)[id]
<1>1. PICK c, d : c = ChainsOf(tree) /\ d = ChainsOf(more)
  OBVIOUS
<1>2. Len(tree) \in Nat /\ Len(more) \in Nat
  BY LenProperties DEF IsTree
<1>3. c[0] = << >> /\ d[0] = << >>
  BY <1>1, ChainsAre
<1>4. PICK size \in Nat : size = Len(tree)
  BY <1>2
<1>5. ASSUME NEW n \in Nat, \A id \in 0..n : d[id] = c[id], n + 1 <= size
      PROVE  d[n + 1] = c[n + 1]
  <2>1. n + 1 \in 1..Len(tree) /\ n + 1 \in 1..Len(more)
    BY <1>2, <1>4, <1>5
  <2>2. /\ c[n + 1] = Append(c[tree[n + 1].parent], tree[n + 1].func)
        /\ d[n + 1] = Append(d[more[n + 1].parent], more[n + 1].func)
    BY <1>1, <2>1, ChainsAre
  <2>3. more[n + 1] = tree[n + 1]
    BY <2>1
  <2>4. PICK p \in 0..n : p = tree[n + 1].parent
    BY <2>1 DEF IsTree
  <2>5. d[p] = c[p]
    BY <1>5
  <2> QED BY <2>2, <2>3, <2>4, <2>5
<1>6. \A id \in 0..size : d[id] = c[id]
  <2> DEFINE P == {id \in Nat : d[id] = c[id]}
  <2>1. \A n \in Nat : (\A id \in 0..n : id \in P) /\ n + 1 <= size => n + 1 \in P
    BY <1>5
  <2>2. 0 \in P
    BY <1>3
  <2> HIDE DEF P
  <2>3. \A id \in 0..size : id \in P
    BY <2>1, <2>2, EveryNaturalUpTo
  <2> QED BY <2>3 DEF P
<1> QED BY <1>1, <1>4, <1>6

LEMMA ChainsDiffer ==
  ASSUME NEW tree, IsTree(tree), IsInjective(tree),
         NEW a \in 0..Len(tree), NEW b \in 0..Len(tree), ChainsOf(tree)[a] = ChainsOf(tree)[b]
  PROVE  a = b
<1>1. PICK c : c = ChainsOf(tree)
  OBVIOUS
<1>2. PICK size \in Nat : size = Len(tree) /\ DOMAIN tree = 1..size
  BY LenProperties DEF IsTree
<1>3. ASSUME NEW i \in 1..size
      PROVE  \E p \in 0..size, f \in Functions :
               /\ tree[i] = Node(p, f) /\ p < i
               /\ c[p] \in Seq(Functions) /\ c[i] = Append(c[p], f)
  <2>1. i \in 1..Len(tree)
    BY <1>2
  <2>2. PICK p \in 0..(i - 1), f \in Functions : p = tree[i].parent /\ f = tree[i].func
    BY <2>1 DEF IsTree
  <2>3. c[i] = Append(c[p], f)
    BY <1>1, <2>1, <2>2, ChainsAre
  <2>4. p \in 0..Len(tree) /\ p \in 0..size /\ p < i
    BY <1>2
  <2>5. c[p] \in Seq(Functions)
    BY <1>1, <2>4, ChainsAre
  <2>6. tree[i] = Node(p, f)
    <3>1. tree[i] \in NodeType
      BY <2>1, ElementOfSeq DEF IsTree
    <3> QED BY <2>2, <3>1 DEF NodeType, Node
  <2> QED BY <2>3, <2>4, <2>5, <2>6
<1>4. c[0] = << >>
  BY <1>1, ChainsAre
<1>5. \A i \in 1..size : c[i] # << >>
  <2> SUFFICES ASSUME NEW i \in 1..size PROVE c[i] # << >>
    OBVIOUS
  <2>1. PICK p \in 0..size, f \in Functions : c[p] \in Seq(Functions) /\ c[i] = Append(c[p], f)
    BY <1>3
  <2> QED BY <2>1, AppendProperties
<1> DEFINE Alone == {i \in 0..size : \A j \in 0..size : c[j] = c[i] => j = i}
<1>6. 0 \in Alone
  BY <1>4, <1>5
<1>7. ASSUME NEW n \in Nat, \A i \in 0..n : i \in Alone, n + 1 <= size PROVE n + 1 \in Alone
  <2> SUFFICES ASSUME NEW j \in 0..size, c[j] = c[n + 1] PROVE j = n + 1
    BY <1>7
  <2>1. n + 1 \in 1..size /\ j \in 1..size
    BY <1>4, <1>5, <1>7
  <2>2. PICK p \in 0..size, f \in Functions :
          /\ tree[n + 1] = Node(p, f) /\ p < n + 1
          /\ c[p] \in Seq(Functions) /\ c[n + 1] = Append(c[p], f)
    BY <1>3, <2>1
  <2>3. PICK q \in 0..size, g \in Functions :
          /\ tree[j] = Node(q, g)
          /\ c[q] \in Seq(Functions) /\ c[j] = Append(c[q], g)
    BY <1>3, <2>1
  <2>4. c[q] = c[p] /\ g = f
    <3>1. PICK s \in Seq(Functions), u \in Seq(Functions) : s = c[q] /\ u = c[p]
      BY <2>2, <2>3
    <3>2. Append(s, g) = Append(u, f)
      BY <2>2, <2>3, <3>1
    <3>3. s = u /\ g = f
      BY <3>2, AppendInjective
    <3> QED BY <3>1, <3>3
  <2>5. q = p
    <3>1. p \in Alone
      BY <1>7, <2>2
    <3> QED BY <2>4, <3>1
  <2>6. tree[j] = tree[n + 1]
    BY <2>2, <2>3, <2>4, <2>5
  <2> QED BY <1>2, <2>1, <2>6 DEF IsInjective
<1>8. \A i \in 0..size : i \in Alone
  <2> HIDE DEF Alone
  <2> QED BY <1>6, <1>7, EveryNaturalUpTo
<1> QED BY <1>1, <1>2, <1>8

\* The model's chains are those of the tree it has.
LEMMA ChainOfIs == ChainOf = ChainsOf(nodes)
BY DEF ChainOf, ChainsOf, Chains

\* Interning leaves the chains of the contexts there were.
LEMMA ChainsKept ==
  ASSUME RegistryInv, RegistryInv', Kept
  PROVE  /\ Len(nodes) \in Nat /\ Len(nodes') \in Nat /\ Len(nodes) <= Len(nodes')
         /\ \A id \in 0..Len(nodes) : ChainOf'[id] = ChainOf[id]
<1>1. Len(nodes) \in Nat /\ Len(nodes') \in Nat /\ Len(nodes) <= Len(nodes')
  BY LenProperties DEF RegistryInv, RegistryTypeOK, Kept
<1>2. PICK tree, more : tree = nodes /\ more = nodes'
  OBVIOUS
<1>3. IsTree(tree)
  BY <1>2, NodesAreTree
<1>4. IsTree(more)
  BY <1>2, NodesAreTreeThen
<1>5. Len(tree) <= Len(more) /\ \A id \in 1..Len(tree) : more[id] = tree[id]
  BY <1>2 DEF Kept
<1>6. \A id \in 0..Len(tree) : ChainsOf(more)[id] = ChainsOf(tree)[id]
  BY <1>3, <1>4, <1>5, ChainsAgree
<1>7. ChainOf = ChainsOf(tree) /\ ChainOf' = ChainsOf(more)
  BY <1>2 DEF ChainOf, ChainsOf, Chains
<1> QED BY <1>1, <1>2, <1>6, <1>7

LEMMA ChainIsFunctions ==
  ASSUME RegistryInv
  PROVE  ChainOf[0] = << >> /\ \A id \in 0..Len(nodes) : ChainOf[id] \in Seq(Functions)
BY NodesAreTree, ChainsAre, ChainOfIs

\* The chain of the context asked for is that of its parent with the function after it, or
\* the parent's own where the table is full; the others are as they were.
LEMMA ContextExtends ==
  ASSUME RegistryInv, MemoInv, NEW t \in Threads, NEW parent \in 0..Len(nodes),
         NEW func \in Functions, Interned(func), NEW path \in Paths,
         Context(t, parent, func, path), UNCHANGED functions
  PROVE  /\ ChainOf'[path] \in {ChainOf[parent], Append(ChainOf[parent], func)}
         /\ \A id \in 0..Len(nodes') : \/ id \in 0..Len(nodes) /\ ChainOf'[id] = ChainOf[id]
                                       \/ ChainOf'[id] = Append(ChainOf[parent], func)
<1>1. RegistryInv' /\ Kept /\ path \in 0..Len(nodes')
  BY ContextKeeps
<1>2. PICK n \in Nat, m \in Nat : n = Len(nodes) /\ m = Len(nodes') /\ n <= m
  BY <1>1, ChainsKept
<1>3. \A id \in 0..n : ChainOf'[id] = ChainOf[id]
  BY <1>1, <1>2, ChainsKept
<1>4. ASSUME NEW id \in 1..m, nodes'[id] = Node(parent, func)
      PROVE  ChainOf'[id] = Append(ChainOf[parent], func)
  <2>1. PICK more : more = nodes' /\ IsTree(more)
    BY <1>1, NodesAreTreeThen
  <2>2. ChainOf' = ChainsOf(more)
    BY <2>1 DEF ChainOf, ChainsOf, Chains
  <2>3. id \in 1..Len(more)
    BY <1>2, <2>1
  <2>4. more[id].parent = parent /\ more[id].func = func
    BY <1>4, <2>1 DEF Node
  <2>5. ChainsOf(more)[id] = Append(ChainsOf(more)[parent], func)
    BY <2>1, <2>3, <2>4, ChainsAre
  <2> QED BY <1>2, <1>3, <2>2, <2>5
<1>5. CASE nodes' = nodes
  <2>1. path = parent \/ (path \in 1..m /\ nodes'[path] = Node(parent, func))
    <3>1. <<parent, func>> \in Paths \X Functions
      BY NodesBound DEF Paths
    <3>2. CASE memo[t][<<parent, func>>] # 0
      <4>1. path = memo[t][<<parent, func>>]
        BY <3>2 DEF Context
      <4>2. path \in DOMAIN nodes /\ nodes[path] = Node(parent, func)
        BY <3>1, <3>2, <4>1 DEF MemoInv, MemoAgrees
      <4> QED BY <1>2, <1>5, <4>2, NodesBound
    <3>3. CASE memo[t][<<parent, func>>] = 0
      <4>1. PICK id \in Paths : InternPath(parent, func, id) /\ path = IF id = 0 THEN parent ELSE id
        BY <3>3 DEF Context
      <4>2. id # 0 => id \in 1..Len(nodes') /\ nodes'[id] = Node(parent, func)
        <5>1. functions' \in Seq(Functions) /\ Interned(func)' /\ \A g : Interned(g) => Interned(g)'
          BY DEF RegistryInv, RegistryTypeOK, Interned
        <5> QED BY <4>1, <5>1, InternPathKeeps
      <4> QED BY <1>2, <4>1, <4>2
    <3> QED BY <3>2, <3>3
  <2>2. m = n
    BY <1>2, <1>5
  <2> QED BY <1>1, <1>2, <1>3, <1>4, <2>1, <2>2
<1>6. CASE nodes' # nodes
  <2>1. Grow(parent, func, path)
    <3>1. memo[t][<<parent, func>>] = 0
      BY <1>6 DEF Context
    <3>2. PICK id \in Paths : InternPath(parent, func, id) /\ path = IF id = 0 THEN parent ELSE id
      BY <3>1 DEF Context
    <3>3. Grow(parent, func, id)
      BY <1>6, <3>2 DEF InternPath, Find, Refuse
    <3>4. id # 0
      BY <1>2, <3>3 DEF Grow
    <3> QED BY <3>2, <3>3, <3>4
  <2>2. path = n + 1 /\ nodes' = Append(nodes, Node(parent, func))
    BY <1>2, <2>1 DEF Grow
  <2>3. Len(nodes') = n + 1 /\ nodes'[n + 1] = Node(parent, func)
    <3>1. Node(parent, func) \in NodeType
      BY NodesBound DEF Node, NodeType
    <3> QED BY <1>2, <2>2, <3>1, AppendProperties DEF RegistryInv, RegistryTypeOK
  <2>4. m = n + 1 /\ n + 1 \in 1..m
    BY <1>2, <2>3
  <2>5. ChainOf'[path] = Append(ChainOf[parent], func)
    BY <1>4, <2>2, <2>3, <2>4
  <2>6. \A id \in 0..m : id \in 0..n \/ id = path
    BY <2>2, <2>4
  <2> QED BY <1>2, <1>3, <2>5, <2>6
<1> QED BY <1>5, <1>6

-----------------------------------------------------------------------------
(* What is left of a stack: its functions, some of them dropped.           *)

FunctionsUpTo(s, k) == [j \in 1..k |-> s[j].func]

\* at tells where on the lowest k levels of s the chain c lies.
Lies(c, s, k, at) ==
  /\ at \in [1..Len(c) -> 1..k]
  /\ \A i \in 1..Len(c) : c[i] = s[at[i]].func
  /\ \A i \in 1..Len(c) : \A j \in 1..(i - 1) : at[j] < at[i]

LEMMA EmbedsIs ==
  ASSUME NEW c \in Seq(Functions), NEW s, NEW k \in Nat
  PROVE  Embeds(c, FunctionsUpTo(s, k)) <=> \E at : Lies(c, s, k, at)
<1>1. DOMAIN c = 1..Len(c) /\ Len(c) \in Nat
  BY LenProperties
<1>2. PICK t : t = FunctionsUpTo(s, k)
  OBVIOUS
<1>3. DOMAIN t = 1..k /\ \A j \in 1..k : t[j] = s[j].func
  BY <1>2 DEF FunctionsUpTo
<1>4. ASSUME NEW at \in [1..Len(c) -> 1..k], NEW i \in 1..Len(c)
      PROVE  t[at[i]] = s[at[i]].func
  BY <1>3
<1>5. Embeds(c, t) => \E at : Lies(c, s, k, at)
  <2> SUFFICES ASSUME Embeds(c, t) PROVE \E at : Lies(c, s, k, at)
    OBVIOUS
  <2>1. PICK at \in [1..Len(c) -> 1..k] :
          \A i \in 1..Len(c) : c[i] = t[at[i]] /\ \A j \in 1..(i - 1) : at[j] < at[i]
    BY <1>1, <1>3 DEF Embeds
  <2>2. \A i \in 1..Len(c) : c[i] = s[at[i]].func
    BY <1>4, <2>1
  <2>3. Lies(c, s, k, at)
    BY <2>1, <2>2 DEF Lies
  <2> QED BY <2>3
<1>6. ASSUME NEW at, Lies(c, s, k, at) PROVE Embeds(c, t)
  <2>1. at \in [1..Len(c) -> 1..k]
    BY <1>6 DEF Lies
  <2>2. \A i \in 1..Len(c) : c[i] = t[at[i]] /\ \A j \in 1..(i - 1) : at[j] < at[i]
    BY <1>4, <1>6, <2>1 DEF Lies
  <2> QED BY <1>1, <1>3, <2>1, <2>2 DEF Embeds
<1> QED BY <1>2, <1>5, <1>6

LEMMA EmbedsNothing ==
  ASSUME NEW s, NEW k \in Nat
  PROVE  Embeds(<< >>, FunctionsUpTo(s, k))
<1>1. << >> \in Seq(Functions) /\ Len(<< >>) = 0
  BY EmptySeq
<1>2. PICK at : at = [i \in 1..0 |-> 1]
  OBVIOUS
<1>3. Lies(<< >>, s, k, at)
  BY <1>1, <1>2 DEF Lies
<1> QED BY <1>1, <1>3, EmbedsIs

\* Closing levels below which a chain lies, or opening others, changes nothing of it.
LEMMA EmbedsFurther ==
  ASSUME NEW c \in Seq(Functions), NEW s, NEW r, NEW k \in Nat, NEW m \in Nat, k <= m,
         \A j \in 1..k : r[j].func = s[j].func, Embeds(c, FunctionsUpTo(s, k))
  PROVE  Embeds(c, FunctionsUpTo(r, m))
<1>0. PICK at : Lies(c, s, k, at)
  BY EmbedsIs
<1>1. /\ at \in [1..Len(c) -> 1..k]
      /\ \A i \in 1..Len(c) : c[i] = s[at[i]].func /\ \A j \in 1..(i - 1) : at[j] < at[i]
  BY <1>0 DEF Lies
<1>2. at \in [1..Len(c) -> 1..m]
  <2>1. 1..k \subseteq 1..m
    OBVIOUS
  <2> QED BY <1>1, <2>1
<1>3. \A i \in 1..Len(c) : c[i] = r[at[i]].func
  BY <1>1
<1>4. Lies(c, r, m, at)
  BY <1>1, <1>2, <1>3 DEF Lies
<1> QED BY <1>4, EmbedsIs

\* A chain and the function opened last.
LEMMA EmbedsOneMore ==
  ASSUME NEW c \in Seq(Functions), NEW s, NEW r, NEW k \in Nat, NEW m \in Nat, k < m,
         \A j \in 1..k : r[j].func = s[j].func, Embeds(c, FunctionsUpTo(s, k)),
         NEW func \in Functions, r[m].func = func
  PROVE  Embeds(Append(c, func), FunctionsUpTo(r, m))
<1>0. PICK at : Lies(c, s, k, at)
  BY EmbedsIs
<1>1. /\ at \in [1..Len(c) -> 1..k]
      /\ \A i \in 1..Len(c) : c[i] = s[at[i]].func /\ \A j \in 1..(i - 1) : at[j] < at[i]
  BY <1>0 DEF Lies
<1>2. PICK n \in Nat : n = Len(c)
  BY LenProperties
<1>3. PICK d \in Seq(Functions) : d = Append(c, func)
  BY AppendProperties
<1>4. Len(d) = n + 1 /\ d[n + 1] = func /\ \A i \in 1..n : d[i] = c[i]
  BY <1>2, <1>3, AppendProperties
<1>5. PICK to : to = [i \in 1..(n + 1) |-> IF i = n + 1 THEN m ELSE at[i]]
  OBVIOUS
<1>6. \A i \in 1..n : at[i] \in 1..k /\ at[i] \in 1..m /\ at[i] < m /\ to[i] = at[i]
  BY <1>1, <1>2, <1>5
<1>7. to[n + 1] = m
  BY <1>5
<1>8. to \in [1..(n + 1) -> 1..m]
  <2>1. \A i \in 1..(n + 1) : to[i] \in 1..m
    <3> SUFFICES ASSUME NEW i \in 1..(n + 1) PROVE to[i] \in 1..m
      OBVIOUS
    <3>1. i = n + 1 \/ i \in 1..n
      OBVIOUS
    <3> QED BY <1>6, <1>7, <3>1
  <2> QED BY <1>5, <2>1
<1>9. ASSUME NEW i \in 1..(n + 1)
      PROVE  d[i] = r[to[i]].func /\ \A j \in 1..(i - 1) : to[j] < to[i]
  <2>1. CASE i = n + 1
    BY <1>4, <1>6, <1>7, <2>1
  <2>2. CASE i # n + 1
    <3>1. i \in 1..n /\ to[i] = at[i] /\ at[i] \in 1..k
      BY <1>6, <2>2
    <3>2. c[i] = s[at[i]].func /\ \A j \in 1..(i - 1) : at[j] < at[i]
      BY <1>1, <1>2, <3>1
    <3>3. \A j \in 1..(i - 1) : to[j] = at[j]
      BY <1>6, <3>1
    <3> QED BY <1>4, <3>1, <3>2, <3>3
  <2> QED BY <2>1, <2>2
<1>10. Lies(d, r, m, to)
  BY <1>4, <1>8, <1>9 DEF Lies
<1> QED BY <1>3, <1>10, EmbedsIs

NoneOf(s, k, func) == \A j \in 1..k : s[j].func # func
OnlyEnds(c, func) == \A i \in 1..Len(c) : c[i] = func => i = Len(c)

\* What is open at the top, and nowhere below, can only end the chain.
LEMMA EmbedsLast ==
  ASSUME NEW c \in Seq(Functions), NEW s, NEW k \in Nat, Embeds(c, FunctionsUpTo(s, k)), NEW func,
         NoneOf(s, k - 1, func)
  PROVE  OnlyEnds(c, func)
<1>0. PICK at : Lies(c, s, k, at)
  BY EmbedsIs
<1>1. /\ at \in [1..Len(c) -> 1..k]
      /\ \A i \in 1..Len(c) : c[i] = s[at[i]].func /\ \A j \in 1..(i - 1) : at[j] < at[i]
  BY <1>0 DEF Lies
<1>2. PICK n \in Nat : n = Len(c)
  BY LenProperties
<1>3. ASSUME NEW i \in 1..n, c[i] = func
      PROVE  at[i] = k /\ at[i] \in 1..k /\ s[at[i]].func = func
  <2>1. at[i] \in 1..k /\ s[at[i]].func = func
    BY <1>1, <1>2, <1>3
  <2>2. at[i] \notin 1..(k - 1)
    BY <2>1 DEF NoneOf
  <2> QED BY <2>1, <2>2
<1>4. ASSUME NEW i \in 1..n, c[i] = func PROVE i = n
  <2>1. at[i] = k
    BY <1>3, <1>4
  <2>2. at[n] \in 1..k
    BY <1>1, <1>2
  <2>3. i # n => at[i] < at[n]
    BY <1>1, <1>2
  <2> QED BY <2>1, <2>2, <2>3
<1> QED BY <1>2, <1>4 DEF OnlyEnds

-----------------------------------------------------------------------------
(* Chains that name no function more than twice, and then in a row.        *)

InARow(c) == \A i, j \in DOMAIN c : i < j /\ c[i] = c[j] => j = i + 1

LEMMA InARowMore ==
  ASSUME NEW c \in Seq(Functions), InARow(c), NEW func \in Functions, OnlyEnds(c, func)
  PROVE  InARow(Append(c, func))
<1>1. PICK n \in Nat : n = Len(c) /\ DOMAIN c = 1..n
  BY LenProperties
<1>2. PICK d \in Seq(Functions) : d = Append(c, func)
  BY AppendProperties
<1>3. Len(d) = n + 1 /\ d[n + 1] = func /\ \A i \in 1..n : d[i] = c[i]
  BY <1>1, <1>2, AppendProperties
<1>4. DOMAIN d = 1..(n + 1)
  BY <1>3, LenProperties
<1>5. ASSUME NEW i \in 1..(n + 1), NEW j \in 1..(n + 1), i < j, d[i] = d[j]
      PROVE  j = i + 1
  <2>1. i \in 1..n /\ d[i] = c[i]
    BY <1>3, <1>5
  <2>2. CASE j = n + 1
    BY <1>1, <1>3, <1>5, <2>1, <2>2 DEF OnlyEnds
  <2>3. CASE j # n + 1
    <3>1. j \in 1..n /\ d[j] = c[j]
      BY <1>3, <2>3
    <3> QED BY <1>1, <1>5, <2>1, <3>1 DEF InARow
  <2> QED BY <2>2, <2>3
<1> QED BY <1>2, <1>4, <1>5 DEF InARow

\* Such a chain is at most twice as long as there are functions.
LEMMA InARowIsShort ==
  ASSUME NEW c \in Seq(Functions), InARow(c)
  PROVE  Len(c) <= 2 * Cardinality(Functions)
<1>1. PICK n \in Nat : n = Len(c) /\ DOMAIN c = 1..n
  BY LenProperties
<1>2. \A i \in 1..n : c[i] \in Functions
  BY <1>1, ElementOfSeq
<1> DEFINE Repeated(i) == i - 1 \in 1..n /\ c[i - 1] = c[i]
           Second == {i \in 1..n : Repeated(i)}
           First == {i \in 1..n : ~Repeated(i)}
<1>3. ASSUME NEW S \in SUBSET (1..n), \A i \in S : \A j \in S : i < j => c[i] # c[j]
      PROVE  IsFiniteSet(S) /\ Cardinality(S) <= Cardinality(Functions)
  <2>1. PICK f : f = [i \in S |-> c[i]]
    OBVIOUS
  <2>2. f \in [S -> Functions]
    BY <1>2, <2>1
  <2>3. \A i, j \in S : f[i] = f[j] => i = j
    BY <1>3, <2>1
  <2>4. f \in Injection(S, Functions)
    BY <2>2, <2>3 DEF Injection, IsInjective
  <2> QED BY <2>4, FunctionsFinite, FS_Injection
<1>4. \A i \in Second : \A j \in Second : i < j => c[i] # c[j]
  <2> SUFFICES ASSUME NEW i \in Second, NEW j \in Second, i < j, c[i] = c[j] PROVE FALSE
    OBVIOUS
  <2>1. i \in 1..n /\ j \in 1..n /\ i - 1 \in 1..n /\ c[i - 1] = c[j]
    OBVIOUS
  <2>2. j = i + 1 /\ j = (i - 1) + 1
    BY <1>1, <2>1 DEF InARow
  <2> QED BY <2>1, <2>2
<1>5. \A i \in First : \A j \in First : i < j => c[i] # c[j]
  <2> SUFFICES ASSUME NEW i \in First, NEW j \in First, i < j, c[i] = c[j] PROVE FALSE
    OBVIOUS
  <2>1. i \in 1..n /\ j \in 1..n
    OBVIOUS
  <2>2. j = i + 1
    BY <1>1, <2>1 DEF InARow
  <2>3. Repeated(j)
    BY <2>1, <2>2
  <2> QED BY <2>3
<1>6. First \cup Second = 1..n /\ First \cap Second = {}
  OBVIOUS
<1>7. First \in SUBSET (1..n) /\ Second \in SUBSET (1..n)
  OBVIOUS
<1> HIDE DEF First, Second
<1>8. /\ IsFiniteSet(First) /\ Cardinality(First) <= Cardinality(Functions)
      /\ IsFiniteSet(Second) /\ Cardinality(Second) <= Cardinality(Functions)
  BY <1>3, <1>4, <1>5, <1>7
<1>9. Cardinality(First \cup Second) = Cardinality(First) + Cardinality(Second) - 0
  BY <1>6, <1>8, FS_Union, FS_EmptySet
<1>10. Cardinality(1..n) = n
  BY FS_Interval
<1>11. /\ Cardinality(Functions) \in Nat /\ Cardinality(First) \in Nat
       /\ Cardinality(Second) \in Nat
  BY <1>8, FunctionsFinite, FS_CardinalityType
<1>12. PICK a \in Nat : a = Cardinality(First)
  BY <1>11
<1>13. PICK b \in Nat : b = Cardinality(Second)
  BY <1>11
<1>14. PICK m \in Nat : m = Cardinality(Functions)
  BY <1>11
<1>15. a <= m /\ b <= m /\ n = a + b
  <2> HIDE DEF Repeated
  <2>1. Cardinality(First \cup Second) = n
    BY <1>6, <1>10, Zenon
  <2>2. n = a + b - 0
    BY <1>9, <1>12, <1>13, <2>1
  <2>3. a <= m /\ b <= m
    BY <1>8, <1>12, <1>13, <1>14
  <2> QED BY <2>2, <2>3
<1>16. n <= 2 * m
  BY <1>15
<1> QED BY <1>1, <1>14, <1>16

-----------------------------------------------------------------------------
(* What contexts tell: the chain of an open activation's context is among  *)
(* the functions open up to it, and the one a recursion shares hangs off   *)
(* the function's own outermost one.                                       *)

LevelTold(chains, s, i) == Embeds(chains[s[i].path], FunctionsUpTo(s, i))

Hangs(chains, d, func) ==
  d.recursion_path # 0 =>
    chains[d.recursion_path] \in {chains[d.path], Append(chains[d.path], func)}

StacksTold == \A t \in Threads : \A i \in 1..Len(stack[t]) : LevelTold(ChainOf, stack[t], i)
RecursionHangs == \A t \in Threads : \A func \in Functions : Hangs(ChainOf, depth[t][func], func)
ChainsInARow == \A id \in 0..Len(nodes) : InARow(ChainOf[id])

ChainsFit == StacksTold /\ RecursionHangs /\ ChainsInARow

LEMMA LevelStaysTold ==
  ASSUME NEW c, NEW e, NEW s, NEW r, NEW i \in Nat, c[s[i].path] \in Seq(Functions),
         r[i].path = s[i].path, e[r[i].path] = c[s[i].path],
         \A j \in 1..i : r[j].func = s[j].func, LevelTold(c, s, i)
  PROVE  LevelTold(e, r, i)
<1>1. PICK chain \in Seq(Functions) : chain = c[s[i].path]
  OBVIOUS
<1>2. Embeds(chain, FunctionsUpTo(s, i))
  BY <1>1 DEF LevelTold
<1>3. Embeds(chain, FunctionsUpTo(r, i))
  BY <1>2, EmbedsFurther
<1> QED BY <1>1, <1>3 DEF LevelTold

LEMMA PathsInStackExist ==
  ASSUME Inv, NEW t \in Threads
  PROVE  /\ Len(stack[t]) \in Nat /\ DOMAIN stack[t] = 1..Len(stack[t])
         /\ \A i \in 1..Len(stack[t]) : stack[t][i].path \in 0..Len(nodes)
<1>1. stack[t] \in Seq(ActivationUpTo(Len(nodes), clock))
  BY DEF Inv, StackInv
<1>2. \A i \in 1..Len(stack[t]) : stack[t][i] \in ActivationUpTo(Len(nodes), clock)
  BY <1>1, ElementOfSeq
<1>3. \A i \in 1..Len(stack[t]) : stack[t][i].path \in 0..Len(nodes)
  BY <1>2 DEF ActivationUpTo
<1> QED BY <1>1, <1>3, LenProperties

\* While the tree grows around them, stacks and depth entries tell what they told.
LEMMA TreeKeepsTold ==
  ASSUME Inv, RegistryInv', Kept, StacksTold, RecursionHangs
  PROVE  /\ \A t \in Threads : \A i \in 1..Len(stack[t]) : LevelTold(ChainOf', stack[t], i)
         /\ \A t \in Threads : \A func \in Functions : Hangs(ChainOf', depth[t][func], func)
<1>1. \A id \in 0..Len(nodes) : ChainOf'[id] = ChainOf[id] /\ ChainOf[id] \in Seq(Functions)
  BY ChainsKept, ChainIsFunctions DEF Inv
<1>2. ASSUME NEW t \in Threads, NEW i \in 1..Len(stack[t])
      PROVE  LevelTold(ChainOf', stack[t], i)
  <2>1. stack[t][i].path \in 0..Len(nodes) /\ i \in Nat
    BY PathsInStackExist
  <2>2. PICK s, c, e : s = stack[t] /\ c = ChainOf /\ e = ChainOf'
    OBVIOUS
  <2>3. c[s[i].path] \in Seq(Functions) /\ e[s[i].path] = c[s[i].path]
    BY <1>1, <2>1, <2>2
  <2>4. LevelTold(c, s, i)
    BY <2>2 DEF StacksTold
  <2>5. LevelTold(e, s, i)
    BY <2>1, <2>3, <2>4, LevelStaysTold
  <2> QED BY <2>2, <2>5
<1>3. ASSUME NEW t \in Threads, NEW func \in Functions
      PROVE  Hangs(ChainOf', depth[t][func], func)
  <2>1. PICK d \in DepthUpTo(Len(nodes)) : d = depth[t][func]
    BY DEF Inv, DepthInv
  <2>2. d.path \in 0..Len(nodes) /\ d.recursion_path \in 0..Len(nodes)
    BY <2>1 DEF DepthUpTo
  <2>3. ChainOf'[d.path] = ChainOf[d.path] /\ ChainOf'[d.recursion_path] = ChainOf[d.recursion_path]
    BY <1>1, <2>2
  <2>4. Hangs(ChainOf, d, func)
    BY <2>1 DEF RecursionHangs
  <2> QED BY <2>1, <2>3, <2>4 DEF Hangs
<1> QED BY <1>2, <1>3

\* open(): what it pushes and what it writes into the depth map, told both.
LEMMA OpenedIsTold ==
  ASSUME Inv, RegistryInv', Kept, StacksTold, RecursionHangs,
         NEW t \in Threads, NEW func \in Functions, NEW a, NEW d,
         stack' = [stack EXCEPT ![t] = Append(@, a)],
         depth' = [depth EXCEPT ![t][func] = d],
         LevelTold(ChainOf', Append(stack[t], a), Len(stack[t]) + 1),
         Hangs(ChainOf', d, func)
  PROVE  StacksTold' /\ RecursionHangs'
<1>1. PICK e : e = ChainOf'
  OBVIOUS
<1>2. /\ \A u \in Threads : \A i \in 1..Len(stack[u]) : LevelTold(e, stack[u], i)
      /\ \A u \in Threads : \A f \in Functions : Hangs(e, depth[u][f], f)
  BY <1>1, TreeKeepsTold
<1>3. stack'[t] = Append(stack[t], a) /\ \A u \in Threads : u # t => stack'[u] = stack[u]
  BY DEF Inv, StackInv
<1>4. PICK s, r : s = stack[t] /\ r = Append(s, a)
  OBVIOUS
<1>5. PICK n \in Nat : n = Len(s)
  BY <1>4, PathsInStackExist
<1>6. Len(r) = n + 1 /\ r[n + 1] = a /\ \A i \in 1..n : r[i] = s[i]
  <2>1. s \in Seq(ActivationUpTo(Len(nodes), clock) \cup {a})
    <3>1. s \in Seq(ActivationUpTo(Len(nodes), clock))
      BY <1>4 DEF Inv, StackInv
    <3> QED BY <3>1, SeqMonotonic
  <2> QED BY <1>4, <1>5, <2>1, AppendProperties
<1>7. ASSUME NEW i \in 1..(n + 1)
      PROVE  LevelTold(e, r, i)
  <2>1. CASE i = n + 1
    BY <1>1, <1>4, <1>5, <2>1
  <2>2. CASE i # n + 1
    <3>1. i \in 1..n /\ i \in Nat
      BY <2>2
    <3>2. LevelTold(e, s, i)
      BY <1>2, <1>4, <1>5, <3>1
    <3>3. FunctionsUpTo(r, i) = FunctionsUpTo(s, i)
      <4>1. \A j \in 1..i : r[j] = s[j]
        BY <1>6, <3>1
      <4> QED BY <4>1 DEF FunctionsUpTo
    <3>4. r[i].path = s[i].path
      BY <1>6, <3>1
    <3> QED BY <3>2, <3>3, <3>4 DEF LevelTold
  <2> QED BY <2>1, <2>2
<1>8. ASSUME NEW u \in Threads, NEW i \in 1..Len(stack'[u])
      PROVE  LevelTold(e, stack'[u], i)
  <2>1. CASE u = t
    BY <1>3, <1>4, <1>6, <1>7, <1>8, <2>1
  <2>2. CASE u # t
    BY <1>2, <1>3, <1>8, <2>2
  <2> QED BY <2>1, <2>2
<1>9. ASSUME NEW u \in Threads, NEW f \in Functions
      PROVE  Hangs(e, depth'[u][f], f)
  <2>1. CASE u = t /\ f = func
    <3>1. depth'[u][f] = d
      BY <2>1 DEF Inv, DepthInv
    <3> QED BY <1>1, <2>1, <3>1
  <2>2. CASE ~(u = t /\ f = func)
    <3>1. depth'[u][f] = depth[u][f]
      BY <2>2 DEF Inv, DepthInv
    <3> QED BY <1>2, <3>1
  <2> QED BY <2>1, <2>2
<1> QED BY <1>1, <1>8, <1>9 DEF StacksTold, RecursionHangs

\* The caller's chain is among the functions open on the thread.
LEMMA CallerIsTold ==
  ASSUME Inv, StacksTold, NEW t \in Threads
  PROVE  Embeds(ChainOf[CurrentPath(t)], FunctionsUpTo(stack[t], Len(stack[t])))
<1>1. Len(stack[t]) \in Nat
  BY PathsInStackExist
<1>2. CASE stack[t] = << >>
  <2>1. CurrentPath(t) = 0
    BY <1>2 DEF CurrentPath
  <2>2. ChainOf[0] = << >>
    BY ChainIsFunctions DEF Inv
  <2> QED BY <1>1, <2>1, <2>2, EmbedsNothing
<1>3. CASE stack[t] # << >>
  <2>1. CurrentPath(t) = stack[t][Len(stack[t])].path
    BY <1>3 DEF CurrentPath, Last
  <2>2. Len(stack[t]) \in 1..Len(stack[t])
    BY <1>3, EmptySeq DEF Inv, StackInv
  <2>3. LevelTold(ChainOf, stack[t], Len(stack[t]))
    BY <2>2 DEF StacksTold
  <2> QED BY <2>1, <2>3 DEF LevelTold
<1> QED BY <1>2, <1>3

OneMore(chains, a, c) == chains[a.path] \in {c, Append(c, a.func)}

\* A chain that lies below the activation to be opened, or ends in it, is told by it.
LEMMA PushIsTold ==
  ASSUME Inv, NEW t \in Threads, NEW a, a.func \in Functions,
         NEW c \in Seq(Functions), NEW k \in 0..Len(stack[t]),
         Embeds(c, FunctionsUpTo(stack[t], k)), NEW chains, OneMore(chains, a, c)
  PROVE  LevelTold(chains, Append(stack[t], a), Len(stack[t]) + 1)
<1>1. PICK s, r : s = stack[t] /\ r = Append(s, a)
  OBVIOUS
<1>2. PICK n \in Nat : n = Len(s)
  BY <1>1, PathsInStackExist
<1>3. r[n + 1] = a /\ \A i \in 1..n : r[i] = s[i]
  <2>1. s \in Seq(ActivationUpTo(Len(nodes), clock) \cup {a})
    <3>1. s \in Seq(ActivationUpTo(Len(nodes), clock))
      BY <1>1 DEF Inv, StackInv
    <3> QED BY <3>1, SeqMonotonic
  <2> QED BY <1>1, <1>2, <2>1, AppendProperties
<1>4. k \in Nat /\ k < n + 1 /\ \A j \in 1..k : r[j].func = s[j].func
  BY <1>1, <1>2, <1>3
<1>5. Embeds(c, FunctionsUpTo(s, k))
  BY <1>1
<1>6. Embeds(c, FunctionsUpTo(r, n + 1))
  BY <1>4, <1>5, EmbedsFurther
<1>7. PICK func \in Functions : func = a.func /\ r[n + 1].func = func
  BY <1>3
<1>8. Embeds(Append(c, func), FunctionsUpTo(r, n + 1))
  BY <1>4, <1>5, <1>7, EmbedsOneMore
<1>9. LevelTold(chains, r, n + 1)
  BY <1>3, <1>6, <1>7, <1>8 DEF LevelTold, OneMore
<1> QED BY <1>1, <1>2, <1>9

\* The tree grows by a chain that names the function once more, at its end.
LEMMA GrowsInARow ==
  ASSUME RegistryInv, ChainsInARow, NEW parent \in 0..Len(nodes), NEW func \in Functions,
         OnlyEnds(ChainOf[parent], func),
         \A id \in 0..Len(nodes') :
           \/ id \in 0..Len(nodes) /\ ChainOf'[id] = ChainOf[id]
           \/ ChainOf'[id] = Append(ChainOf[parent], func)
  PROVE  ChainsInARow'
<1>1. PICK c \in Seq(Functions) : c = ChainOf[parent]
  BY ChainIsFunctions
<1>2. InARow(c)
  BY <1>1 DEF ChainsInARow
<1>3. InARow(Append(c, func))
  BY <1>1, <1>2, InARowMore
<1>4. ASSUME NEW id \in 0..Len(nodes') PROVE InARow(ChainOf'[id])
  BY <1>1, <1>3 DEF ChainsInARow
<1> QED BY <1>4 DEF ChainsInARow

LEMMA OpenOutermostIsTold ==
  ASSUME Inv, Inv', ChainsFit, NEW t \in Threads, NEW func \in Functions, Interned(func),
         OpenOutermost(t, func), UNCHANGED functions
  PROVE  ChainsFit'
<1>1. PICK path \in Paths :
        /\ Context(t, CurrentPath(t), func, path)
        /\ depth' = [depth EXCEPT ![t][func] =
                       [count |-> 1, path |-> path, recursion_path |-> 0]]
        /\ Push(t, func, path, TRUE, OpensContext(depth[t][func]))
  BY DEF OpenOutermost
<1>2. PICK parent \in 0..Len(nodes) : parent = CurrentPath(t)
  BY CurrentPathExists DEF Inv
<1>3. RegistryInv' /\ Kept
  BY <1>1, <1>2, ContextKeeps DEF Inv
<1>4. /\ ChainOf'[path] \in {ChainOf[parent], Append(ChainOf[parent], func)}
      /\ \A id \in 0..Len(nodes') : \/ id \in 0..Len(nodes) /\ ChainOf'[id] = ChainOf[id]
                                    \/ ChainOf'[id] = Append(ChainOf[parent], func)
  BY <1>1, <1>2, ContextExtends DEF Inv
<1>5. PICK n \in Nat : n = Len(stack[t])
  BY PathsInStackExist
<1>6. PICK c \in Seq(Functions) : c = ChainOf[parent] /\ Embeds(c, FunctionsUpTo(stack[t], n))
  BY <1>2, <1>5, CallerIsTold, ChainIsFunctions DEF ChainsFit, Inv
<1>7. \A i \in 1..n : stack[t][i].func # func
  <2>1. DepthTells(stack[t], func, depth[t][func]) /\ depth[t][func].count = 0
    BY DEF Inv, DepthMatchesStack, OpenOutermost
  <2>2. Cardinality(Levels(stack[t], func)) = 0
    BY <2>1 DEF DepthTells
  <2>3. IsFiniteSet(Levels(stack[t], func))
    BY LevelsFinite DEF Inv, StackInv
  <2>4. Levels(stack[t], func) = {}
    BY <2>2, <2>3, FS_EmptySet
  <2>5. DOMAIN stack[t] = 1..n
    BY <1>5, PathsInStackExist
  <2> QED BY <2>4, <2>5 DEF Levels
<1>8. OnlyEnds(c, func)
  <2>1. NoneOf(stack[t], n - 1, func)
    BY <1>7 DEF NoneOf
  <2> QED BY <1>6, <2>1, EmbedsLast
<1>9. ChainsInARow'
  BY <1>4, <1>6, <1>8, GrowsInARow DEF ChainsFit, Inv
<1>10. PICK a : a = [func |-> func, path |-> path, start |-> clock, child_ns |-> 0,
                     outermost |-> TRUE, counts_here |-> OpensContext(depth[t][func])]
  OBVIOUS
<1>11. a.func = func /\ a.path = path
  BY <1>10
<1>12. LevelTold(ChainOf', Append(stack[t], a), Len(stack[t]) + 1)
  <2>1. n \in 0..Len(stack[t])
    BY <1>5
  <2>2. PICK chains : chains = ChainOf'
    OBVIOUS
  <2>3. OneMore(chains, a, c)
    BY <1>4, <1>6, <1>11, <2>2 DEF OneMore
  <2>4. LevelTold(chains, Append(stack[t], a), Len(stack[t]) + 1)
    BY <1>6, <1>11, <2>1, <2>3, PushIsTold
  <2> QED BY <2>2, <2>4
<1>13. PICK d : d = [count |-> 1, path |-> path, recursion_path |-> 0]
  OBVIOUS
<1>14. Hangs(ChainOf', d, func)
  BY <1>13 DEF Hangs
<1>15. /\ stack' = [stack EXCEPT ![t] = Append(@, a)]
       /\ depth' = [depth EXCEPT ![t][func] = d]
  BY <1>1, <1>10, <1>13 DEF Push
<1>16. StacksTold' /\ RecursionHangs'
  BY <1>3, <1>12, <1>14, <1>15, OpenedIsTold DEF ChainsFit
<1> QED BY <1>9, <1>16 DEF ChainsFit

\* Where a function is open, its lowest level is outermost and in the context the map has.
LEMMA LowestLevelIs ==
  ASSUME Inv, NEW t \in Threads, NEW func \in Functions, depth[t][func].count # 0
  PROVE  \E low \in 1..Len(stack[t]) :
           /\ stack[t][low].func = func /\ stack[t][low].path = depth[t][func].path
           /\ \A j \in 1..(low - 1) : stack[t][j].func # func
<1>1. PICK n \in Nat : n = Len(stack[t]) /\ DOMAIN stack[t] = 1..n
  BY PathsInStackExist
<1>2. DepthTells(stack[t], func, depth[t][func])
  BY DEF Inv, DepthMatchesStack
<1>3. PICK L : L = Levels(stack[t], func)
  OBVIOUS
<1>4. L \subseteq 1..n /\ \A i \in 1..n : i \in L <=> stack[t][i].func = func
  BY <1>1, <1>3 DEF Levels
<1>5. L # {} /\ L \subseteq Nat
  <2>1. Cardinality(L) # 0
    BY <1>2, <1>3 DEF DepthTells
  <2> QED BY <1>4, <2>1, FS_EmptySet
<1>6. PICK low \in L : \A i \in L : low <= i
  BY <1>5, LeastNatural
<1>7. stack[t][low].path = depth[t][func].path
  BY <1>2, <1>3, <1>6 DEF DepthTells
<1>8. low \in 1..n /\ stack[t][low].func = func
  BY <1>4
<1>9. \A j \in 1..(low - 1) : stack[t][j].func # func
  <2> SUFFICES ASSUME NEW j \in 1..(low - 1), stack[t][j].func = func PROVE FALSE
    OBVIOUS
  <2>1. j \in 1..n /\ ~(low <= j)
    BY <1>8
  <2> QED BY <1>4, <1>6, <2>1
<1> QED BY <1>1, <1>7, <1>8, <1>9

LEMMA OpenRecursiveIsTold ==
  ASSUME Inv, Inv', ChainsFit, NEW t \in Threads, NEW func \in Functions, Interned(func),
         OpenRecursive(t, func), UNCHANGED functions
  PROVE  ChainsFit'
<1>0. PICK held \in DepthUpTo(Len(nodes)) : held = depth[t][func]
  BY DEF Inv, DepthInv
<1>1. PICK path \in Paths :
        /\ RecursionContext(t, func, held, path)
        /\ depth' = [depth EXCEPT ![t][func] =
                       [held EXCEPT !.count = @ + 1, !.recursion_path = path]]
        /\ Push(t, func, path, FALSE, OpensContext(held))
  BY <1>0 DEF OpenRecursive
<1>2. /\ held.count \in Nat /\ held.count # 0
      /\ held.path \in 0..Len(nodes) /\ held.recursion_path \in 0..Len(nodes)
  <2>1. held.count \in Nat /\ held.count > 0
    BY <1>0 DEF OpenRecursive, DepthUpTo
  <2> QED BY <2>1 DEF DepthUpTo
<1>3. PICK parent \in 0..Len(nodes) : parent = held.path
  BY <1>2
<1>4. PICK c \in Seq(Functions) : c = ChainOf[parent]
  BY ChainIsFunctions DEF Inv
<1>5. PICK low \in 1..Len(stack[t]) :
        /\ stack[t][low].func = func /\ stack[t][low].path = parent
        /\ \A j \in 1..(low - 1) : stack[t][j].func # func
  BY <1>0, <1>2, <1>3, LowestLevelIs
<1>6. low \in Nat /\ Embeds(c, FunctionsUpTo(stack[t], low))
  <2>1. LevelTold(ChainOf, stack[t], low)
    BY DEF ChainsFit, StacksTold
  <2> QED BY <1>4, <1>5, <2>1 DEF LevelTold
<1>7. OnlyEnds(c, func)
  <2>1. NoneOf(stack[t], low - 1, func)
    BY <1>5 DEF NoneOf
  <2> QED BY <1>6, <2>1, EmbedsLast
<1>8. /\ RegistryInv' /\ Kept /\ ChainsInARow'
      /\ ChainOf'[parent] = c /\ ChainOf'[path] \in {c, Append(c, func)}
  <2>1. CASE held.recursion_path = 0
    <3>1. Context(t, parent, func, path)
      BY <1>1, <1>3, <2>1 DEF RecursionContext
    <3>2. RegistryInv' /\ Kept
      BY <3>1, ContextKeeps DEF Inv
    <3>3. /\ ChainOf'[path] \in {ChainOf[parent], Append(ChainOf[parent], func)}
          /\ \A id \in 0..Len(nodes') : \/ id \in 0..Len(nodes) /\ ChainOf'[id] = ChainOf[id]
                                        \/ ChainOf'[id] = Append(ChainOf[parent], func)
      BY <3>1, ContextExtends DEF Inv
    <3>4. ChainsInARow'
      BY <1>4, <1>7, <3>3, GrowsInARow DEF ChainsFit, Inv
    <3>5. ChainOf'[parent] = ChainOf[parent]
      BY <3>2, ChainsKept DEF Inv
    <3> QED BY <1>4, <3>2, <3>3, <3>4, <3>5
  <2>2. CASE held.recursion_path # 0
    <3>1. path = held.recursion_path /\ UNCHANGED nodes
      BY <1>1, <2>2 DEF RecursionContext
    <3>2. RegistryInv' /\ Kept
      <4>1. Len(nodes) \in Nat
        BY NodesBound DEF Inv
      <4> QED BY <3>1, <4>1 DEF Inv, Kept
    <3>3. ChainOf' = ChainOf
      BY <3>1 DEF ChainOf
    <3>4. Hangs(ChainOf, held, func)
      BY <1>0 DEF ChainsFit, RecursionHangs
    <3>5. ChainOf[path] \in {c, Append(c, func)}
      BY <1>3, <1>4, <2>2, <3>1, <3>4 DEF Hangs
    <3>6. ChainsInARow'
      BY <3>1, <3>3 DEF ChainsFit, ChainsInARow
    <3> QED BY <1>4, <3>2, <3>3, <3>5, <3>6
  <2> QED BY <2>1, <2>2
<1>9. PICK a : a = [func |-> func, path |-> path, start |-> clock, child_ns |-> 0,
                    outermost |-> FALSE, counts_here |-> OpensContext(held)]
  OBVIOUS
<1>10. a.func = func /\ a.path = path
  BY <1>9
<1>11. LevelTold(ChainOf', Append(stack[t], a), Len(stack[t]) + 1)
  <2>1. low \in 0..Len(stack[t])
    BY PathsInStackExist
  <2>2. PICK chains : chains = ChainOf'
    OBVIOUS
  <2>3. OneMore(chains, a, c)
    BY <1>8, <1>10, <2>2 DEF OneMore
  <2>4. LevelTold(chains, Append(stack[t], a), Len(stack[t]) + 1)
    BY <1>6, <1>10, <2>1, <2>3, PushIsTold
  <2> QED BY <2>2, <2>4
<1>12. PICK d : d = [held EXCEPT !.count = @ + 1, !.recursion_path = path]
  OBVIOUS
<1>13. d.path = parent /\ d.recursion_path = path
  BY <1>3, <1>12 DEF DepthUpTo
<1>14. Hangs(ChainOf', d, func)
  BY <1>8, <1>13 DEF Hangs
<1>15. /\ stack' = [stack EXCEPT ![t] = Append(@, a)]
       /\ depth' = [depth EXCEPT ![t][func] = d]
  BY <1>1, <1>9, <1>12 DEF Push
<1>16. StacksTold' /\ RecursionHangs'
  BY <1>8, <1>11, <1>14, <1>15, OpenedIsTold DEF ChainsFit
<1> QED BY <1>8, <1>16 DEF ChainsFit

\* Closing takes the innermost activation away and leaves the others their chains.
LEMMA CloseIsTold ==
  ASSUME Inv, ChainsFit, NEW t \in Threads, Close(t)
  PROVE  ChainsFit'
<1>1. PICK a \in ActivationUpTo(Len(nodes), clock), elapsed \in Nat :
        /\ a = Last(stack[t]) /\ a.func \in Functions /\ clock \in Nat
        /\ stack' = [stack EXCEPT ![t] = Popped(stack[t], elapsed)]
        /\ stack'[t] = Popped(stack[t], elapsed)
        /\ UNCHANGED nodes
  BY ClosingIs
<1>2. depth' = [depth EXCEPT ![t][a.func] = Shallower(@)] /\ stack[t] # << >>
  BY <1>1 DEF Close
<1>3. /\ Len(stack[t]) = Len(stack'[t]) + 1 /\ Len(stack'[t]) \in Nat
      /\ \A i \in 1..Len(stack'[t]) : SameLevel(stack[t][i], stack'[t][i])
  <2>1. PICK n \in Nat : n = Len(nodes)
    BY NodesBound DEF Inv
  <2>2. PICK s \in Seq(ActivationUpTo(n, clock)) : s = stack[t] /\ s # << >>
    BY <1>2, <2>1 DEF Inv, StackInv
  <2>3. /\ Popped(s, elapsed) \in Seq(ActivationUpTo(n, clock))
        /\ Len(s) = Len(Popped(s, elapsed)) + 1
        /\ \A i \in 1..Len(Popped(s, elapsed)) : SameLevel(s[i], Popped(s, elapsed)[i])
    BY <1>1, <2>2, PoppedIsStack
  <2> QED BY <1>1, <2>2, <2>3, LenProperties
<1>4. PICK c : c = ChainOf /\ c = ChainOf' /\ \A id \in 0..Len(nodes) : c[id] \in Seq(Functions)
  BY <1>1, ChainIsFunctions DEF ChainOf, Inv
<1>5. ASSUME NEW u \in Threads, NEW i \in 1..Len(stack'[u])
      PROVE  LevelTold(c, stack'[u], i)
  <2>1. CASE u # t
    <3>1. stack'[u] = stack[u]
      BY <1>1, <2>1 DEF Inv, StackInv
    <3> QED BY <1>4, <1>5, <3>1 DEF ChainsFit, StacksTold
  <2>2. CASE u = t
    <3>1. PICK s, r : s = stack[t] /\ r = stack'[t]
      OBVIOUS
    <3>2. i \in 1..Len(s) /\ i \in Nat
      BY <1>3, <1>5, <2>2, <3>1
    <3>3. r[i].path = s[i].path /\ \A j \in 1..i : r[j].func = s[j].func
      <4>1. \A j \in 1..i : j \in 1..Len(r)
        BY <1>3, <1>5, <2>2, <3>1
      <4>2. i \in 1..Len(r)
        BY <1>5, <2>2, <3>1
      <4> QED BY <1>3, <3>1, <4>1, <4>2 DEF SameLevel
    <3>4. c[s[i].path] \in Seq(Functions)
      BY <1>4, <3>1, <3>2, PathsInStackExist
    <3>5. LevelTold(c, s, i)
      BY <1>4, <3>1, <3>2 DEF ChainsFit, StacksTold
    <3>6. LevelTold(c, r, i)
      BY <3>2, <3>3, <3>4, <3>5, LevelStaysTold
    <3> QED BY <2>2, <3>1, <3>6
  <2> QED BY <2>1, <2>2
<1>6. ASSUME NEW u \in Threads, NEW f \in Functions
      PROVE  Hangs(c, depth'[u][f], f)
  <2>1. PICK d \in DepthUpTo(Len(nodes)) : d = depth[u][f]
    BY DEF Inv, DepthInv
  <2>2. Hangs(c, d, f)
    BY <1>4, <2>1 DEF ChainsFit, RecursionHangs
  <2>3. depth'[u][f] \in {d, Shallower(d)}
    BY <1>2, <2>1 DEF Inv, DepthInv
  <2>4. Hangs(c, Shallower(d), f)
    <3>1. CASE d.count = 1
      BY <3>1 DEF Shallower, NoDepth, Hangs
    <3>2. CASE d.count # 1
      <4>1. Shallower(d).path = d.path /\ Shallower(d).recursion_path = d.recursion_path
        BY <2>1, <3>2 DEF Shallower, DepthUpTo
      <4> QED BY <2>2, <4>1 DEF Hangs
    <3> QED BY <3>1, <3>2
  <2> QED BY <2>2, <2>3, <2>4
<1>7. ChainsInARow'
  BY <1>1, <1>4 DEF ChainsFit, ChainsInARow
<1> QED BY <1>4, <1>5, <1>6, <1>7 DEF ChainsFit, StacksTold, RecursionHangs

LEMMA ChainsInit == Init => ChainsFit
<1> SUFFICES ASSUME Init PROVE ChainsFit
  OBVIOUS
<1>1. Len(nodes) = 0 /\ ChainOf[0] = << >>
  <2>1. Inv
    BY InvInit
  <2>2. nodes = << >>
    BY DEF Init, RegistryInit
  <2> QED BY <2>1, <2>2, ChainIsFunctions, EmptySeq DEF Inv
<1>2. \A t \in Threads : Len(stack[t]) = 0
  BY DEF Init
<1>3. \A t \in Threads : \A f \in Functions : depth[t][f].recursion_path = 0
  BY DEF Init, NoDepth
<1>4. InARow(<< >>)
  BY DEF InARow
<1> QED BY <1>1, <1>2, <1>3, <1>4 DEF ChainsFit, StacksTold, RecursionHangs, Hangs, ChainsInARow

LEMMA ChainsFitStep ==
  ASSUME Inv, ChainsFit, [Next]_vars
  PROVE  ChainsFit'
<1>1. ASSUME UNCHANGED <<stack, depth, nodes>> PROVE ChainsFit'
  <2>1. ChainOf' = ChainOf
    BY <1>1 DEF ChainOf
  <2> QED BY <1>1, <2>1 DEF ChainsFit, StacksTold, RecursionHangs, ChainsInARow
<1>2. ASSUME NEW t \in Threads, NEW func \in Functions, Open(t, func) PROVE ChainsFit'
  <2>1. Inv'
    BY <1>2, OpenKeeps
  <2>2. Interned(func) /\ UNCHANGED functions
    BY <1>2, NoFunctionAssumption DEF Open, Inv, EnteringInv
  <2> QED BY <1>2, <2>1, <2>2, OpenOutermostIsTold, OpenRecursiveIsTold DEF Open
<1> QED BY <1>1, <1>2, CloseIsTold, StepIs DEF Quiet

ChainsInv == Inv /\ ChainsFit

LEMMA ChainsInvAlways == Spec => []ChainsInv
<1>1. Init => ChainsInv
  BY InvInit, ChainsInit DEF ChainsInv
<1>2. ChainsInv /\ [Next]_vars => ChainsInv'
  BY InvStep, ChainsFitStep DEF ChainsInv
<1> QED BY <1>1, <1>2, PTL DEF Spec

\* Contexts tell chains that happened, on whatever thread: what is open on one of them
\* embeds the chain of its context, which ends in it as long as none was refused
\* (calls.rs:169-205, registry.rs:127-139).
THEOREM ContextsTellTheStack == Spec => []ContextTellsTheStack
<1>1. ChainsInv /\ CallsInv => ContextTellsTheStack
  <2> SUFFICES ASSUME ChainsInv, CallsInv, NEW t \in Threads, NEW i \in DOMAIN stack[t]
               PROVE  LET chain == ChainOf[stack[t][i].path]
                      IN  /\ Embeds(chain, StackFunctions(t, i))
                          /\ overflowed > 0 \/ (chain # << >> /\ Last(chain) = stack[t][i].func)
    BY DEF ContextTellsTheStack
  <2>1. Inv /\ RegistryInv /\ i \in 1..Len(stack[t])
    BY PathsInStackExist DEF ChainsInv, Inv
  <2>2. PICK path, func : path = stack[t][i].path /\ func = stack[t][i].func
    OBVIOUS
  <2>3. Embeds(ChainOf[path], StackFunctions(t, i))
    <3>1. LevelTold(ChainOf, stack[t], i)
      BY <2>1 DEF ChainsInv, ChainsFit, StacksTold
    <3>2. StackFunctions(t, i) = FunctionsUpTo(stack[t], i)
      BY DEF StackFunctions, FunctionsUpTo
    <3> QED BY <2>2, <3>1, <3>2 DEF LevelTold
  <2>4. ASSUME overflowed = 0 PROVE ChainOf[path] # << >> /\ Last(ChainOf[path]) = func
    <3>1. path \in DOMAIN nodes /\ nodes[path].func = func
      BY <2>1, <2>2, <2>4 DEF CallsInv, ContextsFit, InContext
    <3>2. path \in 1..Len(nodes) /\ Len(nodes) \in Nat
      BY <2>1, <3>1, NodesBound
    <3>3. PICK p : p = nodes[path].parent
      OBVIOUS
    <3>4. p \in 0..Len(nodes) /\ func \in Functions
      <4>1. p \in 0..(path - 1) /\ func \in Functions
        BY <2>1, <3>1, <3>2, <3>3, NodesAreTree DEF IsTree
      <4> QED BY <3>2, <4>1
    <3>5. ChainOf[path] = Append(ChainOf[p], func)
      BY <2>1, <3>1, <3>2, <3>3, NodesAreTree, ChainsAre, ChainOfIs
    <3>6. PICK c \in Seq(Functions) : c = ChainOf[p]
      BY <2>1, <3>4, ChainIsFunctions
    <3>7. Append(c, func) # << >> /\ Last(Append(c, func)) = func
      BY <3>4, <3>6, AppendProperties DEF Last
    <3> QED BY <3>5, <3>6, <3>7
  <2>5. overflowed > 0 \/ overflowed = 0
    BY <2>1 DEF RegistryInv, RegistryTypeOK
  <2> QED BY <2>2, <2>3, <2>4, <2>5
<1> QED BY <1>1, ChainsInvAlways, CallsInvAlways, PTL

\* Recursion costs two contexts a chain, however deep it goes: on no chain is a function
\* named but in a row, and so no chain is longer than twice the functions there are
\* (calls.rs:173-178).
THEOREM RecursionIsBounded == Spec => []RecursionBounded
<1>1. ChainsInv => RecursionBounded
  <2> SUFFICES ASSUME ChainsInv PROVE RecursionBounded
    OBVIOUS
  <2>1. RegistryInv /\ Len(nodes) \in Nat /\ DOMAIN nodes = 1..Len(nodes)
    BY NodesBound DEF ChainsInv, Inv
  <2>2. \A id \in 0..Len(nodes) : ChainOf[id] \in Seq(Functions) /\ InARow(ChainOf[id])
    BY <2>1, ChainIsFunctions DEF ChainsInv, ChainsFit, ChainsInARow
  <2>3. PICK most \in Nat : most = 2 * Cardinality(Functions)
    BY FunctionsFinite, FS_CardinalityType
  <2>4. PICK lengths : lengths = {Len(ChainOf[id]) : id \in 0..Len(nodes)}
    OBVIOUS
  <2>5. \A n \in lengths : n \in 0..most
    <3> SUFFICES ASSUME NEW id \in 0..Len(nodes) PROVE Len(ChainOf[id]) \in 0..most
      BY <2>4
    <3>1. PICK c \in Seq(Functions) : c = ChainOf[id] /\ InARow(c)
      BY <2>2
    <3>2. Len(c) \in Nat /\ Len(c) <= 2 * Cardinality(Functions)
      BY <3>1, InARowIsShort, LenProperties
    <3> QED BY <2>3, <3>1, <3>2
  <2>6. Max(lengths) \in lengths
    <3>1. Len(ChainOf[0]) \in lengths
      BY <2>1, <2>4
    <3> QED BY <2>3, <2>5, <3>1, LargestOf
  <2>7. DeepestChain <= 2 * Cardinality(Functions)
    BY <2>3, <2>4, <2>5, <2>6 DEF DeepestChain
  <2>8. ASSUME NEW id \in DOMAIN nodes, NEW f \in Functions,
               NEW i \in Occurrences(ChainOf[id], f), NEW j \in Occurrences(ChainOf[id], f), i < j
        PROVE  j = i + 1
    <3>1. PICK c : c = ChainOf[id] /\ InARow(c)
      BY <2>1, <2>2
    <3>2. i \in DOMAIN c /\ j \in DOMAIN c /\ c[i] = c[j]
      BY <3>1 DEF Occurrences
    <3> QED BY <2>8, <3>1, <3>2 DEF InARow
  <2> QED BY <2>7, <2>8 DEF RecursionBounded
<1> QED BY <1>1, ChainsInvAlways, PTL
=============================================================================
