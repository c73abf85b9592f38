----------------------------- MODULE DataProofs -----------------------------
(***************************************************************************)
(* What the proofs of the state machines ask of their data: folds over     *)
(* sets and sequences, which are functions defined by recursion on finite  *)
(* sets, sums, quotients, and what window_for guarantees of a ring, for    *)
(* every capacity, resolution and history.                                 *)
(***************************************************************************)
EXTENDS Ring, SequenceTheorems, FiniteSetTheorems, WellFoundedInduction, TLAPS

-----------------------------------------------------------------------------
(* Folds.                                                                  *)

\* Induction over the numbers, and the finite sets, for a set instead of a predicate.
LEMMA LeastNatural ==
  ASSUME NEW S, S \subseteq Nat, S # {}
  PROVE  \E n \in S : \A m \in S : n <= m
<1>1. PICK n \in S : \A m \in S : <<m, n>> \notin OpToRel(<, Nat)
  BY WFMin, NatLessThanWellFounded
<1>2. \A m \in S : ~(m < n)
  BY <1>1 DEF OpToRel
<1> QED BY <1>2

LEMMA EveryNatural ==
  ASSUME NEW S, 0 \in S, \A n \in Nat : n \in S => n + 1 \in S
  PROVE  Nat \subseteq S
<1> SUFFICES ASSUME Nat \ S # {} PROVE FALSE
  OBVIOUS
<1>1. PICK n \in Nat \ S : \A m \in Nat \ S : n <= m
  BY LeastNatural
<1>2. n # 0
  OBVIOUS
<1>3. n - 1 \in Nat /\ n - 1 \in S
  BY <1>1, <1>2
<1> QED BY <1>1, <1>3

\* Induction over what comes before, up to a bound.
LEMMA EveryNaturalUpTo ==
  ASSUME NEW size \in Nat, NEW P, 0 \in P,
         \A n \in Nat : (\A i \in 0..n : i \in P) /\ n + 1 <= size => n + 1 \in P
  PROVE  \A i \in 0..size : i \in P
<1> DEFINE N == {n \in Nat : n <= size => \A i \in 0..n : i \in P}
<1>1. 0 \in N
  <2>1. \A i \in 0..0 : i = 0
    OBVIOUS
  <2> QED BY <2>1
<1>2. ASSUME NEW n \in Nat, n \in N PROVE n + 1 \in N
  <2> SUFFICES ASSUME n + 1 <= size, NEW i \in 0..(n + 1) PROVE i \in P
    OBVIOUS
  <2>1. \A j \in 0..n : j \in P
    BY <1>2
  <2> QED BY <2>1
<1>3. Nat \subseteq N
  <2> HIDE DEF N
  <2> QED BY <1>1, <1>2, EveryNatural
<1> QED BY <1>3

\* The function a fold is by definition: it takes the members of a finite set one by
\* one, C says which is next, and G adds one to what came of the others.
Chooses(C, D) == \A s \in SUBSET D : s # {} => C[s] \in s

Unfolds(h, D, b, G, C) ==
  \A s \in SUBSET D : h[s] = IF s = {} THEN b ELSE G[C[s]][h[s \ {C[s]}]]

LEMMA FoldExists ==
  ASSUME NEW D, IsFiniteSet(D), NEW X, NEW b \in X,
         NEW G, \A d \in D : \A x \in X : G[d][x] \in X,
         NEW C, Chooses(C, D)
  PROVE  \E h \in [SUBSET D -> X] : Unfolds(h, D, b, G, C)
<1> DEFINE Upto(n) ==
      \E h \in [SUBSET D -> X] : \A s \in SUBSET D : Cardinality(s) <= n =>
        h[s] = IF s = {} THEN b ELSE G[C[s]][h[s \ {C[s]}]]
           S == {n \in Nat : Upto(n)}
<1>1. \A s \in SUBSET D : IsFiniteSet(s) /\ Cardinality(s) \in Nat
                          /\ Cardinality(s) <= Cardinality(D)
  BY FS_Subset, FS_CardinalityType
<1>2. 0 \in S
  <2>1. [s \in SUBSET D |-> b] \in [SUBSET D -> X]
    OBVIOUS
  <2>2. \A s \in SUBSET D : Cardinality(s) <= 0 => s = {}
    BY <1>1, FS_EmptySet
  <2>3. Upto(0)
    BY <2>1, <2>2
  <2> QED BY <2>3
<1>3. ASSUME NEW n \in Nat, n \in S PROVE n + 1 \in S
  <2>1. PICK h \in [SUBSET D -> X] : \A s \in SUBSET D : Cardinality(s) <= n =>
                h[s] = IF s = {} THEN b ELSE G[C[s]][h[s \ {C[s]}]]
    BY <1>3
  <2>2. PICK k : k = [s \in SUBSET D |-> IF s = {} THEN b ELSE G[C[s]][h[s \ {C[s]}]]]
    OBVIOUS
  <2>3. k \in [SUBSET D -> X]
    <3>1. \A s \in SUBSET D : s # {} => C[s] \in D /\ h[s \ {C[s]}] \in X
      BY <2>1 DEF Chooses
    <3> QED BY <2>2, <3>1
  <2>4. ASSUME NEW s \in SUBSET D, Cardinality(s) <= n + 1, s # {}
        PROVE  k[s] = G[C[s]][k[s \ {C[s]}]]
    <3>1. C[s] \in s /\ s \ {C[s]} \in SUBSET D
      BY <2>4 DEF Chooses
    <3>2. Cardinality(s \ {C[s]}) = Cardinality(s) - 1
      BY <1>1, <3>1, FS_RemoveElement
    <3>3. Cardinality(s \ {C[s]}) <= n
      BY <1>1, <2>4, <3>2
    <3>4. h[s \ {C[s]}] = k[s \ {C[s]}]
      BY <2>1, <2>2, <3>1, <3>3
    <3> QED BY <2>2, <2>4, <3>4
  <2>5. Upto(n + 1)
    BY <2>2, <2>3, <2>4
  <2>6. n + 1 \in Nat
    OBVIOUS
  <2> QED BY <2>5, <2>6
<1>4. \A n \in Nat : n \in S
  BY <1>2, <1>3, EveryNatural
<1>5. Cardinality(D) \in Nat
  BY <1>1
<1>6. Upto(Cardinality(D))
  BY <1>4, <1>5
<1> QED BY <1>1, <1>6 DEF Unfolds

\* What holds of the empty set, and of a set if it does without its next member, holds
\* of the whole.
LEMMA FoldInduction ==
  ASSUME NEW D, IsFiniteSet(D), NEW C, Chooses(C, D),
         NEW Holds, {} \in Holds,
         \A s \in SUBSET D : s # {} /\ s \ {C[s]} \in Holds => s \in Holds
  PROVE  D \in Holds
<1> DEFINE S == {n \in Nat : \A s \in SUBSET D : Cardinality(s) <= n => s \in Holds}
<1>1. \A s \in SUBSET D : IsFiniteSet(s) /\ Cardinality(s) \in Nat
  BY FS_Subset, FS_CardinalityType
<1>2. 0 \in S
  <2>1. \A s \in SUBSET D : Cardinality(s) <= 0 => s = {}
    BY <1>1, FS_EmptySet
  <2> QED BY <2>1
<1>3. ASSUME NEW n \in Nat, n \in S PROVE n + 1 \in S
  <2>1. ASSUME NEW s \in SUBSET D, Cardinality(s) <= n + 1 PROVE s \in Holds
    <3>1. CASE s = {}
      BY <3>1
    <3>2. CASE s # {}
      <4>1. C[s] \in s /\ s \ {C[s]} \in SUBSET D
        BY <3>2 DEF Chooses
      <4>2. Cardinality(s \ {C[s]}) = Cardinality(s) - 1
        BY <1>1, <4>1, FS_RemoveElement
      <4>3. s \ {C[s]} \in Holds
        BY <1>1, <1>3, <2>1, <4>1, <4>2
      <4> QED BY <3>2, <4>3
    <3> QED BY <3>1, <3>2
  <2>2. n + 1 \in Nat
    OBVIOUS
  <2> QED BY <2>1, <2>2
<1>4. \A n \in Nat : n \in S
  BY <1>2, <1>3, EveryNatural
<1>5. Cardinality(D) \in S /\ Cardinality(D) <= Cardinality(D)
  BY <1>1, <1>4
<1> QED BY <1>5

\* The members of a sequence in turn, from the last back: FoldLeft's choice.
LEMMA MaxIsLast ==
  ASSUME NEW n \in Nat, NEW s \in SUBSET (1..n), s # {}
  PROVE  Max(s) \in s /\ \A i \in s : i <= Max(s)
<1> DEFINE S == {k \in 0..n : \E i \in s : i = n - k}
<1>1. S # {} /\ S \subseteq Nat
  <2>1. PICK i \in s : TRUE
    OBVIOUS
  <2>2. n - i \in 0..n /\ i = n - (n - i)
    OBVIOUS
  <2>3. S # {}
    BY <2>2
  <2>4. S \subseteq Nat
    OBVIOUS
  <2> QED BY <2>3, <2>4
<1>2. PICK m \in S : \A k \in S : m <= k
  BY <1>1, LeastNatural
<1>3. n - m \in s /\ \A i \in s : i <= n - m
  <2>1. ASSUME NEW i \in s PROVE i <= n - m
    <3>1. n - i \in 0..n /\ i = n - (n - i)
      OBVIOUS
    <3>2. m <= n - i
      BY <1>2, <3>1
    <3> QED BY <1>2, <3>2
  <2> QED BY <1>2, <2>1
<1> QED BY <1>3 DEF Max

LEMMA MinIsFirst ==
  ASSUME NEW S, S \subseteq Nat, S # {}
  PROVE  Min(S) \in S
BY LeastNatural DEF Min

\* A set of numbers under a bound has a largest.
LEMMA LargestOf ==
  ASSUME NEW most \in Nat, NEW s, \A i \in s : i \in 0..most, NEW x \in s
  PROVE  Max(s) \in s
<1> DEFINE t == {i \in 1..(most + 1) : i - 1 \in s}
<1>1. t \in SUBSET (1..(most + 1))
  OBVIOUS
<1>2. \A i \in s : i + 1 \in t /\ i \in Nat
  OBVIOUS
<1>3. x + 1 \in t
  BY <1>2
<1>4. \A i \in t : i \in Nat /\ i - 1 \in s
  OBVIOUS
<1> HIDE DEF t
<1>5. PICK m \in t : \A i \in t : i <= m
  <2>1. t # {} /\ most + 1 \in Nat
    BY <1>3
  <2> QED BY <1>1, <2>1, MaxIsLast
<1>6. PICK k : k = m - 1 /\ k \in s /\ m \in Nat
  BY <1>4, <1>5
<1>7. \A i \in s : k >= i
  <2> SUFFICES ASSUME NEW i \in s PROVE k >= i
    OBVIOUS
  <2>1. i + 1 <= m /\ i \in Nat
    BY <1>2, <1>5
  <2> QED BY <1>6, <2>1
<1> QED BY <1>6, <1>7, Zenon DEF Max

LEMMA ListIsFinite ==
  ASSUME NEW E, NEW l \in Seq(E)
  PROVE  /\ IsFiniteSet(DOMAIN l) /\ Len(l) \in Nat /\ DOMAIN l = 1..Len(l)
         /\ \A i \in DOMAIN l : l[i] \in E
         /\ \A s \in SUBSET (DOMAIN l) : s # {} => Max(s) \in s
<1>1. Len(l) \in Nat /\ DOMAIN l = 1..Len(l) /\ \A i \in DOMAIN l : l[i] \in E
  BY LenProperties, ElementOfSeq
<1>2. IsFiniteSet(1..Len(l))
  BY <1>1, FS_Interval
<1>3. \A s \in SUBSET (DOMAIN l) : s # {} => Max(s) \in s
  BY <1>1, MaxIsLast
<1> QED BY <1>1, <1>2, <1>3

\* The same for the entries of a list, step[e] being what an entry e does.
ListUnfolds(h, l, X, b, step) ==
  /\ h \in [SUBSET (DOMAIN l) -> X]
  /\ \A s \in SUBSET (DOMAIN l) :
       h[s] = IF s = {} THEN b ELSE step[l[Max(s)]][h[s \ {Max(s)}]]

\* A fold over a list that keeps to X whatever the entry: the function it is by
\* definition exists, and keeps to X.
LEMMA ListFoldExists ==
  ASSUME NEW E, NEW l \in Seq(E), NEW X, NEW b \in X,
         NEW step, \A e \in E : \A x \in X : step[e][x] \in X
  PROVE  \E h : ListUnfolds(h, l, X, b, step)
<1> DEFINE D == DOMAIN l
           C == [s \in SUBSET D |-> Max(s)]
           G == [i \in D |-> step[l[i]]]
<1>1. /\ IsFiniteSet(D) /\ \A i \in D : l[i] \in E
      /\ \A s \in SUBSET D : C[s] = Max(s) /\ (s # {} => Max(s) \in s)
  BY ListIsFinite
<1>2. \A i \in D : G[i] = step[l[i]] /\ \A x \in X : G[i][x] \in X
  BY <1>1
<1>3. PICK h \in [SUBSET D -> X] : Unfolds(h, D, b, G, C)
  <2>1. Chooses(C, D)
    BY <1>1 DEF Chooses
  <2>2. IsFiniteSet(D)
    BY <1>1
  <2>3. \A d \in D : \A x \in X : G[d][x] \in X
    BY <1>2
  <2> HIDE DEF C, G, D
  <2> QED BY <2>1, <2>2, <2>3, FoldExists
<1>4. \A s \in SUBSET D : h[s] = IF s = {} THEN b ELSE step[l[Max(s)]][h[s \ {Max(s)}]]
  <2> SUFFICES ASSUME NEW s \in SUBSET D, s # {}
               PROVE  h[s] = step[l[Max(s)]][h[s \ {Max(s)}]]
    BY <1>3 DEF Unfolds
  <2>1. C[s] = Max(s) /\ Max(s) \in D
    BY <1>1
  <2>2. h[s] = G[C[s]][h[s \ {C[s]}]]
    BY <1>3 DEF Unfolds
  <2> HIDE DEF C, G
  <2> QED BY <1>2, <2>1, <2>2
<1> QED BY <1>3, <1>4 DEF ListUnfolds

\* What holds of no entry, and of a set of entries if it does without the last, holds
\* of the whole list.
LEMMA ListInduction ==
  ASSUME NEW E, NEW l \in Seq(E), NEW Holds, {} \in Holds,
         \A s \in SUBSET (DOMAIN l) : s # {} /\ s \ {Max(s)} \in Holds => s \in Holds
  PROVE  DOMAIN l \in Holds
<1> DEFINE C == [s \in SUBSET (DOMAIN l) |-> Max(s)]
<1>1. IsFiniteSet(DOMAIN l) /\ Chooses(C, DOMAIN l)
  BY ListIsFinite DEF Chooses
<1>2. \A s \in SUBSET (DOMAIN l) : s # {} /\ s \ {C[s]} \in Holds => s \in Holds
  OBVIOUS
<1> HIDE DEF C
<1> QED BY <1>1, <1>2, FoldInduction

\* Whatever is unfolded like that keeps to X.
LEMMA ListFoldKeeps ==
  ASSUME NEW E, NEW l \in Seq(E), NEW X, NEW iter, iter[{}] \in X,
         \A s \in SUBSET (DOMAIN l) : s # {} /\ iter[s \ {Max(s)}] \in X => iter[s] \in X
  PROVE  iter[DOMAIN l] \in X
<1> DEFINE Holds == {s \in SUBSET (DOMAIN l) : iter[s] \in X}
<1>1. {} \in Holds
  OBVIOUS
<1>2. \A s \in SUBSET (DOMAIN l) : s # {} /\ s \ {Max(s)} \in Holds => s \in Holds
  OBVIOUS
<1>3. DOMAIN l \in Holds
  <2> HIDE DEF Holds
  <2> QED BY <1>1, <1>2, ListInduction
<1> QED BY <1>3

-----------------------------------------------------------------------------
(* Sums.  MapThenSumSet adds in the order of a choice; the sum does not    *)
(* depend on it.                                                           *)

SumOn(f, S) == MapThenSumSet(LAMBDA x : f[x], S)

Choice(D) == [s \in SUBSET D |-> CHOOSE x \in s : TRUE]

Sums(h, D, f) ==
  /\ h \in [SUBSET D -> Int]
  /\ \A s \in SUBSET D : h[s] = IF s = {} THEN 0 ELSE f[Choice(D)[s]] + h[s \ {Choice(D)[s]}]

\* The sum of every subset of D, as one function.
LEMMA SumExists ==
  ASSUME NEW D, IsFiniteSet(D), NEW f, \A x \in D : f[x] \in Int
  PROVE  \E h : Sums(h, D, f)
<1> DEFINE G == [d \in D |-> [n \in Int |-> f[d] + n]]
           C == Choice(D)
<1>1. Chooses(C, D)
  BY DEF Choice, Chooses
<1>2. \A d \in D : \A n \in Int : G[d][n] = f[d] + n /\ G[d][n] \in Int
  OBVIOUS
<1>3. PICK h \in [SUBSET D -> Int] : Unfolds(h, D, 0, G, C)
  <2>1. \A d \in D : \A n \in Int : G[d][n] \in Int
    BY <1>2
  <2>2. 0 \in Int
    OBVIOUS
  <2> HIDE DEF G, C
  <2> QED BY <1>1, <2>1, <2>2, FoldExists
<1>4. ASSUME NEW s \in SUBSET D
      PROVE  h[s] = IF s = {} THEN 0 ELSE f[C[s]] + h[s \ {C[s]}]
  <2>1. CASE s = {}
    BY <1>3, <2>1 DEF Unfolds
  <2>2. CASE s # {}
    <3>1. C[s] \in D /\ s \ {C[s]} \in SUBSET D
      BY <1>1, <2>2 DEF Chooses
    <3>2. h[s] = G[C[s]][h[s \ {C[s]}]]
      BY <1>3, <2>2 DEF Unfolds
    <3> HIDE DEF G, C
    <3>3. h[s \ {C[s]}] \in Int
      BY <1>3, <3>1
    <3> QED BY <1>2, <2>2, <3>1, <3>2, <3>3
  <2> QED BY <2>1, <2>2
<1> QED BY <1>3, <1>4 DEF Sums

\* It is what MapThenSumSet computes of each.
LEMMA SumIs ==
  ASSUME NEW D, IsFiniteSet(D), NEW f, NEW h, Sums(h, D, f), NEW S \in SUBSET D
  PROVE  SumOn(f, S) = h[S]
<1> DEFINE Chosen(s) == CHOOSE x \in s : TRUE
           g == [s \in SUBSET S |-> h[s]]
           C == Choice(S)
<1>1. \A s \in SUBSET S : Choice(D)[s] = Chosen(s) /\ C[s] = Chosen(s)
                          /\ (s # {} => Chosen(s) \in s)
  BY DEF Choice
<1>2. g = [s \in SUBSET S |-> IF s = {} THEN 0 ELSE f[Chosen(s)] + g[s \ {Chosen(s)}]]
  <2> SUFFICES ASSUME NEW s \in SUBSET S
               PROVE  g[s] = IF s = {} THEN 0 ELSE f[Chosen(s)] + g[s \ {Chosen(s)}]
    OBVIOUS
  <2>1. g[s] = h[s] /\ g[s \ {Chosen(s)}] = h[s \ {Chosen(s)}]
    OBVIOUS
  <2>2. h[s] = IF s = {} THEN 0 ELSE f[Chosen(s)] + h[s \ {Chosen(s)}]
    BY <1>1 DEF Sums
  <2> QED BY <2>1, <2>2
<1>3. PICK iter :
        /\ iter = [s \in SUBSET S |->
                     IF s = {} THEN 0 ELSE f[Chosen(s)] + iter[s \ {Chosen(s)}]]
        /\ SumOn(f, S) = iter[S]
  BY <1>2 DEF SumOn, MapThenSumSet, MapThenFoldSet
<1>4. S \in {s \in SUBSET S : iter[s] = h[s]}
  <2> DEFINE Holds == {s \in SUBSET S : iter[s] = h[s]}
  <2>1. {} \in Holds
    BY <1>3 DEF Sums
  <2>2. ASSUME NEW s \in SUBSET S, s # {}, s \ {C[s]} \in Holds PROVE s \in Holds
    <3>1. iter[s] = f[Chosen(s)] + iter[s \ {Chosen(s)}]
      BY <1>3, <2>2
    <3>2. h[s] = f[Chosen(s)] + h[s \ {Chosen(s)}]
      BY <1>1, <2>2 DEF Sums
    <3>3. iter[s \ {Chosen(s)}] = h[s \ {Chosen(s)}]
      BY <1>1, <2>2
    <3> QED BY <3>1, <3>2, <3>3
  <2>3. IsFiniteSet(S) /\ Chooses(C, S)
    BY <1>1, FS_Subset DEF Chooses
  <2>4. \A s \in SUBSET S : s # {} /\ s \ {C[s]} \in Holds => s \in Holds
    BY <2>2
  <2>5. S \in Holds
    <3> HIDE DEF Holds, C
    <3> QED BY <2>1, <2>3, <2>4, FoldInduction
  <2> QED BY <2>5
<1> QED BY <1>3, <1>4

\* Any member can be the last one added.
LEMMA SumTakesAny ==
  ASSUME NEW D, IsFiniteSet(D), NEW f, \A x \in D : f[x] \in Int, NEW h, Sums(h, D, f)
  PROVE  \A s \in SUBSET D : \A x \in s : h[s] = f[x] + h[s \ {x}]
<1> DEFINE TakesAny(s) == \A x \in s : h[s] = f[x] + h[s \ {x}]
           N == {n \in Nat : \A s \in SUBSET D : Cardinality(s) <= n => TakesAny(s)}
           C == Choice(D)
<1>1. \A s \in SUBSET D : IsFiniteSet(s) /\ Cardinality(s) \in Nat
  BY FS_Subset, FS_CardinalityType
<1>2. \A s \in SUBSET D : s # {} => C[s] \in s /\ h[s] = f[C[s]] + h[s \ {C[s]}]
  BY DEF Choice, Sums
<1>3. 0 \in N
  <2>1. \A s \in SUBSET D : Cardinality(s) <= 0 => s = {}
    BY <1>1, FS_EmptySet
  <2> QED BY <2>1
<1>4. ASSUME NEW n \in Nat, n \in N PROVE n + 1 \in N
  <2>1. ASSUME NEW s \in SUBSET D, Cardinality(s) <= n + 1, NEW x \in s
        PROVE  h[s] = f[x] + h[s \ {x}]
    <3>1. PICK c \in s : c = C[s]
      BY <1>2
    <3>2. h[s] = f[c] + h[s \ {c}]
      BY <1>2, <3>1
    <3>3. CASE x = c
      BY <3>2, <3>3
    <3>4. CASE x # c
      <4>1. x \in s \ {c} /\ c \in s \ {x} /\ s \ {c} \in SUBSET D /\ s \ {x} \in SUBSET D
        BY <3>4
      <4>2. Cardinality(s \ {c}) = Cardinality(s) - 1 /\ Cardinality(s \ {x}) = Cardinality(s) - 1
        BY <1>1, <3>1, FS_RemoveElement
      <4>3. Cardinality(s \ {c}) <= n /\ Cardinality(s \ {x}) <= n
        BY <1>1, <2>1, <4>2
      <4>4. h[s \ {c}] = f[x] + h[(s \ {c}) \ {x}]
        BY <1>4, <4>1, <4>3
      <4>5. h[s \ {x}] = f[c] + h[(s \ {x}) \ {c}]
        BY <1>4, <4>1, <4>3
      <4>6. (s \ {c}) \ {x} = (s \ {x}) \ {c} /\ (s \ {c}) \ {x} \in SUBSET D
        OBVIOUS
      <4>7. h[(s \ {c}) \ {x}] \in Int /\ f[x] \in Int /\ f[c] \in Int
        BY <4>6 DEF Sums
      <4>8. PICK m \in Int : m = h[(s \ {c}) \ {x}] /\ m = h[(s \ {x}) \ {c}]
        BY <4>6, <4>7
      <4> QED BY <3>2, <4>4, <4>5, <4>7, <4>8
    <3> QED BY <3>3, <3>4
  <2>2. n + 1 \in Nat
    OBVIOUS
  <2> QED BY <2>1, <2>2
<1>5. \A n \in Nat : n \in N
  BY <1>3, <1>4, EveryNatural
<1> SUFFICES ASSUME NEW s \in SUBSET D PROVE TakesAny(s)
  OBVIOUS
<1>6. PICK n \in Nat : n = Cardinality(s)
  BY <1>1
<1>7. \A r \in SUBSET D : Cardinality(r) <= n => TakesAny(r)
  <2> HIDE DEF TakesAny
  <2> QED BY <1>5
<1>8. Cardinality(s) <= n
  BY <1>6
<1>9. TakesAny(s)
  <2> HIDE DEF TakesAny
  <2> QED BY <1>7, <1>8
<1> QED BY <1>9

LEMMA SumOfNone == ASSUME NEW f PROVE SumOn(f, {}) = 0
<1>1. IsFiniteSet({})
  BY FS_EmptySet
<1>2. PICK h : Sums(h, {}, f)
  BY <1>1, SumExists
<1>3. {} \in SUBSET {} /\ h[{}] = 0
  BY <1>2 DEF Sums
<1> QED BY <1>1, <1>2, <1>3, SumIs

LEMMA SumWithout ==
  ASSUME NEW D, IsFiniteSet(D), NEW f, \A x \in D : f[x] \in Int, NEW x \in D
  PROVE  SumOn(f, D) = f[x] + SumOn(f, D \ {x})
<1>1. PICK h : Sums(h, D, f)
  BY SumExists
<1>2. SumOn(f, D) = h[D] /\ SumOn(f, D \ {x}) = h[D \ {x}]
  BY <1>1, SumIs
<1> QED BY <1>1, <1>2, SumTakesAny

\* What holds of the empty set, and of a set with one member more, holds of a finite set.
LEMMA SetInduction ==
  ASSUME NEW D, IsFiniteSet(D), NEW Holds, {} \in Holds,
         \A s \in SUBSET D : \A x \in s : s \ {x} \in Holds => s \in Holds
  PROVE  SUBSET D \subseteq Holds
<1> DEFINE S == {n \in Nat : \A s \in SUBSET D : Cardinality(s) <= n => s \in Holds}
<1>1. \A s \in SUBSET D : IsFiniteSet(s) /\ Cardinality(s) \in Nat
  BY FS_Subset, FS_CardinalityType
<1>2. 0 \in S
  <2>1. \A s \in SUBSET D : Cardinality(s) <= 0 => s = {}
    BY <1>1, FS_EmptySet
  <2> QED BY <2>1
<1>3. ASSUME NEW n \in Nat, n \in S PROVE n + 1 \in S
  <2>1. ASSUME NEW s \in SUBSET D, Cardinality(s) <= n + 1, s # {} PROVE s \in Holds
    <3>1. PICK x \in s : s \ {x} \in SUBSET D
      BY <2>1
    <3>2. Cardinality(s \ {x}) = Cardinality(s) - 1
      BY <1>1, FS_RemoveElement
    <3>3. s \ {x} \in Holds
      BY <1>1, <1>3, <2>1, <3>1, <3>2
    <3> QED BY <3>3
  <2>2. n + 1 \in Nat
    OBVIOUS
  <2> QED BY <2>1, <2>2
<1>4. \A n \in Nat : n \in S
  BY <1>2, <1>3, EveryNatural
<1> SUFFICES ASSUME NEW s \in SUBSET D PROVE s \in Holds
  OBVIOUS
<1>5. Cardinality(s) \in S /\ Cardinality(s) <= Cardinality(s)
  BY <1>1, <1>4
<1> QED BY <1>5

LEMMA SumIsInt ==
  ASSUME NEW D, IsFiniteSet(D), NEW f, \A x \in D : f[x] \in Int
  PROVE  SumOn(f, D) \in Int
<1>1. PICK h : Sums(h, D, f)
  BY SumExists
<1>2. SumOn(f, D) = h[D]
  BY <1>1, SumIs
<1> QED BY <1>1, <1>2 DEF Sums

LEMMA SumIsNat ==
  ASSUME NEW D, IsFiniteSet(D), NEW f, \A x \in D : f[x] \in Nat
  PROVE  SumOn(f, D) \in Nat
<1> DEFINE Holds == {s \in SUBSET D : SumOn(f, s) \in Nat}
<1>1. {} \in Holds
  BY SumOfNone
<1>2. ASSUME NEW s \in SUBSET D, NEW x \in s, s \ {x} \in Holds PROVE s \in Holds
  <2>1. IsFiniteSet(s)
    BY FS_Subset
  <2>2. SumOn(f, s) = f[x] + SumOn(f, s \ {x})
    BY <2>1, SumWithout
  <2> QED BY <1>2, <2>2
<1>3. SUBSET D \subseteq Holds
  <2> HIDE DEF Holds
  <2> QED BY <1>1, <1>2, SetInduction
<1> QED BY <1>3

\* Functions that agree on a set have the same sum over it.
LEMMA SumAgrees ==
  ASSUME NEW D, IsFiniteSet(D), NEW f, NEW g, \A x \in D : f[x] \in Int /\ f[x] = g[x]
  PROVE  SumOn(f, D) = SumOn(g, D)
<1> DEFINE Holds == {s \in SUBSET D : SumOn(f, s) = SumOn(g, s)}
<1>1. {} \in Holds
  BY SumOfNone
<1>2. ASSUME NEW s \in SUBSET D, NEW x \in s, s \ {x} \in Holds PROVE s \in Holds
  <2>1. IsFiniteSet(s)
    BY FS_Subset
  <2>2. SumOn(f, s) = f[x] + SumOn(f, s \ {x})
    BY <2>1, SumWithout
  <2>3. SumOn(g, s) = g[x] + SumOn(g, s \ {x})
    BY <2>1, SumWithout
  <2> QED BY <1>2, <2>2, <2>3
<1>3. SUBSET D \subseteq Holds
  <2> HIDE DEF Holds
  <2> QED BY <1>1, <1>2, SetInduction
<1> QED BY <1>3

\* One value changed: the sum changes by as much.
LEMMA SumChanges ==
  ASSUME NEW D, IsFiniteSet(D), NEW f, NEW g, NEW x \in D,
         \A y \in D : f[y] \in Int /\ g[y] \in Int,
         \A y \in D \ {x} : f[y] = g[y]
  PROVE  SumOn(g, D) = SumOn(f, D) + g[x] - f[x]
<1>1. SumOn(f, D) = f[x] + SumOn(f, D \ {x}) /\ SumOn(g, D) = g[x] + SumOn(g, D \ {x})
  BY SumWithout
<1>2. IsFiniteSet(D \ {x})
  BY FS_Subset
<1>3. SumOn(f, D \ {x}) = SumOn(g, D \ {x}) /\ SumOn(f, D \ {x}) \in Int
  BY <1>2, SumAgrees, SumIsInt
<1> QED BY <1>1, <1>3

\* Nothing is added by members that hold nothing.
LEMMA SumOverMore ==
  ASSUME NEW D, IsFiniteSet(D), NEW f, \A y \in D : f[y] \in Int,
         NEW S \in SUBSET D, \A y \in D \ S : f[y] = 0
  PROVE  SumOn(f, D) = SumOn(f, S)
<1> DEFINE Holds == {s \in SUBSET D : SumOn(f, s) = SumOn(f, s \cap S)}
<1>1. {} \in Holds
  <2>1. {} \cap S = {}
    OBVIOUS
  <2> QED BY <2>1
<1>2. ASSUME NEW s \in SUBSET D, NEW x \in s, s \ {x} \in Holds PROVE s \in Holds
  <2>1. IsFiniteSet(s) /\ IsFiniteSet(s \cap S)
    BY FS_Subset
  <2>2. SumOn(f, s) = f[x] + SumOn(f, s \ {x})
    BY <2>1, SumWithout
  <2>3. SumOn(f, s \ {x}) = SumOn(f, (s \ {x}) \cap S)
    BY <1>2
  <2>4. CASE x \in S
    <3>1. x \in s \cap S /\ (s \cap S) \ {x} = (s \ {x}) \cap S
      BY <2>4
    <3>2. \A y \in s \cap S : f[y] \in Int
      OBVIOUS
    <3>3. SumOn(f, s \cap S) = f[x] + SumOn(f, (s \cap S) \ {x})
      BY <2>1, <3>1, <3>2, SumWithout
    <3> QED BY <2>2, <2>3, <3>1, <3>3
  <2>5. CASE x \notin S
    <3>1. (s \ {x}) \cap S = s \cap S /\ f[x] = 0
      BY <2>5
    <3>2. SumOn(f, s \cap S) \in Int
      BY <2>1, SumIsInt
    <3>3. SumOn(f, (s \ {x}) \cap S) = SumOn(f, s \cap S)
      BY <3>1
    <3>4. SumOn(f, s) = SumOn(f, s \cap S)
      BY <2>2, <2>3, <3>1, <3>2, <3>3
    <3> QED BY <3>4
  <2> QED BY <2>4, <2>5
<1>3. SUBSET D \subseteq Holds
  <2> HIDE DEF Holds
  <2> QED BY <1>1, <1>2, SetInduction
<1>4. D \cap S = S
  OBVIOUS
<1> QED BY <1>3, <1>4

LEMMA SumOfOne ==
  ASSUME NEW f, NEW x, f[x] \in Int
  PROVE  SumOn(f, {x}) = f[x]
<1>1. IsFiniteSet({x}) /\ {x} \ {x} = {}
  BY FS_Singleton
<1>2. SumOn(f, {x}) = f[x] + SumOn(f, {x} \ {x})
  BY <1>1, SumWithout
<1>3. SumOn(f, {x} \ {x}) = 0
  BY <1>1, SumOfNone
<1> QED BY <1>2, <1>3

\* Adding members one by one adds the sums.
LEMMA SumAdds ==
  ASSUME NEW D, IsFiniteSet(D), NEW f, NEW g, NEW both,
         \A x \in D : f[x] \in Int /\ g[x] \in Int /\ both[x] = f[x] + g[x]
  PROVE  SumOn(both, D) = SumOn(f, D) + SumOn(g, D)
<1> DEFINE Holds == {s \in SUBSET D : SumOn(both, s) = SumOn(f, s) + SumOn(g, s)}
<1>1. {} \in Holds
  BY SumOfNone
<1>2. ASSUME NEW s \in SUBSET D, NEW x \in s, s \ {x} \in Holds PROVE s \in Holds
  <2>1. IsFiniteSet(s) /\ IsFiniteSet(s \ {x}) /\ \A y \in s : both[y] \in Int
    BY FS_Subset
  <2>2. SumOn(f, s) = f[x] + SumOn(f, s \ {x}) /\ SumOn(g, s) = g[x] + SumOn(g, s \ {x})
    BY <2>1, SumWithout
  <2>3. SumOn(both, s) = both[x] + SumOn(both, s \ {x})
    BY <2>1, SumWithout
  <2>4. SumOn(f, s \ {x}) \in Int /\ SumOn(g, s \ {x}) \in Int
    BY <2>1, SumIsInt
  <2>5. SumOn(both, s \ {x}) = SumOn(f, s \ {x}) + SumOn(g, s \ {x})
    BY <1>2
  <2>6. both[x] = f[x] + g[x] /\ f[x] \in Int /\ g[x] \in Int
    OBVIOUS
  <2>7. SumOn(both, s) = SumOn(f, s) + SumOn(g, s)
    BY <2>2, <2>3, <2>4, <2>5, <2>6
  <2> QED BY <2>7
<1>3. SUBSET D \subseteq Holds
  <2> HIDE DEF Holds
  <2> QED BY <1>1, <1>2, SetInduction
<1> QED BY <1>3

\* Each member larger by n at most: the sum is larger by n for each at most.
LEMMA SumGrows ==
  ASSUME NEW D, IsFiniteSet(D), NEW f, NEW g,
         \A x \in D : f[x] \in Int /\ g[x] \in Int /\ g[x] <= f[x] + 1
  PROVE  SumOn(g, D) <= SumOn(f, D) + Cardinality(D)
<1> DEFINE Holds == {s \in SUBSET D : SumOn(g, s) <= SumOn(f, s) + Cardinality(s)}
<1>1. {} \in Holds
  BY SumOfNone, FS_EmptySet
<1>2. ASSUME NEW s \in SUBSET D, NEW x \in s, s \ {x} \in Holds PROVE s \in Holds
  <2>1. IsFiniteSet(s) /\ IsFiniteSet(s \ {x})
    BY FS_Subset
  <2>2. SumOn(f, s) = f[x] + SumOn(f, s \ {x}) /\ SumOn(g, s) = g[x] + SumOn(g, s \ {x})
    BY <2>1, SumWithout
  <2>3. SumOn(f, s \ {x}) \in Int /\ SumOn(g, s \ {x}) \in Int
    BY <2>1, SumIsInt
  <2>4. Cardinality(s \ {x}) = Cardinality(s) - 1 /\ Cardinality(s) \in Nat
    BY <2>1, FS_RemoveElement, FS_CardinalityType
  <2>5. SumOn(g, s \ {x}) <= SumOn(f, s \ {x}) + Cardinality(s \ {x})
    BY <1>2
  <2>6. f[x] \in Int /\ g[x] \in Int /\ g[x] <= f[x] + 1
    OBVIOUS
  <2>7. SumOn(g, s) <= SumOn(f, s) + Cardinality(s)
    BY <2>2, <2>3, <2>4, <2>5, <2>6
  <2> QED BY <2>7
<1>3. SUBSET D \subseteq Holds
  <2> HIDE DEF Holds
  <2> QED BY <1>1, <1>2, SetInduction
<1> QED BY <1>3

\* No member larger: the sum is no larger.
LEMMA SumIsBelow ==
  ASSUME NEW D, IsFiniteSet(D), NEW f, NEW g,
         \A x \in D : f[x] \in Int /\ g[x] \in Int /\ g[x] <= f[x]
  PROVE  SumOn(g, D) <= SumOn(f, D)
<1> DEFINE rest == [x \in D |-> f[x] - g[x]]
<1>1. \A x \in D : g[x] \in Int /\ rest[x] \in Nat /\ f[x] = g[x] + rest[x]
  OBVIOUS
<1> HIDE DEF rest
<1>2. SumOn(f, D) = SumOn(g, D) + SumOn(rest, D)
  BY <1>1, SumAdds
<1>3. SumOn(rest, D) \in Nat /\ SumOn(g, D) \in Int
  BY <1>1, SumIsNat, SumIsInt
<1> QED BY <1>2, <1>3

\* A sum may be taken over other names of the members.
Names(name, D) == {name[x] : x \in D}

LEMMA SumRenamed ==
  ASSUME NEW D, IsFiniteSet(D), NEW f, NEW h, NEW name,
         \A x \in D : f[x] \in Int /\ h[name[x]] = f[x],
         \A x, y \in D : name[x] = name[y] => x = y
  PROVE  SumOn(h, Names(name, D)) = SumOn(f, D)
<1> DEFINE Holds == {s \in SUBSET D : /\ IsFiniteSet(Names(name, s))
                                      /\ SumOn(h, Names(name, s)) = SumOn(f, s)}
<1>1. {} \in Holds
  <2>1. Names(name, {}) = {}
    BY DEF Names
  <2>2. IsFiniteSet({}) /\ SumOn(h, {}) = SumOn(f, {})
    BY SumOfNone, FS_EmptySet
  <2> QED BY <2>1, <2>2
<1>2. ASSUME NEW s \in SUBSET D, NEW x \in s, s \ {x} \in Holds PROVE s \in Holds
  <2>1. PICK n, named, rest : n = name[x] /\ named = Names(name, s) /\ rest = Names(name, s \ {x})
    OBVIOUS
  <2>2. n \in named /\ named = rest \cup {n} /\ named \ {n} = rest
    BY <2>1 DEF Names
  <2>3. \A k \in named : h[k] \in Int
    BY <2>1 DEF Names
  <2>4. IsFiniteSet(rest) /\ SumOn(h, rest) = SumOn(f, s \ {x})
    BY <1>2, <2>1
  <2>5. IsFiniteSet(named)
    <3>1. IsFiniteSet(rest \cup {n})
      BY <2>4, FS_AddElement
    <3> QED BY <2>2, <3>1
  <2>6. SumOn(h, named) = h[n] + SumOn(h, named \ {n})
    BY <2>2, <2>3, <2>5, SumWithout
  <2>7. IsFiniteSet(s)
    BY FS_Subset
  <2>8. SumOn(f, s) = f[x] + SumOn(f, s \ {x})
    BY <2>7, SumWithout
  <2>9. SumOn(h, named) = SumOn(f, s)
    BY <2>1, <2>2, <2>4, <2>6, <2>8
  <2> QED BY <2>1, <2>5, <2>9
<1>3. SUBSET D \subseteq Holds
  <2> HIDE DEF Holds
  <2> QED BY <1>1, <1>2, SetInduction
<1> QED BY <1>3

\* The community modules' sums are sums.
LEMMA SumFunctionIs ==
  ASSUME NEW f
  PROVE  /\ SumFunction(f) = SumOn(f, DOMAIN f)
         /\ \A S : SumFunctionOnSet(f, S) = SumOn(f, S)
BY DEF SumFunction, SumFunctionOnSet, FoldFunctionOnSet, SumOn, MapThenSumSet

-----------------------------------------------------------------------------
(* Division.                                                               *)

LEMMA QuotientBounds ==
  ASSUME NEW x \in Nat, NEW r \in Nat \ {0}
  PROVE  x \div r \in Nat /\ (x \div r) * r <= x /\ x < (x \div r) * r + r
BY SMT

\* The quotient is the only one whose multiple is next to the number.
LEMMA QuotientIs ==
  ASSUME NEW x \in Nat, NEW q \in Nat, NEW r \in Nat \ {0}, q * r <= x, x < q * r + r
  PROVE  x \div r = q
BY SMT

LEMMA QuotientAbove ==
  ASSUME NEW x \in Nat, NEW q \in Nat, NEW r \in Nat \ {0}, q * r <= x
  PROVE  q <= x \div r
BY SMT

LEMMA TimesMonotonic ==
  ASSUME NEW x \in Nat, NEW y \in Nat, NEW r \in Nat \ {0}
  PROVE  (x * r <= y * r <=> x <= y) /\ x <= x * r
BY SMT

LEMMA TimesAssociates ==
  ASSUME NEW x \in Nat, NEW y \in Nat, NEW z \in Nat
  PROVE  x * (y * z) = (x * y) * z
BY SMT

-----------------------------------------------------------------------------
(* Rings.                                                                  *)

WindowOf(D) == [index: Nat, data: D]

\* Every window of a contiguous ring is where its index says.
LEMMA RingIndexes ==
  ASSUME NEW D, NEW ring \in Seq(WindowOf(D)), Contiguous(ring)
  PROVE  \A i \in 1..Len(ring) : /\ ring[i].index \in Nat
                                 /\ ring[i].index = ring[1].index + i - 1
                                 /\ ring[1].index \in Nat
<1> SUFFICES ASSUME NEW i \in 1..Len(ring)
             PROVE  /\ ring[i].index \in Nat
                    /\ ring[i].index = ring[1].index + i - 1
                    /\ ring[1].index \in Nat
  OBVIOUS
<1>1. Len(ring) \in Nat /\ DOMAIN ring = 1..Len(ring)
  BY LenProperties
<1>2. 1 \in 1..Len(ring)
  BY <1>1
<1>3. ring[i] \in WindowOf(D) /\ ring[1] \in WindowOf(D)
  BY <1>2, ElementOfSeq
<1>4. ring[i].index = ring[1].index + i - 1
  BY <1>1 DEF Contiguous
<1> QED BY <1>3, <1>4 DEF WindowOf

\* The last of a list, in their order.
TailOf(tail, list) ==
  \E d \in Nat : \A i \in DOMAIN tail : i + d \in DOMAIN list /\ tail[i] = list[i + d]

LEMMA TrimmedIsTail ==
  ASSUME NEW S, NEW list \in Seq(S), NEW cap \in Nat \ {0}
  PROVE  Trimmed(list, cap) \in Seq(S) /\ TailOf(Trimmed(list, cap), list)
<1>1. PICK l \in Nat : l = Len(list) /\ DOMAIN list = 1..l
  BY LenProperties
<1>2. CASE l <= cap
  <2>1. Trimmed(list, cap) = list
    BY <1>1, <1>2 DEF Trimmed
  <2>2. \A i \in DOMAIN list : i + 0 \in DOMAIN list /\ list[i] = list[i + 0]
    BY <1>1
  <2> QED BY <2>1, <2>2 DEF TailOf
<1>3. CASE ~(l <= cap)
  <2>1. PICK d \in Nat : d = l - cap
    BY <1>3
  <2>2. PICK n \in Nat : n = d + 1
    OBVIOUS
  <2>3. PICK tail : tail = SubSeq(list, n, l)
    OBVIOUS
  <2>4. Trimmed(list, cap) = tail
    BY <1>1, <1>3, <2>1, <2>2, <2>3 DEF Trimmed
  <2>5. \A i \in n..l : list[i] \in S
    BY <1>1, <2>2, ElementOfSeq
  <2>6. /\ tail \in Seq(S) /\ Len(tail) = IF n <= l THEN l - n + 1 ELSE 0
        /\ \A i \in 1..(l - n + 1) : tail[i] = list[n + i - 1]
    BY <2>3, <2>5, SubSeqProperties
  <2>7. DOMAIN tail = 1..cap /\ l - n + 1 = cap
    BY <1>3, <2>1, <2>2, <2>6, LenProperties
  <2>8. \A i \in 1..cap : i + d \in 1..l /\ tail[i] = list[i + d]
    <3> SUFFICES ASSUME NEW i \in 1..cap PROVE i + d \in 1..l /\ tail[i] = list[i + d]
      OBVIOUS
    <3>1. tail[i] = list[n + i - 1]
      BY <2>6, <2>7
    <3>2. n + i - 1 = i + d /\ i + d \in 1..l
      BY <2>1, <2>2
    <3> QED BY <3>1, <3>2
  <2> QED BY <1>1, <2>4, <2>6, <2>7, <2>8 DEF TailOf
<1> QED BY <1>2, <1>3

\* Popping the oldest windows keeps the newest and the contiguity.
LEMMA TrimmedIsRing ==
  ASSUME NEW D, NEW cap \in Nat \ {0}, NEW ring \in Seq(WindowOf(D)),
         ring # << >>, Contiguous(ring)
  PROVE  /\ Trimmed(ring, cap) \in Seq(WindowOf(D))
         /\ IsRing(Trimmed(ring, cap), cap)
         /\ Trimmed(ring, cap) # << >>
         /\ Newest(Trimmed(ring, cap)) = Newest(ring)
         /\ \A i \in DOMAIN Trimmed(ring, cap) :
              \E j \in DOMAIN ring : Trimmed(ring, cap)[i] = ring[j]
<1>0. Len(ring) \in Nat /\ DOMAIN ring = 1..Len(ring)
  BY LenProperties
<1>1. CASE Len(ring) <= cap
  BY <1>1 DEF Trimmed, IsRing
<1>2. CASE ~(Len(ring) <= cap)
  <2>1. PICK n \in Nat : n = Len(ring) - cap + 1
    BY <1>0, <1>2
  <2>2. n > 1 /\ n <= Len(ring) /\ Len(ring) = n + cap - 1
    BY <1>0, <1>2, <2>1
  <2>3. PICK s : s = SubSeq(ring, n, Len(ring))
    OBVIOUS
  <2>4. Trimmed(ring, cap) = s
    BY <1>2, <2>1, <2>3 DEF Trimmed
  <2>5. \A i \in n..Len(ring) : ring[i] \in WindowOf(D)
    BY <1>0, <2>2, ElementOfSeq
  <2>6. /\ s \in Seq(WindowOf(D))
        /\ Len(s) = IF n <= Len(ring) THEN Len(ring) - n + 1 ELSE 0
        /\ \A i \in 1..(Len(ring) - n + 1) : s[i] = ring[n + i - 1]
    BY <1>0, <2>3, <2>5, SubSeqProperties
  <2>7. Len(s) = cap /\ DOMAIN s = 1..cap /\ \A i \in 1..cap : s[i] = ring[n + i - 1]
    BY <1>0, <2>2, <2>6, LenProperties
  <2>8. ASSUME NEW i \in 1..cap
        PROVE  s[i].index = ring[1].index + n + i - 2 /\ ring[1].index \in Nat
    <3>1. n + i - 1 \in 1..Len(ring)
      BY <1>0, <2>2
    <3>2. /\ ring[n + i - 1].index = ring[1].index + (n + i - 1) - 1
          /\ ring[1].index \in Nat
      BY <3>1, RingIndexes
    <3>3. s[i] = ring[n + i - 1]
      BY <2>7
    <3>4. PICK first \in Nat : first = ring[1].index
      BY <3>2
    <3>5. s[i].index = first + (n + i - 1) - 1
      BY <3>2, <3>3, <3>4
    <3>6. first + (n + i - 1) - 1 = first + n + i - 2
      OBVIOUS
    <3> QED BY <3>4, <3>5, <3>6
  <2>9. Contiguous(s)
    <3> SUFFICES ASSUME NEW i \in 1..cap PROVE s[i].index = s[1].index + i - 1
      BY <2>7 DEF Contiguous
    <3>1. s[i].index = ring[1].index + n + i - 2 /\ ring[1].index \in Nat
      BY <2>8
    <3>2. s[1].index = ring[1].index + n + 1 - 2
      BY <2>8
    <3>3. PICK first \in Nat : first = ring[1].index
      BY <3>1
    <3>4. s[i].index = first + n + i - 2 /\ s[1].index = first + n + 1 - 2
      BY <3>1, <3>2, <3>3
    <3>5. first + n + i - 2 = (first + n + 1 - 2) + i - 1
      OBVIOUS
    <3> QED BY <3>4, <3>5
  <2>10. s # << >> /\ Newest(s) = Newest(ring)
    <3>1. s[cap] = ring[Len(ring)]
      BY <2>2, <2>7
    <3>2. s # << >>
      BY <2>7, EmptySeq
    <3> QED BY <2>7, <3>1, <3>2 DEF Newest
  <2>11. \A i \in 1..cap : n + i - 1 \in DOMAIN ring
    BY <1>0, <2>2
  <2>12. \A i \in DOMAIN s : \E j \in DOMAIN ring : s[i] = ring[j]
    BY <2>7, <2>11
  <2>13. IsRing(s, cap)
    BY <2>7, <2>9 DEF IsRing
  <2> QED BY <2>4, <2>6, <2>10, <2>12, <2>13
<1> QED BY <1>1, <1>2

\* Materializing the idle windows up to a later one leaves no hole.
LEMMA ExtendedIsContiguous ==
  ASSUME NEW D, NEW empty \in D, NEW ring \in Seq(WindowOf(D)), NEW index \in Nat,
         ring # << >>, Contiguous(ring), index > Newest(ring)
  PROVE  /\ Extended(ring, index, empty) \in Seq(WindowOf(D))
         /\ Contiguous(Extended(ring, index, empty))
         /\ Extended(ring, index, empty) # << >>
         /\ Newest(Extended(ring, index, empty)) = index
<1>1. PICK l \in Nat \ {0} : l = Len(ring)
  BY EmptySeq
<1>2. PICK first \in Nat : first = ring[1].index
  BY <1>1, RingIndexes
<1>3. \A i \in 1..l : ring[i].index = first + i - 1
  BY <1>1, <1>2, RingIndexes
<1>4. Newest(ring) = first + l - 1
  BY <1>1, <1>3 DEF Newest
<1>5. PICK k \in Nat \ {0} : k = index - Newest(ring)
  BY <1>4
<1>6. PICK more : more = [i \in 1..k |-> Window(Newest(ring) + i, empty)]
  OBVIOUS
<1>7. \A i \in 1..k : /\ more[i] \in WindowOf(D)
                      /\ more[i].index = first + l + i - 1
  BY <1>4, <1>6 DEF Window, WindowOf
<1>8. more \in Seq(WindowOf(D)) /\ Len(more) = k
  BY <1>6, <1>7
<1>9. PICK s : s = ring \o more
  OBVIOUS
<1>10. Extended(ring, index, empty) = s
  BY <1>5, <1>6, <1>9 DEF Extended
<1>11. /\ s \in Seq(WindowOf(D))
       /\ Len(s) = l + k
       /\ DOMAIN s = 1..(l + k)
       /\ \A i \in 1..(l + k) : s[i] = IF i <= l THEN ring[i] ELSE more[i - l]
  <2>1. /\ ring \o more \in Seq(WindowOf(D))
        /\ Len(ring \o more) = Len(ring) + Len(more)
        /\ \A i \in 1..Len(ring) + Len(more) :
              (ring \o more)[i] = IF i <= Len(ring) THEN ring[i] ELSE more[i - Len(ring)]
    BY <1>8, ConcatProperties
  <2>2. DOMAIN s = 1..Len(s)
    BY <1>9, <2>1, LenProperties
  <2> QED BY <1>1, <1>8, <1>9, <2>1, <2>2
<1>12. ASSUME NEW i \in 1..(l + k) PROVE s[i].index = first + i - 1
  <2>1. CASE i <= l
    BY <2>1, <1>3, <1>11
  <2>2. CASE ~(i <= l)
    <3>1. i - l \in 1..k /\ s[i] = more[i - l]
      BY <2>2, <1>11
    <3>2. more[i - l].index = first + l + (i - l) - 1
      BY <3>1, <1>7
    <3> QED BY <3>1, <3>2
  <2> QED BY <2>1, <2>2
<1>13. s[1].index = first
  BY <1>12
<1>14. Contiguous(s)
  BY <1>11, <1>12, <1>13 DEF Contiguous
<1>15. s # << >>
  BY <1>11, EmptySeq
<1>16. Newest(s) = index
  <2>1. PICK last \in 1..(l + k) : last = l + k
    OBVIOUS
  <2>2. s[last].index = first + last - 1 /\ Newest(s) = s[last].index
    BY <1>11, <1>12, <2>1 DEF Newest
  <2>3. first + last - 1 = index
    BY <1>4, <1>5, <2>1
  <2> QED BY <2>2, <2>3
<1> QED BY <1>10, <1>11, <1>14, <1>15, <1>16

\* window_for keeps a ring a ring, and afterwards the ring retains the window it
\* was asked for unless that window is older than every one it held.
THEOREM WindowForIsRing ==
  ASSUME NEW D, NEW empty \in D, NEW cap \in Nat \ {0}, NEW index \in Nat,
         NEW ring \in Seq(WindowOf(D)), IsRing(ring, cap)
  PROVE  /\ WindowFor(ring, index, cap, empty) \in Seq(WindowOf(D))
         /\ IsRing(WindowFor(ring, index, cap, empty), cap)
         /\ WindowFor(ring, index, cap, empty) # << >>
         /\ ring = << >> \/ index >= Oldest(ring)
              => Retains(WindowFor(ring, index, cap, empty), index)
<1> DEFINE after == WindowFor(ring, index, cap, empty)
<1>1. /\ Window(index, empty) \in WindowOf(D)
      /\ Window(index, empty).index = index
  BY DEF Window, WindowOf
<1>2. ASSUME NEW s, s = <<Window(index, empty)>>
      PROVE  /\ s \in Seq(WindowOf(D)) /\ IsRing(s, cap) /\ s # << >>
             /\ Retains(s, index)
  BY <1>1, <1>2 DEF IsRing, Contiguous, Retains, Oldest, Newest
<1>0. ASSUME ring # << >> PROVE Newest(ring) \in Nat
  <2>1. Len(ring) \in 1..Len(ring)
    BY <1>0, EmptySeq
  <2> QED BY <2>1, RingIndexes DEF IsRing, Newest
<1>3. CASE ring = << >>
  BY <1>2, <1>3 DEF WindowFor
<1>4. CASE ring # << >> /\ index <= Newest(ring)
  BY <1>4 DEF WindowFor, Retains
<1>5. CASE ring # << >> /\ index > Newest(ring)
  <2>1. CASE index - Newest(ring) >= cap
    BY <1>2, <1>5, <1>0, <2>1 DEF WindowFor
  <2>2. CASE ~(index - Newest(ring) >= cap)
    <3>1. PICK s \in Seq(WindowOf(D)) : /\ s = Extended(ring, index, empty)
                                       /\ Contiguous(s) /\ s # << >> /\ Newest(s) = index
      BY <1>5, ExtendedIsContiguous DEF IsRing
    <3>2. after = Trimmed(s, cap)
      BY <1>5, <1>0, <2>2, <3>1 DEF WindowFor
    <3>3. /\ after \in Seq(WindowOf(D)) /\ IsRing(after, cap) /\ after # << >>
          /\ Newest(after) = index
      BY <3>1, <3>2, TrimmedIsRing
    <3>4. Oldest(after) <= Newest(after)
      BY <3>3, EmptySeq, RingIndexes DEF IsRing, Oldest, Newest
    <3> QED BY <3>3, <3>4 DEF Retains
  <2> QED BY <2>1, <2>2
<1> QED BY <1>0, <1>3, <1>4, <1>5

\* window_for adds empty windows later than those it found, and no others.
LEMMA WindowForKeeps ==
  ASSUME NEW D, NEW empty \in D, NEW cap \in Nat \ {0}, NEW index \in Nat,
         NEW ring \in Seq(WindowOf(D)), IsRing(ring, cap)
  PROVE  /\ index <= Newest(WindowFor(ring, index, cap, empty))
         /\ ring # << >> => Newest(ring) <= Newest(WindowFor(ring, index, cap, empty))
         /\ \A i \in DOMAIN WindowFor(ring, index, cap, empty) :
              \/ \E j \in DOMAIN ring : WindowFor(ring, index, cap, empty)[i] = ring[j]
              \/ /\ WindowFor(ring, index, cap, empty)[i].data = empty
                 /\ ring # << >> => WindowFor(ring, index, cap, empty)[i].index > Newest(ring)
<1> DEFINE after == WindowFor(ring, index, cap, empty)
<1>1. /\ Window(index, empty).data = empty
      /\ Window(index, empty).index = index
  BY DEF Window
<1>2. ASSUME NEW s, s = <<Window(index, empty)>>
      PROVE  /\ Newest(s) = index
             /\ \A i \in DOMAIN s : s[i].data = empty /\ s[i].index = index
  BY <1>1, <1>2 DEF Newest
<1>3. ASSUME ring # << >> PROVE Newest(ring) \in Nat
  <2>1. Len(ring) \in 1..Len(ring)
    BY <1>3, EmptySeq
  <2> QED BY <2>1, RingIndexes DEF IsRing, Newest
<1>4. CASE ring = << >>
  BY <1>2, <1>4 DEF WindowFor
<1>5. CASE ring # << >> /\ index <= Newest(ring)
  BY <1>3, <1>5 DEF WindowFor
<1>6. CASE ring # << >> /\ index > Newest(ring)
  <2>1. CASE index - Newest(ring) >= cap
    BY <1>2, <1>3, <1>6, <2>1 DEF WindowFor
  <2>2. CASE ~(index - Newest(ring) >= cap)
    <3>1. PICK s \in Seq(WindowOf(D)) : /\ s = Extended(ring, index, empty)
                                       /\ Contiguous(s) /\ s # << >> /\ Newest(s) = index
      BY <1>6, ExtendedIsContiguous DEF IsRing
    <3>2. after = Trimmed(s, cap)
      BY <1>3, <1>6, <2>2, <3>1 DEF WindowFor
    <3>3. Newest(after) = index
      BY <3>1, <3>2, TrimmedIsRing
    <3>4. ASSUME NEW j \in DOMAIN s
          PROVE  \/ \E k \in DOMAIN ring : s[j] = ring[k]
                 \/ s[j].data = empty /\ s[j].index > Newest(ring)
      <4>1. PICK n \in Nat : n = index - Newest(ring)
        BY <1>3, <1>6
      <4>2. PICK more : more = [k \in 1..n |-> Window(Newest(ring) + k, empty)]
        OBVIOUS
      <4>3. \A k \in 1..n : more[k] \in WindowOf(D) /\ more[k].data = empty
                            /\ more[k].index > Newest(ring)
        BY <1>3, <1>6, <4>2 DEF Window, WindowOf
      <4>4. more \in Seq(WindowOf(D)) /\ Len(more) = n
        BY <4>2, <4>3
      <4>5. s = ring \o more
        BY <3>1, <4>1, <4>2 DEF Extended
      <4>6. PICK l \in Nat : l = Len(ring) /\ DOMAIN ring = 1..l
        BY LenProperties
      <4>7. DOMAIN s = 1..(l + n)
            /\ \A k \in 1..(l + n) : s[k] = IF k <= l THEN ring[k] ELSE more[k - l]
        BY <4>4, <4>5, <4>6, ConcatProperties, LenProperties
      <4>8. CASE j <= l
        BY <4>6, <4>7, <4>8
      <4>9. CASE ~(j <= l)
        <5>1. j - l \in 1..n /\ s[j] = more[j - l]
          BY <4>7, <4>9
        <5> QED BY <4>3, <5>1
      <4> QED BY <4>8, <4>9
    <3>5. ASSUME NEW i \in DOMAIN after
          PROVE  \/ \E k \in DOMAIN ring : after[i] = ring[k]
                 \/ after[i].data = empty /\ after[i].index > Newest(ring)
      <4>1. PICK j \in DOMAIN s : after[i] = s[j]
        BY <3>1, <3>2, TrimmedIsRing
      <4> QED BY <3>4, <4>1
    <3> QED BY <1>3, <1>6, <3>3, <3>5
  <2> QED BY <2>1, <2>2
<1> QED BY <1>3, <1>4, <1>5, <1>6

\* A retained window is found under its own index, and the windows are the retained ones.
LEMMA SlotHolds ==
  ASSUME NEW D, NEW ring \in Seq(WindowOf(D)), Contiguous(ring), NEW index \in Nat,
         Retains(ring, index)
  PROVE  /\ Slot(ring, index) \in DOMAIN ring
         /\ ring[Slot(ring, index)] \in WindowOf(D)
         /\ ring[Slot(ring, index)].index = index
<1>1. PICK l \in Nat : l = Len(ring) /\ DOMAIN ring = 1..l
  BY LenProperties
<1>2. 1 \in 1..l /\ l \in 1..l
  BY <1>1, EmptySeq DEF Retains
<1>3. PICK first \in Nat : first = ring[1].index
  BY <1>1, <1>2, RingIndexes
<1>4. \A i \in 1..l : ring[i].index = first + i - 1
  BY <1>1, <1>3, RingIndexes
<1>5. first <= index /\ index <= first + l - 1
  BY <1>1, <1>2, <1>3, <1>4 DEF Retains, Oldest, Newest
<1>6. PICK i \in 1..l : i = Slot(ring, index) /\ i = index - first + 1
  BY <1>2, <1>3, <1>5 DEF Slot, Oldest
<1>7. ring[i].index = index
  BY <1>4, <1>6
<1> QED BY <1>1, <1>6, <1>7, ElementOfSeq

LEMMA WindowsAreRetained ==
  ASSUME NEW D, NEW ring \in Seq(WindowOf(D)), Contiguous(ring), NEW i \in DOMAIN ring
  PROVE  /\ ring[i] \in WindowOf(D) /\ ring[i].index \in Nat
         /\ Retains(ring, ring[i].index) /\ Slot(ring, ring[i].index) = i
<1>1. PICK l \in Nat : l = Len(ring) /\ DOMAIN ring = 1..l
  BY LenProperties
<1>2. 1 \in 1..l /\ l \in 1..l /\ ring # << >>
  BY <1>1, EmptySeq
<1>3. PICK first \in Nat : first = ring[1].index
  BY <1>1, <1>2, RingIndexes
<1>4. ring[i].index = first + i - 1 /\ ring[l].index = first + l - 1
  BY <1>1, <1>2, <1>3, RingIndexes
<1> QED BY <1>1, <1>2, <1>3, <1>4, ElementOfSeq DEF Retains, Oldest, Newest, Slot
=============================================================================
