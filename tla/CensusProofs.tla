---------------------------- MODULE CensusProofs ----------------------------
(***************************************************************************)
(* The census is exact for every number of threads, every number of        *)
(* instances and every set of sizes, whatever the emit thread is reading.  *)
(***************************************************************************)
EXTENDS CensusReading, DataProofs

Kinds == {"constructing", "counted", "interning", "cloning", "dropping"}

CensusTypeOK ==
  /\ bucket \in [Tokens -> SizeBuckets \cup {Free, NoBucket}]
  /\ op \in [Threads -> [kind: Kinds \cup {"idle"}, token: Tokens \cup {Idle},
                         bucket: SizeBuckets \cup {NoBucket}]]
  /\ live \in Int /\ counts \in [SizeBuckets -> Int]
  /\ published \in BOOLEAN /\ tracked \in Nat /\ landed \in BOOLEAN

\* A thread inside an operation has a token nobody else has, and which is no instance
\* outside it.
Owned ==
  /\ \A t \in Threads : In(t, "idle") => op[t].token = Idle
  /\ \A t \in Threads : ~In(t, "idle") =>
       /\ op[t].token \in Tokens /\ op[t].bucket \in SizeBuckets
       /\ bucket[op[t].token] = Free
  /\ \A t, u \in Threads : op[t].token = op[u].token => t = u \/ op[t].token = Idle

LandedFirst == \A t \in Threads : op[t].kind \in {"counted", "interning"} => landed

CensusInv ==
  /\ CensusTypeOK /\ Owned /\ LandedFirst
  /\ CountersMatchTheTokens /\ RegisteredOnceAndLanded

\* Only what the invariant is about.
Quiet == UNCHANGED <<published, tracked, landed>>

LEMMA TokensFinite ==
  /\ LiveTokens \subseteq Tokens /\ IsFiniteSet(LiveTokens)
  /\ \A b : TokensIn(b) \subseteq Tokens /\ IsFiniteSet(TokensIn(b))
<1>1. LiveTokens \subseteq Tokens /\ \A b : TokensIn(b) \subseteq Tokens
  BY DEF LiveTokens, TokensIn
<1> QED BY <1>1, FS_Subset, CensusFinite

\* The counter of a set that stays, grows by one or shrinks by one follows it.
LEMMA LiveFollows ==
  ASSUME live \in Int, live = Cardinality(LiveTokens), NEW v,
         \/ LiveTokens' = LiveTokens /\ live' = live
         \/ v \notin LiveTokens /\ LiveTokens' = LiveTokens \cup {v} /\ live' = live + 1
         \/ v \in LiveTokens /\ LiveTokens' = LiveTokens \ {v} /\ live' = live - 1
  PROVE  live' \in Int /\ live' = Cardinality(LiveTokens')
BY TokensFinite, FS_AddElement, FS_RemoveElement

LEMMA CountFollows ==
  ASSUME NEW b, counts[b] \in Int, counts[b] = Cardinality(TokensIn(b)), NEW v,
         \/ TokensIn(b)' = TokensIn(b) /\ counts'[b] = counts[b]
         \/ v \notin TokensIn(b) /\ TokensIn(b)' = TokensIn(b) \cup {v}
              /\ counts'[b] = counts[b] + 1
         \/ v \in TokensIn(b) /\ TokensIn(b)' = TokensIn(b) \ {v}
              /\ counts'[b] = counts[b] - 1
  PROVE  counts'[b] = Cardinality(TokensIn(b)')
BY TokensFinite, FS_AddElement, FS_RemoveElement

LEMMA CensusInvInit == CensusInit => CensusInv
<1> SUFFICES ASSUME CensusInit PROVE CensusInv
  OBVIOUS
<1>1. CensusTypeOK
  <2>1. op \in [Threads -> [kind: Kinds \cup {"idle"}, token: Tokens \cup {Idle},
                          bucket: SizeBuckets \cup {NoBucket}]]
    BY DEF CensusInit, NoOp, Kinds
  <2>2. live \in Int /\ counts \in [SizeBuckets -> Int]
    BY DEF CensusInit
  <2> QED BY <2>1, <2>2 DEF CensusInit, CensusTypeOK
<1>2. Owned /\ LandedFirst
  BY CensusSentinels DEF CensusInit, Owned, LandedFirst, In, NoOp
<1>3. LiveTokens = {} /\ \A b \in SizeBuckets : TokensIn(b) = {}
  BY CensusSentinels DEF CensusInit, LiveTokens, TokensIn, IsCounted, Building, NoOp
<1>4. CountersMatchTheTokens
  BY <1>3, FS_EmptySet DEF CensusInit, CountersMatchTheTokens
<1>5. RegisteredOnceAndLanded
  BY DEF CensusInit, RegisteredOnceAndLanded
<1> QED BY <1>1, <1>2, <1>4, <1>5 DEF CensusInv

\* The first counter of a construction, and of a clone.
LEMMA BeginBuilding ==
  ASSUME CensusInv, NEW t \in Threads, NEW v \in Tokens, NEW b \in SizeBuckets,
         NEW kind \in {"constructing", "cloning"},
         In(t, "idle"), bucket[v] = Free, ~InUse(v),
         live' = live + 1, Doing(t, kind, v, b), UNCHANGED <<bucket, counts>>, Quiet
  PROVE  CensusInv'
<1> USE DEF CensusInv
<1>1. op' = [op EXCEPT ![t] = [kind |-> kind, token |-> v, bucket |-> b]]
  BY DEF Doing
<1>2. CensusTypeOK'
  BY <1>1 DEF CensusTypeOK, Quiet, Kinds
<1>3. Owned'
  BY <1>1, CensusSentinels DEF Owned, In, InUse, CensusTypeOK
<1>4. LandedFirst' /\ RegisteredOnceAndLanded'
  BY <1>1 DEF LandedFirst, RegisteredOnceAndLanded, Quiet, CensusTypeOK
<1>5. v \notin LiveTokens /\ LiveTokens' = LiveTokens \cup {v}
  BY <1>1 DEF LiveTokens, IsCounted, Building, InUse, In, CensusTypeOK
<1>6. \A c \in SizeBuckets : TokensIn(c)' = TokensIn(c)
  BY <1>1 DEF TokensIn, In, CensusTypeOK
<1>7. CountersMatchTheTokens'
  BY <1>5, <1>6, LiveFollows DEF CountersMatchTheTokens, CensusTypeOK
<1> QED BY <1>2, <1>3, <1>4, <1>7

\* What a thread in the middle of an operation has.
LEMMA Holding ==
  ASSUME CensusInv, NEW t \in Threads, ~In(t, "idle")
  PROVE  \E v \in Tokens, b \in SizeBuckets :
           op[t].token = v /\ op[t].bucket = b /\ bucket[v] = Free /\ v # Idle
BY CensusSentinels DEF CensusInv, Owned

\* Its counter of the bucket follows, the others stay.
LEMMA OneCountFollows ==
  ASSUME CensusTypeOK, CountersMatchTheTokens, NEW v, NEW b \in SizeBuckets,
         \/ /\ v \notin TokensIn(b) /\ TokensIn(b)' = TokensIn(b) \cup {v}
            /\ counts' = [counts EXCEPT ![b] = @ + 1]
         \/ /\ v \in TokensIn(b) /\ TokensIn(b)' = TokensIn(b) \ {v}
            /\ counts' = [counts EXCEPT ![b] = @ - 1],
         \A c \in SizeBuckets \ {b} : TokensIn(c)' = TokensIn(c)
  PROVE  \A c \in SizeBuckets : counts'[c] = Cardinality(TokensIn(c)')
<1>1. counts'[b] = Cardinality(TokensIn(b)')
  BY CountFollows DEF CensusTypeOK, CountersMatchTheTokens
<1>2. ASSUME NEW c \in SizeBuckets \ {b} PROVE counts'[c] = Cardinality(TokensIn(c)')
  BY DEF CensusTypeOK, CountersMatchTheTokens
<1> QED BY <1>1, <1>2

LEMMA CountBucketKeeps ==
  ASSUME CensusInv, NEW t \in Threads, CountBucket(t)
  PROVE  CensusInv'
<1> USE DEF CensusInv
<1>0. In(t, "constructing") /\ ~In(t, "idle")
  BY DEF CountBucket, In
<1> PICK v \in Tokens, b \in SizeBuckets :
      op[t].token = v /\ op[t].bucket = b /\ bucket[v] = Free /\ v # Idle
  BY <1>0, Holding
<1>1. op' = [op EXCEPT ![t].kind = "counted"]
  BY DEF CountBucket, Becomes
<1>2. CensusTypeOK'
  BY <1>0, <1>1 DEF CensusTypeOK, CountBucket, Kinds
<1>3. Owned'
  BY <1>0, <1>1 DEF Owned, In, CensusTypeOK, CountBucket
<1>4. LandedFirst' /\ RegisteredOnceAndLanded'
  BY DEF LandedFirst, RegisteredOnceAndLanded, CountBucket
<1>5. LiveTokens' = LiveTokens
  BY <1>0, <1>1 DEF LiveTokens, IsCounted, Building, In, CensusTypeOK, CountBucket
<1>6. v \notin TokensIn(b) /\ TokensIn(b)' = TokensIn(b) \cup {v}
  BY <1>0, <1>1, CensusSentinels DEF TokensIn, In, CensusTypeOK, CountBucket, Owned
<1>7. \A c \in SizeBuckets \ {b} : TokensIn(c)' = TokensIn(c)
  BY <1>0, <1>1 DEF TokensIn, In, CensusTypeOK, CountBucket
<1>8. CountersMatchTheTokens'
  BY <1>5, <1>6, <1>7, OneCountFollows DEF CountersMatchTheTokens, CountBucket
<1> QED BY <1>2, <1>3, <1>4, <1>8

\* The token handed over, its type known.
LEMMA HandOver ==
  ASSUME CensusInv, NEW t \in Threads, op[t].kind \in {"counted", "interning"},
         bucket' = [bucket EXCEPT ![op[t].token] = op[t].bucket], Done(t),
         UNCHANGED <<live, counts, landed>>,
         published' = TRUE, tracked' = IF published THEN tracked ELSE tracked + 1
  PROVE  CensusInv'
<1> USE DEF CensusInv
<1>0. ~In(t, "idle")
  BY DEF In
<1> PICK v \in Tokens, b \in SizeBuckets :
      op[t].token = v /\ op[t].bucket = b /\ bucket[v] = Free /\ v # Idle
  BY <1>0, Holding
<1>1. op' = [op EXCEPT ![t] = NoOp] /\ bucket' = [bucket EXCEPT ![v] = b]
  BY DEF Done
<1>2. CensusTypeOK'
  BY <1>1 DEF CensusTypeOK, NoOp, Kinds
<1>3. Owned'
  BY <1>1, CensusSentinels DEF Owned, In, CensusTypeOK, NoOp
<1>4. LandedFirst' /\ RegisteredOnceAndLanded'
  BY <1>1 DEF LandedFirst, RegisteredOnceAndLanded, CensusTypeOK, NoOp
<1>5. LiveTokens' = LiveTokens
  BY <1>1, CensusSentinels DEF LiveTokens, IsCounted, Building, CensusTypeOK, NoOp, Owned
<1>6. \A c \in SizeBuckets : TokensIn(c)' = TokensIn(c)
  BY <1>1, CensusSentinels DEF TokensIn, CensusTypeOK, NoOp, Owned
<1> QED BY <1>2, <1>3, <1>4, <1>5, <1>6 DEF CountersMatchTheTokens

LEMMA FindIdKeeps ==
  ASSUME CensusInv, NEW t \in Threads, FindId(t)
  PROVE  CensusInv'
<1>1. CASE published
  <2>1. /\ bucket' = [bucket EXCEPT ![op[t].token] = op[t].bucket] /\ Done(t)
        /\ UNCHANGED <<live, counts, landed>>
        /\ published' = TRUE /\ tracked' = IF published THEN tracked ELSE tracked + 1
    BY <1>1 DEF FindId, slotVars
  <2> QED BY <2>1, HandOver DEF FindId, In
<1>2. CASE ~published
  <2> USE DEF CensusInv
  <2>1. op' = [op EXCEPT ![t].kind = "interning"] /\ In(t, "counted")
        /\ UNCHANGED <<bucket, slotVars>>
    BY <1>2 DEF FindId, Becomes
  <2>2. CensusTypeOK' /\ Owned'
    BY <2>1 DEF CensusTypeOK, Owned, In, Kinds, slotVars
  <2>3. LandedFirst' /\ RegisteredOnceAndLanded'
    BY <2>1 DEF LandedFirst, RegisteredOnceAndLanded, CensusTypeOK, slotVars, In
  <2>4. LiveTokens' = LiveTokens
    BY <2>1 DEF LiveTokens, IsCounted, Building, CensusTypeOK, In
  <2>5. \A c \in SizeBuckets : TokensIn(c)' = TokensIn(c)
    BY <2>1 DEF TokensIn, CensusTypeOK, In
  <2> QED BY <2>1, <2>2, <2>3, <2>4, <2>5 DEF CountersMatchTheTokens, slotVars
<1> QED BY <1>1, <1>2

\* A token that is no instance becomes one nobody counts, or the other way round.
LEMMA UncountedKeeps ==
  ASSUME CensusInv, NEW v \in Tokens, ~InUse(v), NEW b \in {Free, NoBucket},
         bucket[v] \in {Free, NoBucket}, bucket' = [bucket EXCEPT ![v] = b],
         UNCHANGED <<op, slotVars>>
  PROVE  CensusInv'
<1> USE DEF CensusInv, slotVars
<1>1. CensusTypeOK' /\ LandedFirst' /\ RegisteredOnceAndLanded'
  BY DEF CensusTypeOK, LandedFirst, RegisteredOnceAndLanded
<1>2. Owned'
  BY DEF Owned, InUse, In, CensusTypeOK
<1>3. LiveTokens' = LiveTokens
  BY CensusSentinels DEF LiveTokens, IsCounted, Building, CensusTypeOK
<1>4. \A c \in SizeBuckets : TokensIn(c)' = TokensIn(c)
  BY CensusSentinels DEF TokensIn, CensusTypeOK
<1> QED BY <1>1, <1>2, <1>3, <1>4 DEF CountersMatchTheTokens

LEMMA CloneKeeps ==
  ASSUME CensusInv, NEW t \in Threads, NEW v \in Tokens, NEW w \in Tokens, Clone(t, v, w)
  PROVE  CensusInv'
<1>1. CASE bucket[v] = NoBucket
  BY <1>1, UncountedKeeps DEF Clone, slotVars
<1>2. CASE bucket[v] # NoBucket
  <2>1. bucket[v] \in SizeBuckets
    BY <1>2 DEF Clone, CensusInv, CensusTypeOK
  <2> QED BY <1>2, <2>1, BeginBuilding DEF Clone, Quiet
<1> QED BY <1>1, <1>2

LEMMA CloneBucketKeeps ==
  ASSUME CensusInv, NEW t \in Threads, CloneBucket(t)
  PROVE  CensusInv'
<1> USE DEF CensusInv
<1>0. In(t, "cloning") /\ ~In(t, "idle")
  BY DEF CloneBucket, In
<1> PICK v \in Tokens, b \in SizeBuckets :
      op[t].token = v /\ op[t].bucket = b /\ bucket[v] = Free /\ v # Idle
  BY <1>0, Holding
<1>1. op' = [op EXCEPT ![t] = NoOp] /\ bucket' = [bucket EXCEPT ![v] = b]
  BY DEF CloneBucket, Done
<1>2. CensusTypeOK'
  BY <1>1 DEF CensusTypeOK, NoOp, CloneBucket
<1>3. Owned'
  BY <1>1, CensusSentinels DEF Owned, In, CensusTypeOK, NoOp
<1>4. LandedFirst' /\ RegisteredOnceAndLanded'
  BY <1>1 DEF LandedFirst, RegisteredOnceAndLanded, CensusTypeOK, NoOp, CloneBucket
<1>5. LiveTokens' = LiveTokens
  BY <1>0, <1>1, CensusSentinels
  DEF LiveTokens, IsCounted, Building, In, CensusTypeOK, NoOp, Owned
<1>6. v \notin TokensIn(b) /\ TokensIn(b)' = TokensIn(b) \cup {v}
  BY <1>0, <1>1, CensusSentinels DEF TokensIn, In, CensusTypeOK, NoOp, Owned
<1>7. \A c \in SizeBuckets \ {b} : TokensIn(c)' = TokensIn(c)
  BY <1>0, <1>1, CensusSentinels DEF TokensIn, In, CensusTypeOK, NoOp, Owned
<1>8. CountersMatchTheTokens'
  BY <1>5, <1>6, <1>7, OneCountFollows DEF CountersMatchTheTokens, CloneBucket
<1> QED BY <1>2, <1>3, <1>4, <1>8

LEMMA DropKeeps ==
  ASSUME CensusInv, NEW t \in Threads, NEW v \in Tokens, Drop(t, v)
  PROVE  CensusInv'
<1>1. CASE bucket[v] = NoBucket
  BY <1>1, UncountedKeeps DEF Drop, slotVars
<1>2. CASE bucket[v] # NoBucket
  <2> USE DEF CensusInv
  <2> PICK b \in SizeBuckets : bucket[v] = b
    BY <1>2 DEF Drop, CensusTypeOK
  <2>1. /\ op' = [op EXCEPT ![t] = [kind |-> "dropping", token |-> v, bucket |-> b]]
        /\ bucket' = [bucket EXCEPT ![v] = Free] /\ In(t, "idle") /\ ~InUse(v)
        /\ live' = live - 1 /\ UNCHANGED <<counts, published, tracked, landed>>
    BY <1>2 DEF Drop, Doing
  <2>2. CensusTypeOK'
    BY <2>1 DEF CensusTypeOK, Kinds
  <2>3. Owned'
    BY <2>1, CensusSentinels DEF Owned, In, InUse, CensusTypeOK
  <2>4. LandedFirst' /\ RegisteredOnceAndLanded'
    BY <2>1 DEF LandedFirst, RegisteredOnceAndLanded, CensusTypeOK
  <2>5. v \in LiveTokens /\ LiveTokens' = LiveTokens \ {v}
    BY <2>1, CensusSentinels
    DEF LiveTokens, IsCounted, Building, In, InUse, CensusTypeOK
  <2>6. \A c \in SizeBuckets : TokensIn(c)' = TokensIn(c)
    BY <2>1, CensusSentinels DEF TokensIn, In, InUse, CensusTypeOK
  <2>7. CountersMatchTheTokens'
    BY <2>1, <2>5, <2>6, LiveFollows DEF CountersMatchTheTokens, CensusTypeOK
  <2> QED BY <2>2, <2>3, <2>4, <2>7
<1> QED BY <1>1, <1>2

LEMMA DropBucketKeeps ==
  ASSUME CensusInv, NEW t \in Threads, DropBucket(t)
  PROVE  CensusInv'
<1> USE DEF CensusInv
<1>0. In(t, "dropping") /\ ~In(t, "idle")
  BY DEF DropBucket, In
<1> PICK v \in Tokens, b \in SizeBuckets :
      op[t].token = v /\ op[t].bucket = b /\ bucket[v] = Free /\ v # Idle
  BY <1>0, Holding
<1>1. op' = [op EXCEPT ![t] = NoOp] /\ bucket' = bucket
  BY DEF DropBucket, Done
<1>2. CensusTypeOK'
  BY <1>1 DEF CensusTypeOK, NoOp, DropBucket
<1>3. Owned'
  BY <1>1, CensusSentinels DEF Owned, In, CensusTypeOK, NoOp
<1>4. LandedFirst' /\ RegisteredOnceAndLanded'
  BY <1>1 DEF LandedFirst, RegisteredOnceAndLanded, CensusTypeOK, NoOp, DropBucket
<1>5. LiveTokens' = LiveTokens
  BY <1>0, <1>1, CensusSentinels
  DEF LiveTokens, IsCounted, Building, In, CensusTypeOK, NoOp, Owned
<1>6. v \in TokensIn(b) /\ TokensIn(b)' = TokensIn(b) \ {v}
  BY <1>0, <1>1, CensusSentinels DEF TokensIn, In, CensusTypeOK, NoOp, Owned
<1>7. \A c \in SizeBuckets \ {b} : TokensIn(c)' = TokensIn(c)
  BY <1>0, <1>1, CensusSentinels DEF TokensIn, In, CensusTypeOK, NoOp, Owned
<1>8. CountersMatchTheTokens'
  BY <1>5, <1>6, <1>7, OneCountFollows DEF CountersMatchTheTokens, DropBucket
<1> QED BY <1>2, <1>3, <1>4, <1>8

LEMMA CensusInvNext ==
  ASSUME CensusInv, [CensusNext]_censusVars
  PROVE  CensusInv'
<1>1. ASSUME UNCHANGED censusVars PROVE CensusInv'
  BY <1>1 DEF censusVars, slotVars, CensusInv, CensusTypeOK, Owned, LandedFirst, In,
    CountersMatchTheTokens, LiveTokens, TokensIn, IsCounted, Building, RegisteredOnceAndLanded
<1>2. ASSUME NEW t \in Threads, CensusStep(t) PROVE CensusInv'
  <2>1. ASSUME NEW v \in Tokens, NEW size \in Sizes, Construct(t, v, size) PROVE CensusInv'
    <3>1. BucketOf(size) \in SizeBuckets
      BY DEF SizeBuckets
    <3> QED BY <2>1, <3>1, BeginBuilding DEF Construct, Quiet
  <2>2. ASSUME NEW v \in Tokens, ConstructUncounted(t, v) PROVE CensusInv'
    BY <2>2, UncountedKeeps DEF ConstructUncounted
  <2>3. ASSUME Intern(t) PROVE CensusInv'
    BY <2>3, HandOver DEF Intern, In
  <2> QED BY <1>2, <2>1, <2>2, <2>3, CloneKeeps, DropKeeps, CountBucketKeeps, FindIdKeeps,
             CloneBucketKeeps, DropBucketKeeps DEF CensusStep
<1> QED BY <1>1, <1>2 DEF CensusNext

\* The inductive invariant holds throughout, a reading changing nothing it speaks of.
LEMMA CensusInvAlways == Spec => []CensusInv
<1>1. Init => CensusInv
  BY CensusInvInit DEF Init
<1>2. CensusInv /\ [Next]_vars => CensusInv'
  <2>1. [Next]_vars => [CensusNext]_censusVars
    BY DEF Next, vars, Program, BeginReading, ReadBucket, ReadLive, SendReading
  <2> QED BY <2>1, CensusInvNext
<1> QED BY <1>1, <1>2, PTL DEF Spec

\* "Live-instance accounting, exact" (census.rs:1-7): under any number of threads in the
\* middle of anything, and of readings, live is the number of instances there are and
\* each bucket that of the instances of its size.
THEOREM CensusExact == Spec => []CountersMatchTheTokens
<1>1. CensusInv => CountersMatchTheTokens
  BY DEF CensusInv
<1> QED BY <1>1, CensusInvAlways, PTL

\* However many threads intern the type at once, it stands in TYPES once, and no reader
\* sees it there before an instance is counted in full (registry.rs:82-91,
\* census.rs:147-149).
THEOREM CensusRegisteredOnce == Spec => []RegisteredOnceAndLanded
<1>1. CensusInv => RegisteredOnceAndLanded
  BY DEF CensusInv
<1> QED BY <1>1, CensusInvAlways, PTL

-----------------------------------------------------------------------------
(* What a reading may be off by.  Counting and Uncounting are the threads  *)
(* between live and the bucket, on the way up and on the way down.         *)

AtWork(K) == {t \in Threads : op[t].kind \in K}
Counting == AtWork({"constructing", "cloning"})
Uncounting == AtWork({"dropping"})
Up == Cardinality(Counting)
Down == Cardinality(Uncounting)

\* What the buckets would add up to, were those not yet read read now.
Mixed(s, c) == [k \in SizeBuckets |-> IF k \in DOMAIN s THEN s[k] ELSE c[k]]

Held == SumOn(counts, SizeBuckets)
Mix == SumOn(Mixed(seen, counts), SizeBuckets)

ReadSoFar == DOMAIN seen \subseteq SizeBuckets /\ \A k \in DOMAIN seen : seen[k] \in Int

Near(e, n) == -n <= e /\ e <= n

ReadingInv ==
  /\ CensusInv
  /\ landed => SizeBuckets # {}
  /\ Held = live - Up + Down
  /\ reader \in {"off", "buckets", "live", "done"} /\ overlapped \in Nat
  /\ ReadSoFar
  /\ reader = "buckets" => DOMAIN seen # SizeBuckets
  /\ reader = "live" => DOMAIN seen = SizeBuckets
  /\ reader \in {"buckets", "live"} =>
       Near(Mix - (live - Up + Down), overlapped - (Up + Down))
  /\ reader = "done" =>
       /\ DOMAIN reading.sizes = SizeBuckets /\ \A k \in SizeBuckets : reading.sizes[k] \in Int
       /\ reading.live \in Int
       /\ Near(SumOn(reading.sizes, SizeBuckets) - reading.live, overlapped)

LEMMA BucketsAreFinite == IsFiniteSet(SizeBuckets) /\ SizeBuckets \subseteq Nat
<1>1. PICK f : f = [b \in Sizes |-> BucketOf(b)]
  OBVIOUS
<1>2. f \in Surjection(Sizes, SizeBuckets)
  BY <1>1 DEF Surjection, SizeBuckets
<1> QED BY <1>2, CensusFinite, BucketIndexes, FS_Surjection

LEMMA WorkIsFinite ==
  ASSUME NEW K
  PROVE  IsFiniteSet(AtWork(K)) /\ Cardinality(AtWork(K)) \in Nat
BY CensusFinite, FS_Subset, FS_CardinalityType DEF AtWork

\* One thread's operation moves on.
LEMMA WorkMoves ==
  ASSUME CensusTypeOK, NEW t \in Threads, NEW K, NEW x, op' = [op EXCEPT ![t] = x]
  PROVE  Cardinality(AtWork(K)')
           = Cardinality(AtWork(K)) + (IF x.kind \in K THEN 1 ELSE 0)
                                    - (IF op[t].kind \in K THEN 1 ELSE 0)
<1>1. op'[t] = x /\ \A u \in Threads \ {t} : op'[u] = op[u]
  BY DEF CensusTypeOK
<1>2. PICK A, B : A = AtWork(K) /\ B = AtWork(K)'
  OBVIOUS
<1>3. IsFiniteSet(A) /\ Cardinality(A) \in Nat /\ (t \in A <=> op[t].kind \in K)
  BY <1>2, WorkIsFinite DEF AtWork
<1>4. CASE x.kind \in K
  <2>1. B = A \cup {t}
    BY <1>1, <1>2, <1>4 DEF AtWork
  <2>2. Cardinality(B) = IF t \in A THEN Cardinality(A) ELSE Cardinality(A) + 1
    BY <1>3, <2>1, FS_AddElement
  <2> QED BY <1>2, <1>3, <1>4, <2>2
<1>5. CASE x.kind \notin K
  <2>1. B = A \ {t}
    BY <1>1, <1>2, <1>5 DEF AtWork
  <2>2. Cardinality(B) = IF t \in A THEN Cardinality(A) - 1 ELSE Cardinality(A)
    BY <1>3, <2>1, FS_RemoveElement
  <2> QED BY <1>2, <1>3, <1>5, <2>2
<1> QED BY <1>4, <1>5

\* An operation that moves on from one kind to another.
Shift(from, to, K) == (IF to \in K THEN 1 ELSE 0) - (IF from \in K THEN 1 ELSE 0)

Shifts(t, to) ==
  /\ Up' = Up + Shift(op[t].kind, to, {"constructing", "cloning"})
  /\ Down' = Down + Shift(op[t].kind, to, {"dropping"})

LEMMA OperationShifts ==
  ASSUME CensusTypeOK, NEW t \in Threads, NEW x, op' = [op EXCEPT ![t] = x]
  PROVE  Shifts(t, x.kind)
<1>1. ASSUME NEW K
      PROVE  Cardinality(AtWork(K)') = Cardinality(AtWork(K)) + Shift(op[t].kind, x.kind, K)
  <2>1. Cardinality(AtWork(K)) \in Nat
    BY WorkIsFinite
  <2>2. Cardinality(AtWork(K)')
          = Cardinality(AtWork(K)) + (IF x.kind \in K THEN 1 ELSE 0)
                                   - (IF op[t].kind \in K THEN 1 ELSE 0)
    BY WorkMoves
  <2> QED BY <2>1, <2>2 DEF Shift
<1> QED BY <1>1 DEF Shifts, Up, Down, Counting, Uncounting

LEMMA StepShifts ==
  ASSUME CensusTypeOK, NEW t \in Threads, NEW to,
         (Done(t) /\ to = "idle") \/ Becomes(t, to) \/ \E v, b : Doing(t, to, v, b)
  PROVE  Shifts(t, to)
<1>1. CASE Done(t) /\ to = "idle"
  <2>1. PICK x : x = NoOp
    OBVIOUS
  <2>2. op' = [op EXCEPT ![t] = x] /\ x.kind = to
    BY <1>1, <2>1 DEF Done, NoOp
  <2> QED BY <2>2, OperationShifts
<1>2. CASE Becomes(t, to)
  <2>1. PICK x : x = [op[t] EXCEPT !.kind = to]
    OBVIOUS
  <2>2. op' = [op EXCEPT ![t] = x]
    BY <1>2, <2>1 DEF Becomes
  <2>3. x.kind = to
    BY <2>1 DEF CensusTypeOK
  <2> QED BY <2>2, <2>3, OperationShifts
<1>3. CASE \E v, b : Doing(t, to, v, b)
  <2>1. PICK v, b : Doing(t, to, v, b)
    BY <1>3
  <2>2. PICK x : x = [kind |-> to, token |-> v, bucket |-> b]
    OBVIOUS
  <2>3. op' = [op EXCEPT ![t] = x] /\ x.kind = to
    BY <2>1, <2>2 DEF Doing
  <2> QED BY <2>3, OperationShifts
<1> QED BY <1>1, <1>2, <1>3

\* What a step of the program does to the counters and to who is between them.
Begins ==
  \/ live' = live + 1 /\ Up' = Up + 1 /\ Down' = Down
  \/ live' = live - 1 /\ Up' = Up /\ Down' = Down + 1

Lands(b) ==
  /\ live' = live
  /\ \/ counts' = [counts EXCEPT ![b] = @ + 1] /\ Up' = Up - 1 /\ Down' = Down
     \/ counts' = [counts EXCEPT ![b] = @ - 1] /\ Up' = Up /\ Down' = Down - 1

Moves ==
  \/ Begins /\ counts' = counts
  \/ \E b \in SizeBuckets : Lands(b)
  \/ UNCHANGED <<live, counts>> /\ Up' = Up /\ Down' = Down

LEMMA StepMoves ==
  ASSUME CensusInv, NEW t \in Threads, CensusStep(t)
  PROVE  Moves
<1>0. CensusTypeOK /\ Up \in Nat /\ Down \in Nat
  BY WorkIsFinite DEF CensusInv, Up, Down, Counting, Uncounting
<1>1. ASSUME UNCHANGED op PROVE Up' = Up /\ Down' = Down
  BY <1>1 DEF Up, Down, Counting, Uncounting, AtWork
<1>2. ASSUME NEW v \in Tokens, NEW size \in Sizes, Construct(t, v, size) PROVE Moves
  <2>1. op[t].kind = "idle" /\ Doing(t, "constructing", v, BucketOf(size))
        /\ live' = live + 1 /\ counts' = counts
    BY <1>2 DEF Construct, In
  <2>2. Shifts(t, "constructing")
    BY <1>0, <2>1, StepShifts
  <2>3. Up' = Up + 1 /\ Down' = Down
    BY <1>0, <2>1, <2>2 DEF Shifts, Shift
  <2> QED BY <2>1, <2>3 DEF Moves, Begins
<1>3. ASSUME NEW v \in Tokens, ConstructUncounted(t, v) PROVE Moves
  BY <1>1, <1>3 DEF ConstructUncounted, slotVars, Moves
<1>4. ASSUME NEW v \in Tokens, NEW w \in Tokens, Clone(t, v, w) PROVE Moves
  <2>1. CASE bucket[v] = NoBucket
    BY <1>1, <1>4, <2>1 DEF Clone, Moves
  <2>2. CASE bucket[v] # NoBucket
    <3>1. op[t].kind = "idle" /\ Doing(t, "cloning", w, bucket[v])
          /\ live' = live + 1 /\ counts' = counts
      BY <1>4, <2>2 DEF Clone, In
    <3>2. Shifts(t, "cloning")
      BY <1>0, <3>1, StepShifts
    <3>3. Up' = Up + 1 /\ Down' = Down
      BY <1>0, <3>1, <3>2 DEF Shifts, Shift
    <3> QED BY <3>1, <3>3 DEF Moves, Begins
  <2> QED BY <2>1, <2>2
<1>5. ASSUME NEW v \in Tokens, Drop(t, v) PROVE Moves
  <2>1. CASE bucket[v] = NoBucket
    BY <1>1, <1>5, <2>1 DEF Drop, Moves
  <2>2. CASE bucket[v] # NoBucket
    <3>1. op[t].kind = "idle" /\ Doing(t, "dropping", v, bucket[v])
          /\ live' = live - 1 /\ counts' = counts
      BY <1>5, <2>2 DEF Drop, In
    <3>2. Shifts(t, "dropping")
      BY <1>0, <3>1, StepShifts
    <3>3. Up' = Up /\ Down' = Down + 1
      BY <1>0, <3>1, <3>2 DEF Shifts, Shift
    <3> QED BY <3>1, <3>3 DEF Moves, Begins
  <2> QED BY <2>1, <2>2
<1>6. ASSUME CountBucket(t) PROVE Moves
  <2>1. op[t].kind = "constructing" /\ op[t].bucket \in SizeBuckets /\ Becomes(t, "counted")
    BY <1>6 DEF CountBucket, In, CensusInv, Owned
  <2>2. Shifts(t, "counted")
    BY <1>0, <2>1, StepShifts
  <2>3. Up' = Up - 1 /\ Down' = Down
    BY <1>0, <2>1, <2>2 DEF Shifts, Shift
  <2> QED BY <1>6, <2>1, <2>3 DEF CountBucket, Moves, Lands
<1>7. ASSUME CloneBucket(t) PROVE Moves
  <2>1. op[t].kind = "cloning" /\ op[t].bucket \in SizeBuckets /\ Done(t)
    BY <1>7 DEF CloneBucket, In, CensusInv, Owned
  <2>2. Shifts(t, "idle")
    BY <1>0, <2>1, StepShifts
  <2>3. Up' = Up - 1 /\ Down' = Down
    BY <1>0, <2>1, <2>2 DEF Shifts, Shift
  <2> QED BY <1>7, <2>1, <2>3 DEF CloneBucket, Moves, Lands
<1>8. ASSUME DropBucket(t) PROVE Moves
  <2>1. op[t].kind = "dropping" /\ op[t].bucket \in SizeBuckets /\ Done(t)
    BY <1>8 DEF DropBucket, In, CensusInv, Owned
  <2>2. Shifts(t, "idle")
    BY <1>0, <2>1, StepShifts
  <2>3. Up' = Up /\ Down' = Down - 1
    BY <1>0, <2>1, <2>2 DEF Shifts, Shift
  <2> QED BY <1>8, <2>1, <2>3 DEF DropBucket, Moves, Lands
<1>9. ASSUME FindId(t) \/ Intern(t) PROVE Moves
  <2>1. /\ op[t].kind \in {"counted", "interning"} /\ UNCHANGED <<live, counts>>
        /\ Done(t) \/ Becomes(t, "interning")
    BY <1>9 DEF FindId, Intern, In, slotVars
  <2>2. Shifts(t, "idle") \/ Shifts(t, "interning")
    BY <1>0, <2>1, StepShifts
  <2>3. Up' = Up /\ Down' = Down
    BY <1>0, <2>1, <2>2 DEF Shifts, Shift
  <2> QED BY <2>1, <2>3 DEF Moves
<1> QED BY <1>2, <1>3, <1>4, <1>5, <1>6, <1>7, <1>8, <1>9 DEF CensusStep

\* The two sums after a step of the program.
SumsMove ==
  \/ Begins /\ Held' = Held /\ Mix' = Mix
  \/ UNCHANGED live /\ Up' = Up /\ Down' = Down /\ Held' = Held /\ Mix' = Mix
  \/ /\ UNCHANGED live /\ Up' = Up - 1 /\ Down' = Down
     /\ Held' = Held + 1 /\ Mix' \in {Mix, Mix + 1}
  \/ /\ UNCHANGED live /\ Up' = Up /\ Down' = Down - 1
     /\ Held' = Held - 1 /\ Mix' \in {Mix, Mix - 1}

LEMMA NothingMixed ==
  ASSUME CensusTypeOK
  PROVE  /\ Held \in Int /\ SumOn(Mixed(NoBuckets, counts), SizeBuckets) = Held
         /\ DOMAIN NoBuckets = {}
<1>1. /\ \A k \in SizeBuckets : Mixed(NoBuckets, counts)[k] \in Int
                              /\ Mixed(NoBuckets, counts)[k] = counts[k]
      /\ \A k \in SizeBuckets : counts[k] \in Int
      /\ DOMAIN NoBuckets = {}
  BY DEF CensusTypeOK, Mixed, NoBuckets
<1> QED BY <1>1, BucketsAreFinite, SumAgrees, SumIsInt DEF Held

\* A bucket changes by d, and the sums with it: the one of the reading only where the
\* bucket was not read before.
Gains(b, d) == b \in SizeBuckets /\ d \in Int /\ counts' = [counts EXCEPT ![b] = @ + d]
SumsGain(d) == Held' = Held + d /\ Mix \in Int /\ Mix' \in {Mix, Mix + d}

LEMMA OneBucketMoves ==
  ASSUME CensusTypeOK, ReadSoFar, UNCHANGED seen, NEW b, NEW d, Gains(b, d)
  PROVE  SumsGain(d)
<1>1. PICK held, mix, heldAfter, mixAfter :
        /\ held = counts /\ mix = Mixed(seen, counts)
        /\ heldAfter = counts' /\ mixAfter = Mixed(seen, counts)'
  OBVIOUS
<1>2. b \in SizeBuckets /\ d \in Int /\ IsFiniteSet(SizeBuckets)
  BY BucketsAreFinite DEF Gains
<1>3. /\ \A k \in SizeBuckets : held[k] \in Int /\ heldAfter[k] \in Int
      /\ \A k \in SizeBuckets \ {b} : held[k] = heldAfter[k]
      /\ heldAfter[b] = held[b] + d
  BY <1>1 DEF CensusTypeOK, Gains
<1>4. /\ \A k \in SizeBuckets : mix[k] \in Int /\ mixAfter[k] \in Int
      /\ \A k \in SizeBuckets \ {b} : mix[k] = mixAfter[k]
      /\ mixAfter[b] \in {mix[b], mix[b] + d}
  <2>1. mix = [k \in SizeBuckets |-> IF k \in DOMAIN seen THEN seen[k] ELSE held[k]]
    BY <1>1 DEF Mixed
  <2>2. mixAfter = [k \in SizeBuckets |-> IF k \in DOMAIN seen THEN seen[k] ELSE heldAfter[k]]
    BY <1>1 DEF Mixed
  <2> QED BY <1>2, <1>3, <2>1, <2>2 DEF ReadSoFar
<1>5. SumOn(heldAfter, SizeBuckets) = SumOn(held, SizeBuckets) + heldAfter[b] - held[b]
  <2>1. \A k \in SizeBuckets : held[k] \in Int /\ heldAfter[k] \in Int
    BY <1>3
  <2>2. \A k \in SizeBuckets \ {b} : held[k] = heldAfter[k]
    BY <1>3
  <2> QED BY ONLY <1>2, <2>1, <2>2, SumChanges
<1>6. SumOn(mixAfter, SizeBuckets) = SumOn(mix, SizeBuckets) + mixAfter[b] - mix[b]
  BY ONLY <1>2, <1>4, SumChanges
<1>7. SumOn(held, SizeBuckets) \in Int /\ SumOn(mix, SizeBuckets) \in Int
  BY ONLY <1>2, <1>3, <1>4, SumIsInt
<1>8. /\ Held = SumOn(held, SizeBuckets) /\ Held' = SumOn(heldAfter, SizeBuckets)
      /\ Mix = SumOn(mix, SizeBuckets) /\ Mix' = SumOn(mixAfter, SizeBuckets)
  BY <1>1 DEF Held, Mix
<1> QED BY ONLY <1>2, <1>3, <1>4, <1>5, <1>6, <1>7, <1>8 DEF SumsGain

LEMMA MixIsInt ==
  ASSUME CensusTypeOK, ReadSoFar
  PROVE  Mix \in Int
<1>1. PICK mix : mix = Mixed(seen, counts)
  OBVIOUS
<1>2. \A k \in SizeBuckets : mix[k] \in Int
  BY <1>1 DEF CensusTypeOK, ReadSoFar, Mixed
<1>3. SumOn(mix, SizeBuckets) \in Int
  BY ONLY <1>2, BucketsAreFinite, SumIsInt
<1> QED BY <1>1, <1>3 DEF Mix

LEMMA SumsFollow ==
  ASSUME ReadingInv, Moves, UNCHANGED seen
  PROVE  SumsMove
<1>1. CensusTypeOK /\ ReadSoFar
  BY DEF ReadingInv, CensusInv
<1>2. ASSUME counts' = counts PROVE Held' = Held /\ Mix' = Mix
  BY <1>2 DEF Held, Mix
<1>3. ASSUME NEW b \in SizeBuckets, Lands(b) PROVE SumsMove
  <2>1. CASE counts' = [counts EXCEPT ![b] = @ + 1] /\ Up' = Up - 1 /\ Down' = Down
    <3>1. Gains(b, 1)
      BY <2>1 DEF Gains
    <3>2. SumsGain(1)
      BY <1>1, <3>1, OneBucketMoves
    <3> QED BY <1>3, <2>1, <3>2 DEF SumsMove, SumsGain, Lands
  <2>2. CASE counts' = [counts EXCEPT ![b] = @ - 1] /\ Up' = Up /\ Down' = Down - 1
    <3>1. Gains(b, -1)
      <4>1. counts[b] - 1 = counts[b] + (-1) /\ -1 \in Int
        BY <1>1 DEF CensusTypeOK
      <4> QED BY <2>2, <4>1 DEF Gains
    <3>2. SumsGain(-1)
      BY <1>1, <3>1, OneBucketMoves
    <3>3. Held \in Int
      BY <1>1, NothingMixed
    <3>4. Held' = Held - 1 /\ Mix' \in {Mix, Mix - 1}
      BY <3>2, <3>3 DEF SumsGain
    <3> QED BY <1>3, <2>2, <3>4 DEF SumsMove, Lands
  <2> QED BY <1>3, <2>1, <2>2 DEF Lands
<1> QED BY <1>2, <1>3 DEF Moves, SumsMove

LEMMA ReadingInvInit == Init => ReadingInv
<1> SUFFICES ASSUME Init PROVE ReadingInv
  OBVIOUS
<1>1. CensusInv
  BY CensusInvInit DEF Init
<1>2. CensusTypeOK
  BY <1>1 DEF CensusInv
<1>3. Up = 0 /\ Down = 0
  <2>1. Counting = {} /\ Uncounting = {}
    BY DEF Init, CensusInit, NoOp, Counting, Uncounting, AtWork
  <2> QED BY <2>1, FS_EmptySet DEF Up, Down
<1>4. Held = 0
  <2>1. PICK c, none : c = counts /\ none = [b \in {} |-> 0]
    OBVIOUS
  <2>2. /\ \A b \in SizeBuckets : c[b] \in Int
        /\ \A b \in SizeBuckets \ {} : c[b] = 0
        /\ IsFiniteSet(SizeBuckets) /\ {} \in SUBSET SizeBuckets
    BY <2>1, BucketsAreFinite DEF Init, CensusInit
  <2>3. SumOn(c, SizeBuckets) = SumOn(c, {})
    BY ONLY <2>2, SumOverMore
  <2> QED BY <2>1, <2>3, SumOfNone DEF Held
<1>5. ReadSoFar
  BY DEF Init, NoReading, NoBuckets, ReadSoFar
<1> QED BY <1>1, <1>3, <1>4, <1>5 DEF Init, CensusInit, ReadingInv

\* Only an instance whose size has a bucket lands.
LEMMA LandedHasBucket ==
  ASSUME CensusInv, NEW t \in Threads, CensusStep(t), landed'
  PROVE  landed \/ SizeBuckets # {}
<1>1. CASE CountBucket(t)
  BY <1>1 DEF CountBucket, In, CensusInv, Owned
<1>2. CASE ~CountBucket(t)
  BY <1>2 DEF CensusStep, Construct, ConstructUncounted, Clone, Drop, FindId, Intern,
              CloneBucket, DropBucket, slotVars
<1> QED BY <1>1, <1>2

LEMMA ProgramDrifts ==
  ASSUME ReadingInv, Program
  PROVE  ReadingInv'
<1>1. PICK t \in Threads : CensusStep(t)
  BY DEF Program, CensusNext
<1>2. CensusInv /\ CensusInv'
  BY CensusInvNext DEF ReadingInv, Program
<1>3. SumsMove
  BY <1>1, <1>2, StepMoves, SumsFollow DEF Program
<1>4. /\ live \in Int /\ Up \in Nat /\ Down \in Nat /\ Held \in Int /\ overlapped \in Nat
      /\ (reader \in {"buckets", "live"} => Mix \in Int)
  <2>1. CensusTypeOK
    BY <1>2 DEF CensusInv
  <2>2. Up \in Nat /\ Down \in Nat
    BY WorkIsFinite DEF Up, Down, Counting, Uncounting
  <2>3. Mix \in Int
    BY <2>1, MixIsInt DEF ReadingInv
  <2> QED BY <2>1, <2>2, <2>3, NothingMixed DEF ReadingInv, CensusTypeOK
<1>5. landed' => SizeBuckets # {}
  BY <1>1, <1>2, LandedHasBucket DEF ReadingInv
<1>6. UNCHANGED <<reader, seen, reading>>
  BY DEF Program
<1>7. Held' = live' - Up' + Down' /\ overlapped' \in Nat
  BY <1>3, <1>4 DEF SumsMove, Begins, ReadingInv, Program
<1>8. ASSUME reader \in {"buckets", "live"}
      PROVE  Near(Mix' - (live' - Up' + Down'), overlapped' - (Up' + Down'))
  <2>1. Near(Mix - (live - Up + Down), overlapped - (Up + Down))
    BY <1>8 DEF ReadingInv
  <2>2. overlapped' = IF live' # live THEN overlapped + 1 ELSE overlapped
    BY <1>8 DEF Program
  <2> QED BY <1>3, <1>4, <1>8, <2>1, <2>2 DEF SumsMove, Begins, Near
<1>9. reader = "done" => overlapped' = overlapped
  BY DEF Program
<1> QED BY <1>2, <1>5, <1>6, <1>7, <1>8, <1>9 DEF ReadingInv, ReadSoFar, Near

\* At its beginning a reading is off by nothing, the threads half done are all it overlaps.
LEMMA BeginDrifts ==
  ASSUME ReadingInv, BeginReading
  PROVE  ReadingInv'
<1>1. CensusInv /\ CensusInv' /\ UNCHANGED <<live, counts, op, landed, reading>>
  BY CensusInvNext DEF ReadingInv, BeginReading, censusVars, slotVars
<1>2. CensusTypeOK
  BY <1>1 DEF CensusInv
<1>3. Up' = Up /\ Down' = Down /\ Held' = Held
  BY <1>1 DEF Up, Down, Counting, Uncounting, AtWork, Held
<1>4. SizeBuckets # {}
  BY DEF ReadingInv, CensusInv, RegisteredOnceAndLanded, BeginReading
<1>5. overlapped' = Up + Down /\ Up \in Nat /\ Down \in Nat
  <2>1. PICK A, B : A = Counting /\ B = Uncounting
    OBVIOUS
  <2>2. IsFiniteSet(A) /\ IsFiniteSet(B) /\ Up = Cardinality(A) /\ Down = Cardinality(B)
    BY <2>1, WorkIsFinite DEF Up, Down, Counting, Uncounting
  <2>3. A \cap B = {} /\ A \cup B = {t \in Threads : HalfDone(t)}
    BY <2>1 DEF Counting, Uncounting, AtWork, HalfDone
  <2>4. /\ Cardinality(A \cup B) = Cardinality(A) + Cardinality(B) - Cardinality(A \cap B)
        /\ Cardinality(A) \in Nat /\ Cardinality(B) \in Nat
    BY ONLY <2>2, FS_Union, FS_CardinalityType
  <2>5. Cardinality(A \cap B) = 0
    BY <2>3, FS_EmptySet
  <2>6. overlapped' = Cardinality(A \cup B)
    BY <2>3 DEF BeginReading
  <2> QED BY ONLY <2>2, <2>4, <2>5, <2>6
<1>6. seen' = NoBuckets /\ reader' = "buckets"
  BY DEF BeginReading, NoReading
<1>7. Mix' = Held /\ Held \in Int /\ DOMAIN seen' = {}
  BY <1>1, <1>2, <1>6, NothingMixed DEF Mix
<1>8. Near(Mix' - (live' - Up' + Down'), overlapped' - (Up' + Down'))
  BY <1>1, <1>2, <1>3, <1>5, <1>7 DEF ReadingInv, CensusTypeOK, Near
<1> QED BY <1>1, <1>3, <1>4, <1>5, <1>6, <1>7, <1>8 DEF ReadingInv, ReadSoFar

\* A bucket read is one the sum goes on counting as it stood.
LEMMA ReadBucketDrifts ==
  ASSUME ReadingInv, ReadBucket
  PROVE  ReadingInv'
<1>1. CensusInv /\ CensusInv' /\ UNCHANGED <<live, counts, op, landed, reading, overlapped>>
  BY CensusInvNext DEF ReadingInv, ReadBucket, censusVars, slotVars
<1>2. Up' = Up /\ Down' = Down /\ Held' = Held
  BY <1>1 DEF Up, Down, Counting, Uncounting, AtWork, Held
<1>3. PICK b : b = Min(SizeBuckets \ DOMAIN seen)
  OBVIOUS
<1>4. b \in SizeBuckets \ DOMAIN seen
  <2>1. PICK S : S = SizeBuckets \ DOMAIN seen
    OBVIOUS
  <2>2. S \subseteq Nat /\ S # {}
    BY <2>1, BucketsAreFinite DEF ReadingInv, ReadSoFar, ReadBucket
  <2>3. Min(S) \in S
    BY ONLY <2>2, MinIsFirst
  <2> QED BY <1>3, <2>1, <2>3
<1>5. /\ seen' = [k \in DOMAIN seen \cup {b} |-> IF k = b THEN counts[b] ELSE seen[k]]
      /\ reader' = IF DOMAIN seen' = SizeBuckets THEN "live" ELSE "buckets"
      /\ reader = "buckets"
  BY <1>3 DEF ReadBucket
<1>6. ReadSoFar'
  BY <1>1, <1>4, <1>5 DEF ReadingInv, CensusInv, CensusTypeOK, ReadSoFar
<1>7. Mix' = Mix
  <2>1. Mixed(seen, counts)' = Mixed(seen, counts)
    BY <1>1, <1>4, <1>5 DEF Mixed
  <2> QED BY <2>1 DEF Mix
<1>8. reader' \in {"buckets", "live"}
      /\ (reader' = "buckets" => DOMAIN seen' # SizeBuckets)
      /\ (reader' = "live" => DOMAIN seen' = SizeBuckets)
  BY <1>5
<1>9. Near(Mix' - (live' - Up' + Down'), overlapped' - (Up' + Down'))
  BY <1>1, <1>2, <1>5, <1>7 DEF ReadingInv
<1> QED BY <1>1, <1>2, <1>6, <1>8, <1>9 DEF ReadingInv

\* Once every bucket is read, what is left of the drift is the difference from live.
LEMMA ReadLiveDrifts ==
  ASSUME ReadingInv, ReadLive
  PROVE  ReadingInv'
<1>1. CensusInv /\ CensusInv' /\ UNCHANGED <<live, counts, op, landed, seen, overlapped>>
  BY CensusInvNext DEF ReadingInv, ReadLive, censusVars, slotVars
<1>2. Up' = Up /\ Down' = Down /\ Held' = Held
  BY <1>1 DEF Up, Down, Counting, Uncounting, AtWork, Held
<1>3. Up \in Nat /\ Down \in Nat /\ overlapped \in Nat
  BY WorkIsFinite DEF Up, Down, Counting, Uncounting, ReadingInv
<1>4. live \in Nat
  BY <1>1, TokensFinite, FS_CardinalityType DEF CensusInv, CountersMatchTheTokens
<1>5. reading'.sizes = seen /\ reading'.live = Max({live, 0}) /\ reader' = "done"
      /\ reader = "live"
  BY DEF ReadLive
<1>6. Max({live, 0}) = live
  BY <1>4 DEF Max
<1>7. DOMAIN seen = SizeBuckets /\ \A k \in SizeBuckets : seen[k] \in Int
  BY <1>5 DEF ReadingInv, ReadSoFar
<1>8. Mix = SumOn(seen, SizeBuckets) /\ Mix \in Int
  <2>1. PICK mix, s : mix = Mixed(seen, counts) /\ s = seen
    OBVIOUS
  <2>2. \A k \in SizeBuckets : s[k] \in Int /\ s[k] = mix[k]
    BY <1>7, <2>1 DEF Mixed
  <2>3. SumOn(s, SizeBuckets) = SumOn(mix, SizeBuckets)
    BY ONLY <2>2, BucketsAreFinite, SumAgrees
  <2>4. SumOn(s, SizeBuckets) \in Int
    <3>1. \A k \in SizeBuckets : s[k] \in Int
      BY <2>2
    <3> QED BY ONLY <3>1, BucketsAreFinite, SumIsInt
  <2> QED BY <2>1, <2>3, <2>4 DEF Mix
<1>9. Near(SumOn(reading'.sizes, SizeBuckets) - reading'.live, overlapped')
  <2>1. Near(Mix - (live - Up + Down), overlapped - (Up + Down))
    BY <1>5 DEF ReadingInv
  <2>2. Near(Mix - live, overlapped)
    BY <1>3, <1>4, <1>8, <2>1 DEF Near
  <2> QED BY <1>1, <1>5, <1>6, <1>8, <2>2
<1> QED BY <1>1, <1>2, <1>4, <1>5, <1>6, <1>7, <1>9 DEF ReadingInv, ReadSoFar

LEMMA ReadingInvNext ==
  ASSUME ReadingInv, [Next]_vars
  PROVE  ReadingInv'
<1>1. CASE SendReading
  <2>1. CensusInv' /\ UNCHANGED <<live, counts, op, landed>>
    BY <1>1, CensusInvNext DEF ReadingInv, SendReading, censusVars, slotVars
  <2>2. Up' = Up /\ Down' = Down /\ Held' = Held
    BY <2>1 DEF Up, Down, Counting, Uncounting, AtWork, Held
  <2>3. seen' = NoBuckets /\ reader' = "off" /\ overlapped' = 0
    BY <1>1 DEF SendReading, NoReading
  <2>4. ReadSoFar'
    BY <2>3 DEF ReadSoFar, NoBuckets
  <2> QED BY <2>1, <2>2, <2>3, <2>4 DEF ReadingInv
<1>2. CASE UNCHANGED vars
  <2>1. CensusInv' /\ UNCHANGED <<live, counts, op, landed, reader, seen, reading, overlapped>>
    BY <1>2, CensusInvNext DEF ReadingInv, vars, censusVars, slotVars
  <2>2. Up' = Up /\ Down' = Down /\ Held' = Held /\ Mix' = Mix
    BY <2>1 DEF Up, Down, Counting, Uncounting, AtWork, Held, Mix
  <2> QED BY <2>1, <2>2 DEF ReadingInv, ReadSoFar
<1> QED BY <1>1, <1>2, ProgramDrifts, BeginDrifts, ReadBucketDrifts, ReadLiveDrifts DEF Next

\* However long a reading takes and whatever the program does meanwhile, the bytes' histogram
\* is off from the live count by no more than the constructions, clones and drops under way
\* while it was taken (census.rs:95-109, emit.rs:129-137).
THEOREM ReadingsDriftNoFurther == Spec => []DriftIsWhatOverlapped
<1>1. ReadingInv => DriftIsWhatOverlapped
  <2> SUFFICES ASSUME ReadingInv, reader = "done"
               PROVE  Distance(SumOver(reading.sizes), reading.live) <= overlapped
    BY DEF DriftIsWhatOverlapped
  <2>1. PICK sizes : sizes = reading.sizes
    OBVIOUS
  <2>2. DOMAIN sizes = SizeBuckets /\ \A k \in SizeBuckets : sizes[k] \in Int
    BY <2>1 DEF ReadingInv
  <2>3. SumOn(sizes, SizeBuckets) \in Int
    BY ONLY <2>2, BucketsAreFinite, SumIsInt
  <2>4. SumOver(sizes) = SumOn(sizes, SizeBuckets)
    BY <2>2 DEF SumOver, SumOn
  <2>5. /\ reading.live \in Int /\ overlapped \in Nat
        /\ Near(SumOn(sizes, SizeBuckets) - reading.live, overlapped)
    BY <2>1 DEF ReadingInv
  <2> QED BY <2>1, <2>3, <2>4, <2>5 DEF Near, Distance
<1> QED BY <1>1, ReadingInvInit, ReadingInvNext, PTL DEF Spec

=============================================================================
