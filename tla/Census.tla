------------------------------- MODULE Census -------------------------------
(***************************************************************************)
(* The live-instance accounting of one tracked type                        *)
(* (crates/lightwatch-probe/src/census.rs): threads construct, clone and   *)
(* drop tokens, the emit thread reads the counters.  Every atomic access   *)
(* is a step of its own; the order in which other threads see two relaxed  *)
(* accesses is taken to be the order of the code.                          *)
(***************************************************************************)
EXTENDS Dist

CONSTANTS Threads, Tokens,   \* the program's threads; room for live instances
          Sizes,             \* what bytes() may answer
          NoBucket,          \* an instance that is not counted
          Free, Idle         \* no instance; no operation

\* The counters of TypeSlot.buckets that these sizes reach; the others stay at zero.
SizeBuckets == {BucketOf(b) : b \in Sizes}

ASSUME CensusSentinels ==
  /\ {NoBucket, Free} \cap SizeBuckets = {} /\ Free # NoBucket
  /\ Idle \notin Tokens
ASSUME CensusFinite ==
  /\ IsFiniteSet(Threads) /\ IsFiniteSet(Tokens)
  /\ Sizes \subseteq Nat /\ IsFiniteSet(Sizes)
\* bucket_of answers an index (dist.rs:25).
ASSUME BucketIndexes == SizeBuckets \subseteq Nat

VARIABLES bucket,    \* per token: Census.bucket, Free where there is none
          op,        \* per thread: the operation it is in
          live, counts,      \* TypeSlot.live, TypeSlot.buckets
          published, tracked, \* TypeSlot.id is set; times it stands in TYPES
          landed             \* history: an instance has both its counters

slotVars == <<live, counts, published, tracked, landed>>
censusVars == <<bucket, op, slotVars>>

NoOp == [kind |-> "idle", token |-> Idle, bucket |-> NoBucket]

CensusInit ==
  /\ bucket = [v \in Tokens |-> Free]
  /\ op = [t \in Threads |-> NoOp]
  /\ live = 0 /\ counts = [b \in SizeBuckets |-> 0]
  /\ published = FALSE /\ tracked = 0 /\ landed = FALSE

Becomes(t, kind) == op' = [op EXCEPT ![t].kind = kind]
In(t, kind) == op[t].kind = kind
Done(t) == op' = [op EXCEPT ![t] = NoOp]
Doing(t, kind, v, b) == op' = [op EXCEPT ![t] = [kind |-> kind, token |-> v, bucket |-> b]]

\* A token somebody is building, copying or dropping.
InUse(v) == \E t \in Threads : op[t].token = v

-----------------------------------------------------------------------------
(* Census::from_bytes.  The token exists from its first counter on.        *)

\* The type named before its first instance is counted.
ConstructNamed(t, v, size) ==
  /\ In(t, "idle") /\ bucket[v] = Free /\ ~InUse(v)
  /\ live' = live + 1
  /\ published' = TRUE /\ tracked' = IF published THEN tracked ELSE tracked + 1
  /\ Doing(t, "constructing", v, BucketOf(size))
  /\ UNCHANGED <<bucket, counts, landed>>

Construct(t, v, size) ==
  /\ In(t, "idle") /\ bucket[v] = Free /\ ~InUse(v)
  /\ live' = live + 1
  /\ Doing(t, "constructing", v, BucketOf(size))
  /\ UNCHANGED <<bucket, counts, published, tracked, landed>>

CountBucket(t) ==
  /\ In(t, "constructing")
  /\ counts' = [counts EXCEPT ![op[t].bucket] = @ + 1]
  /\ landed' = TRUE
  /\ Becomes(t, "counted")
  /\ UNCHANGED <<bucket, live, published, tracked>>

\* TypeSlot::id, answered without the lock once the id is out.
FindId(t) ==
  /\ In(t, "counted")
  /\ IF published
       THEN bucket' = [bucket EXCEPT ![op[t].token] = op[t].bucket] /\ Done(t)
       ELSE bucket' = bucket /\ Becomes(t, "interning")
  /\ UNCHANGED slotVars

\* Pushing without the second look.
InternAgain(t) ==
  /\ In(t, "interning")
  /\ tracked' = tracked + 1
  /\ published' = TRUE
  /\ bucket' = [bucket EXCEPT ![op[t].token] = op[t].bucket]
  /\ Done(t)
  /\ UNCHANGED <<live, counts, landed>>

\* intern_type, under the TYPES lock.
Intern(t) ==
  /\ In(t, "interning")
  /\ tracked' = IF published THEN tracked ELSE tracked + 1
  /\ published' = TRUE
  /\ bucket' = [bucket EXCEPT ![op[t].token] = op[t].bucket]
  /\ Done(t)
  /\ UNCHANGED <<live, counts, landed>>

\* Census::UNCOUNTED, to be overwritten once the value is whole.
ConstructUncounted(t, v) ==
  /\ In(t, "idle") /\ bucket[v] = Free /\ ~InUse(v)
  /\ bucket' = [bucket EXCEPT ![v] = NoBucket]
  /\ UNCHANGED <<op, slotVars>>

(* Clone: another instance of the same size; a copy of nothing is nothing. *)
(* The original is read at once and not needed after that.                 *)

\* The copy of an uncounted token counted.
CloneCounting(t, v, w) ==
  /\ In(t, "idle") /\ bucket[v] # Free /\ bucket[w] = Free /\ ~InUse(v) /\ ~InUse(w)
  /\ live' = live + 1
  /\ IF bucket[v] = NoBucket
       THEN bucket' = [bucket EXCEPT ![w] = NoBucket] /\ op' = op
       ELSE bucket' = bucket /\ Doing(t, "cloning", w, bucket[v])
  /\ UNCHANGED <<counts, published, tracked, landed>>

Clone(t, v, w) ==
  /\ In(t, "idle") /\ bucket[v] # Free /\ bucket[w] = Free /\ ~InUse(v) /\ ~InUse(w)
  /\ IF bucket[v] = NoBucket
       THEN bucket' = [bucket EXCEPT ![w] = NoBucket] /\ UNCHANGED <<op, live>>
       ELSE bucket' = bucket /\ Doing(t, "cloning", w, bucket[v]) /\ live' = live + 1
  /\ UNCHANGED <<counts, published, tracked, landed>>

CloneBucket(t) ==
  /\ In(t, "cloning")
  /\ counts' = [counts EXCEPT ![op[t].bucket] = @ + 1]
  /\ bucket' = [bucket EXCEPT ![op[t].token] = op[t].bucket]
  /\ Done(t)
  /\ UNCHANGED <<live, published, tracked, landed>>

(* Drop.                                                                   *)

Drop(t, v) ==
  /\ In(t, "idle") /\ bucket[v] # Free /\ ~InUse(v)
  /\ bucket' = [bucket EXCEPT ![v] = Free]
  /\ IF bucket[v] = NoBucket THEN UNCHANGED <<op, live>>
     ELSE live' = live - 1 /\ Doing(t, "dropping", v, bucket[v])
  /\ UNCHANGED <<counts, published, tracked, landed>>

DropBucket(t) ==
  /\ In(t, "dropping")
  /\ counts' = [counts EXCEPT ![op[t].bucket] = @ - 1]
  /\ Done(t)
  /\ UNCHANGED <<bucket, live, published, tracked, landed>>

CensusStep(t) ==
  \/ \E v \in Tokens :
       \/ \E size \in Sizes : Construct(t, v, size)
       \/ ConstructUncounted(t, v)
       \/ \E w \in Tokens : Clone(t, v, w)
       \/ Drop(t, v)
  \/ CountBucket(t) \/ FindId(t) \/ Intern(t) \/ CloneBucket(t) \/ DropBucket(t)

CensusNext == \E t \in Threads : CensusStep(t)
CensusSpec == CensusInit /\ [][CensusNext]_censusVars

-----------------------------------------------------------------------------
IsCounted(v) == bucket[v] \notin {Free, NoBucket}
Building(t) == op[t].kind \in {"constructing", "counted", "interning", "cloning"}

\* The instances live stands for, and those bucket b stands for.
LiveTokens == {v \in Tokens : IsCounted(v) \/ \E t \in Threads : Building(t) /\ op[t].token = v}
TokensIn(b) ==
  {v \in Tokens :
     \/ bucket[v] = b
     \/ \E t \in Threads : /\ op[t].kind \in {"counted", "interning", "dropping"}
                           /\ op[t].token = v /\ op[t].bucket = b}

\* "Live-instance accounting, exact" (census.rs:1-7): whatever the threads are in the
\* middle of, each counter is the number of the instances it stands for; in
\* particular none is ever negative and nothing drifts over a long run.
CountersMatchTheTokens ==
  /\ live = Cardinality(LiveTokens)
  /\ \A b \in SizeBuckets : counts[b] = Cardinality(TokensIn(b))

\* The slot stands once in TYPES, and only after an instance was counted in full
\* (registry.rs:82-91, census.rs:147-149): "so the emit thread never sees a
\* registered type whose first instance has not landed yet".
RegisteredOnceAndLanded ==
  /\ tracked = (IF published THEN 1 ELSE 0)
  /\ published => landed
=============================================================================
