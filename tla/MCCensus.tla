------------------------------ MODULE MCCensus ------------------------------
(***************************************************************************)
(* The census under reading, for TLC, over the real bucket layout; and     *)
(* that layout and the probe's Samples checked, over bounded inputs,       *)
(* against what they are for.                                              *)
(***************************************************************************)
EXTENDS CensusReading, TLC

CONSTANTS MaxValue       \* bound: the values the layout is checked over

Symmetric == Permutations(Threads) \cup Permutations(Tokens)
-----------------------------------------------------------------------------
\* Every value lies in the range of its own bucket, the ranges tile the numbers, and
\* a midpoint is off by at most 1/32 of the value (dist.rs:25-46).
ASSUME BucketsTileTheNumbers ==
  /\ \A v \in 0..MaxValue :
       LET range == BucketRange(BucketOf(v)) IN range[1] <= v /\ v <= range[2]
  /\ \A v \in 1..MaxValue : BucketOf(v) \in {BucketOf(v - 1), BucketOf(v - 1) + 1}
  /\ \A i \in 0..BucketOf(MaxValue) : BucketRange(i + 1)[1] = BucketRange(i)[2] + 1
  /\ \A v \in 0..MaxValue : 32 * Distance(Midpoint(BucketOf(v)), v) <= v

SampleValues == {0, 31, 32, 33, 1000}
SampleLists == UNION {[1..n -> SampleValues] : n \in 0..(MaxRawSamples + 1)}
Recorded(values) == FoldSeq(LAMBDA v, s : SamplesAdd(s, v), NoSamples, values)

\* However the calls of a window were spread over threads, and whichever of the two
\* encodings the cap led to, the daemon folds the same histogram, of as many calls
\* (calls.rs:316-368, dist.rs:73-103).
ASSUME SplitSamplesAddUp ==
  \A a, b \in SampleLists :
    LET dist == IntoDist(SamplesAbsorb(Recorded(a), Recorded(b)))
    IN /\ ToBuckets(dist) = OfValues(a \o b)
       /\ DistCount(dist) = Len(a) + Len(b)

\* A total rebuilt from buckets, of bytes as of nanoseconds, is within 1/32 of what
\* was put in, "exact below 32 bytes and within 3.2% above it" (census.rs:112-116,
\* store.rs:411-424).
ASSUME TotalsWithinError ==
  \A a \in SampleLists :
    LET put == FoldSeq(+, 0, a)
        total == Total(OfValues(a))
    IN /\ 32 * Distance(total, put) <= put
       /\ (\A i \in DOMAIN a : a[i] < 32) => total = put
       /\ 32 * Distance(DurationTotal(IntoDist(Recorded(a))), put) <= put
=============================================================================
