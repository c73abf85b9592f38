-------------------------------- MODULE Dist --------------------------------
(***************************************************************************)
(* Log-linear buckets and the two encodings of a distribution              *)
(* (crates/lightwatch-proto/src/dist.rs), with the probe's growing form of *)
(* one, Samples (crates/lightwatch-probe/src/calls.rs:298-368).  A sparse, *)
(* sorted bucket list without repetition is a function from its indices.   *)
(***************************************************************************)
EXTENDS Integers, SequencesExt

CONSTANTS WordBits,        \* 64
          SubBits,         \* SUB_BITS, four
          MaxRawSamples    \* MAX_RAW_SAMPLES

ASSUME DistSizes ==
  /\ WordBits \in Nat \ {0} /\ SubBits \in Nat /\ MaxRawSamples \in Nat
  /\ SubBits + 1 < WordBits

SubBuckets == 2 ^ SubBits
LinearLimit == 2 ^ (SubBits + 1)

\* 63 minus the leading zeros.
Octave(v) == CHOOSE k \in 0..(WordBits - 1) : 2 ^ k <= v /\ v < 2 ^ (k + 1)

BucketOf(v) ==
  IF v < LinearLimit THEN v
  ELSE LET octave == Octave(v)
           sub == v \div 2 ^ (octave - SubBits) - SubBuckets
       IN LinearLimit + (octave - SubBits - 1) * SubBuckets + sub

BucketRange(index) ==
  IF index < LinearLimit THEN <<index, index>>
  ELSE LET j == index - LinearLimit
           width == 2 ^ (1 + j \div SubBuckets)
           lo == (SubBuckets + (j % SubBuckets)) * width
       IN <<lo, lo + width - 1>>

Midpoint(index) ==
  LET range == BucketRange(index) IN range[1] + (range[2] - range[1]) \div 2

(* Histograms.                                                             *)

NoBuckets == [i \in {} |-> 0]
Count(hist, i) == IF i \in DOMAIN hist THEN hist[i] ELSE 0
Counted(hist, i, n) == [k \in DOMAIN hist \cup {i} |-> Count(hist, k) + IF k = i THEN n ELSE 0]
Merged(a, b) == [k \in DOMAIN a \cup DOMAIN b |-> Count(a, k) + Count(b, k)]
OfValues(values) == FoldSeq(LAMBDA v, hist : Counted(hist, BucketOf(v), 1), NoBuckets, values)

\* What a histogram adds up to, each bucket standing at its midpoint.
Total(hist) ==
  FoldSet(LAMBDA i, sum : sum + Midpoint(i) * hist[i], 0, DOMAIN hist)

(* Dist: on the wire, buckets may come unsorted and repeated.              *)

Raw(values) == [enc |-> "raw", v |-> values]
Buckets(pairs) == [enc |-> "buckets", b |-> pairs]

ToBuckets(dist) ==
  IF dist.enc = "raw" THEN OfValues(dist.v)
  ELSE FoldSeq(LAMBDA pair, hist : Counted(hist, pair[1], pair[2]), NoBuckets, dist.b)

DistCount(dist) ==
  IF dist.enc = "raw" THEN Len(dist.v)
  ELSE FoldSeq(LAMBDA pair, n : n + pair[2], 0, dist.b)

\* What the daemon adds to a function's time.
DurationTotal(dist) ==
  IF dist.enc = "raw" THEN FoldSeq(LAMBDA v, sum : v + sum, 0, dist.v)
  ELSE Total(ToBuckets(dist))

(* Samples: raw values while they are few, buckets from then on.           *)

NoSamples == [raw |-> TRUE, values |-> << >>]
InBuckets(hist) == [raw |-> FALSE, buckets |-> hist]

IntoBuckets(samples) == IF samples.raw THEN OfValues(samples.values) ELSE samples.buckets

SamplesAdd(samples, value) ==
  IF samples.raw /\ Len(samples.values) < MaxRawSamples
    THEN [samples EXCEPT !.values = Append(@, value)]
    ELSE InBuckets(Counted(IntoBuckets(samples), BucketOf(value), 1))

SamplesAbsorb(mine, theirs) ==
  IF /\ mine.raw /\ theirs.raw
     /\ Len(mine.values) + Len(theirs.values) <= MaxRawSamples
    THEN [mine EXCEPT !.values = @ \o theirs.values]
    ELSE InBuckets(Merged(IntoBuckets(mine), IntoBuckets(theirs)))

IntoDist(samples) ==
  IF samples.raw THEN Raw(samples.values)
  ELSE Buckets(LET b == samples.buckets
               IN [k \in 1..Cardinality(DOMAIN b) |->
                     LET i == SetToSortSeq(DOMAIN b, <)[k] IN <<i, b[i]>>])
=============================================================================
