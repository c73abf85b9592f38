--------------------------- MODULE CensusReading ----------------------------
(***************************************************************************)
(* The emit thread's reading of a tracked type while the program goes on   *)
(* (crates/lightwatch-probe/src/emit.rs:129-137): the buckets one by one,  *)
(* then live.  The bytes estimated from the buckets are Dist's Total.      *)
(***************************************************************************)
EXTENDS Census

CONSTANTS MaxOverlapped     \* bound: operations counted during one reading

ASSUME OverlappedBound == MaxOverlapped \in Nat

VARIABLES reader,    \* "off", "buckets", "live", "done"
          seen,      \* the buckets read so far
          reading,   \* the census event: live and sizes
          overlapped \* history: operations the reading overlapped

vars == <<censusVars, reader, seen, reading, overlapped>>

NoReading == [live |-> 0, sizes |-> NoBuckets]
SumOver(f) == MapThenSumSet(LAMBDA i : f[i], DOMAIN f)

Init ==
  /\ CensusInit
  /\ reader = "off" /\ seen = NoReading.sizes /\ reading = NoReading /\ overlapped = 0

\* One of its two counters is changed, the other is not.
HalfDone(t) == op[t].kind \in {"constructing", "cloning", "dropping"}

\* An operation begins where it changes live.
Program ==
  /\ CensusNext
  /\ overlapped' =
       IF reader \in {"buckets", "live"} /\ live' # live THEN overlapped + 1 ELSE overlapped
  /\ overlapped' <= MaxOverlapped
  /\ UNCHANGED <<reader, seen, reading>>

\* tracked_types lists the type, and its reading begins.
BeginReading ==
  /\ reader = "off" /\ tracked > 0
  /\ reader' = "buckets" /\ seen' = NoReading.sizes
  /\ overlapped' = Cardinality({t \in Threads : HalfDone(t)})
  /\ UNCHANGED <<censusVars, reading>>

ReadBucket ==
  /\ reader = "buckets"
  /\ LET b == Min(SizeBuckets \ DOMAIN seen)
     IN /\ seen' = [k \in DOMAIN seen \cup {b} |-> IF k = b THEN counts[b] ELSE seen[k]]
        /\ reader' = IF DOMAIN seen' = SizeBuckets THEN "live" ELSE "buckets"
  /\ UNCHANGED <<censusVars, reading, overlapped>>

ReadLive ==
  /\ reader = "live"
  /\ reading' = [live |-> Max({live, 0}), sizes |-> seen]
  /\ reader' = "done"
  /\ UNCHANGED <<censusVars, seen, overlapped>>

SendReading ==
  /\ reader = "done"
  /\ reader' = "off" /\ reading' = NoReading /\ seen' = NoReading.sizes /\ overlapped' = 0
  /\ UNCHANGED censusVars

Next == Program \/ BeginReading \/ ReadBucket \/ ReadLive \/ SendReading

Spec == Init /\ [][Next]_vars
-----------------------------------------------------------------------------
Distance(a, b) == IF a < b THEN b - a ELSE a - b

\* A reading is not atomic: its histogram and its live count may disagree, but by no
\* more than one instance for each construction, clone or drop that was under way
\* while it was taken (census.rs:95-109, emit.rs:129-137).
DriftIsWhatOverlapped ==
  reader = "done" => Distance(SumOver(reading.sizes), reading.live) <= overlapped
=============================================================================
