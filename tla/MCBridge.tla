------------------------------ MODULE MCBridge ------------------------------
(***************************************************************************)
(* The bridge for TLC, and what it makes of a window's duration checked    *)
(* over bounded inputs.                                                    *)
(***************************************************************************)
EXTENDS Bridge

CONSTANTS MaxDelta       \* bound: the durations tried

\* "The distribution must cover every call" or, where the printed total did not move,
\* none; and the time it stands for is the time that passed, short by less than one
\* unit a call and long by at most 1/32 (bridge.rs:113-127).
ASSUME DurationCoversTheCalls ==
  \A delta \in 0..MaxDelta, count \in 1..5 :
    LET d == WindowDuration(delta, count)
    IN /\ DistCount(d) = IF delta = 0 THEN 0 ELSE count
       /\ 32 * DurationTotal(d) <= 33 * delta
       /\ 33 * (DurationTotal(d) + count) > 32 * delta
=============================================================================
