-------------------------------- MODULE Ring --------------------------------
(***************************************************************************)
(* The daemon's ring of time windows (crates/lightwatch-daemon/src/ring.rs)*)
(* as a value: a sequence of windows, oldest first, and operators for what *)
(* the code does to it.  A window is its index and its data; what the data *)
(* is belongs to the module that uses the ring.                            *)
(***************************************************************************)
EXTENDS Naturals, Sequences, SequencesExt

\* One contiguous stretch of time, oldest first.
Contiguous(ring) == \A i \in DOMAIN ring : ring[i].index = ring[1].index + i - 1

IsRing(ring, cap) == Len(ring) <= cap /\ Contiguous(ring)

\* The window whose start is nearest instead of the one t falls in.
IndexOfNearest(t, resolution) == (t + resolution \div 2) \div resolution

IndexOf(t, resolution) == t \div resolution

Window(index, empty) == [index |-> index, data |-> empty]

Oldest(ring) == ring[1].index
Newest(ring) == ring[Len(ring)].index

\* Every window between the newest one and index, then index itself.
Extended(ring, index, empty) ==
  ring \o [i \in 1..(index - Newest(ring)) |-> Window(Newest(ring) + i, empty)]

\* The oldest windows popped while there are more than cap.
Trimmed(ring, cap) ==
  IF Len(ring) <= cap THEN ring ELSE SubSeq(ring, Len(ring) - cap + 1, Len(ring))

\* Only the window asked for pushed, leaving a hole where the idle ones belong.
WindowForWithHole(ring, index, cap, empty) ==
  IF ring = << >> THEN <<Window(index, empty)>>
  ELSE IF index > Newest(ring) THEN Trimmed(Append(ring, Window(index, empty)), cap)
  ELSE ring

\* The ring after window_for: the window exists unless it is older than all held.
WindowFor(ring, index, cap, empty) ==
  IF ring = << >> THEN <<Window(index, empty)>>
  ELSE IF index <= Newest(ring) THEN ring
  ELSE IF index - Newest(ring) >= cap THEN <<Window(index, empty)>>
  ELSE Trimmed(Extended(ring, index, empty), cap)

Retains(ring, index) ==
  ring # << >> /\ Oldest(ring) <= index /\ index <= Newest(ring)

\* Where window index stands in a ring that retains it.
Slot(ring, index) == index - Oldest(ring) + 1

Data(ring, index) == ring[Slot(ring, index)].data
=============================================================================
