------------------------------ MODULE Delivery ------------------------------
(***************************************************************************)
(* What becomes of the windows a probe drains, seen from outside: each is  *)
(* shown by a daemon at most once, or it is lost, and never both.          *)
(***************************************************************************)
EXTENDS Naturals, Sequences

CONSTANT Windows

VARIABLES outcome,   \* per window: "open", "underway", "shown" or "lost"
          log        \* the windows daemons have shown, in order

deliveryVars == <<outcome, log>>

Init ==
  /\ outcome = [w \in Windows |-> "open"]
  /\ log = << >>

\* The probe drains what it measured, whether or not anybody listens.
Take(w) ==
  /\ outcome[w] = "open"
  /\ outcome' = [outcome EXCEPT ![w] = "underway"]
  /\ UNCHANGED log

Show(w) ==
  /\ outcome[w] = "underway"
  /\ outcome' = [outcome EXCEPT ![w] = "shown"]
  /\ log' = Append(log, w)

\* A failed send loses one window; a daemon that dies loses all it has not read.
Lose ==
  /\ outcome' \in [Windows -> {"open", "underway", "shown", "lost"}]
  /\ \A w \in Windows : outcome'[w] # outcome[w] =>
       outcome[w] = "underway" /\ outcome'[w] = "lost"
  /\ UNCHANGED log

Next == (\E w \in Windows : Take(w) \/ Show(w)) \/ Lose

Spec == Init /\ [][Next]_deliveryVars

\* No window stays on its way for ever.
Resolved == \A w \in Windows : outcome[w] = "underway" ~> outcome[w] \in {"shown", "lost"}

LiveSpec == Spec /\ Resolved
=============================================================================
