------------------------------- MODULE MCFeed -------------------------------
(***************************************************************************)
(* The page and the daemon for TLC.  Three emitters of one pid: a bridge   *)
(* and a probe too far apart to be one run, and a second bridge started    *)
(* between them, which joins the two into one session.                     *)
(***************************************************************************)
EXTENDS Feed

OneTarget == [p \in Processes |-> "demo"]
Sources == <<"bridge", "bridge", "lightwatch-probe">>
Starts == <<5, 3, 1>>

\* Up to three emitters of a pid, any of them live, on any side of the tolerance.
TestMembers ==
  {{Member(p, sources[p], starts[p], p \in live) : p \in among} :
     among \in SUBSET (1..3), sources \in [1..3 -> {"bridge", "lightwatch-probe"}],
     starts \in [1..3 -> {0, Tolerance, 2 * Tolerance, 3 * Tolerance + 1}],
     live \in SUBSET (1..3)}

\* Every emitter is in one session, told or superseded; no two sessions share an id; a
\* half is never a dead emitter's while a live one of the run could fill it; the newest
\* run comes first (session.rs:102-106, 146-151, 163-170).
ASSUME SessionsTellEveryEmitter ==
  \A members \in TestMembers :
    LET told == PairSessions([target \in {"demo"} |-> members])
        all(s) == MembersOf(s) \cup s.superseded
    IN /\ UNION {all(told[i]) : i \in DOMAIN told} = members
       /\ \A i, j \in DOMAIN told : i < j =>
            /\ all(told[i]) \cap all(told[j]) = {}
            /\ told[i].id # told[j].id
            /\ StartedAt(told[i]) >= StartedAt(told[j])
       /\ \A i \in DOMAIN told : \A m \in told[i].superseded :
            /\ m \notin MembersOf(told[i])
            /\ told[i][m.feed] # NoMember
            /\ m.connected => told[i][m.feed].connected
=============================================================================
