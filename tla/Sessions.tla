------------------------------ MODULE Sessions ------------------------------
(***************************************************************************)
(* Pairing the emitters of one running program                             *)
(* (crates/lightwatch-daemon/src/session.rs), and the session the web page *)
(* shows (web/app.js).  A pure fold over the registry: a member is what    *)
(* the registry says of one process id.                                    *)
(***************************************************************************)
EXTENDS Integers, SequencesExt

CONSTANTS Tolerance,    \* SAME_RUN_TOLERANCE_MS
          NoMember      \* a half no emitter fills

ASSUME ToleranceIsATime == Tolerance \in Nat

FeedNames == {"cpu", "memory"}

\* A source of its own kind takes the census, every other is a timing feed.
FeedOf(source) == IF source = "lightwatch-probe" THEN "memory" ELSE "cpu"

\* Registry::all lists the processes in the order of their ids.
Member(process, source, started, connected) ==
  [process |-> process, feed |-> FeedOf(source), started |-> started, connected |-> connected]

ByStart(members) ==
  SetToSortSeq(members, LAMBDA a, b :
    a.started < b.started \/ (a.started = b.started /\ a.process < b.process))

\* A start far from the one before it is another run of a recycled pid.
RunsOf(members) ==
  FoldLeft(LAMBDA runs, m :
             IF runs # << >> /\ m.started - Last(Last(runs)).started <= Tolerance
               THEN [runs EXCEPT ![Len(runs)] = Append(@, m)]
               ELSE Append(runs, <<m>>),
           << >>, ByStart(members))

\* A live emitter beats a dead one, then the newest start; between equals the held.
Outranks(held, candidate) ==
  IF held.connected = candidate.connected THEN held.started >= candidate.started
  ELSE held.connected

Speaker(run, feed) ==
  FoldLeft(LAMBDA held, m :
             IF m.feed # feed THEN held
             ELSE IF held # NoMember /\ Outranks(held, m) THEN held ELSE m,
           NoMember, run)

MembersOf(session) == {session.cpu, session.memory} \ {NoMember}
IsConnected(session) == \E m \in MembersOf(session) : m.connected
StartedAt(session) ==
  CHOOSE s \in {m.started : m \in MembersOf(session)} :
    \A m \in MembersOf(session) : s <= m.started

\* The id is the target and the earliest start any of its members reported.
SessionOf(target, run) ==
  LET cpu == Speaker(run, "cpu")
      memory == Speaker(run, "memory")
  IN [id |-> <<target, run[1].started>>, cpu |-> cpu, memory |-> memory,
      superseded |-> {run[i] : i \in DOMAIN run} \ {cpu, memory}]

\* byTarget: for each (app, pid) its members.
SessionsOf(byTarget) ==
  UNION {LET runs == RunsOf(byTarget[target])
         IN {SessionOf(target, runs[i]) : i \in DOMAIN runs} : target \in DOMAIN byTarget}

\* Newest first, then by id.
PairSessions(byTarget) ==
  SetToSortSeq(SessionsOf(byTarget), LAMBDA a, b :
    \/ StartedAt(a) > StartedAt(b)
    \/ StartedAt(a) = StartedAt(b) /\ a.id[1] < b.id[1])

Find(sessions, id) == SelectSeq(sessions, LAMBDA s : s.id = id)

\* What a client is told of them, as far as the page reads it.
MemberJson(m) ==
  IF m = NoMember THEN NoMember ELSE [process |-> m.process, connected |-> m.connected]

SessionJson(session) ==
  [id |-> session.id, connected |-> IsConnected(session),
   cpu |-> MemberJson(session.cpu), memory |-> MemberJson(session.memory),
   superseded |-> {MemberJson(m) : m \in session.superseded}]

SessionList(sessions) == [i \in DOMAIN sessions |-> SessionJson(sessions[i])]

\* chooseSession: the one asked for, else a live one, else the newest.
Chosen(list, chosenId) ==
  Find(list, chosenId) \o SelectSeq(list, LAMBDA s : s.connected) \o list

\* shapeOf: what it would take another attach to follow.
ShapeOf(session) ==
  [feed \in {f \in FeedNames : session[f] # NoMember} |-> session[feed].process]
=============================================================================
