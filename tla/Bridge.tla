------------------------------- MODULE Bridge -------------------------------
(***************************************************************************)
(* lightwatch-hotpath: a thread polls the metrics server of a profiled     *)
(* process and writes the difference of two readings to the daemon         *)
(* (crates/lightwatch-hotpath/src).  The two requests of a poll, the       *)
(* connection and the write are steps of their own; the target starts,     *)
(* works, dies and starts again between them, and the daemon comes and     *)
(* goes.  The target and its server are external.                          *)
(***************************************************************************)
EXTENDS Dist, Functions

CONSTANTS Functions, Pids,    \* hotpath's function ids; what the target may run as
          None,
          Quantum,            \* what a printed total is rounded to
          MaxRuns, MaxCalls, MaxElapsed, MaxFaults   \* bounds

ASSUME BridgeFinite == IsFiniteSet(Functions) /\ None \notin Pids
ASSUME BridgeBounds ==
  /\ Quantum \in Nat \ {0} /\ MaxRuns \in Nat \ {0}
  /\ MaxCalls \in Nat /\ MaxElapsed \in Nat /\ MaxFaults \in Nat

VARIABLES
  target,      \* its run, phase ("down", "starting", "up"), pid and elapsed
  calls,       \* per run and function: hotpath's cumulative count
  daemon,      \* listening or not
  step,        \* where poll_once is
  status,      \* the pid the first request answered with
  report,      \* what the second answered with
  session,     \* None, or the Stream and its Connection
  frame,       \* the frame absorb returned
  named,       \* history: functions the connection's daemon was told of
  settled,     \* history: per run and function, calls the daemon was told of, and those
               \* made before the stream first read the function
  faults       \* bound: stutters and deaths so far

targetVars == <<target, calls>>
pollVars == <<step, status, report, session, frame>>
historyVars == <<named, settled>>
vars == <<targetVars, daemon, pollVars, historyVars, faults>>

Runs == 1..MaxRuns

Init ==
  /\ target = [run |-> 0, phase |-> "down", pid |-> None, elapsed |-> 0]
  /\ calls = [r \in Runs |-> [f \in Functions |-> 0]]
  /\ daemon = FALSE
  /\ step = "status" /\ status = None /\ report = None /\ session = None /\ frame = None
  /\ named = {} /\ settled = [r \in Runs |-> [f \in Functions |-> 0]]
  /\ faults = 0

Fault == faults < MaxFaults /\ faults' = faults + 1

-----------------------------------------------------------------------------
(* The target and the daemon, as the bridge meets them.                    *)

TargetStarts ==
  /\ target.phase = "down" /\ target.run < MaxRuns
  /\ \E pid \in Pids :
       target' = [run |-> target.run + 1, phase |-> "starting", pid |-> pid, elapsed |-> 0]
  /\ UNCHANGED <<calls, daemon, pollVars, historyVars, faults>>

ProfilerReady ==
  /\ target.phase = "starting"
  /\ target' = [target EXCEPT !.phase = "up"]
  /\ UNCHANGED <<calls, daemon, pollVars, historyVars, faults>>

Work ==
  /\ target.phase = "up"
  /\ \E f \in Functions :
       /\ calls[target.run][f] < MaxCalls
       /\ calls' = [calls EXCEPT ![target.run][f] = @ + 1]
  /\ UNCHANGED <<target, daemon, pollVars, historyVars, faults>>

TimePasses ==
  /\ target.phase # "down" /\ target.elapsed < MaxElapsed
  /\ target' = [target EXCEPT !.elapsed = @ + 1]
  /\ UNCHANGED <<calls, daemon, pollVars, historyVars, faults>>

TargetDies ==
  /\ target.phase # "down" /\ Fault
  /\ target' = [target EXCEPT !.phase = "down"]
  /\ UNCHANGED <<calls, daemon, pollVars, historyVars>>

DaemonListens ==
  /\ ~daemon /\ daemon' = TRUE
  /\ UNCHANGED <<targetVars, pollVars, historyVars, faults>>

\* Its connections break with it.
DaemonDies ==
  /\ daemon /\ Fault
  /\ daemon' = FALSE
  /\ session' = IF session = None THEN None ELSE [session EXCEPT !.connected = FALSE]
  /\ UNCHANGED <<targetVars, step, status, report, frame, historyVars>>

(* What a request comes back with, and what body_of and the parser make of *)
(* it.                                                                     *)

Reply(head, code, body) == [head |-> head, code |-> code, body |-> body]
Unreachable == Reply("none", 0, "none")
Whole == Reply("http", 200, "whole")

Cut == {Reply("none", 0, "none"), Reply("cut", 0, "none"), Reply("garbage", 0, "none"),
        Reply("http", 200, "cut"), Reply("http", 200, "none")}

Replies ==
  CASE target.phase = "down" -> {Unreachable}
    [] target.phase = "starting" -> {Reply("http", 503, "whole")}
    [] target.phase = "up" -> {Whole}

BodyOf(raw) ==
  CASE raw.head \in {"none", "cut"} -> "truncated"
    [] raw.head = "garbage" -> "not http"
    [] raw.head = "http" /\ raw.code # 200 -> "status"
    [] OTHER -> raw.body

\* Ok only where serde can make the expected shape of the body.
Answered(raw) == BodyOf(raw) = "whole"

\* A cut-off reply counts against the bound, any other is the server's answer.
Get(raw) ==
  \/ raw \in Replies /\ faults' = faults
  \/ target.phase = "up" /\ raw \in Cut /\ Fault

\* A printed total keeps its leading figures only.
Printed(total) == Quantum * (total \div Quantum)

\* The list holds functions that were called, and only so many of them.
Rows(run) ==
  {[f \in listed |-> [calls |-> calls[run][f], total |-> Printed(calls[run][f])]] :
     listed \in SUBSET {f \in Functions : calls[run][f] > 0}}

-----------------------------------------------------------------------------
(* Stream (bridge.rs).                                                     *)

\* The frames of a stream are numbered from zero; the number is left out.
NewStream(pid) == [pid |-> pid, elapsed |-> 0, readings |-> << >>]

SameRun(stream, pid, elapsed) == stream.pid = pid /\ elapsed >= stream.elapsed

WindowDuration(delta, count) ==
  IF delta = 0 THEN Buckets(<< >>) ELSE Buckets(<< <<BucketOf(delta \div count), count>> >>)

Calls(count, delta) == [count |-> count, ns |-> WindowDuration(delta, count)]

Monus(a, b) == IF a < b THEN 0 ELSE a - b

\* A function seen for the first time charged everything it ever did.
EventsFromZero(readings, rows) ==
  LET before(f) == IF f \in DOMAIN readings THEN readings[f] ELSE [calls |-> 0, total |-> 0]
  IN [f \in {f \in DOMAIN rows : rows[f].calls > before(f).calls} |->
        Calls(rows[f].calls - before(f).calls, Monus(rows[f].total, before(f).total))]

Events(readings, rows) ==
  [f \in {f \in DOMAIN rows \cap DOMAIN readings : rows[f].calls > readings[f].calls} |->
     Calls(rows[f].calls - readings[f].calls, Monus(rows[f].total, readings[f].total))]

Updated(readings, rows) ==
  [f \in DOMAIN readings \cup DOMAIN rows |->
     IF f \in DOMAIN rows THEN rows[f] ELSE readings[f]]

\* Absorb: the frame, and the stream after it.
FrameOf(stream, read) ==
  [t |-> read.elapsed, run |-> read.run,
   registers |-> DOMAIN read.rows \ DOMAIN stream.readings,
   events |-> IF DOMAIN stream.readings = {} THEN << >> ELSE Events(stream.readings, read.rows)]

After(stream, read) ==
  [stream EXCEPT !.elapsed = read.elapsed, !.readings = Updated(@, read.rows)]

-----------------------------------------------------------------------------
(* poll_once and the loop around it.                                       *)

Sleep == step' = "status" /\ status' = None /\ report' = None /\ frame' = None

ReadStatus(raw) ==
  /\ step = "status" /\ Get(raw)
  /\ IF Answered(raw)
       THEN step' = "report" /\ status' = target.pid /\ UNCHANGED <<report, frame>>
       ELSE Sleep
  /\ UNCHANGED <<targetVars, daemon, session, historyVars>>

\* A target that stutters keeps its stream.
ReadReport(raw) ==
  /\ step = "report" /\ Get(raw)
  /\ IF Answered(raw)
       THEN /\ step' = "absorb" /\ UNCHANGED <<status, frame>>
            /\ \E rows \in Rows(target.run) :
                 report' = [run |-> target.run, elapsed |-> target.elapsed, rows |-> rows]
       ELSE Sleep
  /\ UNCHANGED <<targetVars, daemon, session, historyVars>>

Continues == session # None /\ SameRun(session.stream, status, report.elapsed)

\* History: the reading that registers a function settles all it did before.
Baseline(stream) ==
  settled' = [settled EXCEPT ![report.run] =
    [f \in Functions |-> IF f \in DOMAIN report.rows \ DOMAIN stream.readings
                         THEN report.rows[f].calls ELSE @[f]]]

Absorb(stream, connected) ==
  /\ frame' = FrameOf(stream, report)
  /\ session' = [stream |-> After(stream, report), connected |-> connected]
  /\ Baseline(stream)
  /\ step' = "send" /\ UNCHANGED <<status, report>>

KeepSession ==
  /\ step = "absorb" /\ Continues
  /\ Absorb(session.stream, session.connected)
  /\ UNCHANGED <<targetVars, daemon, named, faults>>

OpenSession ==
  /\ step = "absorb" /\ ~Continues /\ daemon
  /\ Absorb(NewStream(status), TRUE)
  /\ named' = {}
  /\ UNCHANGED <<targetVars, daemon, faults>>

NoDaemon ==
  /\ step = "absorb" /\ ~Continues /\ ~daemon
  /\ Sleep /\ session' = None
  /\ UNCHANGED <<targetVars, daemon, historyVars, faults>>

Send ==
  /\ step = "send" /\ session.connected
  /\ named' = named \cup frame.registers
  /\ settled' = [settled EXCEPT ![frame.run] =
       [f \in Functions |->
          @[f] + IF f \in DOMAIN frame.events THEN frame.events[f].count ELSE 0]]
  /\ Sleep
  /\ UNCHANGED <<targetVars, daemon, session, faults>>

\* The connection written off, the stream that was told its names kept.
SendFailsKeepingStream ==
  /\ step = "send" /\ ~session.connected
  /\ Sleep
  /\ IF daemon THEN session' = [session EXCEPT !.connected = TRUE] /\ named' = {}
     ELSE UNCHANGED <<session, named>>
  /\ UNCHANGED <<targetVars, daemon, settled, faults>>

\* The write failed and nothing is opened in its place.
SendFailsUnnoticed ==
  /\ step = "send" /\ ~session.connected
  /\ Sleep
  /\ UNCHANGED <<targetVars, daemon, session, historyVars, faults>>

\* The registrations the next connection needs live in the stream that dies here.
SendFails ==
  /\ step = "send" /\ ~session.connected
  /\ Sleep /\ session' = None
  /\ UNCHANGED <<targetVars, daemon, historyVars, faults>>

Poll ==
  \/ \E raw \in Replies \cup Cut : ReadStatus(raw) \/ ReadReport(raw)
  \/ KeepSession \/ OpenSession \/ NoDaemon \/ Send \/ SendFails

Next ==
  \/ TargetStarts \/ ProfilerReady \/ Work \/ TimePasses \/ TargetDies
  \/ DaemonListens \/ DaemonDies
  \/ Poll

Spec == Init /\ [][Next]_vars

\* Nothing in the loop ends the bridge's process; a supervisor brings the target and
\* the daemon back.
FairSpec ==
  /\ Spec
  /\ WF_vars(Poll)
  /\ WF_vars(TargetStarts) /\ WF_vars(ProfilerReady) /\ WF_vars(DaemonListens)
-----------------------------------------------------------------------------
\* "Its counters cover everything the process did before the bridge attached, and charging
\* that to a single window would misreport the rate" (bridge.rs:69-71): whatever died and
\* came back between two requests, what a run's function is charged with, and what it had
\* done before the stream first read it, are together no more than it has made.  A stream
\* that takes the report of the next run, which same_run allows under one pid and which
\* two requests answered by two runs come to, has read the functions it knows: to those
\* the run's first report does charge calls, if no more than the run made.
NeverMoreThanHappened ==
  \A r \in Runs, f \in Functions : settled[r][f] <= calls[r][f]

\* "No event ever names a function that was not registered first" (bridge.rs:236), on
\* each connection separately: a new one is told every name again, and none twice
\* (main.rs:45-50, 91-96).
NamedOnceOnEveryConnection ==
  step = "send" /\ session.connected =>
    /\ DOMAIN frame.events \subseteq named \cup frame.registers
    /\ frame.registers \cap named = {}

Streaming ==
  session # None /\ session.connected /\ session.stream.pid = target.pid

\* "A target that has not started, has died, or has been restarted, and a daemon
\* socket that is not there, are all states the bridge waits out" (main.rs:3-6): when
\* both are there to stay, it ends up streaming the process that runs.
WaitsOut == <>[](target.phase = "up" /\ daemon) => <>[]Streaming
=============================================================================
