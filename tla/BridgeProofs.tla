---------------------------- MODULE BridgeProofs ----------------------------
(***************************************************************************)
(* What the bridge tells the daemon, for every number of functions, runs   *)
(* and calls, and however often the target and the daemon die.             *)
(***************************************************************************)
EXTENDS Bridge, TLAPS

-----------------------------------------------------------------------------
(* Types: what a step of poll_once finds in each variable.                 *)

\* A list of rows, or a stream's readings: functions, and the calls beside each.
IsRows(rows) == DOMAIN rows \subseteq Functions /\ \A f \in DOMAIN rows : rows[f].calls \in Nat

Table == [Runs -> [Functions -> Nat]]

TargetOK ==
  /\ target \in [run : 0..MaxRuns, phase : {"down", "starting", "up"},
                 pid : Pids \cup {None}, elapsed : Nat]
  /\ target.phase # "down" => target.run \in Runs
  /\ calls \in Table

\* From the second request's answer to the write, the report is there.
Reported == step \in {"absorb", "send"}

ReportOK ==
  /\ step \in {"status", "report", "absorb", "send"}
  /\ Reported => report.run \in Runs /\ report.run <= target.run /\ IsRows(report.rows)

\* Between Absorb and the write there always is a session.
HasSession == session # None \/ step = "send"

\* A session is a stream and its connection, whatever the stream's pid and elapsed.
SessionOK ==
  HasSession =>
    LET stream == session.stream
    IN /\ session = [stream |-> stream, connected |-> session.connected]
       /\ stream = [pid |-> stream.pid, elapsed |-> stream.elapsed, readings |-> stream.readings]
       /\ session.connected \in BOOLEAN /\ IsRows(stream.readings)

FrameOK ==
  step = "send" =>
    /\ frame.run = report.run
    /\ \A f \in DOMAIN frame.events : frame.events[f].count \in Nat

BridgeTypeOK == TargetOK /\ ReportOK /\ SessionOK /\ FrameOK /\ settled \in Table

-----------------------------------------------------------------------------
(* Names: what the connection's daemon was told of is what its stream has  *)
(* readings of.                                                            *)

NamedIsRead ==
  HasSession /\ session.connected =>
    IF step = "send"
      THEN /\ named \cup frame.registers = DOMAIN session.stream.readings
           /\ named \cap frame.registers = {}
           /\ DOMAIN frame.events \subseteq DOMAIN session.stream.readings
      ELSE named = DOMAIN session.stream.readings

-----------------------------------------------------------------------------
(* Calls.                                                                  *)

\* The run the stream is, or will next be, told about.
LastRun == IF Reported THEN report.run ELSE target.run

\* Nothing is settled of a run before it is reported.
NothingAhead == \A r \in Runs, f \in Functions : r > LastRun => settled[r][f] = 0

\* A row is the count as it was: the run may have gone on, and what was settled came first.
RowsLieBetween ==
  Reported => \A f \in DOMAIN report.rows :
    /\ report.rows[f].calls <= calls[report.run][f]
    /\ step = "absorb" => settled[report.run][f] <= report.rows[f].calls

Pending(f) ==
  IF step = "send" /\ f \in DOMAIN frame.events THEN frame.events[f].count ELSE 0

\* What is settled of the last run, the frame to be sent included, is no more than its
\* stream has read, and than the run has made.
ChargedWithinReadings ==
  LastRun \in Runs => \A f \in Functions :
    /\ HasSession /\ f \in DOMAIN session.stream.readings =>
         settled[LastRun][f] + Pending(f) <= session.stream.readings[f].calls
    /\ settled[LastRun][f] + Pending(f) <= calls[LastRun][f]

BridgeInv ==
  /\ BridgeTypeOK /\ NamedIsRead
  /\ NothingAhead /\ RowsLieBetween /\ ChargedWithinReadings /\ NeverMoreThanHappened

-----------------------------------------------------------------------------
(* What Absorb makes of a report and a stream.                             *)

LEMMA EventsCount ==
  ASSUME NEW readings, NEW rows, IsRows(readings), IsRows(rows),
         NEW f \in DOMAIN Events(readings, rows)
  PROVE  /\ f \in DOMAIN rows /\ f \in DOMAIN readings
         /\ Events(readings, rows)[f].count = rows[f].calls - readings[f].calls
         /\ Events(readings, rows)[f].count \in Nat
BY DEF Events, Calls, IsRows

LEMMA UpdatedRows ==
  ASSUME NEW readings, NEW rows, IsRows(readings), IsRows(rows)
  PROVE  /\ IsRows(Updated(readings, rows))
         /\ DOMAIN Updated(readings, rows) = DOMAIN readings \cup DOMAIN rows
         /\ \A f \in DOMAIN rows : Updated(readings, rows)[f] = rows[f]
         /\ \A f \in DOMAIN readings \ DOMAIN rows : Updated(readings, rows)[f] = readings[f]
BY DEF Updated, IsRows

LEMMA RowsAreCounts ==
  ASSUME calls \in Table, NEW run \in Runs, NEW rows \in Rows(run)
  PROVE  IsRows(rows) /\ \A f \in DOMAIN rows : rows[f].calls = calls[run][f]
BY DEF Rows, IsRows, Table

LEMMA BridgeInvInit == Init => BridgeInv
BY BridgeBounds
DEF Init, BridgeInv, BridgeTypeOK, TargetOK, ReportOK, HasSession, SessionOK, FrameOK, Table, Runs,
    NamedIsRead, LastRun, Reported, NothingAhead, RowsLieBetween, ChargedWithinReadings,
    Pending, NeverMoreThanHappened

-----------------------------------------------------------------------------
(* The target and the daemon.                                              *)

\* A run is added to at its end only, and counts only go up.
LEMMA TargetKeeps ==
  ASSUME BridgeInv, TargetStarts \/ ProfilerReady \/ Work \/ TimePasses \/ TargetDies
  PROVE  BridgeInv'
<1> USE BridgeBounds DEF BridgeInv, BridgeTypeOK, TargetOK, Runs
<1>1. /\ UNCHANGED <<pollVars, historyVars>>
      /\ target' \in [run : 0..MaxRuns, phase : {"down", "starting", "up"},
                      pid : Pids \cup {None}, elapsed : Nat]
      /\ target'.phase # "down" => target'.run \in Runs
      /\ target'.run = target.run \/ target'.run = target.run + 1
  BY DEF TargetStarts, ProfilerReady, Work, TimePasses, TargetDies
<1>2. calls' \in Table /\ \A r \in Runs, f \in Functions : calls[r][f] <= calls'[r][f]
  <2>1. CASE Work
    <3>1. PICK f \in Functions : calls' = [calls EXCEPT ![target.run][f] = @ + 1]
      BY <2>1 DEF Work
    <3>2. target.run \in Runs
      BY <2>1 DEF Work
    <3>3. calls[target.run][f] \in Nat
      BY <3>2 DEF Table
    <3>4. \A r \in Runs, g \in Functions :
             calls'[r][g] = IF r = target.run /\ g = f THEN calls[r][g] + 1 ELSE calls[r][g]
      BY <3>1, <3>2 DEF Table
    <3>5. calls' \in Table
      BY <3>1, <3>2, <3>3 DEF Table
    <3>6. \A r \in Runs, g \in Functions : calls[r][g] \in Nat
      BY DEF Table
    <3> QED BY <3>4, <3>5, <3>6
  <2>2. CASE TargetStarts \/ ProfilerReady \/ TimePasses \/ TargetDies
    BY <2>2 DEF TargetStarts, ProfilerReady, TimePasses, TargetDies, Table
  <2> QED BY <2>1, <2>2
<1>3. Reported' = Reported /\ (Reported => LastRun' = LastRun) /\ \A f : Pending(f)' = Pending(f)
  BY <1>1 DEF pollVars, Reported, LastRun, Pending
<1>4. BridgeTypeOK'
  <2>1. TargetOK' /\ settled' \in Table
    BY <1>1, <1>2 DEF historyVars
  <2>2. ReportOK'
    BY <1>1 DEF pollVars, ReportOK, Reported
  <2>3. SessionOK' /\ FrameOK'
    BY <1>1 DEF pollVars, HasSession, SessionOK, FrameOK
  <2> QED BY <2>1, <2>2, <2>3
<1>5. NamedIsRead'
  BY <1>1 DEF pollVars, historyVars, HasSession, NamedIsRead
<1>6. NothingAhead'
  BY <1>1, <1>3 DEF pollVars, historyVars, NothingAhead, LastRun, Reported
<1>7. NeverMoreThanHappened'
  <2>1. settled' = settled
    BY <1>1 DEF historyVars
  <2>2. ASSUME NEW r \in Runs, NEW f \in Functions PROVE settled[r][f] <= calls'[r][f]
    <3>1. settled[r][f] \in Nat /\ calls[r][f] \in Nat /\ calls'[r][f] \in Nat
      BY <1>2 DEF Table
    <3>2. settled[r][f] <= calls[r][f] /\ calls[r][f] <= calls'[r][f]
      BY <1>2 DEF NeverMoreThanHappened
    <3> QED BY <3>1, <3>2
  <2> QED BY <2>1, <2>2 DEF NeverMoreThanHappened
<1>8. RowsLieBetween'
  <2>1. \A f \in DOMAIN report.rows, n \in Nat :
           Reported /\ n <= calls[report.run][f] => n <= calls'[report.run][f]
    BY <1>2 DEF ReportOK, IsRows, Table
  <2> QED BY <1>1, <1>3, <2>1 DEF pollVars, historyVars, RowsLieBetween, ReportOK, IsRows
<1>9. ChargedWithinReadings'
  <2>1. CASE LastRun' = LastRun
    <3> SUFFICES ASSUME LastRun \in Runs, NEW f \in Functions
                 PROVE  /\ HasSession /\ f \in DOMAIN session.stream.readings =>
                             settled[LastRun][f] + Pending(f) <= session.stream.readings[f].calls
                        /\ settled[LastRun][f] + Pending(f) <= calls'[LastRun][f]
      BY <1>1, <1>3, <2>1 DEF pollVars, historyVars, HasSession, ChargedWithinReadings
    <3>1. Pending(f) \in Nat
      BY DEF Pending, FrameOK
    <3>2. /\ settled[LastRun][f] \in Nat /\ calls[LastRun][f] \in Nat
          /\ calls'[LastRun][f] \in Nat /\ calls[LastRun][f] <= calls'[LastRun][f]
      BY <1>2 DEF Table
    <3>3. /\ HasSession /\ f \in DOMAIN session.stream.readings =>
               settled[LastRun][f] + Pending(f) <= session.stream.readings[f].calls
          /\ settled[LastRun][f] + Pending(f) <= calls[LastRun][f]
      BY DEF ChargedWithinReadings
    <3>4. settled[LastRun][f] + Pending(f) <= calls'[LastRun][f]
      BY <3>1, <3>2, <3>3
    <3> QED BY <3>3, <3>4
  <2>2. CASE LastRun' # LastRun
    <3>1. ~Reported /\ LastRun' > LastRun
      BY <1>1, <1>3, <2>2 DEF LastRun
    <3>2. \A f : Pending(f) = 0
      BY <3>1 DEF Pending, Reported
    <3>3. \A f \in Functions : LastRun' \in Runs => settled[LastRun'][f] = 0
      BY <3>1 DEF NothingAhead
    <3> QED
      BY <1>1, <1>2, <1>3, <3>2, <3>3
      DEF pollVars, historyVars, ChargedWithinReadings, Table, HasSession, SessionOK, IsRows
  <2> QED BY <2>1, <2>2
<1> QED BY <1>4, <1>5, <1>6, <1>7, <1>8, <1>9

LEMMA DaemonKeeps ==
  ASSUME BridgeInv, DaemonListens \/ DaemonDies
  PROVE  BridgeInv'
<1>1. /\ UNCHANGED <<targetVars, step, status, report, frame, historyVars>>
      /\ \/ session' = session
         \/ session # None /\ session' = [session EXCEPT !.connected = FALSE]
  BY DEF DaemonListens, DaemonDies, pollVars
<1> USE DEF BridgeInv, BridgeTypeOK
<1>2. SessionOK' /\ (HasSession' => HasSession /\ session'.stream = session.stream)
  BY <1>1 DEF HasSession, SessionOK
<1>3. NamedIsRead'
  BY <1>1 DEF historyVars, HasSession, NamedIsRead, SessionOK
<1>4. Reported' = Reported /\ LastRun' = LastRun /\ \A f : Pending(f)' = Pending(f)
  BY <1>1 DEF targetVars, Reported, LastRun, Pending
<1>5. TargetOK' /\ ReportOK' /\ settled' \in Table
  BY <1>1, <1>4 DEF targetVars, historyVars, TargetOK, ReportOK
<1>6. FrameOK'
  BY <1>1 DEF FrameOK
<1>7. NothingAhead' /\ RowsLieBetween' /\ NeverMoreThanHappened'
  BY <1>1, <1>4
  DEF targetVars, historyVars, NothingAhead, RowsLieBetween, NeverMoreThanHappened
<1>8. ChargedWithinReadings'
  BY <1>1, <1>2, <1>4 DEF targetVars, historyVars, ChargedWithinReadings
<1> QED BY <1>2, <1>3, <1>5, <1>6, <1>7, <1>8

-----------------------------------------------------------------------------
(* The poll, one step of it at a time.                                     *)

\* The requests only read, and nothing is pending before both were answered.
LEMMA ReadStatusKeeps ==
  ASSUME BridgeInv, NEW raw, ReadStatus(raw)
  PROVE  BridgeInv'
<1> USE DEF BridgeInv, BridgeTypeOK
<1>1. /\ UNCHANGED <<targetVars, session, historyVars>>
      /\ step = "status" /\ step' \in {"status", "report"}
  BY DEF ReadStatus, Sleep
<1>2. /\ ~Reported /\ ~Reported' /\ LastRun' = LastRun
      /\ HasSession' = HasSession /\ \A f : Pending(f) = 0 /\ Pending(f)' = 0
  BY <1>1 DEF targetVars, Reported, LastRun, HasSession, Pending
<1>3. TargetOK' /\ ReportOK' /\ FrameOK' /\ settled' \in Table
  BY <1>1, <1>2 DEF targetVars, historyVars, TargetOK, ReportOK, FrameOK
<1>4. SessionOK' /\ NamedIsRead'
  BY <1>1, <1>2 DEF historyVars, SessionOK, NamedIsRead
<1>5. NothingAhead' /\ RowsLieBetween' /\ NeverMoreThanHappened'
  BY <1>1, <1>2 DEF targetVars, historyVars, NothingAhead, RowsLieBetween, NeverMoreThanHappened
<1>6. ChargedWithinReadings'
  BY <1>1, <1>2 DEF targetVars, historyVars, ChargedWithinReadings
<1> QED BY <1>3, <1>4, <1>5, <1>6

\* The report is of the run there is, and no row of it is behind what was settled.
LEMMA ReadReportKeeps ==
  ASSUME BridgeInv, NEW raw \in Replies \cup Cut, ReadReport(raw)
  PROVE  BridgeInv'
<1> USE DEF BridgeInv, BridgeTypeOK
<1>1. /\ UNCHANGED <<targetVars, session, historyVars>>
      /\ step = "report" /\ step' \in {"status", "absorb"}
  BY DEF ReadReport, Sleep
<1>2. ~Reported /\ HasSession' = HasSession /\ \A f : Pending(f) = 0 /\ Pending(f)' = 0
  BY <1>1 DEF Reported, HasSession, Pending
<1>3. ASSUME Reported'
      PROVE  /\ target.run \in Runs /\ report'.run = target.run
             /\ IsRows(report'.rows)
             /\ \A f \in DOMAIN report'.rows : report'.rows[f].calls = calls[target.run][f]
  <2>1. Answered(raw)
    BY <1>1, <1>3 DEF ReadReport, Sleep, Reported
  <2>2. target.phase = "up"
    BY <2>1 DEF ReadReport, Get, Replies, Cut, Unreachable, Whole, Reply, Answered, BodyOf,
                TargetOK
  <2>3. target.run \in Runs
    BY <2>2 DEF TargetOK
  <2>4. PICK rows \in Rows(target.run) :
           report' = [run |-> target.run, elapsed |-> target.elapsed, rows |-> rows]
    BY <2>1 DEF ReadReport
  <2> QED BY <2>3, <2>4, RowsAreCounts DEF TargetOK
<1>4. LastRun' = LastRun
  BY <1>1, <1>2, <1>3 DEF targetVars, LastRun
<1>5. TargetOK' /\ ReportOK' /\ FrameOK' /\ settled' \in Table
  BY <1>1, <1>3 DEF targetVars, historyVars, TargetOK, ReportOK, FrameOK, Runs
<1>6. SessionOK' /\ NamedIsRead'
  BY <1>1, <1>2 DEF historyVars, SessionOK, NamedIsRead
<1>7. NothingAhead' /\ NeverMoreThanHappened'
  BY <1>1, <1>4 DEF targetVars, historyVars, NothingAhead, NeverMoreThanHappened
<1>8. RowsLieBetween'
  BY <1>1, <1>3
  DEF targetVars, historyVars, RowsLieBetween, NeverMoreThanHappened, IsRows, TargetOK, Table
<1>9. ChargedWithinReadings'
  BY <1>1, <1>2, <1>4 DEF targetVars, historyVars, ChargedWithinReadings
<1> QED BY <1>5, <1>6, <1>7, <1>8, <1>9

\* Whichever stream it continues or opens: what it returns is named in turn, and what is
\* settled of the run, the new events included, stays behind the new readings.
LEMMA AbsorbKeeps ==
  ASSUME BridgeInv, NEW stream, NEW connected \in BOOLEAN,
         step = "absorb", Absorb(stream, connected),
         UNCHANGED <<targetVars, daemon, faults>>,
         IsRows(stream.readings),
         stream = [pid |-> stream.pid, elapsed |-> stream.elapsed, readings |-> stream.readings],
         connected => named' = DOMAIN stream.readings,
         \A f \in DOMAIN stream.readings : f \in Functions =>
           settled[report.run][f] <= stream.readings[f].calls
  PROVE  BridgeInv'
<1> USE DEF BridgeInv, BridgeTypeOK
<1> DEFINE readings == stream.readings
           rows == report.rows
           run == report.run
<1>1. /\ run \in Runs /\ run <= target.run /\ IsRows(rows)
      /\ step' = "send" /\ report' = report
      /\ Reported /\ Reported' /\ LastRun = run /\ LastRun' = run /\ HasSession'
  BY DEF Absorb, ReportOK, Reported, LastRun, HasSession
<1>2. /\ session'.stream.readings = Updated(readings, rows)
      /\ session' = [stream |-> session'.stream, connected |-> connected]
      /\ session'.stream = [pid |-> session'.stream.pid, elapsed |-> session'.stream.elapsed,
                            readings |-> session'.stream.readings]
  BY DEF Absorb, After
<1>3. /\ frame'.run = run /\ frame'.registers = DOMAIN rows \ DOMAIN readings
      /\ \/ frame'.events = << >> /\ DOMAIN readings = {}
         \/ frame'.events = Events(readings, rows)
  BY DEF Absorb, FrameOf
<1>4. \A f \in DOMAIN frame'.events :
        /\ f \in DOMAIN rows /\ f \in DOMAIN readings
        /\ frame'.events[f].count = rows[f].calls - readings[f].calls
        /\ frame'.events[f].count \in Nat
  BY <1>1, <1>3, EventsCount
<1>5. /\ IsRows(Updated(readings, rows))
      /\ DOMAIN Updated(readings, rows) = DOMAIN readings \cup DOMAIN rows
      /\ \A f \in DOMAIN rows : Updated(readings, rows)[f] = rows[f]
      /\ \A f \in DOMAIN readings \ DOMAIN rows : Updated(readings, rows)[f] = readings[f]
  BY <1>1, UpdatedRows
<1>6. /\ settled' \in Table
      /\ \A r \in Runs, f \in Functions :
           settled'[r][f] = IF r = run /\ f \in DOMAIN rows \ DOMAIN readings
                            THEN rows[f].calls ELSE settled[r][f]
  <2>1. settled' = [settled EXCEPT ![run] =
                      [f \in Functions |-> IF f \in DOMAIN rows \ DOMAIN readings
                                           THEN rows[f].calls ELSE @[f]]]
    BY DEF Absorb, Baseline
  <2>2. \A f \in DOMAIN rows : rows[f].calls \in Nat
    BY <1>1 DEF IsRows
  <2> QED BY <1>1, <2>1, <2>2 DEF Table
<1>7. TargetOK' /\ ReportOK' /\ FrameOK'
  BY <1>1, <1>3, <1>4 DEF targetVars, TargetOK, ReportOK, FrameOK
<1>8. SessionOK' /\ NamedIsRead'
  <2>1. SessionOK'
    BY <1>1, <1>2, <1>5 DEF SessionOK
  <2>2. NamedIsRead'
    BY <1>1, <1>2, <1>3, <1>4, <1>5 DEF NamedIsRead
  <2> QED BY <2>1, <2>2
<1>9. NothingAhead' /\ NeverMoreThanHappened'
  <2>1. NothingAhead'
    BY <1>1, <1>6 DEF targetVars, NothingAhead, Runs, TargetOK
  <2>2. NeverMoreThanHappened'
    BY <1>1, <1>6 DEF targetVars, NeverMoreThanHappened, RowsLieBetween
  <2> QED BY <2>1, <2>2
<1>10. RowsLieBetween'
  BY <1>1 DEF targetVars, RowsLieBetween
<1>11. ChargedWithinReadings'
  <2> SUFFICES ASSUME NEW f \in Functions
               PROVE  /\ f \in DOMAIN Updated(readings, rows) =>
                           settled'[run][f] + Pending(f)' <= Updated(readings, rows)[f].calls
                      /\ settled'[run][f] + Pending(f)' <= calls[run][f]
    BY <1>1, <1>2 DEF targetVars, ChargedWithinReadings
  <2>1. /\ settled'[run][f] \in Nat /\ calls[run][f] \in Nat
        /\ settled'[run][f] <= calls[run][f]
    BY <1>1, <1>6, <1>9 DEF targetVars, TargetOK, Table, NeverMoreThanHappened
  <2>2. CASE f \in DOMAIN frame'.events
    <3>1. Pending(f)' = rows[f].calls - readings[f].calls
      BY <1>1, <1>4, <2>2 DEF Pending
    <3>2. settled'[run][f] = settled[run][f]
      BY <1>1, <1>4, <1>6, <2>2
    <3>3. /\ rows[f].calls \in Nat /\ readings[f].calls \in Nat
          /\ rows[f].calls <= calls[run][f] /\ settled'[run][f] <= readings[f].calls
      BY <1>1, <1>4, <2>2, <3>2 DEF RowsLieBetween, IsRows
    <3>4. Updated(readings, rows)[f].calls = rows[f].calls
      BY <1>1, <1>4, <1>5, <2>2
    <3> QED BY <2>1, <3>1, <3>3, <3>4
  <2>3. CASE f \notin DOMAIN frame'.events
    <3>1. Pending(f)' = 0
      BY <2>3 DEF Pending
    <3>2. f \in DOMAIN rows => settled'[run][f] <= Updated(readings, rows)[f].calls
      BY <1>1, <1>5, <1>6 DEF RowsLieBetween, IsRows
    <3>3. f \in DOMAIN readings \ DOMAIN rows =>
            settled'[run][f] <= Updated(readings, rows)[f].calls
      BY <1>1, <1>5, <1>6
    <3> QED BY <1>1, <1>5, <2>1, <3>1, <3>2, <3>3
  <2> QED BY <2>2, <2>3
<1> QED BY <1>6, <1>7, <1>8, <1>9, <1>10, <1>11

LEMMA SessionKeeps ==
  ASSUME BridgeInv, KeepSession \/ OpenSession
  PROVE  BridgeInv'
<1>1. CASE KeepSession
  <2>1. session # None /\ step = "absorb" /\ HasSession
    BY <1>1 DEF KeepSession, Continues, HasSession
  <2>2. /\ IsRows(session.stream.readings) /\ session.connected \in BOOLEAN
        /\ session.stream = [pid |-> session.stream.pid, elapsed |-> session.stream.elapsed,
                             readings |-> session.stream.readings]
    BY <2>1 DEF BridgeInv, BridgeTypeOK, SessionOK
  <2>3. session.connected => named = DOMAIN session.stream.readings
    BY <2>1 DEF BridgeInv, NamedIsRead
  <2>4. \A f \in DOMAIN session.stream.readings : f \in Functions =>
           settled[report.run][f] <= session.stream.readings[f].calls
    BY <2>1 DEF BridgeInv, BridgeTypeOK, ReportOK, Reported, LastRun, Pending, Table,
                ChargedWithinReadings
  <2> QED
    BY <1>1, <2>1, <2>2, <2>3, <2>4, AbsorbKeeps DEF KeepSession, historyVars
<1>2. CASE OpenSession
  <2>1. DOMAIN NewStream(status).readings = {} /\ IsRows(NewStream(status).readings)
    BY DEF NewStream, IsRows
  <2> QED BY <1>2, <2>1, AbsorbKeeps DEF OpenSession, NewStream
<1> QED BY <1>1, <1>2

\* The daemon is told what was pending.
LEMMA SendKeeps ==
  ASSUME BridgeInv, Send
  PROVE  BridgeInv'
<1> USE DEF BridgeInv, BridgeTypeOK
<1> DEFINE run == report.run
<1>1. /\ step = "send" /\ session.connected /\ step' = "status"
      /\ UNCHANGED <<targetVars, session>>
      /\ Reported /\ ~Reported' /\ HasSession /\ LastRun = run /\ LastRun' = target.run
      /\ run \in Runs /\ run <= target.run /\ frame.run = run
  BY DEF Send, Sleep, Reported, HasSession, LastRun, targetVars, ReportOK, FrameOK
<1>2. \A f \in Functions : Pending(f) \in Nat /\ Pending(f)' = 0
  BY <1>1 DEF Pending, FrameOK
<1>3. settled' \in Table
      /\ \A r \in Runs, f \in Functions :
           settled'[r][f] = IF r = run THEN settled[r][f] + Pending(f) ELSE settled[r][f]
  <2>1. settled' = [settled EXCEPT ![run] = [f \in Functions |-> @[f] + Pending(f)]]
    BY <1>1 DEF Send, Pending
  <2> QED BY <1>1, <1>2, <2>1 DEF Table
<1>4. TargetOK' /\ ReportOK' /\ FrameOK' /\ SessionOK'
  BY <1>1 DEF targetVars, TargetOK, ReportOK, FrameOK, HasSession, SessionOK
<1>5. NamedIsRead'
  BY <1>1 DEF Send, NamedIsRead
<1>6. NothingAhead' /\ RowsLieBetween'
  BY <1>1, <1>3 DEF TargetOK, Runs, NothingAhead, RowsLieBetween
<1>7. NeverMoreThanHappened'
  BY <1>1, <1>3 DEF targetVars, NeverMoreThanHappened, ChargedWithinReadings
<1>8. ChargedWithinReadings'
  <2> SUFFICES ASSUME target.run \in Runs, NEW f \in Functions
               PROVE  /\ HasSession' /\ f \in DOMAIN session.stream.readings =>
                           settled'[target.run][f] <= session.stream.readings[f].calls
                      /\ settled'[target.run][f] <= calls[target.run][f]
    BY <1>1, <1>2, <1>3 DEF targetVars, ChargedWithinReadings, Table
  <2>1. CASE target.run = run
    BY <1>1, <1>3, <2>1 DEF ChargedWithinReadings
  <2>2. CASE target.run # run
    <3>1. target.run > run
      BY <1>1, <2>2 DEF Runs, TargetOK
    <3>2. settled'[target.run][f] = 0
      BY <1>1, <1>3, <2>2, <3>1 DEF NothingAhead
    <3> QED BY <1>1, <3>2 DEF TargetOK, Table, SessionOK, IsRows
  <2> QED BY <2>1, <2>2
<1> QED BY <1>3, <1>4, <1>5, <1>6, <1>7, <1>8

\* What is given up on takes its stream along.
LEMMA GivingUpKeeps ==
  ASSUME BridgeInv, NoDaemon \/ SendFails
  PROVE  BridgeInv'
<1> USE DEF BridgeInv, BridgeTypeOK
<1>1. /\ Reported /\ step' = "status" /\ session' = None
      /\ UNCHANGED <<targetVars, historyVars>>
      /\ ~Reported' /\ ~HasSession' /\ LastRun = report.run /\ LastRun' = target.run
      /\ \A f : Pending(f)' = 0
  BY DEF NoDaemon, SendFails, Sleep, Reported, HasSession, LastRun, targetVars, Pending
<1>2. TargetOK' /\ ReportOK' /\ FrameOK' /\ SessionOK' /\ settled' \in Table
  BY <1>1 DEF targetVars, historyVars, TargetOK, ReportOK, FrameOK, SessionOK
<1>3. NamedIsRead' /\ RowsLieBetween' /\ NeverMoreThanHappened'
  BY <1>1 DEF targetVars, historyVars, NamedIsRead, RowsLieBetween, NeverMoreThanHappened
<1>4. NothingAhead'
  BY <1>1 DEF historyVars, NothingAhead, ReportOK, TargetOK, Runs
<1>5. ChargedWithinReadings'
  BY <1>1 DEF targetVars, historyVars, ChargedWithinReadings, NeverMoreThanHappened, Table
<1> QED BY <1>2, <1>3, <1>4, <1>5

LEMMA BridgeInvNext ==
  ASSUME BridgeInv, Next
  PROVE  BridgeInv'
BY TargetKeeps, DaemonKeeps, ReadStatusKeeps, ReadReportKeeps, SessionKeeps, SendKeeps,
   GivingUpKeeps
DEF Next, Poll

LEMMA BridgeInvAlways == Spec => []BridgeInv
<1>1. BridgeInv /\ [Next]_vars => BridgeInv'
  <2>1. ASSUME BridgeInv, UNCHANGED vars PROVE BridgeInv'
    <3>1. UNCHANGED <<target, calls, step, report, session, frame, named, settled>>
      BY <2>1 DEF vars, targetVars, pollVars, historyVars
    <3> QED
      BY <2>1, <3>1
      DEF BridgeInv, BridgeTypeOK, TargetOK, ReportOK, HasSession, SessionOK, FrameOK,
          NamedIsRead, LastRun, Reported, NothingAhead, RowsLieBetween,
          ChargedWithinReadings, Pending, NeverMoreThanHappened
  <2> QED BY <2>1, BridgeInvNext
<1> QED BY <1>1, BridgeInvInit, PTL DEF Spec

-----------------------------------------------------------------------------
\* However the target and the daemon die between the two requests, the connection and the
\* write, and whichever process a pid comes back for: what a run's function is charged
\* with, and what it did before the stream first read it, are together no more than it did
\* (bridge.rs:66-72, main.rs:115-118).
THEOREM ChargesWhatHappened == Spec => []NeverMoreThanHappened
<1>1. BridgeInv => NeverMoreThanHappened
  BY DEF BridgeInv
<1> QED BY <1>1, BridgeInvAlways, PTL

\* A frame written to a connection names only functions that connection was told of, and
\* tells it of none twice, through every reconnect (bridge.rs:236, main.rs:45-50).
THEOREM NamesBeforeCharging == Spec => []NamedOnceOnEveryConnection
<1>1. BridgeInv => NamedOnceOnEveryConnection
  BY DEF BridgeInv, HasSession, NamedIsRead, NamedOnceOnEveryConnection
<1> QED BY <1>1, BridgeInvAlways, PTL
=============================================================================
