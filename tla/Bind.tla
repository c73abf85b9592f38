-------------------------------- MODULE Bind --------------------------------
(***************************************************************************)
(* How daemons take and give up the one socket path probes look for        *)
(* (crates/lightwatch-daemon/src/ingest.rs:42-63, main.rs).  The kernel    *)
(* refuses to bind a path that exists, whether or not anybody listens on   *)
(* it; a connection to the path reaches whoever bound the file that is     *)
(* there now.  The HTTP port is a machine-wide lock that dies with its     *)
(* holder.  Each system call is one step.                                  *)
(***************************************************************************)
EXTENDS Rendezvous, Naturals

CONSTANTS Daemons,     \* daemon processes started with one socket directory
          Nobody,      \* no file at the path, or no holder of the port
          Stale,       \* a file whose listener is gone
          MaxStarts    \* bound: daemons started

ASSUME BindSentinels == {Nobody, Stale} \cap Daemons = {} /\ Nobody # Stale
ASSUME StartsBound == MaxStarts \in Nat

VARIABLES file,        \* who listens on the file at the socket path
          port,        \* who holds the HTTP port
          step,        \* where each daemon's main stands
          starts       \* daemons started so far

bindVars == <<file, port, step, starts>>

Steps == {"off", "starting", "probing", "unlinking", "rebinding", "bound", "serving",
          "stopping", "refused"}

BindTypeOK ==
  /\ file \in Daemons \cup {Nobody, Stale}
  /\ port \in Daemons \cup {Nobody}
  /\ step \in [Daemons -> Steps]
  /\ starts \in 0..MaxStarts

BindInit ==
  /\ file = Nobody
  /\ port = Nobody
  /\ step = [d \in Daemons |-> "off"]
  /\ starts = 0

Go(d, next) == step' = [step EXCEPT ![d] = next]

Running(d) == step[d] \notin {"off", "refused"}

\* A process that goes away closes its listeners: its file stays behind.
FileWithout(d) == IF file = d THEN Stale ELSE file
PortWithout(d) == IF port = d THEN Nobody ELSE port

Start(d) ==
  /\ ~Running(d)
  /\ starts < MaxStarts
  /\ starts' = starts + 1
  /\ Go(d, "starting")
  /\ UNCHANGED <<file, port>>

(* bind: try; on AddrInUse ask who answers; take the file away; try again. *)

BindFirst(d) ==
  /\ step[d] = "starting"
  /\ IF file = Nobody
       THEN file' = d /\ Go(d, "bound")
       ELSE file' = file /\ Go(d, "probing")
  /\ UNCHANGED <<port, starts>>

ProbeListener(d) ==
  /\ step[d] = "probing"
  /\ IF file \in Daemons THEN Go(d, "refused") ELSE Go(d, "unlinking")
  /\ UNCHANGED <<file, port, starts>>

\* Retrying without removing what is in the way.
UnlinkNothing(d) ==
  /\ step[d] = "unlinking"
  /\ Go(d, "rebinding")
  /\ UNCHANGED <<file, port, starts>>

\* remove_file fails when the file is gone already.
Unlink(d) ==
  /\ step[d] = "unlinking"
  /\ file' = Nobody
  /\ IF file = Nobody THEN Go(d, "refused") ELSE Go(d, "rebinding")
  /\ UNCHANGED <<port, starts>>

BindAgain(d) ==
  /\ step[d] = "rebinding"
  /\ IF file = Nobody
       THEN file' = d /\ Go(d, "bound")
       ELSE file' = file /\ Go(d, "refused")
  /\ UNCHANGED <<port, starts>>

\* A daemon that cannot have the port exits, and leaves its socket file.
BindHttp(d) ==
  /\ step[d] = "bound"
  /\ IF port = Nobody
       THEN port' = d /\ file' = file /\ Go(d, "serving")
       ELSE port' = port /\ file' = FileWithout(d) /\ Go(d, "refused")
  /\ UNCHANGED starts

\* ctrl_c: both tasks are aborted, and drop their listeners now or as main returns.
Stop(d) ==
  /\ step[d] = "serving"
  /\ \/ file' = FileWithout(d) /\ port' = PortWithout(d)
     \/ UNCHANGED <<file, port>>
  /\ Go(d, "stopping")
  /\ UNCHANGED starts

\* The path is removed whoever's file it is by now.
RemoveSocket(d) ==
  /\ step[d] = "stopping"
  /\ file' = Nobody /\ port' = PortWithout(d)
  /\ Go(d, "off")
  /\ UNCHANGED starts

Crash(d) ==
  /\ Running(d)
  /\ file' = FileWithout(d) /\ port' = PortWithout(d)
  /\ Go(d, "off")
  /\ UNCHANGED starts

\* What main does by itself once the daemon is started.
BindStep(d) ==
  \/ BindFirst(d) \/ ProbeListener(d) \/ Unlink(d) \/ BindAgain(d) \/ BindHttp(d)
  \/ RemoveSocket(d)

BindNext == \E d \in Daemons : Start(d) \/ BindStep(d) \/ Stop(d) \/ Crash(d)

BindSpec == BindInit /\ [][BindNext]_bindVars
-----------------------------------------------------------------------------
\* "an `AddrInUse` is only reclaimed when nothing answers on it.  That keeps a second
\* daemon from stealing a running one's socket" (ingest.rs:44-46): the file bind takes
\* away is nobody's.
ReclaimedOnlyWhenSilent ==
  [][\A d \in Daemons : step[d] = "unlinking" /\ step'[d] = "rebinding" =>
       file \notin Daemons]_bindVars

\* A socket file left behind by a crash never keeps a daemon from coming up: one that
\* is refused has met another (ingest.rs:44-45).
RefusedOnlyByAnother == \A d \in Daemons : step[d] = "refused" => Daemons # {d}
=============================================================================
