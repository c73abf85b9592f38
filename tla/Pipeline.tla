------------------------------ MODULE Pipeline ------------------------------
(***************************************************************************)
(* A measured program, its emit thread, the socket path and the daemons    *)
(* behind it: emit.rs on one end, ingest.rs and store.rs on the other, the *)
(* kernel's socket buffers between.                                        *)
(*                                                                         *)
(* Simplifications.  What a daemon keeps of the process is what it can     *)
(* refuse by (Store has the rest): the names it was told and the last seq. *)
(* One path stands for the candidate sockets, which are tried until one    *)
(* answers.  A send fails when the peer is gone, or after 250 ms of a full *)
(* buffer; BufWriter flushes again when it is dropped, so the frame may    *)
(* still arrive whole, or in part.  A handler may also stop by itself (a   *)
(* read error, a line too long), and drops what it has not read.           *)
(***************************************************************************)
EXTENDS Emitter, Bind

CONSTANTS None,        \* Option::None
          MaxConns,    \* bound: connections opened
          MaxFaults    \* bound: sends that fail by time, handlers that stop

ASSUME PipelineSentinel == None \notin Nat
ASSUME PipelineBounds == MaxConns \in Nat /\ MaxFaults \in Nat

VARIABLES conns,     \* the connections opened so far, each with its unread lines
          stores,    \* per daemon: what it keeps of this process
          faults,    \* faults so far
          applied,   \* history: the windows daemons applied, in order
          disorder,  \* history: a frame was overtaken, or dropped unread
          unnamed    \* history, per connection: types whose readings were refused

daemonVars == <<stores, applied, disorder, unnamed>>
vars == <<emitterVars, bindVars, conns, faults, daemonVars>>

Torn == [line |-> "torn"]
Hello == [line |-> "hello"]
Fresh == [functions |-> {}, types |-> {}, paths |-> {}, seq |-> None, missed |-> 0]

Init ==
  /\ EmitterInit /\ BindInit
  /\ conns = << >>
  /\ stores = [d \in Daemons |-> Fresh]
  /\ faults = 0
  /\ applied = << >> /\ disorder = FALSE
  /\ unnamed = [c \in 1..MaxConns |-> {}]

-----------------------------------------------------------------------------
(* The program and the tick's steps that touch nothing but the probe.      *)

\* Functions are alike: one stands for all that were never entered.
NextNew ==
  LET new == Functions \ Range(functions)
  IN IF new = {} THEN {} ELSE {CHOOSE f \in new : TRUE}

\* The last window is out: nothing the program still does is sent.
Over == at = "sleep" /\ window = MaxWindows

Program ==
  /\ ~Over /\ at # "drained"
  /\ \/ \E f \in Range(functions) \cup NextNew, parent \in {0} \cup DOMAIN nodes :
          Call(f, parent)
     \/ \E ty \in Types : NewType(ty)
  /\ UNCHANGED <<bindVars, conns, faults, daemonVars>>

Tick ==
  /\ Drain \/ RegistersSince
  /\ UNCHANGED <<bindVars, conns, faults, daemonVars>>

(* Sink::connect and the sends.                                            *)

Listening == file \in Daemons

\* Connected to whoever listens, and the hello is in the buffer.
OpenSink ==
  /\ Listening /\ Len(conns) < MaxConns
  /\ Connect(Len(conns) + 1)
  /\ conns' = Append(conns, [to |-> file, lines |-> <<Hello>>, writing |-> TRUE,
                             handler |-> "backlog"])
  /\ UNCHANGED <<bindVars, faults, daemonVars>>

NoSink ==
  /\ ~Listening \/ Len(conns) = MaxConns
  /\ GiveUp
  /\ UNCHANGED <<bindVars, conns, faults, daemonVars>>

Alive(c) == conns[c].handler # "closed"

SendFrame ==
  /\ sink # 0 /\ Alive(sink)
  /\ Sent
  /\ conns' = [conns EXCEPT ![sink].lines = Append(@, Complete)]
  /\ UNCHANGED <<bindVars, faults, daemonVars>>

SendToNobody ==
  /\ sink # 0 /\ ~Alive(sink)
  /\ SendFailed
  /\ UNCHANGED <<bindVars, conns, faults, daemonVars>>

\* A send that runs out of time leaves the frame, or a part of it that will not parse
\* (an empty part ends the stream just as well).
SendTimesOut ==
  /\ sink # 0 /\ Alive(sink)
  /\ faults < MaxFaults /\ faults' = faults + 1
  /\ SendFailed
  /\ \E arrived \in {Torn, Complete} :
       conns' = [conns EXCEPT ![sink].lines = Append(@, arrived), ![sink].writing = FALSE]
  /\ UNCHANGED <<bindVars, daemonVars>>

-----------------------------------------------------------------------------
(* The daemon's handlers, one per connection.                              *)

Reads(c, line) ==
  /\ conns[c].lines # << >> /\ Head(conns[c].lines) = line
  /\ conns' = [conns EXCEPT ![c].lines = Tail(@)]

\* The accept loop takes a connection and its handler reads the hello.
Admit(c) ==
  /\ conns[c].handler = "backlog"
  /\ step[conns[c].to] = "serving"
  /\ conns' = [conns EXCEPT ![c].handler = "streaming", ![c].lines = Tail(@)]
  /\ UNCHANGED <<emitterVars, bindVars, faults, daemonVars>>

\* register: contexts in id order, each needs its function and its parent.
RegisteredPaths(store, f) ==
  LET known == store.functions \cup f.functions
      held == store.paths \cup f.paths
  IN store.paths \cup {p \in f.paths : /\ nodes[p].func \in known
                                      /\ nodes[p].parent \in {0} \cup held}

Registered(store, f) ==
  [store EXCEPT !.functions = @ \cup f.functions,
                !.types = @ \cup f.types,
                !.paths = RegisteredPaths(store, f)]

Gap(store, f) ==
  IF store.seq # None /\ f.seq > store.seq + 1 THEN f.seq - store.seq - 1 ELSE 0

\* An older connection to the same daemon still has lines to read.
Overtakes(c) ==
  \E older \in 1..(c - 1) : conns[older].to = conns[c].to /\ conns[older].lines # << >>

ApplyFrame(c) ==
  LET d == conns[c].to
      f == Head(conns[c].lines)
      store == Registered(stores[d], f)
  IN /\ conns[c].handler = "streaming"
     /\ Reads(c, f) /\ f # Torn
     /\ stores' = [stores EXCEPT ![d] = [store EXCEPT !.seq = f.seq,
                                                      !.missed = @ + Gap(store, f)]]
     /\ applied' = Append(applied, f.window)
     /\ disorder' = (disorder \/ Overtakes(c))
     /\ unnamed' = [unnamed EXCEPT ![c] = @ \cup (f.census \ store.types)]
     /\ UNCHANGED <<emitterVars, bindVars, faults>>

\* A line that does not parse is counted and skipped.
SkipTorn(c) ==
  /\ conns[c].handler = "streaming"
  /\ Reads(c, Torn)
  /\ UNCHANGED <<emitterVars, bindVars, faults, daemonVars>>

EndStream(c) ==
  /\ conns[c].handler = "streaming" /\ conns[c].lines = << >> /\ ~conns[c].writing
  /\ conns' = [conns EXCEPT ![c].handler = "closed"]
  /\ UNCHANGED <<emitterVars, bindVars, faults, daemonVars>>

Dropped(c) == [conns[c] EXCEPT !.handler = "closed", !.lines = << >>, !.writing = FALSE]

HandlerStops(c) ==
  /\ conns[c].handler = "streaming"
  /\ faults < MaxFaults /\ faults' = faults + 1
  /\ conns' = [conns EXCEPT ![c] = Dropped(c)]
  /\ disorder' = TRUE
  /\ UNCHANGED <<emitterVars, bindVars, stores, applied, unnamed>>

Handle(c) == Admit(c) \/ ApplyFrame(c) \/ SkipTorn(c) \/ EndStream(c)

(* The daemon's main.  What it held dies with it, connections included.    *)

Main(d) ==
  /\ (~Over /\ Start(d)) \/ BindStep(d) \/ Stop(d) \/ Crash(d)
  /\ IF Running(d) /\ step'[d] \in {"off", "refused"}
       THEN /\ conns' = [c \in DOMAIN conns |->
                           IF conns[c].to = d THEN Dropped(c) ELSE conns[c]]
            /\ stores' = [stores EXCEPT ![d] = Fresh]
       ELSE UNCHANGED <<conns, stores>>
  /\ UNCHANGED <<emitterVars, faults, applied, disorder, unnamed>>

Next ==
  \/ Program \/ Tick
  \/ OpenSink \/ NoSink \/ SendFrame \/ SendToNobody \/ SendTimesOut
  \/ \E c \in DOMAIN conns : Handle(c) \/ HandlerStops(c)
  \/ \E d \in Daemons : Main(d)

Spec == Init /\ [][Next]_vars

\* The emit thread ticks for as long as the process lives, a daemon's tasks run
\* while it does, and its main never waits between start and serving.
Fairness ==
  /\ WF_vars(Tick \/ OpenSink \/ NoSink \/ SendFrame \/ SendToNobody)
  /\ \A c \in 1..MaxConns : WF_vars(c \in DOMAIN conns /\ Handle(c))
  /\ \A d \in Daemons : WF_vars(BindStep(d) /\ Main(d))

FairSpec == Spec /\ Fairness
-----------------------------------------------------------------------------
(* What the whole implements.                                              *)

Frames(c) == {conns[c].lines[i] : i \in DOMAIN conns[c].lines} \ {Hello, Torn}

OnItsWay(w) ==
  \/ at # "sleep" /\ w = window
  \/ \E c \in DOMAIN conns : \E f \in Frames(c) : f.window = w

Outcome(w) ==
  CASE w > window -> "open"
    [] w \in Range(applied) -> "shown"
    [] w \notin Range(applied) /\ OnItsWay(w) -> "underway"
    [] OTHER -> "lost"

DeliveryView == INSTANCE Delivery WITH
  Windows <- 1..MaxWindows,
  outcome <- [w \in 1..MaxWindows |-> Outcome(w)],
  log <- applied

\* Whatever fails on the way, a window the probe drained is shown by some daemon at
\* most once or lost, and one or the other in the end: a failed send is never
\* retried, because the frame may have arrived (emit.rs:91-93, 146-161).
DeliversWindows == DeliveryView!LiveSpec

\* The frame a streaming handler applies next.
NextFrame(c) == Head(conns[c].lines)
Pending(c) ==
  conns[c].handler = "streaming" /\ conns[c].lines # << >> /\ NextFrame(c) # Torn
Told(c) == Registered(stores[conns[c].to], NextFrame(c))

\* The daemon never refuses a duration for want of a name: drain comes before
\* registers_since, functions are interned before they are entered and go without a
\* ceiling (emit.rs:93, 111; registry.rs:133-135).
EveryCallIsNamed ==
  \A c \in DOMAIN conns : Pending(c) => NextFrame(c).calls \subseteq Told(c).functions

\* A context's time is refused only while its registration waits for its turn under
\* the ceiling; time without a context, path 0, is the only one refused for good
\* (registry.rs:23-27, emit.rs:122-128, store.rs:312-316, lib.rs:138).
StacksNamedInTurn ==
  \A c \in DOMAIN conns : Pending(c) =>
    \A p \in NextFrame(c).stacks \ Told(c).paths :
      p = 0 \/ p > NextFrame(c).upto.paths

\* What the emitter believes it has registered on a connection is what the other end
\* knows or is about to read, across reconnects and restarts of the daemon
\* (emit.rs:102-106, 150-160).
SentNamesReachTheStore ==
  sink # 0 /\ Alive(sink) =>
    LET store == stores[conns[sink].to]
    IN /\ 1..sent.paths \subseteq store.paths \cup UNION {f.paths : f \in Frames(sink)}
       /\ {types[i] : i \in 1..sent.types}
            \subseteq store.types \cup UNION {f.types : f \in Frames(sink)}

\* A type first used between registers_since and tracked_types has one reading
\* refused on a connection, and never a second (emit.rs:111, 129).
OneReadingUnnamedAtMost ==
  \A c \in DOMAIN conns : Pending(c) =>
    (NextFrame(c).census \ Told(c).types) \cap unnamed[c] = {}

\* missed_frames never counts what the emitter dropped: it moves only when a newer
\* connection's frame overtakes an older one's, or a handler stops with frames
\* unread (emit.rs:150-160, store.rs:201-205).  What its documents say of it is
\* GapsAreTheEmittersDrops.
GapsAreNotTheEmittersDrops ==
  \A d \in Daemons : stores[d].missed > 0 => disorder

\* The windows the emitter drained and knows it did not deliver.
GivenUp == window - seq - (IF at = "sleep" THEN 0 ELSE 1)

\* "Windows the emitter itself admits it dropped, counted from `seq` gaps"
\* (store.rs:78): no daemon counts more of them than there were (API.md:104-105,
\* lightwatch-proto/src/lib.rs:155).
GapsAreTheEmittersDrops == \A d \in Daemons : stores[d].missed <= GivenUp
=============================================================================
