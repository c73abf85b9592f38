------------------------------ MODULE Emitter -------------------------------
(***************************************************************************)
(* The probe's emit thread (crates/lightwatch-probe/src/emit.rs) over the  *)
(* interning tables of a program that keeps calling measured functions.    *)
(* One tick is drain, reach a daemon, registers_since, then tracked_types  *)
(* and send, with the program free to run between these steps.             *)
(*                                                                         *)
(* A window's counters are what it names, which is all the other end may   *)
(* refuse; the program is busy and calls all it has named in every window, *)
(* so a window names everything it could.  drain() itself is ProbeCalls'   *)
(* subject and one step here.  A connection is a number; 0 is none.        *)
(***************************************************************************)
EXTENDS Registry, FiniteSets

CONSTANTS Types,          \* the tracked types of the program
          MaxRegisters,   \* MAX_REGISTERS_PER_FRAME
          MaxWindows      \* bound: ticks

ASSUME EmitterBounds == MaxRegisters \in Nat /\ MaxWindows \in Nat

VARIABLES types,    \* TYPES: the tracked types constructed so far, in order
          at,       \* where tick stands; "sleep" between ticks
          window,   \* history: windows drained so far
          frame,    \* the frame being put together
          seq, sink, sent    \* Emitter's fields; sent counts each kind

emitterVars == <<registryVars, types, at, window, frame, seq, sink, sent>>
tickVars == <<at, window, frame, seq, sink, sent>>

NoneSent == [functions |-> 0, types |-> 0, paths |-> 0]
EmptyFrame == [window |-> 0, seq |-> 0, calls |-> {}, stacks |-> {}, census |-> {},
               functions |-> {}, types |-> {}, paths |-> {}, upto |-> NoneSent]

EmitterInit ==
  /\ RegistryInit
  /\ types = << >>
  /\ at = "sleep" /\ window = 0 /\ frame = EmptyFrame
  /\ seq = 0 /\ sink = 0 /\ sent = NoneSent

(* The program.                                                            *)

\* One activation of f under parent, from now on one of the program's contexts.
\* Bound: only the first refusal of a function is counted.
Call(f, parent) ==
  /\ InternFunction(f)
  /\ \E id \in 0..MaxPaths :
       /\ InternPath(parent, f, id)
       /\ id = 0 => ~Interned(f)
  /\ UNCHANGED <<types, tickVars>>

\* The first value of a tracked type: intern_type.
NewType(ty) ==
  /\ ty \notin Range(types)
  /\ types' = Append(types, ty)
  /\ UNCHANGED <<registryVars, tickVars>>

(* Emitter::tick.                                                          *)

\* What the busy program has recorded by now: every context it has, and path 0 for
\* the roots it was refused.
Recorded == DOMAIN nodes \cup (IF overflowed > 0 THEN {0} ELSE {})

Drain ==
  /\ at = "sleep"
  /\ window < MaxWindows
  /\ window' = window + 1
  /\ frame' = [EmptyFrame EXCEPT !.window = window + 1,
                                 !.calls = Range(functions), !.stacks = Recorded]
  /\ at' = IF sink = 0 THEN "drained" ELSE "reached"
  /\ UNCHANGED <<registryVars, types, seq, sink, sent>>

\* The counts of what was registered outlive the connection.
ConnectRemembering(c) ==
  /\ at = "drained"
  /\ sink' = c
  /\ at' = "reached"
  /\ UNCHANGED <<registryVars, types, window, frame, seq, sent>>

\* A fresh listener has never seen this process's names.
Connect(c) ==
  /\ at = "drained"
  /\ sink' = c /\ sent' = NoneSent
  /\ at' = "reached"
  /\ UNCHANGED <<registryVars, types, window, frame, seq>>

\* Nobody listens, or the hello cannot be sent: the window is gone.
GiveUp ==
  /\ at = "drained"
  /\ at' = "sleep"
  /\ frame' = EmptyFrame
  /\ UNCHANGED <<registryVars, types, window, seq, sink, sent>>

Past(s, n) == {s[i] : i \in (n + 1)..Len(s)}

\* How far the contexts get: names come first and have no ceiling.
PathsUpTo(newNames) ==
  LET room == IF newNames < MaxRegisters THEN MaxRegisters - newNames ELSE 0
  IN IF sent.paths + room < Len(nodes) THEN sent.paths + room ELSE Len(nodes)

NewNames == Len(functions) - sent.functions + Len(types) - sent.types

Named(pathsCarried, pathsCounted) ==
  [frame EXCEPT !.seq = seq,
                !.functions = Past(functions, sent.functions),
                !.types = Past(types, sent.types),
                !.paths = (sent.paths + 1)..pathsCarried,
                !.upto = [functions |-> Len(functions), types |-> Len(types),
                          paths |-> pathsCounted]]

\* Every context counted as registered, whatever the frame had room for.
RegistersSinceSkipping ==
  /\ at = "reached"
  /\ frame' = Named(PathsUpTo(NewNames), Len(nodes))
  /\ at' = "named"
  /\ UNCHANGED <<registryVars, types, window, seq, sink, sent>>

\* The tables are locked together, so the three counts are of one moment.
RegistersSince ==
  /\ at = "reached"
  /\ frame' = Named(PathsUpTo(NewNames), PathsUpTo(NewNames))
  /\ at' = "named"
  /\ UNCHANGED <<registryVars, types, window, seq, sink, sent>>

\* The counters drained after the names were read.
WithCensusThenDrain(f) ==
  [f EXCEPT !.census = Range(types), !.calls = Range(functions), !.stacks = Recorded]

\* The types the census names counted as registered.
WithCensusCounted(f) == [f EXCEPT !.census = Range(types), !.upto.types = Len(types)]

\* tracked_types looks again: a type may have been added meanwhile.
WithCensus(f) == [f EXCEPT !.census = Range(types)]

Complete == WithCensus(frame)

Sent ==
  /\ at = "named"
  /\ seq' = seq + 1
  /\ sent' = Complete.upto
  /\ at' = "sleep" /\ frame' = EmptyFrame
  /\ UNCHANGED <<registryVars, types, window, sink>>

\* The number of the frame that was lost is used up.
SendFailedCounted ==
  /\ at = "named"
  /\ sink' = 0
  /\ seq' = seq + 1
  /\ at' = "sleep" /\ frame' = EmptyFrame
  /\ UNCHANGED <<registryVars, types, window, sent>>

\* The frame kept for the next connection.
SendFailedRetried ==
  /\ at = "named"
  /\ sink' = 0
  /\ at' = "drained"
  /\ UNCHANGED <<registryVars, types, window, frame, seq, sent>>

\* Neither the number nor the counts advance; the next tick starts over.
SendFailed ==
  /\ at = "named"
  /\ sink' = 0
  /\ at' = "sleep" /\ frame' = EmptyFrame
  /\ UNCHANGED <<registryVars, types, window, seq, sent>>

=============================================================================
