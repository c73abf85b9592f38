--------------------------- MODULE PipelineProofs ---------------------------
(***************************************************************************)
(* What a probe's windows meet on their way to a daemon, for every program,*)
(* ceiling, number of daemons, connections, faults and restarts: the names *)
(* are there before what they name, the frames' numbers have no gap of the *)
(* emitter's making, and a window is in one place at a time.               *)
(***************************************************************************)
EXTENDS Pipeline, RegistryProofs

-----------------------------------------------------------------------------
(* The socket path and the port, for every number of daemons, crashes and  *)
(* restarts.                                                               *)

\* A file or a port is held by a daemon that got as far as binding it.
HoldersHaveBound ==
  /\ \A d \in Daemons : file = d => step[d] \in {"bound", "serving", "stopping"}
  /\ \A d \in Daemons : port = d => step[d] \in {"serving", "stopping"}

\* Where there is no other daemon, nobody takes the file away between two steps of bind,
\* and nobody puts one there.
Alone ==
  \A d \in Daemons : Daemons = {d} =>
    /\ step[d] \in {"probing", "unlinking"} => file # Nobody
    /\ step[d] = "rebinding" => file = Nobody
    /\ step[d] # "refused"

BindInv == BindTypeOK /\ HoldersHaveBound /\ Alone

LEMMA BindInvInit == BindInit => BindInv
BY BindSentinels, StartsBound
DEF BindInit, BindInv, BindTypeOK, Steps, HoldersHaveBound, Alone

LEMMA BindInvStep ==
  ASSUME BindInv, NEW d \in Daemons, Start(d) \/ BindStep(d) \/ Stop(d) \/ Crash(d)
  PROVE  BindInv'
<1> USE BindSentinels, StartsBound
    DEF BindInv, BindTypeOK, Steps, HoldersHaveBound, Alone, Go, FileWithout, PortWithout
<1>1. CASE Start(d)
  BY <1>1 DEF Start, Running
<1>2. CASE BindFirst(d)
  BY <1>2 DEF BindFirst
<1>3. CASE ProbeListener(d)
  <2>1. BindTypeOK' /\ HoldersHaveBound'
    BY <1>3 DEF ProbeListener
  <2>2. ASSUME NEW e \in Daemons, Daemons = {e}
        PROVE  /\ step'[e] \in {"probing", "unlinking"} => file' # Nobody
               /\ step'[e] = "rebinding" => file' = Nobody
               /\ step'[e] # "refused"
    <3>1. e = d /\ step[d] = "probing" /\ file # Nobody
      BY <1>3, <2>2 DEF ProbeListener
    <3>2. file \notin Daemons
      BY <2>2, <3>1
    <3> QED BY <1>3, <2>2, <3>1, <3>2 DEF ProbeListener
  <2> QED BY <2>1, <2>2
<1>4. CASE Unlink(d)
  <2>1. BindTypeOK' /\ HoldersHaveBound'
    BY <1>4 DEF Unlink
  <2>2. ASSUME NEW e \in Daemons, Daemons = {e}
        PROVE  /\ step'[e] \in {"probing", "unlinking"} => file' # Nobody
               /\ step'[e] = "rebinding" => file' = Nobody
               /\ step'[e] # "refused"
    BY <1>4, <2>2 DEF Unlink
  <2> QED BY <2>1, <2>2
<1>5. CASE BindAgain(d)
  BY <1>5 DEF BindAgain
<1>6. CASE BindHttp(d)
  BY <1>6 DEF BindHttp
<1>7. CASE RemoveSocket(d)
  BY <1>7 DEF RemoveSocket
<1>8. CASE Stop(d)
  BY <1>8 DEF Stop
<1>9. CASE Crash(d)
  BY <1>9 DEF Crash
<1> QED BY <1>1, <1>2, <1>3, <1>4, <1>5, <1>6, <1>7, <1>8, <1>9 DEF BindStep

LEMMA BindInvAlways == BindSpec => []BindInv
<1>1. BindInv /\ [BindNext]_bindVars => BindInv'
  <2>1. ASSUME BindInv, UNCHANGED bindVars PROVE BindInv'
    BY <2>1 DEF bindVars, BindInv, BindTypeOK, HoldersHaveBound, Alone
  <2> QED BY <2>1, BindInvStep DEF BindNext
<1> QED BY <1>1, BindInvInit, PTL DEF BindSpec

\* A socket file its daemon left behind, by a crash at any step or by a port it could not
\* have, never keeps the only daemon there is from coming up (ingest.rs:44-45).
THEOREM OnlyDaemonComesUp == BindSpec => []RefusedOnlyByAnother
<1>1. BindInv => RefusedOnlyByAnother
  BY DEF BindInv, Alone, RefusedOnlyByAnother
<1> QED BY <1>1, BindInvAlways, PTL

-----------------------------------------------------------------------------
(* Types.                                                                  *)

\* The three tables a frame registers from, by the names of its fields.
Kinds == {"functions", "types", "paths"}

Counts == [functions : Nat, types : Nat, paths : Nat]

FrameType ==
  [window : Nat, seq : Nat, calls : SUBSET Functions, stacks : SUBSET Nat,
   census : SUBSET Types, functions : SUBSET Functions, types : SUBSET Types,
   paths : SUBSET Nat, upto : Counts]

LineType == FrameType \cup {Hello, Torn}

ConnType ==
  [to : Daemons, lines : Seq(LineType), writing : BOOLEAN,
   handler : {"backlog", "streaming", "closed"}]

StoreType ==
  [functions : SUBSET Functions, types : SUBSET Types, paths : SUBSET Nat,
   seq : Nat \cup {None}, missed : Nat]

EmitterTypeOK ==
  /\ types \in Seq(Types)
  /\ at \in {"sleep", "drained", "reached", "named"}
  /\ window \in 0..MaxWindows
  /\ frame \in FrameType
  /\ seq \in Nat /\ sink \in Nat /\ sent \in Counts

WireTypeOK ==
  /\ conns \in Seq(ConnType) /\ Len(conns) <= MaxConns
  /\ stores \in [Daemons -> StoreType]
  /\ applied \in Seq(Nat)
  /\ disorder \in BOOLEAN
  /\ unnamed \in [1..MaxConns -> SUBSET Types]

\* A tick that reached a daemon holds its last connection, one that looks for a daemon none.
SinkIsLast ==
  /\ at = "drained" => sink = 0
  /\ at \in {"reached", "named"} => sink # 0
  /\ sink # 0 => sink = Len(conns)

\* The hello is read before anything else, and what a handler drops is gone.
HelloFirst ==
  \A c \in DOMAIN conns :
    /\ conns[c].handler = "backlog" => conns[c].lines # << >> /\ conns[c].lines[1] = Hello
    /\ \A i \in DOMAIN conns[c].lines :
         conns[c].lines[i] = Hello => i = 1 /\ conns[c].handler = "backlog"
    /\ conns[c].handler = "closed" => conns[c].lines = << >>

PipelineTypeOK ==
  RegistryInv /\ BindInv /\ EmitterTypeOK /\ WireTypeOK /\ SinkIsLast /\ HelloFirst

-----------------------------------------------------------------------------
(* The frames on the wire.                                                 *)

Line(c, i) == conns[c].lines[i]
To(c) == conns[c].to
OnWire(c, i) ==
  /\ c \in DOMAIN conns /\ i \in DOMAIN conns[c].lines
  /\ Line(c, i) \notin {Hello, Torn}

\* Which of two positions is read first where both are read in order.
Before(c, i, e, j) == c < e \/ (c = e /\ i < j)

-----------------------------------------------------------------------------
(* Names.                                                                  *)

\* The n-th name of a kind, and how many there are.
Name(kind, n) ==
  CASE kind = "functions" -> functions[n] [] kind = "types" -> types[n] [] OTHER -> n
Size(kind) ==
  CASE kind = "functions" -> Len(functions) [] kind = "types" -> Len(types) [] OTHER -> Len(nodes)

\* The first n names of a kind.
First(kind, n) == {Name(kind, m) : m \in 1..n}

\* What a frame names is no newer than the counts it was given; a context within them has
\* its function within them.
FrameTrue(f) ==
  /\ \A kind \in Kinds : f.upto[kind] <= Size(kind)
  /\ f.calls \subseteq First("functions", f.upto.functions)
  /\ \A p \in 1..f.upto.paths : nodes[p].func \in First("functions", f.upto.functions)
  /\ f.paths \subseteq 1..f.upto.paths
  /\ f.census \subseteq Range(types)

FramesTrue ==
  /\ \A c, i \in Nat : OnWire(c, i) => FrameTrue(Line(c, i))
  /\ at = "named" => FrameTrue(frame)
  /\ frame.calls \subseteq Range(functions) /\ frame.census = {}

\* What a frame was counted up to is known by the time it is applied.
Covered ==
  \A c, i \in Nat, kind \in Kinds : OnWire(c, i) =>
    \A name \in First(kind, Line(c, i).upto[kind]) :
      \/ name \in stores[To(c)][kind]
      \/ \E j \in 1..i : OnWire(c, j) /\ name \in Line(c, j)[kind]

\* What the emitter counts as sent is known or under way, and the frame it holds has the rest.
SentCovered ==
  /\ \A kind \in Kinds : sent[kind] <= Size(kind)
  /\ sink # 0 /\ Alive(sink) => \A kind \in Kinds : \A name \in First(kind, sent[kind]) :
       \/ name \in stores[To(sink)][kind]
       \/ \E j \in Nat : OnWire(sink, j) /\ name \in Line(sink, j)[kind]
  /\ at = "named" => \A kind \in Kinds :
       First(kind, frame.upto[kind]) \subseteq First(kind, sent[kind]) \cup frame[kind]

NamesInv == FramesTrue /\ Covered /\ SentCovered

-----------------------------------------------------------------------------
(* Readings.  A type whose reading was refused, or may be, is among those  *)
(* the next frame on the connection has counted.                           *)

ReadingsInv ==
  /\ \A c \in 1..MaxConns : unnamed[c] \subseteq Range(types)
  /\ \A c, i \in Nat : OnWire(c, i) =>
       /\ unnamed[c] \subseteq First("types", Line(c, i).upto.types)
       /\ \A j \in Nat : OnWire(c, j) /\ i < j =>
            Line(c, i).census \subseteq First("types", Line(c, j).upto.types)
  /\ at = "named" =>
       /\ unnamed[sink] \subseteq First("types", frame.upto.types)
       /\ \A i \in Nat : OnWire(sink, i) =>
            Line(sink, i).census \subseteq First("types", frame.upto.types)

-----------------------------------------------------------------------------
(* Numbers.                                                                *)

\* A daemon with no file at the path yet has met nobody.
Unmet(d) ==
  /\ stores[d] = Fresh
  /\ \A c \in DOMAIN conns : To(c) = d => conns[c].handler = "closed"

MetAfterBinding ==
  /\ \A d \in Daemons :
       step[d] \notin {"bound", "serving", "stopping"} => Unmet(d)
  /\ sink # 0 /\ file \in Daemons /\ file # To(sink) => Unmet(file)

\* The numbers daemon d has seen last, or is to read.
Numbered(d, n) ==
  \/ stores[d].seq = n
  \/ \E c, i \in Nat : OnWire(c, i) /\ To(c) = d /\ Line(c, i).seq = n

\* The daemon the emitter talks to, or would.
Current(d) == file = d \/ (sink # 0 /\ To(sink) = d)

\* Where nothing was overtaken or dropped, the frames to a daemon lie in the order of
\* their numbers and none is left out, up to the emitter's for the one it talks to.
InTurn ==
  /\ at = "named" => frame.seq = seq
  /\ \A d \in Daemons, n \in Nat : Numbered(d, n) => n <= seq
  /\ ~disorder =>
       /\ \A d \in Daemons : stores[d].missed = 0
       /\ \A c, i \in Nat : OnWire(c, i) =>
            /\ stores[To(c)].seq # None => stores[To(c)].seq <= Line(c, i).seq
            /\ \A e, j \in Nat : OnWire(e, j) /\ To(e) = To(c) /\ Before(c, i, e, j) =>
                 Line(c, i).seq <= Line(e, j).seq
       /\ \A d \in Daemons, n, m, k \in Nat :
            /\ Numbered(d, n) /\ n < k /\ k < m
            /\ Numbered(d, m) \/ (m = seq /\ Current(d))
            => Numbered(d, k)

NumbersInv == MetAfterBinding /\ InTurn

-----------------------------------------------------------------------------
(* Windows: in the emitter's hands, on one connection, or applied.         *)

WindowsInv ==
  /\ \A i \in DOMAIN applied : applied[i] \in 1..window
  /\ at # "sleep" => window > 0 /\ frame.window = window /\ window \notin Range(applied)
  /\ \A c, i \in Nat : OnWire(c, i) =>
       /\ Line(c, i).window \in 1..window
       /\ Line(c, i).window \notin Range(applied)
       /\ at # "sleep" => Line(c, i).window # window
       /\ \A e, j \in Nat : OnWire(e, j) /\ Line(e, j).window = Line(c, i).window =>
            e = c /\ j = i

PipelineInv == PipelineTypeOK /\ NamesInv /\ ReadingsInv /\ NumbersInv /\ WindowsInv

-----------------------------------------------------------------------------
(* The wire, and what the steps do to it.                                  *)

LEMMA MarksAreNoFrames == Hello # Torn /\ \A f \in FrameType : f # Hello /\ f # Torn
<1>1. Hello # Torn
  BY DEF Hello, Torn
<1>2. \A f \in FrameType : f # Hello /\ f # Torn
  BY DEF FrameType, Hello, Torn
<1> QED BY <1>1, <1>2

LEMMA ConnFacts ==
  ASSUME WireTypeOK
  PROVE  /\ Len(conns) \in Nat /\ DOMAIN conns = 1..Len(conns)
         /\ \A c \in DOMAIN conns :
              /\ conns[c] \in ConnType /\ To(c) \in Daemons
              /\ conns[c].lines \in Seq(LineType) /\ Len(conns[c].lines) \in Nat
              /\ DOMAIN conns[c].lines = 1..Len(conns[c].lines)
<1>1. Len(conns) \in Nat /\ DOMAIN conns = 1..Len(conns) /\ conns \in [1..Len(conns) -> ConnType]
  BY LenProperties DEF WireTypeOK
<1>2. ASSUME NEW c \in DOMAIN conns
      PROVE  /\ conns[c] \in ConnType /\ To(c) \in Daemons
             /\ conns[c].lines \in Seq(LineType) /\ Len(conns[c].lines) \in Nat
             /\ DOMAIN conns[c].lines = 1..Len(conns[c].lines)
  <2>1. conns[c] \in ConnType
    BY <1>1
  <2>2. conns[c].lines \in Seq(LineType) /\ To(c) \in Daemons
    BY <2>1 DEF ConnType, To
  <2> QED BY <2>1, <2>2, LenProperties
<1> QED BY <1>1, <1>2

LEMMA OnWireFacts ==
  ASSUME WireTypeOK, HelloFirst, NEW c, NEW i, OnWire(c, i)
  PROVE  /\ c \in DOMAIN conns /\ c \in Nat /\ c > 0 /\ c <= Len(conns) /\ To(c) \in Daemons
         /\ i \in Nat /\ i > 0 /\ i <= Len(conns[c].lines)
         /\ Line(c, i) \in FrameType /\ Alive(c)
<1>1. c \in DOMAIN conns /\ i \in DOMAIN conns[c].lines /\ Line(c, i) \notin {Hello, Torn}
  BY DEF OnWire
<1>2. /\ c \in 1..Len(conns) /\ Len(conns) \in Nat
      /\ i \in 1..Len(conns[c].lines) /\ Len(conns[c].lines) \in Nat
      /\ conns[c].lines \in Seq(LineType) /\ To(c) \in Daemons
  BY <1>1, ConnFacts
<1>3. Line(c, i) \in LineType
  BY <1>2, LenProperties DEF Line
<1>4. Alive(c)
  <2>1. conns[c].lines # << >>
    BY <1>2, EmptySeq
  <2> QED BY <1>1, <2>1 DEF HelloFirst, Alive
<1> QED BY <1>1, <1>2, <1>3, <1>4 DEF LineType

\* One connection changes, and its peer does not.
LEMMA OneConnChanges ==
  ASSUME WireTypeOK, NEW s \in DOMAIN conns, NEW conn \in ConnType,
         conn.to = conns[s].to, conns' = [conns EXCEPT ![s] = conn]
  PROVE  /\ conns' \in Seq(ConnType) /\ Len(conns') = Len(conns)
         /\ DOMAIN conns' = DOMAIN conns
         /\ conns'[s] = conn /\ \A c \in DOMAIN conns : c # s => conns'[c] = conns[c]
         /\ \A c \in DOMAIN conns : To(c)' = To(c)
         /\ \A c \in Nat : c # s => Alive(c)' = Alive(c)
<1>1. /\ s \in 1..Len(conns) /\ DOMAIN conns = 1..Len(conns) /\ conns \in Seq(ConnType)
      /\ Len(conns) \in Nat
  BY ConnFacts DEF WireTypeOK
<1>2. /\ conns' \in Seq(ConnType) /\ Len(conns') = Len(conns)
      /\ \A c \in 1..Len(conns) : conns'[c] = IF c = s THEN conn ELSE conns[c]
  BY <1>1, ExceptSeq
<1>3. DOMAIN conns' = DOMAIN conns
  OBVIOUS
<1>4. \A c : c # s => conns'[c] = conns[c]
  OBVIOUS
<1> QED BY <1>1, <1>2, <1>3 DEF To, Alive

\* A line is written to a connection whose handler still reads.
LEMMA AppendWire ==
  ASSUME WireTypeOK, HelloFirst, NEW s \in DOMAIN conns, Alive(s),
         NEW line \in LineType, line # Hello, NEW writing \in BOOLEAN,
         conns' = [conns EXCEPT ![s] =
                     [conns[s] EXCEPT !.lines = Append(@, line), !.writing = writing]]
  PROVE  /\ conns' \in Seq(ConnType) /\ Len(conns') = Len(conns) /\ HelloFirst'
         /\ \A c \in DOMAIN conns : To(c)' = To(c) /\ Alive(c)' = Alive(c)
         /\ \A c, i : OnWire(c, i)' <=>
              OnWire(c, i) \/ (c = s /\ i = Len(conns[s].lines) + 1 /\ line # Torn)
         /\ \A c, i : OnWire(c, i) => Line(c, i)' = Line(c, i)
         /\ \A i : i = Len(conns[s].lines) + 1 => Line(s, i)' = line
<1>0. PICK lines, n, new : lines = conns[s].lines /\ n = Len(lines) /\ new = Append(lines, line)
  OBVIOUS
<1> DEFINE conn == [conns[s] EXCEPT !.lines = Append(@, line), !.writing = writing]
<1>1. /\ conns[s] \in ConnType /\ lines \in Seq(LineType) /\ n \in Nat
      /\ DOMAIN lines = 1..n /\ (n = 0 => lines = << >>)
  BY <1>0, ConnFacts, EmptySeq
<1>2. /\ new \in Seq(LineType) /\ new # << >>
      /\ \A i \in 1..n : new[i] = lines[i]
      /\ new[n + 1] = line
      /\ DOMAIN new = 1..(n + 1)
  <2>1. /\ new \in Seq(LineType) /\ Len(new) = n + 1
        /\ \A i \in 1..n : new[i] = lines[i]
        /\ new[n + 1] = line
    BY <1>0, <1>1, AppendProperties
  <2> QED BY <1>1, <2>1, LenProperties, EmptySeq
<1>3. /\ conn \in ConnType /\ conn.to = conns[s].to /\ conn.handler = conns[s].handler
      /\ conn.lines = new
  BY <1>0, <1>1, <1>2 DEF ConnType
<1>4. /\ conns' \in Seq(ConnType) /\ Len(conns') = Len(conns) /\ DOMAIN conns' = DOMAIN conns
      /\ conns'[s] = conn /\ \A c \in DOMAIN conns : c # s => conns'[c] = conns[c]
      /\ \A c \in DOMAIN conns : To(c)' = To(c)
  <2>1. conns' = [conns EXCEPT ![s] = conn]
    OBVIOUS
  <2> HIDE DEF conn
  <2> QED BY <1>3, <2>1, OneConnChanges
<1>5. \A c \in DOMAIN conns : Alive(c)' = Alive(c)
  BY <1>3, <1>4 DEF Alive
<1> HIDE DEF conn
<1>6. HelloFirst'
  <2> SUFFICES ASSUME NEW c \in DOMAIN conns
               PROVE  /\ conns'[c].handler = "backlog" =>
                           conns'[c].lines # << >> /\ conns'[c].lines[1] = Hello
                      /\ \A i \in DOMAIN conns'[c].lines :
                           conns'[c].lines[i] = Hello => i = 1 /\ conns'[c].handler = "backlog"
                      /\ conns'[c].handler = "closed" => conns'[c].lines = << >>
    BY <1>4 DEF HelloFirst
  <2>1. CASE c # s
    BY <1>4, <2>1 DEF HelloFirst
  <2>2. CASE c = s
    <3>1. conns'[c].lines = new /\ conns'[c].handler = conns[s].handler
      BY <1>3, <1>4, <2>2
    <3>2. /\ conns[s].handler # "closed"
          /\ conns[s].handler = "backlog" => n > 0 /\ lines[1] = Hello
          /\ \A i \in 1..n : lines[i] = Hello => i = 1 /\ conns[s].handler = "backlog"
      BY <1>0, <1>1 DEF HelloFirst, Alive
    <3> QED BY <1>1, <1>2, <3>1, <3>2
  <2> QED BY <2>1, <2>2
<1>7. \A c, i : c # s => /\ OnWire(c, i)' <=> OnWire(c, i)
                         /\ OnWire(c, i) => Line(c, i)' = Line(c, i)
  BY <1>4 DEF OnWire, Line
<1>8. \A c, i : c = s =>
        /\ OnWire(c, i)' <=> i \in 1..(n + 1) /\ new[i] \notin {Hello, Torn}
        /\ OnWire(c, i) <=> i \in 1..n /\ lines[i] \notin {Hello, Torn}
        /\ Line(c, i)' = new[i] /\ Line(c, i) = lines[i]
  BY <1>0, <1>1, <1>2, <1>3, <1>4 DEF OnWire, Line, Hello, Torn
<1>9. \A c, i : c = s =>
        /\ OnWire(c, i)' <=> OnWire(c, i) \/ (i = n + 1 /\ line # Torn)
        /\ OnWire(c, i) => Line(c, i)' = Line(c, i)
  BY <1>1, <1>2, <1>8
<1>10. \A c, i : /\ OnWire(c, i)' <=> OnWire(c, i) \/ (c = s /\ i = n + 1 /\ line # Torn)
                 /\ OnWire(c, i) => Line(c, i)' = Line(c, i)
  BY <1>7, <1>9
<1>11. \A i : i = n + 1 => Line(s, i)' = line
  BY <1>2, <1>8
<1> QED BY <1>0, <1>4, <1>5, <1>6, <1>10, <1>11

\* A handler reads the line at the head of its connection.
LEMMA PopWire ==
  ASSUME WireTypeOK, HelloFirst, NEW s \in DOMAIN conns, conns[s].lines # << >>,
         conns' = [conns EXCEPT ![s] =
                     [conns[s] EXCEPT !.lines = Tail(@), !.handler = "streaming"]]
  PROVE  /\ conns' \in Seq(ConnType) /\ Len(conns') = Len(conns) /\ HelloFirst'
         /\ \A c \in DOMAIN conns : To(c)' = To(c) /\ Alive(c)' = Alive(c)
         /\ Line(s, 1) = Head(conns[s].lines)
         /\ \A i : OnWire(s, i)' <=> i \in Nat /\ i > 0 /\ OnWire(s, i + 1)
         /\ \A i : OnWire(s, i)' => Line(s, i)' = Line(s, i + 1)
         /\ \A c, i : c # s => /\ OnWire(c, i)' <=> OnWire(c, i)
                               /\ OnWire(c, i) => Line(c, i)' = Line(c, i)
<1>0. PICK lines, n, new : lines = conns[s].lines /\ n = Len(lines) /\ new = Tail(lines)
  OBVIOUS
<1> DEFINE conn == [conns[s] EXCEPT !.lines = Tail(@), !.handler = "streaming"]
<1>1. /\ conns[s] \in ConnType /\ lines \in Seq(LineType) /\ n \in Nat /\ n > 0
      /\ DOMAIN lines = 1..n
  BY <1>0, ConnFacts, EmptySeq
<1>2. /\ new \in Seq(LineType)
      /\ \A i \in 1..(n - 1) : new[i] = lines[i + 1]
      /\ DOMAIN new = 1..(n - 1)
  <2>1. /\ new \in Seq(LineType) /\ Len(new) = n - 1
        /\ \A i \in 1..Len(new) : new[i] = lines[i + 1]
    BY <1>0, <1>1, HeadTailProperties
  <2> QED BY <2>1, LenProperties
<1>3. /\ conn \in ConnType /\ conn.to = conns[s].to /\ conn.handler = "streaming"
      /\ conn.lines = new
  BY <1>0, <1>1, <1>2 DEF ConnType
<1>4. /\ conns' \in Seq(ConnType) /\ Len(conns') = Len(conns) /\ DOMAIN conns' = DOMAIN conns
      /\ conns'[s] = conn /\ \A c \in DOMAIN conns : c # s => conns'[c] = conns[c]
      /\ \A c \in DOMAIN conns : To(c)' = To(c)
  <2>1. conns' = [conns EXCEPT ![s] = conn]
    OBVIOUS
  <2> HIDE DEF conn
  <2> QED BY <1>3, <2>1, OneConnChanges
<1>5. \A c \in DOMAIN conns : Alive(c)' = Alive(c)
  BY <1>3, <1>4 DEF Alive, HelloFirst
<1> HIDE DEF conn
<1>6. HelloFirst'
  <2> SUFFICES ASSUME NEW c \in DOMAIN conns
               PROVE  /\ conns'[c].handler = "backlog" =>
                           conns'[c].lines # << >> /\ conns'[c].lines[1] = Hello
                      /\ \A i \in DOMAIN conns'[c].lines :
                           conns'[c].lines[i] = Hello => i = 1 /\ conns'[c].handler = "backlog"
                      /\ conns'[c].handler = "closed" => conns'[c].lines = << >>
    BY <1>4 DEF HelloFirst
  <2>1. CASE c # s
    BY <1>4, <2>1 DEF HelloFirst
  <2>2. CASE c = s
    <3>1. conns'[c].lines = new /\ conns'[c].handler = "streaming"
      BY <1>3, <1>4, <2>2
    <3>2. \A i \in 1..n : lines[i] = Hello => i = 1
      BY <1>0, <1>1 DEF HelloFirst
    <3>3. ASSUME NEW i \in 1..(n - 1) PROVE new[i] # Hello
      <4>1. i + 1 \in 1..n /\ i + 1 # 1
        BY <1>1
      <4> QED BY <1>2, <3>2, <4>1
    <3> QED BY <1>2, <3>1, <3>3
  <2> QED BY <2>1, <2>2
<1>7. \A c, i : c # s => /\ OnWire(c, i)' <=> OnWire(c, i)
                         /\ OnWire(c, i) => Line(c, i)' = Line(c, i)
  BY <1>4 DEF OnWire, Line
<1>8. \A i : /\ OnWire(s, i)' <=> i \in 1..(n - 1) /\ new[i] \notin {Hello, Torn}
             /\ OnWire(s, i) <=> i \in 1..n /\ lines[i] \notin {Hello, Torn}
             /\ Line(s, i)' = new[i] /\ Line(s, i) = lines[i]
  BY <1>0, <1>1, <1>2, <1>3, <1>4 DEF OnWire, Line, Hello, Torn
<1>9. \A i : /\ OnWire(s, i)' <=> i \in Nat /\ i > 0 /\ OnWire(s, i + 1)
             /\ OnWire(s, i)' => Line(s, i)' = Line(s, i + 1)
  BY <1>1, <1>2, <1>8
<1>10. Line(s, 1) = Head(conns[s].lines)
  BY <1>0, <1>1, <1>8
<1> QED BY <1>4, <1>5, <1>6, <1>7, <1>9, <1>10

\* A connection is opened with the hello on it.
LEMMA OpenWire ==
  ASSUME WireTypeOK, HelloFirst, NEW d \in Daemons,
         conns' = Append(conns, [to |-> d, lines |-> <<Hello>>, writing |-> TRUE,
                                 handler |-> "backlog"])
  PROVE  /\ conns' \in Seq(ConnType) /\ Len(conns') = Len(conns) + 1 /\ HelloFirst'
         /\ \A c \in DOMAIN conns : conns'[c] = conns[c]
         /\ \A c \in DOMAIN conns : To(c)' = To(c) /\ Alive(c)' = Alive(c)
         /\ \A c : c = Len(conns) + 1 => To(c)' = d
         /\ \A c, i : OnWire(c, i)' <=> OnWire(c, i)
         /\ \A c, i : OnWire(c, i) => Line(c, i)' = Line(c, i)
<1>0. PICK n, conn : /\ n = Len(conns)
                     /\ conn = [to |-> d, lines |-> <<Hello>>, writing |-> TRUE,
                                handler |-> "backlog"]
  OBVIOUS
<1>1. conn \in ConnType
  <2>1. <<Hello>> \in Seq(LineType)
    BY DEF LineType
  <2> QED BY <1>0, <2>1 DEF ConnType
<1>2. conns \in Seq(ConnType) /\ n \in Nat /\ DOMAIN conns = 1..n
  BY <1>0, ConnFacts DEF WireTypeOK
<1>3. /\ conns' \in Seq(ConnType) /\ Len(conns') = n + 1
      /\ \A c \in 1..n : conns'[c] = conns[c]
      /\ conns'[n + 1] = conn
      /\ DOMAIN conns' = 1..(n + 1)
  <2>1. /\ conns' \in Seq(ConnType) /\ Len(conns') = n + 1
        /\ \A c \in 1..n : conns'[c] = conns[c]
        /\ conns'[n + 1] = conn
    BY <1>0, <1>1, <1>2, AppendProperties
  <2> QED BY <2>1, LenProperties
<1>4. conn.lines = <<Hello>> /\ conn.handler = "backlog" /\ conn.to = d
  BY <1>0
<1>5. HelloFirst'
  <2> SUFFICES ASSUME NEW c \in 1..(n + 1)
               PROVE  /\ conns'[c].handler = "backlog" =>
                           conns'[c].lines # << >> /\ conns'[c].lines[1] = Hello
                      /\ \A i \in DOMAIN conns'[c].lines :
                           conns'[c].lines[i] = Hello => i = 1 /\ conns'[c].handler = "backlog"
                      /\ conns'[c].handler = "closed" => conns'[c].lines = << >>
    BY <1>3 DEF HelloFirst
  <2>1. CASE c \in 1..n
    BY <1>2, <1>3, <2>1 DEF HelloFirst
  <2>2. CASE c = n + 1
    BY <1>3, <1>4, <2>2
  <2> QED BY <1>2, <2>1, <2>2
<1>6. \A c, i : OnWire(c, i)' <=> OnWire(c, i)
  <2>1. \A i : ~OnWire(n + 1, i)
    BY <1>2 DEF OnWire
  <2>2. ASSUME NEW c, NEW i, c = n + 1 PROVE ~OnWire(c, i)'
    BY <1>3, <1>4, <2>2 DEF OnWire, Line
  <2>3. ASSUME NEW c, NEW i, c # n + 1 PROVE OnWire(c, i)' <=> OnWire(c, i)
    <3>1. c \in DOMAIN conns' <=> c \in DOMAIN conns
      BY <1>2, <1>3, <2>3
    <3>2. c \in DOMAIN conns => conns'[c] = conns[c]
      BY <1>2, <1>3
    <3>3. Hello' = Hello /\ Torn' = Torn
      BY DEF Hello, Torn
    <3> QED BY <3>1, <3>2, <3>3 DEF OnWire, Line
  <2> QED BY <2>1, <2>2, <2>3
<1>7. \A c, i : OnWire(c, i) => Line(c, i)' = Line(c, i)
  BY <1>2, <1>3 DEF OnWire, Line
<1>8. \A c : c = n + 1 => To(c)' = d
  BY <1>3, <1>4 DEF To
<1> QED BY <1>0, <1>2, <1>3, <1>5, <1>6, <1>7, <1>8 DEF To, Alive

\* Connections end: their handlers go, with what they have not read.
LEMMA DropWire ==
  ASSUME WireTypeOK, HelloFirst, NEW dropped \in SUBSET DOMAIN conns,
         conns' \in [DOMAIN conns -> ConnType],
         \A c \in dropped : To(c)' = To(c) /\ ~Alive(c)' /\ conns'[c].lines = << >>,
         \A c \in DOMAIN conns \ dropped : conns'[c] = conns[c]
  PROVE  /\ conns' \in Seq(ConnType) /\ Len(conns') = Len(conns) /\ HelloFirst'
         /\ \A c \in DOMAIN conns : To(c)' = To(c)
         /\ \A c \in DOMAIN conns : Alive(c)' <=> Alive(c) /\ c \notin dropped
         /\ \A c, i : OnWire(c, i)' <=> OnWire(c, i) /\ c \notin dropped
         /\ \A c, i : OnWire(c, i)' => Line(c, i)' = Line(c, i)
<1>1. PICK n \in Nat : n = Len(conns) /\ DOMAIN conns = 1..n
  BY ConnFacts
<1>2. conns' \in Seq(ConnType) /\ DOMAIN conns' = 1..n
  BY <1>1, SeqDef
<1>3. Len(conns') = n
  BY <1>1, <1>2, LenProperties
<1>4. HelloFirst'
  <2>1. \A c \in dropped : conns'[c].handler = "closed"
    BY DEF Alive
  <2>2. DOMAIN << >> = {}
    OBVIOUS
  <2>3. ASSUME NEW c \in DOMAIN conns, c \notin dropped
        PROVE  conns'[c] = conns[c]
    BY <2>3
  <2> QED BY <1>1, <1>2, <2>1, <2>2, <2>3 DEF HelloFirst
<1>5. \A c, i : OnWire(c, i)' <=> OnWire(c, i) /\ c \notin dropped
  <2>1. Hello' = Hello /\ Torn' = Torn
    BY DEF Hello, Torn
  <2>2. ASSUME NEW c \in dropped, NEW i PROVE ~OnWire(c, i)'
    BY <2>2 DEF OnWire
  <2>3. ASSUME NEW c, c \notin dropped, NEW i PROVE OnWire(c, i)' <=> OnWire(c, i)
    BY <1>1, <1>2, <2>1, <2>3 DEF OnWire, Line
  <2> QED BY <2>2, <2>3
<1>6. \A c, i : OnWire(c, i)' => Line(c, i)' = Line(c, i)
  BY <1>5 DEF OnWire, Line
<1>7. \A c \in DOMAIN conns : To(c)' = To(c) /\ (Alive(c)' <=> Alive(c) /\ c \notin dropped)
  <2>1. ASSUME NEW c \in DOMAIN conns, c \notin dropped
        PROVE  To(c)' = To(c) /\ Alive(c)' = Alive(c)
    BY <2>1 DEF To, Alive
  <2> QED BY <2>1
<1> QED BY <1>1, <1>2, <1>3, <1>4, <1>5, <1>6, <1>7

-----------------------------------------------------------------------------
(* The tables only grow.                                                   *)

TablesGrow ==
  /\ \A kind \in Kinds :
       /\ Size(kind) \in Nat /\ Size(kind)' \in Nat /\ Size(kind) <= Size(kind)'
       /\ \A n \in 1..Size(kind) : Name(kind, n)' = Name(kind, n)
  /\ Kept

TablesOK == RegistryInv /\ types \in Seq(Types)

LEMMA TableFacts ==
  ASSUME TablesOK
  PROVE  /\ \A kind \in Kinds : Size(kind) \in Nat
         /\ Range(functions) = First("functions", Len(functions))
         /\ Range(types) = First("types", Len(types))
         /\ Range(functions) \subseteq Functions /\ Range(types) \subseteq Types
         /\ \A p \in 1..Len(nodes) : nodes[p].parent \in 0..(p - 1) /\ nodes[p].func \in Range(functions)
         /\ DOMAIN nodes = 1..Len(nodes) /\ Len(nodes) <= MaxPaths
         /\ Len(functions) \in Nat /\ Len(types) \in Nat /\ Len(nodes) \in Nat
         /\ Recorded \subseteq Nat
<1>1. /\ functions \in Seq(Functions) /\ types \in Seq(Types) /\ nodes \in Seq(NodeType)
      /\ Len(nodes) <= MaxPaths /\ PathForest
  BY DEF TablesOK, RegistryInv, RegistryTypeOK
<1>2. /\ Len(functions) \in Nat /\ DOMAIN functions = 1..Len(functions)
      /\ functions \in [1..Len(functions) -> Functions]
  BY <1>1, LenProperties
<1>3. /\ Len(types) \in Nat /\ DOMAIN types = 1..Len(types)
      /\ types \in [1..Len(types) -> Types]
  BY <1>1, LenProperties
<1>4. /\ Len(nodes) \in Nat /\ DOMAIN nodes = 1..Len(nodes)
      /\ nodes \in [1..Len(nodes) -> NodeType]
  BY <1>1, LenProperties
<1>5. /\ Range(functions) = First("functions", Len(functions))
      /\ Range(types) = First("types", Len(types))
  BY <1>2, <1>3 DEF Range, First, Name
<1>6. Range(functions) \subseteq Functions /\ Range(types) \subseteq Types
  BY <1>2, <1>3 DEF Range
<1>7. \A p \in 1..Len(nodes) : nodes[p].parent \in 0..(p - 1) /\ nodes[p].func \in Range(functions)
  <2> TAKE p \in 1..Len(nodes)
  <2>1. nodes[p] \in NodeType /\ nodes[p].parent < p /\ Interned(nodes[p].func)
    BY <1>1, <1>4 DEF PathForest
  <2> QED BY <1>4, <2>1, MaxPathsAssumption DEF NodeType, Interned
<1>8. \A kind \in Kinds : Size(kind) \in Nat
  BY <1>2, <1>3, <1>4 DEF Kinds, Size
<1> QED BY <1>1, <1>2, <1>3, <1>4, <1>5, <1>6, <1>7, <1>8 DEF Recorded

LEMMA TablesStay ==
  ASSUME TablesOK, UNCHANGED <<registryVars, types>>
  PROVE  TablesOK' /\ TablesGrow
<1>1. UNCHANGED <<functions, nodes, overflowed, types>>
  BY DEF registryVars
<1>2. TablesOK'
  BY <1>1 DEF TablesOK, RegistryInv, RegistryTypeOK, PathForest, Interned
<1>3. \A kind \in Kinds : Size(kind)' = Size(kind) /\ \A n : Name(kind, n)' = Name(kind, n)
  BY <1>1 DEF Kinds, Size, Name
<1>4. Kept
  BY <1>1, TableFacts DEF Kept
<1> QED BY <1>2, <1>3, <1>4, TableFacts DEF TablesGrow

LEMMA FirstGrows ==
  ASSUME TablesGrow, NEW kind \in Kinds, NEW n \in Nat, n <= Size(kind)
  PROVE  First(kind, n)' = First(kind, n)
BY DEF TablesGrow, First

\* One call interns a function and a context, under two locks nothing else is behind.
LEMMA CallGrows ==
  ASSUME TablesOK, NEW f \in Functions, NEW parent \in {0} \cup DOMAIN nodes, Call(f, parent)
  PROVE  TablesOK' /\ TablesGrow
<1>1. /\ functions \in Seq(Functions) /\ RegistryInv /\ types \in Seq(Types)
      /\ types' = types /\ InternFunction(f)
  BY DEF TablesOK, RegistryInv, RegistryTypeOK, Call
<1>2. /\ functions' \in Seq(Functions) /\ Len(functions) <= Len(functions')
      /\ \A i \in 1..Len(functions) : functions'[i] = functions[i]
      /\ Interned(f)' /\ \A g : Interned(g) => Interned(g)'
  BY <1>1, InternFunctionNumbers
<1>3. parent \in 0..Len(nodes)
  BY TableFacts
<1>4. PICK id \in 0..MaxPaths : InternPath(parent, f, id)
  BY DEF Call
<1>5. RegistryInv' /\ Kept
  BY <1>1, <1>2, <1>3, <1>4, InternPathKeeps
<1>6. TablesOK'
  BY <1>1, <1>5 DEF TablesOK
<1>7. \A kind \in Kinds : Size(kind) \in Nat /\ Size(kind)' \in Nat
  <2>1. Len(functions') \in Nat /\ Len(types') \in Nat /\ Len(nodes') \in Nat
    BY <1>6, LenProperties DEF TablesOK, RegistryInv, RegistryTypeOK
  <2> QED BY <2>1, TableFacts DEF Kinds, Size
<1>8. \A kind \in Kinds :
        Size(kind) <= Size(kind)' /\ \A n \in 1..Size(kind) : Name(kind, n)' = Name(kind, n)
  BY <1>1, <1>2, <1>5, TableFacts DEF Kinds, Size, Name, Kept
<1> QED BY <1>5, <1>6, <1>7, <1>8 DEF TablesGrow

LEMMA NewTypeGrows ==
  ASSUME TablesOK, NEW ty \in Types, NewType(ty)
  PROVE  TablesOK' /\ TablesGrow
<1>1. UNCHANGED <<functions, nodes, overflowed>> /\ types' = Append(types, ty)
  BY DEF NewType, registryVars
<1>2. /\ types' \in Seq(Types) /\ Len(types') = Len(types) + 1
      /\ \A n \in 1..Len(types) : types'[n] = types[n]
  BY <1>1, AppendProperties DEF TablesOK
<1>3. TablesOK'
  BY <1>1, <1>2 DEF TablesOK, RegistryInv, RegistryTypeOK, PathForest, Interned
<1>4. Kept
  BY <1>1, TableFacts DEF Kept
<1>5. \A kind \in Kinds :
        /\ Size(kind) \in Nat /\ Size(kind)' \in Nat /\ Size(kind) <= Size(kind)'
        /\ \A n \in 1..Size(kind) : Name(kind, n)' = Name(kind, n)
  BY <1>1, <1>2, TableFacts DEF Kinds, Size, Name
<1> QED BY <1>3, <1>4, <1>5 DEF TablesGrow

LEMMA ProgramGrows ==
  ASSUME TablesOK, Program
  PROVE  TablesOK' /\ TablesGrow
<1>1. NextNew \subseteq Functions /\ Range(functions) \subseteq Functions
  <2>1. NextNew \subseteq Functions
    BY DEF NextNew
  <2> QED BY <2>1, TableFacts
<1> QED BY <1>1, CallGrows, NewTypeGrows DEF Program

-----------------------------------------------------------------------------
(* Steps that bring nothing new on the wire: a handler may have read a     *)
(* mark, and connections may have ended.                                   *)

Quiet(off, dropped) ==
  /\ off \in [Nat -> {0, 1}]
  /\ \A c, i : OnWire(c, i)' <=> i \in Nat /\ i > 0 /\ c \notin dropped /\ OnWire(c, i + off[c])
  /\ \A c, i : OnWire(c, i)' => Line(c, i)' = Line(c, i + off[c])
  /\ \A c, i : OnWire(c, i) => i > off[c]
  /\ DOMAIN conns \subseteq DOMAIN conns'
  /\ \A c \in DOMAIN conns : To(c)' = To(c) /\ (Alive(c)' <=> Alive(c) /\ c \notin dropped)
  /\ \A c \in DOMAIN conns \ dropped : stores'[To(c)] = stores[To(c)]

\* Nothing was lost with the connections that ended.
Undropped(dropped) == \A c, i : OnWire(c, i) => c \notin dropped

\* The wire is as it was, whatever else a handler or the emitter did.
LEMMA SameWireIsQuiet ==
  ASSUME WireTypeOK, HelloFirst, DOMAIN conns \subseteq DOMAIN conns', stores' = stores,
         \A c \in DOMAIN conns : To(c)' = To(c) /\ Alive(c)' = Alive(c),
         \A c, i : OnWire(c, i)' <=> OnWire(c, i),
         \A c, i : OnWire(c, i) => Line(c, i)' = Line(c, i)
  PROVE  \E off : Quiet(off, {})
<1> DEFINE off == [c \in Nat |-> 0]
<1>1. off \in [Nat -> {0, 1}] /\ \A c \in Nat : off[c] = 0
  OBVIOUS
<1>2. \A c, i : OnWire(c, i) => c \in Nat /\ i \in Nat /\ i > 0
  BY OnWireFacts
<1> HIDE DEF off
<1>3. \A c, i : OnWire(c, i)' <=> i \in Nat /\ i > 0 /\ c \notin {} /\ OnWire(c, i + off[c])
  <2> TAKE c, i
  <2>1. CASE c \in Nat /\ i \in Nat
    <3>1. i + off[c] = i
      BY <1>1, <2>1
    <3> QED BY <1>2, <2>1, <3>1
  <2>2. CASE ~(c \in Nat /\ i \in Nat)
    <3>1. ~OnWire(c, i)'
      BY <1>2, <2>2
    <3>2. i \in Nat => ~OnWire(c, i + off[c])
      BY <1>2, <2>2
    <3> QED BY <3>1, <3>2
  <2> QED BY <2>1, <2>2
<1>4. \A c, i : OnWire(c, i)' => Line(c, i)' = Line(c, i + off[c])
  <2> SUFFICES ASSUME NEW c, NEW i, OnWire(c, i) PROVE Line(c, i)' = Line(c, i + off[c])
    OBVIOUS
  <2>1. i + off[c] = i
    BY <1>1, <1>2
  <2> QED BY <2>1
<1>5. \A c, i : OnWire(c, i) => i > off[c]
  BY <1>1, <1>2
<1>6. Quiet(off, {})
  BY <1>1, <1>3, <1>4, <1>5 DEF Quiet
<1> QED BY <1>6

\* Admit and SkipTorn read a hello or a torn line.
LEMMA ReadMarkIsQuiet ==
  ASSUME WireTypeOK, HelloFirst, NEW c \in DOMAIN conns, Admit(c) \/ SkipTorn(c)
  PROVE  /\ conns' \in Seq(ConnType) /\ Len(conns') = Len(conns) /\ HelloFirst'
         /\ \E off : Quiet(off, {})
<1>1. conns[c].lines # << >> /\ Head(conns[c].lines) \in {Hello, Torn}
  BY ConnFacts DEF Admit, SkipTorn, Reads, HelloFirst
<1>2. conns' = [conns EXCEPT ![c] =
                  [conns[c] EXCEPT !.lines = Tail(@), !.handler = "streaming"]]
  <2>1. conns[c] \in ConnType
    BY ConnFacts
  <2>2. CASE Admit(c)
    BY <2>1, <2>2 DEF Admit, ConnType
  <2>3. CASE SkipTorn(c)
    BY <2>1, <2>3 DEF SkipTorn, Reads, ConnType
  <2> QED BY <2>2, <2>3
<1>3. stores' = stores
  BY DEF Admit, SkipTorn, daemonVars
<1>4. /\ conns' \in Seq(ConnType) /\ Len(conns') = Len(conns) /\ HelloFirst'
      /\ \A e \in DOMAIN conns : To(e)' = To(e) /\ Alive(e)' = Alive(e)
      /\ ~OnWire(c, 1)
      /\ \A i : OnWire(c, i)' <=> i \in Nat /\ i > 0 /\ OnWire(c, i + 1)
      /\ \A i : OnWire(c, i)' => Line(c, i)' = Line(c, i + 1)
      /\ \A e, i : e # c => /\ OnWire(e, i)' <=> OnWire(e, i)
                            /\ OnWire(e, i) => Line(e, i)' = Line(e, i)
  BY <1>1, <1>2, PopWire DEF OnWire
<1> DEFINE off == [e \in Nat |-> IF e = c THEN 1 ELSE 0]
<1>5. off \in [Nat -> {0, 1}] /\ \A e \in Nat : off[e] = IF e = c THEN 1 ELSE 0
  OBVIOUS
<1>6. (\A e, i : OnWire(e, i) => e \in Nat /\ i \in Nat /\ i > 0) /\ c \in Nat
  BY OnWireFacts, ConnFacts
<1> HIDE DEF off
<1>7. \A e, i : OnWire(e, i)' <=> i \in Nat /\ i > 0 /\ e \notin {} /\ OnWire(e, i + off[e])
  <2> TAKE e, i
  <2>1. CASE e = c
    BY <1>4, <1>5, <1>6, <2>1
  <2>2. CASE e # c /\ e \in Nat /\ i \in Nat
    <3>1. i + off[e] = i
      BY <1>5, <2>2
    <3> QED BY <1>4, <1>6, <2>2, <3>1
  <2>3. CASE e # c /\ ~(e \in Nat /\ i \in Nat)
    <3>1. ~OnWire(e, i)'
      BY <1>4, <1>6, <2>3
    <3>2. i \in Nat => ~OnWire(e, i + off[e])
      BY <1>6, <2>3
    <3> QED BY <3>1, <3>2
  <2> QED BY <2>1, <2>2, <2>3
<1>8. \A e, i : OnWire(e, i)' => Line(e, i)' = Line(e, i + off[e])
  <2> SUFFICES ASSUME NEW e, NEW i, OnWire(e, i)' PROVE Line(e, i)' = Line(e, i + off[e])
    OBVIOUS
  <2>1. CASE e = c
    BY <1>4, <1>5, <1>6, <2>1
  <2>2. CASE e # c
    <3>1. i + off[e] = i
      BY <1>4, <1>5, <1>6, <2>2
    <3> QED BY <1>4, <2>2, <3>1
  <2> QED BY <2>1, <2>2
<1>9. \A e, i : OnWire(e, i) => i > off[e]
  BY <1>4, <1>5, <1>6
<1>10. DOMAIN conns' = DOMAIN conns
  BY <1>2
<1>11. Quiet(off, {})
  BY <1>3, <1>4, <1>5, <1>7, <1>8, <1>9, <1>10 DEF Quiet
<1> QED BY <1>4, <1>11

LEMMA DroppedConn ==
  ASSUME NEW c \in DOMAIN conns, conns[c] \in ConnType
  PROVE  /\ Dropped(c) \in ConnType /\ Dropped(c).to = conns[c].to
         /\ Dropped(c).lines = << >> /\ Dropped(c).handler = "closed"
BY EmptySeq DEF Dropped, ConnType

LEMMA DropIsQuiet ==
  ASSUME WireTypeOK, HelloFirst, NEW dropped \in SUBSET DOMAIN conns,
         conns' \in [DOMAIN conns -> ConnType],
         \A c \in dropped : To(c)' = To(c) /\ ~Alive(c)' /\ conns'[c].lines = << >>,
         \A c \in DOMAIN conns \ dropped : conns'[c] = conns[c],
         \A c \in DOMAIN conns \ dropped : stores'[To(c)] = stores[To(c)]
  PROVE  /\ conns' \in Seq(ConnType) /\ Len(conns') = Len(conns) /\ HelloFirst'
         /\ \E off : Quiet(off, dropped)
<1> DEFINE off == [c \in Nat |-> 0]
<1>1. off \in [Nat -> {0, 1}] /\ \A c \in Nat : off[c] = 0
  OBVIOUS
<1>2. \A c, i : OnWire(c, i) => c \in Nat /\ i \in Nat /\ i > 0
  BY OnWireFacts
<1>3. /\ conns' \in Seq(ConnType) /\ Len(conns') = Len(conns) /\ HelloFirst'
      /\ \A c \in DOMAIN conns : To(c)' = To(c)
      /\ \A c \in DOMAIN conns : Alive(c)' <=> Alive(c) /\ c \notin dropped
      /\ \A c, i : OnWire(c, i)' <=> OnWire(c, i) /\ c \notin dropped
      /\ \A c, i : OnWire(c, i)' => Line(c, i)' = Line(c, i)
  BY DropWire
<1> HIDE DEF off
<1>4. \A c, i : OnWire(c, i)' <=>
        i \in Nat /\ i > 0 /\ c \notin dropped /\ OnWire(c, i + off[c])
  <2> TAKE c, i
  <2>1. CASE c \in Nat /\ i \in Nat
    <3>1. i + off[c] = i
      BY <1>1, <2>1
    <3> QED BY <1>2, <1>3, <2>1, <3>1
  <2>2. CASE ~(c \in Nat /\ i \in Nat)
    <3>1. ~OnWire(c, i)'
      BY <1>2, <1>3, <2>2
    <3>2. i \in Nat => ~OnWire(c, i + off[c])
      BY <1>2, <2>2
    <3> QED BY <3>1, <3>2
  <2> QED BY <2>1, <2>2
<1>5. \A c, i : OnWire(c, i)' => Line(c, i)' = Line(c, i + off[c])
  <2> SUFFICES ASSUME NEW c, NEW i, OnWire(c, i)' PROVE Line(c, i)' = Line(c, i + off[c])
    OBVIOUS
  <2>1. i + off[c] = i
    BY <1>1, <1>2, <1>3
  <2> QED BY <1>3, <2>1
<1>6. \A c, i : OnWire(c, i) => i > off[c]
  BY <1>1, <1>2
<1>7. DOMAIN conns' = DOMAIN conns
  OBVIOUS
<1>8. Quiet(off, dropped)
  BY <1>1, <1>3, <1>4, <1>5, <1>6, <1>7 DEF Quiet
<1> QED BY <1>3, <1>8

LEMMA EndStreamIsQuiet ==
  ASSUME WireTypeOK, HelloFirst, NEW c \in DOMAIN conns, EndStream(c)
  PROVE  /\ conns' \in Seq(ConnType) /\ Len(conns') = Len(conns) /\ HelloFirst'
         /\ \E off, dropped : Quiet(off, dropped) /\ Undropped(dropped)
<1>1. conns' = [conns EXCEPT ![c] = [conns[c] EXCEPT !.handler = "closed"]]
  BY DEF EndStream
<1>2. /\ conns[c] \in ConnType /\ conns[c].lines = << >>
      /\ conns \in [DOMAIN conns -> ConnType]
  BY ConnFacts, LenProperties DEF EndStream, WireTypeOK
<1>3. PICK conn : conn = [conns[c] EXCEPT !.handler = "closed"]
  OBVIOUS
<1>4. /\ conn \in ConnType /\ conn.to = conns[c].to /\ conn.lines = << >>
      /\ conn.handler = "closed"
  BY <1>2, <1>3 DEF ConnType
<1>5. /\ conns' \in [DOMAIN conns -> ConnType] /\ conns'[c] = conn
      /\ \A e \in DOMAIN conns \ {c} : conns'[e] = conns[e]
  BY <1>1, <1>2, <1>3, <1>4
<1> QED
  <2>1. To(c)' = To(c) /\ ~Alive(c)' /\ conns'[c].lines = << >>
    BY <1>4, <1>5 DEF To, Alive
  <2>2. stores' = stores
    BY DEF EndStream, daemonVars
  <2>3. \A e \in {c} : To(e)' = To(e) /\ ~Alive(e)' /\ conns'[e].lines = << >>
    BY <2>1
  <2>4. {c} \in SUBSET DOMAIN conns
    OBVIOUS
  <2>5. /\ conns' \in Seq(ConnType) /\ Len(conns') = Len(conns) /\ HelloFirst'
        /\ \E off : Quiet(off, {c})
    BY <1>5, <2>2, <2>3, <2>4, DropIsQuiet
  <2>6. Undropped({c})
    BY <1>2 DEF Undropped, OnWire
  <2> QED BY <2>5, <2>6

LEMMA OpenSinkIsQuiet ==
  ASSUME WireTypeOK, HelloFirst, OpenSink
  PROVE  /\ conns' \in Seq(ConnType) /\ Len(conns') = Len(conns) + 1 /\ Len(conns') <= MaxConns
         /\ HelloFirst' /\ sink' = Len(conns') /\ file \in Daemons
         /\ \A c : c = Len(conns) + 1 => To(c)' = file
         /\ \E off : Quiet(off, {})
<1>1. /\ file \in Daemons /\ Len(conns) < MaxConns /\ sink' = Len(conns) + 1
      /\ conns' = Append(conns, [to |-> file, lines |-> <<Hello>>, writing |-> TRUE,
                                 handler |-> "backlog"])
      /\ stores' = stores
  BY DEF OpenSink, Listening, Connect, daemonVars
<1>2. Len(conns) \in Nat /\ MaxConns \in Nat
  BY ConnFacts, PipelineBounds
<1>3. /\ conns' \in Seq(ConnType) /\ Len(conns') = Len(conns) + 1 /\ HelloFirst'
      /\ \A c \in DOMAIN conns : To(c)' = To(c) /\ Alive(c)' = Alive(c)
      /\ \A c : c = Len(conns) + 1 => To(c)' = file
      /\ \A c, i : OnWire(c, i)' <=> OnWire(c, i)
      /\ \A c, i : OnWire(c, i) => Line(c, i)' = Line(c, i)
  BY <1>1, OpenWire
<1>4. DOMAIN conns \subseteq DOMAIN conns'
  BY <1>2, <1>3, ConnFacts, LenProperties
<1>5. \E off : Quiet(off, {})
  BY <1>1, <1>3, <1>4, SameWireIsQuiet
<1> QED BY <1>1, <1>2, <1>3, <1>5

LEMMA StopsIsQuiet ==
  ASSUME WireTypeOK, HelloFirst, NEW c \in DOMAIN conns, HandlerStops(c)
  PROVE  /\ conns' \in Seq(ConnType) /\ Len(conns') = Len(conns) /\ HelloFirst'
         /\ \E off, dropped : Quiet(off, dropped)
<1>1. conns' = [conns EXCEPT ![c] = Dropped(c)] /\ stores' = stores
  BY DEF HandlerStops
<1>2. conns[c] \in ConnType /\ conns \in [DOMAIN conns -> ConnType]
  BY ConnFacts, LenProperties DEF WireTypeOK
<1>3. PICK conn : conn = Dropped(c)
  OBVIOUS
<1>4. /\ conn \in ConnType /\ conn.to = conns[c].to /\ conn.lines = << >>
      /\ conn.handler = "closed"
  BY <1>2, <1>3, DroppedConn
<1>5. /\ conns' \in [DOMAIN conns -> ConnType] /\ conns'[c] = conn
      /\ \A e \in DOMAIN conns \ {c} : conns'[e] = conns[e]
  BY <1>1, <1>2, <1>3, <1>4
<1>6. To(c)' = To(c) /\ ~Alive(c)' /\ conns'[c].lines = << >>
  BY <1>4, <1>5 DEF To, Alive
<1>7. \A e \in {c} : To(e)' = To(e) /\ ~Alive(e)' /\ conns'[e].lines = << >>
  BY <1>6
<1>8. {c} \in SUBSET DOMAIN conns
  OBVIOUS
<1>9. /\ conns' \in Seq(ConnType) /\ Len(conns') = Len(conns) /\ HelloFirst'
      /\ \E off : Quiet(off, {c})
  BY <1>1, <1>5, <1>7, <1>8, DropIsQuiet
<1> QED BY <1>9

\* A daemon's main stops its process, or touches neither wire nor store.
Ends(d) == Running(d) /\ step'[d] \in {"off", "refused"}

LEMMA MainIsQuiet ==
  ASSUME WireTypeOK, HelloFirst, NEW d \in Daemons, Main(d)
  PROVE  /\ conns' \in Seq(ConnType) /\ Len(conns') = Len(conns) /\ HelloFirst'
         /\ stores' \in [Daemons -> StoreType]
         /\ \E off, dropped : Quiet(off, dropped)
         /\ Ends(d) => /\ \E off : Quiet(off, {c \in DOMAIN conns : To(c) = d})
                       /\ stores' = [stores EXCEPT ![d] = Fresh]
                       /\ \A c \in DOMAIN conns : ~Alive(c)' <=> ~Alive(c) \/ To(c) = d
                       /\ \A c, i : OnWire(c, i)' <=> OnWire(c, i) /\ To(c) # d
                       /\ \A c, i : OnWire(c, i)' => Line(c, i)' = Line(c, i)
         /\ ~Ends(d) => conns' = conns /\ stores' = stores /\ \E off : Quiet(off, {})
<1>1. CASE ~Ends(d)
  <2>1. conns' = conns /\ stores' = stores
    BY <1>1 DEF Main, Ends
  <2>2. \E off : Quiet(off, {})
    <3>1. /\ \A c \in DOMAIN conns : To(c)' = To(c) /\ Alive(c)' = Alive(c)
          /\ \A c, i : /\ OnWire(c, i)' <=> OnWire(c, i)
                       /\ OnWire(c, i) => Line(c, i)' = Line(c, i)
      BY <2>1 DEF To, Alive, OnWire, Line, Hello, Torn
    <3> QED BY <2>1, <3>1, SameWireIsQuiet
  <2>3. HelloFirst' /\ conns' \in Seq(ConnType) /\ stores' \in [Daemons -> StoreType]
    BY <2>1 DEF HelloFirst, WireTypeOK, Hello
  <2> QED BY <1>1, <2>1, <2>2, <2>3
<1>2. CASE Ends(d)
  <2> DEFINE dropped == {c \in DOMAIN conns : To(c) = d}
  <2>1. /\ conns' = [c \in DOMAIN conns |-> IF conns[c].to = d THEN Dropped(c) ELSE conns[c]]
        /\ stores' = [stores EXCEPT ![d] = Fresh]
    BY <1>2 DEF Main, Ends
  <2>2. \A c \in DOMAIN conns :
           /\ conns[c] \in ConnType
           /\ Dropped(c) \in ConnType /\ Dropped(c).to = conns[c].to
           /\ Dropped(c).lines = << >> /\ Dropped(c).handler = "closed"
    BY ConnFacts, DroppedConn
  <2>3. conns' \in [DOMAIN conns -> ConnType]
    BY <2>1, <2>2
  <2>4. /\ \A c \in dropped : To(c)' = To(c) /\ ~Alive(c)' /\ conns'[c].lines = << >>
        /\ \A c \in DOMAIN conns \ dropped : conns'[c] = conns[c]
    BY <2>1, <2>2 DEF To, Alive
  <2>5. /\ conns' \in Seq(ConnType) /\ Len(conns') = Len(conns) /\ HelloFirst'
        /\ \A c \in DOMAIN conns : To(c)' = To(c)
        /\ \A c \in DOMAIN conns : Alive(c)' <=> Alive(c) /\ c \notin dropped
        /\ \A c, i : OnWire(c, i)' <=> OnWire(c, i) /\ c \notin dropped
        /\ \A c, i : OnWire(c, i)' => Line(c, i)' = Line(c, i)
    BY <2>3, <2>4, DropWire
  <2>6. stores' \in [Daemons -> StoreType]
    BY <2>1, PipelineSentinel DEF WireTypeOK, StoreType, Fresh
  <2>7. \A c \in DOMAIN conns \ dropped : stores'[To(c)] = stores[To(c)]
    BY <2>1, ConnFacts DEF WireTypeOK
  <2>8. \E off : Quiet(off, dropped)
    BY <2>3, <2>4, <2>7, DropIsQuiet
  <2>9. \A c, i : OnWire(c, i) => (c \notin dropped <=> To(c) # d)
    BY DEF OnWire
  <2> QED BY <1>2, <2>1, <2>5, <2>6, <2>8, <2>9
<1> QED BY <1>1, <1>2

-----------------------------------------------------------------------------
(* Types, kept by every step.                                              *)

LEMMA BindStays ==
  ASSUME BindInv, UNCHANGED bindVars
  PROVE  BindInv'
BY DEF bindVars, BindInv, BindTypeOK, HoldersHaveBound, Alone

\* Where neither the wire nor the daemons' stores are touched.
LEMMA WireStays ==
  ASSUME PipelineTypeOK, UNCHANGED <<bindVars, conns, daemonVars>>
  PROVE  /\ BindInv' /\ WireTypeOK' /\ HelloFirst' /\ Len(conns') = Len(conns)
         /\ \E off : Quiet(off, {})
<1>1. conns' = conns /\ stores' = stores
  BY DEF daemonVars
<1>2. /\ \A c \in DOMAIN conns : To(c)' = To(c) /\ Alive(c)' = Alive(c)
      /\ \A c, i : /\ OnWire(c, i)' <=> OnWire(c, i)
                   /\ OnWire(c, i) => Line(c, i)' = Line(c, i)
  BY <1>1 DEF To, Alive, OnWire, Line, Hello, Torn
<1>3. \E off : Quiet(off, {})
  BY <1>1, <1>2, SameWireIsQuiet DEF PipelineTypeOK
<1>4. WireTypeOK' /\ HelloFirst'
  BY <1>1 DEF PipelineTypeOK, daemonVars, WireTypeOK, HelloFirst, Hello
<1>5. BindInv'
  BY BindStays DEF PipelineTypeOK
<1> QED BY <1>1, <1>3, <1>4, <1>5

LEMMA ProgramTypes ==
  ASSUME PipelineTypeOK, Program
  PROVE  PipelineTypeOK' /\ TablesGrow /\ \E off : Quiet(off, {})
<1>1. UNCHANGED <<bindVars, conns, daemonVars>> /\ UNCHANGED tickVars
  BY DEF Program, Call, NewType
<1>2. TablesOK' /\ TablesGrow
  BY ProgramGrows DEF PipelineTypeOK, EmitterTypeOK, TablesOK
<1>3. /\ BindInv' /\ WireTypeOK' /\ HelloFirst' /\ Len(conns') = Len(conns)
      /\ \E off : Quiet(off, {})
  BY <1>1, WireStays
<1>4. EmitterTypeOK' /\ SinkIsLast'
  BY <1>1, <1>2, <1>3 DEF PipelineTypeOK, EmitterTypeOK, SinkIsLast, tickVars, TablesOK
<1> QED BY <1>2, <1>3, <1>4 DEF PipelineTypeOK, TablesOK

\* What registers_since puts in the frame.
LEMMA NamedFrame ==
  ASSUME PipelineTypeOK, \A kind \in Kinds : sent[kind] <= Size(kind)
  PROVE  /\ PathsUpTo(NewNames) \in sent.paths..Len(nodes)
         /\ Named(PathsUpTo(NewNames), PathsUpTo(NewNames)) \in FrameType
<1>1. TablesOK
  BY DEF PipelineTypeOK, EmitterTypeOK, TablesOK
<1>2. sent.functions \in Nat /\ sent.types \in Nat /\ sent.paths \in Nat
  BY DEF PipelineTypeOK, EmitterTypeOK, Counts
<1>3. /\ sent.functions <= Len(functions) /\ sent.types <= Len(types)
      /\ sent.paths <= Len(nodes)
  <2>1. sent["functions"] <= Size("functions") /\ sent["types"] <= Size("types")
        /\ sent["paths"] <= Size("paths")
    BY DEF Kinds
  <2> QED BY <2>1 DEF Size
<1>4. NewNames \in Nat
  BY <1>1, <1>2, <1>3, TableFacts DEF NewNames
<1>5. PathsUpTo(NewNames) \in sent.paths..Len(nodes)
  BY <1>1, <1>2, <1>3, <1>4, TableFacts, EmitterBounds DEF PathsUpTo
<1>6. Past(functions, sent.functions) \subseteq Range(functions)
  BY <1>1, <1>2, TableFacts DEF Past, First, Name
<1>7. Past(types, sent.types) \subseteq Range(types)
  BY <1>1, <1>2, TableFacts DEF Past, First, Name
<1>8. (sent.paths + 1)..PathsUpTo(NewNames) \subseteq Nat
  BY <1>2
<1>9. [functions |-> Len(functions), types |-> Len(types), paths |-> PathsUpTo(NewNames)] \in Counts
  BY <1>1, <1>2, <1>5, TableFacts DEF Counts
<1>10. Named(PathsUpTo(NewNames), PathsUpTo(NewNames)) \in FrameType
  <2>0. PICK carried, upto :
           /\ carried = PathsUpTo(NewNames)
           /\ upto = [functions |-> Len(functions), types |-> Len(types), paths |-> carried]
    OBVIOUS
  <2>1. /\ Past(functions, sent.functions) \in SUBSET Functions
        /\ Past(types, sent.types) \in SUBSET Types
        /\ (sent.paths + 1)..carried \in SUBSET Nat
        /\ upto \in Counts /\ seq \in Nat /\ frame \in FrameType
    BY <1>1, <1>6, <1>7, <1>8, <1>9, <2>0, TableFacts DEF PipelineTypeOK, EmitterTypeOK
  <2>2. Named(carried, carried) =
          [frame EXCEPT !.seq = seq, !.functions = Past(functions, sent.functions),
                        !.types = Past(types, sent.types),
                        !.paths = (sent.paths + 1)..carried, !.upto = upto]
    BY <2>0 DEF Named
  <2>3. Named(carried, carried) \in FrameType
    BY <2>1, <2>2 DEF FrameType
  <2> QED BY <2>0, <2>3
<1> QED BY <1>5, <1>10

LEMMA EmptyFrameType == EmptyFrame \in FrameType /\ NoneSent \in Counts
BY DEF EmptyFrame, NoneSent, FrameType, Counts

\* The emitter's steps that write nothing.
LEMMA EmitterTypes ==
  ASSUME PipelineTypeOK, \A kind \in Kinds : sent[kind] <= Size(kind),
         Tick \/ NoSink \/ SendToNobody
  PROVE  PipelineTypeOK' /\ TablesGrow /\ \E off : Quiet(off, {})
<1>1. UNCHANGED <<bindVars, conns, daemonVars>> /\ UNCHANGED <<registryVars, types>>
  BY DEF Tick, NoSink, SendToNobody, Drain, RegistersSince, GiveUp, SendFailed
<1>2. TablesOK /\ TablesOK' /\ TablesGrow
  BY <1>1, TablesStay DEF PipelineTypeOK, EmitterTypeOK, TablesOK
<1>3. /\ BindInv' /\ WireTypeOK' /\ HelloFirst' /\ Len(conns') = Len(conns)
      /\ \E off : Quiet(off, {})
  BY <1>1, WireStays
<1>4. EmitterTypeOK' /\ SinkIsLast'
  <2>1. types' \in Seq(Types)
    BY <1>2 DEF TablesOK
  <2>2. CASE Drain
    <3>1. [EmptyFrame EXCEPT !.window = window + 1, !.calls = Range(functions),
                             !.stacks = Recorded] \in FrameType
      <4>1. /\ window + 1 \in Nat /\ Range(functions) \in SUBSET Functions
            /\ Recorded \in SUBSET Nat
        BY <1>2, EmitterBounds, TableFacts DEF PipelineTypeOK, EmitterTypeOK
      <4> QED BY <4>1, EmptyFrameType DEF FrameType
    <3>2. window' \in 0..MaxWindows
      BY <2>2, EmitterBounds DEF Drain, PipelineTypeOK, EmitterTypeOK
    <3> QED
      BY <1>3, <2>1, <2>2, <3>1, <3>2
      DEF Drain, PipelineTypeOK, EmitterTypeOK, SinkIsLast
  <2>3. CASE RegistersSince
    BY <1>3, <2>1, <2>3, NamedFrame DEF RegistersSince, PipelineTypeOK, EmitterTypeOK, SinkIsLast
  <2>4. CASE NoSink
    BY <1>3, <2>1, <2>4, EmptyFrameType
    DEF NoSink, GiveUp, PipelineTypeOK, EmitterTypeOK, SinkIsLast
  <2>5. CASE SendToNobody
    BY <1>3, <2>1, <2>5, EmptyFrameType
    DEF SendToNobody, SendFailed, PipelineTypeOK, EmitterTypeOK, SinkIsLast
  <2> QED BY <2>2, <2>3, <2>4, <2>5 DEF Tick
<1> QED BY <1>2, <1>3, <1>4 DEF PipelineTypeOK, TablesOK

LEMMA OpenSinkTypes ==
  ASSUME PipelineTypeOK, OpenSink
  PROVE  PipelineTypeOK' /\ TablesGrow /\ \E off : Quiet(off, {})
<1>1. /\ UNCHANGED <<bindVars, daemonVars>> /\ UNCHANGED <<registryVars, types>>
      /\ UNCHANGED <<window, frame, seq>> /\ at' = "reached" /\ sent' = NoneSent
  BY DEF OpenSink, Connect
<1>2. TablesOK' /\ TablesGrow
  BY <1>1, TablesStay DEF PipelineTypeOK, EmitterTypeOK, TablesOK
<1>3. /\ conns' \in Seq(ConnType) /\ Len(conns') = Len(conns) + 1 /\ Len(conns') <= MaxConns
      /\ HelloFirst' /\ sink' = Len(conns') /\ file \in Daemons
      /\ \E off : Quiet(off, {})
  BY OpenSinkIsQuiet DEF PipelineTypeOK
<1>4. Len(conns) \in Nat
  BY ConnFacts DEF PipelineTypeOK
<1>5. WireTypeOK'
  BY <1>1, <1>3 DEF PipelineTypeOK, WireTypeOK, daemonVars
<1>6. EmitterTypeOK' /\ SinkIsLast'
  BY <1>1, <1>2, <1>3, <1>4, EmptyFrameType
  DEF PipelineTypeOK, EmitterTypeOK, SinkIsLast, TablesOK
<1>7. BindInv'
  BY <1>1, BindStays DEF PipelineTypeOK
<1> QED BY <1>2, <1>3, <1>5, <1>6, <1>7 DEF PipelineTypeOK, TablesOK

\* Handlers that read a mark, reach the end or stop, and the daemon's main.
LEMMA HandlerTypes ==
  ASSUME PipelineTypeOK, NEW c \in DOMAIN conns,
         Admit(c) \/ SkipTorn(c) \/ EndStream(c) \/ HandlerStops(c)
  PROVE  /\ PipelineTypeOK' /\ TablesGrow
         /\ \E off, dropped : Quiet(off, dropped) /\ (disorder' \/ Undropped(dropped))
<1>1. /\ UNCHANGED emitterVars /\ UNCHANGED bindVars
      /\ UNCHANGED <<stores, applied, unnamed>> /\ disorder' \in {disorder, TRUE}
  BY DEF Admit, SkipTorn, EndStream, HandlerStops, daemonVars
<1>2. /\ conns' \in Seq(ConnType) /\ Len(conns') = Len(conns) /\ HelloFirst'
      /\ \E off, dropped : Quiet(off, dropped) /\ (disorder' \/ Undropped(dropped))
  <2>1. CASE Admit(c) \/ SkipTorn(c)
    BY <2>1, ReadMarkIsQuiet DEF PipelineTypeOK, Undropped
  <2>2. CASE EndStream(c)
    BY <2>2, EndStreamIsQuiet DEF PipelineTypeOK
  <2>3. CASE HandlerStops(c)
    <3>1. disorder' = TRUE
      BY <2>3 DEF HandlerStops
    <3> QED BY <2>3, <3>1, StopsIsQuiet DEF PipelineTypeOK
  <2> QED BY <2>1, <2>2, <2>3
<1>3. TablesOK' /\ TablesGrow
  BY <1>1, TablesStay DEF PipelineTypeOK, EmitterTypeOK, TablesOK, emitterVars
<1>4. WireTypeOK'
  BY <1>1, <1>2 DEF PipelineTypeOK, WireTypeOK
<1>5. EmitterTypeOK' /\ SinkIsLast'
  BY <1>1, <1>2 DEF PipelineTypeOK, EmitterTypeOK, SinkIsLast, emitterVars
<1>6. BindInv'
  BY <1>1, BindStays DEF PipelineTypeOK
<1> QED BY <1>2, <1>3, <1>4, <1>5, <1>6 DEF PipelineTypeOK, TablesOK

LEMMA MainTypes ==
  ASSUME PipelineTypeOK, NEW d \in Daemons, Main(d)
  PROVE  PipelineTypeOK' /\ TablesGrow /\ \E off, dropped : Quiet(off, dropped)
<1>1. /\ UNCHANGED emitterVars /\ UNCHANGED <<applied, disorder, unnamed>>
      /\ Start(d) \/ BindStep(d) \/ Stop(d) \/ Crash(d)
  BY DEF Main
<1>2. /\ conns' \in Seq(ConnType) /\ Len(conns') = Len(conns) /\ HelloFirst'
      /\ stores' \in [Daemons -> StoreType]
      /\ \E off, dropped : Quiet(off, dropped)
  BY MainIsQuiet DEF PipelineTypeOK
<1>3. TablesOK' /\ TablesGrow
  BY <1>1, TablesStay DEF PipelineTypeOK, EmitterTypeOK, TablesOK, emitterVars
<1>4. WireTypeOK'
  BY <1>1, <1>2 DEF PipelineTypeOK, WireTypeOK
<1>5. EmitterTypeOK' /\ SinkIsLast'
  BY <1>1, <1>2 DEF PipelineTypeOK, EmitterTypeOK, SinkIsLast, emitterVars
<1>6. BindInv'
  BY <1>1, BindInvStep DEF PipelineTypeOK
<1> QED BY <1>2, <1>3, <1>4, <1>5, <1>6 DEF PipelineTypeOK, TablesOK

\* The tick's frame, or a part of it that will not parse, is written last on the last
\* connection.
Written(line, last) ==
  /\ at = "named" /\ sink \in DOMAIN conns /\ sink = Len(conns) /\ Alive(sink)
  /\ line \in {Torn, Complete} /\ Complete \in FrameType
  /\ last \in Nat /\ last > 0 /\ \A i : OnWire(sink, i) => i < last
  /\ DOMAIN conns' = DOMAIN conns
  /\ \A c \in DOMAIN conns : To(c)' = To(c) /\ Alive(c)' = Alive(c)
  /\ \A c, i : OnWire(c, i)' <=> OnWire(c, i) \/ (c = sink /\ i = last /\ line # Torn)
  /\ \A c, i : OnWire(c, i) => Line(c, i)' = Line(c, i)
  /\ \A c, i : c = sink /\ i = last => Line(c, i)' = line

LEMMA SendTypes ==
  ASSUME PipelineTypeOK, SendFrame \/ SendTimesOut
  PROVE  /\ PipelineTypeOK' /\ TablesGrow /\ stores' = stores
         /\ \E line, last : Written(line, last) /\ (SendFrame => line = Complete)
<1>1. /\ UNCHANGED <<bindVars, daemonVars>> /\ UNCHANGED <<registryVars, types>>
      /\ UNCHANGED window /\ at = "named" /\ at' = "sleep" /\ frame' = EmptyFrame
      /\ seq' \in {seq, seq + 1} /\ sent' \in {sent, Complete.upto} /\ sink' \in {sink, 0}
      /\ sink # 0 /\ Alive(sink)
  BY DEF SendFrame, SendTimesOut, Sent, SendFailed
<1>2. TablesOK /\ TablesOK' /\ TablesGrow
  BY <1>1, TablesStay DEF PipelineTypeOK, EmitterTypeOK, TablesOK
<1>3. Complete \in FrameType /\ Complete.upto \in Counts
  <2>1. Range(types) \in SUBSET Types /\ frame \in FrameType
    BY <1>2, TableFacts DEF PipelineTypeOK, EmitterTypeOK
  <2>2. Complete \in FrameType
    BY <2>1 DEF Complete, WithCensus, FrameType
  <2> QED BY <2>2 DEF FrameType
<1>4. sink \in DOMAIN conns /\ sink = Len(conns)
  BY <1>1, ConnFacts DEF PipelineTypeOK, EmitterTypeOK, SinkIsLast
<1>5. conns[sink] \in ConnType
  BY <1>4, ConnFacts DEF PipelineTypeOK
<1>6. PICK line \in {Torn, Complete}, writing \in BOOLEAN :
        /\ conns' = [conns EXCEPT ![sink] =
                       [conns[sink] EXCEPT !.lines = Append(@, line), !.writing = writing]]
        /\ SendFrame => line = Complete
  <2>1. CASE SendFrame
    <3>1. conns' = [conns EXCEPT ![sink] =
                      [conns[sink] EXCEPT !.lines = Append(@, Complete),
                                          !.writing = conns[sink].writing]]
      BY <1>5, <2>1 DEF SendFrame, ConnType
    <3>2. conns[sink].writing \in BOOLEAN
      BY <1>5 DEF ConnType
    <3> QED BY <3>1, <3>2
  <2>2. CASE SendTimesOut
    <3>1. PICK line \in {Torn, Complete} :
             conns' = [conns EXCEPT ![sink].lines = Append(@, line), ![sink].writing = FALSE]
      BY <2>2 DEF SendTimesOut
    <3>2. conns' = [conns EXCEPT ![sink] =
                      [conns[sink] EXCEPT !.lines = Append(@, line), !.writing = FALSE]]
      BY <1>4, <1>5, <3>1 DEF ConnType
    <3>3. ~SendFrame
      BY <2>2 DEF SendFrame, SendTimesOut, Sent, SendFailed, PipelineTypeOK, EmitterTypeOK
    <3> QED BY <3>2, <3>3
  <2> QED BY <2>1, <2>2
<1>7. PICK s, last : s \in DOMAIN conns /\ s = sink /\ last = Len(conns[s].lines) + 1
  BY <1>4
<1>8. line \in LineType /\ line # Hello
  BY <1>3, MarksAreNoFrames DEF LineType
<1>9. /\ conns' \in Seq(ConnType) /\ Len(conns') = Len(conns) /\ HelloFirst'
      /\ \A c \in DOMAIN conns : To(c)' = To(c) /\ Alive(c)' = Alive(c)
      /\ \A c, i : OnWire(c, i)' <=> OnWire(c, i) \/ (c = s /\ i = last /\ line # Torn)
      /\ \A c, i : OnWire(c, i) => Line(c, i)' = Line(c, i)
      /\ \A i : i = last => Line(s, i)' = line
  <2>1. conns' = [conns EXCEPT ![s] =
                    [conns[s] EXCEPT !.lines = Append(@, line), !.writing = writing]]
    BY <1>6, <1>7
  <2>2. WireTypeOK /\ HelloFirst /\ Alive(s)
    BY <1>1, <1>7 DEF PipelineTypeOK
  <2>3. line \in LineType /\ line # Hello /\ writing \in BOOLEAN /\ s \in DOMAIN conns
    BY <1>7, <1>8
  <2>4. /\ conns' \in Seq(ConnType) /\ Len(conns') = Len(conns) /\ HelloFirst'
        /\ \A c \in DOMAIN conns : To(c)' = To(c) /\ Alive(c)' = Alive(c)
        /\ \A c, i : OnWire(c, i)' <=>
             OnWire(c, i) \/ (c = s /\ i = Len(conns[s].lines) + 1 /\ line # Torn)
        /\ \A c, i : OnWire(c, i) => Line(c, i)' = Line(c, i)
        /\ \A i : i = Len(conns[s].lines) + 1 => Line(s, i)' = line
    BY <2>1, <2>2, <2>3, AppendWire
  <2> QED BY <1>7, <2>4
<1>10. last \in Nat /\ last > 0 /\ \A i : OnWire(sink, i) => i < last
  BY <1>4, <1>7, ConnFacts, OnWireFacts DEF PipelineTypeOK
<1>11. DOMAIN conns' = DOMAIN conns
  BY <1>6
<1>12. Written(line, last)
  BY <1>1, <1>3, <1>4, <1>7, <1>9, <1>10, <1>11 DEF Written
<1>13. WireTypeOK' /\ stores' = stores
  BY <1>1, <1>9 DEF PipelineTypeOK, WireTypeOK, daemonVars
<1>14. EmitterTypeOK' /\ SinkIsLast'
  BY <1>1, <1>2, <1>3, <1>9, EmptyFrameType
  DEF PipelineTypeOK, EmitterTypeOK, SinkIsLast, TablesOK
<1>15. BindInv'
  BY <1>1, BindStays DEF PipelineTypeOK
<1> QED BY <1>2, <1>6, <1>9, <1>12, <1>13, <1>14, <1>15 DEF PipelineTypeOK, TablesOK

AppliedStore(c) ==
  [Registered(stores[To(c)], Line(c, 1)) EXCEPT
     !.seq = Line(c, 1).seq, !.missed = @ + Gap(stores[To(c)], Line(c, 1))]

\* What applying a frame does: the head of the connection goes to its daemon's store.
Applied(c) ==
  /\ OnWire(c, 1) /\ To(c) \in Daemons
  /\ stores' = [stores EXCEPT ![To(c)] = AppliedStore(c)]
  /\ applied' = Append(applied, Line(c, 1).window)
  /\ disorder' = (disorder \/ Overtakes(c))
  /\ unnamed' = [unnamed EXCEPT ![c] =
                   @ \cup (Line(c, 1).census \ Registered(stores[To(c)], Line(c, 1)).types)]
  /\ DOMAIN conns' = DOMAIN conns
  /\ \A e \in DOMAIN conns : To(e)' = To(e) /\ Alive(e)' = Alive(e)
  /\ \A i : OnWire(c, i)' <=> i \in Nat /\ i > 0 /\ OnWire(c, i + 1)
  /\ \A i : OnWire(c, i)' => Line(c, i)' = Line(c, i + 1)
  /\ \A e, i : e # c => /\ OnWire(e, i)' <=> OnWire(e, i)
                        /\ OnWire(e, i) => Line(e, i)' = Line(e, i)

LEMMA RegisteredType ==
  ASSUME NEW store \in StoreType, NEW f \in FrameType, NEW n \in Nat, NEW m \in Nat
  PROVE  /\ Registered(store, f) \in StoreType
         /\ [Registered(store, f) EXCEPT !.seq = n, !.missed = m] \in StoreType
         /\ Registered(store, f).seq = store.seq /\ Registered(store, f).missed = store.missed
         /\ Registered(store, f).functions = store.functions \cup f.functions
         /\ Registered(store, f).types = store.types \cup f.types
         /\ Registered(store, f).paths = RegisteredPaths(store, f)
<1>1. RegisteredPaths(store, f) \in SUBSET Nat
  BY DEF RegisteredPaths, StoreType, FrameType
<1>2. PICK paths \in SUBSET Nat : paths = RegisteredPaths(store, f)
  BY <1>1
<1>3. Registered(store, f) = [store EXCEPT !.functions = @ \cup f.functions,
                                           !.types = @ \cup f.types, !.paths = paths]
  BY <1>2 DEF Registered
<1>4. f.functions \in SUBSET Functions /\ f.types \in SUBSET Types
  BY DEF FrameType
<1>5. /\ Registered(store, f) \in StoreType
      /\ Registered(store, f).seq = store.seq /\ Registered(store, f).missed = store.missed
      /\ Registered(store, f).functions = store.functions \cup f.functions
      /\ Registered(store, f).types = store.types \cup f.types
      /\ Registered(store, f).paths = paths
  BY <1>3, <1>4 DEF StoreType
<1>6. [Registered(store, f) EXCEPT !.seq = n, !.missed = m] \in StoreType
  BY <1>5 DEF StoreType
<1> QED BY <1>2, <1>5, <1>6

LEMMA ApplyTypes ==
  ASSUME PipelineTypeOK, NEW c \in DOMAIN conns, ApplyFrame(c)
  PROVE  PipelineTypeOK' /\ TablesGrow /\ Applied(c) /\ UNCHANGED emitterVars /\ UNCHANGED bindVars
<1> DEFINE f == Head(conns[c].lines)
<1>1. /\ conns[c].handler = "streaming" /\ conns[c].lines # << >> /\ f # Torn
      /\ conns' = [conns EXCEPT ![c].lines = Tail(@)]
      /\ UNCHANGED emitterVars /\ UNCHANGED bindVars
  BY DEF ApplyFrame, Reads
<1>2. /\ conns[c] \in ConnType /\ c \in 1..MaxConns /\ To(c) \in Daemons
      /\ conns[c].lines \in Seq(LineType) /\ DOMAIN conns[c].lines = 1..Len(conns[c].lines)
      /\ Len(conns[c].lines) \in Nat /\ Len(conns[c].lines) > 0
  BY <1>1, ConnFacts, EmptySeq, PipelineBounds DEF PipelineTypeOK, WireTypeOK
<1>3. conns' = [conns EXCEPT ![c] =
                  [conns[c] EXCEPT !.lines = Tail(@), !.handler = "streaming"]]
  BY <1>1, <1>2 DEF ConnType
<1>4. /\ conns' \in Seq(ConnType) /\ Len(conns') = Len(conns) /\ HelloFirst'
      /\ \A e \in DOMAIN conns : To(e)' = To(e) /\ Alive(e)' = Alive(e)
      /\ Line(c, 1) = f
      /\ \A i : OnWire(c, i)' <=> i \in Nat /\ i > 0 /\ OnWire(c, i + 1)
      /\ \A i : OnWire(c, i)' => Line(c, i)' = Line(c, i + 1)
      /\ \A e, i : e # c => /\ OnWire(e, i)' <=> OnWire(e, i)
                            /\ OnWire(e, i) => Line(e, i)' = Line(e, i)
  BY <1>1, <1>3, PopWire DEF PipelineTypeOK
<1>5. OnWire(c, 1)
  <2>1. f # Hello
    BY <1>1, <1>2, <1>4 DEF PipelineTypeOK, HelloFirst, Line
  <2> QED BY <1>1, <1>2, <1>4, <2>1 DEF OnWire
<1>6. f \in FrameType
  BY <1>4, <1>5, OnWireFacts DEF PipelineTypeOK
<1>7. Applied(c)
  <2>1. /\ applied' = Append(applied, f.window)
        /\ disorder' = (disorder \/ Overtakes(c))
        /\ stores' = [stores EXCEPT ![To(c)] =
                        [Registered(stores[To(c)], f) EXCEPT
                           !.seq = f.seq, !.missed = @ + Gap(Registered(stores[To(c)], f), f)]]
        /\ unnamed' = [unnamed EXCEPT ![c] =
                         @ \cup (f.census \ Registered(stores[To(c)], f).types)]
    BY DEF ApplyFrame, To
  <2>2. stores[To(c)] \in StoreType
    BY <1>2 DEF PipelineTypeOK, WireTypeOK
  <2>3. Gap(Registered(stores[To(c)], f), f) = Gap(stores[To(c)], f)
    <3>1. Registered(stores[To(c)], f).seq = stores[To(c)].seq
      BY <1>6, <2>2, RegisteredType
    <3> QED BY <3>1 DEF Gap
  <2>4. DOMAIN conns' = DOMAIN conns
    BY <1>1
  <2>5. stores' = [stores EXCEPT ![To(c)] = AppliedStore(c)]
    BY <1>4, <2>1, <2>3 DEF AppliedStore
  <2> QED BY <1>2, <1>4, <1>5, <2>1, <2>4, <2>5 DEF Applied
<1>8. WireTypeOK'
  <2>1. stores[To(c)] \in StoreType /\ f.window \in Nat /\ f.seq \in Nat /\ f.census \in SUBSET Types
    BY <1>2, <1>6 DEF PipelineTypeOK, WireTypeOK, FrameType
  <2>2. Gap(stores[To(c)], f) \in Nat
    BY <2>1 DEF Gap, StoreType
  <2>3. stores[To(c)].missed + Gap(stores[To(c)], f) \in Nat
    BY <2>1, <2>2 DEF StoreType
  <2>4. stores' \in [Daemons -> StoreType]
    <3>1. PICK m \in Nat : m = stores[To(c)].missed + Gap(stores[To(c)], f)
      BY <2>3
    <3>2. /\ Registered(stores[To(c)], f).missed = stores[To(c)].missed
          /\ [Registered(stores[To(c)], f) EXCEPT !.seq = f.seq, !.missed = m] \in StoreType
      BY <1>6, <2>1, RegisteredType
    <3>3. AppliedStore(c) =
            [Registered(stores[To(c)], f) EXCEPT
               !.seq = f.seq,
               !.missed = Registered(stores[To(c)], f).missed + Gap(stores[To(c)], f)]
      BY <1>4 DEF AppliedStore
    <3>4. AppliedStore(c) \in StoreType
      BY <3>1, <3>2, <3>3
    <3> QED BY <1>7, <3>4 DEF Applied, PipelineTypeOK, WireTypeOK
  <2>5. applied' \in Seq(Nat)
    BY <1>4, <1>7, <2>1, AppendProperties DEF Applied, PipelineTypeOK, WireTypeOK
  <2>6. unnamed' \in [1..MaxConns -> SUBSET Types]
    BY <1>2, <1>4, <1>7, <2>1 DEF Applied, PipelineTypeOK, WireTypeOK
  <2>7. disorder' \in BOOLEAN
    BY <1>7 DEF Applied, PipelineTypeOK, WireTypeOK, Overtakes
  <2> QED BY <1>4, <2>4, <2>5, <2>6, <2>7 DEF PipelineTypeOK, WireTypeOK
<1>9. EmitterTypeOK' /\ SinkIsLast'
  BY <1>1, <1>4 DEF PipelineTypeOK, EmitterTypeOK, SinkIsLast, emitterVars
<1>10. TablesOK' /\ TablesGrow
  BY <1>1, TablesStay DEF PipelineTypeOK, EmitterTypeOK, TablesOK, emitterVars
<1>11. BindInv'
  BY <1>1, BindStays DEF PipelineTypeOK
<1> QED BY <1>1, <1>4, <1>7, <1>8, <1>9, <1>10, <1>11 DEF PipelineTypeOK, TablesOK

-----------------------------------------------------------------------------
(* Names.                                                                  *)

WireNames == (\A c, i \in Nat : OnWire(c, i) => FrameTrue(Line(c, i))) /\ Covered
EmitterNames ==
  /\ at = "named" => FrameTrue(frame)
  /\ frame.calls \subseteq Range(functions) /\ frame.census = {}
  /\ SentCovered

LEMMA FirstFacts ==
  /\ \A kind \in Kinds, n, m \in Nat : n <= m => First(kind, n) \subseteq First(kind, m)
  /\ \A kind \in Kinds : First(kind, 0) = {}
  /\ \A n \in Nat : First("paths", n) = 1..n
<1>1. \A kind \in Kinds, n, m \in Nat : n <= m => First(kind, n) \subseteq First(kind, m)
  BY DEF First
<1>2. \A kind \in Kinds : First(kind, 0) = {}
  BY DEF First
<1>3. \A n \in Nat : First("paths", n) = 1..n
  BY DEF First, Name
<1> QED BY <1>1, <1>2, <1>3

LEMMA RangesGrow ==
  ASSUME TablesOK, TablesOK', TablesGrow
  PROVE  Range(functions) \subseteq Range(functions)' /\ Range(types) \subseteq Range(types)'
<1>1. \A kind \in Kinds : /\ Size(kind) \in Nat /\ Size(kind)' \in Nat
                          /\ Size(kind) <= Size(kind)'
                          /\ First(kind, Size(kind))' = {Name(kind, m)' : m \in 1..Size(kind)'}
                          /\ \A n \in 1..Size(kind) : Name(kind, n)' = Name(kind, n)
  BY DEF TablesGrow, First
<1>2. \A kind \in Kinds : First(kind, Size(kind)) \subseteq First(kind, Size(kind))'
  BY <1>1 DEF First
<1>3. /\ Range(functions) = First("functions", Size("functions"))
      /\ Range(types) = First("types", Size("types"))
  BY TableFacts DEF Size
<1>4. /\ Range(functions)' = First("functions", Size("functions"))'
      /\ Range(types)' = First("types", Size("types"))'
  <2>1. /\ Range(functions)' = First("functions", Len(functions))'
        /\ Range(types)' = First("types", Len(types))'
    <3>1. functions' \in Seq(Functions) /\ types' \in Seq(Types)
      BY DEF TablesOK, RegistryInv, RegistryTypeOK
    <3>2. DOMAIN functions' = 1..Len(functions') /\ DOMAIN types' = 1..Len(types')
      BY <3>1, LenProperties
    <3> QED BY <3>2 DEF Range, First, Name
  <2> QED BY <2>1 DEF Size
<1> QED BY <1>2, <1>3, <1>4 DEF Kinds

\* What is true of a frame stays true as the program goes on.
LEMMA FrameTrueGrows ==
  ASSUME TablesOK, TablesOK', TablesGrow, NEW f \in FrameType, FrameTrue(f)
  PROVE  /\ FrameTrue(f)'
         /\ \A kind \in Kinds : First(kind, f.upto[kind])' = First(kind, f.upto[kind])
<1>1. \A kind \in Kinds : f.upto[kind] \in Nat /\ f.upto[kind] <= Size(kind)
  BY DEF FrameTrue, FrameType, Counts, Kinds
<1>2. \A kind \in Kinds : First(kind, f.upto[kind])' = First(kind, f.upto[kind])
  BY <1>1, FirstGrows
<1>3. \A kind \in Kinds : f.upto[kind] <= Size(kind)'
  BY <1>1 DEF TablesGrow
<1>4. \A p \in 1..f.upto.paths : nodes'[p].func = nodes[p].func
  <2>1. f.upto.paths \in Nat /\ f.upto.paths <= Len(nodes) /\ Len(nodes) \in Nat
    BY <1>1, TableFacts DEF Kinds, Size
  <2> QED BY <2>1 DEF TablesGrow, Kept
<1>5. First("functions", f.upto.functions)' = First("functions", f.upto.functions)
  BY <1>2 DEF Kinds
<1>6. f.census \subseteq Range(types)'
  BY RangesGrow DEF FrameTrue
<1>7. FrameTrue(f)'
  <2>1. /\ f.calls \subseteq First("functions", f.upto.functions)
        /\ \A p \in 1..f.upto.paths : nodes[p].func \in First("functions", f.upto.functions)
        /\ f.paths \subseteq 1..f.upto.paths
    BY DEF FrameTrue
  <2>2. \A p \in 1..f.upto.paths : nodes'[p].func \in First("functions", f.upto.functions)'
    BY <1>4, <1>5, <2>1
  <2>3. f.calls \subseteq First("functions", f.upto.functions)'
    BY <1>5, <2>1
  <2> QED BY <1>3, <1>6, <2>1, <2>2, <2>3 DEF FrameTrue
<1> QED BY <1>2, <1>7

LEMMA QuietKeepsWireNames ==
  ASSUME PipelineTypeOK, PipelineTypeOK', TablesGrow, WireNames,
         NEW off, NEW dropped, Quiet(off, dropped)
  PROVE  WireNames'
<1>1. TablesOK /\ TablesOK'
  BY DEF PipelineTypeOK, EmitterTypeOK, TablesOK
<1>2. SUFFICES ASSUME NEW c \in Nat, NEW i \in Nat, OnWire(c, i)'
               PROVE  /\ FrameTrue(Line(c, i))'
                      /\ \A kind \in Kinds : \A name \in First(kind, Line(c, i).upto[kind])' :
                           \/ name \in stores'[To(c)'][kind]
                           \/ \E j \in 1..i : OnWire(c, j)' /\ name \in Line(c, j)'[kind]
  BY DEF WireNames, Covered
<1>3. PICK k, f : k \in Nat /\ k = i + off[c] /\ f = Line(c, k)
  BY DEF Quiet
<1>4. /\ OnWire(c, k) /\ Line(c, i)' = f /\ c \notin dropped /\ c \in DOMAIN conns
      /\ f \in FrameType /\ off[c] \in Nat /\ To(c)' = To(c) /\ stores'[To(c)] = stores[To(c)]
  BY <1>2, <1>3, OnWireFacts DEF Quiet, PipelineTypeOK
<1>5. /\ FrameTrue(f)'
      /\ \A kind \in Kinds : First(kind, f.upto[kind])' = First(kind, f.upto[kind])
  BY <1>1, <1>3, <1>4, FrameTrueGrows DEF WireNames
<1>6. ASSUME NEW kind \in Kinds, NEW name \in First(kind, f.upto[kind])
      PROVE  \/ name \in stores'[To(c)'][kind]
             \/ \E j \in 1..i : OnWire(c, j)' /\ name \in Line(c, j)'[kind]
  <2>1. CASE name \in stores[To(c)][kind]
    BY <1>4, <2>1
  <2>2. ASSUME NEW j \in 1..k, OnWire(c, j), name \in Line(c, j)[kind]
        PROVE  \E e \in 1..i : OnWire(c, e)' /\ name \in Line(c, e)'[kind]
    <3>1. j > off[c]
      BY <2>2 DEF Quiet
    <3>2. PICK e \in 1..i : j = e + off[c]
      <4>1. j - off[c] \in 1..i /\ j = (j - off[c]) + off[c]
        BY <1>3, <1>4, <3>1
      <4> QED BY <4>1
    <3>3. OnWire(c, e)' /\ Line(c, e)' = Line(c, j)
      BY <1>4, <2>2, <3>2 DEF Quiet
    <3> QED BY <2>2, <3>3
  <2> QED BY <1>3, <1>4, <1>6, <2>1, <2>2 DEF WireNames, Covered
<1> QED BY <1>4, <1>5, <1>6

\* A name on its way, or known: what a connection carries.
Carried(c, kind, name) ==
  \/ name \in stores[To(c)][kind]
  \/ \E j \in Nat : OnWire(c, j) /\ name \in Line(c, j)[kind]

LEMMA QuietCarries ==
  ASSUME PipelineTypeOK, NEW off, NEW dropped, Quiet(off, dropped),
         NEW c \in DOMAIN conns, Alive(c)', NEW kind, NEW name, Carried(c, kind, name)
  PROVE  Carried(c, kind, name)'
<1>1. /\ Alive(c) /\ c \notin dropped /\ To(c)' = To(c) /\ stores'[To(c)] = stores[To(c)]
  BY DEF Quiet
<1>2. off[c] \in Nat
  BY ConnFacts DEF Quiet, PipelineTypeOK
<1>3. ASSUME NEW j \in Nat, OnWire(c, j), name \in Line(c, j)[kind]
      PROVE  \E e \in Nat : OnWire(c, e)' /\ name \in Line(c, e)'[kind]
  <2>1. j > off[c]
    BY <1>3 DEF Quiet
  <2>2. PICK e \in Nat : j = e + off[c] /\ e > 0
    <3>1. j - off[c] \in Nat /\ j - off[c] > 0 /\ j = (j - off[c]) + off[c]
      BY <1>2, <2>1
    <3> QED BY <3>1
  <2>3. OnWire(c, e)' /\ Line(c, e)' = Line(c, j)
    BY <1>1, <1>3, <2>2 DEF Quiet
  <2> QED BY <1>3, <2>3
<1> QED BY <1>1, <1>3 DEF Carried

LEMMA SentIsCarried ==
  ASSUME SentCovered, sink # 0, Alive(sink), NEW kind \in Kinds,
         NEW name \in First(kind, sent[kind])
  PROVE  Carried(sink, kind, name)
BY DEF SentCovered, Carried

\* The emitter's side, while it does nothing itself.
LEMMA EmitterIdleNames ==
  ASSUME PipelineTypeOK, PipelineTypeOK', TablesGrow, EmitterNames, UNCHANGED tickVars,
         DOMAIN conns \subseteq DOMAIN conns',
         \A kind \in Kinds : \A name : \A c \in DOMAIN conns :
           Alive(c)' /\ Carried(c, kind, name) => Carried(c, kind, name)',
         \A c \in DOMAIN conns : Alive(c)' => Alive(c)
  PROVE  EmitterNames'
<1>1. TablesOK /\ TablesOK' /\ frame \in FrameType /\ sent \in Counts
  BY DEF PipelineTypeOK, EmitterTypeOK, TablesOK
<1>2. at' = at /\ frame' = frame /\ sink' = sink /\ sent' = sent
  BY DEF tickVars
<1>3. PICK f, s, c : f = frame /\ s = sent /\ c = sink
  OBVIOUS
<1>4. at' = "named" => FrameTrue(frame)'
  <2>1. ASSUME at = "named" PROVE FrameTrue(f)'
    BY <1>1, <1>3, <2>1, FrameTrueGrows DEF EmitterNames
  <2> QED BY <1>2, <1>3, <2>1
<1>5. frame'.calls \subseteq Range(functions)' /\ frame'.census = {}
  BY <1>1, <1>2, RangesGrow DEF EmitterNames
<1>6. \A kind \in Kinds : /\ s[kind] \in Nat /\ s[kind] <= Size(kind) /\ s[kind] <= Size(kind)'
                          /\ First(kind, s[kind])' = First(kind, s[kind])
  <2>1. \A kind \in Kinds : s[kind] \in Nat /\ s[kind] <= Size(kind)
    BY <1>1, <1>3 DEF EmitterNames, SentCovered, Counts, Kinds
  <2> QED BY <2>1, FirstGrows DEF TablesGrow
<1>7. ASSUME c # 0, Alive(c)', NEW kind \in Kinds, NEW name \in First(kind, s[kind])
      PROVE  Carried(c, kind, name)'
  <2>1. c \in DOMAIN conns
    BY <1>3, <1>7, ConnFacts DEF PipelineTypeOK, EmitterTypeOK, SinkIsLast
  <2>2. Alive(c)
    BY <1>7, <2>1
  <2>3. Carried(c, kind, name)
    BY <1>3, <1>7, <2>2, SentIsCarried DEF EmitterNames
  <2> QED BY <1>7, <2>1, <2>3
<1>8. at = "named" => \A kind \in Kinds :
        First(kind, f.upto[kind])' \subseteq First(kind, s[kind])' \cup f[kind]
  <2> SUFFICES ASSUME at = "named", NEW kind \in Kinds
               PROVE  First(kind, f.upto[kind])' \subseteq First(kind, s[kind])' \cup f[kind]
    OBVIOUS
  <2>1. First(kind, f.upto[kind])' = First(kind, f.upto[kind])
    BY <1>1, <1>3, FrameTrueGrows DEF EmitterNames
  <2> QED BY <1>3, <1>6, <2>1 DEF EmitterNames, SentCovered
<1>9. SentCovered'
  <2>1. sink' # 0 /\ Alive(sink)' => \A kind \in Kinds : \A name \in First(kind, s[kind])' :
          Carried(sink, kind, name)'
    BY <1>2, <1>3, <1>6, <1>7
  <2> QED BY <1>2, <1>3, <1>6, <1>8, <2>1 DEF SentCovered, Carried
<1> QED BY <1>4, <1>5, <1>9 DEF EmitterNames

LEMMA SameNames ==
  ASSUME UNCHANGED <<registryVars, types>>
  PROVE  /\ \A kind \in Kinds : Size(kind)' = Size(kind) /\ \A n : First(kind, n)' = First(kind, n)
         /\ Range(functions)' = Range(functions) /\ Range(types)' = Range(types)
         /\ \A f : FrameTrue(f)' <=> FrameTrue(f)
<1>1. functions' = functions /\ nodes' = nodes /\ types' = types
  BY DEF registryVars
<1>2. \A kind \in Kinds : Size(kind)' = Size(kind) /\ \A n : First(kind, n)' = First(kind, n)
  BY <1>1 DEF Size, First, Name
<1>3. Range(functions)' = Range(functions) /\ Range(types)' = Range(types)
  BY <1>1 DEF Range
<1>4. \A f : FrameTrue(f)' <=> FrameTrue(f)
  BY <1>1, <1>2, <1>3 DEF FrameTrue, Kinds
<1> QED BY <1>2, <1>3, <1>4

\* What was sent stays carried where the wire is left alone, or is nothing at first.
LEMMA SentStays ==
  ASSUME EmitterNames, UNCHANGED <<registryVars, types>>, UNCHANGED <<conns, stores>>,
         sent' = sent, sink' \in {sink, 0}
  PROVE  /\ \A kind \in Kinds : sent'[kind] <= Size(kind)'
         /\ sink' # 0 /\ Alive(sink)' => \A kind \in Kinds : \A name \in First(kind, sent[kind])' :
              Carried(sink, kind, name)'
<1>1. \A c : /\ Alive(c)' <=> Alive(c)
             /\ \A kind, name : Carried(c, kind, name)' <=> Carried(c, kind, name)
  BY DEF Alive, Carried, To, Line, OnWire, Hello, Torn
<1>2. PICK s, c : s = sent /\ c = sink'
  OBVIOUS
<1>3. \A kind \in Kinds : s[kind] <= Size(kind) /\ First(kind, s[kind])' = First(kind, s[kind])
                          /\ Size(kind)' = Size(kind)
  BY <1>2, SameNames DEF EmitterNames, SentCovered
<1>4. ASSUME c # 0, Alive(c)', NEW kind \in Kinds, NEW name \in First(kind, s[kind])'
      PROVE  Carried(c, kind, name)'
  <2>1. c = sink /\ Alive(c) /\ name \in First(kind, sent[kind])
    BY <1>1, <1>2, <1>3, <1>4
  <2>2. Carried(c, kind, name)
    BY <1>4, <2>1, SentIsCarried DEF EmitterNames
  <2> QED BY <1>1, <2>2
<1> QED BY <1>2, <1>3, <1>4

\* registers_since: the frame has all that was not sent, up to the counts it carries.
LEMMA NamedFrameNames ==
  ASSUME PipelineTypeOK, EmitterNames
  PROVE  LET f == Named(PathsUpTo(NewNames), PathsUpTo(NewNames))
         IN /\ FrameTrue(f) /\ f.calls = frame.calls /\ f.census = {}
            /\ \A kind \in Kinds :
                 First(kind, f.upto[kind]) \subseteq First(kind, sent[kind]) \cup f[kind]
<1>1. TablesOK /\ frame \in FrameType /\ sent \in Counts
  BY DEF PipelineTypeOK, EmitterTypeOK, TablesOK
<1>2. PICK n, f : n = PathsUpTo(NewNames) /\ f = Named(n, n)
  OBVIOUS
<1>3. n \in sent.paths..Len(nodes) /\ n \in Nat
  <2>1. n \in sent.paths..Len(nodes)
    BY <1>2, NamedFrame DEF EmitterNames, SentCovered
  <2> QED BY <1>1, <2>1 DEF Counts
<1>4. /\ f.functions = Past(functions, sent.functions) /\ f.types = Past(types, sent.types)
      /\ f.paths = (sent.paths + 1)..n
      /\ f.upto.functions = Len(functions) /\ f.upto.types = Len(types) /\ f.upto.paths = n
      /\ f.calls = frame.calls /\ f.census = frame.census
  BY <1>1, <1>2 DEF Named, FrameType
<1>5. FrameTrue(f)
  <2>1. \A kind \in Kinds : f.upto[kind] <= Size(kind)
    BY <1>1, <1>3, <1>4, TableFacts DEF Kinds, Size
  <2>2. f.calls \subseteq First("functions", f.upto.functions)
    BY <1>1, <1>4, TableFacts DEF EmitterNames
  <2>3. \A p \in 1..f.upto.paths : nodes[p].func \in First("functions", f.upto.functions)
    BY <1>1, <1>3, <1>4, TableFacts
  <2>4. f.paths \subseteq 1..f.upto.paths
    BY <1>1, <1>4 DEF Counts
  <2>5. f.census \subseteq Range(types)
    BY <1>4 DEF EmitterNames
  <2> QED BY <2>1, <2>2, <2>3, <2>4, <2>5 DEF FrameTrue
<1>6. ASSUME NEW kind \in Kinds
      PROVE  First(kind, f.upto[kind]) \subseteq First(kind, sent[kind]) \cup f[kind]
  <2>1. CASE kind = "functions"
    BY <1>1, <1>4, <2>1, TableFacts DEF First, Name, Past, Counts
  <2>2. CASE kind = "types"
    BY <1>1, <1>4, <2>2, TableFacts DEF First, Name, Past, Counts
  <2>3. CASE kind = "paths"
    BY <1>1, <1>3, <1>4, <2>3 DEF First, Name, Counts
  <2> QED BY <2>1, <2>2, <2>3 DEF Kinds
<1> QED BY <1>2, <1>4, <1>5, <1>6 DEF EmitterNames

LEMMA EmitterStepNames ==
  ASSUME PipelineTypeOK, PipelineTypeOK', EmitterNames, Tick \/ NoSink \/ SendToNobody
  PROVE  EmitterNames'
<1>1. /\ UNCHANGED <<registryVars, types>> /\ UNCHANGED <<conns, stores>>
      /\ sent' = sent /\ sink' \in {sink, 0}
  BY DEF Tick, Drain, RegistersSince, NoSink, GiveUp, SendToNobody, SendFailed, daemonVars
<1>2. /\ \A kind \in Kinds : sent'[kind] <= Size(kind)'
      /\ sink' # 0 /\ Alive(sink)' => \A kind \in Kinds : \A name \in First(kind, sent[kind])' :
           Carried(sink, kind, name)'
  BY <1>1, SentStays
<1>3. CASE RegistersSince
  <2>1. PICK f, s : f = Named(PathsUpTo(NewNames), PathsUpTo(NewNames)) /\ s = sent
    OBVIOUS
  <2>2. frame' = f /\ sent' = s
    BY <1>3, <2>1 DEF RegistersSince
  <2>3. /\ FrameTrue(f) /\ f.calls = frame.calls /\ f.census = {}
        /\ \A kind \in Kinds :
             First(kind, f.upto[kind]) \subseteq First(kind, s[kind]) \cup f[kind]
    BY <2>1, NamedFrameNames
  <2>4. /\ FrameTrue(f)' /\ f.calls \subseteq Range(functions)'
        /\ \A kind \in Kinds :
             First(kind, f.upto[kind])' \subseteq First(kind, s[kind])' \cup f[kind]
    BY <1>1, <2>3, SameNames DEF EmitterNames
  <2> QED BY <1>2, <2>2, <2>3, <2>4 DEF EmitterNames, SentCovered, Carried
<1>4. CASE Drain \/ NoSink \/ SendToNobody
  <2>1. at' # "named" /\ frame'.census = {} /\ frame'.calls \in {{}, Range(functions)}
    <3>1. EmptyFrame.calls = {} /\ EmptyFrame.census = {}
      BY DEF EmptyFrame
    <3>2. PICK r : r = Recorded
      OBVIOUS
    <3>3. CASE Drain
      <4>1. frame' = [EmptyFrame EXCEPT !.window = window + 1, !.calls = Range(functions),
                                        !.stacks = r]
        BY <3>2, <3>3 DEF Drain
      <4>2. at' # "named"
        BY <3>3 DEF Drain
      <4> QED BY <3>1, <4>1, <4>2, EmptyFrameType DEF FrameType
    <3>4. CASE NoSink \/ SendToNobody
      BY <3>1, <3>4 DEF NoSink, GiveUp, SendToNobody, SendFailed
    <3> QED BY <1>4, <3>3, <3>4
  <2>2. frame'.calls \subseteq Range(functions)'
    BY <1>1, <2>1, SameNames
  <2> QED BY <1>2, <2>1, <2>2 DEF EmitterNames, SentCovered, Carried
<1> QED BY <1>3, <1>4 DEF Tick

LEMMA OpenSinkNames ==
  ASSUME PipelineTypeOK, PipelineTypeOK', EmitterNames, OpenSink
  PROVE  EmitterNames'
<1>1. /\ UNCHANGED <<registryVars, types>> /\ at' = "reached" /\ frame' = frame
      /\ sent' = NoneSent
  BY DEF OpenSink, Connect
<1>2. \A kind \in Kinds : sent'[kind] = 0 /\ First(kind, sent[kind])' = {} /\ 0 <= Size(kind)'
  <2>1. \A kind \in Kinds : sent'[kind] = 0
    BY <1>1 DEF NoneSent, Kinds
  <2>2. \A kind \in Kinds : First(kind, sent[kind])' = {}
    BY <2>1 DEF First
  <2>3. \A kind \in Kinds : Size(kind) \in Nat /\ Size(kind)' = Size(kind)
    BY <1>1, SameNames, TableFacts DEF PipelineTypeOK, EmitterTypeOK, TablesOK
  <2> QED BY <2>1, <2>2, <2>3
<1>3. frame'.calls \subseteq Range(functions)' /\ frame'.census = {}
  BY <1>1, SameNames DEF EmitterNames
<1> QED BY <1>1, <1>2, <1>3 DEF EmitterNames, SentCovered

\* How a send leaves the emitter: counting the frame as sent, or the sink as gone.
Ticked(line) ==
  /\ at' = "sleep" /\ frame' = EmptyFrame
  /\ UNCHANGED <<registryVars, types, window, stores>>
  /\ \/ sink' = 0 /\ sent' = sent /\ seq' = seq
     \/ sink' = sink /\ sent' = Complete.upto /\ seq' = seq + 1 /\ line = Complete

LEMMA CompleteFacts ==
  /\ \A kind \in Kinds : Complete[kind] = frame[kind]
  /\ Complete.upto = frame.upto /\ Complete.calls = frame.calls /\ Complete.seq = frame.seq
  /\ Complete.stacks = frame.stacks /\ Complete.window = frame.window
  /\ frame \in FrameType => Complete.census = Range(types)
BY DEF Complete, WithCensus, Kinds, FrameType

LEMMA WrittenNames ==
  ASSUME PipelineTypeOK, PipelineTypeOK', WireNames, EmitterNames,
         NEW line, NEW last, Written(line, last), Ticked(line)
  PROVE  WireNames' /\ EmitterNames'
<1>1. PICK f, s : f = Complete /\ s = sink
  OBVIOUS
<1>2. /\ at = "named" /\ s \in DOMAIN conns /\ Alive(s) /\ line \in {Torn, f}
      /\ f \in FrameType /\ last \in Nat /\ last > 0
      /\ \A i : OnWire(s, i) => i < last
      /\ \A c \in DOMAIN conns : To(c)' = To(c) /\ Alive(c)' = Alive(c)
      /\ \A c, i : OnWire(c, i)' <=> OnWire(c, i) \/ (c = s /\ i = last /\ line # Torn)
      /\ \A c, i : OnWire(c, i) => Line(c, i)' = Line(c, i)
      /\ \A c, i : c = s /\ i = last => Line(c, i)' = line
  BY <1>1 DEF Written
<1>3. UNCHANGED <<registryVars, types>> /\ stores' = stores
  BY DEF Ticked
<1>4. /\ \A kind \in Kinds : Size(kind)' = Size(kind) /\ \A n : First(kind, n)' = First(kind, n)
      /\ \A g : FrameTrue(g)' <=> FrameTrue(g)
  BY <1>3, SameNames
<1>5. frame \in FrameType /\ s # 0
  BY <1>1, <1>2 DEF PipelineTypeOK, EmitterTypeOK, SinkIsLast
<1>6. /\ f.upto = frame.upto /\ f.calls = frame.calls /\ f.census = Range(types)
      /\ \A kind \in Kinds : f[kind] = frame[kind]
  BY <1>1, <1>5, CompleteFacts
<1>7. FrameTrue(f)
  <2>1. FrameTrue(frame)
    BY <1>2 DEF EmitterNames
  <2>2. f.paths = frame.paths
    BY <1>6 DEF Kinds
  <2> QED BY <1>6, <2>1, <2>2 DEF FrameTrue
<1>8. ASSUME NEW kind \in Kinds, NEW name \in First(kind, f.upto[kind])
      PROVE  Carried(s, kind, name) \/ name \in f[kind]
  <2>1. name \in First(kind, sent[kind]) \/ name \in f[kind]
    BY <1>2, <1>6, <1>8 DEF EmitterNames, SentCovered
  <2> QED BY <1>1, <1>2, <1>5, <2>1, SentIsCarried DEF EmitterNames
<1>9. WireNames'
  <2> SUFFICES ASSUME NEW c \in Nat, NEW i \in Nat, OnWire(c, i)'
               PROVE  /\ FrameTrue(Line(c, i))'
                      /\ \A kind \in Kinds : \A name \in First(kind, Line(c, i).upto[kind])' :
                           \/ name \in stores'[To(c)'][kind]
                           \/ \E j \in 1..i : OnWire(c, j)' /\ name \in Line(c, j)'[kind]
    BY DEF WireNames, Covered
  <2>1. CASE OnWire(c, i)
    <3>1. PICK g : g = Line(c, i)
      OBVIOUS
    <3>2. Line(c, i)' = g /\ To(c)' = To(c) /\ FrameTrue(g)
      BY <1>2, <2>1, <3>1, OnWireFacts DEF PipelineTypeOK, WireNames
    <3>3. ASSUME NEW kind \in Kinds, NEW name \in First(kind, g.upto[kind])
          PROVE  \/ name \in stores'[To(c)'][kind]
                 \/ \E j \in 1..i : OnWire(c, j)' /\ name \in Line(c, j)'[kind]
      <4>1. \/ name \in stores[To(c)][kind]
            \/ \E j \in 1..i : OnWire(c, j) /\ name \in Line(c, j)[kind]
        BY <2>1, <3>1, <3>3 DEF WireNames, Covered
      <4> QED BY <1>2, <1>3, <3>2, <4>1
    <3> QED BY <1>4, <3>2, <3>3
  <2>2. CASE c = s /\ i = last /\ line = f
    <3>1. Line(c, i)' = f /\ To(c)' = To(c) /\ OnWire(c, i)'
      BY <1>2, <2>2
    <3>2. ASSUME NEW kind \in Kinds, NEW name \in First(kind, f.upto[kind])
          PROVE  \/ name \in stores'[To(c)'][kind]
                 \/ \E j \in 1..i : OnWire(c, j)' /\ name \in Line(c, j)'[kind]
      <4>1. CASE name \in f[kind]
        BY <1>2, <2>2, <3>1, <4>1
      <4>2. CASE name \in stores[To(s)][kind]
        BY <1>3, <2>2, <3>1, <4>2
      <4>3. ASSUME NEW j \in Nat, OnWire(s, j), name \in Line(s, j)[kind]
            PROVE  \E e \in 1..i : OnWire(c, e)' /\ name \in Line(c, e)'[kind]
        <5>1. j \in 1..i
          BY <1>2, <2>2, <4>3, OnWireFacts DEF PipelineTypeOK
        <5> QED BY <1>2, <2>2, <4>3, <5>1
      <4> QED BY <1>8, <3>2, <4>1, <4>2, <4>3 DEF Carried
    <3> QED BY <1>4, <1>7, <3>1, <3>2
  <2> QED BY <1>2, <2>1, <2>2
<1>10. EmitterNames'
  <2>1. frame'.calls = {} /\ frame'.census = {} /\ at' # "named"
    BY DEF Ticked, EmptyFrame
  <2>2. CASE sink' = 0 /\ sent' = sent
    BY <1>4, <2>1, <2>2 DEF EmitterNames, SentCovered
  <2>3. CASE sink' = s /\ sent' = f.upto /\ line = f
    <3>1. PICK upto : upto = f.upto
      OBVIOUS
    <3>2. \A kind \in Kinds : upto[kind] <= Size(kind)'
      BY <1>4, <1>7, <3>1 DEF FrameTrue
    <3>3. ASSUME NEW kind \in Kinds, NEW name \in First(kind, upto[kind])
          PROVE  Carried(s, kind, name)'
      <4>1. CASE Carried(s, kind, name)
        BY <1>2, <1>3, <4>1 DEF Carried
      <4>2. CASE name \in f[kind]
        <5>1. OnWire(s, last)' /\ Line(s, last)' = f
          BY <1>2, <2>3, MarksAreNoFrames
        <5> QED BY <1>2, <4>2, <5>1 DEF Carried
      <4> QED BY <1>8, <3>1, <3>3, <4>1, <4>2
    <3> QED BY <1>4, <2>1, <2>3, <3>1, <3>2, <3>3 DEF EmitterNames, SentCovered, Carried
  <2> QED BY <1>1, <2>2, <2>3 DEF Ticked
<1> QED BY <1>9, <1>10

\* A frame that is applied has every name it carries registered: what a context needs was
\* registered before it, or comes with it.
LEMMA AppliedTakes ==
  ASSUME PipelineTypeOK, WireNames, NEW c, Applied(c), NEW kind \in Kinds
  PROVE  stores[To(c)][kind] \cup Line(c, 1)[kind] \subseteq AppliedStore(c)[kind]
<1>1. PICK f, store : f = Line(c, 1) /\ store = stores[To(c)]
  OBVIOUS
<1>2. OnWire(c, 1) /\ f \in FrameType /\ store \in StoreType /\ c \in Nat
  BY <1>1, OnWireFacts DEF Applied, PipelineTypeOK, WireTypeOK
<1>3. /\ Registered(store, f) \in StoreType
      /\ Registered(store, f).functions = store.functions \cup f.functions
      /\ Registered(store, f).types = store.types \cup f.types
      /\ Registered(store, f).paths = RegisteredPaths(store, f)
  <2>1. 0 \in Nat
    OBVIOUS
  <2> QED BY <1>2, <2>1, RegisteredType
<1>4. PICK g : g = Registered(store, f)
  OBVIOUS
<1>5. AppliedStore(c).functions = g.functions /\ AppliedStore(c).types = g.types
      /\ AppliedStore(c).paths = g.paths
  BY <1>1, <1>3, <1>4 DEF AppliedStore, StoreType
<1>6. /\ FrameTrue(f)
      /\ \A k \in Kinds : \A name \in First(k, f.upto[k]) :
           name \in store[k] \/ name \in f[k]
  BY <1>1, <1>2 DEF WireNames, Covered
<1>7. f.paths \subseteq RegisteredPaths(store, f)
  <2> SUFFICES ASSUME NEW p \in f.paths
               PROVE  /\ nodes[p].func \in store.functions \cup f.functions
                      /\ nodes[p].parent \in {0} \cup store.paths \cup f.paths
    BY DEF RegisteredPaths
  <2>1. /\ p \in 1..f.upto.paths /\ f.upto.paths \in Nat /\ f.upto.paths <= Len(nodes)
        /\ Len(nodes) \in Nat
    <3>1. f.upto["paths"] <= Size("paths") /\ f.upto \in Counts
      BY <1>2, <1>6 DEF FrameTrue, FrameType, Kinds
    <3> QED BY <1>6, <3>1, TableFacts
        DEF FrameTrue, Counts, Size, PipelineTypeOK, EmitterTypeOK, TablesOK
  <2>2. nodes[p].func \in store.functions \cup f.functions
    BY <1>6, <2>1 DEF FrameTrue, Kinds
  <2>3. nodes[p].parent \in 0..(p - 1)
    BY <2>1, TableFacts DEF PipelineTypeOK, EmitterTypeOK, TablesOK
  <2>4. nodes[p].parent # 0 => nodes[p].parent \in First("paths", f.upto.paths)
    BY <2>1, <2>3, FirstFacts
  <2> QED BY <1>6, <2>2, <2>4 DEF Kinds
<1>8. store.paths \subseteq RegisteredPaths(store, f)
  BY DEF RegisteredPaths
<1> QED BY <1>1, <1>3, <1>4, <1>5, <1>7, <1>8 DEF Kinds

LEMMA AppliedCarries ==
  ASSUME PipelineTypeOK, PipelineTypeOK', WireNames, NEW c, Applied(c),
         NEW e \in DOMAIN conns, NEW kind \in Kinds, NEW name,
         NEW i \in Nat,
         \/ name \in stores[To(e)][kind]
         \/ \E j \in 1..i : OnWire(e, j) /\ name \in Line(e, j)[kind]
  PROVE  \/ name \in stores'[To(e)'][kind]
         \/ \E j \in 1..i : /\ e = c => j < i
                            /\ OnWire(e, j)' /\ name \in Line(e, j)'[kind]
<1>1. To(e)' = To(e) /\ To(e) \in Daemons /\ To(c) \in Daemons
  BY ConnFacts DEF Applied, PipelineTypeOK
<1>2. stores[To(e)][kind] \subseteq stores'[To(e)][kind]
  BY <1>1, AppliedTakes DEF Applied, PipelineTypeOK, WireTypeOK
<1>3. stores'[To(c)] = AppliedStore(c)
  BY <1>1 DEF Applied, PipelineTypeOK, WireTypeOK
<1>4. ASSUME NEW j \in 1..i, OnWire(e, j), name \in Line(e, j)[kind]
      PROVE  \/ name \in stores'[To(e)][kind]
             \/ \E k \in 1..i : /\ e = c => k < i
                                /\ OnWire(e, k)' /\ name \in Line(e, k)'[kind]
  <2>1. CASE e # c
    BY <1>4, <2>1 DEF Applied
  <2>2. CASE e = c /\ j = 1
    BY <1>3, <1>4, <2>2, AppliedTakes
  <2>3. CASE e = c /\ j # 1
    <3>1. PICK k \in 1..i : j = k + 1 /\ k < i
      <4>1. j - 1 \in 1..i /\ j = (j - 1) + 1 /\ j - 1 < i
        BY <2>3
      <4> QED BY <4>1
    <3>2. OnWire(c, k)' /\ Line(c, k)' = Line(c, j)
      BY <1>4, <2>3, <3>1 DEF Applied
    <3> QED BY <1>4, <2>3, <3>1, <3>2
  <2> QED BY <2>1, <2>2, <2>3
<1> QED BY <1>1, <1>2, <1>4

LEMMA AppliedNames ==
  ASSUME PipelineTypeOK, PipelineTypeOK', TablesGrow, WireNames, EmitterNames,
         NEW c, Applied(c), UNCHANGED emitterVars
  PROVE  WireNames' /\ EmitterNames'
<1>1. UNCHANGED <<registryVars, types>> /\ UNCHANGED tickVars
  BY DEF emitterVars, tickVars
<1>2. /\ \A kind \in Kinds : \A n : First(kind, n)' = First(kind, n)
      /\ \A g : FrameTrue(g)' <=> FrameTrue(g)
  BY <1>1, SameNames
<1>3. WireNames'
  <2> SUFFICES ASSUME NEW e \in Nat, NEW i \in Nat, OnWire(e, i)'
               PROVE  /\ FrameTrue(Line(e, i))'
                      /\ \A kind \in Kinds : \A name \in First(kind, Line(e, i).upto[kind])' :
                           \/ name \in stores'[To(e)'][kind]
                           \/ \E j \in 1..i : OnWire(e, j)' /\ name \in Line(e, j)'[kind]
    BY DEF WireNames, Covered
  <2>1. PICK k, g : /\ k \in Nat
                    /\ k = (IF e = c THEN i + 1 ELSE i)
                    /\ g = Line(e, k)
    OBVIOUS
  <2>2. OnWire(e, k) /\ Line(e, i)' = g
    BY <2>1 DEF Applied
  <2>3. FrameTrue(g) /\ e \in DOMAIN conns /\ k \in Nat
    BY <2>1, <2>2, OnWireFacts DEF WireNames, PipelineTypeOK
  <2>4. ASSUME NEW kind \in Kinds, NEW name \in First(kind, g.upto[kind])
        PROVE  \/ name \in stores'[To(e)'][kind]
               \/ \E j \in 1..i : OnWire(e, j)' /\ name \in Line(e, j)'[kind]
    <3>1. \/ name \in stores[To(e)][kind]
          \/ \E j \in 1..k : OnWire(e, j) /\ name \in Line(e, j)[kind]
      BY <2>1, <2>2, <2>4 DEF WireNames, Covered
    <3>2. \/ name \in stores'[To(e)'][kind]
          \/ \E j \in 1..k : /\ e = c => j < k
                             /\ OnWire(e, j)' /\ name \in Line(e, j)'[kind]
      BY <2>3, <3>1, AppliedCarries
    <3> QED BY <2>1, <3>2
  <2> QED BY <1>2, <2>2, <2>3, <2>4
<1>4. ASSUME NEW kind \in Kinds, NEW name, NEW e \in DOMAIN conns, Carried(e, kind, name)
      PROVE  Carried(e, kind, name)'
  <2>1. PICK i \in Nat : \/ name \in stores[To(e)][kind]
                         \/ \E j \in 1..i : OnWire(e, j) /\ name \in Line(e, j)[kind]
    <3>1. ASSUME NEW j \in Nat, OnWire(e, j), name \in Line(e, j)[kind]
          PROVE  \E i \in Nat : \E k \in 1..i : OnWire(e, k) /\ name \in Line(e, k)[kind]
      <4>1. j \in 1..j
        BY <3>1, OnWireFacts DEF PipelineTypeOK
      <4> QED BY <3>1, <4>1
    <3>2. 0 \in Nat
      OBVIOUS
    <3> QED BY <1>4, <3>1, <3>2 DEF Carried
  <2> QED BY <2>1, AppliedCarries DEF Carried
<1>5. /\ DOMAIN conns \subseteq DOMAIN conns'
      /\ \A e \in DOMAIN conns : Alive(e)' => Alive(e)
  BY DEF Applied
<1> QED BY <1>1, <1>3, <1>4, <1>5, EmitterIdleNames

\* Nothing the emitter does, and nothing new for a daemon.
LEMMA IdleNames ==
  ASSUME PipelineTypeOK, PipelineTypeOK', TablesGrow, WireNames, EmitterNames,
         NEW off, NEW dropped, Quiet(off, dropped), UNCHANGED tickVars
  PROVE  WireNames' /\ EmitterNames'
<1>1. WireNames'
  BY QuietKeepsWireNames
<1>2. /\ DOMAIN conns \subseteq DOMAIN conns'
      /\ \A c \in DOMAIN conns : Alive(c)' => Alive(c)
  BY DEF Quiet
<1>3. \A kind \in Kinds : \A name : \A c \in DOMAIN conns :
        Alive(c)' /\ Carried(c, kind, name) => Carried(c, kind, name)'
  BY QuietCarries
<1> QED BY <1>1, <1>2, <1>3, EmitterIdleNames

-----------------------------------------------------------------------------
(* Readings.                                                               *)

WireReadings ==
  /\ \A c \in 1..MaxConns : unnamed[c] \subseteq Range(types)
  /\ \A c, i \in Nat : OnWire(c, i) =>
       /\ unnamed[c] \subseteq First("types", Line(c, i).upto.types)
       /\ \A j \in Nat : OnWire(c, j) /\ i < j =>
            Line(c, i).census \subseteq First("types", Line(c, j).upto.types)

EmitterReadings ==
  at = "named" =>
    /\ unnamed[sink] \subseteq First("types", frame.upto.types)
    /\ \A i \in Nat : OnWire(sink, i) =>
         Line(sink, i).census \subseteq First("types", frame.upto.types)

LEMMA QuietWireReadings ==
  ASSUME PipelineTypeOK, PipelineTypeOK', TablesGrow, WireNames, WireReadings,
         NEW off, NEW dropped, Quiet(off, dropped), unnamed' = unnamed
  PROVE  WireReadings'
<1>1. TablesOK /\ TablesOK'
  BY DEF PipelineTypeOK, EmitterTypeOK, TablesOK
<1>2. \A c \in 1..MaxConns : unnamed'[c] \subseteq Range(types)'
  BY <1>1, RangesGrow DEF WireReadings
<1>3. ASSUME NEW c \in Nat, NEW i \in Nat, OnWire(c, i)'
      PROVE  \E k \in Nat, f \in FrameType :
               /\ k = i + off[c] /\ f = Line(c, k) /\ OnWire(c, k) /\ Line(c, i)' = f
               /\ First("types", f.upto.types)' = First("types", f.upto.types)
  <2>1. off[c] \in Nat
    BY DEF Quiet
  <2>2. PICK k, f : k \in Nat /\ k = i + off[c] /\ f = Line(c, k)
    BY <2>1
  <2>3. OnWire(c, k) /\ Line(c, i)' = f /\ f \in FrameType
    BY <1>3, <2>2, OnWireFacts DEF Quiet, PipelineTypeOK
  <2>4. First("types", f.upto.types)' = First("types", f.upto.types)
    BY <1>1, <2>2, <2>3, FrameTrueGrows DEF WireNames, Kinds
  <2> QED BY <2>2, <2>3, <2>4
<1>4. ASSUME NEW c \in Nat, NEW i \in Nat, OnWire(c, i)'
      PROVE  /\ unnamed'[c] \subseteq First("types", Line(c, i).upto.types)'
             /\ \A j \in Nat : OnWire(c, j)' /\ i < j =>
                  Line(c, i)'.census \subseteq First("types", Line(c, j).upto.types)'
  <2>1. PICK k \in Nat, f \in FrameType :
          /\ k = i + off[c] /\ f = Line(c, k) /\ OnWire(c, k) /\ Line(c, i)' = f
          /\ First("types", f.upto.types)' = First("types", f.upto.types)
    BY <1>3, <1>4
  <2>2. unnamed'[c] \subseteq First("types", f.upto.types)'
    BY <2>1 DEF WireReadings
  <2>3. ASSUME NEW j \in Nat, OnWire(c, j)', i < j
        PROVE  Line(c, i)'.census \subseteq First("types", Line(c, j).upto.types)'
    <3>1. PICK m \in Nat, g \in FrameType :
            /\ m = j + off[c] /\ g = Line(c, m) /\ OnWire(c, m) /\ Line(c, j)' = g
            /\ First("types", g.upto.types)' = First("types", g.upto.types)
      BY <1>3, <2>3
    <3>2. off[c] \in Nat
      BY DEF Quiet
    <3>3. k < m
      BY <2>1, <2>3, <3>1, <3>2
    <3>4. f.census \subseteq First("types", g.upto.types)'
      BY <2>1, <3>1, <3>3 DEF WireReadings
    <3> QED BY <2>1, <3>1, <3>4
  <2> QED BY <2>1, <2>2, <2>3
<1> QED BY <1>2, <1>4 DEF WireReadings

LEMMA IdleReadings ==
  ASSUME PipelineTypeOK, PipelineTypeOK', TablesGrow, EmitterNames, EmitterReadings,
         NEW off, NEW dropped, Quiet(off, dropped), unnamed' = unnamed, UNCHANGED tickVars
  PROVE  EmitterReadings'
<1>1. SUFFICES ASSUME at' = "named" PROVE EmitterReadings'
  BY DEF EmitterReadings
<1>2. at = "named" /\ frame' = frame /\ sink' = sink
  BY <1>1 DEF tickVars
<1>3. PICK f, s : f = frame /\ s = sink
  OBVIOUS
<1>4. First("types", f.upto.types)' = First("types", f.upto.types)
  <2>1. f \in FrameType /\ TablesOK /\ TablesOK' /\ FrameTrue(f)
    BY <1>2, <1>3 DEF PipelineTypeOK, EmitterTypeOK, TablesOK, EmitterNames
  <2> QED BY <2>1, FrameTrueGrows DEF Kinds
<1>5. s \in Nat
  BY <1>3 DEF PipelineTypeOK, EmitterTypeOK
<1>6. ASSUME NEW i \in Nat, OnWire(s, i)'
      PROVE  Line(s, i)'.census \subseteq First("types", f.upto.types)
  <2>1. PICK k \in Nat : k = i + off[s]
    BY <1>5 DEF Quiet
  <2>2. OnWire(s, k) /\ Line(s, i)' = Line(s, k)
    BY <1>6, <2>1 DEF Quiet
  <2> QED BY <1>2, <1>3, <2>2 DEF EmitterReadings
<1>7. unnamed'[s] \subseteq First("types", f.upto.types)
  BY <1>2, <1>3 DEF EmitterReadings
<1> QED BY <1>2, <1>3, <1>4, <1>6, <1>7 DEF EmitterReadings

LEMMA EmitterStepReadings ==
  ASSUME PipelineTypeOK, WireNames, WireReadings,
         Tick \/ NoSink \/ SendToNobody \/ OpenSink
  PROVE  EmitterReadings' /\ unnamed' = unnamed
<1>1. unnamed' = unnamed
  BY DEF Tick, NoSink, SendToNobody, OpenSink, daemonVars
<1>2. CASE RegistersSince /\ UNCHANGED <<conns, unnamed>>
  <2>1. /\ UNCHANGED <<registryVars, types>> /\ sink' = sink /\ at = "reached"
        /\ frame'.upto.types = Len(types)
    <3>1. PICK n : n = PathsUpTo(NewNames)
      OBVIOUS
    <3>2. frame' = Named(n, n) /\ frame \in FrameType
      BY <1>2, <3>1 DEF RegistersSince, PipelineTypeOK, EmitterTypeOK
    <3> QED BY <1>2, <3>2 DEF RegistersSince, Named, FrameType
  <2>2. PICK n, s : n = Len(types) /\ s = sink
    OBVIOUS
  <2>3. First("types", n)' = Range(types)
    BY <2>1, <2>2, SameNames, TableFacts
    DEF PipelineTypeOK, EmitterTypeOK, TablesOK, Kinds
  <2>4. s \in 1..MaxConns /\ s \in Nat
    BY <2>1, <2>2, ConnFacts, PipelineBounds
    DEF PipelineTypeOK, EmitterTypeOK, WireTypeOK, SinkIsLast
  <2>5. unnamed'[s] \subseteq First("types", n)'
    BY <1>2, <2>3, <2>4 DEF WireReadings
  <2>6. ASSUME NEW i \in Nat, OnWire(s, i)' PROVE Line(s, i)'.census \subseteq First("types", n)'
    <3>1. OnWire(s, i) /\ Line(s, i)' = Line(s, i)
      BY <1>2, <2>6 DEF OnWire, Line, Hello, Torn
    <3> QED BY <2>3, <2>4, <3>1 DEF WireNames, FrameTrue
  <2> QED BY <1>1, <2>1, <2>2, <2>5, <2>6 DEF EmitterReadings
<1>3. CASE Drain \/ NoSink \/ SendToNobody \/ OpenSink
  BY <1>1, <1>3
  DEF Drain, NoSink, GiveUp, SendToNobody, SendFailed, OpenSink, Connect, EmitterReadings
<1> QED BY <1>2, <1>3 DEF Tick, daemonVars

LEMMA WrittenReadings ==
  ASSUME PipelineTypeOK, WireReadings, EmitterReadings, unnamed' = unnamed,
         NEW line, NEW last, Written(line, last), Ticked(line)
  PROVE  WireReadings' /\ EmitterReadings'
<1>1. PICK f, s : f = Complete /\ s = sink
  OBVIOUS
<1>2. /\ at = "named" /\ s \in DOMAIN conns /\ line \in {Torn, f}
      /\ f \in FrameType /\ last \in Nat /\ last > 0
      /\ \A i : OnWire(s, i) => i < last
      /\ \A c, i : OnWire(c, i)' <=> OnWire(c, i) \/ (c = s /\ i = last /\ line # Torn)
      /\ \A c, i : OnWire(c, i) => Line(c, i)' = Line(c, i)
      /\ \A c, i : c = s /\ i = last => Line(c, i)' = line
  BY <1>1 DEF Written
<1>3. UNCHANGED <<registryVars, types>> /\ at' = "sleep"
  BY DEF Ticked
<1>4. (\A n : First("types", n)' = First("types", n)) /\ Range(types)' = Range(types)
  BY <1>3, SameNames DEF Kinds
<1>5. f.upto = frame.upto
  BY <1>1, CompleteFacts
<1>6. ASSUME NEW c \in Nat, NEW i \in Nat, OnWire(c, i)'
      PROVE  /\ unnamed'[c] \subseteq First("types", Line(c, i).upto.types)'
             /\ \A j \in Nat : OnWire(c, j)' /\ i < j =>
                  Line(c, i)'.census \subseteq First("types", Line(c, j).upto.types)'
  <2>1. CASE OnWire(c, i)
    <3>1. PICK g : g = Line(c, i)
      OBVIOUS
    <3>2. Line(c, i)' = g /\ unnamed[c] \subseteq First("types", g.upto.types)
      BY <1>2, <2>1, <3>1 DEF WireReadings
    <3>3. ASSUME NEW j \in Nat, OnWire(c, j)', i < j
          PROVE  g.census \subseteq First("types", Line(c, j).upto.types)'
      <4>1. CASE OnWire(c, j)
        <5>1. PICK h : h = Line(c, j)
          OBVIOUS
        <5>2. Line(c, j)' = h /\ g.census \subseteq First("types", h.upto.types)
          BY <1>2, <2>1, <3>1, <3>3, <4>1, <5>1 DEF WireReadings
        <5> QED BY <1>4, <5>2
      <4>2. CASE c = s /\ j = last /\ line = f
        BY <1>1, <1>2, <1>4, <1>5, <2>1, <3>1, <4>2 DEF EmitterReadings
      <4> QED BY <1>2, <3>3, <4>1, <4>2
    <3> QED BY <1>4, <3>2, <3>3
  <2>2. CASE c = s /\ i = last /\ line = f
    <3>1. Line(c, i)' = f /\ unnamed[c] \subseteq First("types", f.upto.types)
      BY <1>1, <1>2, <1>5, <2>2 DEF EmitterReadings
    <3>2. \A j \in Nat : ~(OnWire(c, j)' /\ i < j)
      BY <1>2, <2>2
    <3> QED BY <1>4, <3>1, <3>2
  <2> QED BY <1>2, <1>6, <2>1, <2>2
<1>7. \A c \in 1..MaxConns : unnamed'[c] \subseteq Range(types)'
  BY <1>4 DEF WireReadings
<1> QED BY <1>3, <1>6, <1>7 DEF WireReadings, EmitterReadings

LEMMA AppliedReadings ==
  ASSUME PipelineTypeOK, WireNames, WireReadings, EmitterReadings,
         NEW c, Applied(c), UNCHANGED emitterVars
  PROVE  WireReadings' /\ EmitterReadings'
<1>1. UNCHANGED <<registryVars, types>> /\ at' = at /\ frame' = frame /\ sink' = sink
  BY DEF emitterVars
<1>2. (\A n : First("types", n)' = First("types", n)) /\ Range(types)' = Range(types)
  BY <1>1, SameNames DEF Kinds
<1>3. PICK f, refused : /\ f = Line(c, 1) /\ refused = f.census \ Registered(stores[To(c)], f).types
  OBVIOUS
<1>4. /\ OnWire(c, 1) /\ f \in FrameType /\ c \in 1..MaxConns /\ c \in Nat /\ refused \subseteq f.census
      /\ unnamed' = [unnamed EXCEPT ![c] = @ \cup refused]
      /\ unnamed \in [1..MaxConns -> SUBSET Types]
  <2>1. OnWire(c, 1) /\ unnamed' = [unnamed EXCEPT ![c] = @ \cup refused]
    BY <1>3 DEF Applied
  <2> QED BY <1>3, <2>1, OnWireFacts, ConnFacts, PipelineBounds DEF PipelineTypeOK, WireTypeOK
<1>5. unnamed'[c] = unnamed[c] \cup refused /\ \A e \in 1..MaxConns : e # c => unnamed'[e] = unnamed[e]
  BY <1>4
<1>6. ASSUME NEW e \in 1..MaxConns PROVE unnamed'[e] \subseteq Range(types)'
  <2>1. f.census \subseteq Range(types)
    BY <1>3, <1>4 DEF WireNames, FrameTrue
  <2> QED BY <1>2, <1>4, <1>5, <2>1 DEF WireReadings
<1>7. ASSUME NEW e \in Nat, NEW i \in Nat, OnWire(e, i)'
      PROVE  \E k, g : /\ k \in Nat /\ k = (IF e = c THEN i + 1 ELSE i) /\ g = Line(e, k)
                       /\ OnWire(e, k) /\ Line(e, i)' = g /\ e \in 1..MaxConns
                       /\ unnamed'[e] \subseteq First("types", g.upto.types)
  <2>1. PICK k, g : k \in Nat /\ k = (IF e = c THEN i + 1 ELSE i) /\ g = Line(e, k)
    OBVIOUS
  <2>2. OnWire(e, k) /\ Line(e, i)' = g
    BY <1>7, <2>1 DEF Applied
  <2>3. e \in 1..MaxConns
    BY <2>2, OnWireFacts, ConnFacts, PipelineBounds DEF PipelineTypeOK, WireTypeOK
  <2>4. unnamed[e] \subseteq First("types", g.upto.types)
    BY <2>1, <2>2 DEF WireReadings
  <2>5. ASSUME e = c PROVE refused \subseteq First("types", g.upto.types)
    <3>1. 1 < k
      BY <1>7, <2>1, <2>5 DEF Applied
    <3> QED BY <1>3, <1>4, <2>1, <2>2, <2>5, <3>1 DEF WireReadings
  <2> QED BY <1>5, <2>1, <2>2, <2>3, <2>4, <2>5
<1>8. ASSUME NEW e \in Nat, NEW i \in Nat, OnWire(e, i)'
      PROVE  /\ unnamed'[e] \subseteq First("types", Line(e, i).upto.types)'
             /\ \A j \in Nat : OnWire(e, j)' /\ i < j =>
                  Line(e, i)'.census \subseteq First("types", Line(e, j).upto.types)'
  <2>1. PICK k, g : /\ k \in Nat
                    /\ k = (IF e = c THEN i + 1 ELSE i) /\ g = Line(e, k)
                    /\ OnWire(e, k) /\ Line(e, i)' = g
                    /\ unnamed'[e] \subseteq First("types", g.upto.types)
    BY <1>7, <1>8
  <2>2. ASSUME NEW j \in Nat, OnWire(e, j)', i < j
        PROVE  g.census \subseteq First("types", Line(e, j).upto.types)'
    <3>1. PICK m, h : /\ m \in Nat
                      /\ m = (IF e = c THEN j + 1 ELSE j) /\ h = Line(e, m)
                      /\ OnWire(e, m) /\ Line(e, j)' = h
      BY <1>7, <2>2
    <3>2. k < m
      BY <2>1, <2>2, <3>1
    <3>3. g.census \subseteq First("types", h.upto.types)
      BY <2>1, <3>1, <3>2 DEF WireReadings
    <3> QED BY <1>2, <3>1, <3>3
  <2> QED BY <1>2, <2>1, <2>2
<1>9. EmitterReadings'
  <2>1. SUFFICES ASSUME at = "named" PROVE EmitterReadings'
    BY <1>1 DEF EmitterReadings
  <2>2. PICK s, upto : s = sink /\ upto = frame.upto
    OBVIOUS
  <2>3. s \in 1..MaxConns /\ s \in Nat
    BY <2>1, <2>2, ConnFacts, PipelineBounds
    DEF PipelineTypeOK, EmitterTypeOK, WireTypeOK, SinkIsLast
  <2>4. unnamed'[s] \subseteq First("types", upto.types)
    <3>1. unnamed[s] \subseteq First("types", upto.types)
      BY <2>1, <2>2 DEF EmitterReadings
    <3>2. s = c => refused \subseteq First("types", upto.types)
      <4>1. 1 \in Nat
        OBVIOUS
      <4> QED BY <1>3, <1>4, <2>1, <2>2, <4>1 DEF EmitterReadings
    <3> QED BY <1>5, <2>3, <3>1, <3>2
  <2>5. ASSUME NEW i \in Nat, OnWire(s, i)'
        PROVE  Line(s, i)'.census \subseteq First("types", upto.types)
    <3>1. PICK k, g : k \in Nat /\ g = Line(s, k) /\ OnWire(s, k) /\ Line(s, i)' = g
      BY <1>7, <2>3, <2>5
    <3> QED BY <2>1, <2>2, <3>1 DEF EmitterReadings
  <2> QED BY <1>1, <1>2, <2>2, <2>4, <2>5 DEF EmitterReadings
<1> QED BY <1>6, <1>8, <1>9 DEF WireReadings

-----------------------------------------------------------------------------
(* Windows.                                                                *)

\* A tick in progress holds the newest window.
Holds ==
  at # "sleep" => window > 0 /\ frame.window = window /\ window \notin Range(applied)

LEMMA QuietWindows ==
  ASSUME PipelineTypeOK, WindowsInv, NEW off, NEW dropped, Quiet(off, dropped),
         applied' = applied, window' \in {window, window + 1},
         at' # "sleep" => /\ frame'.window \in {frame.window, window'}
                          /\ (at # "sleep" /\ window' = window) \/ (window' = window + 1 /\ frame'.window = window')
  PROVE  WindowsInv'
<1>1. window \in Nat /\ window' \in Nat /\ applied \in Seq(Nat)
  BY EmitterBounds DEF PipelineTypeOK, EmitterTypeOK, WireTypeOK
<1>2. \A i \in DOMAIN applied : applied[i] \in 1..window
  BY DEF WindowsInv
<1>3. \A w \in Range(applied) : w \in 1..window
  BY <1>2 DEF Range
<1>4. Range(applied)' = Range(applied)
  BY DEF Range
<1>5. Holds'
  BY <1>1, <1>3, <1>4 DEF WindowsInv, Holds
<1>6. ASSUME NEW c \in Nat, NEW i \in Nat, OnWire(c, i)'
      PROVE  \E k \in Nat : /\ k = i + off[c] /\ OnWire(c, k)
                            /\ Line(c, i)'.window = Line(c, k).window
  <2>1. PICK k \in Nat : k = i + off[c]
    BY DEF Quiet
  <2>2. OnWire(c, k) /\ Line(c, i)' = Line(c, k)
    BY <1>6, <2>1 DEF Quiet
  <2> QED BY <2>1, <2>2
<1>7. ASSUME NEW c \in Nat, NEW i \in Nat, OnWire(c, i)'
      PROVE  /\ Line(c, i)'.window \in 1..window'
             /\ Line(c, i)'.window \notin Range(applied)'
             /\ at' # "sleep" => Line(c, i)'.window # window'
             /\ \A e, j \in Nat : OnWire(e, j)' /\ Line(e, j)'.window = Line(c, i)'.window =>
                  e = c /\ j = i
  <2>1. PICK k \in Nat : /\ k = i + off[c] /\ OnWire(c, k)
                         /\ Line(c, i)'.window = Line(c, k).window
    BY <1>6, <1>7
  <2>2. PICK w : w = Line(c, k).window
    OBVIOUS
  <2>3. /\ w \in 1..window /\ w \notin Range(applied) /\ (at # "sleep" => w # window)
        /\ \A e, j \in Nat : OnWire(e, j) /\ Line(e, j).window = w => e = c /\ j = k
    BY <2>1, <2>2 DEF WindowsInv
  <2>4. ASSUME NEW e \in Nat, NEW j \in Nat, OnWire(e, j)', Line(e, j)'.window = w
        PROVE  e = c /\ j = i
    <3>1. PICK m \in Nat : /\ m = j + off[e] /\ OnWire(e, m)
                           /\ Line(e, j)'.window = Line(e, m).window
      BY <1>6, <2>4
    <3>2. e = c /\ m = k
      BY <2>3, <2>4, <3>1
    <3>3. off[c] \in Nat
      BY DEF Quiet
    <3> QED BY <2>1, <3>1, <3>2, <3>3
  <2> QED BY <1>1, <1>4, <2>1, <2>2, <2>3, <2>4
<1>8. \A i \in DOMAIN applied' : applied'[i] \in 1..window'
  BY <1>1, <1>2
<1> QED BY <1>5, <1>7, <1>8 DEF WindowsInv, Holds

LEMMA WrittenWindows ==
  ASSUME PipelineTypeOK, WindowsInv, applied' = applied,
         NEW line, NEW last, Written(line, last), Ticked(line)
  PROVE  WindowsInv'
<1>1. PICK f, s : f = Complete /\ s = sink
  OBVIOUS
<1>2. /\ at = "named" /\ line \in {Torn, f} /\ last \in Nat
      /\ \A i : OnWire(s, i) => i < last
      /\ \A c, i : OnWire(c, i)' <=> OnWire(c, i) \/ (c = s /\ i = last /\ line # Torn)
      /\ \A c, i : OnWire(c, i) => Line(c, i)' = Line(c, i)
      /\ \A c, i : c = s /\ i = last => Line(c, i)' = line
  BY <1>1 DEF Written
<1>3. at' = "sleep" /\ window' = window
  BY DEF Ticked
<1>4. /\ f.window = window /\ window \in 1..window /\ window \notin Range(applied)
  <2>1. frame.window = window /\ window > 0 /\ window \notin Range(applied)
    BY <1>2 DEF WindowsInv
  <2>2. window \in Nat
    BY EmitterBounds DEF PipelineTypeOK, EmitterTypeOK
  <2> QED BY <1>1, <2>1, <2>2, CompleteFacts
<1>5. ASSUME NEW c \in Nat, NEW i \in Nat, OnWire(c, i)'
      PROVE  \/ OnWire(c, i) /\ Line(c, i)'.window = Line(c, i).window /\ Line(c, i).window # window
             \/ c = s /\ i = last /\ Line(c, i)'.window = window
  BY <1>2, <1>4, <1>5 DEF WindowsInv
<1>6. ASSUME NEW c \in Nat, NEW i \in Nat, OnWire(c, i)'
      PROVE  /\ Line(c, i)'.window \in 1..window
             /\ Line(c, i)'.window \notin Range(applied)
             /\ \A e, j \in Nat : OnWire(e, j)' /\ Line(e, j)'.window = Line(c, i)'.window =>
                  e = c /\ j = i
  <2>1. CASE OnWire(c, i) /\ Line(c, i)'.window = Line(c, i).window /\ Line(c, i).window # window
    BY <1>5, <2>1 DEF WindowsInv
  <2>2. CASE c = s /\ i = last /\ Line(c, i)'.window = window
    BY <1>4, <1>5, <2>2
  <2> QED BY <1>5, <1>6, <2>1, <2>2
<1>7. Range(applied)' = Range(applied)
  BY DEF Range
<1>8. \A i \in DOMAIN applied' : applied'[i] \in 1..window'
  BY <1>3 DEF WindowsInv
<1> QED BY <1>3, <1>6, <1>7, <1>8 DEF WindowsInv

LEMMA AppliedWindows ==
  ASSUME PipelineTypeOK, WindowsInv, NEW c, Applied(c), UNCHANGED emitterVars
  PROVE  WindowsInv' /\ Range(applied)' = Range(applied) \cup {Line(c, 1).window}
<1>1. at' = at /\ window' = window /\ frame' = frame
  BY DEF emitterVars
<1>2. PICK f, w : f = Line(c, 1) /\ w = f.window
  OBVIOUS
<1>3. OnWire(c, 1) /\ f \in FrameType /\ c \in Nat /\ applied' = Append(applied, w)
  BY <1>2, OnWireFacts DEF Applied, PipelineTypeOK
<1>4. 1 \in Nat
  OBVIOUS
<1>5. /\ w \in 1..window /\ (at # "sleep" => w # window)
      /\ \A e, j \in Nat : OnWire(e, j) /\ Line(e, j).window = w => e = c /\ j = 1
  BY <1>2, <1>3, <1>4 DEF WindowsInv
<1>6. w \in Nat /\ window \in Nat /\ applied \in Seq(Nat) /\ Len(applied) \in Nat
  BY <1>2, <1>3, EmitterBounds, LenProperties
  DEF PipelineTypeOK, EmitterTypeOK, WireTypeOK, FrameType
<1>7. /\ DOMAIN applied' = 1..(Len(applied) + 1) /\ DOMAIN applied = 1..Len(applied)
      /\ \A i \in 1..Len(applied) : applied'[i] = applied[i]
      /\ applied'[Len(applied) + 1] = w
  BY <1>3, <1>6, AppendProperties, LenProperties
<1>8. Range(applied)' = Range(applied) \cup {w}
  BY <1>6, <1>7 DEF Range
<1>9. \A i \in DOMAIN applied' : applied'[i] \in 1..window'
  BY <1>1, <1>5, <1>6, <1>7 DEF WindowsInv
<1>10. Holds'
  BY <1>1, <1>5, <1>8 DEF WindowsInv, Holds
<1>11. ASSUME NEW e \in Nat, NEW i \in Nat, OnWire(e, i)'
       PROVE  \E k \in Nat : /\ k = (IF e = c THEN i + 1 ELSE i) /\ OnWire(e, k)
                             /\ Line(e, i)' = Line(e, k) /\ i \in Nat /\ i > 0
  <2>1. PICK k \in Nat : k = (IF e = c THEN i + 1 ELSE i)
    OBVIOUS
  <2>2. OnWire(e, k) /\ Line(e, i)' = Line(e, k)
    BY <1>11, <2>1 DEF Applied
  <2>3. i > 0
    BY <1>11, <2>1, <2>2, OnWireFacts DEF Applied, PipelineTypeOK
  <2> QED BY <2>1, <2>2, <2>3
<1>12. ASSUME NEW e \in Nat, NEW i \in Nat, OnWire(e, i)'
       PROVE  /\ Line(e, i)'.window \in 1..window
              /\ Line(e, i)'.window \notin Range(applied)'
              /\ at # "sleep" => Line(e, i)'.window # window
              /\ \A d, j \in Nat : OnWire(d, j)' /\ Line(d, j)'.window = Line(e, i)'.window =>
                   d = e /\ j = i
  <2>1. PICK k \in Nat : /\ k = (IF e = c THEN i + 1 ELSE i) /\ OnWire(e, k)
                         /\ Line(e, i)' = Line(e, k) /\ i > 0
    BY <1>11, <1>12
  <2>2. PICK x : x = Line(e, k).window
    OBVIOUS
  <2>3. /\ x \in 1..window /\ x \notin Range(applied) /\ (at # "sleep" => x # window)
        /\ \A d, j \in Nat : OnWire(d, j) /\ Line(d, j).window = x => d = e /\ j = k
    BY <2>1, <2>2 DEF WindowsInv
  <2>4. x # w
    BY <1>5, <2>1, <2>2
  <2>5. ASSUME NEW d \in Nat, NEW j \in Nat, OnWire(d, j)', Line(d, j)'.window = x
        PROVE  d = e /\ j = i
    <3>1. PICK m \in Nat : /\ m = (IF d = c THEN j + 1 ELSE j) /\ OnWire(d, m)
                           /\ Line(d, j)' = Line(d, m)
      BY <1>11, <2>5
    <3>2. d = e /\ m = k
      BY <2>3, <2>5, <3>1
    <3> QED BY <2>1, <3>1, <3>2
  <2> QED BY <1>8, <2>1, <2>2, <2>3, <2>4, <2>5
<1>13. WindowsInv'
  BY <1>1, <1>9, <1>10, <1>12 DEF WindowsInv, Holds
<1> QED BY <1>2, <1>8, <1>13

-----------------------------------------------------------------------------
(* Numbers.                                                                *)

LEMMA NumberedFacts ==
  ASSUME PipelineTypeOK
  PROVE  /\ \A d \in Daemons : stores[d] \in StoreType
         /\ \A c, i \in Nat : OnWire(c, i) => To(c) \in Daemons /\ Line(c, i).seq \in Nat
         /\ seq \in Nat /\ None \notin Nat
<1>1. ASSUME NEW c \in Nat, NEW i \in Nat, OnWire(c, i)
      PROVE  To(c) \in Daemons /\ Line(c, i).seq \in Nat
  <2>1. To(c) \in Daemons /\ Line(c, i) \in FrameType
    BY <1>1, OnWireFacts DEF PipelineTypeOK
  <2> QED BY <2>1 DEF FrameType
<1> QED BY <1>1, PipelineSentinel DEF PipelineTypeOK, EmitterTypeOK, WireTypeOK

LEMMA UnmetIsSilent ==
  ASSUME PipelineTypeOK, NEW d \in Daemons, Unmet(d)
  PROVE  /\ \A c, i : ~(OnWire(c, i) /\ To(c) = d)
         /\ \A n \in Nat : ~Numbered(d, n)
<1>1. \A c, i : OnWire(c, i) => To(c) # d
  BY OnWireFacts DEF PipelineTypeOK, Unmet, Alive
<1>2. stores[d].seq \notin Nat
  BY PipelineSentinel DEF Unmet, Fresh
<1> QED BY <1>1, <1>2 DEF Numbered

LEMMA UnmetStays ==
  ASSUME NEW d, Unmet(d), stores'[d] \in {stores[d], Fresh}, DOMAIN conns' = DOMAIN conns,
         \A c \in DOMAIN conns : To(c)' = To(c) /\ (Alive(c)' => Alive(c))
  PROVE  Unmet(d)'
BY DEF Unmet, Alive, To, Fresh

\* No step but a connection, and a bind, concerns who was met.
LEMMA MetStays ==
  ASSUME MetAfterBinding, UNCHANGED bindVars, sink' \in {sink, 0},
         \A d \in Daemons : Unmet(d) => Unmet(d)',
         \A c \in DOMAIN conns : To(c)' = To(c), sink # 0 => sink \in DOMAIN conns
  PROVE  MetAfterBinding'
<1>1. step' = step /\ file' = file
  BY DEF bindVars
<1>2. PICK s, who : s = sink' /\ who = file
  OBVIOUS
<1>3. ASSUME s # 0, who \in Daemons, who # To(s)' PROVE Unmet(who)'
  <2>1. s = sink /\ To(s)' = To(s)
    BY <1>2, <1>3
  <2> QED BY <1>2, <1>3, <2>1 DEF MetAfterBinding
<1>4. \A d \in Daemons : step'[d] \notin {"bound", "serving", "stopping"} => Unmet(d)'
  BY <1>1 DEF MetAfterBinding
<1> QED BY <1>1, <1>2, <1>3, <1>4 DEF MetAfterBinding

\* The daemon that answers was there before: it has bound the file at the path.
LEMMA OpenSinkMet ==
  ASSUME PipelineTypeOK, MetAfterBinding, OpenSink
  PROVE  MetAfterBinding' /\ \A d : Current(d)' => Current(d)
<1>1. /\ UNCHANGED bindVars /\ stores' = stores
      /\ conns' \in Seq(ConnType) /\ Len(conns') = Len(conns) + 1
      /\ sink' = Len(conns') /\ file \in Daemons
      /\ \A c : c = Len(conns) + 1 => To(c)' = file
  BY OpenSinkIsQuiet DEF OpenSink, daemonVars, PipelineTypeOK
<1>2. PICK s : s = sink'
  OBVIOUS
<1>3. file' = file /\ step' = step /\ To(s)' = file
  BY <1>1, <1>2 DEF bindVars
<1>4. PICK off : Quiet(off, {})
  BY OpenSinkIsQuiet DEF PipelineTypeOK
<1>5. step[file] \in {"bound", "serving", "stopping"}
  BY <1>1 DEF PipelineTypeOK, BindInv, HoldersHaveBound
<1>6. /\ DOMAIN conns' = 1..(Len(conns) + 1) /\ DOMAIN conns = 1..Len(conns) /\ Len(conns) \in Nat
  BY <1>1, ConnFacts, LenProperties DEF PipelineTypeOK
<1>7. ASSUME NEW d \in Daemons, step[d] \notin {"bound", "serving", "stopping"}
      PROVE  Unmet(d)'
  <2>1. Unmet(d) /\ d # file
    BY <1>5, <1>7 DEF MetAfterBinding
  <2>2. ASSUME NEW c \in DOMAIN conns', To(c)' = d PROVE conns'[c].handler = "closed"
    <3>1. c \in DOMAIN conns
      BY <1>1, <1>6, <2>1, <2>2
    <3>2. To(c) = d /\ ~Alive(c)
      BY <1>4, <2>1, <2>2, <3>1 DEF Quiet, Unmet, Alive
    <3> QED BY <1>4, <3>1, <3>2 DEF Quiet, Alive
  <2> QED BY <1>1, <2>1, <2>2 DEF Unmet, Fresh
<1>8. MetAfterBinding'
  BY <1>2, <1>3, <1>7 DEF MetAfterBinding
<1>9. \A d : Current(d)' => Current(d)
  BY <1>2, <1>3 DEF Current
<1> QED BY <1>8, <1>9

LEMMA MainMet ==
  ASSUME PipelineTypeOK, MetAfterBinding, NEW d \in Daemons, Main(d)
  PROVE  /\ MetAfterBinding'
         /\ \A e \in Daemons : Current(e)' => Current(e) \/ Unmet(e)'
<1>1. /\ Start(d) \/ BindStep(d) \/ Stop(d) \/ Crash(d)
      /\ sink' = sink
  BY DEF Main, emitterVars
<1>2. /\ conns' \in Seq(ConnType) /\ Len(conns') = Len(conns)
      /\ Ends(d) => /\ stores' = [stores EXCEPT ![d] = Fresh]
                    /\ \A c \in DOMAIN conns : ~Alive(c)' <=> ~Alive(c) \/ To(c) = d
      /\ ~Ends(d) => conns' = conns /\ stores' = stores
      /\ \E off, dropped : Quiet(off, dropped)
  BY MainIsQuiet DEF PipelineTypeOK
<1>3. /\ DOMAIN conns' = DOMAIN conns /\ stores \in [Daemons -> StoreType]
  BY <1>2, ConnFacts, LenProperties DEF PipelineTypeOK, WireTypeOK
<1>4. \A c \in DOMAIN conns : To(c)' = To(c) /\ (Alive(c)' => Alive(c))
  BY <1>2 DEF Quiet
<1>5. \A e \in Daemons : stores'[e] \in {stores[e], Fresh}
  BY <1>2, <1>3
<1>6. \A e \in Daemons : Unmet(e) => Unmet(e)'
  BY <1>3, <1>4, <1>5, UnmetStays
<1>7. Ends(d) => Unmet(d)'
  BY <1>2, <1>3, <1>4 DEF Unmet, Alive, Fresh
<1>8. /\ step' = [step EXCEPT ![d] = step'[d]] /\ step \in [Daemons -> Steps]
      /\ \A e \in Daemons : e # d => step'[e] = step[e]
  BY <1>1 DEF Start, BindStep, BindFirst, ProbeListener, Unlink, BindAgain, BindHttp,
              RemoveSocket, Stop, Crash, Go, PipelineTypeOK, BindInv, BindTypeOK
<1>9. ~Ends(d) /\ step'[d] \notin {"bound", "serving", "stopping"} =>
        step[d] \notin {"bound", "serving", "stopping"}
  BY <1>1, <1>8 DEF Ends, Running, Start, BindStep, BindFirst, ProbeListener, Unlink, BindAgain,
              BindHttp, RemoveSocket, Stop, Crash, Go
<1>10. ASSUME NEW e \in Daemons, step'[e] \notin {"bound", "serving", "stopping"}
       PROVE  Unmet(e)'
  BY <1>6, <1>7, <1>8, <1>9, <1>10 DEF MetAfterBinding
<1>11. file' \in {file, Nobody, Stale} \/ (file' = d /\ step[d] \in {"starting", "rebinding"})
  BY <1>1 DEF Start, BindStep, BindFirst, ProbeListener, Unlink, BindAgain, BindHttp,
              RemoveSocket, Stop, Crash, FileWithout
<1>12. file' \in Daemons => file' = file \/ Unmet(file)'
  <2>1. file' = d /\ step[d] \in {"starting", "rebinding"} => Unmet(d)'
    BY <1>6 DEF MetAfterBinding
  <2>2. Nobody \notin Daemons /\ Stale \notin Daemons
    BY BindSentinels
  <2> QED BY <1>11, <2>1, <2>2
<1>13. PICK s : s = sink
  OBVIOUS
<1>14. s # 0 => s \in DOMAIN conns
  BY <1>13, ConnFacts DEF PipelineTypeOK, EmitterTypeOK, SinkIsLast
<1>15. ASSUME s # 0, file' \in Daemons, file' # To(s)' PROVE Unmet(file)'
  <2>1. To(s)' = To(s)
    BY <1>4, <1>14, <1>15
  <2>2. CASE file' = file
    BY <1>6, <1>13, <1>15, <2>1, <2>2 DEF MetAfterBinding
  <2> QED BY <1>12, <1>15, <2>2
<1>16. MetAfterBinding'
  BY <1>1, <1>10, <1>13, <1>15 DEF MetAfterBinding
<1>17. \A e \in Daemons : Current(e)' => Current(e) \/ Unmet(e)'
  BY <1>1, <1>4, <1>12, <1>13, <1>14 DEF Current
<1> QED BY <1>16, <1>17

\* Steps that bring no new number: connections that end take theirs along, and a daemon
\* that ends forgets the one it had.
LEMMA QuietNumbers ==
  ASSUME PipelineTypeOK, PipelineTypeOK', InTurn, NEW off, NEW dropped, Quiet(off, dropped),
         seq' = seq, disorder => disorder', at' = "named" => frame'.seq = seq',
         \A d \in Daemons : stores'[d] \in {stores[d], Fresh},
         \A d \in Daemons :
           \/ \A n \in Nat : ~Numbered(d, n)'
           \/ /\ stores'[d] = stores[d] /\ (Current(d)' => Current(d))
              /\ disorder' \/ \A c, i : OnWire(c, i) /\ To(c) = d => c \notin dropped
  PROVE  InTurn'
<1>1. /\ \A d \in Daemons : stores[d] \in StoreType
      /\ seq \in Nat /\ None \notin Nat /\ Fresh.seq = None /\ Fresh.missed = 0
  BY NumberedFacts DEF Fresh
<1>2. ASSUME NEW c \in Nat, NEW i \in Nat, OnWire(c, i)'
      PROVE  \E k \in Nat : /\ k = i + off[c] /\ OnWire(c, k) /\ Line(c, i)' = Line(c, k)
                            /\ To(c)' = To(c) /\ To(c) \in Daemons /\ Line(c, k).seq \in Nat
                            /\ stores'[To(c)] = stores[To(c)]
  <2>1. PICK k \in Nat : k = i + off[c]
    BY DEF Quiet
  <2>2. OnWire(c, k) /\ Line(c, i)' = Line(c, k) /\ c \notin dropped
    BY <1>2, <2>1 DEF Quiet
  <2>3. c \in DOMAIN conns
    BY <2>2, OnWireFacts DEF PipelineTypeOK
  <2> QED BY <2>1, <2>2, <2>3, NumberedFacts DEF Quiet
<1>3. ASSUME NEW d \in Daemons, NEW n \in Nat, Numbered(d, n)' PROVE Numbered(d, n)
  <2>1. CASE stores'[d].seq = n
    BY <1>1, <1>3, <2>1 DEF Numbered
  <2>2. ASSUME NEW c \in Nat, NEW i \in Nat, OnWire(c, i)', To(c)' = d, Line(c, i)'.seq = n
        PROVE  Numbered(d, n)
    BY <1>2, <2>2 DEF Numbered
  <2> QED BY <1>3, <2>1, <2>2 DEF Numbered
<1>4. \A d \in Daemons, n \in Nat : Numbered(d, n)' => n <= seq'
  BY <1>3 DEF InTurn
<1>5. SUFFICES ASSUME ~disorder', ~disorder
               PROVE  /\ \A d \in Daemons : stores'[d].missed = 0
                      /\ \A c, i \in Nat : OnWire(c, i)' =>
                           /\ stores'[To(c)'].seq # None => stores'[To(c)'].seq <= Line(c, i)'.seq
                           /\ \A e, j \in Nat : OnWire(e, j)' /\ To(e)' = To(c)' /\ Before(c, i, e, j) =>
                                Line(c, i)'.seq <= Line(e, j)'.seq
                      /\ \A d \in Daemons, n, m, k \in Nat :
                           /\ Numbered(d, n)' /\ n < k /\ k < m
                           /\ Numbered(d, m)' \/ (m = seq' /\ Current(d)')
                           => Numbered(d, k)'
  BY <1>4 DEF InTurn, Before
<1>6. \A d \in Daemons : stores'[d].missed = 0
  BY <1>1, <1>5 DEF InTurn
<1>7. ASSUME NEW c \in Nat, NEW i \in Nat, OnWire(c, i)'
      PROVE  /\ stores'[To(c)'].seq # None => stores'[To(c)'].seq <= Line(c, i)'.seq
             /\ \A e, j \in Nat : OnWire(e, j)' /\ To(e)' = To(c)' /\ Before(c, i, e, j) =>
                  Line(c, i)'.seq <= Line(e, j)'.seq
  <2>1. PICK k \in Nat : /\ k = i + off[c] /\ OnWire(c, k) /\ Line(c, i)' = Line(c, k)
                         /\ To(c)' = To(c) /\ stores'[To(c)] = stores[To(c)]
    BY <1>2, <1>7
  <2>2. stores'[To(c)'].seq # None => stores'[To(c)'].seq <= Line(c, i)'.seq
    BY <1>5, <2>1 DEF InTurn
  <2>3. ASSUME NEW e \in Nat, NEW j \in Nat, OnWire(e, j)', To(e)' = To(c)', Before(c, i, e, j)
        PROVE  Line(c, i)'.seq <= Line(e, j)'.seq
    <3>1. PICK m \in Nat : /\ m = j + off[e] /\ OnWire(e, m) /\ Line(e, j)' = Line(e, m)
                           /\ To(e)' = To(e)
      BY <1>2, <2>3
    <3>2. off[c] \in Nat
      BY DEF Quiet
    <3>3. Before(c, k, e, m)
      BY <2>1, <2>3, <3>1, <3>2 DEF Before
    <3>4. Line(c, k).seq <= Line(e, m).seq
      BY <1>5, <2>1, <2>3, <3>1, <3>3 DEF InTurn
    <3> QED BY <2>1, <3>1, <3>4
  <2> QED BY <2>2, <2>3
<1>8. ASSUME NEW d \in Daemons, NEW n \in Nat, NEW m \in Nat, NEW k \in Nat,
             Numbered(d, n)', n < k, k < m, Numbered(d, m)' \/ (m = seq' /\ Current(d)')
      PROVE  Numbered(d, k)'
  <2>1. /\ stores'[d] = stores[d] /\ (Current(d)' => Current(d))
        /\ \A c, i : OnWire(c, i) /\ To(c) = d => c \notin dropped
    BY <1>5, <1>8
  <2>2. Numbered(d, k)
    BY <1>3, <1>5, <1>8, <2>1 DEF InTurn
  <2>3. ASSUME NEW c \in Nat, NEW i \in Nat, OnWire(c, i), To(c) = d, Line(c, i).seq = k
        PROVE  Numbered(d, k)'
    <3>1. off[c] \in Nat /\ i > off[c] /\ c \notin dropped /\ c \in DOMAIN conns
      BY <2>1, <2>3, OnWireFacts DEF Quiet, PipelineTypeOK
    <3>2. PICK j \in Nat : i = j + off[c] /\ j > 0
      <4>1. i - off[c] \in Nat /\ i = (i - off[c]) + off[c] /\ i - off[c] > 0
        BY <3>1
      <4> QED BY <4>1
    <3>3. OnWire(c, j)' /\ Line(c, j)' = Line(c, i) /\ To(c)' = To(c)
      BY <2>3, <3>1, <3>2 DEF Quiet
    <3> QED BY <2>3, <3>3 DEF Numbered
  <2>4. stores[d].seq = k => Numbered(d, k)'
    BY <2>1 DEF Numbered
  <2> QED BY <2>2, <2>3, <2>4 DEF Numbered
<1> QED BY <1>6, <1>7, <1>8

\* The frame that is written has the emitter's number, the next one follows it.
LEMMA WrittenNumbers ==
  ASSUME PipelineTypeOK, PipelineTypeOK', NumbersInv, UNCHANGED <<bindVars, disorder>>,
         NEW line, NEW last, Written(line, last), Ticked(line)
  PROVE  NumbersInv'
<1>1. PICK f, s, d : f = Complete /\ s = sink /\ d = To(s)
  OBVIOUS
<1>2. /\ at = "named" /\ s \in DOMAIN conns /\ s = Len(conns) /\ Alive(s) /\ line \in {Torn, f}
      /\ last \in Nat /\ last > 0 /\ s \in Nat /\ s # 0 /\ d \in Daemons
      /\ \A i : OnWire(s, i) => i < last
      /\ DOMAIN conns' = DOMAIN conns
      /\ \A c \in DOMAIN conns : To(c)' = To(c) /\ Alive(c)' = Alive(c)
      /\ \A c, i : OnWire(c, i)' <=> OnWire(c, i) \/ (c = s /\ i = last /\ line # Torn)
      /\ \A c, i : OnWire(c, i) => Line(c, i)' = Line(c, i)
      /\ \A c, i : c = s /\ i = last => Line(c, i)' = line
  BY <1>1, ConnFacts DEF Written, PipelineTypeOK
<1>3. /\ at' = "sleep" /\ stores' = stores /\ file' = file /\ disorder' = disorder
      /\ sink' \in {s, 0} /\ seq' \in {seq, seq + 1}
      /\ seq' = seq + 1 => line = f
      /\ seq' = seq => sink' = 0
      /\ seq \in Nat
  BY <1>1, NumberedFacts DEF Ticked, bindVars
<1>4. f.seq = seq
  BY <1>1, <1>2, CompleteFacts DEF NumbersInv, InTurn
<1>5. ASSUME NEW e \in Daemons, Unmet(e) PROVE Unmet(e)' /\ e # d
  <2>1. e # d
    BY <1>1, <1>2, <1>5 DEF Unmet, Alive
  <2>2. stores'[e] \in {stores[e], Fresh}
    BY <1>3
  <2> QED BY <1>2, <1>5, <2>1, <2>2, UnmetStays
<1>6. MetAfterBinding'
  <2>1. \A e \in Daemons : Unmet(e) => Unmet(e)'
    BY <1>5
  <2>2. UNCHANGED bindVars /\ sink' \in {sink, 0}
    BY <1>1, <1>3
  <2>3. \A c \in DOMAIN conns : To(c)' = To(c)
    BY <1>2
  <2>4. sink # 0 => sink \in DOMAIN conns
    BY <1>1, <1>2
  <2> QED BY <2>1, <2>2, <2>3, <2>4, MetStays DEF NumbersInv
<1>7. ASSUME NEW e \in Daemons, Current(e)' PROVE Current(e)
  BY <1>1, <1>2, <1>3, <1>7 DEF Current
<1>8. ASSUME NEW e \in Daemons, Current(e), e # d, NEW n \in Nat PROVE ~Numbered(e, n)
  <2>1. file = e /\ file # To(sink) /\ sink # 0
    BY <1>1, <1>2, <1>8 DEF Current
  <2>2. Unmet(e)
    BY <1>8, <2>1 DEF NumbersInv, MetAfterBinding
  <2> QED BY <1>8, <2>2, UnmetIsSilent
<1>9. ASSUME NEW e \in Daemons, NEW n \in Nat
      PROVE  Numbered(e, n)' <=> Numbered(e, n) \/ (e = d /\ n = seq /\ line = f)
  <2>1. ASSUME Numbered(e, n) PROVE Numbered(e, n)'
    <3>1. stores[e].seq = n => Numbered(e, n)'
      BY <1>3 DEF Numbered
    <3>2. ASSUME NEW c \in Nat, NEW i \in Nat, OnWire(c, i), To(c) = e, Line(c, i).seq = n
          PROVE  Numbered(e, n)'
      <4>1. OnWire(c, i)' /\ Line(c, i)' = Line(c, i) /\ To(c)' = To(c)
        BY <1>2, <3>2, OnWireFacts DEF PipelineTypeOK
      <4> QED BY <3>2, <4>1 DEF Numbered
    <3> QED BY <2>1, <3>1, <3>2 DEF Numbered
  <2>2. ASSUME e = d, n = seq, line = f PROVE Numbered(e, n)'
    <3>1. f # Torn
      BY <1>1, MarksAreNoFrames DEF Written
    <3>2. OnWire(s, last)' /\ Line(s, last)' = f /\ To(s)' = d
      BY <1>1, <1>2, <2>2, <3>1
    <3> QED BY <1>2, <1>4, <2>2, <3>2 DEF Numbered
  <2>3. ASSUME NEW c \in Nat, NEW i \in Nat, OnWire(c, i)', To(c)' = e, Line(c, i)'.seq = n
        PROVE  Numbered(e, n) \/ (e = d /\ n = seq /\ line = f)
    <3>1. CASE OnWire(c, i)
      <4>1. Line(c, i)' = Line(c, i) /\ To(c)' = To(c)
        BY <1>2, <3>1, OnWireFacts DEF PipelineTypeOK
      <4> QED BY <2>3, <3>1, <4>1 DEF Numbered
    <3>2. CASE c = s /\ i = last /\ line = f
      BY <1>1, <1>2, <1>4, <2>3, <3>2
    <3> QED BY <1>2, <2>3, <3>1, <3>2
  <2>4. stores'[e].seq = n => Numbered(e, n)
    BY <1>3 DEF Numbered
  <2> QED BY <2>1, <2>2, <2>3, <2>4 DEF Numbered
<1>10. \A e \in Daemons, n \in Nat : Numbered(e, n) => n <= seq
  BY DEF NumbersInv, InTurn
<1>11. \A e \in Daemons, n \in Nat : Numbered(e, n)' => n <= seq'
  BY <1>3, <1>9, <1>10
<1>12. ASSUME ~disorder, NEW c \in Nat, NEW i \in Nat, OnWire(c, i)'
       PROVE  /\ stores'[To(c)'].seq # None => stores'[To(c)'].seq <= Line(c, i)'.seq
              /\ \A e, j \in Nat : OnWire(e, j)' /\ To(e)' = To(c)' /\ Before(c, i, e, j) =>
                   Line(c, i)'.seq <= Line(e, j)'.seq
  <2>1. CASE OnWire(c, i)
    <3>1. /\ Line(c, i)' = Line(c, i) /\ To(c)' = To(c) /\ To(c) \in Daemons
          /\ c \in DOMAIN conns /\ Line(c, i).seq \in Nat
      BY <1>2, <2>1, OnWireFacts, NumberedFacts DEF PipelineTypeOK
    <3>2. ASSUME NEW e \in Nat, NEW j \in Nat, OnWire(e, j)', To(e)' = To(c)', Before(c, i, e, j)
          PROVE  Line(c, i).seq <= Line(e, j)'.seq
      <4>1. CASE OnWire(e, j)
        <5>1. Line(e, j)' = Line(e, j) /\ To(e)' = To(e)
          BY <1>2, <4>1, OnWireFacts DEF PipelineTypeOK
        <5> QED BY <1>12, <2>1, <3>1, <3>2, <4>1, <5>1 DEF NumbersInv, InTurn
      <4>2. CASE e = s /\ j = last /\ line = f
        <5>1. Line(e, j)' = f
          BY <1>2, <4>2
        <5>2. Numbered(To(c), Line(c, i).seq)
          BY <2>1, <3>1 DEF Numbered
        <5> QED BY <1>4, <1>10, <3>1, <5>1, <5>2
      <4> QED BY <1>2, <3>2, <4>1, <4>2
    <3>3. stores[To(c)].seq # None => stores[To(c)].seq <= Line(c, i).seq
      BY <1>12, <2>1 DEF NumbersInv, InTurn
    <3> QED BY <1>3, <3>1, <3>2, <3>3
  <2>2. CASE c = s /\ i = last /\ line = f
    <3>1. Line(c, i)' = f /\ To(c)' = d
      BY <1>1, <1>2, <2>2
    <3>2. stores[d].seq # None => stores[d].seq <= seq
      <4>1. stores[d].seq \in Nat \cup {None}
        BY <1>2, NumberedFacts DEF StoreType
      <4> QED BY <1>2, <1>10, <4>1 DEF Numbered
    <3>3. ASSUME NEW e \in Nat, NEW j \in Nat, OnWire(e, j)', Before(c, i, e, j)
          PROVE  FALSE
      <4>1. e \in DOMAIN conns /\ e <= Len(conns)
        <5>1. CASE OnWire(e, j)
          BY <5>1, OnWireFacts DEF PipelineTypeOK
        <5>2. CASE e = s
          BY <1>2, <5>2
        <5> QED BY <1>2, <3>3, <5>1, <5>2
      <4>2. e = s /\ last < j
        BY <1>2, <2>2, <3>3, <4>1 DEF Before
      <4>3. OnWire(s, j)
        BY <1>2, <3>3, <4>2
      <4> QED BY <1>2, <4>2, <4>3
    <3> QED BY <1>3, <1>4, <3>1, <3>2, <3>3
  <2> QED BY <1>2, <1>12, <2>1, <2>2
<1>13. ASSUME ~disorder, NEW e \in Daemons, NEW n \in Nat, NEW m \in Nat, NEW k \in Nat,
              Numbered(e, n)', n < k, k < m, Numbered(e, m)' \/ (m = seq' /\ Current(e)')
       PROVE  Numbered(e, k)'
  <2>1. \A a, b, x \in Nat :
          Numbered(e, a) /\ a < x /\ x < b /\ (Numbered(e, b) \/ (b = seq /\ Current(e))) => Numbered(e, x)
    BY <1>13 DEF NumbersInv, InTurn
  <2>2. n <= seq' /\ m <= seq'
    BY <1>3, <1>11, <1>13
  <2>3. Numbered(e, n)
    BY <1>3, <1>9, <1>13, <2>2
  <2>4. Current(d)
    BY <1>1, <1>2 DEF Current
  <2>5. CASE Numbered(e, m)
    BY <1>9, <1>13, <2>1, <2>3, <2>5
  <2>6. CASE e = d /\ m = seq
    BY <1>9, <1>13, <2>1, <2>3, <2>4, <2>6
  <2>7. CASE m = seq' /\ Current(e)'
    <3>1. e = d
      BY <1>7, <1>8, <1>13, <2>3, <2>7
    <3>2. CASE seq' = seq
      BY <2>6, <2>7, <3>1, <3>2
    <3>3. CASE seq' = seq + 1
      <4>1. line = f
        BY <1>3, <3>3
      <4>2. k < seq \/ k = seq
        BY <1>3, <1>13, <2>7, <3>3
      <4>3. k < seq => Numbered(e, k)
        BY <1>3, <1>13, <2>1, <2>3, <2>4, <3>1
      <4> QED BY <1>9, <1>13, <3>1, <4>1, <4>2, <4>3
    <3> QED BY <1>3, <3>2, <3>3
  <2> QED BY <1>9, <1>13, <2>5, <2>6, <2>7
<1>14. InTurn'
  <2>1. ~disorder => \A e \in Daemons : stores'[e].missed = 0
    BY <1>3 DEF NumbersInv, InTurn
  <2> QED BY <1>3, <1>11, <1>12, <1>13, <2>1 DEF InTurn, Before
<1> QED BY <1>6, <1>14 DEF NumbersInv

LEMMA AppliedStoreFields ==
  ASSUME PipelineTypeOK, NEW c, Applied(c)
  PROVE  /\ stores'[To(c)].seq = Line(c, 1).seq
         /\ stores'[To(c)].missed = stores[To(c)].missed + Gap(stores[To(c)], Line(c, 1))
         /\ \A d \in Daemons : d # To(c) => stores'[d] = stores[d]
<1>1. PICK f, store : f = Line(c, 1) /\ store = stores[To(c)]
  OBVIOUS
<1>2. f \in FrameType /\ store \in StoreType /\ To(c) \in Daemons /\ stores \in [Daemons -> StoreType]
  BY <1>1, OnWireFacts DEF Applied, PipelineTypeOK, WireTypeOK
<1>3. Registered(store, f) \in StoreType /\ Registered(store, f).missed = store.missed
  <2>1. 0 \in Nat
    OBVIOUS
  <2> QED BY <1>2, <2>1, RegisteredType
<1>4. PICK g : g = Registered(store, f)
  OBVIOUS
<1>5. AppliedStore(c) = [g EXCEPT !.seq = f.seq, !.missed = g.missed + Gap(store, f)]
  BY <1>1, <1>4 DEF AppliedStore
<1>6. AppliedStore(c).seq = f.seq /\ AppliedStore(c).missed = store.missed + Gap(store, f)
  BY <1>3, <1>4, <1>5 DEF StoreType
<1> QED BY <1>1, <1>2, <1>6 DEF Applied

\* A frame that overtakes none is the first its daemon has to read, and the next by its number.
LEMMA FirstInTurn ==
  ASSUME PipelineTypeOK, InTurn, ~disorder, NEW c, OnWire(c, 1), ~Overtakes(c)
  PROVE  /\ \A e, j \in Nat : OnWire(e, j) /\ To(e) = To(c) /\ ~(e = c /\ j = 1) =>
              Before(c, 1, e, j) /\ Line(c, 1).seq <= Line(e, j).seq
         /\ stores[To(c)].seq # None =>
              stores[To(c)].seq <= Line(c, 1).seq /\ Line(c, 1).seq <= stores[To(c)].seq + 1
         /\ Gap(stores[To(c)], Line(c, 1)) = 0
<1>1. PICK d, n, store : d = To(c) /\ n = Line(c, 1).seq /\ store = stores[d]
  OBVIOUS
<1>2. /\ c \in Nat /\ 1 \in Nat /\ d \in Daemons /\ n \in Nat /\ store.seq \in Nat \cup {None}
      /\ c \in DOMAIN conns
  BY <1>1, OnWireFacts, NumberedFacts DEF PipelineTypeOK, StoreType
<1>3. ASSUME NEW e \in Nat, NEW j \in Nat, OnWire(e, j), To(e) = d, ~(e = c /\ j = 1)
      PROVE  Before(c, 1, e, j) /\ n <= Line(e, j).seq
  <2>1. e > 0 /\ j > 0
    BY <1>3, OnWireFacts DEF PipelineTypeOK
  <2>2. ~(e < c)
    <3>1. conns[e].lines # << >>
      BY <1>3 DEF OnWire
    <3>2. e < c => e \in 1..(c - 1)
      BY <1>2, <2>1
    <3> QED BY <1>1, <1>3, <3>1, <3>2 DEF Overtakes, To
  <2>3. Before(c, 1, e, j)
    BY <1>2, <1>3, <2>1, <2>2 DEF Before
  <2> QED BY <1>1, <1>2, <1>3, <2>3 DEF InTurn
<1>4. store.seq # None => store.seq <= n
  BY <1>1, <1>2 DEF InTurn
<1>5. ASSUME store.seq # None, n > store.seq + 1 PROVE FALSE
  <2>1. PICK k \in Nat : k = store.seq + 1
    BY <1>2, <1>5
  <2>2. Numbered(d, store.seq) /\ Numbered(d, n) /\ store.seq \in Nat
    BY <1>1, <1>2, <1>5 DEF Numbered
  <2>3. Numbered(d, k)
    BY <1>2, <1>5, <2>1, <2>2 DEF InTurn
  <2>4. PICK e, j \in Nat : OnWire(e, j) /\ To(e) = d /\ Line(e, j).seq = k
    BY <1>1, <2>1, <2>2, <2>3 DEF Numbered
  <2>5. n <= k
    BY <1>1, <1>2, <1>3, <2>1, <2>4
  <2> QED BY <1>2, <1>5, <2>1, <2>2, <2>5
<1>6. Gap(store, Line(c, 1)) = 0
  BY <1>1, <1>2, <1>5 DEF Gap
<1>7. store.seq # None => n <= store.seq + 1
  BY <1>2, <1>5
<1> QED BY <1>1, <1>3, <1>4, <1>6, <1>7

LEMMA AppliedNumbers ==
  ASSUME PipelineTypeOK, PipelineTypeOK', NumbersInv, NEW c, Applied(c),
         UNCHANGED emitterVars, UNCHANGED bindVars
  PROVE  NumbersInv'
<1>1. PICK d, f : d = To(c) /\ f = Line(c, 1)
  OBVIOUS
<1>2. /\ OnWire(c, 1) /\ c \in Nat /\ c \in DOMAIN conns /\ d \in Daemons /\ f.seq \in Nat
      /\ Alive(c) /\ 1 \in Nat
  BY <1>1, OnWireFacts, NumberedFacts DEF Applied, PipelineTypeOK
<1>3. /\ stores'[d].seq = f.seq /\ stores'[d].missed = stores[d].missed + Gap(stores[d], f)
      /\ \A e \in Daemons : e # d => stores'[e] = stores[e]
  BY <1>1, AppliedStoreFields
<1>4. /\ DOMAIN conns' = DOMAIN conns
      /\ \A e \in DOMAIN conns : To(e)' = To(e) /\ Alive(e)' = Alive(e)
  BY DEF Applied
<1>5. seq' = seq /\ sink' = sink /\ at' = at /\ frame' = frame /\ file' = file /\ seq \in Nat
  BY NumberedFacts DEF emitterVars, bindVars
<1>6. ASSUME NEW e \in Daemons, Unmet(e) PROVE Unmet(e)'
  <2>1. e # d
    BY <1>1, <1>2, <1>6 DEF Unmet, Alive
  <2>2. stores'[e] \in {stores[e], Fresh}
    BY <1>3, <2>1
  <2> QED BY <1>4, <1>6, <2>2, UnmetStays
<1>7. MetAfterBinding'
  <2>1. sink # 0 => sink \in DOMAIN conns
    BY ConnFacts DEF PipelineTypeOK, EmitterTypeOK, SinkIsLast
  <2>2. \A e \in Daemons : Unmet(e) => Unmet(e)'
    BY <1>6
  <2>3. \A e \in DOMAIN conns : To(e)' = To(e)
    BY <1>4
  <2>4. UNCHANGED bindVars /\ sink' \in {sink, 0}
    BY <1>5
  <2> QED BY <2>1, <2>2, <2>3, <2>4, MetStays DEF NumbersInv
<1>8. \A e \in Daemons : Current(e)' => Current(e)
  <2>1. sink # 0 => To(sink)' = To(sink)
    <3>1. PICK s : s = sink
      OBVIOUS
    <3>2. s # 0 => To(s)' = To(s)
      BY <1>4, <3>1, ConnFacts DEF PipelineTypeOK, EmitterTypeOK, SinkIsLast
    <3> QED BY <1>5, <3>1, <3>2
  <2> QED BY <1>5, <2>1 DEF Current
<1>9. ASSUME NEW e \in Nat, NEW i \in Nat, OnWire(e, i)'
      PROVE  \E k \in Nat : /\ k = (IF e = c THEN i + 1 ELSE i) /\ OnWire(e, k)
                            /\ Line(e, i)' = Line(e, k) /\ To(e)' = To(e) /\ To(e) \in Daemons
                            /\ i > 0 /\ Line(e, k).seq \in Nat
  <2>1. PICK k \in Nat : k = (IF e = c THEN i + 1 ELSE i)
    OBVIOUS
  <2>2. OnWire(e, k) /\ Line(e, i)' = Line(e, k)
    BY <1>9, <2>1 DEF Applied
  <2>3. i > 0 /\ e \in DOMAIN conns
    BY <1>9, <2>1, <2>2, OnWireFacts DEF Applied, PipelineTypeOK
  <2> QED BY <1>4, <2>1, <2>2, <2>3, NumberedFacts
<1>10. ASSUME NEW e \in Nat, NEW k \in Nat, OnWire(e, k), ~(e = c /\ k = 1)
       PROVE  \E i \in Nat : OnWire(e, i)' /\ Line(e, i)' = Line(e, k) /\ To(e)' = To(e)
  <2>1. k > 0 /\ e \in DOMAIN conns
    BY <1>10, OnWireFacts DEF PipelineTypeOK
  <2>2. CASE e = c
    <3>1. PICK i \in Nat : k = i + 1 /\ i > 0
      <4>1. k - 1 \in Nat /\ k = (k - 1) + 1 /\ k - 1 > 0
        BY <1>10, <2>1, <2>2
      <4> QED BY <4>1
    <3>2. OnWire(e, i)' /\ Line(e, i)' = Line(e, k)
      BY <1>10, <2>2, <3>1 DEF Applied
    <3> QED BY <1>4, <2>1, <3>2
  <2>3. CASE e # c
    BY <1>4, <1>10, <2>1, <2>3 DEF Applied
  <2> QED BY <2>2, <2>3
<1>11. ASSUME NEW e \in Daemons, NEW n \in Nat, Numbered(e, n)' PROVE Numbered(e, n)
  <2>1. Numbered(d, f.seq)
    BY <1>1, <1>2 DEF Numbered
  <2>2. stores'[e].seq = n => Numbered(e, n)
    BY <1>3, <2>1 DEF Numbered
  <2>3. ASSUME NEW b \in Nat, NEW i \in Nat, OnWire(b, i)', To(b)' = e, Line(b, i)'.seq = n
        PROVE  Numbered(e, n)
    BY <1>9, <2>3 DEF Numbered
  <2> QED BY <1>11, <2>2, <2>3 DEF Numbered
<1>12. \A e \in Daemons, n \in Nat : Numbered(e, n)' => n <= seq'
  BY <1>5, <1>11 DEF NumbersInv, InTurn
<1>13. SUFFICES ASSUME ~disorder'
                PROVE  /\ \A e \in Daemons : stores'[e].missed = 0
                       /\ \A e, i \in Nat : OnWire(e, i)' =>
                            /\ stores'[To(e)'].seq # None => stores'[To(e)'].seq <= Line(e, i)'.seq
                            /\ \A b, j \in Nat : OnWire(b, j)' /\ To(b)' = To(e)' /\ Before(e, i, b, j) =>
                                 Line(e, i)'.seq <= Line(b, j)'.seq
                       /\ \A e \in Daemons, n, m, k \in Nat :
                            /\ Numbered(e, n)' /\ n < k /\ k < m
                            /\ Numbered(e, m)' \/ (m = seq' /\ Current(e)')
                            => Numbered(e, k)'
  BY <1>5, <1>7, <1>12 DEF NumbersInv, InTurn, Before
<1>14. ~disorder /\ ~Overtakes(c)
  BY <1>13 DEF Applied
<1>15. /\ \A e, j \in Nat : OnWire(e, j) /\ To(e) = d /\ ~(e = c /\ j = 1) =>
            Before(c, 1, e, j) /\ f.seq <= Line(e, j).seq
       /\ stores[d].seq # None => stores[d].seq <= f.seq
       /\ Gap(stores[d], f) = 0
  BY <1>1, <1>2, <1>14, FirstInTurn DEF NumbersInv
<1>16. \A e \in Daemons : stores'[e].missed = 0
  BY <1>2, <1>3, <1>14, <1>15 DEF NumbersInv, InTurn
<1>17. ASSUME NEW e \in Nat, NEW i \in Nat, OnWire(e, i)'
       PROVE  /\ stores'[To(e)'].seq # None => stores'[To(e)'].seq <= Line(e, i)'.seq
              /\ \A b, j \in Nat : OnWire(b, j)' /\ To(b)' = To(e)' /\ Before(e, i, b, j) =>
                   Line(e, i)'.seq <= Line(b, j)'.seq
  <2>1. PICK k \in Nat : /\ k = (IF e = c THEN i + 1 ELSE i) /\ OnWire(e, k) /\ i > 0
                         /\ Line(e, i)' = Line(e, k) /\ To(e)' = To(e) /\ To(e) \in Daemons
    BY <1>9, <1>17
  <2>2. stores'[To(e)'].seq # None => stores'[To(e)'].seq <= Line(e, i)'.seq
    <3>1. CASE To(e) = d
      <4>1. ~(e = c /\ k = 1)
        BY <2>1
      <4> QED BY <1>3, <1>15, <2>1, <3>1, <4>1
    <3>2. CASE To(e) # d
      BY <1>3, <1>14, <2>1, <3>2 DEF NumbersInv, InTurn
    <3> QED BY <3>1, <3>2
  <2>3. ASSUME NEW b \in Nat, NEW j \in Nat, OnWire(b, j)', To(b)' = To(e)', Before(e, i, b, j)
        PROVE  Line(e, i)'.seq <= Line(b, j)'.seq
    <3>1. PICK m \in Nat : /\ m = (IF b = c THEN j + 1 ELSE j) /\ OnWire(b, m)
                           /\ Line(b, j)' = Line(b, m) /\ To(b)' = To(b)
      BY <1>9, <2>3
    <3>2. Before(e, k, b, m)
      BY <2>1, <2>3, <3>1 DEF Before
    <3>3. Line(e, k).seq <= Line(b, m).seq
      BY <1>14, <2>1, <2>3, <3>1, <3>2 DEF NumbersInv, InTurn
    <3> QED BY <2>1, <3>1, <3>3
  <2> QED BY <2>2, <2>3
<1>18. ASSUME NEW e \in Daemons, NEW n \in Nat, NEW m \in Nat, NEW k \in Nat,
              Numbered(e, n)', n < k, k < m, Numbered(e, m)' \/ (m = seq' /\ Current(e)')
       PROVE  Numbered(e, k)'
  <2>1. Numbered(e, k)
    BY <1>5, <1>8, <1>11, <1>14, <1>18 DEF NumbersInv, InTurn
  <2>2. ASSUME NEW b \in Nat, NEW j \in Nat, OnWire(b, j), To(b) = e, Line(b, j).seq = k
        PROVE  Numbered(e, k)'
    <3>1. CASE b = c /\ j = 1
      BY <1>1, <1>3, <2>2, <3>1 DEF Numbered
    <3>2. CASE ~(b = c /\ j = 1)
      <4>1. PICK i \in Nat : OnWire(b, i)' /\ Line(b, i)' = Line(b, j) /\ To(b)' = To(b)
        BY <1>10, <2>2, <3>2
      <4> QED BY <2>2, <4>1 DEF Numbered
    <3> QED BY <3>1, <3>2
  <2>3. ASSUME stores[e].seq = k PROVE Numbered(e, k)'
    <3>1. CASE e # d
      BY <1>3, <2>3, <3>1 DEF Numbered
    <3>2. CASE e = d
      <4>1. k <= f.seq
        <5>1. k # None
          BY NumberedFacts
        <5> QED BY <1>15, <2>3, <3>2, <5>1
      <4>2. n = f.seq \/ f.seq <= n
        <5>1. ASSUME NEW b \in Nat, NEW i \in Nat, OnWire(b, i)', To(b)' = d, Line(b, i)'.seq = n
              PROVE  f.seq <= n
          <6>1. PICK j \in Nat : /\ j = (IF b = c THEN i + 1 ELSE i) /\ OnWire(b, j) /\ i > 0
                                 /\ Line(b, i)' = Line(b, j) /\ To(b)' = To(b)
            BY <1>9, <5>1
          <6>2. ~(b = c /\ j = 1)
            BY <6>1
          <6> QED BY <1>15, <5>1, <6>1, <6>2
        <5> QED BY <1>3, <1>18, <3>2, <5>1 DEF Numbered
      <4> QED BY <1>2, <1>18, <4>1, <4>2
    <3> QED BY <3>1, <3>2
  <2> QED BY <2>1, <2>2, <2>3 DEF Numbered
<1> QED BY <1>16, <1>17, <1>18

-----------------------------------------------------------------------------
(* The invariant, kept by every step.                                      *)

LEMMA InvParts ==
  /\ NamesInv <=> WireNames /\ EmitterNames
  /\ ReadingsInv <=> WireReadings /\ EmitterReadings
  /\ PipelineInv <=> /\ PipelineTypeOK /\ WireNames /\ EmitterNames
                     /\ WireReadings /\ EmitterReadings /\ NumbersInv /\ WindowsInv
<1>1. NamesInv <=> WireNames /\ EmitterNames
  BY DEF NamesInv, FramesTrue, WireNames, EmitterNames
<1>2. ReadingsInv <=> WireReadings /\ EmitterReadings
  BY DEF ReadingsInv, WireReadings, EmitterReadings
<1> QED BY <1>1, <1>2 DEF PipelineInv

LEMMA InvPartsNext ==
  PipelineInv' <=> /\ PipelineTypeOK' /\ WireNames' /\ EmitterNames'
                   /\ WireReadings' /\ EmitterReadings' /\ NumbersInv' /\ WindowsInv'
<1>1. NamesInv' <=> WireNames' /\ EmitterNames'
  BY DEF NamesInv, FramesTrue, WireNames, EmitterNames
<1>2. ReadingsInv' <=> WireReadings' /\ EmitterReadings'
  BY DEF ReadingsInv, WireReadings, EmitterReadings
<1> QED BY <1>1, <1>2 DEF PipelineInv

LEMMA PipelineInvInit == Init => PipelineInv
<1> SUFFICES ASSUME Init PROVE PipelineInv
  OBVIOUS
<1>1. /\ EmitterInit /\ BindInit /\ conns = << >> /\ applied = << >> /\ disorder = FALSE
      /\ stores = [d \in Daemons |-> Fresh] /\ unnamed = [c \in 1..MaxConns |-> {}]
  BY DEF Init
<1>2. /\ types = << >> /\ at = "sleep" /\ window = 0 /\ frame = EmptyFrame
      /\ seq = 0 /\ sink = 0 /\ sent = NoneSent /\ RegistryInit
  BY <1>1 DEF EmitterInit
<1>3. (\A c, i : ~OnWire(c, i)) /\ DOMAIN conns = {} /\ Len(conns) = 0
  BY <1>1 DEF OnWire
<1>4. frame.calls = {} /\ frame.census = {} /\ \A kind \in Kinds : sent[kind] = 0
  BY <1>2 DEF EmptyFrame, NoneSent, Kinds
<1>5. PipelineTypeOK
  <2>1. RegistryInv /\ BindInv
    BY <1>1, <1>2, RegistryInvInit, BindInvInit
  <2>2. types \in Seq(Types)
    BY <1>2
  <2>3. EmitterTypeOK
    BY <1>2, <2>2, EmptyFrameType, EmitterBounds DEF EmitterTypeOK
  <2>4. Fresh \in StoreType
    BY DEF Fresh, StoreType
  <2>5. WireTypeOK
    <3>1. conns \in Seq(ConnType) /\ applied \in Seq(Nat)
      BY <1>1
    <3>2. Len(conns) <= MaxConns
      BY <1>3, PipelineBounds
    <3>3. stores \in [Daemons -> StoreType] /\ unnamed \in [1..MaxConns -> SUBSET Types]
      BY <1>1, <2>4
    <3>4. disorder \in BOOLEAN
      BY <1>1
    <3> QED BY <3>1, <3>2, <3>3, <3>4 DEF WireTypeOK
  <2> QED BY <1>2, <1>3, <2>1, <2>3, <2>5 DEF PipelineTypeOK, SinkIsLast, HelloFirst
<1>6. WireNames /\ WireReadings
  <2>1. \A c \in 1..MaxConns : unnamed[c] = {}
    BY <1>1
  <2> QED BY <1>3, <2>1 DEF WireNames, Covered, WireReadings
<1>7. EmitterNames /\ EmitterReadings
  <2>1. \A kind \in Kinds : sent[kind] <= Size(kind)
    BY <1>4, <1>5, TableFacts DEF PipelineTypeOK, EmitterTypeOK, TablesOK
  <2> QED BY <1>2, <1>4, <2>1 DEF EmitterNames, SentCovered, EmitterReadings
<1>8. NumbersInv
  <2>1. \A d \in Daemons : stores[d] = Fresh /\ Unmet(d)
    BY <1>1, <1>3 DEF Unmet
  <2>2. \A d \in Daemons, n \in Nat : ~Numbered(d, n)
    BY <1>5, <2>1, UnmetIsSilent
  <2>3. MetAfterBinding
    BY <2>1 DEF MetAfterBinding
  <2>4. \A d \in Daemons : stores[d].missed = 0
    BY <2>1 DEF Fresh
  <2>5. InTurn
    BY <1>2, <1>3, <2>2, <2>4 DEF InTurn
  <2> QED BY <2>3, <2>5 DEF NumbersInv
<1>9. WindowsInv
  BY <1>1, <1>2, <1>3 DEF WindowsInv
<1> QED BY <1>5, <1>6, <1>7, <1>8, <1>9, InvParts

\* Where no daemon's store is touched and nobody binds or connects.
LEMMA StoresStayNumbers ==
  ASSUME PipelineTypeOK, PipelineTypeOK', NumbersInv, NEW off, NEW dropped, Quiet(off, dropped),
         stores' = stores, UNCHANGED bindVars, DOMAIN conns' = DOMAIN conns,
         sink' \in {sink, 0}, seq' = seq, disorder => disorder',
         at' = "named" => frame'.seq = seq', disorder' \/ Undropped(dropped)
  PROVE  NumbersInv'
<1>1. \A c \in DOMAIN conns : To(c)' = To(c) /\ (Alive(c)' => Alive(c))
  BY DEF Quiet
<1>2. \A d \in Daemons : Unmet(d) => Unmet(d)'
  BY <1>1, UnmetStays
<1>3. sink # 0 => sink \in DOMAIN conns
  BY ConnFacts DEF PipelineTypeOK, EmitterTypeOK, SinkIsLast
<1>4. MetAfterBinding'
  BY <1>1, <1>2, <1>3, MetStays DEF NumbersInv
<1>5. \A d \in Daemons : Current(d)' => Current(d)
  <2>1. PICK s : s = sink'
    OBVIOUS
  <2>2. s # 0 => s = sink /\ To(s)' = To(s)
    BY <1>1, <1>3, <2>1
  <2> QED BY <2>1, <2>2 DEF Current, bindVars
<1>6. InTurn'
  <2>1. \A d \in Daemons : disorder' \/ \A c, i : OnWire(c, i) /\ To(c) = d => c \notin dropped
    BY DEF Undropped
  <2> QED BY <1>5, <2>1, QuietNumbers DEF NumbersInv
<1> QED BY <1>4, <1>6 DEF NumbersInv

\* A step that is not the emitter's and applies nothing.
LEMMA IdleStep ==
  ASSUME PipelineInv, PipelineTypeOK', NumbersInv', TablesGrow,
         NEW off, NEW dropped, Quiet(off, dropped),
         UNCHANGED tickVars, UNCHANGED <<applied, unnamed>>
  PROVE  PipelineInv'
<1>1. /\ PipelineTypeOK /\ WireNames /\ EmitterNames
      /\ WireReadings /\ EmitterReadings /\ NumbersInv /\ WindowsInv
  BY InvParts
<1>2. WireNames' /\ EmitterNames'
  BY <1>1, IdleNames
<1>3. WireReadings'
  BY <1>1, QuietWireReadings
<1>4. EmitterReadings'
  BY <1>1, IdleReadings
<1>5. WindowsInv'
  BY <1>1, QuietWindows DEF tickVars
<1> QED BY <1>2, <1>3, <1>4, <1>5, InvPartsNext

LEMMA ProgramStep == ASSUME PipelineInv, Program PROVE PipelineInv'
<1>1. PipelineTypeOK /\ NumbersInv
  BY InvParts
<1>2. PipelineTypeOK' /\ TablesGrow /\ \E off : Quiet(off, {})
  BY <1>1, ProgramTypes
<1>3. PICK off : Quiet(off, {})
  BY <1>2
<1>4. /\ UNCHANGED bindVars /\ UNCHANGED tickVars /\ UNCHANGED <<applied, unnamed>>
      /\ stores' = stores /\ conns' = conns /\ disorder' = disorder
      /\ seq' = seq /\ sink' = sink /\ at' = at /\ frame' = frame
  BY DEF Program, Call, NewType, tickVars, daemonVars
<1>5. at' = "named" => frame'.seq = seq'
  BY <1>1, <1>4 DEF NumbersInv, InTurn
<1>6. Undropped({})
  BY DEF Undropped
<1>7. NumbersInv'
  BY <1>1, <1>2, <1>3, <1>4, <1>5, <1>6, StoresStayNumbers
<1> QED BY <1>2, <1>3, <1>4, <1>7, IdleStep

LEMMA StutterStep == ASSUME PipelineInv, UNCHANGED vars PROVE PipelineInv'
<1>1. PipelineTypeOK /\ NumbersInv
  BY InvParts
<1>2. /\ UNCHANGED bindVars /\ UNCHANGED tickVars /\ UNCHANGED <<applied, unnamed>>
      /\ stores' = stores /\ conns' = conns /\ disorder' = disorder
      /\ seq' = seq /\ sink' = sink /\ at' = at /\ frame' = frame
      /\ UNCHANGED <<registryVars, types>> /\ UNCHANGED <<bindVars, conns, daemonVars>>
      /\ UNCHANGED <<window, sent>>
  BY DEF vars, emitterVars, tickVars, daemonVars
<1>3. TablesOK' /\ TablesGrow
  BY <1>1, <1>2, TablesStay DEF PipelineTypeOK, EmitterTypeOK, TablesOK
<1>4. /\ BindInv' /\ WireTypeOK' /\ HelloFirst' /\ Len(conns') = Len(conns)
      /\ \E off : Quiet(off, {})
  BY <1>1, <1>2, WireStays
<1>5. EmitterTypeOK' /\ SinkIsLast'
  BY <1>1, <1>2, <1>3, <1>4 DEF PipelineTypeOK, EmitterTypeOK, SinkIsLast, TablesOK
<1>6. PipelineTypeOK'
  BY <1>3, <1>4, <1>5 DEF PipelineTypeOK, TablesOK
<1>7. PICK off : Quiet(off, {})
  BY <1>4
<1>8. at' = "named" => frame'.seq = seq'
  BY <1>1, <1>2 DEF NumbersInv, InTurn
<1>9. Undropped({})
  BY DEF Undropped
<1>10. NumbersInv'
  BY <1>1, <1>2, <1>6, <1>7, <1>8, <1>9, StoresStayNumbers
<1> QED BY <1>2, <1>3, <1>6, <1>7, <1>10, IdleStep

LEMMA HandlerStep ==
  ASSUME PipelineInv, NEW c \in DOMAIN conns,
         Admit(c) \/ SkipTorn(c) \/ EndStream(c) \/ HandlerStops(c)
  PROVE  PipelineInv'
<1>1. PipelineTypeOK /\ NumbersInv
  BY InvParts
<1>2. /\ PipelineTypeOK' /\ TablesGrow
      /\ \E off, dropped : Quiet(off, dropped) /\ (disorder' \/ Undropped(dropped))
  BY <1>1, HandlerTypes
<1>3. PICK off, dropped : Quiet(off, dropped) /\ (disorder' \/ Undropped(dropped))
  BY <1>2
<1>4. /\ UNCHANGED bindVars /\ UNCHANGED emitterVars /\ UNCHANGED <<applied, unnamed>>
      /\ stores' = stores /\ DOMAIN conns' = DOMAIN conns /\ disorder' \in {disorder, TRUE}
  BY DEF Admit, SkipTorn, EndStream, HandlerStops, Reads, daemonVars
<1>5. /\ UNCHANGED tickVars
      /\ seq' = seq /\ sink' = sink /\ at' = at /\ frame' = frame
  BY <1>4 DEF emitterVars, tickVars
<1>6. at' = "named" => frame'.seq = seq'
  BY <1>1, <1>5 DEF NumbersInv, InTurn
<1>7. disorder => disorder'
  BY <1>4
<1>8. NumbersInv'
  BY <1>1, <1>2, <1>3, <1>4, <1>5, <1>6, <1>7, StoresStayNumbers
<1> QED BY <1>2, <1>3, <1>4, <1>5, <1>8, IdleStep

LEMMA MainStep == ASSUME PipelineInv, NEW d \in Daemons, Main(d) PROVE PipelineInv'
<1>1. PipelineTypeOK /\ NumbersInv
  BY InvParts
<1>2. /\ PipelineTypeOK' /\ TablesGrow
      /\ UNCHANGED emitterVars /\ UNCHANGED <<applied, unnamed>> /\ disorder' = disorder
  BY <1>1, MainTypes DEF Main
<1>3. /\ UNCHANGED tickVars
      /\ seq' = seq /\ sink' = sink /\ at' = at /\ frame' = frame
  BY <1>2 DEF emitterVars, tickVars
<1>4. at' = "named" => frame'.seq = seq'
  BY <1>1, <1>3 DEF NumbersInv, InTurn
<1>5. /\ MetAfterBinding'
      /\ \A e \in Daemons : Current(e)' => Current(e) \/ Unmet(e)'
  BY <1>1, MainMet DEF NumbersInv
<1>6. \A e \in Daemons : Unmet(e)' => \A n \in Nat : ~Numbered(e, n)'
  <2> SUFFICES ASSUME NEW e \in Daemons, Unmet(e)', NEW n \in Nat, Numbered(e, n)' PROVE FALSE
    OBVIOUS
  <2>1. stores'[e].seq \notin Nat
    BY PipelineSentinel DEF Unmet, Fresh
  <2>2. PICK c, i \in Nat : OnWire(c, i)' /\ To(c)' = e
    BY <2>1 DEF Numbered
  <2>3. conns'[c].handler = "closed" /\ c \in DOMAIN conns'
    BY <2>2 DEF Unmet, OnWire
  <2>4. conns'[c].lines = << >>
    BY <1>2, <2>3 DEF PipelineTypeOK, HelloFirst
  <2> QED BY <2>2, <2>4 DEF OnWire
<1>7. CASE ~Ends(d)
  <2>1. conns' = conns /\ stores' = stores /\ \E off : Quiet(off, {})
    BY <1>1, <1>7, MainIsQuiet DEF PipelineTypeOK
  <2>2. PICK off : Quiet(off, {})
    BY <2>1
  <2>3. \A e \in Daemons :
          \/ \A n \in Nat : ~Numbered(e, n)'
          \/ /\ stores'[e] = stores[e] /\ (Current(e)' => Current(e))
             /\ disorder' \/ \A c, i : OnWire(c, i) /\ To(c) = e => c \notin {}
    BY <1>5, <1>6, <2>1
  <2>4. InTurn'
    BY <1>1, <1>2, <1>3, <1>4, <2>1, <2>2, <2>3, QuietNumbers DEF NumbersInv
  <2>5. NumbersInv'
    BY <1>5, <2>4 DEF NumbersInv
  <2> QED BY <1>2, <1>3, <2>2, <2>5, IdleStep
<1>8. CASE Ends(d)
  <2>1. PICK dropped : dropped = {c \in DOMAIN conns : To(c) = d}
    OBVIOUS
  <2>2. stores' = [stores EXCEPT ![d] = Fresh] /\ \E off : Quiet(off, dropped)
    BY <1>1, <1>8, <2>1, MainIsQuiet DEF PipelineTypeOK
  <2>3. PICK off : Quiet(off, dropped)
    BY <2>2
  <2>4. /\ stores'[d] = Fresh /\ \A e \in Daemons : e # d => stores'[e] = stores[e]
    BY <1>1, <2>2 DEF PipelineTypeOK, WireTypeOK
  <2>5. Unmet(d)'
    <3>1. \A c \in DOMAIN conns' : To(c)' = d => conns'[c].handler = "closed"
      <4>1. /\ Len(conns') = Len(conns) /\ conns' \in Seq(ConnType)
        BY <1>1, MainIsQuiet DEF PipelineTypeOK
      <4>2. DOMAIN conns' = DOMAIN conns
        BY <1>1, <4>1, ConnFacts, LenProperties DEF PipelineTypeOK
      <4> QED BY <2>1, <2>3, <4>2 DEF Quiet, Alive
    <3> QED BY <2>4, <3>1 DEF Unmet, Fresh
  <2>6. \A e \in Daemons :
          \/ \A n \in Nat : ~Numbered(e, n)'
          \/ /\ stores'[e] = stores[e] /\ (Current(e)' => Current(e))
             /\ disorder' \/ \A c, i : OnWire(c, i) /\ To(c) = e => c \notin dropped
    BY <1>5, <1>6, <2>1, <2>4, <2>5
  <2>7. \A e \in Daemons : stores'[e] \in {stores[e], Fresh}
    BY <2>4
  <2>8. InTurn'
    BY <1>1, <1>2, <1>3, <1>4, <2>3, <2>6, <2>7, QuietNumbers DEF NumbersInv
  <2>9. NumbersInv'
    BY <1>5, <2>8 DEF NumbersInv
  <2> QED BY <1>2, <1>3, <2>3, <2>9, IdleStep
<1> QED BY <1>7, <1>8

LEMMA EmitterStep == ASSUME PipelineInv, Tick \/ NoSink \/ SendToNobody PROVE PipelineInv'
<1>1. /\ PipelineTypeOK /\ WireNames /\ EmitterNames
      /\ WireReadings /\ EmitterReadings /\ NumbersInv /\ WindowsInv
  BY InvParts
<1>2. PipelineTypeOK' /\ TablesGrow /\ \E off : Quiet(off, {})
  BY <1>1, EmitterTypes DEF EmitterNames, SentCovered
<1>3. PICK off : Quiet(off, {})
  BY <1>2
<1>4. /\ UNCHANGED bindVars /\ applied' = applied /\ stores' = stores /\ conns' = conns
      /\ disorder' = disorder /\ seq' = seq /\ sink' \in {sink, 0}
  BY DEF Tick, Drain, RegistersSince, NoSink, GiveUp, SendToNobody, SendFailed, daemonVars
<1>5. /\ at' = "named" => frame'.seq = seq'
      /\ window' \in {window, window + 1}
      /\ at' # "sleep" =>
           /\ frame'.window \in {frame.window, window'}
           /\ (at # "sleep" /\ window' = window) \/ (window' = window + 1 /\ frame'.window = window')
  <2>1. CASE Drain
    <3>1. PICK r : r = Recorded
      OBVIOUS
    <3>2. frame' = [EmptyFrame EXCEPT !.window = window + 1, !.calls = Range(functions), !.stacks = r]
      BY <2>1, <3>1 DEF Drain
    <3>3. frame'.window = window + 1
      BY <3>2, EmptyFrameType DEF FrameType
    <3> QED BY <2>1, <3>3 DEF Drain
  <2>2. CASE RegistersSince
    <3>1. PICK n : n = PathsUpTo(NewNames)
      OBVIOUS
    <3>2. frame' = Named(n, n) /\ frame \in FrameType
      BY <1>1, <2>2, <3>1 DEF RegistersSince, PipelineTypeOK, EmitterTypeOK
    <3>3. frame'.seq = seq /\ frame'.window = frame.window
      BY <3>2 DEF Named, FrameType
    <3> QED BY <2>2, <3>3 DEF RegistersSince
  <2>3. CASE NoSink \/ SendToNobody
    BY <2>3 DEF NoSink, GiveUp, SendToNobody, SendFailed
  <2> QED BY <2>1, <2>2, <2>3 DEF Tick
<1>6. WireNames' /\ EmitterNames'
  BY <1>1, <1>2, <1>3, QuietKeepsWireNames, EmitterStepNames
<1>7. EmitterReadings' /\ WireReadings'
  <2>1. EmitterReadings' /\ unnamed' = unnamed
    BY <1>1, EmitterStepReadings
  <2> QED BY <1>1, <1>2, <1>3, <2>1, QuietWireReadings
<1>8. WindowsInv'
  BY <1>1, <1>3, <1>4, <1>5, QuietWindows
<1>9. NumbersInv'
  <2>1. Undropped({})
    BY DEF Undropped
  <2> QED BY <1>1, <1>2, <1>3, <1>4, <1>5, <2>1, StoresStayNumbers
<1> QED BY <1>2, <1>6, <1>7, <1>8, <1>9, InvPartsNext

LEMMA OpenSinkStep == ASSUME PipelineInv, OpenSink PROVE PipelineInv'
<1>1. /\ PipelineTypeOK /\ WireNames /\ EmitterNames
      /\ WireReadings /\ EmitterReadings /\ NumbersInv /\ WindowsInv
  BY InvParts
<1>2. PipelineTypeOK' /\ TablesGrow /\ \E off : Quiet(off, {})
  BY <1>1, OpenSinkTypes
<1>3. PICK off : Quiet(off, {})
  BY <1>2
<1>4. /\ UNCHANGED <<applied, unnamed, stores, disorder, seq, window, frame>>
      /\ at = "drained" /\ at' = "reached"
  BY DEF OpenSink, Connect, daemonVars
<1>5. WireNames' /\ EmitterNames'
  BY <1>1, <1>2, <1>3, QuietKeepsWireNames, OpenSinkNames
<1>6. EmitterReadings' /\ WireReadings'
  BY <1>1, <1>2, <1>3, <1>4, QuietWireReadings, EmitterStepReadings
<1>7. WindowsInv'
  BY <1>1, <1>3, <1>4, QuietWindows
<1>8. MetAfterBinding' /\ \A d : Current(d)' => Current(d)
  BY <1>1, OpenSinkMet DEF NumbersInv
<1>9. InTurn'
  <2>1. \A d \in Daemons :
          \/ \A n \in Nat : ~Numbered(d, n)'
          \/ /\ stores'[d] = stores[d] /\ (Current(d)' => Current(d))
             /\ disorder' \/ \A c, i : OnWire(c, i) /\ To(c) = d => c \notin {}
    BY <1>4, <1>8
  <2> QED BY <1>1, <1>2, <1>3, <1>4, <2>1, QuietNumbers DEF NumbersInv
<1>10. NumbersInv'
  BY <1>8, <1>9 DEF NumbersInv
<1> QED BY <1>2, <1>5, <1>6, <1>7, <1>10, InvPartsNext

LEMMA SendStep == ASSUME PipelineInv, SendFrame \/ SendTimesOut PROVE PipelineInv'
<1>1. /\ PipelineTypeOK /\ WireNames /\ EmitterNames
      /\ WireReadings /\ EmitterReadings /\ NumbersInv /\ WindowsInv
  BY InvParts
<1>2. /\ PipelineTypeOK' /\ stores' = stores
      /\ \E line, last : Written(line, last) /\ (SendFrame => line = Complete)
  BY <1>1, SendTypes
<1>3. PICK line, last : Written(line, last) /\ (SendFrame => line = Complete)
  BY <1>2
<1>4. Ticked(line) /\ UNCHANGED <<bindVars, disorder>> /\ unnamed' = unnamed /\ applied' = applied
  BY <1>2, <1>3 DEF Ticked, SendFrame, SendTimesOut, Sent, SendFailed, daemonVars
<1> QED
  BY <1>1, <1>2, <1>3, <1>4, WrittenNames, WrittenReadings, WrittenNumbers, WrittenWindows,
     InvPartsNext

LEMMA ApplyStep == ASSUME PipelineInv, NEW c \in DOMAIN conns, ApplyFrame(c) PROVE PipelineInv'
<1>1. /\ PipelineTypeOK /\ WireNames /\ EmitterNames
      /\ WireReadings /\ EmitterReadings /\ NumbersInv /\ WindowsInv
  BY InvParts
<1>2. PipelineTypeOK' /\ TablesGrow /\ Applied(c) /\ UNCHANGED emitterVars /\ UNCHANGED bindVars
  BY <1>1, ApplyTypes
<1> QED
  BY <1>1, <1>2, AppliedNames, AppliedReadings, AppliedNumbers, AppliedWindows, InvPartsNext

LEMMA PipelineInvStep == ASSUME PipelineInv, [Next]_vars PROVE PipelineInv'
<1>1. CASE Program
  BY <1>1, ProgramStep
<1>2. CASE Tick \/ NoSink \/ SendToNobody
  BY <1>2, EmitterStep
<1>3. CASE OpenSink
  BY <1>3, OpenSinkStep
<1>4. CASE SendFrame \/ SendTimesOut
  BY <1>4, SendStep
<1>5. ASSUME NEW c \in DOMAIN conns, Handle(c) \/ HandlerStops(c) PROVE PipelineInv'
  BY <1>5, HandlerStep, ApplyStep DEF Handle
<1>6. ASSUME NEW d \in Daemons, Main(d) PROVE PipelineInv'
  BY <1>6, MainStep
<1>7. CASE UNCHANGED vars
  BY <1>7, StutterStep
<1> QED BY <1>1, <1>2, <1>3, <1>4, <1>5, <1>6, <1>7 DEF Next

LEMMA PipelineInvAlways == Spec => []PipelineInv
<1>1. PipelineInv /\ [Next]_vars => PipelineInv'
  BY PipelineInvStep
<1> QED BY <1>1, PipelineInvInit, PTL DEF Spec

-----------------------------------------------------------------------------
(* What it says.                                                           *)

\* The frame a handler is about to apply, as the invariant sees it.
LEMMA PendingFrame ==
  ASSUME PipelineTypeOK, NEW c \in DOMAIN conns, Pending(c)
  PROVE  /\ OnWire(c, 1) /\ Line(c, 1) = NextFrame(c) /\ NextFrame(c) \in FrameType
         /\ c \in Nat /\ 1 \in Nat /\ To(c) \in Daemons /\ stores[To(c)] \in StoreType
         /\ Told(c).functions = stores[To(c)].functions \cup NextFrame(c).functions
         /\ Told(c).types = stores[To(c)].types \cup NextFrame(c).types
         /\ Told(c).paths = RegisteredPaths(stores[To(c)], NextFrame(c))
<1>1. /\ conns[c].handler = "streaming" /\ conns[c].lines # << >>
      /\ NextFrame(c) = conns[c].lines[1] /\ NextFrame(c) # Torn
  BY DEF Pending, NextFrame
<1>2. /\ DOMAIN conns[c].lines = 1..Len(conns[c].lines) /\ Len(conns[c].lines) \in Nat
      /\ Len(conns[c].lines) > 0
  BY <1>1, ConnFacts, EmptySeq DEF PipelineTypeOK
<1>3. OnWire(c, 1) /\ Line(c, 1) = NextFrame(c)
  BY <1>1, <1>2 DEF OnWire, Line, PipelineTypeOK, HelloFirst
<1>4. /\ NextFrame(c) \in FrameType /\ c \in Nat /\ To(c) \in Daemons
      /\ stores[To(c)] \in StoreType
  BY <1>3, OnWireFacts DEF PipelineTypeOK, WireTypeOK
<1>5. /\ Registered(stores[To(c)], NextFrame(c)).functions
           = stores[To(c)].functions \cup NextFrame(c).functions
      /\ Registered(stores[To(c)], NextFrame(c)).types
           = stores[To(c)].types \cup NextFrame(c).types
      /\ Registered(stores[To(c)], NextFrame(c)).paths
           = RegisteredPaths(stores[To(c)], NextFrame(c))
  <2>1. 0 \in Nat
    OBVIOUS
  <2> QED BY <1>4, <2>1, RegisteredType
<1> QED BY <1>3, <1>4, <1>5 DEF Told, To

\* All that a frame was counted up to is known once the frame is registered.
LEMMA PendingKnows ==
  ASSUME PipelineInv, NEW c \in DOMAIN conns, Pending(c)
  PROVE  /\ FrameTrue(NextFrame(c))
         /\ First("functions", NextFrame(c).upto.functions) \subseteq Told(c).functions
         /\ First("types", NextFrame(c).upto.types) \subseteq Told(c).types
         /\ 1..NextFrame(c).upto.paths \subseteq Told(c).paths
<1>1. PipelineTypeOK /\ WireNames
  BY InvParts
<1>2. PICK f, store : f = NextFrame(c) /\ store = stores[To(c)]
  OBVIOUS
<1>3. /\ OnWire(c, 1) /\ Line(c, 1) = f /\ f \in FrameType /\ c \in Nat /\ 1 \in Nat
      /\ Told(c).functions = store.functions \cup f.functions
      /\ Told(c).types = store.types \cup f.types
      /\ Told(c).paths = RegisteredPaths(store, f)
  BY <1>1, <1>2, PendingFrame
<1>4. /\ FrameTrue(f)
      /\ \A kind \in Kinds : \A name \in First(kind, f.upto[kind]) :
           name \in store[kind] \/ name \in f[kind]
  BY <1>1, <1>2, <1>3 DEF WireNames, Covered
<1>5. /\ First("functions", f.upto.functions) \subseteq store.functions \cup f.functions
      /\ First("types", f.upto.types) \subseteq store.types \cup f.types
  BY <1>4 DEF Kinds
<1>6. f.upto.paths \in Nat /\ f.upto.paths <= Len(nodes) /\ Len(nodes) \in Nat
  <2>1. f.upto["paths"] <= Size("paths") /\ f.upto \in Counts
    BY <1>3, <1>4 DEF FrameTrue, FrameType, Kinds
  <2> QED BY <1>1, <2>1, TableFacts
      DEF Counts, Size, PipelineTypeOK, EmitterTypeOK, TablesOK
<1>7. 1..f.upto.paths \subseteq store.paths \cup f.paths
  BY <1>4, <1>6, FirstFacts DEF Kinds
<1>8. ASSUME NEW p \in 1..f.upto.paths PROVE p \in RegisteredPaths(store, f)
  <2>1. nodes[p].func \in store.functions \cup f.functions
    BY <1>4, <1>5 DEF FrameTrue
  <2>2. nodes[p].parent \in 0..(p - 1)
    BY <1>1, <1>6, TableFacts DEF PipelineTypeOK, EmitterTypeOK, TablesOK
  <2>3. nodes[p].parent = 0 \/ nodes[p].parent \in 1..f.upto.paths
    BY <1>6, <2>2
  <2> QED BY <1>7, <2>1, <2>3 DEF RegisteredPaths
<1> QED BY <1>2, <1>3, <1>4, <1>5, <1>8

\* No frame a daemon reads counts a call of a function it was not told of, whatever program
\* runs, however often the daemon or the connection is lost between (emit.rs:93, 111).
THEOREM CallsAreNamed == Spec => []EveryCallIsNamed
<1>1. ASSUME PipelineInv PROVE EveryCallIsNamed
  <2> SUFFICES ASSUME NEW c \in DOMAIN conns, Pending(c)
               PROVE  NextFrame(c).calls \subseteq Told(c).functions
    BY DEF EveryCallIsNamed
  <2> QED BY <1>1, PendingKnows DEF FrameTrue
<1> QED BY <1>1, PipelineInvAlways, PTL

\* A context's time is refused only while its registration waits its turn under the ceiling,
\* whatever ceilings the tables and the frames have (registry.rs:23-27, emit.rs:122-128).
THEOREM StacksAreNamedInTurn == Spec => []StacksNamedInTurn
<1>1. ASSUME PipelineInv PROVE StacksNamedInTurn
  <2> SUFFICES ASSUME NEW c \in DOMAIN conns, Pending(c),
                      NEW p \in NextFrame(c).stacks \ Told(c).paths,
                      p # 0
               PROVE  p > NextFrame(c).upto.paths
    BY DEF StacksNamedInTurn
  <2>1. PipelineTypeOK
    BY <1>1, InvParts
  <2>2. p \in Nat /\ NextFrame(c).upto.paths \in Nat
    BY <2>1, PendingFrame DEF FrameType, Counts
  <2> QED BY <1>1, <2>2, PendingKnows
<1> QED BY <1>1, PipelineInvAlways, PTL

\* What the emitter counts as sent on a connection its daemon knows, or is about to read:
\* no crash, restart or reconnection leaves them at odds (emit.rs:102-106, 150-160).
THEOREM SentNamesAreKnown == Spec => []SentNamesReachTheStore
<1>1. ASSUME PipelineInv PROVE SentNamesReachTheStore
  <2> SUFFICES ASSUME sink # 0, Alive(sink)
               PROVE  LET store == stores[conns[sink].to]
                      IN /\ 1..sent.paths \subseteq store.paths \cup UNION {f.paths : f \in Frames(sink)}
                         /\ {types[i] : i \in 1..sent.types}
                              \subseteq store.types \cup UNION {f.types : f \in Frames(sink)}
    BY DEF SentNamesReachTheStore
  <2>1. PipelineTypeOK /\ EmitterNames
    BY <1>1, InvParts
  <2>2. \A j \in Nat : OnWire(sink, j) => Line(sink, j) \in Frames(sink)
    BY DEF OnWire, Line, Frames
  <2>3. ASSUME NEW kind \in Kinds, NEW name \in First(kind, sent[kind])
        PROVE  \/ name \in stores[conns[sink].to][kind]
               \/ \E f \in Frames(sink) : name \in f[kind]
    BY <2>1, <2>2, <2>3, SentIsCarried DEF EmitterNames, Carried, To
  <2>4. First("paths", sent.paths) = 1..sent.paths
    BY <2>1, FirstFacts DEF PipelineTypeOK, EmitterTypeOK, Counts
  <2>5. First("types", sent.types) = {types[i] : i \in 1..sent.types}
    BY DEF First, Name
  <2>6. "paths" \in Kinds /\ "types" \in Kinds
    BY DEF Kinds
  <2>7. 1..sent.paths \subseteq
          stores[conns[sink].to].paths \cup UNION {f.paths : f \in Frames(sink)}
    BY <2>3, <2>4, <2>6
  <2>8. {types[i] : i \in 1..sent.types}
          \subseteq stores[conns[sink].to].types \cup UNION {f.types : f \in Frames(sink)}
    BY <2>3, <2>5, <2>6
  <2> QED BY <2>7, <2>8
<1> QED BY <1>1, PipelineInvAlways, PTL

\* A type that a frame could not name has one reading refused on a connection, never a
\* second: the next frame carries it (emit.rs:111, 129).
THEOREM RefusedOnce == Spec => []OneReadingUnnamedAtMost
<1>1. ASSUME PipelineInv PROVE OneReadingUnnamedAtMost
  <2> SUFFICES ASSUME NEW c \in DOMAIN conns, Pending(c), NEW ty \in unnamed[c]
               PROVE  ty \in Told(c).types
    BY DEF OneReadingUnnamedAtMost
  <2>1. PipelineTypeOK /\ WireReadings
    BY <1>1, InvParts
  <2>2. unnamed[c] \subseteq First("types", NextFrame(c).upto.types)
    BY <2>1, PendingFrame DEF WireReadings
  <2> QED BY <1>1, <2>2, PendingKnows
<1> QED BY <1>1, PipelineInvAlways, PTL

\* The frames a daemon counts as missed were overtaken or dropped unread, never skipped by
\* the emitter, whatever sends fail on the way (emit.rs:150-160, store.rs:201-205).
THEOREM GapsNeedDisorder == Spec => []GapsAreNotTheEmittersDrops
<1>1. ASSUME PipelineInv PROVE GapsAreNotTheEmittersDrops
  BY <1>1 DEF PipelineInv, NumbersInv, InTurn, GapsAreNotTheEmittersDrops
<1> QED BY <1>1, PipelineInvAlways, PTL

\* Daemons take and give up the path the same way while a probe talks to them.
THEOREM OnlyDaemonServes == Spec => []RefusedOnlyByAnother
<1>1. ASSUME PipelineInv PROVE RefusedOnlyByAnother
  BY <1>1 DEF PipelineInv, PipelineTypeOK, BindInv, Alone, RefusedOnlyByAnother
<1> QED BY <1>1, PipelineInvAlways, PTL

-----------------------------------------------------------------------------
(* What the whole implements: a window is shown at most once, or lost.     *)

Windows == 1..MaxWindows

InFlight(w) == \E c, i \in Nat : OnWire(c, i) /\ Line(c, i).window = w

\* The four outcomes, told by where a window is; it is in one place at most.
OutcomeShape ==
  \A w \in Windows :
    /\ OnItsWay(w) <=> (at # "sleep" /\ w = window) \/ InFlight(w)
    /\ OnItsWay(w) => w <= window /\ w \notin Range(applied)
    /\ w \in Range(applied) => w <= window
    /\ w > window => Outcome(w) = "open"
    /\ w \in Range(applied) => Outcome(w) = "shown"
    /\ OnItsWay(w) => Outcome(w) = "underway"
    /\ w <= window /\ ~OnItsWay(w) /\ w \notin Range(applied) => Outcome(w) = "lost"

LEMMA OutcomeFacts == PipelineInv => OutcomeShape
<1> SUFFICES ASSUME PipelineInv, NEW w \in Windows
             PROVE  /\ OnItsWay(w) <=> (at # "sleep" /\ w = window) \/ InFlight(w)
                    /\ OnItsWay(w) => w <= window /\ w \notin Range(applied)
                    /\ w \in Range(applied) => w <= window
                    /\ w > window => Outcome(w) = "open"
                    /\ w \in Range(applied) => Outcome(w) = "shown"
                    /\ OnItsWay(w) => Outcome(w) = "underway"
                    /\ w <= window /\ ~OnItsWay(w) /\ w \notin Range(applied) => Outcome(w) = "lost"
  BY DEF OutcomeShape
<1>1. PipelineTypeOK /\ WindowsInv
  BY InvParts
<1>2. window \in Nat /\ w \in Nat
  BY <1>1, EmitterBounds DEF PipelineTypeOK, EmitterTypeOK, Windows
<1>3. InFlight(w) <=> \E c \in DOMAIN conns : \E f \in Frames(c) : f.window = w
  <2>1. ASSUME NEW c \in Nat, NEW i \in Nat, OnWire(c, i), Line(c, i).window = w
        PROVE  \E e \in DOMAIN conns : \E f \in Frames(e) : f.window = w
    BY <2>1 DEF OnWire, Line, Frames
  <2>2. ASSUME NEW c \in DOMAIN conns, NEW f \in Frames(c), f.window = w
        PROVE  \E e, i \in Nat : OnWire(e, i) /\ Line(e, i).window = w
    <3>1. PICK i \in DOMAIN conns[c].lines : f = Line(c, i) /\ OnWire(c, i)
      BY DEF Frames, OnWire, Line
    <3>2. c \in Nat /\ i \in Nat
      BY <1>1, <3>1, OnWireFacts DEF PipelineTypeOK
    <3> QED BY <2>2, <3>1, <3>2
  <2> QED BY <2>1, <2>2 DEF InFlight
<1>4. OnItsWay(w) <=> (at # "sleep" /\ w = window) \/ InFlight(w)
  BY <1>3 DEF OnItsWay
<1>5. InFlight(w) => w <= window /\ w \notin Range(applied)
  BY <1>1, <1>2 DEF InFlight, WindowsInv
<1>6. OnItsWay(w) => w <= window /\ w \notin Range(applied)
  BY <1>1, <1>2, <1>4, <1>5 DEF WindowsInv
<1>7. w \in Range(applied) => w <= window
  BY <1>1, <1>2 DEF WindowsInv, Range
<1> QED BY <1>2, <1>4, <1>6, <1>7 DEF Outcome

LEMMA OutcomeFactsNext == PipelineInv' => OutcomeShape'
BY OutcomeFacts, PTL

\* A step that shows no window and takes none loses some, or none.
LEMMA LosesAtMost ==
  ASSUME PipelineInv, PipelineInv', applied' = applied, window' = window,
         \A w : w \in Windows /\ OnItsWay(w)' => OnItsWay(w)
  PROVE  DeliveryView!Lose
<1>1. OutcomeShape /\ OutcomeShape' /\ window \in Nat
  BY OutcomeFacts, OutcomeFactsNext, EmitterBounds
  DEF PipelineInv, PipelineTypeOK, EmitterTypeOK
<1>2. Range(applied)' = Range(applied)
  BY DEF Range
<1>3. ASSUME NEW w \in Windows
      PROVE  /\ Outcome(w)' \in {"open", "underway", "shown", "lost"}
             /\ Outcome(w)' # Outcome(w) => Outcome(w) = "underway" /\ Outcome(w)' = "lost"
  <2>1. w \in Nat
    BY DEF Windows
  <2>2. CASE w > window
    BY <1>1, <2>2 DEF OutcomeShape
  <2>3. CASE w \in Range(applied)
    BY <1>1, <1>2, <2>3 DEF OutcomeShape
  <2>4. CASE w <= window /\ w \notin Range(applied)
    BY <1>1, <1>2, <2>4 DEF OutcomeShape
  <2> QED BY <1>1, <2>1, <2>2, <2>3, <2>4
<1> QED BY <1>3 DEF DeliveryView!Lose, Windows

LEMMA QuietLoses ==
  ASSUME PipelineInv, PipelineInv', applied' = applied, window' = window,
         NEW off, NEW dropped, Quiet(off, dropped), at' # "sleep" => at # "sleep"
  PROVE  DeliveryView!Lose
<1>1. OutcomeShape /\ OutcomeShape'
  BY OutcomeFacts, OutcomeFactsNext
<1>2. ASSUME NEW w, InFlight(w)' PROVE InFlight(w)
  <2>1. PICK c, i \in Nat : OnWire(c, i)' /\ Line(c, i)'.window = w
    BY <1>2 DEF InFlight
  <2>2. PICK k \in Nat : k = i + off[c]
    BY <2>1 DEF Quiet
  <2>3. OnWire(c, k) /\ Line(c, i)' = Line(c, k)
    BY <2>1, <2>2 DEF Quiet
  <2> QED BY <2>1, <2>3 DEF InFlight
<1>3. \A w : w \in Windows /\ OnItsWay(w)' => OnItsWay(w)
  BY <1>1, <1>2 DEF OutcomeShape, Windows
<1> QED BY <1>3, LosesAtMost

LEMMA WrittenLoses ==
  ASSUME PipelineInv, PipelineInv', applied' = applied,
         NEW line, NEW last, Written(line, last), Ticked(line)
  PROVE  DeliveryView!Lose
<1>1. OutcomeShape /\ OutcomeShape' /\ WindowsInv
  BY OutcomeFacts, OutcomeFactsNext, InvParts
<1>2. at = "named" /\ at' = "sleep" /\ window' = window /\ Complete.window = window
  BY <1>1, CompleteFacts DEF Written, Ticked, WindowsInv
<1>3. ASSUME NEW w, InFlight(w)' PROVE InFlight(w) \/ w = window
  <2>1. PICK c, i \in Nat : OnWire(c, i)' /\ Line(c, i)'.window = w
    BY <1>3 DEF InFlight
  <2>2. CASE OnWire(c, i)
    BY <2>1, <2>2 DEF Written, InFlight
  <2>3. CASE c = sink /\ i = last /\ line = Complete
    BY <1>2, <2>1, <2>3 DEF Written
  <2> QED BY <2>1, <2>2, <2>3 DEF Written
<1>4. \A w : w \in Windows /\ OnItsWay(w)' => OnItsWay(w)
  BY <1>1, <1>2, <1>3 DEF OutcomeShape, Windows
<1> QED BY <1>2, <1>4, LosesAtMost

LEMMA DrainTakes ==
  ASSUME PipelineInv, PipelineInv', Drain, UNCHANGED <<conns, applied>>
  PROVE  window + 1 \in Windows /\ DeliveryView!Take(window + 1)
<1>1. /\ OutcomeShape /\ OutcomeShape' /\ window \in Nat /\ MaxWindows \in Nat
      /\ window < MaxWindows /\ window' = window + 1 /\ at = "sleep" /\ at' # "sleep"
  BY OutcomeFacts, OutcomeFactsNext, EmitterBounds
  DEF PipelineInv, PipelineTypeOK, EmitterTypeOK, Drain
<1>2. Range(applied)' = Range(applied) /\ \A w : InFlight(w)' <=> InFlight(w)
  BY DEF Range, InFlight, OnWire, Line, Hello, Torn
<1>3. PICK n \in Windows : n = window + 1
  BY <1>1 DEF Windows
<1>4. Outcome(n) = "open" /\ Outcome(n)' = "underway"
  BY <1>1, <1>3 DEF OutcomeShape, Windows
<1>5. ASSUME NEW w \in Windows, w # n PROVE Outcome(w)' = Outcome(w)
  <2>1. w \in Nat
    BY DEF Windows
  <2>2. OnItsWay(w)' <=> OnItsWay(w)
    BY <1>1, <1>2, <1>3, <1>5 DEF OutcomeShape
  <2>3. CASE w > window
    BY <1>1, <1>3, <1>5, <2>1, <2>3 DEF OutcomeShape
  <2>4. CASE w <= window
    BY <1>1, <1>2, <2>1, <2>2, <2>4 DEF OutcomeShape
  <2> QED BY <1>1, <2>1, <2>3, <2>4
<1>6. DeliveryView!Take(n)
  BY <1>3, <1>4, <1>5 DEF DeliveryView!Take, Windows
<1> QED BY <1>3, <1>6

LEMMA ApplyShows ==
  ASSUME PipelineInv, PipelineInv', NEW c, Applied(c), UNCHANGED emitterVars
  PROVE  Line(c, 1).window \in Windows /\ DeliveryView!Show(Line(c, 1).window)
<1>1. /\ OutcomeShape /\ OutcomeShape' /\ PipelineTypeOK /\ WindowsInv
      /\ at' = at /\ window' = window
  BY OutcomeFacts, OutcomeFactsNext, InvParts DEF emitterVars
<1>2. PICK n : n = Line(c, 1).window
  OBVIOUS
<1>3. OnWire(c, 1) /\ c \in Nat /\ 1 \in Nat /\ applied' = Append(applied, n)
  BY <1>1, <1>2, OnWireFacts DEF Applied, PipelineTypeOK
<1>4. window \in Nat /\ MaxWindows \in Nat /\ window <= MaxWindows
  BY <1>1, EmitterBounds DEF PipelineTypeOK, EmitterTypeOK
<1>5. /\ n \in 1..window /\ InFlight(n)
      /\ \A e, i \in Nat : OnWire(e, i) /\ Line(e, i).window = n => e = c /\ i = 1
  BY <1>1, <1>2, <1>3 DEF WindowsInv, InFlight
<1>6. n \in Windows
  BY <1>4, <1>5 DEF Windows
<1>7. Range(applied)' = Range(applied) \cup {n}
  BY <1>1, <1>2, AppliedWindows
<1>8. Outcome(n) = "underway" /\ Outcome(n)' = "shown"
  BY <1>1, <1>5, <1>6, <1>7 DEF OutcomeShape
<1>9. ASSUME NEW w, w # n PROVE InFlight(w)' <=> InFlight(w)
  <2>1. ASSUME NEW e \in Nat, NEW i \in Nat, OnWire(e, i)', Line(e, i)'.window = w
        PROVE  InFlight(w)
    <3>1. PICK k \in Nat : k = (IF e = c THEN i + 1 ELSE i)
      OBVIOUS
    <3>2. OnWire(e, k) /\ Line(e, i)' = Line(e, k)
      BY <2>1, <3>1 DEF Applied
    <3> QED BY <2>1, <3>2 DEF InFlight
  <2>2. ASSUME NEW e \in Nat, NEW k \in Nat, OnWire(e, k), Line(e, k).window = w
        PROVE  InFlight(w)'
    <3>1. k > 0 /\ ~(e = c /\ k = 1)
      BY <1>1, <1>2, <1>9, <2>2, OnWireFacts DEF PipelineTypeOK
    <3>2. CASE e = c
      <4>1. PICK i \in Nat : k = i + 1 /\ i > 0
        <5>1. k - 1 \in Nat /\ k = (k - 1) + 1 /\ k - 1 > 0
          BY <3>1, <3>2
        <5> QED BY <5>1
      <4>2. OnWire(e, i)' /\ Line(e, i)' = Line(e, k)
        BY <2>2, <3>2, <4>1 DEF Applied
      <4> QED BY <2>2, <4>2 DEF InFlight
    <3>3. CASE e # c
      <4>1. OnWire(e, k)' /\ Line(e, k)' = Line(e, k)
        BY <2>2, <3>3 DEF Applied
      <4> QED BY <2>2, <4>1 DEF InFlight
    <3> QED BY <3>2, <3>3
  <2> QED BY <2>1, <2>2 DEF InFlight
<1>10. ASSUME NEW w \in Windows, w # n PROVE Outcome(w)' = Outcome(w)
  <2>1. OnItsWay(w)' <=> OnItsWay(w)
    BY <1>1, <1>9, <1>10 DEF OutcomeShape
  <2>2. w \in Range(applied)' <=> w \in Range(applied)
    BY <1>7, <1>10
  <2>3. w \in Nat
    BY DEF Windows
  <2>4. CASE w > window
    BY <1>1, <2>4 DEF OutcomeShape
  <2>5. CASE w <= window
    BY <1>1, <2>1, <2>2, <2>5 DEF OutcomeShape
  <2> QED BY <1>4, <2>3, <2>4, <2>5
<1>11. DeliveryView!Show(n)
  BY <1>3, <1>6, <1>8, <1>10 DEF DeliveryView!Show, Windows
<1> QED BY <1>2, <1>6, <1>11

LEMMA StutterLoses == ASSUME PipelineInv, PipelineInv', UNCHANGED vars PROVE DeliveryView!Lose
<1>1. OutcomeShape /\ OutcomeShape'
  BY OutcomeFacts, OutcomeFactsNext
<1>2. conns' = conns /\ at' = at /\ window' = window /\ applied' = applied
  BY DEF vars, emitterVars, daemonVars
<1>3. \A w : InFlight(w)' => InFlight(w)
  BY <1>2 DEF InFlight, OnWire, Line
<1>4. \A w : w \in Windows /\ OnItsWay(w)' => OnItsWay(w)
  BY <1>1, <1>2, <1>3 DEF OutcomeShape
<1> QED BY <1>2, <1>4, LosesAtMost

LEMMA DeliveryStep ==
  ASSUME PipelineInv, PipelineInv', [Next]_vars
  PROVE  DeliveryView!Next
<1>0. PipelineTypeOK /\ EmitterNames
  BY InvParts
<1>1. CASE Program
  <2>1. \E off : Quiet(off, {})
    BY <1>0, <1>1, ProgramTypes
  <2>2. PICK off : Quiet(off, {})
    BY <2>1
  <2>3. applied' = applied /\ window' = window /\ at' = at
    BY <1>1 DEF Program, Call, NewType, tickVars, daemonVars
  <2>4. DeliveryView!Lose
    BY <2>2, <2>3, QuietLoses
  <2> QED BY <2>4 DEF DeliveryView!Next
<1>2. CASE Tick /\ Drain
  <2>1. UNCHANGED <<conns, applied>> /\ Drain
    BY <1>2 DEF Tick, daemonVars
  <2>2. window + 1 \in 1..MaxWindows /\ DeliveryView!Take(window + 1)
    BY <2>1, DrainTakes DEF Windows
  <2> QED BY <2>2 DEF DeliveryView!Next
<1>3. CASE (Tick /\ ~Drain) \/ NoSink \/ SendToNobody
  <2>1. \E off : Quiet(off, {})
    BY <1>0, <1>3, EmitterTypes DEF EmitterNames, SentCovered
  <2>2. PICK off : Quiet(off, {})
    BY <2>1
  <2>3. applied' = applied /\ window' = window /\ (at' # "sleep" => at # "sleep")
    BY <1>3 DEF Tick, RegistersSince, NoSink, GiveUp, SendToNobody, SendFailed, daemonVars
  <2>4. DeliveryView!Lose
    BY <2>2, <2>3, QuietLoses
  <2> QED BY <2>4 DEF DeliveryView!Next
<1>4. CASE OpenSink
  <2>1. \E off : Quiet(off, {})
    BY <1>0, <1>4, OpenSinkTypes
  <2>2. PICK off : Quiet(off, {})
    BY <2>1
  <2>3. applied' = applied /\ window' = window /\ (at' # "sleep" => at # "sleep")
    BY <1>4 DEF OpenSink, Connect, daemonVars
  <2>4. DeliveryView!Lose
    BY <2>2, <2>3, QuietLoses
  <2> QED BY <2>4 DEF DeliveryView!Next
<1>5. CASE SendFrame \/ SendTimesOut
  <2>1. stores' = stores /\ \E line, last : Written(line, last) /\ (SendFrame => line = Complete)
    BY <1>0, <1>5, SendTypes
  <2>2. PICK line, last : Written(line, last) /\ (SendFrame => line = Complete)
    BY <2>1
  <2>3. Ticked(line) /\ applied' = applied
    BY <1>5, <2>1, <2>2 DEF Ticked, SendFrame, SendTimesOut, Sent, SendFailed, daemonVars
  <2>4. DeliveryView!Lose
    BY <2>2, <2>3, WrittenLoses
  <2> QED BY <2>4 DEF DeliveryView!Next
<1>6. ASSUME NEW c \in DOMAIN conns, ApplyFrame(c) PROVE DeliveryView!Next
  <2>1. Applied(c) /\ UNCHANGED emitterVars
    BY <1>0, <1>6, ApplyTypes
  <2>2. Line(c, 1).window \in 1..MaxWindows /\ DeliveryView!Show(Line(c, 1).window)
    BY <2>1, ApplyShows DEF Windows
  <2> QED BY <2>2 DEF DeliveryView!Next
<1>7. ASSUME NEW c \in DOMAIN conns, Admit(c) \/ SkipTorn(c) \/ EndStream(c) \/ HandlerStops(c)
      PROVE  DeliveryView!Next
  <2>1. \E off, dropped : Quiet(off, dropped) /\ (disorder' \/ Undropped(dropped))
    BY <1>0, <1>7, HandlerTypes
  <2>2. PICK off, dropped : Quiet(off, dropped)
    BY <2>1
  <2>3. UNCHANGED emitterVars /\ applied' = applied
    BY <1>7 DEF Admit, SkipTorn, EndStream, HandlerStops, daemonVars
  <2>4. window' = window /\ at' = at
    BY <2>3 DEF emitterVars
  <2>5. DeliveryView!Lose
    BY <2>2, <2>3, <2>4, QuietLoses
  <2> QED BY <2>5 DEF DeliveryView!Next
<1>8. ASSUME NEW d \in Daemons, Main(d) PROVE DeliveryView!Next
  <2>1. \E off, dropped : Quiet(off, dropped)
    BY <1>0, <1>8, MainTypes
  <2>2. PICK off, dropped : Quiet(off, dropped)
    BY <2>1
  <2>3. UNCHANGED emitterVars /\ applied' = applied
    BY <1>8 DEF Main
  <2>4. window' = window /\ at' = at
    BY <2>3 DEF emitterVars
  <2>5. DeliveryView!Lose
    BY <2>2, <2>3, <2>4, QuietLoses
  <2> QED BY <2>5 DEF DeliveryView!Next
<1>9. CASE UNCHANGED vars
  BY <1>9, StutterLoses DEF DeliveryView!Next
<1>10. CASE Next
  <2>1. CASE Program \/ Tick \/ OpenSink \/ NoSink \/ SendFrame \/ SendToNobody \/ SendTimesOut
    BY <1>1, <1>2, <1>3, <1>4, <1>5, <2>1
  <2>2. CASE \E c \in DOMAIN conns : Handle(c) \/ HandlerStops(c)
    BY <1>6, <1>7, <2>2 DEF Handle
  <2>3. CASE \E d \in Daemons : Main(d)
    BY <1>8, <2>3
  <2> QED BY <1>10, <2>1, <2>2, <2>3 DEF Next
<1> QED BY <1>9, <1>10

LEMMA DeliveryInit == Init => DeliveryView!Init
<1> SUFFICES ASSUME Init PROVE DeliveryView!Init
  OBVIOUS
<1>1. OutcomeShape
  BY PipelineInvInit, OutcomeFacts
<1>2. window = 0 /\ applied = << >>
  BY DEF Init, EmitterInit
<1>3. \A w \in Windows : Outcome(w) = "open"
  <2> SUFFICES ASSUME NEW w \in Windows PROVE Outcome(w) = "open"
    OBVIOUS
  <2>1. w > window
    BY <1>2 DEF Windows
  <2> QED BY <1>1, <2>1 DEF OutcomeShape
<1> QED BY <1>2, <1>3 DEF DeliveryView!Init, Windows

\* A window is shown at most once or lost, for any number of daemons, connections and
\* faults: a failed send is never retried, for the frame may have arrived
\* (emit.rs:91-93, 146-161).  That every window meets one end is left to the runs.
THEOREM WindowsShownOnceOrLost == Spec => DeliveryView!Spec
<1>1. PipelineInv /\ PipelineInv' /\ [Next]_vars => [DeliveryView!Next]_(DeliveryView!deliveryVars)
  BY DeliveryStep
<1> QED BY <1>1, DeliveryInit, PipelineInvAlways, PTL DEF Spec, DeliveryView!Spec
=============================================================================
