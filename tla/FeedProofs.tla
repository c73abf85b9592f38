----------------------------- MODULE FeedProofs -----------------------------
(***************************************************************************)
(* A page's feeds hold their own process's windows, each once and never    *)
(* more than the daemon's own, for any number of processes, sockets,       *)
(* windows and requests, in whatever order the callbacks run.  Neither     *)
(* theorem asks anything of how sessions are paired: the daemon serves the *)
(* processes it has registered, whatever a session names.                  *)
(***************************************************************************)
EXTENDS Feed, DataProofs

Win == WindowOf(SUBSET FunctionIds)
ShownWin == [index: Nat, data: SUBSET FunctionIds, of: Processes]

Updates == [kind: {"window"}, window: Win] \cup [kind: {"process_ended"}, window: {None}]

IsProc(proc) ==
  /\ proc \in [known: BOOLEAN, live: BOOLEAN, t: Nat, fine: Seq(Win), coarse: Seq(Win),
               open: Nat \cup {None}, names: SUBSET FunctionIds, log: Seq(Updates)]
  /\ IsRing(proc.fine, FineCapacity) /\ IsRing(proc.coarse, CoarseCapacity)

\* The process's own ring has gone at least as far as the window, and still has all of it
\* where it has the window.
Kept(p, w) ==
  LET ring == procs[p].fine
  IN /\ ring # << >> /\ w.index <= Newest(ring)
     /\ Retains(ring, w.index) => w.data \subseteq Data(ring, w.index)

ProcsInv ==
  /\ DOMAIN procs = Processes
  /\ \A p \in Processes :
       /\ IsProc(procs[p])
       /\ \A i \in DOMAIN procs[p].log :
            procs[p].log[i].kind = "window" => Kept(p, procs[p].log[i].window)

\* Each window once, in the order of time.
Increasing(held) == \A i, j \in DOMAIN held : i < j => held[i].index < held[j].index

\* What a snapshot and a feed have in common.
Holds(x) ==
  /\ x.windows \in Seq(ShownWin)
  /\ x.resolution = "fine" =>
       Increasing(x.windows) /\ \A i \in DOMAIN x.windows : Kept(x.windows[i].of, x.windows[i])

OnlyOf(x, p) == \A i \in DOMAIN x.windows : x.windows[i].of = p

IsFeed(feed) ==
  DOMAIN feed = {"process", "windows", "names", "resolution", "unknown"} /\ Holds(feed)

IsFetch(f) ==
  /\ DOMAIN f = {"attach", "feed", "process", "resolution", "awaited", "reply"}
  /\ f.attach \in Nat /\ f.attach <= attach_ /\ f.awaited \in BOOLEAN
  /\ f.awaited => f.attach \in DOMAIN awaiting
  /\ f.attach = attach_ => f.feed \in DOMAIN feeds /\ f.process = feeds[f.feed].process
  /\ f.reply # None => Holds(f.reply) /\ OnlyOf(f.reply, f.process)

IsSocket(x) ==
  /\ x.phase \in {"none", "connecting", "open", "over"}
  /\ x.phase = "open" =>
       /\ DOMAIN x = {"phase", "id", "at"}
       /\ \A n \in DOMAIN x.at :
            /\ x.at[n] \in [process: Processes, cursor: Nat]

PageInv ==
  /\ DOMAIN view = {"session", "chosen", "resolution", "socket", "fallback"}
  /\ attach_ \in Nat
  /\ \A n \in DOMAIN feeds : IsFeed(feeds[n])
  /\ \A f \in fetches : IsFetch(f)
  /\ DOMAIN sockets = Sockets /\ \A s \in Sockets : IsSocket(sockets[s])

\* Unless an attach overtook another, the page's socket is the only one, and there is
\* none while its snapshots are awaited.
OneSocket ==
  ~overtaken =>
    /\ \A s \in Sockets : sockets[s].phase # "none" => view.socket = s
    /\ \A a \in DOMAIN awaiting : a = attach_ /\ view.socket = None

\* What streams is what the feeds are of.
StreamsTheFeeds ==
  ~(overtaken \/ crossed) =>
    \A s \in Sockets : sockets[s].phase = "open" =>
      \A n \in DOMAIN sockets[s].at \cap DOMAIN feeds :
        sockets[s].at[n].process = feeds[n].process

OwnWindows ==
  ~(overtaken \/ crossed) => \A n \in DOMAIN feeds : OnlyOf(feeds[n], feeds[n].process)

FeedInv == ProcsInv /\ PageInv /\ OneSocket /\ StreamsTheFeeds /\ OwnWindows

-----------------------------------------------------------------------------
(* The daemon's rings.                                                     *)

\* Naming a function in one window leaves the ring as it is but for that window's data.
LEMMA NamedKeeps ==
  ASSUME NEW cap \in Nat \ {0}, NEW ring \in Seq(Win), IsRing(ring, cap), NEW index,
         NEW f \in FunctionIds
  PROVE  /\ Named(ring, index, f) \in Seq(Win) /\ IsRing(Named(ring, index, f), cap)
         /\ DOMAIN Named(ring, index, f) = DOMAIN ring
         /\ Len(Named(ring, index, f)) = Len(ring)
         /\ \A i \in DOMAIN ring : /\ Named(ring, index, f)[i].index = ring[i].index
                                  /\ ring[i].data \subseteq Named(ring, index, f)[i].data
<1>1. PICK l \in Nat : l = Len(ring) /\ DOMAIN ring = 1..l
  BY LenProperties
<1>2. PICK after : after = Named(ring, index, f)
  OBVIOUS
<1>3. PICK k : k = Slot(ring, index)
  OBVIOUS
<1>4. after = [ring EXCEPT ![k].data = @ \cup {f}]
  BY <1>2, <1>3 DEF Named
<1>5. \A i \in 1..l : ring[i] \in Win /\ ring[i].data \subseteq FunctionIds
  <2>1. \A i \in 1..l : ring[i] \in Win
    BY <1>1, ElementOfSeq
  <2> QED BY <2>1 DEF Win, WindowOf
<1>6. \A i \in 1..l : /\ after[i] \in Win /\ after[i].index = ring[i].index
                      /\ ring[i].data \subseteq after[i].data
  <2> SUFFICES ASSUME NEW i \in 1..l
               PROVE  /\ after[i] \in Win /\ after[i].index = ring[i].index
                      /\ ring[i].data \subseteq after[i].data
    OBVIOUS
  <2>1. CASE i = k
    <3>1. after[i] = [ring[i] EXCEPT !.data = @ \cup {f}]
      BY <1>1, <1>4, <2>1
    <3> QED BY <1>5, <3>1 DEF Win, WindowOf
  <2>2. CASE i # k
    BY <1>1, <1>4, <1>5, <2>2
  <2> QED BY <2>1, <2>2
<1>7. DOMAIN after = 1..l /\ after = [i \in 1..l |-> after[i]]
  BY <1>1, <1>4
<1>8. after \in Seq(Win) /\ Len(after) = l
  BY <1>6, <1>7
<1>9. IsRing(after, cap)
  <2>1. l <= cap /\ \A i \in 1..l : ring[i].index = ring[1].index + i - 1
    BY <1>1 DEF IsRing, Contiguous
  <2>2. \A i \in 1..l : after[i].index = after[1].index + i - 1
    <3>1. ASSUME NEW i \in 1..l PROVE 1 \in 1..l
      OBVIOUS
    <3> QED BY <1>6, <2>1, <3>1
  <2> QED BY <1>7, <1>8, <2>1, <2>2 DEF IsRing, Contiguous
<1> QED BY <1>1, <1>2, <1>6, <1>7, <1>8, <1>9

\* A later form of a ring: what it still has of the earlier windows has only grown.
Grows(before, after) ==
  before # << >> =>
    /\ after # << >> /\ Newest(before) <= Newest(after)
    /\ Newest(before) \in Nat /\ Newest(after) \in Nat
    /\ \A index \in Nat :
         index <= Newest(before) /\ Retains(after, index) =>
           Retains(before, index) /\ Data(before, index) \subseteq Data(after, index)

LEMMA FrameGrows ==
  ASSUME NEW cap \in Nat \ {0}, NEW ring \in Seq(Win), IsRing(ring, cap), NEW index \in Nat,
         NEW f \in FunctionIds, NEW after,
         after = Named(WindowFor(ring, index, cap, {}), index, f)
  PROVE  after \in Seq(Win) /\ IsRing(after, cap) /\ Grows(ring, after)
<1>1. PICK mid : mid = WindowFor(ring, index, cap, {})
  OBVIOUS
<1>2. PICK D : D = SUBSET FunctionIds /\ Win = WindowOf(D) /\ {} \in D
  BY DEF Win
<1>3. /\ mid \in Seq(Win) /\ IsRing(mid, cap) /\ mid # << >>
  BY <1>1, <1>2, WindowForIsRing
<1>4. /\ ring # << >> => Newest(ring) <= Newest(mid)
      /\ \A i \in DOMAIN mid :
           \/ \E j \in DOMAIN ring : mid[i] = ring[j]
           \/ ring # << >> => mid[i].index > Newest(ring)
  <2>1. PICK empty \in D : empty = {}
    BY <1>2
  <2>2. ring \in Seq(WindowOf(D))
    BY <1>2
  <2>3. mid = WindowFor(ring, index, cap, empty)
    BY <1>1, <2>1
  <2>4. LET w == WindowFor(ring, index, cap, empty) IN
          /\ index <= Newest(w)
          /\ ring # << >> => Newest(ring) <= Newest(w)
          /\ \A i \in DOMAIN w :
               \/ \E j \in DOMAIN ring : w[i] = ring[j]
               \/ /\ w[i].data = empty
                  /\ ring # << >> => w[i].index > Newest(ring)
    BY <2>2, WindowForKeeps, Zenon
  <2> QED BY <2>3, <2>4, Zenon
<1>5. /\ after \in Seq(Win) /\ IsRing(after, cap)
      /\ DOMAIN after = DOMAIN mid /\ Len(after) = Len(mid)
      /\ \A i \in DOMAIN mid : after[i].index = mid[i].index /\ mid[i].data \subseteq after[i].data
  BY <1>1, <1>3, NamedKeeps
<1>6. PICK l \in Nat \ {0} : l = Len(mid) /\ DOMAIN mid = 1..l
  BY <1>3, LenProperties, EmptySeq
<1>7. after # << >> /\ Newest(after) = Newest(mid) /\ Oldest(after) = Oldest(mid)
  BY <1>5, <1>6, EmptySeq DEF Newest, Oldest
<1>8. Newest(mid) \in Nat
  BY <1>2, <1>3, <1>6, RingIndexes DEF IsRing, Newest
<1>9. ASSUME ring # << >> PROVE Newest(ring) \in Nat
  <2>1. Len(ring) \in 1..Len(ring)
    BY <1>9, EmptySeq
  <2> QED BY <1>2, <2>1, RingIndexes DEF IsRing, Newest
<1>10. ASSUME ring # << >>, NEW i \in Nat, i <= Newest(ring), Retains(after, i)
       PROVE  Retains(ring, i) /\ Data(ring, i) \subseteq Data(after, i)
  <2>1. Retains(mid, i)
    BY <1>3, <1>7, <1>10 DEF Retains
  <2>2. PICK k \in DOMAIN mid : k = Slot(mid, i) /\ mid[k].index = i
    BY <1>2, <1>3, <2>1, SlotHolds DEF IsRing
  <2>3. PICK j \in DOMAIN ring : mid[k] = ring[j]
    BY <1>4, <1>9, <1>10, <2>2
  <2>4. Retains(ring, i) /\ Slot(ring, i) = j
    BY <1>2, <2>2, <2>3, WindowsAreRetained DEF IsRing
  <2>5. Slot(after, i) = k
    BY <1>7, <2>2 DEF Slot
  <2> QED BY <1>5, <2>2, <2>3, <2>4, <2>5 DEF Data
<1> QED BY <1>4, <1>5, <1>7, <1>8, <1>9, <1>10 DEF Grows

\* A window held stays within the process's own, whatever its ring has come to.
LEMMA KeptStays ==
  ASSUME NEW p, NEW w, w.index \in Nat, Kept(p, w),
         procs'[p].fine = procs[p].fine \/ Grows(procs[p].fine, procs'[p].fine)
  PROVE  Kept(p, w)'
<1>1. CASE procs'[p].fine = procs[p].fine
  BY <1>1 DEF Kept
<1>2. CASE Grows(procs[p].fine, procs'[p].fine)
  <2>1. PICK before, after : before = procs[p].fine /\ after = procs'[p].fine
    OBVIOUS
  <2>2. /\ before # << >> /\ w.index <= Newest(before)
        /\ Retains(before, w.index) => w.data \subseteq Data(before, w.index)
    BY <2>1 DEF Kept
  <2>3. /\ after # << >> /\ w.index <= Newest(after)
        /\ Retains(after, w.index) => w.data \subseteq Data(after, w.index)
    BY <1>2, <2>1, <2>2 DEF Grows
  <2> QED BY <2>1, <2>3 DEF Kept
<1> QED BY <1>1, <1>2

LEMMA OwnWindowsKept ==
  ASSUME NEW p, procs[p].fine \in Seq(Win), Contiguous(procs[p].fine),
         NEW i \in DOMAIN procs[p].fine
  PROVE  Kept(p, procs[p].fine[i])
<1>1. PICK ring : ring = procs[p].fine
  OBVIOUS
<1>2. ring[i] \in Win /\ Retains(ring, ring[i].index) /\ Slot(ring, ring[i].index) = i
  BY <1>1, WindowsAreRetained DEF Win
<1> QED BY <1>1, <1>2 DEF Kept, Retains, Data

-----------------------------------------------------------------------------
(* The page's windows.                                                     *)

\* A snapshot's windows are of its process, and on the fine axis the newest of its ring.
LEMMA SnapshotHolds ==
  ASSUME ProcsInv, NEW p \in Processes, NEW r
  PROVE  Holds(Snapshot(p, r)) /\ OnlyOf(Snapshot(p, r), p)
<1>1. PICK ring : ring = IF r = "fine" THEN procs[p].fine ELSE procs[p].coarse
  OBVIOUS
<1>2. ring \in Seq(Win) /\ Contiguous(ring)
  BY <1>1 DEF ProcsInv, IsProc, IsRing
<1>3. PICK recent : recent = Trimmed(ring, MaxWindows)
  OBVIOUS
<1>4. recent \in Seq(Win) /\ TailOf(recent, ring)
  BY <1>2, <1>3, TrimmedIsTail, FeedSizes
<1>5. PICK n \in Nat : DOMAIN recent = 1..n /\ Len(recent) = n
  BY <1>4, LenProperties
<1>6. PICK shown : shown = [i \in 1..n |-> Shown(p, recent[i])]
  OBVIOUS
<1>7. /\ Snapshot(p, r).windows = shown /\ Snapshot(p, r).resolution = r
  BY <1>1, <1>3, <1>5, <1>6 DEF Snapshot
<1>8. PICK d \in Nat : \A i \in 1..n : i + d \in DOMAIN ring /\ recent[i] = ring[i + d]
  BY <1>4, <1>5 DEF TailOf
<1>9. \A i \in 1..n : /\ shown[i].index = recent[i].index /\ shown[i].data = recent[i].data
                      /\ shown[i].of = p
  BY <1>6 DEF Shown
<1>10. \A i \in 1..n : shown[i] \in ShownWin
  <2>1. \A i \in 1..n : recent[i] \in Win
    BY <1>4, <1>5, ElementOfSeq
  <2> QED BY <1>6, <2>1 DEF Shown, Win, WindowOf, ShownWin
<1>11. shown \in Seq(ShownWin) /\ DOMAIN shown = 1..n
  BY <1>6, <1>10
<1>12. Increasing(shown)
  <2> SUFFICES ASSUME NEW i \in 1..n, NEW j \in 1..n, i < j
               PROVE  shown[i].index < shown[j].index
    BY <1>11 DEF Increasing
  <2>1. i + d \in 1..Len(ring) /\ j + d \in 1..Len(ring)
    BY <1>2, <1>8, LenProperties
  <2>2. PICK first \in Nat : first = ring[1].index
    BY <1>2, <2>1, RingIndexes DEF Win
  <2>3. ring[i + d].index = first + (i + d) - 1 /\ ring[j + d].index = first + (j + d) - 1
    BY <1>2, <2>1, <2>2, RingIndexes DEF Win
  <2> QED BY <1>8, <1>9, <2>3
<1>13. ASSUME r = "fine", NEW i \in 1..n PROVE Kept(shown[i].of, shown[i])
  <2>1. Kept(p, ring[i + d])
    BY <1>1, <1>2, <1>8, <1>13, OwnWindowsKept
  <2> QED BY <1>8, <1>9, <2>1 DEF Kept
<1> QED BY <1>7, <1>9, <1>11, <1>12, <1>13 DEF Holds, OnlyOf

\* What a feed makes of a snapshot.
LEMMA ApplySnapshotHolds ==
  ASSUME NEW feed, IsFeed(feed), NEW x, Holds(x)
  PROVE  /\ IsFeed(ApplySnapshot(feed, x)) /\ ApplySnapshot(feed, x).process = feed.process
         /\ \A p : OnlyOf(x, p) => OnlyOf(ApplySnapshot(feed, x), p)
<1>1. PICK after : after = ApplySnapshot(feed, x)
  OBVIOUS
<1>2. /\ DOMAIN after = DOMAIN feed /\ after.windows = x.windows
      /\ after.resolution = x.resolution /\ after.process = feed.process
  BY <1>1 DEF ApplySnapshot, IsFeed
<1> QED BY <1>1, <1>2 DEF IsFeed, Holds, OnlyOf

\* What a feed makes of a window pushed: the one it had by that index, or one more at the
\* end, later than all it has.
LEMMA ApplyWindowHolds ==
  ASSUME NEW feed, IsFeed(feed), NEW w \in ShownWin, Kept(w.of, w)
  PROVE  /\ IsFeed(ApplyWindow(feed, w)) /\ ApplyWindow(feed, w).process = feed.process
         /\ OnlyOf(feed, w.of) => OnlyOf(ApplyWindow(feed, w), w.of)
<1>1. PICK held : held = feed.windows
  OBVIOUS
<1>2. PICK after : after = ApplyWindow(feed, w)
  OBVIOUS
<1>3. PICK l \in Nat : l = Len(held) /\ DOMAIN held = 1..l
  BY <1>1, LenProperties DEF IsFeed, Holds
<1>4. held \in Seq(ShownWin) /\ \A i \in 1..l : held[i] \in ShownWin
  BY <1>1, <1>3, ElementOfSeq DEF IsFeed, Holds
<1>5. ASSUME feed.resolution = "fine"
      PROVE  Increasing(held) /\ \A i \in 1..l : Kept(held[i].of, held[i])
  BY <1>1, <1>3, <1>5 DEF IsFeed, Holds
<1>6. DOMAIN feed = {"process", "windows", "names", "resolution", "unknown"}
  BY DEF IsFeed
<1>7. SUFFICES ASSUME NEW now, after.windows = now, DOMAIN after = DOMAIN feed,
                      after.process = feed.process, after.resolution = feed.resolution,
                      now \in Seq(ShownWin),
                      \A i \in DOMAIN now : now[i] = w \/ \E j \in 1..l : now[i] = held[j],
                      Increasing(held) => Increasing(now)
               PROVE  IsFeed(after) /\ (OnlyOf(feed, w.of) => OnlyOf(after, w.of))
  <2>1. after = ApplyWindow(feed, w)
    BY <1>2
  <2>2. CASE held # << >> /\ w.index <= Last(held).index
    <3>1. PICK now : now = [i \in 1..l |-> IF held[i].index = w.index THEN w ELSE held[i]]
      OBVIOUS
    <3>2. after = [feed EXCEPT !.windows = now]
      BY <1>1, <1>3, <2>1, <2>2, <3>1 DEF ApplyWindow
    <3>3. /\ after.windows = now /\ DOMAIN after = DOMAIN feed
          /\ after.process = feed.process /\ after.resolution = feed.resolution
      BY <1>6, <3>2
    <3>4. \A i \in 1..l : now[i] \in ShownWin /\ now[i].index = held[i].index
      BY <1>4, <3>1
    <3>5. now \in Seq(ShownWin) /\ DOMAIN now = 1..l
      BY <3>1, <3>4
    <3>6. Increasing(held) => Increasing(now)
      BY <1>3, <3>4, <3>5 DEF Increasing
    <3>7. \A i \in DOMAIN now : now[i] = w \/ \E j \in 1..l : now[i] = held[j]
      BY <3>1
    <3> QED BY <1>7, <2>1, <3>3, <3>5, <3>6, <3>7
  <2>3. CASE ~(held # << >> /\ w.index <= Last(held).index)
    <3>1. PICK longer, now : longer = Append(held, w) /\ now = Trimmed(longer, MaxWindows)
      OBVIOUS
    <3>2. /\ after.windows = now /\ DOMAIN after = DOMAIN feed
          /\ after.process = feed.process /\ after.resolution = feed.resolution
      BY <1>1, <1>6, <2>1, <2>3, <3>1 DEF ApplyWindow, ApplyWindowAtEnd, Noted
    <3>3. /\ longer \in Seq(ShownWin) /\ DOMAIN longer = 1..(l + 1)
          /\ longer[l + 1] = w /\ \A i \in 1..l : longer[i] = held[i]
      BY <1>3, <1>4, <3>1
    <3>4. now \in Seq(ShownWin) /\ TailOf(now, longer)
      BY <3>1, <3>3, TrimmedIsTail, FeedSizes
    <3>5. PICK n \in Nat : DOMAIN now = 1..n
      BY <3>4, LenProperties
    <3>6. PICK d \in Nat : \A i \in 1..n : i + d \in 1..(l + 1) /\ now[i] = longer[i + d]
      BY <3>3, <3>4, <3>5 DEF TailOf
    <3>7. \A i \in DOMAIN now : now[i] = w \/ \E j \in 1..l : now[i] = held[j]
      <4> SUFFICES ASSUME NEW i \in 1..n PROVE now[i] = w \/ \E j \in 1..l : now[i] = held[j]
        BY <3>5
      <4>1. i + d = l + 1 \/ i + d \in 1..l
        BY <3>6
      <4> QED BY <3>3, <3>6, <4>1
    <3>8. ASSUME Increasing(held) PROVE Increasing(longer)
      <4>1. ASSUME NEW i \in 1..l PROVE held[i].index < w.index
        <5>1. l \in 1..l /\ held # << >> /\ Last(held) = held[l]
          BY <1>3, <1>4, EmptySeq DEF Last
        <5>2. held[l].index < w.index
          BY <1>4, <2>3, <5>1 DEF ShownWin
        <5>3. held[i].index \in Nat /\ held[l].index \in Nat /\ w.index \in Nat
          BY <1>4, <5>1 DEF ShownWin
        <5>4. i = l \/ held[i].index < held[l].index
          BY <1>3, <3>8, <5>1 DEF Increasing
        <5> QED BY <5>2, <5>3, <5>4
      <4>2. SUFFICES ASSUME NEW i \in 1..(l + 1), NEW j \in 1..(l + 1), i < j
                     PROVE  longer[i].index < longer[j].index
        BY <3>3 DEF Increasing
      <4>3. i \in 1..l /\ (j = l + 1 \/ j \in 1..l)
        BY <4>2
      <4> QED BY <1>3, <3>3, <3>8, <4>1, <4>2, <4>3 DEF Increasing
    <3>9. Increasing(held) => Increasing(now)
      <4> SUFFICES ASSUME Increasing(longer), NEW i \in 1..n, NEW j \in 1..n, i < j
                   PROVE  now[i].index < now[j].index
        BY <3>5, <3>8 DEF Increasing
      <4>1. i + d < j + d
        OBVIOUS
      <4> QED BY <3>3, <3>6, <4>1 DEF Increasing
    <3> QED BY <1>7, <2>1, <3>2, <3>4, <3>7, <3>9
  <2> QED BY <2>2, <2>3
<1>8. Holds(after)
  <2>1. ASSUME feed.resolution = "fine", NEW i \in DOMAIN now PROVE Kept(now[i].of, now[i])
    BY <1>5, <1>7, <2>1
  <2> QED BY <1>5, <1>7, <2>1 DEF Holds
<1>9. ASSUME OnlyOf(feed, w.of) PROVE OnlyOf(after, w.of)
  BY <1>1, <1>3, <1>7, <1>9 DEF OnlyOf
<1> QED BY <1>6, <1>7, <1>8, <1>9 DEF IsFeed

-----------------------------------------------------------------------------
(* The daemon's steps.                                                     *)

ProcsGrow ==
  \A p \in Processes :
    procs'[p].fine = procs[p].fine \/ Grows(procs[p].fine, procs'[p].fine)

LEMMA HoldsStays ==
  ASSUME ProcsGrow, NEW x, Holds(x)
  PROVE  Holds(x)'
<1>1. PICK l \in Nat : DOMAIN x.windows = 1..l
  BY LenProperties DEF Holds
<1>2. \A i \in 1..l : x.windows[i] \in ShownWin
  BY <1>1, ElementOfSeq DEF Holds
<1>3. ASSUME NEW i \in 1..l, Kept(x.windows[i].of, x.windows[i])
      PROVE  Kept(x.windows[i].of, x.windows[i])'
  <2>1. PICK p, w : p = x.windows[i].of /\ w = x.windows[i]
    OBVIOUS
  <2>2. p \in Processes /\ w.index \in Nat /\ Kept(p, w)
    BY <1>2, <1>3, <2>1 DEF ShownWin
  <2>3. procs'[p].fine = procs[p].fine \/ Grows(procs[p].fine, procs'[p].fine)
    BY <2>2 DEF ProcsGrow
  <2>4. Kept(p, w)'
    BY <2>2, <2>3, KeptStays
  <2> QED BY <2>1, <2>4 DEF Kept
<1> QED BY <1>1, <1>3 DEF Holds

\* A process goes on: its ring grows and its log gets longer by windows it has.
LEMMA ProcFollows ==
  ASSUME ProcsInv, NEW p \in Processes, NEW new, IsProc(new), procs' = [procs EXCEPT ![p] = new],
         new.fine = procs[p].fine \/ Grows(procs[p].fine, new.fine),
         NEW more \in Seq(Updates), new.log = procs[p].log \o more,
         \A i \in DOMAIN more : more[i].kind = "window" => Kept(p, more[i].window)
  PROVE  ProcsInv' /\ ProcsGrow
<1>1. DOMAIN procs = Processes /\ procs'[p] = new
      /\ \A q \in Processes \ {p} : procs'[q] = procs[q]
  BY DEF ProcsInv
<1>2. ProcsGrow
  BY <1>1 DEF ProcsGrow
<1>3. DOMAIN procs' = Processes /\ \A q \in Processes : IsProc(procs'[q])
  BY <1>1 DEF ProcsInv
<1>4. ASSUME NEW q \in Processes, NEW w, w \in Win, Kept(q, w) PROVE Kept(q, w)'
  <2>1. w.index \in Nat
    BY <1>4 DEF Win, WindowOf
  <2>2. procs'[q].fine = procs[q].fine \/ Grows(procs[q].fine, procs'[q].fine)
    BY <1>2 DEF ProcsGrow
  <2> QED BY <1>4, <2>1, <2>2, KeptStays
<1>5. ASSUME NEW q \in Processes, NEW u \in Updates, u.kind = "window" PROVE u.window \in Win
  BY <1>5 DEF Updates
<1>6. ASSUME NEW q \in Processes, q # p, NEW i \in DOMAIN procs'[q].log,
             procs'[q].log[i].kind = "window"
      PROVE  Kept(q, procs[q].log[i].window)'
  <2>1. PICK log \in Seq(Updates) : log = procs[q].log /\ log = procs'[q].log
    BY <1>1, <1>6 DEF ProcsInv, IsProc
  <2>2. PICK w : w = log[i].window
    OBVIOUS
  <2>3. log[i] \in Updates
    BY <1>6, <2>1, ElementOfSeq, LenProperties
  <2>4. w \in Win /\ Kept(q, w)
    BY <1>5, <1>6, <2>1, <2>2, <2>3 DEF ProcsInv
  <2>5. Kept(q, w)'
    BY <1>4, <2>4
  <2> QED BY <2>1, <2>2, <2>5 DEF Kept
<1>7. ASSUME NEW i \in DOMAIN new.log, new.log[i].kind = "window"
      PROVE  Kept(p, new.log[i].window)'
  <2>1. PICK log \in Seq(Updates) : log = procs[p].log
    BY DEF ProcsInv, IsProc
  <2>2. PICK l \in Nat, m \in Nat : /\ l = Len(log) /\ DOMAIN log = 1..l
                                   /\ m = Len(more) /\ DOMAIN more = 1..m
    BY <2>1, LenProperties
  <2>3. /\ DOMAIN new.log = 1..(l + m)
        /\ \A k \in 1..(l + m) : new.log[k] = IF k <= l THEN log[k] ELSE more[k - l]
    BY <2>1, <2>2, ConcatProperties, LenProperties
  <2>4. PICK w : w = new.log[i].window
    OBVIOUS
  <2>5. w \in Win /\ Kept(p, w)
    <3>1. CASE i <= l
      <4>1. i \in DOMAIN log /\ new.log[i] = log[i]
        BY <2>2, <2>3, <3>1
      <4>2. log[i] \in Updates
        BY <2>2, <4>1, ElementOfSeq
      <4> QED BY <1>5, <1>7, <2>1, <2>4, <4>1, <4>2 DEF ProcsInv
    <3>2. CASE ~(i <= l)
      <4>1. i - l \in DOMAIN more /\ new.log[i] = more[i - l]
        BY <2>2, <2>3, <3>2
      <4>2. more[i - l] \in Updates
        BY <2>2, <4>1, ElementOfSeq
      <4> QED BY <1>5, <1>7, <2>4, <4>1, <4>2
    <3> QED BY <3>1, <3>2
  <2>6. Kept(p, w)'
    BY <1>4, <2>5
  <2> QED BY <2>4, <2>6 DEF Kept
<1>8. ASSUME NEW q \in Processes, NEW i \in DOMAIN procs'[q].log,
             procs'[q].log[i].kind = "window"
      PROVE  Kept(q, procs[q].log[i].window)'
  BY <1>1, <1>6, <1>7, <1>8 DEF Kept
<1> QED BY <1>2, <1>3, <1>8 DEF ProcsInv

LEMMA SealedIsKept ==
  ASSUME ProcsInv, NEW p \in Processes, NEW closes
  PROVE  /\ Sealed(procs[p], closes) \in Seq(Updates)
         /\ \A i \in DOMAIN Sealed(procs[p], closes) :
              Sealed(procs[p], closes)[i].kind = "window"
                => Kept(p, Sealed(procs[p], closes)[i].window)
<1>1. PICK more : more = Sealed(procs[p], closes)
  OBVIOUS
<1>2. CASE closes /\ procs[p].open # None /\ Retains(procs[p].fine, procs[p].open)
  <2>1. PICK ring \in Seq(Win), index \in Nat : ring = procs[p].fine /\ index = procs[p].open
    BY <1>2 DEF ProcsInv, IsProc
  <2>2. Contiguous(ring) /\ Retains(ring, index)
    BY <1>2, <2>1 DEF ProcsInv, IsProc, IsRing
  <2>3. PICK k \in DOMAIN ring : k = Slot(ring, index)
    BY <2>1, <2>2, SlotHolds DEF Win
  <2>4. ring[k] \in Win /\ Kept(p, ring[k])
    <3>1. ring[k] \in Win
      BY <2>3, ElementOfSeq, LenProperties
    <3> QED BY <2>1, <2>2, <3>1, OwnWindowsKept
  <2>5. PICK u : u = Update("window", ring[k])
    OBVIOUS
  <2>6. u \in Updates /\ u.window = ring[k]
    BY <2>4, <2>5 DEF Update, Updates
  <2>7. more = <<u>>
    BY <1>1, <1>2, <2>1, <2>3, <2>5 DEF Sealed
  <2> QED BY <1>1, <2>4, <2>6, <2>7
<1>3. CASE ~(closes /\ procs[p].open # None /\ Retains(procs[p].fine, procs[p].open))
  <2>1. more = << >>
    BY <1>1, <1>3 DEF Sealed
  <2> QED BY <1>1, <2>1
<1> QED BY <1>2, <1>3

LEMMA FrameKeeps ==
  ASSUME ProcsInv, NEW p \in Processes, NEW t \in {procs[p].t, procs[p].t + 1},
         NEW f \in FunctionIds, Frame(p, t, f)
  PROVE  ProcsInv' /\ ProcsGrow
<1>1. PICK proc : proc = procs[p] /\ IsProc(proc)
  BY DEF ProcsInv
<1>2. t \in Nat
  BY <1>1 DEF IsProc
<1>3. PICK i \in Nat, j \in Nat : i = IndexOf(t, FineResolution) /\ j = IndexOf(t, CoarseResolution)
  BY <1>2, FeedSizes DEF IndexOf
<1>4. PICK fine : fine = Named(WindowFor(proc.fine, i, FineCapacity, {}), i, f)
  OBVIOUS
<1>5. PICK coarse : coarse = Named(WindowFor(proc.coarse, j, CoarseCapacity, {}), j, f)
  OBVIOUS
<1>6. /\ proc.fine \in Seq(Win) /\ IsRing(proc.fine, FineCapacity)
      /\ proc.coarse \in Seq(Win) /\ IsRing(proc.coarse, CoarseCapacity)
      /\ FineCapacity \in Nat \ {0} /\ CoarseCapacity \in Nat \ {0}
  BY <1>1, FeedSizes DEF IsProc
<1>7. fine \in Seq(Win) /\ IsRing(fine, FineCapacity) /\ Grows(proc.fine, fine)
  BY <1>4, <1>6, FrameGrows
<1>8. coarse \in Seq(Win) /\ IsRing(coarse, CoarseCapacity)
  BY <1>5, <1>6, FrameGrows
<1>9. PICK more : more = Sealed(proc, proc.open # i)
  OBVIOUS
<1>10. more \in Seq(Updates) /\ \A k \in DOMAIN more : more[k].kind = "window"
                                                     => Kept(p, more[k].window)
  BY <1>1, <1>9, SealedIsKept
<1>11. PICK new : new = [proc EXCEPT !.t = t, !.fine = fine, !.coarse = coarse, !.open = i,
                                     !.names = @ \cup {f}, !.log = @ \o more]
  OBVIOUS
<1>12. procs' = [procs EXCEPT ![p] = new]
  BY <1>1, <1>3, <1>4, <1>5, <1>9, <1>11 DEF Frame
<1>13. proc.log \o more \in Seq(Updates)
  BY <1>1, <1>10, ConcatProperties DEF IsProc
<1>14. IsProc(new) /\ new.fine = fine /\ new.log = proc.log \o more
  BY <1>1, <1>2, <1>7, <1>8, <1>11, <1>13 DEF IsProc
<1> QED BY <1>1, <1>7, <1>10, <1>12, <1>14, ProcFollows

LEMMA ComingKeeps ==
  ASSUME ProcsInv, NEW p \in Processes, Arrives(p) \/ Leaves(p)
  PROVE  ProcsInv' /\ ProcsGrow
<1>1. PICK proc : proc = procs[p] /\ IsProc(proc)
  BY DEF ProcsInv
<1>2. CASE Arrives(p)
  <2>1. PICK new, none : new = [proc EXCEPT !.known = TRUE, !.live = TRUE] /\ none = << >>
    OBVIOUS
  <2>2. procs' = [procs EXCEPT ![p] = new]
    BY <1>1, <1>2, <2>1 DEF Arrives, ProcsInv
  <2>3. IsProc(new) /\ new.fine = proc.fine /\ new.log = proc.log
    BY <1>1, <2>1 DEF IsProc
  <2>4. none \in Seq(Updates) /\ proc.log \o none = proc.log /\ DOMAIN none = {}
    BY <1>1, <2>1 DEF IsProc
  <2> QED BY <1>1, <2>2, <2>3, <2>4, ProcFollows
<1>3. CASE Leaves(p)
  <2>1. PICK sealed : sealed = Sealed(proc, TRUE)
    OBVIOUS
  <2>2. sealed \in Seq(Updates) /\ \A k \in DOMAIN sealed : sealed[k].kind = "window"
                                                          => Kept(p, sealed[k].window)
    BY <1>1, <2>1, SealedIsKept
  <2>3. PICK end : end = Update("process_ended", None)
    OBVIOUS
  <2>4. end \in Updates /\ end.kind # "window"
    BY <2>3 DEF Update, Updates
  <2>5. PICK more : more = sealed \o <<end>>
    OBVIOUS
  <2>6. PICK n \in Nat : n = Len(sealed) /\ DOMAIN sealed = 1..n
    BY <2>2, LenProperties
  <2>7. <<end>> \in Seq(Updates)
    BY <2>4
  <2>8. /\ more \in Seq(Updates) /\ DOMAIN more = 1..(n + 1)
        /\ \A k \in 1..(n + 1) : more[k] = IF k <= n THEN sealed[k] ELSE end
    <3>1. more = Append(sealed, end)
      BY <2>2, <2>4, <2>5
    <3> QED BY <2>2, <2>4, <2>6, <3>1
  <2>9. \A k \in DOMAIN more : more[k].kind = "window" => Kept(p, more[k].window)
    BY <2>2, <2>4, <2>6, <2>8
  <2>10. PICK new : new = [proc EXCEPT !.live = FALSE, !.open = None, !.log = @ \o more]
    OBVIOUS
  <2>11. (proc.log \o sealed) \o <<end>> = proc.log \o more
    <3>1. PICK log, last : log = proc.log /\ last = <<end>>
      OBVIOUS
    <3>2. log \in Seq(Updates) /\ sealed \in Seq(Updates) /\ last \in Seq(Updates)
      BY <1>1, <2>2, <2>7, <3>1 DEF IsProc
    <3>3. (log \o sealed) \o last = log \o (sealed \o last)
      BY ONLY <3>2, ConcatAssociative
    <3> QED BY <2>5, <3>1, <3>3
  <2>12. procs' = [procs EXCEPT ![p] = new]
    BY <1>1, <1>3, <2>1, <2>3, <2>10, <2>11 DEF Leaves, ProcsInv
  <2>13. proc.log \o more \in Seq(Updates)
    BY <1>1, <2>8, ConcatProperties DEF IsProc
  <2>14. IsProc(new) /\ new.fine = proc.fine /\ new.log = proc.log \o more
    BY <1>1, <2>10, <2>13 DEF IsProc
  <2> QED BY <1>1, <2>8, <2>9, <2>12, <2>14, ProcFollows
<1> QED BY <1>2, <1>3

-----------------------------------------------------------------------------
(* The page's steps.                                                       *)

SameFeeds ==
  /\ DOMAIN feeds' = DOMAIN feeds
  /\ \A n \in DOMAIN feeds : feeds'[n].process = feeds[n].process

\* What streams after a step streamed before it, onto the same processes.
NoNewStreams ==
  \A s \in Sockets : sockets'[s].phase = "open" =>
    /\ sockets[s].phase = "open" /\ DOMAIN sockets'[s].at = DOMAIN sockets[s].at
    /\ \A n \in DOMAIN sockets[s].at : sockets'[s].at[n].process = sockets[s].at[n].process

LEMMA StreamsStay ==
  ASSUME StreamsTheFeeds, NoNewStreams, SameFeeds, UNCHANGED history
  PROVE  StreamsTheFeeds'
BY DEF StreamsTheFeeds, NoNewStreams, SameFeeds, history

LEMMA ProcsStay ==
  ASSUME ProcsInv, UNCHANGED procs
  PROVE  ProcsInv' /\ ProcsGrow
BY DEF ProcsInv, ProcsGrow, Kept

LEMMA FeedsStay ==
  ASSUME ProcsGrow, NEW feed, IsFeed(feed)
  PROVE  IsFeed(feed)'
<1>1. Holds(feed) /\ DOMAIN feed = {"process", "windows", "names", "resolution", "unknown"}
  BY DEF IsFeed
<1>2. Holds(feed)'
  BY <1>1, HoldsStays
<1> QED BY <1>1, <1>2 DEF IsFeed

LEMMA FetchStays ==
  ASSUME ProcsGrow, SameFeeds, UNCHANGED attach_, NEW f, IsFetch(f),
         f.awaited => f.attach \in DOMAIN awaiting'
  PROVE  IsFetch(f)'
<1>1. ASSUME f.reply # None PROVE Holds(f.reply)' /\ OnlyOf(f.reply, f.process)'
  <2>1. PICK x : x = f.reply
    OBVIOUS
  <2>2. Holds(x) /\ OnlyOf(x, f.process)
    BY <1>1, <2>1 DEF IsFetch
  <2>3. Holds(x)'
    BY <2>2, HoldsStays
  <2> QED BY <2>1, <2>2, <2>3 DEF Holds, Kept, OnlyOf
<1> QED BY <1>1 DEF IsFetch, SameFeeds

LEMMA RequestedIsFetch ==
  ASSUME PageInv, SameFeeds, UNCHANGED attach_, NEW n \in DOMAIN feeds, NEW r
  PROVE  IsFetch(Fetch(attach_, n, feeds[n].process, r, FALSE))'
<1>1. PICK f : f = Fetch(attach_, n, feeds[n].process, r, FALSE)
  OBVIOUS
<1>2. IsFetch(f)'
  BY <1>1 DEF Fetch, IsFetch, SameFeeds, PageInv
<1>3. f = Fetch(attach_, n, feeds[n].process, r, FALSE)'
  BY <1>1 DEF Fetch, SameFeeds
<1> QED BY <1>2, <1>3

\* A step of the daemon is nothing to the page.
LEMMA DaemonKeeps ==
  ASSUME FeedInv, ProcsInv', ProcsGrow, UNCHANGED <<sockets, fetches, pageVars>>
  PROVE  FeedInv'
<1>1. PageInv /\ OneSocket /\ StreamsTheFeeds /\ OwnWindows
      /\ UNCHANGED <<sockets, fetches, view, feeds, awaiting, attach_, overtaken, crossed>>
  BY DEF FeedInv, pageVars, history
<1>2. SameFeeds
  BY <1>1 DEF SameFeeds
<1>3. ASSUME NEW n \in DOMAIN feeds PROVE IsFeed(feeds[n])'
  <2>1. PICK feed : feed = feeds[n] /\ IsFeed(feed)
    BY <1>1 DEF PageInv
  <2>2. IsFeed(feed)'
    BY <2>1, FeedsStay
  <2> QED BY <1>1, <2>1, <2>2
<1>4. ASSUME NEW f \in fetches PROVE IsFetch(f)'
  <2>1. IsFetch(f) /\ (f.awaited => f.attach \in DOMAIN awaiting')
    BY <1>1 DEF PageInv, IsFetch
  <2> QED BY <1>1, <1>2, <2>1, FetchStays
<1>5. PageInv'
  BY <1>1, <1>3, <1>4 DEF PageInv, IsSocket
<1>6. OneSocket' /\ StreamsTheFeeds' /\ OwnWindows'
  BY <1>1 DEF OneSocket, StreamsTheFeeds, OwnWindows, OnlyOf
<1> QED BY <1>5, <1>6 DEF FeedInv

\* A page's step that asks for snapshots at most, of the feeds it has.
LEMMA AskingKeeps ==
  ASSUME FeedInv, UNCHANGED <<procs, sockets, feeds, awaiting, attach_, history>>,
         UNCHANGED view.socket, DOMAIN view' = DOMAIN view,
         \A f \in fetches' : \/ f \in fetches
                             \/ \E n \in DOMAIN feeds : \E r :
                                  f = Fetch(attach_, n, feeds[n].process, r, FALSE)
  PROVE  FeedInv'
<1>1. PageInv /\ OneSocket /\ StreamsTheFeeds /\ OwnWindows /\ ProcsInv' /\ ProcsGrow
      /\ UNCHANGED <<overtaken, crossed>>
  BY ProcsStay DEF FeedInv, history
<1>2. SameFeeds
  BY DEF SameFeeds
<1>3. ASSUME NEW f \in fetches' PROVE IsFetch(f)'
  <2>1. CASE f \in fetches
    <3>1. IsFetch(f) /\ (f.awaited => f.attach \in DOMAIN awaiting')
      BY <1>1, <2>1 DEF PageInv, IsFetch
    <3> QED BY <1>1, <1>2, <3>1, FetchStays
  <2>2. CASE \E n \in DOMAIN feeds : \E r : f = Fetch(attach_, n, feeds[n].process, r, FALSE)
    <3>1. PICK n, r : n \in DOMAIN feeds /\ f = Fetch(attach_, n, feeds[n].process, r, FALSE)
      BY <2>2
    <3>2. IsFetch(Fetch(attach_, n, feeds[n].process, r, FALSE))'
      BY <1>1, <1>2, <3>1, RequestedIsFetch
    <3> QED BY <3>1, <3>2 DEF IsFetch, Fetch
  <2> QED BY <2>1, <2>2
<1>4. ASSUME NEW n \in DOMAIN feeds PROVE IsFeed(feeds[n])'
  <2>1. PICK feed : feed = feeds[n] /\ IsFeed(feed)
    BY <1>1 DEF PageInv
  <2>2. IsFeed(feed)'
    BY <1>1, <2>1, FeedsStay
  <2> QED BY <2>1, <2>2
<1>5. PageInv'
  BY <1>1, <1>3, <1>4 DEF PageInv, IsSocket
<1>6. OneSocket' /\ StreamsTheFeeds' /\ OwnWindows'
  BY <1>1 DEF OneSocket, StreamsTheFeeds, OwnWindows, OnlyOf
<1> QED BY <1>1, <1>5, <1>6 DEF FeedInv

LEMMA AnswerKeeps ==
  ASSUME FeedInv, NEW f \in fetches, Answer(f)
  PROVE  FeedInv'
<1>1. PageInv /\ OneSocket /\ StreamsTheFeeds /\ OwnWindows /\ ProcsInv' /\ ProcsGrow
      /\ UNCHANGED <<procs, sockets, view, feeds, awaiting, attach_, overtaken, crossed>>
  BY ProcsStay DEF FeedInv, Answer, pageVars, history
<1>2. SameFeeds
  BY <1>1 DEF SameFeeds
<1>3. PICK x, g : x = Snapshot(f.process, f.resolution) /\ g = [f EXCEPT !.reply = x]
  OBVIOUS
<1>4. fetches' = (fetches \ {f}) \cup {g}
  BY <1>3 DEF Answer
<1>5. Holds(x) /\ OnlyOf(x, f.process)
  BY <1>3, SnapshotHolds DEF FeedInv, Answer, Registered
<1>6. IsFetch(f)
  BY <1>1 DEF PageInv
<1>7. IsFetch(g)
  <2>1. /\ DOMAIN g = DOMAIN f /\ g.reply = x /\ g.attach = f.attach /\ g.feed = f.feed
        /\ g.process = f.process /\ g.awaited = f.awaited
    BY <1>3, <1>6 DEF IsFetch
  <2> QED BY <1>5, <1>6, <2>1 DEF IsFetch
<1>8. ASSUME NEW h \in fetches' PROVE IsFetch(h)'
  <2>1. IsFetch(h)
    BY <1>1, <1>4, <1>7 DEF PageInv
  <2>2. h.awaited => h.attach \in DOMAIN awaiting'
    BY <1>1, <2>1 DEF IsFetch
  <2> QED BY <1>1, <1>2, <2>1, <2>2, FetchStays
<1>9. ASSUME NEW n \in DOMAIN feeds PROVE IsFeed(feeds[n])'
  <2>1. PICK feed : feed = feeds[n] /\ IsFeed(feed)
    BY <1>1 DEF PageInv
  <2>2. IsFeed(feed)'
    BY <1>1, <2>1, FeedsStay
  <2> QED BY <1>1, <2>1, <2>2
<1>10. PageInv'
  BY <1>1, <1>8, <1>9 DEF PageInv, IsSocket
<1>11. OneSocket' /\ StreamsTheFeeds' /\ OwnWindows'
  BY <1>1 DEF OneSocket, StreamsTheFeeds, OwnWindows, OnlyOf
<1> QED BY <1>1, <1>10, <1>11 DEF FeedInv

\* Connecting is what a page without a socket does, once nothing is awaited.
LEMMA SettleKeeps ==
  ASSUME FeedInv, NEW f \in fetches, Settle(f), UNCHANGED <<procs, attach_, history>>,
         SameFeeds, \A n \in DOMAIN feeds : IsFeed(feeds[n])'
  PROVE  PageInv' /\ OneSocket' /\ StreamsTheFeeds'
<1>1. PageInv /\ OneSocket /\ StreamsTheFeeds /\ ProcsGrow /\ IsFetch(f)
      /\ UNCHANGED <<overtaken, crossed>>
  BY ProcsStay DEF FeedInv, PageInv, history
<1>3. fetches' = fetches \ {f}
  BY DEF Settle
<1>4. CASE f.awaited /\ ~Awaits(f.attach, f)
  <2>1. /\ Connect(awaiting[f.attach], FreeSockets)
        /\ awaiting' = Restrict(awaiting, DOMAIN awaiting \ {f.attach})
    BY <1>4 DEF Settle
  <2>2. PICK s0, conn : /\ s0 = Lowest(FreeSockets)
                        /\ conn = [phase |-> "connecting", id |-> awaiting[f.attach].id]
    OBVIOUS
  <2>3. sockets' = [sockets EXCEPT ![s0] = conn] /\ view' = [view EXCEPT !.socket = s0]
    BY <2>1, <2>2 DEF Connect
  <2>4. DOMAIN awaiting' = DOMAIN awaiting \ {f.attach}
    BY <2>1 DEF Restrict
  <2>5. DOMAIN sockets' = Sockets
        /\ \A s \in Sockets : sockets'[s] = IF s = s0 THEN conn ELSE sockets[s]
    BY <1>1, <2>3 DEF PageInv
  <2>6. \A s \in Sockets : IsSocket(sockets'[s])
    BY <1>1, <2>2, <2>5 DEF PageInv, IsSocket
  <2>7. ASSUME NEW g \in fetches \ {f} PROVE IsFetch(g)'
    <3>1. IsFetch(g)
      BY <1>1 DEF PageInv
    <3>2. g.awaited => g.attach # f.attach /\ g.attach \in DOMAIN awaiting
      BY <1>4, <3>1 DEF Awaits, IsFetch
    <3> QED BY <1>1, <2>4, <3>1, <3>2, FetchStays
  <2>8. DOMAIN view' = DOMAIN view /\ view'.socket = s0
    BY <1>1, <2>3 DEF PageInv
  <2>9. PageInv'
    BY <1>1, <1>3, <2>5, <2>6, <2>7, <2>8 DEF PageInv, SameFeeds
  <2>10. NoNewStreams
    BY <2>2, <2>5 DEF NoNewStreams
  <2>11. OneSocket'
    <3> SUFFICES ASSUME ~overtaken
                 PROVE  /\ \A s \in Sockets : sockets'[s].phase # "none" => view'.socket = s
                        /\ \A a \in DOMAIN awaiting' : FALSE
      BY <1>1 DEF OneSocket
    <3>1. f.attach \in DOMAIN awaiting
      BY <1>1, <1>4 DEF IsFetch
    <3>2. view.socket = None /\ \A a \in DOMAIN awaiting : a = f.attach
      BY <1>1, <3>1 DEF OneSocket
    <3>3. \A s \in Sockets : sockets[s].phase = "none"
      BY <1>1, <3>2, FeedSockets DEF OneSocket
    <3> QED BY <2>4, <2>5, <2>8, <3>2, <3>3
  <2> QED BY <1>1, <2>9, <2>10, <2>11, StreamsStay
<1>5. CASE ~(f.awaited /\ ~Awaits(f.attach, f))
  <2>1. UNCHANGED <<sockets, view, awaiting>>
    BY <1>5 DEF Settle
  <2>2. ASSUME NEW g \in fetches \ {f} PROVE IsFetch(g)'
    <3>1. IsFetch(g) /\ (g.awaited => g.attach \in DOMAIN awaiting')
      BY <1>1, <2>1 DEF PageInv, IsFetch
    <3> QED BY <1>1, <3>1, FetchStays
  <2>3. PageInv'
    BY <1>1, <1>3, <2>1, <2>2 DEF PageInv, SameFeeds, IsSocket
  <2>4. OneSocket' /\ NoNewStreams
    BY <1>1, <2>1 DEF OneSocket, NoNewStreams
  <2> QED BY <1>1, <2>3, <2>4, StreamsStay
<1> QED BY <1>4, <1>5

LEMMA FetchEndsKeeps ==
  ASSUME FeedInv, NEW f \in fetches, FetchArrives(f) \/ FetchFails(f)
  PROVE  FeedInv'
<1>1. /\ ProcsInv' /\ ProcsGrow /\ IsFetch(f) /\ \A n \in DOMAIN feeds : IsFeed(feeds[n])
      /\ OwnWindows /\ Settle(f) /\ UNCHANGED <<procs, attach_, history>>
  BY ProcsStay DEF FeedInv, PageInv, FetchArrives, FetchFails
<1>2. CASE FetchArrives(f) /\ f.attach = attach_
  <2>1. PICK x, n : x = f.reply /\ n = f.feed
    OBVIOUS
  <2>2. /\ n \in DOMAIN feeds /\ f.process = feeds[n].process
        /\ Holds(x) /\ OnlyOf(x, feeds[n].process)
    BY <1>1, <1>2, <2>1 DEF IsFetch, FetchArrives
  <2>3. PICK after : after = ApplySnapshot(feeds[n], x)
    OBVIOUS
  <2>4. feeds' = [feeds EXCEPT ![n] = after]
    BY <1>2, <2>1, <2>3 DEF FetchArrives
  <2>5. IsFeed(after) /\ after.process = feeds[n].process /\ OnlyOf(after, feeds[n].process)
    <3>1. IsFeed(feeds[n])
      BY <1>1, <2>2
    <3> QED BY <2>2, <2>3, <3>1, ApplySnapshotHolds
  <2>6. DOMAIN feeds' = DOMAIN feeds
        /\ \A m \in DOMAIN feeds : feeds'[m] = IF m = n THEN after ELSE feeds[m]
    BY <2>4
  <2>7. SameFeeds
    BY <2>5, <2>6 DEF SameFeeds
  <2>8. ASSUME NEW m \in DOMAIN feeds PROVE IsFeed(feeds[m])'
    <3>1. PICK feed : feed = feeds'[m] /\ IsFeed(feed)
      BY <1>1, <2>5, <2>6
    <3>2. IsFeed(feed)'
      BY <1>1, <3>1, FeedsStay
    <3> QED BY <3>1, <3>2
  <2>9. OwnWindows'
    BY <1>1, <2>5, <2>6 DEF OwnWindows, OnlyOf, history
  <2> QED BY <1>1, <2>7, <2>8, <2>9, SettleKeeps DEF FeedInv
<1>3. CASE feeds' = feeds
  <2>1. SameFeeds
    BY <1>3 DEF SameFeeds
  <2>2. ASSUME NEW m \in DOMAIN feeds PROVE IsFeed(feeds[m])'
    <3>1. PICK feed : feed = feeds[m] /\ IsFeed(feed)
      BY <1>1
    <3>2. IsFeed(feed)'
      BY <1>1, <3>1, FeedsStay
    <3> QED BY <1>3, <3>1, <3>2
  <2>3. OwnWindows'
    BY <1>1, <1>3 DEF OwnWindows, OnlyOf, history
  <2> QED BY <1>1, <2>1, <2>2, <2>3, SettleKeeps DEF FeedInv
<1> QED BY <1>2, <1>3 DEF FetchArrives, FetchFails

\* Attaching closes the page's socket and begins with feeds that hold nothing.
LEMMA AttachKeeps ==
  ASSUME FeedInv, NEW session, Attach(session), UNCHANGED procs
  PROVE  FeedInv'
<1>1. PageInv /\ OneSocket /\ ProcsInv' /\ ProcsGrow
  BY ProcsStay DEF FeedInv
<1>2. PICK shape : shape = ShapeOf(session)
  OBVIOUS
<1>3. /\ CloseSocket
      /\ view' = [view EXCEPT !.session = session, !.socket = None, !.fallback = FALSE]
      /\ attach_' = attach_ + 1
      /\ overtaken' = (overtaken \/ awaiting # << >>) /\ crossed' = FALSE
      /\ feeds' = [n \in DOMAIN shape |-> NewFeed(shape[n])]
      /\ fetches' = fetches \cup
            {Fetch(attach_', n, shape[n], view.resolution, TRUE) : n \in DOMAIN shape}
      /\ awaiting' = [a \in DOMAIN awaiting \cup {attach_'} |->
                         IF a = attach_' THEN session ELSE awaiting[a]]
  BY <1>2 DEF Attach
<1>4. attach_ \in Nat /\ attach_' \in Nat
  BY <1>1, <1>3 DEF PageInv
<1>5. DOMAIN view' = DOMAIN view /\ view'.socket = None
  BY <1>1, <1>3 DEF PageInv
<1>6. DOMAIN awaiting' = DOMAIN awaiting \cup {attach_'}
  BY <1>3
<1>7. ASSUME NEW n \in DOMAIN shape
      PROVE  /\ DOMAIN feeds'[n] = {"process", "windows", "names", "resolution", "unknown"}
             /\ feeds'[n].process = shape[n] /\ feeds'[n].windows = << >>
  BY <1>3 DEF NewFeed
<1>8. ASSUME NEW n \in DOMAIN shape PROVE IsFeed(feeds[n])'
  <2>1. << >> \in Seq(ShownWin) /\ DOMAIN << >> = {}
    OBVIOUS
  <2> QED BY <1>7, <2>1 DEF IsFeed, Holds, Increasing
<1>9. ASSUME NEW f \in fetches PROVE IsFetch(f)'
  <2>1. IsFetch(f)
    BY <1>1 DEF PageInv
  <2>2. f.attach # attach_' /\ f.attach <= attach_'
    BY <1>3, <1>4, <2>1 DEF IsFetch
  <2>3. ASSUME f.reply # None PROVE Holds(f.reply)' /\ OnlyOf(f.reply, f.process)'
    <3>1. PICK x : x = f.reply
      OBVIOUS
    <3>2. Holds(x) /\ OnlyOf(x, f.process)
      BY <2>1, <2>3, <3>1 DEF IsFetch
    <3>3. Holds(x)'
      BY <1>1, <3>2, HoldsStays
    <3> QED BY <3>1, <3>2, <3>3 DEF Holds, Kept, OnlyOf
  <2> QED BY <1>6, <2>1, <2>2, <2>3 DEF IsFetch
<1>10. ASSUME NEW n \in DOMAIN shape
       PROVE  IsFetch(Fetch(attach_, n, shape[n], view.resolution, TRUE))'
  <2>1. PICK f : f = Fetch(attach_, n, shape[n], view.resolution, TRUE)'
    OBVIOUS
  <2>2. /\ DOMAIN f = {"attach", "feed", "process", "resolution", "awaited", "reply"}
        /\ f.attach = attach_' /\ f.feed = n /\ f.process = shape[n] /\ f.awaited
        /\ f.awaited \in BOOLEAN /\ f.reply = None
    BY <2>1 DEF Fetch
  <2>3. n \in DOMAIN feeds' /\ feeds'[n].process = shape[n]
    BY <1>3, <1>7
  <2>4. IsFetch(f)'
    BY <1>4, <1>6, <2>2, <2>3 DEF IsFetch
  <2> QED BY <2>1, <2>4
<1>11. view'.resolution = view.resolution
  BY <1>1, <1>3 DEF PageInv
<1>12. ASSUME NEW f \in fetches' PROVE IsFetch(f)'
  BY <1>3, <1>9, <1>10, <1>11
<1>13. /\ DOMAIN sockets' = Sockets
       /\ \A s \in Sockets : /\ sockets'[s] = sockets[s] \/ sockets'[s] = NoSocket
                             /\ s = view.socket => sockets'[s] = NoSocket
  BY <1>1, <1>3, FeedSockets DEF CloseSocket, PageInv
<1>14. \A s \in Sockets : IsSocket(sockets'[s])
  BY <1>1, <1>13 DEF PageInv, IsSocket, NoSocket
<1>15. PageInv'
  BY <1>1, <1>3, <1>4, <1>5, <1>8, <1>12, <1>13, <1>14 DEF PageInv
<1>16. ~overtaken' => \A s \in Sockets : sockets'[s].phase = "none"
  <2> SUFFICES ASSUME ~overtaken', NEW s \in Sockets PROVE sockets'[s].phase = "none"
    OBVIOUS
  <2>1. sockets[s].phase = "none" \/ s = view.socket
    BY <1>1, <1>3 DEF OneSocket
  <2> QED BY <1>13, <2>1 DEF NoSocket
<1>17. ~overtaken' => \A a \in DOMAIN awaiting' : a = attach_'
  <2>1. ~overtaken' => awaiting = << >>
    BY <1>3
  <2>2. DOMAIN << >> = {}
    OBVIOUS
  <2> QED BY <1>6, <2>1, <2>2
<1>18. OneSocket' /\ StreamsTheFeeds'
  BY <1>5, <1>16, <1>17 DEF OneSocket, StreamsTheFeeds
<1>19. OwnWindows'
  BY <1>3, <1>7 DEF OwnWindows, OnlyOf
<1> QED BY <1>1, <1>15, <1>18, <1>19 DEF FeedInv

\* A step of one socket that leaves what the feeds hold as it is.
LEMMA SocketKeeps ==
  ASSUME FeedInv, UNCHANGED <<procs, fetches, feeds, awaiting, attach_, overtaken>>,
         NEW s \in Sockets, NEW x, sockets' = [sockets EXCEPT ![s] = x], IsSocket(x),
         x.phase # "none" => sockets[s].phase # "none",
         DOMAIN view' = DOMAIN view, UNCHANGED view.socket,
         crossed => crossed',
         x.phase = "open" /\ ~(overtaken \/ crossed') =>
           \A n \in DOMAIN x.at \cap DOMAIN feeds : x.at[n].process = feeds[n].process
  PROVE  FeedInv'
<1>1. PageInv /\ OneSocket /\ StreamsTheFeeds /\ OwnWindows /\ ProcsInv' /\ ProcsGrow
  BY ProcsStay DEF FeedInv
<1>2. SameFeeds
  BY DEF SameFeeds
<1>3. ASSUME NEW f \in fetches PROVE IsFetch(f)'
  <2>1. IsFetch(f) /\ (f.awaited => f.attach \in DOMAIN awaiting')
    BY <1>1 DEF PageInv, IsFetch
  <2> QED BY <1>1, <1>2, <2>1, FetchStays
<1>4. ASSUME NEW n \in DOMAIN feeds PROVE IsFeed(feeds[n])'
  <2>1. PICK feed : feed = feeds[n] /\ IsFeed(feed)
    BY <1>1 DEF PageInv
  <2>2. IsFeed(feed)'
    BY <1>1, <2>1, FeedsStay
  <2> QED BY <2>1, <2>2
<1>5. DOMAIN sockets' = Sockets
      /\ \A r \in Sockets : sockets'[r] = IF r = s THEN x ELSE sockets[r]
  BY <1>1 DEF PageInv
<1>6. \A r \in Sockets : IsSocket(sockets'[r])
  BY <1>1, <1>5 DEF PageInv
<1>7. PageInv'
  BY <1>1, <1>3, <1>4, <1>5, <1>6 DEF PageInv
<1>8. OneSocket'
  BY <1>1, <1>5 DEF OneSocket
<1>9. StreamsTheFeeds'
  BY <1>1, <1>5 DEF StreamsTheFeeds
<1>10. OwnWindows'
  BY <1>1 DEF OwnWindows, OnlyOf
<1> QED BY <1>1, <1>7, <1>8, <1>9, <1>10 DEF FeedInv

LEMMA AcceptKeeps ==
  ASSUME FeedInv, NEW s \in Sockets, Accept(s)
  PROVE  FeedInv'
<1>1. PICK halves : halves = Halves(sockets[s].id)
  OBVIOUS
<1>2. PICK x : x = [phase |-> "open", id |-> sockets[s].id,
                    at |-> [n \in DOMAIN halves |->
                              [process |-> halves[n], cursor |-> Len(procs[halves[n]].log)]]]
  OBVIOUS
<1>3. /\ sockets' = [sockets EXCEPT ![s] = x] /\ sockets[s].phase = "connecting"
      /\ halves # << >> /\ view' = [view EXCEPT !.fallback = FALSE]
      /\ crossed' = (crossed \/ halves # [n \in DOMAIN feeds |-> feeds[n].process])
      /\ UNCHANGED <<procs, fetches, feeds, awaiting, attach_, overtaken>>
  BY <1>1, <1>2 DEF Accept
<1>4. \A n \in DOMAIN halves : halves[n] \in Processes
  BY <1>1, <1>3 DEF Halves, Restrict, Registered
<1>5. ASSUME NEW n \in DOMAIN halves PROVE x.at[n] \in [process: Processes, cursor: Nat]
  <2>1. procs[halves[n]].log \in Seq(Updates)
    BY <1>4 DEF FeedInv, ProcsInv, IsProc
  <2> QED BY <1>2, <1>4, <2>1, LenProperties
<1>6. x.phase = "open" /\ DOMAIN x = {"phase", "id", "at"} /\ DOMAIN x.at = DOMAIN halves
      /\ \A n \in DOMAIN halves : x.at[n].process = halves[n]
  BY <1>2
<1>7. IsSocket(x)
  BY <1>5, <1>6 DEF IsSocket
<1>8. DOMAIN view' = DOMAIN view /\ view'.socket = view.socket
  BY <1>3 DEF FeedInv, PageInv
<1>9. ASSUME ~crossed'
      PROVE  \A n \in DOMAIN x.at \cap DOMAIN feeds : x.at[n].process = feeds[n].process
  <2>1. halves = [n \in DOMAIN feeds |-> feeds[n].process]
    BY <1>3, <1>9
  <2> QED BY <1>6, <2>1
<1>10. crossed => crossed'
  BY <1>3
<1> QED BY <1>3, <1>6, <1>7, <1>8, <1>9, <1>10, SocketKeeps

\* The end of a connection, and the next one of the same socket.
LEMMA EndsKeeps ==
  ASSUME FeedInv, NEW s \in Sockets, Refuse(s) \/ SocketDrops(s) \/ Reconnect(s)
  PROVE  FeedInv'
<1>1. UNCHANGED <<procs, fetches, feeds, awaiting, attach_, overtaken, crossed>>
  BY DEF Refuse, SocketDrops, Reconnect, history
<1>2. CASE Refuse(s) \/ SocketDrops(s)
  <2>1. PICK x : x = IF view.socket = s THEN [phase |-> "over", id |-> sockets[s].id] ELSE NoSocket
    OBVIOUS
  <2>2. sockets' = [sockets EXCEPT ![s] = x] /\ sockets[s].phase # "none"
    BY <1>2, <2>1 DEF Refuse, SocketDrops, Ends
  <2>3. IsSocket(x) /\ x.phase # "open"
    BY <2>1 DEF IsSocket, NoSocket
  <2>4. DOMAIN view' = DOMAIN view /\ view'.socket = view.socket
    BY <1>2 DEF Refuse, SocketDrops, Ends, FeedInv, PageInv
  <2> QED BY <1>1, <2>2, <2>3, <2>4, SocketKeeps
<1>3. CASE Reconnect(s)
  <2>1. PICK x : x = [phase |-> "connecting", id |-> view.session.id]
    OBVIOUS
  <2>2. Lowest({s}) = s
    BY FeedSockets DEF Lowest
  <2>3. /\ sockets' = [sockets EXCEPT ![s] = x] /\ view' = [view EXCEPT !.socket = s]
        /\ view.socket = s /\ sockets[s].phase = "over"
    BY <1>3, <2>1, <2>2 DEF Reconnect, Connect
  <2>4. IsSocket(x) /\ x.phase # "open" /\ sockets[s].phase # "none"
    BY <2>1, <2>3 DEF IsSocket
  <2>5. DOMAIN view' = DOMAIN view /\ view'.socket = view.socket
    BY <2>3 DEF FeedInv, PageInv
  <2> QED BY <1>1, <2>3, <2>4, <2>5, SocketKeeps
<1> QED BY <1>2, <1>3

\* One stream moves on in its process's log.
MovesOn(s, x) ==
  /\ sockets' = [sockets EXCEPT ![s] = x] /\ IsSocket(x) /\ x.phase = "open"
  /\ DOMAIN x.at = DOMAIN sockets[s].at
  /\ \A m \in DOMAIN x.at : x.at[m].process = sockets[s].at[m].process

LEMMA SkipKeeps ==
  ASSUME PageInv, NEW s \in Sockets, sockets[s].phase = "open", NEW n \in DOMAIN sockets[s].at,
         NEW by \in Nat, Skips(s, n, by)
  PROVE  \E x : MovesOn(s, x)
<1>1. PICK old : old = sockets[s] /\ IsSocket(old)
  BY DEF PageInv
<1>2. PICK half : half = [old.at[n] EXCEPT !.cursor = @ + by]
  OBVIOUS
<1>3. PICK at : at = [old.at EXCEPT ![n] = half]
  OBVIOUS
<1>4. PICK x : x = [old EXCEPT !.at = at]
  OBVIOUS
<1>5. sockets' = [sockets EXCEPT ![s] = x]
  BY <1>1, <1>2, <1>3, <1>4 DEF Skips
<1>6. DOMAIN old = {"phase", "id", "at"}
      /\ \A m \in DOMAIN old.at : old.at[m] \in [process: Processes, cursor: Nat]
  BY <1>1 DEF IsSocket
<1>7. half \in [process: Processes, cursor: Nat] /\ half.process = old.at[n].process
  BY <1>1, <1>2, <1>6
<1>8. /\ DOMAIN x = {"phase", "id", "at"} /\ x.phase = "open" /\ x.at = at
      /\ DOMAIN at = DOMAIN old.at
      /\ \A m \in DOMAIN old.at : at[m] = IF m = n THEN half ELSE old.at[m]
  BY <1>1, <1>3, <1>4, <1>6
<1>9. IsSocket(x)
  BY <1>6, <1>7, <1>8 DEF IsSocket
<1>10. MovesOn(s, x)
  BY <1>1, <1>5, <1>7, <1>8, <1>9 DEF MovesOn
<1> QED BY <1>10

LEMMA LagKeeps ==
  ASSUME FeedInv, NEW s \in Sockets, sockets[s].phase = "open", NEW n \in DOMAIN sockets[s].at,
         Lag(s, n)
  PROVE  FeedInv'
<1>1. PICK p, log : p = sockets[s].at[n].process /\ log = procs[p].log
  OBVIOUS
<1>2. sockets[s].at[n] \in [process: Processes, cursor: Nat]
  BY DEF FeedInv, PageInv, IsSocket
<1>3. log \in Seq(Updates)
  BY <1>1, <1>2 DEF FeedInv, ProcsInv, IsProc
<1>4. PICK l \in Nat, c \in Nat : l = Len(log) /\ c = sockets[s].at[n].cursor
  BY <1>2, <1>3, LenProperties
<1>5. Behind(s, n) = l - c /\ UpdateBacklog \in Nat
  BY <1>1, <1>4, FeedSizes DEF Behind
<1>6. PICK by \in Nat : by = Behind(s, n) - UpdateBacklog
  BY <1>5 DEF Lag
<1>7. Skips(s, n, by)
  BY <1>6 DEF Lag
<1>8. PICK x : MovesOn(s, x)
  BY <1>7, SkipKeeps DEF FeedInv
<1>9. UNCHANGED <<procs, fetches, feeds, view, awaiting, attach_, overtaken, crossed>>
  BY DEF Lag, pageVars, history
<1>10. ASSUME ~(overtaken \/ crossed')
       PROVE  \A m \in DOMAIN x.at \cap DOMAIN feeds : x.at[m].process = feeds[m].process
  BY <1>8, <1>9, <1>10 DEF FeedInv, StreamsTheFeeds, MovesOn
<1> QED BY <1>8, <1>9, <1>10, SocketKeeps DEF MovesOn

\* A reader that is behind has a next update to read.
LEMMA NextIsThere ==
  ASSUME NEW l \in Nat, NEW c \in Nat, NEW n \in Nat, l - c \in 1..n
  PROVE  c + 1 \in 1..l
OBVIOUS

\* An update delivered is one of its process's log, and a window of it one that process has.
LEMMA UpdateIsKept ==
  ASSUME ProcsInv, PageInv, NEW s \in Sockets, sockets[s].phase = "open",
         NEW n \in DOMAIN sockets[s].at, Behind(s, n) \in 1..UpdateBacklog,
         NEW p, p = sockets[s].at[n].process,
         NEW u, u = procs[p].log[sockets[s].at[n].cursor + 1], u.kind = "window"
  PROVE  p \in Processes /\ Shown(p, u.window) \in ShownWin /\ Kept(p, Shown(p, u.window))
<1>1. sockets[s].at[n] \in [process: Processes, cursor: Nat]
  BY DEF PageInv, IsSocket
<1>2. PICK log \in Seq(Updates), c \in Nat : /\ log = procs[p].log /\ p \in Processes
                                             /\ c = sockets[s].at[n].cursor
  BY <1>1 DEF ProcsInv, IsProc
<1>3. PICK l \in Nat : l = Len(log) /\ DOMAIN log = 1..l
  BY LenProperties
<1>4. l - c \in 1..UpdateBacklog
  BY <1>2, <1>3 DEF Behind
<1>5. c + 1 \in 1..l /\ u = log[c + 1]
  <2>1. UpdateBacklog \in Nat
    BY FeedSizes
  <2>2. c + 1 \in 1..l
    BY <1>4, <2>1, NextIsThere, Zenon
  <2>3. u = procs[sockets[s].at[n].process].log[sockets[s].at[n].cursor + 1]
    BY Zenon
  <2>4. procs[sockets[s].at[n].process].log = log /\ sockets[s].at[n].cursor = c
    BY <1>2, Zenon
  <2> QED BY <2>2, <2>3, <2>4, Zenon
<1>6. u \in Updates /\ Kept(p, u.window)
  BY <1>2, <1>3, <1>5, ElementOfSeq DEF ProcsInv
<1>7. u.window \in Win
  BY <1>6 DEF Updates
<1> QED BY <1>2, <1>6, <1>7 DEF Shown, Kept, Win, WindowOf, ShownWin

LEMMA DeliverKeeps ==
  ASSUME FeedInv, NEW s \in Sockets, sockets[s].phase = "open", NEW n \in DOMAIN sockets[s].at,
         Deliver(s, n)
  PROVE  FeedInv'
<1>1. /\ PageInv /\ OneSocket /\ StreamsTheFeeds /\ OwnWindows /\ ProcsInv
      /\ ProcsInv' /\ ProcsGrow
      /\ UNCHANGED <<procs, view, awaiting, attach_, overtaken, crossed>>
  BY ProcsStay DEF FeedInv, Deliver, history
<1>2. PICK p, u : p = sockets[s].at[n].process /\ u = procs[p].log[sockets[s].at[n].cursor + 1]
  OBVIOUS
<1>3. PICK m : m = SessionStreamMessage(n, p, u)
  OBVIOUS
<1>4. /\ Behind(s, n) \in 1..UpdateBacklog /\ Skips(s, n, 1) /\ OnMessage(m)
  BY <1>2, <1>3 DEF Deliver
<1>5. /\ m.feed = n /\ m.message.kind = u.kind
      /\ u.kind = "window" => m.message.window = Shown(p, u.window)
  BY <1>3 DEF SessionStreamMessage, StreamMessage, Update
<1>6. PICK x : MovesOn(s, x)
  BY <1>1, <1>4, SkipKeeps
<1>7. /\ DOMAIN sockets' = Sockets /\ sockets[s].phase = "open"
      /\ \A r \in Sockets : sockets'[r] = IF r = s THEN x ELSE sockets[r]
  BY <1>1, <1>6 DEF PageInv, MovesOn
<1>8. \A r \in Sockets : IsSocket(sockets'[r])
  BY <1>1, <1>6, <1>7 DEF PageInv, MovesOn
<1>9. NoNewStreams
  BY <1>6, <1>7 DEF NoNewStreams, MovesOn
<1>10. OneSocket'
  BY <1>1, <1>7 DEF OneSocket
<1>11. /\ SameFeeds /\ \A k \in DOMAIN feeds : IsFeed(feeds'[k])
       /\ ~(overtaken \/ crossed) => \A k \in DOMAIN feeds : OnlyOf(feeds'[k], feeds[k].process)
  <2>1. \A k \in DOMAIN feeds : IsFeed(feeds[k])
    BY <1>1 DEF PageInv
  <2>2. CASE feeds' = feeds
    BY <1>1, <2>1, <2>2 DEF SameFeeds, OwnWindows
  <2>3. CASE n \in DOMAIN feeds /\ u.kind = "window"
    <3>1. PICK w : w = Shown(p, u.window)
      OBVIOUS
    <3>2. w \in ShownWin /\ Kept(p, w) /\ w.of = p
      BY <1>1, <1>2, <1>4, <2>3, <3>1, UpdateIsKept DEF Shown
    <3>3. PICK feed, after : feed = feeds[n] /\ after = ApplyWindow(feed, w)
      OBVIOUS
    <3>4. feeds' = [feeds EXCEPT ![n] = after]
      BY <1>4, <1>5, <2>3, <3>1, <3>3 DEF OnMessage
    <3>5. /\ IsFeed(after) /\ after.process = feed.process
          /\ OnlyOf(feed, w.of) => OnlyOf(after, w.of)
      BY <2>1, <2>3, <3>2, <3>3, ApplyWindowHolds
    <3>6. DOMAIN feeds' = DOMAIN feeds
          /\ \A k \in DOMAIN feeds : feeds'[k] = IF k = n THEN after ELSE feeds[k]
      BY <3>4
    <3>7. ~(overtaken \/ crossed) => p = feed.process /\ OnlyOf(feed, feed.process)
      BY <1>1, <1>2, <1>7, <2>3, <3>3 DEF StreamsTheFeeds, OwnWindows
    <3> QED BY <1>1, <2>1, <3>2, <3>3, <3>5, <3>6, <3>7 DEF SameFeeds, OwnWindows
  <2> QED BY <1>4, <1>5, <2>2, <2>3 DEF OnMessage
<1>12. ASSUME NEW k \in DOMAIN feeds PROVE IsFeed(feeds[k])'
  <2>1. PICK feed : feed = feeds'[k] /\ IsFeed(feed)
    BY <1>11
  <2>2. IsFeed(feed)'
    BY <1>1, <2>1, FeedsStay
  <2> QED BY <2>1, <2>2
<1>13. ASSUME NEW f \in fetches' PROVE IsFetch(f)'
  <2>1. CASE f \in fetches
    <3>1. IsFetch(f) /\ (f.awaited => f.attach \in DOMAIN awaiting')
      BY <1>1, <2>1 DEF PageInv, IsFetch
    <3> QED BY <1>1, <1>11, <3>1, FetchStays
  <2>2. CASE f \notin fetches
    <3>1. n \in DOMAIN feeds /\ f \in LoadSnapshots({n})
      BY <1>4, <1>5, <1>13, <2>2 DEF OnMessage
    <3>2. PICK r : f = Fetch(attach_, n, feeds[n].process, r, FALSE)
      BY <3>1 DEF LoadSnapshots
    <3>3. IsFetch(Fetch(attach_, n, feeds[n].process, r, FALSE))'
      BY <1>1, <1>11, <3>1, RequestedIsFetch
    <3>4. f = Fetch(attach_, n, feeds[n].process, r, FALSE)'
      BY <1>1, <1>11, <3>1, <3>2 DEF SameFeeds, Fetch
    <3> QED BY <3>3, <3>4
  <2> QED BY <2>1, <2>2
<1>14. PageInv'
  BY <1>1, <1>7, <1>8, <1>11, <1>12, <1>13 DEF PageInv, SameFeeds
<1>15. StreamsTheFeeds'
  BY <1>1, <1>9, <1>11, StreamsStay DEF history
<1>16. OwnWindows'
  BY <1>1, <1>11 DEF OwnWindows, SameFeeds, OnlyOf
<1> QED BY <1>1, <1>10, <1>14, <1>15, <1>16 DEF FeedInv

-----------------------------------------------------------------------------
LEMMA FeedInvInit == Init => FeedInv
<1> SUFFICES ASSUME Init PROVE FeedInv
  OBVIOUS
<1>1. << >> \in Seq(Win) /\ << >> \in Seq(Updates) /\ DOMAIN << >> = {} /\ Len(<< >>) = 0
  OBVIOUS
<1>2. IsProc(Unknown)
  BY <1>1, FeedSizes DEF Unknown, IsProc, IsRing, Contiguous
<1>3. ProcsInv
  BY <1>1, <1>2 DEF Init, ProcsInv, Unknown
<1>4. PageInv
  BY <1>1 DEF Init, PageInv, IsSocket, NoSocket
<1>5. OneSocket /\ StreamsTheFeeds /\ OwnWindows
  BY <1>1 DEF Init, OneSocket, StreamsTheFeeds, OwnWindows, NoSocket
<1> QED BY <1>3, <1>4, <1>5 DEF FeedInv

\* The page's steps that attach to nothing and hear nothing.
LEMMA PageStepKeeps ==
  ASSUME FeedInv,
         \/ RefreshSessions \/ ListFails \/ FallbackPoll
         \/ (\E i \in DOMAIN sessions : UserChooses(sessions[i].id))
         \/ (\E r \in Resolutions : ChangeResolution(r))
  PROVE  FeedInv'
<1>1. DOMAIN view = {"session", "chosen", "resolution", "socket", "fallback"}
  BY DEF FeedInv, PageInv
<1>2. /\ UNCHANGED <<procs, sockets, feeds, awaiting, attach_, history>>
      /\ DOMAIN view' = DOMAIN view /\ UNCHANGED view.socket
  BY <1>1 DEF RefreshSessions, ListFails, FallbackPoll, UserChooses, ChangeResolution, pageVars
<1>3. ASSUME NEW f \in fetches'
      PROVE  \/ f \in fetches
             \/ \E n \in DOMAIN feeds : \E r : f = Fetch(attach_, n, feeds[n].process, r, FALSE)
  <2>1. CASE fetches' = fetches
    BY <2>1
  <2>2. CASE FallbackPoll
    BY <2>2 DEF FallbackPoll, Refetch, LoadSnapshots
  <2>3. ASSUME NEW r \in Resolutions, ChangeResolution(r), f \notin fetches
        PROVE  \E n \in DOMAIN feeds : f = Fetch(attach_, n, feeds[n].process, r, FALSE)
    <3>1. PICK g \in LoadSnapshots(DOMAIN feeds) : f = [g EXCEPT !.resolution = r]
      BY <2>3 DEF ChangeResolution
    <3>2. PICK n \in DOMAIN feeds :
            g = Fetch(attach_, n, feeds[n].process, view.resolution, FALSE)
      BY <3>1 DEF LoadSnapshots
    <3>3. f = Fetch(attach_, n, feeds[n].process, r, FALSE)
      BY <3>1, <3>2 DEF Fetch
    <3> QED BY <3>3
  <2> QED BY <2>1, <2>2, <2>3 DEF RefreshSessions, ListFails, UserChooses, pageVars
<1> QED BY <1>2, <1>3, AskingKeeps

LEMMA FeedInvNext ==
  ASSUME FeedInv, [Next]_vars
  PROVE  FeedInv'
<1>1. CASE Daemon
  <2>1. PICK p \in Processes :
          \/ \E t \in {procs[p].t, procs[p].t + 1}, f \in FunctionIds : Frame(p, t, f)
          \/ Arrives(p) \/ Leaves(p)
    BY <1>1 DEF Daemon
  <2>2. UNCHANGED <<sockets, fetches, pageVars>>
    BY <2>1 DEF Frame, Arrives, Leaves
  <2>3. ProcsInv' /\ ProcsGrow
    BY <2>1, FrameKeeps, ComingKeeps DEF FeedInv
  <2> QED BY <2>2, <2>3, DaemonKeeps
<1>2. CASE ListArrives
  <2>1. CASE UNCHANGED <<sockets, fetches, pageVars>>
    BY <1>2, <2>1, ProcsStay, DaemonKeeps DEF ListArrives, FeedInv
  <2>2. ASSUME NEW session, Attach(session) PROVE FeedInv'
    BY <1>2, <2>2, AttachKeeps DEF ListArrives
  <2>3. ASSUME NEW session, view' = [view EXCEPT !.session = session],
               UNCHANGED <<sockets, fetches, feeds, awaiting, attach_, history>>
        PROVE  FeedInv'
    <3>1. DOMAIN view' = DOMAIN view /\ UNCHANGED view.socket
      BY <2>3 DEF FeedInv, PageInv
    <3> QED BY <1>2, <2>3, <3>1, AskingKeeps DEF ListArrives
  <2> QED BY <1>2, <2>1, <2>2, <2>3 DEF ListArrives
<1>3. CASE \E f \in fetches : Answer(f) \/ FetchArrives(f) \/ FetchFails(f)
  BY <1>3, AnswerKeeps, FetchEndsKeeps
<1>4. ASSUME NEW s \in Sockets, Socket(s) \/ SocketDrops(s) PROVE FeedInv'
  BY <1>4, AcceptKeeps, EndsKeeps, DeliverKeeps, LagKeeps DEF Socket
<1>5. CASE UNCHANGED vars
  BY <1>5, ProcsStay, DaemonKeeps DEF vars, FeedInv
<1> QED BY <1>1, <1>2, <1>3, <1>4, <1>5, PageStepKeeps DEF Next, Page

LEMMA FeedInvAlways == Spec => []FeedInv
BY FeedInvInit, FeedInvNext, PTL DEF Spec

\* "One process's state" (feed.js:1): through every change of session, every callback
\* that comes late and every connection that drops, a feed holds windows of its own
\* process only, unless an attach overtook one still awaited (app.js:156-176) or the
\* session had another speaker when its stream was opened (server.rs:90-99).
THEOREM FeedsHoldTheirOwn == Spec => []OneProcessPerFeed
<1>1. FeedInv => OneProcessPerFeed
  BY DEF FeedInv, OwnWindows, OnlyOf, OneProcessPerFeed
<1> QED BY <1>1, FeedInvAlways, PTL

\* Whatever a snapshot and the stream both carry, and however late either comes, a fine
\* window stands once, in the order of time, and holds no more than the daemon's own
\* (feed.js:43-60).
THEOREM EachWindowStandsOnce == Spec => []NothingCountedTwice
<1>1. FeedInv => NothingCountedTwice
  <2> SUFFICES ASSUME FeedInv, NEW n \in DOMAIN feeds, feeds[n].resolution = "fine"
               PROVE  LET held == feeds[n].windows
                          ring == procs[feeds[n].process].fine
                      IN /\ Increasing(held)
                         /\ \A i \in DOMAIN held :
                              held[i].of = feeds[n].process /\ Retains(ring, held[i].index)
                                => held[i].data \subseteq Data(ring, held[i].index)
    BY DEF NothingCountedTwice, Increasing
  <2>1. Holds(feeds[n])
    BY DEF FeedInv, PageInv, IsFeed
  <2> QED BY <2>1 DEF Holds, Kept
<1> QED BY <1>1, FeedInvAlways, PTL
=============================================================================
