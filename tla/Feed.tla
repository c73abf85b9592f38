-------------------------------- MODULE Feed --------------------------------
(***************************************************************************)
(* From the daemon's processes to a web page: the HTTP and websocket       *)
(* surface (crates/lightwatch-daemon/src/server.rs, api.rs) and the page's *)
(* own state (web/app.js, feed.js).  The page is one thread, but every     *)
(* fetch, every socket event and every timer is a callback of its own, and *)
(* the daemon goes on between any two of them.                             *)
(*                                                                         *)
(* Store.tla has the processes in full.  Here one is what a client can     *)
(* tell of it: its frames come in the order of time, a frame is one call,  *)
(* and a window's data is the functions it names.                          *)
(***************************************************************************)
EXTENDS Ring, Sessions, FiniteSets, Functions

CONSTANTS
  Processes,                      \* 1..n, in the order of their ids
  TargetOf, SourceOf, StartOf,    \* what each one's hello says
  FunctionIds, None,
  FineResolution, FineCapacity, CoarseResolution, CoarseCapacity,
  UpdateBacklog,                  \* UPDATE_BACKLOG, updates a receiver may be behind
  MaxWindows,                     \* MAX_WINDOWS, held by the page
  Resolutions,                    \* what the user may ask for
  Sockets,                        \* bound: sockets alive at once, 1..n
  MaxFrames, MaxComings,          \* bounds: frames, arrivals and departures
  MaxTurns,                       \* bound: failures, and the user's choices
  MaxEvents                       \* bound: all of these together

ASSUME FeedSizes ==
  /\ {FineResolution, FineCapacity, CoarseResolution, CoarseCapacity,
      UpdateBacklog, MaxWindows} \subseteq Nat \ {0}
  /\ CoarseResolution % FineResolution = 0
  /\ Resolutions \subseteq {"fine", "coarse"}
ASSUME FeedSockets == Sockets \subseteq Nat /\ None \notin Sockets

VARIABLES
  procs,       \* per process: what the registry holds
  sessions,    \* what pair_sessions makes of the registry
  sockets,     \* the websockets
  list,        \* the session list on its way to the page, None; one at a time, a bound
  fetches,     \* snapshot requests under way
  view,        \* app.js's view: session, chosenId, resolution, socket, fallback
  feeds,       \* view.feeds
  awaiting,    \* per attach whose snapshots are awaited: its session
  attach_,     \* history: how many attaches there were
  overtaken,   \* history: an attach began while another was awaited
  crossed,     \* history: since the attach, a stream opened onto other processes
  spent        \* bounds: frames, comings, turns so far

history == <<overtaken, crossed>>
pageVars == <<view, feeds, awaiting, attach_, history>>
vars == <<procs, sessions, sockets, list, fetches, pageVars, spent>>

Unknown == [known |-> FALSE, live |-> FALSE, t |-> 0, fine |-> << >>, coarse |-> << >>,
            open |-> None, names |-> {}, log |-> << >>]
NoSocket == [phase |-> "none"]

Init ==
  /\ procs = [p \in Processes |-> Unknown] /\ sessions = << >>
  /\ sockets = [s \in Sockets |-> NoSocket]
  /\ list = None /\ fetches = {}
  /\ view = [session |-> None, chosen |-> None, resolution |-> "fine", socket |-> None,
             fallback |-> FALSE]
  /\ feeds = << >> /\ awaiting = << >> /\ attach_ = 0
  /\ overtaken = FALSE /\ crossed = FALSE
  /\ spent = [frames |-> 0, comings |-> 0, turns |-> 0]

Spend(what, max) ==
  /\ spent[what] < max /\ spent.frames + spent.comings + spent.turns < MaxEvents
  /\ spent' = [spent EXCEPT ![what] = @ + 1]

-----------------------------------------------------------------------------
(* The daemon's processes, as Store has them.                              *)

Update(kind, window) == [kind |-> kind, window |-> window]

\* The window a later frame puts out of reach, or a disconnect seals.
Sealed(proc, closes) ==
  IF closes /\ proc.open # None /\ Retains(proc.fine, proc.open)
    THEN <<Update("window", proc.fine[Slot(proc.fine, proc.open)])>> ELSE << >>

Named(ring, index, f) == [ring EXCEPT ![Slot(ring, index)].data = @ \cup {f}]

Frame(p, t, f) ==
  LET proc == procs[p]
      fineIndex == IndexOf(t, FineResolution)
      coarseIndex == IndexOf(t, CoarseResolution)
  IN
  /\ proc.live /\ t >= proc.t /\ Spend("frames", MaxFrames)
  /\ procs' = [procs EXCEPT ![p] = [proc EXCEPT
       !.t = t,
       !.fine = Named(WindowFor(@, fineIndex, FineCapacity, {}), fineIndex, f),
       !.coarse = Named(WindowFor(@, coarseIndex, CoarseCapacity, {}), coarseIndex, f),
       !.open = fineIndex,
       !.names = @ \cup {f},
       !.log = @ \o Sealed(proc, proc.open # fineIndex)]]
  /\ UNCHANGED <<sessions, sockets, list, fetches, pageVars>>

\* Recomputed per request in the code; only these two change what it reads.
Paired(procsNow) ==
  LET known == {p \in Processes : procsNow[p].known}
  IN PairSessions(
       [target \in {TargetOf[p] : p \in known} |->
          {Member(p, SourceOf[p], StartOf[p], procsNow[p].live) :
             p \in {q \in known : TargetOf[q] = target}}])

Arrives(p) ==
  /\ ~procs[p].live /\ Spend("comings", MaxComings)
  /\ procs' = [procs EXCEPT ![p].known = TRUE, ![p].live = TRUE]
  /\ sessions' = Paired(procs')
  /\ UNCHANGED <<sockets, list, fetches, pageVars>>

Leaves(p) ==
  /\ procs[p].live /\ Spend("comings", MaxComings)
  /\ procs' = [procs EXCEPT ![p].live = FALSE, ![p].open = None,
       ![p].log = @ \o Sealed(procs[p], TRUE) \o <<Update("process_ended", None)>>]
  /\ sessions' = Paired(procs')
  /\ UNCHANGED <<sockets, list, fetches, pageVars>>

\* The ids the registry has; it forgets none.
Registered == {p \in Processes : procs[p].known}

\* What the page is told of a process's window; of is history.
Shown(p, window) == [index |-> window.index, data |-> window.data, of |-> p]

\* GET /api/processes/{id}/snapshot: names, and the newest windows of one ring, the one
\* still open among them.
Snapshot(p, resolution) ==
  LET ring == IF resolution = "fine" THEN procs[p].fine ELSE procs[p].coarse
      recent == Trimmed(ring, MaxWindows)
  IN [resolution |-> resolution, names |-> procs[p].names,
      windows |-> [i \in DOMAIN recent |-> Shown(p, recent[i])]]

-----------------------------------------------------------------------------
(* feed.js.                                                                *)

NewFeed(p) == [process |-> p, windows |-> << >>, names |-> {}, resolution |-> "fine",
               unknown |-> {}]

ApplySnapshot(feed, snapshot) ==
  [feed EXCEPT !.resolution = snapshot.resolution, !.unknown = {},
               !.names = @ \cup snapshot.names, !.windows = snapshot.windows]

Noted(feed, window) == [feed EXCEPT !.unknown = @ \cup (window.data \ feed.names)]

\* Every window pushed goes to the end.
ApplyWindowAtEnd(feed, window) ==
  Noted([feed EXCEPT !.windows = Trimmed(Append(@, window), MaxWindows)], window)

\* A window held already is replaced by index, an older one not held is not taken.
ApplyWindow(feed, window) ==
  IF feed.windows # << >> /\ window.index <= Last(feed.windows).index
    THEN [feed EXCEPT !.windows =
            [i \in DOMAIN @ |-> IF @[i].index = window.index THEN window ELSE @[i]]]
    ELSE ApplyWindowAtEnd(feed, window)

NeedsNames(feed) == feed.unknown # {}

-----------------------------------------------------------------------------
(* app.js: fetches.                                                        *)

\* A request for the feed of one attach; awaited by the attach that made it or not.
Fetch(attach, feed, process, resolution, awaited) ==
  [attach |-> attach, feed |-> feed, process |-> process, resolution |-> resolution,
   awaited |-> awaited, reply |-> None]

LoadSnapshots(names) ==
  {Fetch(attach_, n, feeds[n].process, view.resolution, FALSE) : n \in names}

\* The daemon takes the snapshot while the request is under way; for an id it does not
\* have there is none, and the request fails.
Answer(f) ==
  /\ f.reply = None /\ f.process \in Registered
  /\ fetches' = (fetches \ {f}) \cup {[f EXCEPT !.reply = Snapshot(f.process, f.resolution)]}
  /\ UNCHANGED <<procs, sessions, sockets, list, pageVars, spent>>

FreeSockets == {s \in Sockets : sockets[s].phase = "none"}
Lowest(free) == CHOOSE s \in free : \A r \in free : s <= r

\* connect: the page's socket is now this one.
Connect(session, free) ==
  /\ free # {}
  /\ sockets' = [sockets EXCEPT ![Lowest(free)] = [phase |-> "connecting", id |-> session.id]]
  /\ view' = [view EXCEPT !.socket = Lowest(free)]

Awaits(attach, but) == \E g \in fetches \ {but} : g.attach = attach /\ g.awaited

\* The last of an attach's snapshots, whatever became of it, lets it connect, be it
\* still the newest attach or not.
Settle(f) ==
  /\ fetches' = fetches \ {f}
  /\ IF f.awaited /\ ~Awaits(f.attach, f)
       THEN /\ Connect(awaiting[f.attach], FreeSockets)
            /\ awaiting' = Restrict(awaiting, DOMAIN awaiting \ {f.attach})
       ELSE UNCHANGED <<sockets, view, awaiting>>

FetchArrives(f) ==
  /\ f.reply # None
  /\ Settle(f)
  /\ feeds' = IF f.attach = attach_ THEN [feeds EXCEPT ![f.feed] = ApplySnapshot(@, f.reply)]
              ELSE feeds
  /\ UNCHANGED <<procs, sessions, list, attach_, history, spent>>

\* "A snapshot that fails is not fatal."
FetchFails(f) ==
  /\ Spend("turns", MaxTurns)
  /\ Settle(f)
  /\ UNCHANGED <<procs, sessions, list, feeds, attach_, history>>

(* app.js: the session list, on a timer and after the user's choice.       *)

\* One list is under way at a time, which is a bound: the timer's interval outlasts a
\* request, and the user chooses while none is out.
RefreshSessions ==
  /\ list = None /\ list' = SessionList(sessions)
  /\ UNCHANGED <<procs, sessions, sockets, fetches, pageVars, spent>>

UserChooses(id) ==
  /\ list = None /\ Spend("turns", MaxTurns)
  /\ id # view.chosen /\ view' = [view EXCEPT !.chosen = id]
  /\ list' = SessionList(sessions)
  /\ UNCHANGED <<procs, sessions, sockets, fetches, feeds, awaiting, attach_, history>>

Refetch(names) == fetches' = fetches \cup LoadSnapshots(names)

\* The page's socket left to itself.
AttachLeavingSocket == UNCHANGED sockets

CloseSocket ==
  sockets' = IF view.socket = None THEN sockets ELSE [sockets EXCEPT ![view.socket] = NoSocket]

Attach(session) ==
  /\ CloseSocket
  /\ view' = [view EXCEPT !.session = session, !.socket = None, !.fallback = FALSE]
  /\ attach_' = attach_ + 1
  /\ overtaken' = (overtaken \/ awaiting # << >>) /\ crossed' = FALSE
  /\ LET shape == ShapeOf(session)
     IN /\ feeds' = [n \in DOMAIN shape |-> NewFeed(shape[n])]
        /\ fetches' = fetches \cup
             {Fetch(attach_', n, shape[n], view.resolution, TRUE) : n \in DOMAIN shape}
  /\ awaiting' = [a \in DOMAIN awaiting \cup {attach_'} |->
                    IF a = attach_' THEN session ELSE awaiting[a]]

\* chooseSession: attach where the emitters to follow are others than before.
ListArrives ==
  /\ list # None /\ list' = None
  /\ IF list = << >> THEN UNCHANGED <<sockets, fetches, pageVars>>
     ELSE LET session == Chosen(list, view.chosen)[1]
          IN IF view.session # None /\ ShapeOf(session) = ShapeOf(view.session)
               THEN /\ view' = [view EXCEPT !.session = session]
                    /\ UNCHANGED <<sockets, fetches, feeds, awaiting, attach_, history>>
               ELSE Attach(session)
  /\ UNCHANGED <<procs, sessions, spent>>

ListFails ==
  /\ list # None /\ Spend("turns", MaxTurns) /\ list' = None
  /\ UNCHANGED <<procs, sessions, sockets, fetches, pageVars>>

ChangeResolution(r) ==
  /\ r # view.resolution /\ fetches = {} /\ Spend("turns", MaxTurns)
  /\ view' = [view EXCEPT !.resolution = r]
  /\ fetches' = fetches \cup
       {[f EXCEPT !.resolution = r] : f \in LoadSnapshots(DOMAIN feeds)}
  /\ UNCHANGED <<procs, sessions, sockets, list, feeds, awaiting, attach_, history>>

\* This and the change above are made while no snapshot is under way, which is a bound:
\* both intervals outlast a request.
FallbackPoll ==
  /\ view.fallback /\ fetches = {} /\ Refetch(DOMAIN feeds)
  /\ UNCHANGED <<procs, sessions, sockets, list, pageVars, spent>>

-----------------------------------------------------------------------------
(* The socket, at both ends.                                               *)

Ends(s) ==
  /\ sockets' = [sockets EXCEPT
       ![s] = IF view.socket = s THEN [phase |-> "over", id |-> @.id] ELSE NoSocket]
  /\ view' = IF view.socket = s THEN [view EXCEPT !.fallback = TRUE] ELSE view

\* What a session id can be subscribed to: nothing where it names no session, or none
\* any more.
Halves(id) ==
  LET found == Find(sessions, id)
      shape == ShapeOf(found[1])
  IN IF found = << >> THEN << >>
     ELSE Restrict(shape, {n \in DOMAIN shape : shape[n] \in Registered})

\* session_stream: each half subscribes from here on; onopen.
Accept(s) ==
  LET halves == Halves(sockets[s].id)
  IN
  /\ sockets[s].phase = "connecting" /\ halves # << >>
  /\ sockets' = [sockets EXCEPT ![s] =
       [phase |-> "open", id |-> @.id,
        at |-> [n \in DOMAIN halves |->
                  [process |-> halves[n], cursor |-> Len(procs[halves[n]].log)]]]]
  /\ view' = [view EXCEPT !.fallback = FALSE]
  /\ crossed' = (crossed \/ halves # [n \in DOMAIN feeds |-> feeds[n].process])
  /\ UNCHANGED <<procs, sessions, list, fetches, feeds, awaiting, attach_, overtaken, spent>>

\* 404 before the upgrade.
Refuse(s) ==
  /\ sockets[s].phase = "connecting" /\ Halves(sockets[s].id) = << >>
  /\ Ends(s)
  /\ UNCHANGED <<procs, sessions, list, fetches, feeds, awaiting, attach_, history, spent>>

Behind(s, n) == Len(procs[sockets[s].at[n].process].log) - sockets[s].at[n].cursor

Skips(s, n, by) == sockets' = [sockets EXCEPT ![s].at[n].cursor = @ + by]

\* fan_in: a receiver that fell behind the backlog goes on from its oldest entry.
Lag(s, n) ==
  /\ Behind(s, n) > UpdateBacklog
  /\ Skips(s, n, Behind(s, n) - UpdateBacklog)
  /\ UNCHANGED <<procs, sessions, list, fetches, pageVars, spent>>

StreamMessage(p, update) ==
  IF update.kind = "window" THEN Update("window", Shown(p, update.window)) ELSE update

SessionStreamMessage(feed, p, update) ==
  [feed |-> feed, message |-> StreamMessage(p, update)]

\* onmessage: a window goes by the name of its feed alone.
OnMessage(m) ==
  IF m.feed \notin DOMAIN feeds THEN UNCHANGED <<feeds, fetches>>
  ELSE /\ feeds' = IF m.message.kind = "window"
                     THEN [feeds EXCEPT ![m.feed] = ApplyWindow(@, m.message.window)]
                     ELSE feeds
       /\ fetches' = IF NeedsNames(feeds'[m.feed])
                       THEN fetches \cup LoadSnapshots({m.feed}) ELSE fetches

\* fan_in: one update forwarded, and what the page does with it.
Deliver(s, n) ==
  LET process == sockets[s].at[n].process
      update == procs[process].log[sockets[s].at[n].cursor + 1]
  IN
  /\ Behind(s, n) \in 1..UpdateBacklog
  /\ Skips(s, n, 1)
  /\ OnMessage(SessionStreamMessage(n, process, update))
  /\ UNCHANGED <<procs, sessions, list, view, awaiting, attach_, history, spent>>

\* Either end, or what is between them, goes away.
SocketDrops(s) ==
  /\ sockets[s].phase \in {"connecting", "open"} /\ Spend("turns", MaxTurns)
  /\ Ends(s)
  /\ UNCHANGED <<procs, sessions, list, fetches, feeds, awaiting, attach_, history>>

\* The session of the first connection asked for again.
ReconnectToTheSame(s) ==
  /\ sockets[s].phase = "over" /\ view.socket = s
  /\ Connect([id |-> sockets[s].id], {s})
  /\ UNCHANGED <<procs, sessions, list, fetches, feeds, awaiting, attach_, history, spent>>

\* The timer of onclose: the session as the page knows it now.
Reconnect(s) ==
  /\ sockets[s].phase = "over" /\ view.socket = s
  /\ Connect(view.session, {s})
  /\ UNCHANGED <<procs, sessions, list, fetches, feeds, awaiting, attach_, history, spent>>

Socket(s) ==
  \/ Accept(s) \/ Refuse(s) \/ Reconnect(s)
  \/ sockets[s].phase = "open" /\ \E n \in DOMAIN sockets[s].at : Deliver(s, n) \/ Lag(s, n)

Daemon ==
  \E p \in Processes :
    \/ \E t \in {procs[p].t, procs[p].t + 1}, f \in FunctionIds : Frame(p, t, f)
    \/ Arrives(p) \/ Leaves(p)

Page ==
  \/ RefreshSessions \/ ListArrives \/ ListFails
  \/ \E i \in DOMAIN sessions : UserChooses(sessions[i].id)
  \/ \E r \in Resolutions : ChangeResolution(r)
  \/ FallbackPoll
  \/ \E f \in fetches : Answer(f) \/ FetchArrives(f) \/ FetchFails(f)

Next == Daemon \/ Page \/ \E s \in Sockets : Socket(s) \/ SocketDrops(s)

Spec == Init /\ [][Next]_vars

\* The daemon answers, the page's timers fire and its callbacks run.
FairSpec ==
  /\ Spec
  /\ WF_vars(RefreshSessions) /\ WF_vars(ListArrives)
  /\ WF_vars(\E f \in fetches : Answer(f) \/ FetchArrives(f))
  /\ \A s \in Sockets : WF_vars(Socket(s))
-----------------------------------------------------------------------------
\* "One process's state" (feed.js:1): a feed holds windows of its own process only,
\* through every change of session, unless an attach overtook one still awaited, whose
\* socket then opens beside the newer one's (app.js:156-176, 197-203), or the session
\* had another speaker by the time its stream was opened (server.rs:90-99).
OneProcessPerFeed ==
  ~(overtaken \/ crossed) =>
    \A n \in DOMAIN feeds : \A i \in DOMAIN feeds[n].windows :
      feeds[n].windows[i].of = feeds[n].process

\* On the fine axis every window stands once, in the order of time, and holds nothing
\* the daemon's own does not: no delta is counted twice, whatever a snapshot and the
\* stream both carry (feed.js:43-60).
NothingCountedTwice ==
  \A n \in DOMAIN feeds :
    LET held == feeds[n].windows
        ring == procs[feeds[n].process].fine
    IN feeds[n].resolution = "fine" =>
         /\ \A i, j \in DOMAIN held : i < j => held[i].index < held[j].index
         /\ \A i \in DOMAIN held :
              held[i].of = feeds[n].process /\ Retains(ring, held[i].index)
                => held[i].data \subseteq Data(ring, held[i].index)

Follows ==
  /\ view.socket # None /\ sockets[view.socket].phase = "open"
  /\ LET at == sockets[view.socket].at
     IN [n \in DOMAIN at |-> at[n].process] = ShapeOf(view.session)
  /\ \A n \in DOMAIN feeds :
       /\ feeds[n].process = ShapeOf(view.session)[n]
       /\ \A i \in DOMAIN feeds[n].windows : feeds[n].windows[i].of = feeds[n].process

\* Once programs stop coming and going, the page ends up streaming the emitters of the
\* session it shows and holding only their windows, through a session id that changes
\* under it, a half that joins and a connection that drops (app.js:131-140, 205-211;
\* API.md:318-319).  Not so after the two cases above: a page whose stream was opened
\* onto an emitter gone by the next session list follows the one that left.
EndsUpFollowing ==
  <>[]((\E p \in Processes : procs[p].known) => overtaken \/ crossed \/ Follows)
=============================================================================
