---------------------------- MODULE TrackingView ----------------------------
(***************************************************************************)
(* Delegation tracking: one widget (ui/tracking-ui.mjs over               *)
(* ui/tracking-poller.mjs and ui/tracking-state.mjs) that watches one view *)
(* of the server (tracking.ts over tracking-reader.ts).  The view names a  *)
(* run of the bridge database, pinned or following the latest root; the    *)
(* widget shows the last snapshot it accepted.  Reads of the widget go     *)
(* through its own server process; other processes of the same principal  *)
(* write the same view in the sidecar.                                     *)
(*                                                                         *)
(* Abstracted: delays (back-off, catch-up pages, the two-second floor),    *)
(* the rows of a snapshot (a snapshot is the run and the last event it     *)
(* reflects), signatures, the browser's DOM, the list of past runs.        *)
(* Bounds: MaxRuns roots, MaxEvents events per database, one replacement   *)
(* of the database, MaxMoves acts of the user, the host or the network.    *)
(***************************************************************************)
EXTENDS Naturals, Sequences, FiniteSets, SequencesExt

CONSTANTS
    None,
    MaxRuns, MaxEvents, MaxMoves,
    Unheard     \* a pin may be made whose answer this widget never sees

VARIABLES
    db,           \* the bridge database: identity, roots in order, events by run
    view,         \* the row of tracking_views
    read,         \* the poller's read in flight
    bind,         \* the bind in flight, of stage "none" when there is none
    closing,      \* the close in flight
    poller,       \* stopped, visible, timer, cursor
    ui,           \* snapshot, autoFollow, allowEventReset, unavailable, closed
    moves

trackingVars == <<db, view, read, bind, closing, poller, ui, moves>>

Runs == 1 .. MaxRuns
Latest == IF db.roots = <<>> THEN None ELSE Last(db.roots)
LastEvent == Len(db.log)
NoBind == [stage |-> "none", run |-> None, reply |-> None]

\* A view is opened on the latest root; the host mounts the widget with the first snapshot.
Init ==
    /\ db = [id |-> 0, roots |-> <<1>>, log |-> <<1>>, made |-> 1]
    /\ view = [open |-> TRUE, run |-> 1, follow |-> TRUE, seen |-> 1]
    /\ read = None /\ bind = NoBind /\ closing = "none"
    /\ poller = [stopped |-> FALSE, visible |-> TRUE, timer |-> TRUE,
                 cursor |-> [db |-> 0, run |-> 1, event |-> 1]]
    /\ ui = [shown |-> [db |-> 0, run |-> 1, event |-> 1], autoFollow |-> TRUE,
             allowEventReset |-> FALSE, unavailable |-> FALSE, closed |-> FALSE]
    /\ moves = 0

Move == moves < MaxMoves /\ moves' = moves + 1
-----------------------------------------------------------------------------
(* The bridge database, written by the agents' own work.                   *)

NewRoot ==
    /\ db.made < MaxRuns /\ LastEvent < MaxEvents
    /\ db' = [db EXCEPT !.made = @ + 1, !.roots = Append(@, db.made + 1), !.log = Append(@, db.made + 1)]
    /\ UNCHANGED <<view, read, bind, closing, poller, ui, moves>>

Event(r) ==
    /\ r \in Range(db.roots) /\ LastEvent < MaxEvents
    /\ db' = [db EXCEPT !.log = Append(@, r)]
    /\ UNCHANGED <<view, read, bind, closing, poller, ui, moves>>

\* The file is replaced by a new one.
ReplaceDatabase ==
    /\ db.id = 0
    /\ db' = [id |-> 1, roots |-> <<>>, log |-> <<>>, made |-> db.made]
    /\ UNCHANGED <<view, read, bind, closing, poller, ui, moves>>

(* The server.                                                             *)

\* followRun: the manager is about to delegate in run r, or has created it.
FollowRun(r) ==
    /\ r \in Range(db.roots) /\ view.open /\ view.follow /\ Move
    /\ view' = [view EXCEPT !.run = r, !.seen = Latest]
    /\ UNCHANGED <<db, read, bind, closing, poller, ui>>

\* open, called again from a chat for the same context: it moves the view the widget reads.
Reopen(r, follow) ==
    /\ view.open /\ Move /\ r \in Range(db.roots) \cup {None}
    /\ follow \/ (Unheard /\ r # None)
    /\ view' = [view EXCEPT !.run = IF r = None THEN Latest ELSE r, !.follow = follow, !.seen = Latest]
    /\ UNCHANGED <<db, read, bind, closing, poller, ui>>

\* closeView from elsewhere, or the view's time to live.
Expire ==
    /\ view.open /\ Move /\ view' = [view EXCEPT !.open = FALSE]
    /\ UNCHANGED <<db, read, bind, closing, poller, ui>>

LastMatching(r, after) ==
    LET matching == {e \in (after + 1) .. LastEvent : db.log[e] = r}
    IN  IF matching = {} THEN after ELSE CHOOSE e \in matching : \A f \in matching : f <= e

\* What a read answers for view row v and cursor c.
Answer(v, c) ==
    IF c # None /\ (c.run # v.run \/ c.db # db.id \/ c.event > LastEvent)
    THEN [kind |-> "reset"]
    ELSE [kind |-> "snapshot", follow |-> v.follow,
          at |-> [db |-> db.id, run |-> v.run, event |-> LastEvent],
          cursor |-> [db |-> db.id, run |-> v.run,
                      event |-> IF c = None \/ v.run = None THEN LastEvent ELSE LastMatching(v.run, c.event)]]

\* read, first half: the row of the view, and the latest root if it follows.
Look ==
    /\ read # None /\ read.stage = "sent"
    /\ read' = IF ~view.open THEN [read EXCEPT !.stage = "answered", !.reply = [kind |-> "gone"]]
               ELSE [read EXCEPT !.stage = "looked", !.row = view, !.latest = Latest]
    /\ UNCHANGED <<db, view, bind, closing, poller, ui, moves>>

\* A root the row had not seen is followed.
Discovered(v, latest) == v.follow /\ latest # None /\ latest # v.seen
Adopt(v, latest) == IF Discovered(v, latest) THEN [v EXCEPT !.run = latest, !.seen = latest] ELSE v

\* Second half: the association, then the snapshot.
Serve ==
    /\ read # None /\ read.stage = "looked"
    /\ LET row == Adopt(read.row, read.latest) IN
       /\ read' = [read EXCEPT !.stage = "answered", !.reply = Answer(row, read.after), !.row = None,
                               !.latest = None]
       /\ view' = IF view.open /\ Discovered(read.row, read.latest)
                  THEN [view EXCEPT !.run = read.latest, !.seen = read.latest] ELSE view
    /\ UNCHANGED <<db, bind, closing, poller, ui, moves>>

\* The widget's server process serves one call at a time.
ServerFree == ~(read # None /\ read.stage = "looked")

ServeBind ==
    /\ bind.stage = "sent" /\ ServerFree
    /\ IF ~view.open \/ (bind.run # None /\ bind.run \notin Range(db.roots))
       THEN bind' = [bind EXCEPT !.stage = "answered", !.reply = [kind |-> "error"]] /\ UNCHANGED view
       ELSE LET row == [view EXCEPT !.run = IF bind.run = None THEN Latest ELSE bind.run,
                                    !.follow = bind.run = None, !.seen = Latest]
            IN  view' = row /\ bind' = [bind EXCEPT !.stage = "answered", !.reply = Answer(row, None)]
    /\ UNCHANGED <<db, read, closing, poller, ui, moves>>

ServeClose ==
    /\ closing = "sent" /\ ServerFree
    /\ closing' = IF view.open THEN "confirmed" ELSE "refused"
    /\ view' = [view EXCEPT !.open = FALSE]
    /\ UNCHANGED <<db, read, bind, poller, ui, moves>>
-----------------------------------------------------------------------------
(* The poller.                                                             *)

\* stop and reset count a generation: the read in flight is of an older one.
Aged == IF read = None THEN None ELSE [read EXCEPT !.stale = TRUE]
Stopped == [poller EXCEPT !.stopped = TRUE, !.timer = FALSE]

\* queue: a timer, unless stopped, hidden or reading.
Queued(p, reading) == [p EXCEPT !.timer = ~p.stopped /\ p.visible /\ ~reading]

Tick ==
    /\ poller.timer /\ read = None
    /\ poller' = [poller EXCEPT !.timer = FALSE]
    /\ read' = [stage |-> "sent", stale |-> FALSE, after |-> poller.cursor, row |-> None, latest |-> None,
                reply |-> None]
    /\ UNCHANGED <<db, view, bind, closing, ui, moves>>

\* mergeSnapshot, with applySnapshot around it.
Accepted(s, allowRunChange) ==
    \/ ui.shown.run # s.at.run /\ allowRunChange
    \/ ui.shown.run = s.at.run /\ (s.at.event >= ui.shown.event \/ ui.allowEventReset)
Applied(s, allowRunChange) ==
    [ui EXCEPT !.autoFollow = s.follow, !.allowEventReset = FALSE,
               !.shown = IF Accepted(s, allowRunChange) THEN s.at ELSE @]

\* Seeded bug: the answer to a question asked before stop or reset is used.
IgnoredNever(r) == poller.stopped
Ignored(r) == poller.stopped \/ r.stale

\* The rest of tick: the answer, or a failed transport, then the next timer.
Arrive(lost) ==
    /\ read # None /\ read' = None
    /\ IF lost THEN Move ELSE read.stage = "answered" /\ UNCHANGED moves
    /\ LET reply == IF lost THEN [kind |-> "error"] ELSE read.reply
           kind == IF Ignored(read) THEN "error" ELSE reply.kind
           after == CASE kind = "error" -> poller
                      [] kind = "gone" -> [poller EXCEPT !.stopped = TRUE, !.cursor = None]
                      [] kind = "reset" -> [poller EXCEPT !.cursor = None]
                      [] OTHER -> [poller EXCEPT !.cursor = reply.cursor]
       IN  /\ poller' = Queued(after, FALSE)
           /\ ui' = CASE kind = "error" -> ui
                      [] kind = "gone" -> [ui EXCEPT !.unavailable = TRUE]
                      [] kind = "reset" -> [ui EXCEPT !.allowEventReset = TRUE]
                      [] OTHER -> Applied(reply, reply.follow)
    /\ UNCHANGED <<db, view, bind, closing>>

Shown(v) == IF v THEN Queued([poller EXCEPT !.visible = v], read # None)
            ELSE [poller EXCEPT !.visible = v, !.timer = FALSE]

SetVisible(v) ==
    /\ ~ui.closed /\ poller.visible # v /\ Move
    /\ poller' = Shown(v)
    /\ UNCHANGED <<db, view, read, bind, closing, ui>>
-----------------------------------------------------------------------------
(* The widget.                                                             *)

Bind(r) ==
    /\ ~ui.closed /\ ~ui.unavailable /\ bind.stage = "none" /\ r \in Range(db.roots) \cup {None}
    /\ Move
    /\ bind' = [stage |-> "sent", run |-> r, reply |-> None]
    /\ poller' = Stopped /\ read' = Aged
    /\ UNCHANGED <<db, view, closing, ui>>

Resume(p) == IF ui.closed THEN p ELSE Queued([p EXCEPT !.stopped = FALSE], read # None)

\* The answer of a bind, or its failure; finally the poller starts again.
BindEnds(lost) ==
    /\ bind.stage # "none" /\ bind' = NoBind
    /\ IF lost THEN Move /\ (bind.stage = "sent" \/ bind.run = None \/ Unheard)
       ELSE bind.stage = "answered" /\ UNCHANGED moves
    /\ IF lost \/ bind.reply.kind = "error" \/ ui.closed
       THEN poller' = Resume(poller) /\ UNCHANGED <<ui, read>>
       ELSE /\ ui' = Applied(bind.reply, TRUE)
            /\ poller' = Resume([poller EXCEPT !.cursor = bind.reply.cursor])
            /\ read' = Aged
    /\ UNCHANGED <<db, view, closing>>

\* cleanup, from closeView, or destroy: nothing of the widget works any more.
CleanUp == ui' = [ui EXCEPT !.closed = TRUE] /\ poller' = Stopped /\ read' = Aged

Close ==
    /\ ~ui.closed /\ closing = "none" /\ Move
    /\ IF ui.unavailable THEN CleanUp /\ UNCHANGED closing
       ELSE closing' = "sent" /\ UNCHANGED <<ui, poller, read>>
    /\ UNCHANGED <<db, view, bind>>

CloseEnds(lost) ==
    /\ closing # "none" /\ closing' = "none"
    /\ IF lost THEN Move ELSE closing # "sent" /\ UNCHANGED moves
    /\ IF ~lost /\ closing = "confirmed" /\ ~ui.closed THEN CleanUp ELSE UNCHANGED <<ui, poller, read>>
    /\ UNCHANGED <<db, view, bind>>

Destroy ==
    /\ ~ui.closed /\ Move /\ CleanUp
    /\ UNCHANGED <<db, view, bind, closing>>

Serving == Look \/ Serve \/ ServeBind \/ ServeClose
Next ==
    \/ NewRoot \/ ReplaceDatabase \/ Expire \/ Tick \/ Serving \/ Close \/ Destroy
    \/ \E r \in Runs : Event(r) \/ FollowRun(r)
    \/ \E r \in Runs \cup {None} : Bind(r) \/ \E f \in BOOLEAN : Reopen(r, f)
    \/ \E lost \in BOOLEAN : Arrive(lost) \/ BindEnds(lost) \/ CloseEnds(lost)
    \/ \E v \in BOOLEAN : SetVisible(v)

\* Timers fire, the server answers, answers arrive: each loss is one of MaxMoves.
Progress == Tick \/ Serving \/ Arrive(FALSE) \/ BindEnds(FALSE) \/ CloseEnds(FALSE)
Fairness == WF_trackingVars(Tick) /\ WF_trackingVars(Serving) /\ WF_trackingVars(Arrive(FALSE))
            /\ WF_trackingVars(BindEnds(FALSE))
Spec == Init /\ [][Next]_trackingVars /\ Fairness
-----------------------------------------------------------------------------
(* Properties.                                                             *)

TypeOK ==
    /\ db.made \in Runs /\ Range(db.log) \subseteq Runs /\ Range(db.roots) \subseteq Runs
    /\ view.run \in Runs \cup {None} /\ ui.shown.event \in 0 .. MaxEvents
    /\ read # None => read.stage \in {"sent", "looked", "answered"}
    /\ poller.timer => ~poller.stopped /\ poller.visible

\* Once a run was picked, the widget shows it until another is picked: an answer to
\* a question asked before does not bring the former run back.
PinnedIsShown ==
    ~view.follow /\ view.open /\ bind.stage = "none" /\ ~ui.closed =>
        ui.shown.run = view.run /\ ~ui.autoFollow

Watching == ~ui.closed /\ poller.visible /\ view.open
InStep ==
    /\ ui.shown = [db |-> db.id, run |-> view.run, event |-> LastEvent]
    /\ ui.autoFollow = view.follow
    /\ view.follow /\ Latest # None => view.seen = Latest

\* Nothing is owed to the reader: a visible widget shows its view as the database has it,
\* and a closed one asks nothing more, whatever was in flight when it was closed.
AtRest ==
    /\ Watching => InStep
    /\ ui.closed => poller.stopped /\ ~poller.timer
=============================================================================
