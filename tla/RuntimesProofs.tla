---------------------------- MODULE RuntimesProofs ----------------------------
(***************************************************************************)
(* Theorems about Runtimes, for any calls, threads, servers and            *)
(* connections: one inductive invariant for each component, and the        *)
(* properties that follow from it.  A step of the composite is a step of   *)
(* the component that `part` names (Split), so each is proved by itself.   *)
(***************************************************************************)
EXTENDS Runtimes, Sequences, FiniteSetTheorems, TLAPS

\* A step of the composite is a step of one component, and leaves the others alone.
LEMMA Split ==
  ASSUME [Next]_all
  PROVE  /\ part' = part
         /\ part = "turns" => Turns!Next \/ UNCHANGED turnsVars
         /\ part = "adapter" => Adapter!Next \/ UNCHANGED adapterVars
         /\ part = "mcp" => Mcp!Next \/ UNCHANGED mcpVars
         /\ part = "keys" => Keys!Next \/ UNCHANGED keysVars
         /\ part = "view" => View!Next \/ UNCHANGED viewVars
  <1>1. CASE UNCHANGED all
    BY <1>1 DEF all, ofTurns, ofAdapter, ofMcp, ofKeys, ofView,
       turnsVars, adapterVars, mcpVars, keysVars, viewVars,
       Turns!vars, Turns!connVars, Turns!threadVars, Turns!turnVars, Turns!callVars, Turns!serverVars,
       Adapter!adapterVars, Adapter!cache, Adapter!slotVars, Adapter!turnVars, Mcp!mcpVars,
       Keys!delegationVars, Keys!rows, View!trackingVars
  <1>2. CASE TurnsStep(Turns!Next) \/ ClaudeStep(Claude!Next)
    BY <1>2 DEF TurnsStep, ClaudeStep
  <1>3. CASE NextAdapter
    BY <1>3 DEF NextAdapter, AdapterStep, Adapter!Next
  <1>4. CASE NextMcp
    BY <1>4 DEF NextMcp, McpStep, Mcp!Next, Mcp!Settles
  <1>5. CASE NextKeys
    BY <1>5 DEF NextKeys, KeysStep, Keys!Next, Keys!Attempt
  <1>6. CASE NextView
    BY <1>6 DEF NextView, ViewStep, View!Next, View!Serving
  <1> QED
    BY <1>1, <1>2, <1>3, <1>4, <1>5, <1>6 DEF Next

-----------------------------------------------------------------------------
(* The app-server client: CodexTurnsProofs.                                *)

TurnLaws == INSTANCE CodexTurnsProofs WITH Calls <- TurnCalls, Strict <- StrictCalls

\* What the composite calls a turn is what those theorems are about.
LEMMA TurnSane == TurnLaws!Sane
  BY RuntimesAssumption DEF Turns!Sane, TurnLaws!Sane

\* They begin alike.
LEMMA TurnsInit == ASSUME Turns!Init PROVE TurnLaws!IInv /\ TurnLaws!Booked
  <1>1. TurnLaws!Init
    BY DEF Turns!Init, TurnLaws!Init, Turns!NoUsage, TurnLaws!NoUsage
  <1> QED
    BY <1>1, TurnSane, TurnLaws!InitTurns, TurnLaws!InitBooks

\* They step alike.
LEMMA SameTurns == ASSUME Turns!Next PROVE TurnLaws!Next
  BY DEF Turns!Next, TurnLaws!Next, Turns!Step, TurnLaws!Step, Turns!ChildClosed, TurnLaws!ChildClosed,
           Turns!Connected, TurnLaws!Connected, Turns!ConnectFails, TurnLaws!ConnectFails, Turns!CatalogRead,
           TurnLaws!CatalogRead, Turns!Close, TurnLaws!Close, Turns!MalformedFrame, TurnLaws!MalformedFrame,
           Turns!Connect, TurnLaws!Connect, Turns!ConfigRead, TurnLaws!ConfigRead, Turns!ThreadReady,
           TurnLaws!ThreadReady, Turns!EnterTurn, TurnLaws!EnterTurn, Turns!LaunchTurn, TurnLaws!LaunchTurn,
           Turns!TurnAccepted, TurnLaws!TurnAccepted, Turns!Abort, TurnLaws!Abort, Turns!Continue,
           TurnLaws!Continue, Turns!Timer, TurnLaws!Timer, Turns!ServerTakes, TurnLaws!ServerTakes,
           Turns!ServerRefuses, TurnLaws!ServerRefuses, Turns!ServerEnds, TurnLaws!ServerEnds,
           Turns!TurnStarted, TurnLaws!TurnStarted, Turns!UsageUpdated, TurnLaws!UsageUpdated,
           Turns!TurnCompleted, TurnLaws!TurnCompleted, Turns!Quiet, TurnLaws!Quiet, Turns!callVars,
           TurnLaws!callVars, Turns!turnVars, TurnLaws!turnVars, Turns!RejectAll, TurnLaws!RejectAll,
           Turns!threadVars, TurnLaws!threadVars, Turns!Sent, TurnLaws!Sent, Turns!serverVars,
           TurnLaws!serverVars, Turns!Goto, TurnLaws!Goto, Turns!Resolved, TurnLaws!Resolved, Turns!connVars,
           TurnLaws!connVars, Turns!Say, TurnLaws!Say, Turns!Finish, TurnLaws!Finish, Turns!Forget,
           TurnLaws!Forget, Turns!PickModel, TurnLaws!PickModel, Turns!Refuse, TurnLaws!Refuse, Turns!Catch,
           TurnLaws!Catch, Turns!Interrupted, TurnLaws!Interrupted, Turns!Answer, TurnLaws!Answer,
           Turns!FailTurn, TurnLaws!FailTurn, Turns!PrepareFails, TurnLaws!PrepareFails, Turns!TurnRpcTimeout,
           TurnLaws!TurnRpcTimeout, Turns!WaitTimeout, TurnLaws!WaitTimeout, Turns!UsageTimer,
           TurnLaws!UsageTimer, Turns!StopTimer, TurnLaws!StopTimer, Turns!Readable, TurnLaws!Readable,
           Turns!Accumulate, TurnLaws!Accumulate, Turns!Release, TurnLaws!Release, Turns!Due, TurnLaws!Due,
           Turns!AfterReject, TurnLaws!AfterReject, Turns!Verdict, TurnLaws!Verdict, Turns!NoUsage,
           TurnLaws!NoUsage

\* Every step of a turn keeps their invariants.
LEMMA TurnsKeep ==
  ASSUME TurnLaws!IInv, TurnLaws!Booked, Turns!Next \/ UNCHANGED turnsVars
  PROVE  TurnLaws!IInv' /\ TurnLaws!Booked'
  <1>1. [TurnLaws!Next]_TurnLaws!vars
    BY SameTurns DEF turnsVars, Turns!vars, Turns!connVars, Turns!threadVars, Turns!turnVars, Turns!callVars,
       Turns!serverVars, TurnLaws!vars, TurnLaws!connVars, TurnLaws!threadVars, TurnLaws!turnVars,
       TurnLaws!callVars, TurnLaws!serverVars
  <1> QED
    BY <1>1, TurnSane, TurnLaws!NextKeeps, TurnLaws!StepBooks

\* The tokens of an answered turn add up.
LEMMA TurnsPromise == ASSUME TurnLaws!Booked PROVE Turns!UsageAddsUp
  <1>1. TurnLaws!UsageAddsUp
    BY TurnSane, TurnLaws!BooksAddUp
  <1> QED
    BY <1>1 DEF Turns!UsageAddsUp, TurnLaws!UsageAddsUp

-----------------------------------------------------------------------------
(* Delegations under one key: DelegationKeysProofs.                        *)

KeyLaws == INSTANCE DelegationKeysProofs WITH Calls <- KeyCalls

\* What the composite calls a delegation is what those theorems are about.
LEMMA KeySane == KeyLaws!Sane
  BY RuntimesAssumption DEF Keys!Sane, KeyLaws!Sane

\* They begin alike.
LEMMA KeysInit == ASSUME Keys!Init PROVE KeyLaws!IInv
  <1>1. KeyLaws!Init
    BY DEF Keys!Init, KeyLaws!Init, Keys!NoOperation, KeyLaws!NoOperation, Keys!NoRow, KeyLaws!NoRow
  <1> QED
    BY <1>1, KeySane, KeyLaws!InitKeys

\* They step alike.
LEMMA SameKeys == ASSUME Keys!Next PROVE KeyLaws!Next
  BY DEF Keys!Next, KeyLaws!Next, Keys!Delegate, KeyLaws!Delegate, Keys!Wait, KeyLaws!Wait, Keys!Attempt,
           KeyLaws!Attempt, Keys!Milestone, KeyLaws!Milestone, Keys!ReportStopped, KeyLaws!ReportStopped,
           Keys!RuntimeEnds, KeyLaws!RuntimeEnds, Keys!Crash, KeyLaws!Crash, Keys!Cancel, KeyLaws!Cancel,
           Keys!Reconcile, KeyLaws!Reconcile, Keys!Goto, KeyLaws!Goto, Keys!rows, KeyLaws!rows,
           Keys!TakenOver, KeyLaws!TakenOver, Keys!Queue, KeyLaws!Queue, Keys!Admit, KeyLaws!Admit,
           Keys!Prepare, KeyLaws!Prepare, Keys!Launch, KeyLaws!Launch, Keys!Ended, KeyLaws!Ended, Keys!Commit,
           KeyLaws!Commit, Keys!Retry, KeyLaws!Retry, Keys!Finish, KeyLaws!Finish, Keys!Mine, KeyLaws!Mine,
           Keys!Current, KeyLaws!Current, Keys!Terminal, KeyLaws!Terminal, Keys!Stop, KeyLaws!Stop,
           Keys!Failed, KeyLaws!Failed, Keys!Authorized, KeyLaws!Authorized, Keys!Authorize,
           KeyLaws!Authorize, Keys!StopEvidence, KeyLaws!StopEvidence, Keys!Recorded, KeyLaws!Recorded,
           Keys!Settle, KeyLaws!Settle, Keys!Legal, KeyLaws!Legal, Keys!Verdict, KeyLaws!Verdict,
           Keys!CanRetry, KeyLaws!CanRetry, Keys!StoreFails, KeyLaws!StoreFails, Keys!Reap, KeyLaws!Reap,
           Keys!LateStop, KeyLaws!LateStop, Keys!Clear, KeyLaws!Clear, Keys!Released, KeyLaws!Released,
           Keys!LeaseAllows, KeyLaws!LeaseAllows

\* Every step of a delegation keeps their invariant.
LEMMA KeysKeep == ASSUME KeyLaws!IInv, Keys!Next \/ UNCHANGED keysVars PROVE KeyLaws!IInv'
  <1>1. [KeyLaws!Next]_KeyLaws!delegationVars
    BY SameKeys DEF keysVars, Keys!delegationVars, KeyLaws!delegationVars, Keys!rows, KeyLaws!rows
  <1> QED
    BY <1>1, KeySane, KeyLaws!NextKeeps

\* The promises are the same.
LEMMA KeysPromise ==
  ASSUME KeyLaws!IInv PROVE Keys!OneRuntimePerKey /\ Keys!AnswersAgree /\ Keys!SlotComesBack
  <1>1. KeyLaws!OneRuntimePerKey /\ KeyLaws!AnswersAgree /\ KeyLaws!SlotComesBack
    BY KeyLaws!Promises
  <1>2. Keys!Cardinality(live) = KeyLaws!Cardinality(live)
    BY DEF Keys!Cardinality, KeyLaws!Cardinality
  <1> QED
    BY <1>1, <1>2 DEF Keys!OneRuntimePerKey, KeyLaws!OneRuntimePerKey, Keys!AnswersAgree,
         KeyLaws!AnswersAgree, Keys!SlotComesBack, KeyLaws!SlotComesBack,
         Keys!Clear, KeyLaws!Clear

-----------------------------------------------------------------------------
(* The MCP client.                                                         *)

McpTypes ==
    /\ closed \in BOOLEAN /\ {state, connecting, pending} \subseteq Conns \cup {None}
    /\ conn \in [Conns -> {"none", "opening", "open", "dead", "failing", "closing", "gone"}]
    /\ child \in [McpCalls -> {"none", "live", "killed", "gone"}]
    /\ closing \in {"no", "connecting", "closing", "closed"}

\* A server that comes up is the one being connected to, one that is up is the current one,
\* and there is one of the two at most.
OneConnection ==
    /\ \A k \in Conns : conn[k] \in {"opening", "failing"} => connecting = k
    /\ \A k \in Conns : conn[k] = "open" => state = k
    /\ connecting # None => state = None

\* close() waits for the connection it found under way, and no other is begun after it.
ClosingOrder ==
    /\ closing # "no" <=> closed
    /\ closing = "connecting" => connecting \in {None, pending}
    /\ closing \in {"closing", "closed"} => state = None /\ connecting = None

\* A client that was closed starts no child, and has seen the end of each when close() returns.
Children ==
    /\ closed => \A c \in McpCalls : child[c] # "live"
    /\ closing = "closed" => \A c \in McpCalls : child[c] \in {"none", "gone"}

McpInv == McpTypes /\ OneConnection /\ ClosingOrder /\ Children

\* At first there is no connection.
LEMMA McpInit == ASSUME Mcp!Init PROVE McpInv
  BY RuntimesAssumption
     DEF Mcp!Sane, Mcp!Init, McpInv, McpTypes, OneConnection, ClosingOrder, Children

\* The life of a connection.
LEMMA ConnectionStep ==
  ASSUME McpInv, NEW k \in Conns,
         Mcp!Opens(k) \/ Mcp!OpenFails(k) \/ Mcp!Refused(k) \/ Mcp!ServerDies(k) \/ Mcp!Gone(k)
  PROVE  McpInv'
  <1> USE RuntimesAssumption DEF Mcp!Sane
  <1>1. UNCHANGED <<closed, child, closing, pending>>
    BY DEF Mcp!Opens, Mcp!OpenFails, Mcp!Refused, Mcp!ServerDies, Mcp!Gone
  <1>2. CASE Mcp!Opens(k)
    <2>1. /\ connecting = k /\ connecting' = None /\ state = None
          /\ state' = IF closed THEN state ELSE k
          /\ conn' = [conn EXCEPT ![k] = IF closed THEN "closing" ELSE "open"]
      BY <1>2 DEF Mcp!Opens, McpInv, OneConnection
    <2> QED
      BY <1>1, <2>1 DEF McpInv, McpTypes, OneConnection, ClosingOrder, Children
  <1>3. CASE Mcp!Refused(k)
    <2>1. /\ connecting = k /\ connecting' = None /\ state' = state
          /\ conn' = [conn EXCEPT ![k] = "gone"]
      BY <1>3 DEF Mcp!Refused, McpInv, OneConnection
    <2> QED
      BY <1>1, <2>1 DEF McpInv, McpTypes, OneConnection, ClosingOrder, Children
  <1>4. CASE Mcp!OpenFails(k) \/ Mcp!ServerDies(k) \/ Mcp!Gone(k)
    <2>1. /\ UNCHANGED <<state, connecting>>
          /\ \E s \in {"dead", "failing", "gone"} :
                conn' = [conn EXCEPT ![k] = s] /\ (s = "failing" => connecting = k)
      BY <1>4 DEF Mcp!OpenFails, Mcp!ServerDies, Mcp!Gone, McpInv, OneConnection
    <2> QED
      BY <1>1, <2>1 DEF McpInv, McpTypes, OneConnection, ClosingOrder, Children
  <1> QED
    BY <1>2, <1>3, <1>4

\* A call that connects, asks, gives its connection up, or resumes its session in a child.
LEMMA CallStep ==
  ASSUME McpInv, NEW c \in McpCalls,
         \/ Mcp!Begin(c) \/ Mcp!Settles(c) \/ Mcp!CallFails(c)
         \/ Mcp!Resume(c) \/ Mcp!ResumeDeadline(c) \/ Mcp!ChildCloses(c)
  PROVE  McpInv'
  <1> USE RuntimesAssumption DEF Mcp!Sane
  <1>1. UNCHANGED <<closed, closing, pending>>
    BY DEF Mcp!Begin, Mcp!Settles, Mcp!Answered, Mcp!TimesOut, Mcp!Fails, Mcp!CallFails, Mcp!Resume,
           Mcp!ResumeDeadline, Mcp!ChildCloses
  <1>2. CASE UNCHANGED <<state, connecting, conn, child>>
    BY <1>1, <1>2 DEF McpInv, McpTypes, OneConnection, ClosingOrder, Children
  <1>3. CASE Mcp!Begin(c)
    <2>1. UNCHANGED <<state, child>>
      BY <1>3 DEF Mcp!Begin
    <2>2. \/ UNCHANGED <<conn, connecting>>
          \/ /\ ~closed /\ state = None /\ connecting = None
             /\ \E k \in Conns : conn' = [conn EXCEPT ![k] = "opening"] /\ connecting' = k
      BY <1>3 DEF Mcp!Begin
    <2>3. CASE \E k \in Conns : /\ ~closed /\ state = None /\ connecting = None
                                /\ conn' = [conn EXCEPT ![k] = "opening"] /\ connecting' = k
      BY <1>1, <2>1, <2>3 DEF McpInv, McpTypes, OneConnection, ClosingOrder, Children
    <2> QED
      BY <1>2, <2>1, <2>2, <2>3
  <1>4. CASE Mcp!Fails(c)
    <2>1. UNCHANGED <<connecting, child>>
      BY <1>4 DEF Mcp!Fails
    <2>2. \/ UNCHANGED <<state, conn>>
          \/ state' = None /\ conn' = [conn EXCEPT ![state] = "closing"]
      BY <1>4 DEF Mcp!Fails, Mcp!Invalidate
    <2> QED
      BY <1>1, <1>2, <2>1, <2>2 DEF McpInv, McpTypes, OneConnection, ClosingOrder, Children
  <1>5. CASE Mcp!Resume(c) \/ Mcp!ResumeDeadline(c) \/ Mcp!ChildCloses(c)
    <2>1. UNCHANGED <<state, connecting, conn>>
      BY <1>5 DEF Mcp!Resume, Mcp!ResumeDeadline, Mcp!ChildCloses
    <2>2. \/ UNCHANGED child
          \/ ~closed /\ child' = [child EXCEPT ![c] = "live"]
          \/ child[c] = "live" /\ child' = [child EXCEPT ![c] = "killed"]
          \/ child' = [child EXCEPT ![c] = "gone"]
      BY <1>5 DEF Mcp!Resume, Mcp!ResumeDeadline, Mcp!ChildCloses
    <2>3. McpTypes'
      BY <1>1, <2>1, <2>2 DEF McpInv, McpTypes
    <2>4. OneConnection' /\ ClosingOrder'
      BY <1>1, <2>1 DEF McpInv, OneConnection, ClosingOrder
    <2>5. Children'
      BY <1>1, <2>2 DEF McpInv, McpTypes, ClosingOrder, Children
    <2> QED
      BY <2>3, <2>4, <2>5 DEF McpInv
  <1> QED
    BY <1>2, <1>3, <1>4, <1>5 DEF Mcp!Settles, Mcp!Answered, Mcp!TimesOut, Mcp!CallFails

\* The three stages of close().
LEMMA CloseStep ==
  ASSUME McpInv, Mcp!Close \/ Mcp!CloseConnection \/ Mcp!CloseEnds PROVE McpInv'
  <1> USE RuntimesAssumption DEF Mcp!Sane
  <1>1. CASE Mcp!Close
    BY <1>1 DEF Mcp!Close, McpInv, McpTypes, OneConnection, ClosingOrder, Children
  <1>2. CASE Mcp!CloseConnection
    BY <1>2 DEF Mcp!CloseConnection, McpInv, McpTypes, OneConnection, ClosingOrder, Children
  <1>3. CASE Mcp!CloseEnds
    BY <1>3 DEF Mcp!CloseEnds, McpInv, McpTypes, OneConnection, ClosingOrder, Children
  <1> QED
    BY <1>1, <1>2, <1>3

\* Every step of the client keeps the invariant, and what is closed leaves nothing behind.
LEMMA McpKeeps == ASSUME McpInv, Mcp!Next \/ UNCHANGED mcpVars PROVE McpInv'
  <1>1. CASE UNCHANGED mcpVars
    BY <1>1 DEF mcpVars, Mcp!mcpVars, McpInv, McpTypes, OneConnection, ClosingOrder, Children
  <1> QED
    BY <1>1, ConnectionStep, CallStep, CloseStep DEF Mcp!Next

\* A connection that close() would not find is none.
LEMMA McpPromise == ASSUME McpInv PROVE Mcp!CloseLeavesNoRuntime
  BY RuntimesAssumption
     DEF Mcp!Sane, McpInv, OneConnection, ClosingOrder, Children, Mcp!CloseLeavesNoRuntime, Mcp!Alive
-----------------------------------------------------------------------------
(* The widget.                                                             *)

ViewShapes ==
    /\ view = [open |-> view.open, run |-> view.run, follow |-> view.follow, seen |-> view.seen]
    /\ view.open \in BOOLEAN /\ view.follow \in BOOLEAN
    /\ read # None =>
          /\ read = [stage |-> read.stage, stale |-> read.stale, after |-> read.after, row |-> read.row,
                     latest |-> read.latest, reply |-> read.reply]
          /\ read.stage \in {"sent", "looked", "answered"} /\ read.stale \in BOOLEAN
    /\ bind = [stage |-> bind.stage, run |-> bind.run, reply |-> bind.reply]
    /\ bind.stage \in {"none", "sent", "answered"}
    /\ poller = [stopped |-> poller.stopped, visible |-> poller.visible, timer |-> poller.timer,
                 cursor |-> poller.cursor]
    /\ poller.stopped \in BOOLEAN /\ (poller.timer => ~poller.stopped)
    /\ ui = [shown |-> ui.shown, autoFollow |-> ui.autoFollow, allowEventReset |-> ui.allowEventReset,
             unavailable |-> ui.unavailable, closed |-> ui.closed]
    /\ ui.closed \in BOOLEAN

\* While a bind is in flight the poller rests, and what it had asked before is of no account.
Resting == bind.stage # "none" => poller.stopped /\ (read # None => read.stale)

Pinned == view.open /\ ~view.follow
OfView(reply) == ~reply.follow /\ reply.at.run = view.run

\* A read that began with a view that followed ends with one, for no bind is served in between.
Looking == Pinned /\ read # None /\ read.stage = "looked" => ~read.row.follow

\* The answers on their way to a widget whose view is pinned are of its run.
Underway ==
    Pinned =>
        /\ read # None /\ ~read.stale =>
              /\ read.stage = "looked" => read.row.run = view.run
              /\ read.stage = "answered" /\ read.reply.kind \notin {"reset", "error", "gone"} =>
                    OfView(read.reply)
        /\ bind.stage = "answered" /\ bind.reply.kind # "error" => bind.run # None /\ OfView(bind.reply)

\* The widget shows the pinned run, or is about to be told of it.
Showing ==
    Pinned /\ ~ui.closed /\ (bind.stage = "answered" => bind.reply.kind = "error") =>
        ui.shown.run = view.run /\ ~ui.autoFollow

ViewInv == ViewShapes /\ Resting /\ Looking /\ Underway /\ Showing

\* At first the view follows.
LEMMA ViewInit == ASSUME View!Init PROVE ViewInv
  BY DEF View!Init, View!NoBind, ViewInv, ViewShapes, Resting, Looking, Underway, Showing, Pinned

\* A root is created.
LEMMA ViewNewRootKeeps == ASSUME ViewInv, View!NewRoot PROVE ViewInv'
  <1> USE DEF View!NewRoot
  <1>1. ViewShapes'
    BY DEF ViewInv, ViewShapes
  <1>2. Resting'
    BY DEF ViewInv, ViewShapes, Resting
  <1>3. Looking'
    BY DEF ViewInv, ViewShapes, Resting, Looking, Pinned
  <1>4. Underway'
    BY DEF ViewInv, ViewShapes, Resting, Looking, Underway, Pinned, OfView
  <1>5. Showing'
    BY DEF ViewInv, ViewShapes, Resting, Underway, Showing, Pinned, OfView
  <1> QED
    BY <1>1, <1>2, <1>3, <1>4, <1>5 DEF ViewInv

\* The file is replaced.
LEMMA ViewReplaceDatabaseKeeps == ASSUME ViewInv, View!ReplaceDatabase PROVE ViewInv'
  <1> USE DEF View!ReplaceDatabase
  <1>1. ViewShapes'
    BY DEF ViewInv, ViewShapes
  <1>2. Resting'
    BY DEF ViewInv, ViewShapes, Resting
  <1>3. Looking'
    BY DEF ViewInv, ViewShapes, Resting, Looking, Pinned
  <1>4. Underway'
    BY DEF ViewInv, ViewShapes, Resting, Looking, Underway, Pinned, OfView
  <1>5. Showing'
    BY DEF ViewInv, ViewShapes, Resting, Underway, Showing, Pinned, OfView
  <1> QED
    BY <1>1, <1>2, <1>3, <1>4, <1>5 DEF ViewInv

\* An event is written.
LEMMA ViewEventKeeps == ASSUME ViewInv, NEW r, View!Event(r) PROVE ViewInv'
  <1> USE DEF View!Event
  <1>1. ViewShapes'
    BY DEF ViewInv, ViewShapes
  <1>2. Resting'
    BY DEF ViewInv, ViewShapes, Resting
  <1>3. Looking'
    BY DEF ViewInv, ViewShapes, Resting, Looking, Pinned
  <1>4. Underway'
    BY DEF ViewInv, ViewShapes, Resting, Looking, Underway, Pinned, OfView
  <1>5. Showing'
    BY DEF ViewInv, ViewShapes, Resting, Underway, Showing, Pinned, OfView
  <1> QED
    BY <1>1, <1>2, <1>3, <1>4, <1>5 DEF ViewInv

\* The manager works in a run: the view follows.
LEMMA ViewFollowRunKeeps == ASSUME ViewInv, NEW r, View!FollowRun(r) PROVE ViewInv'
  <1> USE DEF View!FollowRun
  <1>1. ViewShapes'
    BY DEF ViewInv, ViewShapes
  <1>2. Resting'
    BY DEF ViewInv, ViewShapes, Resting
  <1>3. Looking'
    BY DEF ViewInv, ViewShapes, Resting, Looking, Pinned
  <1>4. Underway'
    BY DEF ViewInv, ViewShapes, Resting, Looking, Underway, Pinned, OfView
  <1>5. Showing'
    BY DEF ViewInv, ViewShapes, Resting, Underway, Showing, Pinned, OfView
  <1> QED
    BY <1>1, <1>2, <1>3, <1>4, <1>5 DEF ViewInv

\* The view is opened again, and follows.
LEMMA ViewReopenKeeps == ASSUME ViewInv, NEW r, NEW f, Unheard = FALSE, View!Reopen(r, f) PROVE ViewInv'
  <1> USE DEF View!Reopen
  <1>1. ViewShapes'
    BY DEF ViewInv, ViewShapes
  <1>2. Resting'
    BY DEF ViewInv, ViewShapes, Resting
  <1>3. Looking'
    BY DEF ViewInv, ViewShapes, Resting, Looking, Pinned
  <1>4. Underway'
    BY DEF ViewInv, ViewShapes, Resting, Looking, Underway, Pinned, OfView
  <1>5. Showing'
    BY DEF ViewInv, ViewShapes, Resting, Underway, Showing, Pinned, OfView
  <1> QED
    BY <1>1, <1>2, <1>3, <1>4, <1>5 DEF ViewInv

\* The view is closed from elsewhere.
LEMMA ViewExpireKeeps == ASSUME ViewInv, View!Expire PROVE ViewInv'
  <1> USE DEF View!Expire
  <1>1. ViewShapes'
    BY DEF ViewInv, ViewShapes
  <1>2. Resting'
    BY DEF ViewInv, ViewShapes, Resting
  <1>3. Looking'
    BY DEF ViewInv, ViewShapes, Resting, Looking, Pinned
  <1>4. Underway'
    BY DEF ViewInv, ViewShapes, Resting, Looking, Underway, Pinned, OfView
  <1>5. Showing'
    BY DEF ViewInv, ViewShapes, Resting, Underway, Showing, Pinned, OfView
  <1> QED
    BY <1>1, <1>2, <1>3, <1>4, <1>5 DEF ViewInv

\* The poller asks.
LEMMA ViewTickKeeps == ASSUME ViewInv, View!Tick PROVE ViewInv'
  <1> USE DEF View!Tick
  <1>1. ViewShapes'
    BY DEF ViewInv, ViewShapes
  <1>2. Resting'
    BY DEF ViewInv, ViewShapes, Resting
  <1>3. Looking'
    BY DEF ViewInv, ViewShapes, Resting, Looking, Pinned
  <1>4. Underway'
    BY DEF ViewInv, ViewShapes, Resting, Looking, Underway, Pinned, OfView
  <1>5. Showing'
    BY DEF ViewInv, ViewShapes, Resting, Underway, Showing, Pinned, OfView
  <1> QED
    BY <1>1, <1>2, <1>3, <1>4, <1>5 DEF ViewInv

\* The row of the view is read.
LEMMA ViewLookKeeps == ASSUME ViewInv, View!Look PROVE ViewInv'
  <1> USE DEF View!Look
  <1>1. ViewShapes'
    BY DEF ViewInv, ViewShapes
  <1>2. Resting'
    BY DEF ViewInv, ViewShapes, Resting
  <1>3. Looking'
    BY DEF ViewInv, ViewShapes, Resting, Looking, Pinned
  <1>4. Underway'
    BY DEF ViewInv, ViewShapes, Resting, Looking, Underway, Pinned, OfView
  <1>5. Showing'
    BY DEF ViewInv, ViewShapes, Resting, Underway, Showing, Pinned, OfView
  <1> QED
    BY <1>1, <1>2, <1>3, <1>4, <1>5 DEF ViewInv

\* A read is answered, and may make a view that follows adopt the latest root.
LEMMA ViewServeKeeps == ASSUME ViewInv, View!Serve PROVE ViewInv'
  <1> USE DEF View!Serve, View!Discovered, View!Adopt, View!Answer
  <1>1. ViewShapes'
    BY DEF ViewInv, ViewShapes
  <1>2. Resting'
    BY DEF ViewInv, ViewShapes, Resting
  <1>3. Looking'
    BY DEF ViewInv, ViewShapes, Resting, Looking, Pinned
  <1>4. Underway'
    BY DEF ViewInv, ViewShapes, Resting, Looking, Underway, Pinned, OfView
  <1>5. Showing'
    BY DEF ViewInv, ViewShapes, Looking, Showing, Pinned
  <1> QED
    BY <1>1, <1>2, <1>3, <1>4, <1>5 DEF ViewInv

\* A bind is served, while no read is between its two statements.
LEMMA ViewServeBindKeeps == ASSUME ViewInv, View!ServeBind PROVE ViewInv'
  <1>1. /\ bind.stage = "sent" /\ ~(read # None /\ read.stage = "looked")
        /\ UNCHANGED <<read, poller, ui>> /\ ViewShapes /\ (read # None => read.stale)
    BY DEF View!ServeBind, View!ServerFree, ViewInv, Resting
  <1>2. \/ view' = view /\ bind' = [bind EXCEPT !.stage = "answered", !.reply = [kind |-> "error"]]
        \/ \E served, reply :
              /\ view' = served /\ bind' = [bind EXCEPT !.stage = "answered", !.reply = reply]
              /\ served = [view EXCEPT !.run = served.run, !.follow = bind.run = None, !.seen = served.seen]
              /\ reply.kind = "snapshot" /\ reply.follow = served.follow /\ reply.at.run = served.run
    <2>1. CASE ~(~view.open \/ (bind.run # None /\ bind.run \notin View!Range(db.roots)))
      <3> DEFINE served == [view EXCEPT !.run = IF bind.run = None THEN View!Latest ELSE bind.run,
                                     !.follow = bind.run = None, !.seen = View!Latest]
      <3>1. view' = served /\ bind' = [bind EXCEPT !.stage = "answered", !.reply = View!Answer(served, None)]
        BY <2>1 DEF View!ServeBind
      <3>2. served = [view EXCEPT !.run = served.run, !.follow = bind.run = None, !.seen = served.seen]
        BY <1>1 DEF ViewShapes
      <3> HIDE DEF served
      <3>3. /\ View!Answer(served, None).kind = "snapshot" /\ View!Answer(served, None).follow = served.follow
            /\ View!Answer(served, None).at.run = served.run
        BY DEF View!Answer
      <3> QED
        BY <3>1, <3>2, <3>3
    <2> QED
      BY <2>1 DEF View!ServeBind
  <1>3. CASE view' = view /\ bind' = [bind EXCEPT !.stage = "answered", !.reply = [kind |-> "error"]]
    <2>1. bind'.stage = "answered" /\ bind'.reply.kind = "error" /\ bind'.run = bind.run
      BY <1>1, <1>3 DEF ViewShapes
    <2>2. ViewShapes'
      BY <1>1, <1>3 DEF ViewShapes
    <2> QED
      BY <1>1, <1>3, <2>1, <2>2 DEF ViewInv, Resting, Looking, Underway, Showing, Pinned
  <1>4. ASSUME NEW served, NEW reply,
               view' = served, bind' = [bind EXCEPT !.stage = "answered", !.reply = reply],
               served = [view EXCEPT !.run = served.run, !.follow = bind.run = None, !.seen = served.seen],
               reply.kind = "snapshot", reply.follow = served.follow, reply.at.run = served.run
        PROVE  ViewInv'
    <2>1. bind'.stage = "answered" /\ bind'.reply = reply /\ bind'.run = bind.run
      BY <1>1, <1>4 DEF ViewShapes
    <2>2. ViewShapes'
      BY <1>1, <1>4 DEF ViewShapes
    <2>3. (view'.follow <=> bind.run = None) /\ view'.run = reply.at.run /\ (view'.follow <=> reply.follow)
      BY <1>1, <1>4 DEF ViewShapes
    <2>4. Resting' /\ Looking' /\ Showing'
      BY <1>1, <1>4, <2>1 DEF ViewInv, Resting, Looking, Showing, Pinned
    <2>5. Underway'
      BY <1>1, <1>4, <2>1, <2>3 DEF Underway, Pinned, OfView
    <2> QED
      BY <2>2, <2>4, <2>5 DEF ViewInv
  <1> QED
    BY <1>2, <1>3, <1>4

\* The view is closed.
LEMMA ViewServeCloseKeeps == ASSUME ViewInv, View!ServeClose PROVE ViewInv'
  <1> USE DEF View!ServeClose, View!ServerFree
  <1>1. ViewShapes'
    BY DEF ViewInv, ViewShapes
  <1>2. Resting'
    BY DEF ViewInv, ViewShapes, Resting
  <1>3. Looking'
    BY DEF ViewInv, ViewShapes, Resting, Looking, Pinned
  <1>4. Underway'
    BY DEF ViewInv, ViewShapes, Resting, Looking, Underway, Pinned, OfView
  <1>5. Showing'
    BY DEF ViewInv, ViewShapes, Resting, Underway, Showing, Pinned, OfView
  <1> QED
    BY <1>1, <1>2, <1>3, <1>4, <1>5 DEF ViewInv

\* An answer arrives, or is lost.
LEMMA ViewArriveKeeps == ASSUME ViewInv, NEW f \in BOOLEAN, View!Arrive(f) PROVE ViewInv'
  <1> USE DEF View!Arrive, View!Queued, View!Ignored, View!Applied, View!Accepted
  <1>1. ViewShapes'
    BY DEF ViewInv, ViewShapes
  <1>2. Resting'
    BY DEF ViewInv, ViewShapes, Resting
  <1>3. Looking'
    BY DEF ViewInv, ViewShapes, Resting, Looking, Pinned
  <1>4. Underway'
    BY DEF ViewInv, ViewShapes, Resting, Looking, Underway, Pinned, OfView
  <1>5. Showing'
    BY DEF ViewInv, ViewShapes, Resting, Underway, Showing, Pinned, OfView
  <1> QED
    BY <1>1, <1>2, <1>3, <1>4, <1>5 DEF ViewInv

\* The widget is hidden or shown.
LEMMA ViewSetVisibleKeeps == ASSUME ViewInv, NEW f \in BOOLEAN, View!SetVisible(f) PROVE ViewInv'
  <1> USE DEF View!SetVisible, View!Shown, View!Queued
  <1>1. ViewShapes'
    BY DEF ViewInv, ViewShapes
  <1>2. Resting'
    BY DEF ViewInv, ViewShapes, Resting
  <1>3. Looking'
    BY DEF ViewInv, ViewShapes, Resting, Looking, Pinned
  <1>4. Underway'
    BY DEF ViewInv, ViewShapes, Resting, Looking, Underway, Pinned, OfView
  <1>5. Showing'
    BY DEF ViewInv, ViewShapes, Resting, Underway, Showing, Pinned, OfView
  <1> QED
    BY <1>1, <1>2, <1>3, <1>4, <1>5 DEF ViewInv

\* The reader picks a run.
LEMMA ViewBindKeeps == ASSUME ViewInv, NEW r, View!Bind(r) PROVE ViewInv'
  <1> USE DEF View!Bind, View!Stopped, View!Aged
  <1>1. ViewShapes'
    BY DEF ViewInv, ViewShapes
  <1>2. Resting'
    BY DEF ViewInv, ViewShapes, Resting
  <1>3. Looking'
    BY DEF ViewInv, ViewShapes, Resting, Looking, Pinned
  <1>4. Underway'
    BY DEF ViewInv, ViewShapes, Resting, Looking, Underway, Pinned, OfView
  <1>5. Showing'
    BY DEF ViewInv, ViewShapes, Resting, Underway, Showing, Pinned, OfView
  <1> QED
    BY <1>1, <1>2, <1>3, <1>4, <1>5 DEF ViewInv

\* The bind is answered, or lost.
LEMMA ViewBindEndsKeeps == ASSUME ViewInv, NEW f \in BOOLEAN, Unheard = FALSE, View!BindEnds(f) PROVE ViewInv'
  <1> USE DEF View!BindEnds, View!NoBind, View!Resume, View!Queued, View!Applied, View!Accepted, View!Aged
  <1>1. ViewShapes'
    BY DEF ViewInv, ViewShapes
  <1>2. Resting'
    BY DEF ViewInv, ViewShapes, Resting
  <1>3. Looking'
    BY DEF ViewInv, ViewShapes, Resting, Looking, Pinned
  <1>4. Underway'
    BY DEF ViewInv, ViewShapes, Resting, Looking, Underway, Pinned, OfView
  <1>5. Showing'
    BY DEF ViewInv, ViewShapes, Resting, Underway, Showing, Pinned, OfView
  <1> QED
    BY <1>1, <1>2, <1>3, <1>4, <1>5 DEF ViewInv

\* The reader closes the widget.
LEMMA ViewCloseKeeps == ASSUME ViewInv, View!Close PROVE ViewInv'
  <1> USE DEF View!Close, View!CleanUp, View!Stopped, View!Aged
  <1>1. ViewShapes'
    BY DEF ViewInv, ViewShapes
  <1>2. Resting'
    BY DEF ViewInv, ViewShapes, Resting
  <1>3. Looking'
    BY DEF ViewInv, ViewShapes, Resting, Looking, Pinned
  <1>4. Underway'
    BY DEF ViewInv, ViewShapes, Resting, Looking, Underway, Pinned, OfView
  <1>5. Showing'
    BY DEF ViewInv, ViewShapes, Resting, Underway, Showing, Pinned, OfView
  <1> QED
    BY <1>1, <1>2, <1>3, <1>4, <1>5 DEF ViewInv

\* The close is answered, or lost.
LEMMA ViewCloseEndsKeeps == ASSUME ViewInv, NEW f \in BOOLEAN, View!CloseEnds(f) PROVE ViewInv'
  <1> USE DEF View!CloseEnds, View!CleanUp, View!Stopped, View!Aged
  <1>1. ViewShapes'
    BY DEF ViewInv, ViewShapes
  <1>2. Resting'
    BY DEF ViewInv, ViewShapes, Resting
  <1>3. Looking'
    BY DEF ViewInv, ViewShapes, Resting, Looking, Pinned
  <1>4. Underway'
    BY DEF ViewInv, ViewShapes, Resting, Looking, Underway, Pinned, OfView
  <1>5. Showing'
    BY DEF ViewInv, ViewShapes, Resting, Underway, Showing, Pinned, OfView
  <1> QED
    BY <1>1, <1>2, <1>3, <1>4, <1>5 DEF ViewInv

\* The host removes the widget.
LEMMA ViewDestroyKeeps == ASSUME ViewInv, View!Destroy PROVE ViewInv'
  <1> USE DEF View!Destroy, View!CleanUp, View!Stopped, View!Aged
  <1>1. ViewShapes'
    BY DEF ViewInv, ViewShapes
  <1>2. Resting'
    BY DEF ViewInv, ViewShapes, Resting
  <1>3. Looking'
    BY DEF ViewInv, ViewShapes, Resting, Looking, Pinned
  <1>4. Underway'
    BY DEF ViewInv, ViewShapes, Resting, Looking, Underway, Pinned, OfView
  <1>5. Showing'
    BY DEF ViewInv, ViewShapes, Resting, Underway, Showing, Pinned, OfView
  <1> QED
    BY <1>1, <1>2, <1>3, <1>4, <1>5 DEF ViewInv

\* Every step of the widget keeps the invariant, if each pin is one it hears of.
LEMMA ViewKeeps ==
  ASSUME Unheard = FALSE, ViewInv, View!Next \/ UNCHANGED viewVars PROVE ViewInv'
  <1>1. CASE UNCHANGED viewVars
    BY <1>1 DEF viewVars, View!trackingVars, ViewInv, ViewShapes, Resting, Looking, Underway, Showing,
       Pinned, OfView
  <1>2. CASE View!NewRoot \/ View!ReplaceDatabase \/ View!Expire \/ View!Tick \/ View!Serving \/ View!Close
             \/ View!Destroy
    BY <1>2, ViewNewRootKeeps, ViewReplaceDatabaseKeeps, ViewExpireKeeps, ViewTickKeeps, ViewLookKeeps,
       ViewServeKeeps, ViewServeBindKeeps, ViewServeCloseKeeps, ViewCloseKeeps, ViewDestroyKeeps
       DEF View!Serving
  <1>3. ASSUME NEW r, \/ View!Event(r) \/ View!FollowRun(r) \/ View!Bind(r)
                      \/ \E f \in BOOLEAN : View!Reopen(r, f)
        PROVE  ViewInv'
    BY <1>3, ViewEventKeeps, ViewFollowRunKeeps, ViewBindKeeps, ViewReopenKeeps
  <1>4. ASSUME NEW f \in BOOLEAN, \/ View!Arrive(f) \/ View!BindEnds(f) \/ View!CloseEnds(f)
                                  \/ View!SetVisible(f)
        PROVE  ViewInv'
    BY <1>4, ViewArriveKeeps, ViewBindEndsKeeps, ViewCloseEndsKeeps, ViewSetVisibleKeeps
  <1> QED
    BY <1>1, <1>2, <1>3, <1>4 DEF View!Next

\* A widget with no bind in flight shows what is pinned.
LEMMA ViewPromise == ASSUME ViewInv PROVE View!PinnedIsShown
  BY DEF ViewInv, Showing, Pinned, View!PinnedIsShown
-----------------------------------------------------------------------------
(* The Codex adapter.                                                      *)

\* The modules of the adapter count with the same Cardinality.
LEMMA SameCount == ASSUME NEW S PROVE Adapter!Cardinality(S) = Cardinality(S)
  BY DEF Adapter!Cardinality, Cardinality

\* Each place of a finite set of numbers has a rank in it, and each rank its place.
LEMMA Ranks ==
  ASSUME NEW n \in Nat, NEW K \in SUBSET (1..n)
  PROVE  LET rank(j) == Cardinality({i \in K : i <= j}) IN
         /\ Cardinality(K) \in Nat
         /\ \A k \in 1..Cardinality(K) : \E j \in K : rank(j) = k
         /\ \A j \in K : rank(j) \in 1..Cardinality(K)
         /\ \A i, j \in K : rank(i) = rank(j) => i = j
  <1> DEFINE Below(j) == {i \in K : i <= j}
             rank(j) == Cardinality(Below(j))
             r == [j \in K |-> rank(j)]
             N == 1..Cardinality(K)
  <1>0. IsFiniteSet(1..n) /\ K \subseteq Nat
    BY FS_Interval
  <1>1. IsFiniteSet(K) /\ Cardinality(K) \in Nat
    BY <1>0, FS_Subset, FS_CardinalityType
  <1>2. ASSUME NEW j \in K PROVE IsFiniteSet(Below(j)) /\ rank(j) \in N
    <2>1. /\ IsFiniteSet(Below(j)) /\ Cardinality(Below(j)) <= Cardinality(K)
          /\ Cardinality(Below(j)) \in Nat
      BY <1>1, FS_Subset, FS_CardinalityType
    <2>2. Below(j) # {}
      OBVIOUS
    <2>3. Cardinality(Below(j)) # 0
      BY <2>1, <2>2, FS_EmptySet
    <2> QED
      BY <1>1, <2>1, <2>3
  <1>3. ASSUME NEW i \in K, NEW j \in K, i < j PROVE rank(i) # rank(j)
    <2>1. \A x \in K : x <= i => x <= j
      BY <1>0, <1>3
    <2>2. j <= j /\ ~(j <= i)
      BY <1>0, <1>3
    <2>3. Below(i) \in SUBSET Below(j) /\ j \in Below(j) /\ j \notin Below(i)
      BY <2>1, <2>2
    <2> QED
      BY <1>2, <2>3, FS_Subset
  <1>4. ASSUME NEW i \in K, NEW j \in K, rank(i) = rank(j) PROVE i = j
    <2>1. i < j \/ j < i \/ i = j
      OBVIOUS
    <2> QED
      BY <1>3, <1>4, <2>1
  <1>5. r \in Injection(K, N)
    BY <1>2, <1>4 DEF Injection, IsInjective
  <1>6. IsFiniteSet(N) /\ Cardinality(N) = Cardinality(K)
    BY <1>1, FS_Interval
  <1>7. r \in Surjection(K, N)
    BY <1>5, <1>6, FS_Injection
  <1>8. \A k \in N : \E j \in K : rank(j) = k
    BY <1>7 DEF Surjection
  <1> QED
    BY <1>1, <1>2, <1>4, <1>8

\* What is left of a sequence has the elements at the places kept, each once.
LEMMA Kept ==
  ASSUME NEW X, NEW s \in Seq(X), NEW K \in SUBSET (DOMAIN s)
  PROVE  /\ Adapter!Keep(s, K) \in Seq(X)
         /\ Adapter!ToSet(Adapter!Keep(s, K)) = {s[j] : j \in K}
         /\ (\A i, j \in DOMAIN s : s[i] = s[j] => i = j) =>
               \A k, m \in DOMAIN Adapter!Keep(s, K) :
                  Adapter!Keep(s, K)[k] = Adapter!Keep(s, K)[m] => k = m
  <1> DEFINE n == Cardinality(K)
             rank(j) == Cardinality({i \in K : i <= j})
             place(k) == CHOOSE j \in K : rank(j) = k
             kept == [k \in 1..n |-> s[place(k)]]
  <1>1. Len(s) \in Nat /\ DOMAIN s = 1..Len(s)
    OBVIOUS
  <1>2. /\ n \in Nat
        /\ \A k \in 1..n : \E j \in K : rank(j) = k
        /\ \A j \in K : rank(j) \in 1..n
        /\ \A i, j \in K : rank(i) = rank(j) => i = j
    BY <1>1, Ranks
  <1>3. Adapter!Keep(s, K) = kept
    BY DEF Adapter!Keep, Adapter!Cardinality, Cardinality
  <1> HIDE DEF n, rank
  <1>4. \A k \in 1..n : place(k) \in K /\ rank(place(k)) = k
    BY <1>2
  <1>5. \A j \in K : place(rank(j)) = j
    BY <1>2, <1>4
  <1> HIDE DEF place
  <1>6. kept \in [1..n -> X]
    BY <1>1, <1>4
  <1>7. kept \in Seq(X) /\ DOMAIN kept = 1..n
    BY <1>2, <1>6
  <1>8. {kept[k] : k \in 1..n} = {s[j] : j \in K}
    BY <1>2, <1>4, <1>5
  <1>9. ASSUME \A i, j \in DOMAIN s : s[i] = s[j] => i = j
        PROVE  \A k, m \in 1..n : kept[k] = kept[m] => k = m
    BY <1>4, <1>9
  <1> QED
    <2>1. Adapter!ToSet(kept) = {kept[k] : k \in 1..n}
      BY <1>7 DEF Adapter!ToSet
    <2> HIDE DEF kept
    <2> QED
      BY <1>3, <1>7, <1>8, <1>9, <2>1
Places == {"idle", "refused", "shares", "turnedAway", "caught", "queued", "admitted", "ready", "turn",
           "answered", "judging", "publishing", "ending", "done"}
Outcomes == {"none", "result", "partial", "stopped", "failed", "unconfirmed", "error", "fulfilled", "rejected"}

AdapterTypes ==
    /\ runs \in Seq(Calls) /\ waiters \in Seq(Calls) /\ settled \subseteq Calls
    /\ from \in [Calls -> Calls \cup {None}] /\ activeByTask \in [Tasks -> Calls \cup {None}]
    /\ pc \in [Calls -> Places] /\ mode \in [Calls -> {"resume", "start", "repair"}]
    /\ explicit \in [Calls -> {"yes", "no", "none"}] /\ outcome \in [Calls -> Outcomes]
    /\ report \in [Calls -> {"none", "running", "stopped", "unconfirmed"}]
    /\ runtime \in [Calls -> {"none", "live", "ended"}]

\* Who waits is queued, and waits once.
Queueing ==
    /\ \A k \in DOMAIN waiters : pc[waiters[k]] = "queued"
    /\ \A k, m \in DOMAIN waiters : waiters[k] = waiters[m] => k = m

\* What is at work is in the cache, however many entries were trimmed, and holds its task.
AtWork ==
    /\ \A c \in Calls : Adapter!Executing(c) =>
          /\ c \in Adapter!ToSet(runs) /\ c \notin settled
          /\ pc[c] = "turnedAway" \/ activeByTask[TaskOf[c]] = c
    /\ \A c, d \in Calls : c # d /\ Adapter!Executing(c) /\ Adapter!Executing(d) => KeyOf[c] # KeyOf[d]
    /\ \A c \in Calls : pc[c] = "idle" => c \notin settled
    /\ \A c \in Calls : from[c] # None => KeyOf[from[c]] = KeyOf[c] /\ BodyOf[from[c]] = BodyOf[c]

Asked == {"ready", "turn", "answered", "judging", "publishing"}
Unasked == {"idle", "refused", "shares", "turnedAway", "queued", "admitted"}
Over == {"result", "failed", "partial", "stopped"}

\* What is taken for the end of a runtime, at whatever step, is none while one is alive, if the client
\* confirms stops; and no such word of an earlier turn is left when one that reports nothing begins.
Honest(c) ==
    /\ runtime[c] = "live" =>
          pc[c] \in {"turn", "caught", "ending", "done"} /\ (c \in launched \/ pc[c] # "caught")
    /\ pc[c] \in Asked => c \in launched
    /\ /\ Confirming
       /\ \/ c \in confirmed \/ report[c] = "stopped" \/ outcome[c] = "fulfilled"
          \/ pc[c] = "caught" /\ explicit[c] = "yes"
          \/ pc[c] = "ending" /\ outcome[c] \in Over
       => runtime[c] # "live"
    /\ c \in Silent /\ (pc[c] = "turn" \/ (pc[c] = "ready" /\ mode[c] # "repair")) =>
          report[c] # "stopped" /\ c \notin confirmed
    /\ pc[c] \in Unasked => report[c] = "none" /\ c \notin confirmed
    /\ outcome[c] # "none" => pc[c] \in {"ending", "done"}
    /\ outcome[c] = "fulfilled" => pc[c] = "done"

AdapterInv == AdapterTypes /\ Queueing /\ AtWork /\ (\A c \in Calls : Honest(c))
\* At first nobody is at work.
LEMMA AdapterInit == ASSUME Adapter!Init PROVE AdapterInv
  <1> USE DEF Adapter!Init
  <1>1. AdapterTypes
    BY DEF AdapterTypes, Places, Outcomes
  <1>2. Queueing /\ AtWork
    BY DEF Queueing, AtWork, Adapter!Executing
  <1>3. ASSUME NEW c \in Calls PROVE Honest(c)
    BY DEF Honest, Asked, Unasked
  <1> QED
    BY <1>1, <1>2, <1>3 DEF AdapterInv

\* Trimming keeps what has not settled, and adds nothing.
LEMMA Trimmed ==
  ASSUME NEW s \in Seq(Calls), NEW done
  PROVE  /\ Adapter!Trim(s, done) \in Seq(Calls)
         /\ Adapter!ToSet(Adapter!Trim(s, done)) \subseteq Adapter!ToSet(s)
         /\ Adapter!ToSet(s) \ done \subseteq Adapter!ToSet(Adapter!Trim(s, done))
  <1> DEFINE excess == IF Len(s) > MaxEntries THEN Len(s) - MaxEntries ELSE 0
             older(k) == Adapter!Cardinality({j \in 1..k : s[j] \in done})
             K == {k \in DOMAIN s : s[k] \notin done \/ older(k) > excess}
  <1>1. Adapter!Trim(s, done) = Adapter!Keep(s, K)
    BY DEF Adapter!Trim
  <1>2. K \in SUBSET (DOMAIN s) /\ \A k \in DOMAIN s : s[k] \notin done => k \in K
    OBVIOUS
  <1> HIDE DEF K
  <1>3. /\ Adapter!Keep(s, K) \in Seq(Calls)
        /\ Adapter!ToSet(Adapter!Keep(s, K)) = {s[j] : j \in K}
    BY <1>2, Kept
  <1>4. Adapter!ToSet(s) = {s[j] : j \in DOMAIN s}
    BY DEF Adapter!ToSet
  <1> QED
    BY <1>1, <1>2, <1>3, <1>4

\* Whatever becomes of others, a queue that is left alone holds those that stay queued.
LEMMA QueueStays ==
  ASSUME AdapterInv, waiters' = waiters, \A d \in Calls : pc[d] = "queued" => pc'[d] = "queued"
  PROVE  Queueing'
  <1>1. \A k \in DOMAIN waiters : waiters[k] \in Calls
    BY DEF AdapterInv, AdapterTypes
  <1> QED
    BY <1>1 DEF AdapterInv, Queueing

\* Steps within an execution leave cache and tasks as they are.
LEMMA WorkStays ==
  ASSUME AdapterInv, UNCHANGED <<runs, settled, from, activeByTask>>,
         \A d \in Calls : \/ pc'[d] = pc[d]
                          \/ /\ Adapter!Executing(d) /\ pc[d] # "turnedAway"
                             /\ pc'[d] \notin {"idle", "refused", "shares", "done", "turnedAway"}
  PROVE  AtWork'
  <1>1. \A d \in Calls : /\ Adapter!Executing(d)' <=> Adapter!Executing(d)
                         /\ pc'[d] = "idle" <=> pc[d] = "idle"
                         /\ pc'[d] = "turnedAway" <=> pc[d] = "turnedAway"
    BY DEF Adapter!Executing
  <1> QED
    BY <1>1 DEF AdapterInv, AtWork

\* What of an execution its honesty depends on.
Same(d) ==
    /\ pc'[d] = pc[d] /\ mode'[d] = mode[d] /\ explicit'[d] = explicit[d] /\ report'[d] = report[d]
    /\ runtime'[d] = runtime[d] /\ outcome'[d] = outcome[d]
    /\ (d \in launched' <=> d \in launched) /\ (d \in confirmed' <=> d \in confirmed)

\* A call that is left alone stays honest.
LEMMA HonestStays == ASSUME NEW d, Honest(d), Same(d) PROVE Honest(d)'
  BY DEF Honest, Same

\* A step of one execution that has its slot.
LEMMA OwnStep ==
  ASSUME AdapterInv, NEW c \in Calls, pc[c] \in Asked \cup {"admitted", "caught"},
         pc'[c] \in Asked \cup {"caught", "ending"},
         UNCHANGED <<runs, settled, from, activeByTask, waiters>>, AdapterTypes',
         \A d \in Calls : d # c => Same(d),
         Honest(c)'
  PROVE  AdapterInv'
  <1>1. \A d \in Calls : d # c => pc'[d] = pc[d]
    BY DEF Same
  <1>2. Queueing'
    BY <1>1, QueueStays DEF Asked
  <1>3. AtWork'
    <2>1. /\ Adapter!Executing(c) /\ pc[c] # "turnedAway"
          /\ pc'[c] \notin {"idle", "refused", "shares", "done", "turnedAway"}
      BY DEF Adapter!Executing, Asked
    <2> QED
      BY <1>1, <2>1, WorkStays
  <1>4. \A d \in Calls : Honest(d)'
    BY HonestStays DEF AdapterInv
  <1> QED
    BY <1>2, <1>3, <1>4 DEF AdapterInv

\* An execution begins.
LEMMA BeginKeeps == ASSUME AdapterInv, NEW c \in Calls, Adapter!Begin(c) PROVE AdapterInv'
  <1> USE DEF Adapter!Begin, Adapter!Goto, Adapter!Throw, Adapter!Say, Adapter!Told,
           Adapter!cache, Adapter!slotVars, Adapter!turnVars
  <1>1. /\ UNCHANGED <<runs, settled, from, activeByTask, waiters>>
        /\ AdapterTypes /\ Honest(c) /\ pc[c] \in Asked \cup {"admitted", "caught"}
    BY DEF AdapterInv, Asked
  <1>2. AdapterTypes'
    BY <1>1 DEF AdapterTypes, Places, Outcomes
  <1>3. pc'[c] \in Asked \cup {"caught", "ending"} /\ \A d \in Calls : d # c => Same(d)
    BY <1>1 DEF AdapterTypes, Same, Asked
  <1>4. Honest(c)'
    BY <1>1 DEF AdapterTypes, Honest, Asked, Unasked, Over
  <1> QED
    BY <1>1, <1>2, <1>3, <1>4, OwnStep

\* The client is asked for a turn; a repair gives up the proof of the turn before it.
LEMMA AskClientKeeps == ASSUME AdapterInv, NEW c \in Calls, Adapter!AskClient(c) PROVE AdapterInv'
  <1> USE DEF Adapter!AskClient, Adapter!Goto, Adapter!Throw, Adapter!Say, Adapter!Told,
           Adapter!cache, Adapter!slotVars, Adapter!turnVars
  <1>1. /\ UNCHANGED <<runs, settled, from, activeByTask, waiters>>
        /\ AdapterTypes /\ Honest(c) /\ pc[c] \in Asked \cup {"admitted", "caught"}
    BY DEF AdapterInv, Asked
  <1>2. AdapterTypes'
    <2>1. pc' \in [Calls -> Places]
      BY <1>1 DEF AdapterTypes, Places
    <2>2. explicit' \in [Calls -> {"yes", "no", "none"}]
      BY <1>1 DEF AdapterTypes
    <2>3. report' \in [Calls -> {"none", "running", "stopped", "unconfirmed"}]
      BY <1>1 DEF AdapterTypes
    <2>4. runtime' \in [Calls -> {"none", "live", "ended"}] /\ UNCHANGED <<mode, outcome>>
      BY <1>1 DEF AdapterTypes
    <2> QED
      BY <1>1, <2>1, <2>2, <2>3, <2>4 DEF AdapterTypes
  <1>3. pc'[c] \in Asked \cup {"caught", "ending"} /\ \A d \in Calls : d # c => Same(d)
    BY <1>1 DEF AdapterTypes, Same, Asked
  <1>4. Honest(c)'
    BY <1>1 DEF AdapterTypes, Honest, Asked, Unasked, Over
  <1> QED
    BY <1>1, <1>2, <1>3, <1>4, OwnStep

\* The client launches a turn.
LEMMA ClientLaunchesKeeps == ASSUME AdapterInv, NEW c \in Calls, Adapter!ClientLaunches(c) PROVE AdapterInv'
  <1> USE DEF Adapter!ClientLaunches, Adapter!Goto, Adapter!Throw, Adapter!Say, Adapter!Told,
           Adapter!cache, Adapter!slotVars, Adapter!turnVars
  <1>1. /\ UNCHANGED <<runs, settled, from, activeByTask, waiters>>
        /\ AdapterTypes /\ Honest(c) /\ pc[c] \in Asked \cup {"admitted", "caught"}
    BY DEF AdapterInv, Asked
  <1>2. AdapterTypes'
    BY <1>1 DEF AdapterTypes, Places, Outcomes
  <1>3. pc'[c] \in Asked \cup {"caught", "ending"} /\ \A d \in Calls : d # c => Same(d)
    BY <1>1 DEF AdapterTypes, Same, Asked
  <1>4. Honest(c)'
    BY <1>1 DEF AdapterTypes, Honest, Asked, Unasked, Over
  <1> QED
    BY <1>1, <1>2, <1>3, <1>4, OwnStep

\* The client answers.
LEMMA ClientReturnsKeeps == ASSUME AdapterInv, NEW c \in Calls, Adapter!ClientReturns(c) PROVE AdapterInv'
  <1> USE DEF Adapter!ClientReturns, Adapter!Goto, Adapter!Throw, Adapter!Say, Adapter!Told,
           Adapter!cache, Adapter!slotVars, Adapter!turnVars
  <1>1. /\ UNCHANGED <<runs, settled, from, activeByTask, waiters>>
        /\ AdapterTypes /\ Honest(c) /\ pc[c] \in Asked \cup {"admitted", "caught"}
    BY DEF AdapterInv, Asked
  <1>2. AdapterTypes'
    BY <1>1 DEF AdapterTypes, Places, Outcomes
  <1>3. pc'[c] \in Asked \cup {"caught", "ending"} /\ \A d \in Calls : d # c => Same(d)
    BY <1>1 DEF AdapterTypes, Same, Asked
  <1>4. Honest(c)'
    BY <1>1 DEF AdapterTypes, Honest, Asked, Unasked, Over
  <1> QED
    BY <1>1, <1>2, <1>3, <1>4, OwnStep

\* The client fails, and claims a stop only of what has stopped.
LEMMA ClientFailsKeeps == ASSUME AdapterInv, NEW c \in Calls, Adapter!ClientFails(c) PROVE AdapterInv'
  <1> USE DEF Adapter!ClientFails, Adapter!Goto, Adapter!Throw, Adapter!Say, Adapter!Told,
           Adapter!cache, Adapter!slotVars, Adapter!turnVars
  <1>1. /\ UNCHANGED <<runs, settled, from, activeByTask, waiters>>
        /\ AdapterTypes /\ Honest(c) /\ pc[c] \in Asked \cup {"admitted", "caught"}
    BY DEF AdapterInv, Asked
  <1>2. AdapterTypes'
    <2>0. pc' = [pc EXCEPT ![c] = "caught"]
      OBVIOUS
    <2>1. pc' \in [Calls -> Places]
      BY <1>1, <2>0 DEF AdapterTypes, Places
    <2>2. explicit' \in [Calls -> {"yes", "no", "none"}]
      BY <1>1 DEF AdapterTypes
    <2>3. report' \in [Calls -> {"none", "running", "stopped", "unconfirmed"}]
      BY <1>1 DEF AdapterTypes
    <2>4. outcome' \in [Calls -> Outcomes] /\ UNCHANGED <<mode, runtime>>
      BY <1>1 DEF AdapterTypes, Outcomes
    <2> QED
      BY <1>1, <2>1, <2>2, <2>3, <2>4 DEF AdapterTypes
  <1>3. pc'[c] \in Asked \cup {"caught", "ending"} /\ \A d \in Calls : d # c => Same(d)
    BY <1>1 DEF AdapterTypes, Same, Asked
  <1>4. Honest(c)'
    BY <1>1 DEF AdapterTypes, Honest, Asked, Unasked, Over
  <1> QED
    BY <1>1, <1>2, <1>3, <1>4, OwnStep

\* A stale thread is replaced.
LEMMA ReplaceStaleKeeps == ASSUME AdapterInv, NEW c \in Calls, Adapter!ReplaceStale(c) PROVE AdapterInv'
  <1> USE DEF Adapter!ReplaceStale, Adapter!Goto, Adapter!Throw, Adapter!Say, Adapter!Told,
           Adapter!cache, Adapter!slotVars, Adapter!turnVars
  <1>1. /\ UNCHANGED <<runs, settled, from, activeByTask, waiters>>
        /\ AdapterTypes /\ Honest(c) /\ pc[c] \in Asked \cup {"admitted", "caught"}
    BY DEF AdapterInv, Asked
  <1>2. AdapterTypes'
    BY <1>1 DEF AdapterTypes, Places, Outcomes
  <1>3. pc'[c] \in Asked \cup {"caught", "ending"} /\ \A d \in Calls : d # c => Same(d)
    BY <1>1 DEF AdapterTypes, Same, Asked
  <1>4. Honest(c)'
    BY <1>1 DEF AdapterTypes, Honest, Asked, Unasked, Over
  <1> QED
    BY <1>1, <1>2, <1>3, <1>4, OwnStep

\* The handle is saved, and the stop of the turn reported.
LEMMA AnsweredKeeps == ASSUME AdapterInv, NEW c \in Calls, Adapter!Answered(c) PROVE AdapterInv'
  <1> USE DEF Adapter!Answered, Adapter!Goto, Adapter!Throw, Adapter!Say, Adapter!Told,
           Adapter!cache, Adapter!slotVars, Adapter!turnVars
  <1>1. /\ UNCHANGED <<runs, settled, from, activeByTask, waiters>>
        /\ AdapterTypes /\ Honest(c) /\ pc[c] \in Asked \cup {"admitted", "caught"}
    BY DEF AdapterInv, Asked
  <1>2. AdapterTypes'
    <2>1. pc' \in [Calls -> Places]
      BY <1>1 DEF AdapterTypes, Places
    <2>2. explicit' \in [Calls -> {"yes", "no", "none"}]
      BY <1>1 DEF AdapterTypes
    <2>3. report' \in [Calls -> {"none", "running", "stopped", "unconfirmed"}]
      BY <1>1 DEF AdapterTypes
    <2>4. outcome' \in [Calls -> Outcomes] /\ UNCHANGED <<mode, runtime>>
      BY <1>1 DEF AdapterTypes, Outcomes
    <2> QED
      BY <1>1, <2>1, <2>2, <2>3, <2>4 DEF AdapterTypes
  <1>3. pc'[c] \in Asked \cup {"caught", "ending"} /\ \A d \in Calls : d # c => Same(d)
    BY <1>1 DEF AdapterTypes, Same, Asked
  <1>4. Honest(c)'
    BY <1>1 DEF AdapterTypes, Honest, Asked, Unasked, Over
  <1> QED
    BY <1>1, <1>2, <1>3, <1>4, OwnStep

\* The answer is judged.
LEMMA JudgeKeeps == ASSUME AdapterInv, NEW c \in Calls, Adapter!Judge(c) PROVE AdapterInv'
  <1> USE DEF Adapter!Judge, Adapter!End, Adapter!Goto, Adapter!Throw, Adapter!Say, Adapter!Told,
           Adapter!cache, Adapter!slotVars, Adapter!turnVars
  <1>1. /\ UNCHANGED <<runs, settled, from, activeByTask, waiters>>
        /\ AdapterTypes /\ Honest(c) /\ pc[c] \in Asked \cup {"admitted", "caught"}
    BY DEF AdapterInv, Asked
  <1>2. AdapterTypes'
    BY <1>1 DEF AdapterTypes, Places, Outcomes
  <1>3. pc'[c] \in Asked \cup {"caught", "ending"} /\ \A d \in Calls : d # c => Same(d)
    BY <1>1 DEF AdapterTypes, Same, Asked
  <1>4. Honest(c)'
    BY <1>1 DEF AdapterTypes, Honest, Asked, Unasked, Over
  <1> QED
    BY <1>1, <1>2, <1>3, <1>4, OwnStep

\* The deliverable is published.
LEMMA PublishKeeps == ASSUME AdapterInv, NEW c \in Calls, Adapter!Publish(c) PROVE AdapterInv'
  <1> USE DEF Adapter!Publish, Adapter!End, Adapter!Goto, Adapter!Throw, Adapter!Say, Adapter!Told,
           Adapter!cache, Adapter!slotVars, Adapter!turnVars
  <1>1. /\ UNCHANGED <<runs, settled, from, activeByTask, waiters>>
        /\ AdapterTypes /\ Honest(c) /\ pc[c] \in Asked \cup {"admitted", "caught"}
    BY DEF AdapterInv, Asked
  <1>2. AdapterTypes'
    BY <1>1 DEF AdapterTypes, Places, Outcomes
  <1>3. pc'[c] \in Asked \cup {"caught", "ending"} /\ \A d \in Calls : d # c => Same(d)
    BY <1>1 DEF AdapterTypes, Same, Asked
  <1>4. Honest(c)'
    BY <1>1 DEF AdapterTypes, Honest, Asked, Unasked, Over
  <1> QED
    BY <1>1, <1>2, <1>3, <1>4, OwnStep

\* What was thrown is caught; only what is known to have stopped is reported so.
LEMMA CatchKeeps == ASSUME AdapterInv, NEW c \in Calls, Adapter!Catch(c) PROVE AdapterInv'
  <1> USE DEF Adapter!Catch, Adapter!StopKnown, Adapter!End, Adapter!Goto, Adapter!Throw, Adapter!Say, Adapter!Told,
           Adapter!cache, Adapter!slotVars, Adapter!turnVars
  <1>1. /\ UNCHANGED <<runs, settled, from, activeByTask, waiters>>
        /\ AdapterTypes /\ Honest(c) /\ pc[c] \in Asked \cup {"admitted", "caught"}
    BY DEF AdapterInv, Asked
  <1>2. AdapterTypes'
    <2>1. pc' \in [Calls -> Places]
      BY <1>1 DEF AdapterTypes, Places
    <2>2. explicit' \in [Calls -> {"yes", "no", "none"}]
      BY <1>1 DEF AdapterTypes
    <2>3. report' \in [Calls -> {"none", "running", "stopped", "unconfirmed"}]
      BY <1>1 DEF AdapterTypes
    <2>4. outcome' \in [Calls -> Outcomes] /\ UNCHANGED <<mode, runtime>>
      BY <1>1 DEF AdapterTypes, Outcomes
    <2> QED
      BY <1>1, <2>1, <2>2, <2>3, <2>4 DEF AdapterTypes
  <1>3. pc'[c] \in Asked \cup {"caught", "ending"} /\ \A d \in Calls : d # c => Same(d)
    BY <1>1 DEF AdapterTypes, Same, Asked
  <1>4. Honest(c)'
    BY <1>1 DEF AdapterTypes, Honest, Asked, Unasked, Over
  <1> QED
    BY <1>1, <1>2, <1>3, <1>4, OwnStep
\* A runtime ends by itself.
LEMMA EndKeeps == ASSUME AdapterInv, NEW c \in Calls, Adapter!RuntimeEnds(c) PROVE AdapterInv'
  <1> USE DEF Adapter!RuntimeEnds, Adapter!cache, Adapter!slotVars
  <1>1. AdapterTypes /\ Honest(c)
    BY DEF AdapterInv
  <1>2. AdapterTypes'
    BY <1>1 DEF AdapterTypes
  <1>3. Honest(c)' /\ \A d \in Calls : d # c => Same(d)
    BY <1>1 DEF AdapterTypes, Honest, Same
  <1>4. Queueing' /\ AtWork'
    BY QueueStays, WorkStays
  <1> QED
    BY <1>2, <1>3, <1>4, HonestStays DEF AdapterInv

\* Who waits leaves the queue when its signal aborts.
LEMMA AbortKeeps ==
  ASSUME AdapterInv, NEW S, Adapter!AbortEffect(S),
         UNCHANGED <<runs, settled, from, activeByTask, mode, launched, report, runtime, confirmed,
                     explicit, outcome>>
  PROVE  AdapterInv'
  <1> DEFINE K == {k \in DOMAIN waiters : waiters[k] \notin S}
  <1>1. /\ pc' = [c \in Calls |-> IF c \in S /\ pc[c] = "queued" THEN "caught" ELSE pc[c]]
        /\ waiters' = Adapter!Keep(waiters, K) /\ K \in SUBSET (DOMAIN waiters)
        /\ AdapterTypes /\ Queueing
    BY DEF Adapter!AbortEffect, AdapterInv
  <1>2. waiters \in Seq(Calls)
    BY <1>1 DEF AdapterTypes
  <1>3. waiters' \in Seq(Calls) /\ Adapter!ToSet(waiters') = {waiters[j] : j \in K}
    BY <1>1, <1>2, Kept
  <1>4. AdapterTypes'
    BY <1>1, <1>3 DEF AdapterTypes, Places
  <1>5. Queueing'
    <2>1. \A k, m \in DOMAIN waiters' : waiters'[k] = waiters'[m] => k = m
      BY <1>1, <1>2, Kept DEF Queueing
    <2>2. ASSUME NEW k \in DOMAIN waiters' PROVE pc'[waiters'[k]] = "queued"
      <3>1. waiters'[k] \in {waiters[j] : j \in K}
        BY <1>3 DEF Adapter!ToSet
      <3>2. PICK j \in K : waiters'[k] = waiters[j]
        BY <3>1
      <3>3. waiters[j] \in Calls /\ waiters[j] \notin S /\ pc[waiters[j]] = "queued"
        BY <1>1, <1>2 DEF Queueing
      <3> QED
        BY <1>1, <3>2, <3>3
    <2> QED
      BY <2>1, <2>2 DEF Queueing
  <1>6. AtWork'
    BY <1>1, WorkStays DEF Adapter!Executing
  <1>7. ASSUME NEW c \in Calls PROVE Honest(c)'
    <2>1. Honest(c)
      BY DEF AdapterInv
    <2>2. CASE pc'[c] = pc[c]
      BY <2>1, <2>2, HonestStays DEF Same
    <2>3. CASE pc[c] = "queued" /\ pc'[c] = "caught"
      BY <2>1, <2>3 DEF Honest, Asked, Unasked
    <2> QED
      BY <1>1, <2>2, <2>3
  <1> QED
    BY <1>4, <1>5, <1>6, <1>7 DEF AdapterInv

\* A call that is refused, or shares the promise of another.
LEMMA ReplayKeeps == ASSUME AdapterInv, NEW c \in Calls, Adapter!Replay(c) PROVE AdapterInv'
  <1> USE RuntimesAssumption DEF Adapter!Sane
  <1>1. /\ pc[c] = "idle" /\ AdapterTypes /\ Queueing /\ AtWork /\ Honest(c)
        /\ UNCHANGED <<runs, settled, activeByTask, waiters, mode, launched, report, runtime, confirmed,
                       explicit, outcome>>
    BY DEF Adapter!Replay, Adapter!slotVars, Adapter!turnVars, AdapterInv
  <1>2. \E l \in {"refused", "shares"} : pc' = [pc EXCEPT ![c] = l]
    BY DEF Adapter!Replay, Adapter!Goto
  <1>3. PICK o \in Calls \cup {None} :
           /\ from' = [from EXCEPT ![c] = o]
           /\ o # None => KeyOf[o] = KeyOf[c] /\ BodyOf[o] = BodyOf[c]
    <2> DEFINE same == {r \in Adapter!Known(c) : disposal = "no" /\ BodyOf[r] = BodyOf[c]}
    <2>1. same \subseteq Calls /\ \A r \in same : KeyOf[r] = KeyOf[c] /\ BodyOf[r] = BodyOf[c]
      BY <1>1 DEF Adapter!Known, Adapter!ToSet, AdapterTypes
    <2>2. from' = [from EXCEPT ![c] = IF same = {} THEN None ELSE CHOOSE r \in same : TRUE]
      BY DEF Adapter!Replay
    <2> HIDE DEF same
    <2>3. CASE same = {}
      BY <2>2, <2>3
    <2>4. CASE same # {}
      BY <2>1, <2>2, <2>4
    <2> QED
      BY <2>3, <2>4
  <1>4. AdapterTypes'
    BY <1>1, <1>2, <1>3 DEF AdapterTypes, Places
  <1>5. \A d \in Calls : Adapter!Executing(d)' <=> Adapter!Executing(d)
    BY <1>1, <1>2 DEF Adapter!Executing, AdapterTypes
  <1>6. Queueing'
    BY <1>1, <1>2, QueueStays DEF AdapterTypes
  <1>7. AtWork'
    BY <1>1, <1>2, <1>3, <1>5 DEF AtWork, AdapterTypes
  <1>8. ASSUME NEW d \in Calls PROVE Honest(d)'
    <2>1. CASE d # c
      BY <1>1, <1>2, <2>1, HonestStays DEF Same, AdapterInv, AdapterTypes
    <2>2. CASE d = c
      BY <1>1, <1>2, <2>2 DEF Honest, Asked, Unasked, AdapterTypes
    <2> QED
      BY <2>1, <2>2
  <1> QED
    BY <1>4, <1>6, <1>7, <1>8 DEF AdapterInv

\* A new execution, of a key that nobody is at work for.
LEMMA InvokeKeeps == ASSUME AdapterInv, NEW c \in Calls, Adapter!Invoke(c) PROVE AdapterInv'
  <1> USE RuntimesAssumption DEF Adapter!Sane
  <1>1. /\ pc[c] = "idle" /\ AdapterTypes /\ Queueing /\ AtWork /\ Honest(c)
        /\ UNCHANGED <<settled, mode, launched, report, runtime, confirmed, outcome>>
        /\ from' = [from EXCEPT ![c] = c]
    BY DEF Adapter!Invoke, Adapter!turnVars, AdapterInv
  <1>2. runs' \in Seq(Calls) /\ c \in Adapter!ToSet(runs')
        /\ \A d \in Adapter!ToSet(runs) : d \notin settled => d \in Adapter!ToSet(runs')
    <2> DEFINE s == Append(runs, c)
    <2>1. s \in Seq(Calls) /\ Len(s) = Len(runs) + 1 /\ Len(runs) \in Nat
      BY <1>1 DEF AdapterTypes
    <2>2. s[Len(s)] = c /\ \A i \in DOMAIN runs : i \in DOMAIN s /\ s[i] = runs[i]
      BY <1>1, <2>1 DEF AdapterTypes
    <2>3. c \in Adapter!ToSet(s) /\ Adapter!ToSet(runs) \subseteq Adapter!ToSet(s)
      BY <2>1, <2>2 DEF Adapter!ToSet
    <2>4. runs' = Adapter!Trim(s, settled)
      BY DEF Adapter!Invoke
    <2>5. c \notin settled
      BY <1>1 DEF AtWork
    <2> QED
      BY <2>1, <2>3, <2>4, <2>5, Trimmed
  <1>3. \A d \in Adapter!ToSet(runs) : KeyOf[d] # KeyOf[c]
    BY DEF Adapter!Invoke, Adapter!Known
  <1>4. PICK l \in {"turnedAway", "caught", "admitted", "queued"} :
           /\ pc' = [pc EXCEPT ![c] = l]
           /\ waiters' = IF l = "queued" THEN Append(waiters, c) ELSE waiters
           /\ IF l = "turnedAway" THEN activeByTask' = activeByTask
              ELSE activeByTask[TaskOf[c]] = None /\ activeByTask' = [activeByTask EXCEPT ![TaskOf[c]] = c]
    BY DEF Adapter!Invoke, Adapter!Goto, Adapter!Throw, Adapter!slotVars
  <1>5. explicit' \in [Calls -> {"yes", "no", "none"}] /\ \A d \in Calls : d # c => explicit'[d] = explicit[d]
    <2>1. explicit' = explicit \/ \E stop \in {"yes", "none"} : explicit' = [explicit EXCEPT ![c] = stop]
      BY DEF Adapter!Invoke, Adapter!Throw
    <2>2. explicit \in [Calls -> {"yes", "no", "none"}]
      BY <1>1 DEF AdapterTypes
    <2> QED
      BY <2>1, <2>2
  <1>6. AdapterTypes'
    <2>1. pc' \in [Calls -> Places]
      BY <1>1, <1>4 DEF AdapterTypes, Places
    <2>2. waiters' \in Seq(Calls) /\ settled' \subseteq Calls
      BY <1>1, <1>4 DEF AdapterTypes
    <2>3. activeByTask' \in [Tasks -> Calls \cup {None}] /\ from' \in [Calls -> Calls \cup {None}]
      BY <1>1, <1>4 DEF AdapterTypes
    <2> QED
      BY <1>1, <1>2, <1>5, <2>1, <2>2, <2>3 DEF AdapterTypes
  <1>7. \A d \in Calls : d # c => pc'[d] = pc[d] /\ (Adapter!Executing(d)' <=> Adapter!Executing(d))
    BY <1>1, <1>4 DEF Adapter!Executing, AdapterTypes
  <1>8. Queueing'
    <2>1. \A k \in DOMAIN waiters : waiters[k] \in Calls /\ waiters[k] # c
      BY <1>1 DEF AdapterTypes, Queueing
    <2>2. CASE l # "queued"
      BY <1>1, <1>4, <1>7, <2>1, <2>2 DEF Queueing
    <2>3. CASE l = "queued"
      <3>1. /\ DOMAIN waiters' = 1..(Len(waiters) + 1) /\ DOMAIN waiters = 1..Len(waiters)
            /\ Len(waiters) \in Nat /\ waiters'[Len(waiters) + 1] = c
            /\ \A k \in DOMAIN waiters : waiters'[k] = waiters[k]
        BY <1>1, <1>4, <2>3 DEF AdapterTypes
      <3>2. pc'[c] = "queued"
        BY <1>1, <1>4, <2>3 DEF AdapterTypes
      <3>3. \A k \in DOMAIN waiters' : k \in DOMAIN waiters \/ k = Len(waiters) + 1
        BY <3>1
      <3> QED
        BY <1>1, <1>7, <2>1, <3>1, <3>2, <3>3 DEF Queueing
    <2> QED
      BY <2>2, <2>3
  <1>9. AtWork'
    <2>1. ASSUME NEW d \in Calls, Adapter!Executing(d)'
          PROVE  /\ d \in Adapter!ToSet(runs') /\ d \notin settled'
                 /\ pc'[d] = "turnedAway" \/ activeByTask'[TaskOf[d]] = d
      <3>1. CASE d = c
        BY <1>1, <1>2, <1>4, <3>1 DEF AtWork, AdapterTypes
      <3>2. CASE d # c
        <4>1. /\ Adapter!Executing(d) /\ d \in Adapter!ToSet(runs) /\ d \notin settled /\ pc'[d] = pc[d]
              /\ pc[d] = "turnedAway" \/ activeByTask[TaskOf[d]] = d
          BY <1>1, <1>7, <2>1, <3>2 DEF AtWork
        <4>2. activeByTask[TaskOf[d]] = d => activeByTask'[TaskOf[d]] = d
          BY <1>1, <1>4 DEF AdapterTypes
        <4> QED
          BY <1>1, <1>2, <4>1, <4>2
      <3> QED
        BY <3>1, <3>2
    <2>2. ASSUME NEW d \in Calls, NEW e \in Calls, d # e, Adapter!Executing(d)', Adapter!Executing(e)'
          PROVE  KeyOf[d] # KeyOf[e]
      BY <1>1, <1>3, <1>7, <2>2 DEF AtWork
    <2>3. ASSUME NEW d \in Calls, pc'[d] = "idle" PROVE d \notin settled'
      BY <1>1, <1>4, <2>3 DEF AtWork, AdapterTypes
    <2>4. ASSUME NEW d \in Calls, from'[d] # None
          PROVE  KeyOf[from'[d]] = KeyOf[d] /\ BodyOf[from'[d]] = BodyOf[d]
      BY <1>1, <2>4 DEF AtWork, AdapterTypes
    <2> QED
      BY <2>1, <2>2, <2>3, <2>4 DEF AtWork
  <1>10. ASSUME NEW d \in Calls PROVE Honest(d)'
    <2>1. CASE d # c
      BY <1>1, <1>5, <1>7, <2>1, HonestStays DEF Same, AdapterInv
    <2>2. CASE d = c
      <3>1. pc'[c] \in {"turnedAway", "caught", "admitted", "queued"}
        BY <1>1, <1>4 DEF AdapterTypes
      <3> QED
        BY <1>1, <2>2, <3>1 DEF Honest, Asked, Unasked
    <2> QED
      BY <2>1, <2>2
  <1> QED
    BY <1>6, <1>8, <1>9, <1>10 DEF AdapterInv

\* What is left of a queue is not the queue.
LEMMA TailDiffers == ASSUME NEW X, NEW s \in Seq(X), s # <<>> PROVE Tail(s) # s
  <1>1. Len(Tail(s)) = Len(s) - 1 /\ Len(s) \in Nat
    OBVIOUS
  <1>2. \A n \in Nat : n - 1 # n
    OBVIOUS
  <1>3. Len(Tail(s)) # Len(s)
    BY <1>1, <1>2, Zenon
  <1> QED
    BY <1>3, Zenon

\* An execution settles: its task is free, its slot goes to the first that waits.
LEMMA SettleKeeps == ASSUME AdapterInv, NEW c \in Calls, Adapter!Settle(c) PROVE AdapterInv'
  <1> USE RuntimesAssumption DEF Adapter!Sane
  <1>1. /\ pc[c] \in {"ending", "turnedAway"} /\ AdapterTypes /\ Queueing /\ AtWork /\ Honest(c)
        /\ UNCHANGED <<from, report>> /\ settled' = settled \cup {c}
        /\ launched' = launched \ {c} /\ confirmed' = confirmed \ {c}
        /\ explicit' = [explicit EXCEPT ![c] = "none"] /\ mode' = [mode EXCEPT ![c] = "start"]
        /\ runtime' = [runtime EXCEPT ![c] = IF @ = "live" THEN @ ELSE "none"]
        /\ activeByTask' = IF pc[c] = "ending" THEN [activeByTask EXCEPT ![TaskOf[c]] = None]
                           ELSE activeByTask
    BY DEF Adapter!Settle, AdapterInv
  <1>2. PICK o \in {"fulfilled", "rejected"} : /\ outcome' = [outcome EXCEPT ![c] = o]
                                               /\ o = "fulfilled" => outcome[c] \in Over
    BY DEF Adapter!Settle, Over
  <1>3. /\ runs' \in Seq(Calls) /\ Adapter!ToSet(runs) \ settled' \subseteq Adapter!ToSet(runs')
    BY <1>1, Trimmed DEF Adapter!Settle, AdapterTypes
  <1>4. \A k \in DOMAIN waiters : waiters[k] \in Calls /\ waiters[k] # c
    BY <1>1 DEF AdapterTypes, Queueing
  <1>5. /\ pc' \in [Calls -> Places] /\ pc'[c] = "done"
        /\ \A d \in Calls : d # c /\ pc'[d] # pc[d] =>
              /\ pc[d] = "queued" /\ pc'[d] = "admitted"
              /\ waiters # <<>> /\ waiters' = Tail(waiters) /\ d = Head(waiters)
        /\ waiters' = waiters \/ (waiters # <<>> /\ waiters' = Tail(waiters))
    <2>1. waiters # <<>> => Head(waiters) \in Calls /\ pc[Head(waiters)] = "queued"
      <3>1. waiters # <<>> => 1 \in DOMAIN waiters /\ Head(waiters) = waiters[1]
        BY <1>1 DEF AdapterTypes
      <3> QED
        BY <1>1, <1>4, <3>1 DEF Queueing
    <2>2. /\ held' = (held \ {c}) \cup (IF c \in held /\ waiters # <<>> THEN {Head(waiters)} ELSE {})
          /\ waiters' = IF c \in held /\ waiters # <<>> THEN Tail(waiters) ELSE waiters
          /\ pc' = [d \in Calls |-> CASE d = c -> "done"
                                      [] d # c /\ d \in held' \ held -> "admitted"
                                      [] OTHER -> pc[d]]
      BY DEF Adapter!Settle, Adapter!Release
    <2>3. \A d \in Calls : d # c => pc'[d] = IF d \in held' \ held THEN "admitted" ELSE pc[d]
      BY <2>2
    <2>4. \A d \in held' \ held : c \in held /\ waiters # <<>> /\ d = Head(waiters)
      BY <2>2
    <2>5. pc'[c] = "done"
      BY <2>2
    <2>6. pc' \in [Calls -> Places]
      BY <1>1, <2>2 DEF AdapterTypes, Places
    <2> QED
      BY <2>1, <2>2, <2>3, <2>4, <2>5, <2>6
  <1>6. AdapterTypes'
    <2>0. waiters \in Seq(Calls)
      BY <1>1 DEF AdapterTypes
    <2>1. waiters' \in Seq(Calls)
      <3>1. waiters # <<>> => Tail(waiters) \in Seq(Calls)
        BY <2>0
      <3> QED
        BY <1>5, <2>0, <3>1
    <2>2. runtime' \in [Calls -> {"none", "live", "ended"}] /\ outcome' \in [Calls -> Outcomes]
      BY <1>1, <1>2 DEF AdapterTypes, Outcomes
    <2>3. activeByTask' \in [Tasks -> Calls \cup {None}] /\ settled' \subseteq Calls
      BY <1>1 DEF AdapterTypes
    <2> QED
      BY <1>1, <1>3, <1>5, <2>1, <2>2, <2>3 DEF AdapterTypes
  <1>7. Queueing'
    <2>1. CASE waiters' = waiters
      <3>1. \A d \in Calls : d # c /\ pc'[d] # pc[d] => FALSE
        <4>1. ASSUME NEW d \in Calls, d # c, pc'[d] # pc[d] PROVE FALSE
          <5>1. waiters # <<>> /\ waiters = Tail(waiters)
            BY <1>5, <2>1, <4>1
          <5>2. waiters \in Seq(Calls)
            BY <1>1 DEF AdapterTypes
          <5> QED
            BY <5>1, <5>2, TailDiffers
        <4> QED
          BY <4>1
      <3> QED
        BY <1>1, <1>4, <2>1, <3>1 DEF Queueing
    <2>2. CASE waiters # <<>> /\ waiters' = Tail(waiters)
      <3>1. \A k \in DOMAIN waiters' : k \in Nat \ {0} /\ k + 1 \in DOMAIN waiters /\ waiters'[k] = waiters[k + 1]
        BY <1>1, <2>2 DEF AdapterTypes
      <3>2. 1 \in DOMAIN waiters /\ Head(waiters) = waiters[1]
        BY <1>1, <2>2 DEF AdapterTypes
      <3>3. ASSUME NEW k \in DOMAIN waiters' PROVE pc'[waiters'[k]] = "queued"
        <4>1. waiters[k + 1] # Head(waiters)
          <5>1. k + 1 # 1 /\ k + 1 \in DOMAIN waiters
            BY <3>1
          <5> QED
            BY <1>1, <3>2, <5>1 DEF Queueing
        <4> QED
          BY <1>1, <1>4, <1>5, <3>1, <4>1 DEF Queueing
      <3>4. ASSUME NEW k \in DOMAIN waiters', NEW m \in DOMAIN waiters', waiters'[k] = waiters'[m]
            PROVE  k = m
        <4>1. k + 1 = m + 1
          BY <1>1, <3>1, <3>4 DEF Queueing
        <4> QED
          BY <3>1, <4>1
      <3> QED
        BY <3>3, <3>4 DEF Queueing
    <2> QED
      BY <1>5, <2>1, <2>2
  <1>8. ASSUME NEW d \in Calls, Adapter!Executing(d)'
        PROVE  /\ d # c /\ Adapter!Executing(d)
               /\ pc'[d] = pc[d] \/ (pc[d] = "queued" /\ pc'[d] = "admitted")
    BY <1>5, <1>8 DEF Adapter!Executing
  <1>9. AtWork'
    <2>1. ASSUME NEW d \in Calls, Adapter!Executing(d)'
          PROVE  /\ d \in Adapter!ToSet(runs') /\ d \notin settled'
                 /\ pc'[d] = "turnedAway" \/ activeByTask'[TaskOf[d]] = d
      <3>1. /\ d # c /\ d \in Adapter!ToSet(runs) /\ d \notin settled
            /\ pc[d] = "turnedAway" \/ activeByTask[TaskOf[d]] = d
            /\ pc[d] = "turnedAway" => pc'[d] = "turnedAway"
        BY <1>1, <1>8, <2>1 DEF AtWork
      <3>2. pc[c] = "ending" => activeByTask[TaskOf[c]] = c
        BY <1>1 DEF AtWork, Adapter!Executing
      <3>3. activeByTask[TaskOf[d]] = d => activeByTask'[TaskOf[d]] = d
        BY <1>1, <3>1, <3>2 DEF AdapterTypes
      <3> QED
        BY <1>1, <1>3, <3>1, <3>3
    <2>2. ASSUME NEW d \in Calls, NEW e \in Calls, d # e, Adapter!Executing(d)', Adapter!Executing(e)'
          PROVE  KeyOf[d] # KeyOf[e]
      BY <1>1, <1>8, <2>2 DEF AtWork
    <2>3. ASSUME NEW d \in Calls, pc'[d] = "idle" PROVE d \notin settled'
      BY <1>1, <1>5, <2>3 DEF AtWork
    <2> QED
      BY <1>1, <2>1, <2>2, <2>3 DEF AtWork
  <1>10. ASSUME NEW d \in Calls PROVE Honest(d)'
    <2>1. Honest(d)
      BY DEF AdapterInv
    <2>2. CASE d # c /\ pc'[d] = pc[d]
      BY <1>1, <1>2, <2>1, <2>2, HonestStays DEF Same, AdapterTypes
    <2>3. CASE d # c /\ pc[d] = "queued" /\ pc'[d] = "admitted"
      BY <1>1, <1>2, <2>1, <2>3 DEF Honest, Asked, Unasked, AdapterTypes
    <2>4. CASE d = c
      <3>1. Confirming /\ outcome'[c] = "fulfilled" => runtime[c] # "live"
        BY <1>1, <1>2 DEF Honest, AdapterTypes, Over
      <3>2. Confirming /\ report[c] = "stopped" => runtime[c] # "live"
        BY <1>1 DEF Honest
      <3>3. runtime'[c] = "live" => runtime[c] = "live"
        BY <1>1 DEF AdapterTypes
      <3>4. c \notin confirmed' /\ report'[c] = report[c]
        BY <1>1
      <3> QED
        BY <1>5, <2>4, <3>1, <3>2, <3>3, <3>4 DEF Honest, Asked, Unasked
    <2> QED
      BY <1>5, <2>2, <2>3, <2>4
  <1> QED
    BY <1>6, <1>7, <1>9, <1>10 DEF AdapterInv

\* Every step of the adapter keeps the invariant.
LEMMA AdapterKeeps == ASSUME AdapterInv, Adapter!Next \/ UNCHANGED adapterVars PROVE AdapterInv'
  <1>1. CASE UNCHANGED adapterVars
    <2>1. UNCHANGED <<runs, settled, from, activeByTask, waiters, pc, mode, launched, report, runtime,
                      confirmed, explicit, outcome>>
      BY <1>1 DEF adapterVars, Adapter!adapterVars, Adapter!cache, Adapter!slotVars, Adapter!turnVars
    <2>2. Queueing' /\ AtWork' /\ AdapterTypes'
      BY <2>1, QueueStays, WorkStays DEF AdapterInv, AdapterTypes
    <2>3. \A c \in Calls : Honest(c)'
      BY <2>1, HonestStays DEF Same, AdapterInv
    <2> QED
      BY <2>2, <2>3 DEF AdapterInv
  <1>2. ASSUME NEW c \in Calls, Adapter!Abort(c) PROVE AdapterInv'
    BY <1>2, AbortKeeps DEF Adapter!Abort, Adapter!cache, Adapter!turnVars
  <1>3. CASE Adapter!Dispose
    <2> DEFINE S == {c \in Calls : activeByTask[TaskOf[c]] = c}
    <2>1. /\ Adapter!AbortEffect(S)
          /\ UNCHANGED <<runs, settled, from, activeByTask, mode, launched, report, runtime, confirmed,
                         explicit, outcome>>
      BY <1>3 DEF Adapter!Dispose, Adapter!turnVars
    <2> HIDE DEF S
    <2> QED
      BY <2>1, AbortKeeps
  <1>4. CASE Adapter!Disposed
    <2>1. UNCHANGED <<runs, settled, from, activeByTask, waiters, pc, mode, launched, report, runtime,
                      confirmed, explicit, outcome>>
      BY <1>4 DEF Adapter!Disposed, Adapter!slotVars, Adapter!turnVars
    <2>2. Queueing' /\ AtWork' /\ AdapterTypes'
      BY <2>1, QueueStays, WorkStays DEF AdapterInv, AdapterTypes
    <2>3. \A c \in Calls : Honest(c)'
      BY <2>1, HonestStays DEF Same, AdapterInv
    <2> QED
      BY <2>2, <2>3 DEF AdapterInv
  <1>5. ASSUME NEW c \in Calls, Adapter!Advance(c) \/ Adapter!Client(c) PROVE AdapterInv'
    BY <1>5, BeginKeeps, AskClientKeeps, AnsweredKeeps, JudgeKeeps, PublishKeeps, CatchKeeps, SettleKeeps,
       ClientReturnsKeeps, ClientFailsKeeps, ReplaceStaleKeeps DEF Adapter!Advance, Adapter!Client
  <1> QED
    BY <1>1, <1>2, <1>3, <1>4, <1>5, ReplayKeeps, InvokeKeeps, ClientLaunchesKeeps, EndKeeps
       DEF Adapter!Next

\* What the invariant promises.
LEMMA AdapterPromise == ASSUME AdapterInv PROVE Adapter!StopReportHonest /\ Adapter!OneExecution
  <1>1. Adapter!StopReportHonest
    BY DEF AdapterInv, Honest, Adapter!StopReportHonest
  <1>2. ASSUME NEW c \in Calls, NEW d \in Calls, c # d, Adapter!Executing(c), Adapter!Executing(d)
        PROVE  KeyOf[c] # KeyOf[d] /\ (TaskOf[c] = TaskOf[d] => "turnedAway" \in {pc[c], pc[d]})
    BY <1>2 DEF AdapterInv, AtWork
  <1> QED
    BY <1>1, <1>2 DEF AdapterInv, AtWork, Adapter!OneExecution
-----------------------------------------------------------------------------
(* The slots of the Codex adapter.                                         *)

\* The slots that are counted are those held; who has been admitted holds one, and who waits is in
\* the queue.
AdapterSlots ==
    /\ IsFiniteSet(held) /\ active = Cardinality(held) /\ active <= Limit
    /\ \A c \in held : c \in Calls /\ pc[c] \in Asked \cup {"admitted", "caught", "ending"}
    /\ \A c \in Calls : pc[c] \in Asked \cup {"admitted"} => c \in held
    /\ waiters # <<>> => active = Limit
    /\ \A c \in Calls : pc[c] = "queued" => \E k \in DOMAIN waiters : waiters[k] = c
    /\ disposal = "done" => \A c \in Calls : ~Adapter!Executing(c)

\* At first all slots are free.
LEMMA SlotsInit == ASSUME Adapter!Init PROVE AdapterSlots
  <1>1. held = {} /\ active = 0 /\ waiters = <<>> /\ disposal = "no" /\ \A c \in Calls : pc[c] = "idle"
    BY DEF Adapter!Init
  <1> QED
    BY <1>1, FS_EmptySet, RuntimesAssumption DEF Adapter!Sane, AdapterSlots, Asked

\* Where an execution may go without a change of slots.
Stays(d) ==
    \/ pc'[d] = pc[d]
    \/ pc[d] = "idle" /\ pc'[d] \in {"refused", "shares"}
    \/ /\ pc[d] \in Asked \cup {"admitted"}
       /\ pc'[d] \in Asked \cup {"caught", "ending"}
    \/ pc[d] = "caught" /\ pc'[d] = "ending"

\* Steps within executions, and replays, leave the slots as they are.
LEMMA SlotsStay ==
  ASSUME AdapterSlots, UNCHANGED <<disposal, held, active, waiters>>, \A d \in Calls : Stays(d)
  PROVE  AdapterSlots'
  <1>1. \A d \in Calls : /\ Adapter!Executing(d)' => Adapter!Executing(d)
                         /\ pc'[d] = "queued" => pc[d] = "queued"
                         /\ pc'[d] \in Asked \cup {"admitted"} => pc[d] \in Asked \cup {"admitted"}
                         /\ pc[d] \in Asked \cup {"admitted", "caught", "ending"} =>
                               pc'[d] \in Asked \cup {"admitted", "caught", "ending"}
    BY DEF Stays, Adapter!Executing, Asked
  <1> QED
    BY <1>1 DEF AdapterSlots

\* The steps of one execution but the first and the last.
LEMMA WithinSlots ==
  ASSUME AdapterInv, AdapterSlots, NEW c \in Calls,
         \/ Adapter!Replay(c) \/ Adapter!Begin(c) \/ Adapter!AskClient(c) \/ Adapter!ClientLaunches(c)
         \/ Adapter!RuntimeEnds(c) \/ Adapter!Client(c) \/ Adapter!Answered(c) \/ Adapter!Judge(c)
         \/ Adapter!Publish(c) \/ Adapter!Catch(c)
  PROVE  AdapterSlots'
  <1>1. UNCHANGED <<disposal, held, active, waiters>>
    BY DEF Adapter!Replay, Adapter!Begin, Adapter!AskClient, Adapter!ClientLaunches, Adapter!RuntimeEnds,
       Adapter!Client, Adapter!ClientReturns, Adapter!ClientFails, Adapter!ReplaceStale, Adapter!Answered,
       Adapter!Judge, Adapter!Publish, Adapter!Catch, Adapter!cache, Adapter!slotVars
  <1>2. PICK l : /\ pc' = [pc EXCEPT ![c] = l]
                 /\ \/ l = pc[c]
                    \/ pc[c] = "idle" /\ l \in {"refused", "shares"}
                    \/ /\ pc[c] \in Asked \cup {"admitted"}
                       /\ l \in Asked \cup {"caught", "ending"}
                    \/ pc[c] = "caught" /\ l = "ending"
    <2>1. CASE Adapter!ClientLaunches(c) \/ Adapter!RuntimeEnds(c)
      <3>1. pc' = pc /\ pc \in [Calls -> Places]
        BY <2>1 DEF Adapter!ClientLaunches, Adapter!RuntimeEnds, AdapterInv, AdapterTypes
      <3>2. pc' = [pc EXCEPT ![c] = pc[c]]
        BY <3>1
      <3> QED
        BY <3>2
    <2>2. CASE Adapter!Replay(c)
      <3>1. \E l \in {"refused", "shares"} : pc' = [pc EXCEPT ![c] = l]
        BY <2>2 DEF Adapter!Replay, Adapter!Goto
      <3> QED
        BY <2>2, <3>1 DEF Adapter!Replay
    <2>3. CASE Adapter!Catch(c)
      BY <2>3 DEF Adapter!Catch, Adapter!End, Adapter!Goto
    <2>4. CASE \/ Adapter!Begin(c) \/ Adapter!AskClient(c) \/ Adapter!Client(c) \/ Adapter!Answered(c)
               \/ Adapter!Judge(c) \/ Adapter!Publish(c)
      BY <2>4 DEF Adapter!Begin, Adapter!AskClient, Adapter!Client, Adapter!ClientReturns,
         Adapter!ClientFails, Adapter!ReplaceStale, Adapter!Answered, Adapter!Judge, Adapter!Publish,
         Adapter!Goto, Adapter!Throw, Adapter!End, Asked
    <2> QED
      BY <2>1, <2>2, <2>3, <2>4
  <1>3. pc \in [Calls -> Places]
    BY DEF AdapterInv, AdapterTypes
  <1>4. \A d \in Calls : Stays(d)
    BY <1>2, <1>3 DEF Stays
  <1> QED
    BY <1>1, <1>4, SlotsStay

\* A new execution takes a free slot, waits for one, or is turned away.
LEMMA InvokeSlots == ASSUME AdapterInv, AdapterSlots, NEW c \in Calls, Adapter!Invoke(c) PROVE AdapterSlots'
  <1> USE RuntimesAssumption DEF Adapter!Sane
  <1>1. /\ pc[c] = "idle" /\ pc \in [Calls -> Places] /\ waiters \in Seq(Calls)
        /\ disposal = "no" /\ disposal' = "no"
    BY DEF Adapter!Invoke, AdapterInv, AdapterTypes
  <1>2. c \notin held /\ active \in Nat
    BY <1>1, FS_CardinalityType DEF AdapterSlots, Asked
  <1>3. PICK l \in {"turnedAway", "caught", "admitted", "queued"} :
           /\ pc' = [pc EXCEPT ![c] = l]
           /\ IF l = "admitted" THEN active < Limit /\ active' = active + 1 /\ held' = held \cup {c}
              ELSE UNCHANGED <<active, held>>
           /\ IF l = "queued" THEN active >= Limit /\ waiters' = Append(waiters, c)
              ELSE waiters' = waiters
    BY DEF Adapter!Invoke, Adapter!Goto, Adapter!Throw, Adapter!slotVars
  <1>4. pc'[c] = l /\ \A d \in Calls : d # c => pc'[d] = pc[d]
    BY <1>1, <1>3
  <1>5. /\ IsFiniteSet(held') /\ active' = Cardinality(held') /\ active' <= Limit
    BY <1>2, <1>3, FS_AddElement DEF AdapterSlots
  <1>6. \A d \in held' : d \in Calls /\ pc'[d] \in Asked \cup {"admitted", "caught", "ending"}
    BY <1>2, <1>3, <1>4 DEF AdapterSlots
  <1>7. \A d \in Calls : pc'[d] \in Asked \cup {"admitted"} => d \in held'
    BY <1>3, <1>4 DEF AdapterSlots, Asked
  <1>8. waiters' # <<>> => active' = Limit
    BY <1>2, <1>3 DEF AdapterSlots
  <1>9. ASSUME NEW d \in Calls, pc'[d] = "queued" PROVE \E k \in DOMAIN waiters' : waiters'[k] = d
    <2>1. CASE d # c
      <3>1. PICK k \in DOMAIN waiters : waiters[k] = d
        BY <1>4, <1>9, <2>1 DEF AdapterSlots
      <3>2. k \in DOMAIN waiters' /\ waiters'[k] = waiters[k]
        <4>1. \A i \in DOMAIN waiters : i \in DOMAIN Append(waiters, c) /\ Append(waiters, c)[i] = waiters[i]
          BY <1>1
        <4>2. waiters' = waiters \/ waiters' = Append(waiters, c)
          BY <1>3
        <4> QED
          BY <3>1, <4>1, <4>2
      <3> QED
        BY <3>1, <3>2
    <2>2. CASE d = c
      <3>1. Len(waiters) + 1 \in DOMAIN waiters' /\ waiters'[Len(waiters) + 1] = c
        <4>1. waiters' = Append(waiters, c)
          BY <1>3, <1>4, <1>9, <2>2
        <4> QED
          BY <1>1, <4>1
      <3> QED
        BY <2>2, <3>1
    <2> QED
      BY <2>1, <2>2
  <1> QED
    BY <1>1, <1>5, <1>6, <1>7, <1>8, <1>9 DEF AdapterSlots

\* An abort takes those it concerns out of the queue, and no one else.
LEMMA AbortSlots ==
  ASSUME AdapterInv, AdapterSlots, NEW S, Adapter!AbortEffect(S), UNCHANGED <<active, held>>,
         disposal' \in {disposal, "waiting"}
  PROVE  AdapterSlots'
  <1> DEFINE K == {k \in DOMAIN waiters : waiters[k] \notin S}
  <1>1. waiters' = Adapter!Keep(waiters, K) /\ waiters \in Seq(Calls)
    BY DEF Adapter!AbortEffect, AdapterInv, AdapterTypes
  <1>2. /\ \A c \in Calls : pc'[c] = IF c \in S /\ pc[c] = "queued" THEN "caught" ELSE pc[c]
    BY DEF Adapter!AbortEffect
  <1>3. Adapter!Keep(waiters, K) \in Seq(Calls) /\ Adapter!ToSet(Adapter!Keep(waiters, K)) = {waiters[j] : j \in K}
    BY <1>1, Kept
  <1>4. Adapter!ToSet(waiters') = {waiters'[k] : k \in DOMAIN waiters'}
    BY DEF Adapter!ToSet
  <1>5. ASSUME NEW c \in Calls, pc'[c] = "queued" PROVE \E k \in DOMAIN waiters' : waiters'[k] = c
    <2>1. c \notin S /\ pc[c] = "queued"
      BY <1>2, <1>5
    <2>2. PICK j \in DOMAIN waiters : waiters[j] = c
      BY <2>1 DEF AdapterSlots
    <2> QED
      BY <1>1, <1>3, <1>4, <2>1, <2>2
  <1>6. waiters' # <<>> => waiters # <<>>
    <2> SUFFICES ASSUME waiters = <<>> PROVE waiters' = <<>>
      OBVIOUS
    <2>1. {waiters[j] : j \in K} = {}
      OBVIOUS
    <2>2. DOMAIN waiters' = {}
      <3>1. Adapter!ToSet(waiters') = {}
        BY <1>1, <1>3, <2>1
      <3> HIDE DEF K
      <3> QED
        BY <1>4, <3>1
    <2>3. waiters' \in Seq(Calls)
      BY <1>1, <1>3
    <2> QED
      BY <2>2, <2>3
  <1>7. \A c \in Calls : /\ Adapter!Executing(c)' => Adapter!Executing(c)
                         /\ pc'[c] \in Asked \cup {"admitted"} => pc[c] \in Asked \cup {"admitted"}
                         /\ pc[c] \in Asked \cup {"admitted", "caught", "ending"} => pc'[c] = pc[c]
    BY <1>2 DEF Adapter!Executing, Asked
  <1>8. disposal' = "done" => disposal = "done"
    OBVIOUS
  <1> QED
    BY <1>5, <1>6, <1>7, <1>8 DEF AdapterSlots

\* A slot that is given back goes to the first that waits, or is free.
LEMMA SettleSlots == ASSUME AdapterInv, AdapterSlots, NEW c \in Calls, Adapter!Settle(c) PROVE AdapterSlots'
  <1>1. /\ pc[c] \in {"ending", "turnedAway"} /\ pc \in [Calls -> Places] /\ waiters \in Seq(Calls) /\ Queueing
        /\ disposal' = disposal /\ Adapter!Release(c)
    BY DEF Adapter!Settle, AdapterInv, AdapterTypes
  <1>2. /\ held' = (held \ {c}) \cup (IF c \in held /\ waiters # <<>> THEN {Head(waiters)} ELSE {})
        /\ active' = IF c \in held /\ waiters = <<>> THEN active - 1 ELSE active
        /\ waiters' = IF c \in held /\ waiters # <<>> THEN Tail(waiters) ELSE waiters
        /\ \A d \in Calls : pc'[d] = IF d = c THEN "done" ELSE IF d \in held' \ held THEN "admitted" ELSE pc[d]
    BY <1>1 DEF Adapter!Release
  <1>3. active \in Nat /\ disposal # "done"
    BY <1>1, FS_CardinalityType DEF AdapterSlots, Adapter!Executing
  <1>4. CASE c \notin held
    <2>1. UNCHANGED <<held, active, waiters>> /\ \A d \in Calls : pc'[d] = IF d = c THEN "done" ELSE pc[d]
      BY <1>2, <1>4
    <2>2. \A d \in held : d \in Calls /\ pc'[d] \in Asked \cup {"admitted", "caught", "ending"}
      BY <1>4, <2>1 DEF AdapterSlots
    <2>3. \A d \in Calls : pc'[d] \in Asked \cup {"admitted"} => d \in held
      BY <2>1 DEF AdapterSlots, Asked
    <2> QED
      BY <1>1, <1>3, <2>1, <2>2, <2>3 DEF AdapterSlots
  <1>5. CASE c \in held /\ waiters = <<>>
    <2>1. held' = held \ {c} /\ active' = active - 1 /\ waiters' = <<>>
      BY <1>2, <1>5
    <2>2. IsFiniteSet(held') /\ active' = Cardinality(held')
      BY <1>5, <2>1, FS_RemoveElement DEF AdapterSlots
    <2>3. active' <= Limit
      BY <1>3, <2>1, RuntimesAssumption DEF AdapterSlots, Adapter!Sane
    <2>4. \A d \in Calls : pc'[d] = IF d = c THEN "done" ELSE pc[d]
      BY <1>2, <2>1
    <2>5. \A d \in held' : d \in Calls /\ pc'[d] \in Asked \cup {"admitted", "caught", "ending"}
      BY <2>1, <2>4 DEF AdapterSlots
    <2>6. \A d \in Calls : pc'[d] \in Asked \cup {"admitted"} => d \in held'
      BY <2>1, <2>4 DEF AdapterSlots, Asked
    <2>7. \A d \in Calls : pc'[d] # "queued"
      BY <1>5, <2>4 DEF AdapterSlots
    <2> QED
      BY <1>1, <1>3, <2>1, <2>2, <2>3, <2>5, <2>6, <2>7 DEF AdapterSlots
  <1>6. CASE c \in held /\ waiters # <<>>
    <2> DEFINE h == Head(waiters)
    <2>1. 1 \in DOMAIN waiters /\ h = waiters[1] /\ h \in Calls
      BY <1>1, <1>6
    <2>2. pc[h] = "queued" /\ h \notin held /\ h # c
      <3>1. pc[h] = "queued"
        BY <1>1, <2>1 DEF Queueing
      <3> QED
        BY <1>1, <3>1 DEF AdapterSlots, Asked
    <2> HIDE DEF h
    <2>3. held' = (held \ {c}) \cup {h} /\ active' = active /\ waiters' = Tail(waiters)
      BY <1>2, <1>6 DEF h
    <2>4. \A d \in Calls : pc'[d] = IF d = c THEN "done" ELSE IF d = h THEN "admitted" ELSE pc[d]
      BY <1>2, <2>2, <2>3
    <2>5. IsFiniteSet(held') /\ active' = Cardinality(held')
      <3>1. IsFiniteSet(held \ {c}) /\ Cardinality(held \ {c}) = active - 1
        BY <1>6, FS_RemoveElement DEF AdapterSlots
      <3>2. h \notin held \ {c}
        BY <2>2
      <3>3. IsFiniteSet(held') /\ Cardinality(held') = (active - 1) + 1
        BY <2>3, <3>1, <3>2, FS_AddElement
      <3> QED
        BY <1>3, <2>3, <3>3
    <2>6. \A d \in held' : d \in Calls /\ pc'[d] \in Asked \cup {"admitted", "caught", "ending"}
      BY <2>1, <2>2, <2>3, <2>4 DEF AdapterSlots
    <2>7. \A d \in Calls : pc'[d] \in Asked \cup {"admitted"} => d \in held'
      BY <2>3, <2>4 DEF AdapterSlots, Asked
    <2>8. ASSUME NEW d \in Calls, pc'[d] = "queued" PROVE \E k \in DOMAIN waiters' : waiters'[k] = d
      <3>1. d # h /\ pc[d] = "queued"
        BY <2>4, <2>8
      <3>2. PICK k \in DOMAIN waiters : waiters[k] = d
        BY <3>1 DEF AdapterSlots
      <3>3. k # 1
        BY <2>1, <3>1, <3>2
      <3>4. k \in 2 .. Len(waiters) /\ Len(waiters) \in Nat
        BY <1>1, <3>2, <3>3
      <3>5. k - 1 \in DOMAIN Tail(waiters) /\ Tail(waiters)[k - 1] = waiters[k]
        BY <1>1, <1>6, <3>4
      <3> QED
        BY <2>3, <3>2, <3>5
    <2>9. active' = Limit
      BY <1>6, <2>3 DEF AdapterSlots
    <2> QED
      BY <1>1, <1>3, <2>3, <2>5, <2>6, <2>7, <2>8, <2>9 DEF AdapterSlots
  <1> QED
    BY <1>4, <1>5, <1>6

\* Every step keeps the slots; a disposal that is done found all executions settled.
LEMMA SlotsKeep ==
  ASSUME AdapterInv, AdapterSlots, Adapter!Next \/ UNCHANGED adapterVars PROVE AdapterSlots'
  <1>1. CASE UNCHANGED adapterVars
    <2>1. UNCHANGED <<disposal, held, active, waiters, pc>>
      BY <1>1 DEF adapterVars, Adapter!adapterVars, Adapter!cache, Adapter!slotVars, Adapter!turnVars
    <2> QED
      BY <2>1, SlotsStay DEF Stays
  <1>2. ASSUME NEW c \in Calls, Adapter!Abort(c) PROVE AdapterSlots'
    BY <1>2, AbortSlots DEF Adapter!Abort, Adapter!cache
  <1>3. CASE Adapter!Dispose
    <2> DEFINE S == {c \in Calls : activeByTask[TaskOf[c]] = c}
    <2>1. Adapter!AbortEffect(S) /\ UNCHANGED <<active, held>> /\ disposal' = "waiting"
      BY <1>3 DEF Adapter!Dispose
    <2> HIDE DEF S
    <2> QED
      BY <2>1, AbortSlots
  <1>4. CASE Adapter!Disposed
    <2>1. UNCHANGED <<held, active, waiters, pc>> /\ Adapter!ToSet(runs) \subseteq settled
      BY <1>4 DEF Adapter!Disposed, Adapter!slotVars
    <2>2. \A c \in Calls : ~Adapter!Executing(c)
      BY <2>1 DEF AdapterInv, AtWork
    <2>3. \A c \in Calls : ~Adapter!Executing(c)'
      BY <2>1, <2>2 DEF Adapter!Executing
    <2> QED
      BY <2>1, <2>3 DEF AdapterSlots
  <1> QED
    BY <1>1, <1>2, <1>3, <1>4, WithinSlots, InvokeSlots, SettleSlots DEF Adapter!Next, Adapter!Advance

\* What the invariants promise.
LEMMA SlotsPromise == ASSUME AdapterInv, AdapterSlots PROVE Adapter!SlotsConserved /\ active <= Limit
  <1>1. Adapter!ToSet(waiters) = {waiters[k] : k \in DOMAIN waiters}
    BY DEF Adapter!ToSet
  <1>2. \A k \in DOMAIN waiters : waiters[k] \in Calls /\ pc[waiters[k]] = "queued"
    BY DEF AdapterInv, AdapterTypes, Queueing
  <1>3. Adapter!ToSet(waiters) = {c \in Calls : pc[c] = "queued"}
    BY <1>1, <1>2 DEF AdapterSlots
  <1>4. held \subseteq {c \in Calls : Adapter!Executing(c)}
    BY DEF AdapterSlots, Asked, Adapter!Executing
  <1>5. active = Adapter!Cardinality(held)
    BY SameCount DEF AdapterSlots
  <1> QED
    BY <1>3, <1>4, <1>5 DEF AdapterSlots, Adapter!SlotsConserved

-----------------------------------------------------------------------------
(* The theorems.                                                           *)

RuntimesInv ==
    /\ part = "turns" => TurnLaws!IInv /\ TurnLaws!Booked
    /\ part = "adapter" => AdapterInv /\ AdapterSlots
    /\ part = "mcp" => McpInv
    /\ part = "keys" => KeyLaws!IInv

\* Whichever component is at work, its invariant holds in every reachable state.
THEOREM RuntimesInvariance == Spec => []RuntimesInv
  <1>1. Init => RuntimesInv
    BY TurnsInit, AdapterInit, SlotsInit, McpInit, KeysInit DEF Init, RuntimesInv
  <1>2. RuntimesInv /\ [Next]_all => RuntimesInv'
    <2> SUFFICES ASSUME RuntimesInv, [Next]_all PROVE RuntimesInv'
      OBVIOUS
    <2>1. part' = part
      BY Split
    <2>2. part = "turns" => TurnLaws!IInv' /\ TurnLaws!Booked'
      BY Split, TurnsKeep DEF RuntimesInv
    <2>3. part = "adapter" => AdapterInv' /\ AdapterSlots'
      BY Split, AdapterKeeps, SlotsKeep DEF RuntimesInv
    <2>4. part = "mcp" => McpInv'
      BY Split, McpKeeps DEF RuntimesInv
    <2>5. part = "keys" => KeyLaws!IInv'
      BY Split, KeysKeep DEF RuntimesInv
    <2> QED
      BY <2>1, <2>2, <2>3, <2>4, <2>5 DEF RuntimesInv
  <1> QED
    BY <1>1, <1>2, PTL DEF Spec

\* The tokens of an answered turn are the sum of its model calls, in whatever order usage, completion
\* and the response to turn/start arrive (codex-app-server-client.ts:906-999).
THEOREM UsageAddsUpAlways == Spec => []UsageAddsUp
  <1>1. RuntimesInv => UsageAddsUp
    BY TurnsPromise DEF RuntimesInv, UsageAddsUp
  <1> QED
    BY <1>1, RuntimesInvariance, PTL

\* Over a client that confirms stops (supportsStopConfirmation), the Codex adapter reports "stopped" as
\* its last word on no turn that is alive, and hands out no deliverable of one, through repairs, replaced
\* threads and turns that report nothing (codex-adapter.ts:480-794).  Of an older client the code takes
\* the settled promise for the stop (:602-603), and nothing is claimed.
THEOREM StopReportHonestAlways == Spec => []StopReportHonest
  <1>1. RuntimesInv => StopReportHonest
    BY AdapterPromise DEF RuntimesInv, StopReportHonest
  <1> QED
    BY <1>1, RuntimesInvariance, PTL

\* One key of the Codex adapter is never at work twice, nor is one task, whatever its cache trims
\* (codex-adapter.ts:866-872).
THEOREM OneExecutionAlways == Spec => []OneExecution
  <1>1. RuntimesInv => OneExecution
    BY AdapterPromise DEF RuntimesInv, OneExecution
  <1> QED
    BY <1>1, RuntimesInvariance, PTL

\* No slot of the Codex adapter is lost or given twice, and nobody waits while one is free, whatever
\* aborts, deadlines and disposal do to a waiter that is just being admitted (codex-adapter.ts:207-252).
THEOREM AdapterSlotsConserved == Spec => [](part = "adapter" => Adapter!SlotsConserved /\ active <= Limit)
  <1>1. RuntimesInv => (part = "adapter" => Adapter!SlotsConserved /\ active <= Limit)
    BY SlotsPromise DEF RuntimesInv
  <1> QED
    BY <1>1, RuntimesInvariance, PTL

\* What the MCP client has opened, close() finds, and when it returns nothing is left behind
\* (codex-mcp-client.ts).
THEOREM CloseLeavesNoRuntimeAlways == Spec => []CloseLeavesNoRuntime
  <1>1. RuntimesInv => CloseLeavesNoRuntime
    BY McpPromise DEF RuntimesInv, CloseLeavesNoRuntime
  <1> QED
    BY <1>1, RuntimesInvariance, PTL

\* A delegation key is at work once, across servers, replays and crashes
\* (delegation-operation.ts:38-100, orchestrator.ts:225).
THEOREM OneRuntimePerKeyAlways == Spec => []OneRuntimePerKey
  <1>1. RuntimesInv => OneRuntimePerKey
    BY KeysPromise DEF RuntimesInv, OneRuntimePerKey
  <1> QED
    BY <1>1, RuntimesInvariance, PTL

\* Whoever is told an outcome under a key is told the one that is recorded
\* (DelegationOperationService.wait and finish).
THEOREM AnswersAgreeAlways == Spec => []AnswersAgree
  <1>1. RuntimesInv => AnswersAgree
    BY KeysPromise DEF RuntimesInv, AnswersAgree
  <1> QED
    BY <1>1, RuntimesInvariance, PTL

\* Slot and scope of a finished delegation that has provably stopped are free, but for a cancellation
\* accepted while the task is VERIFYING, a lease that was reaped under the row, and a transaction of an
\* attempt that the store refused (orchestrator.ts:440-560, lease-manager.ts:225-285).
THEOREM SlotComesBackAlways == Spec => []SlotComesBack
  <1>1. RuntimesInv => SlotComesBack
    BY KeysPromise DEF RuntimesInv, SlotComesBack
  <1> QED
    BY <1>1, RuntimesInvariance, PTL

\* A widget shows the run that was picked until another is picked, whatever reads, binds and closes
\* were in flight (tracking-ui.mjs, tracking-poller.mjs): provided it hears of every pick, for the
\* answer of one it never sees leaves it with the run before.
THEOREM PinnedIsShownAlways == ASSUME Unheard = FALSE PROVE Spec => []PinnedIsShown
  <1> DEFINE Inv == part = "view" => ViewInv
  <1>1. Init => Inv
    BY ViewInit DEF Init
  <1>2. Inv /\ [Next]_all => Inv'
    BY Split, ViewKeeps
  <1>3. Inv => PinnedIsShown
    BY ViewPromise DEF PinnedIsShown
  <1> QED
    BY <1>1, <1>2, <1>3, PTL DEF Spec

=============================================================================
