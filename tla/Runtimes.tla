------------------------------- MODULE Runtimes -------------------------------
(***************************************************************************)
(* The components whose calls must end: the clients and adapters that      *)
(* drive a runtime, the delegations and the widget that follows them.      *)
(* They share no state; a behaviour is one of the component that `part`    *)
(* names.  A variable that several of them declare belongs to the one      *)
(* named, and every variable that is not its own is None.                  *)
(***************************************************************************)
EXTENDS Naturals

CONSTANTS
    None, Null,
    TurnCalls, Threads, Starts, StrictCalls, ThreadOf, MaxSpawn, MaxTotal,         \* of CodexTurns
    Invs, RunTasks, RunTaskOf, RunLimit, RunPending, Frames,                       \* of ClaudeRuns
    Calls, Tasks, TaskOf, KeyOf, BodyOf, Resumes, Strict, Silent, Confirming,                  \* of CodexAdapter
    Limit, MaxPending, MaxEntries, Repairs,
    McpCalls, KindOf, Conns,                                                       \* of CodexMcp
    KeyCalls, Servers, At, Contract, MaxAttempts,                                  \* of DelegationKeys
    MaxRuns, MaxEvents, MaxMoves, Unheard                                          \* of TrackingView

VARIABLES
    part,
    child, closed, pc, aborted, report, outcome, disposal, active, pending, closing,   \* of several
    spawned, running, link, protocolFailure, catalog, loadedThreads, activeTurns, callbacks,
    unconfirmedThreads, completedTurns, usageByTurn, turnWaiters, usageTimers, stopWaiters,
    retiredTurns, sure, spent, turnAt, status, startedSeen, endSeen, emitted, procOf,
    uncertainStops, invocations, expired, cancelling, termination, proc, tree, stopping,
    killedForCancel, killedForDeadline, wrote, handled,
    runs, settled, from, activeByTask, waiters, held, mode, launched, confirmed, explicit, runtime,
    repairs,
    state, connecting, conn, at, on, opener, miss, timedOut,
    up, operation, task, row, lease, live, gen, tries, ended, answer, mishaps,
    db, view, read, bind, poller, ui, moves

Turns == INSTANCE CodexTurns WITH Calls <- TurnCalls, Strict <- StrictCalls

Claude == INSTANCE ClaudeRuns WITH
    Tasks <- RunTasks, TaskOf <- RunTaskOf, Limit <- RunLimit, MaxPending <- RunPending

Adapter == INSTANCE CodexAdapter

Mcp == INSTANCE CodexMcp WITH Calls <- McpCalls

Keys == INSTANCE DelegationKeys WITH Calls <- KeyCalls

View == INSTANCE TrackingView

\* The parameters of each component are what its calls can be.
ASSUME RuntimesAssumption == Turns!Sane /\ Keys!Sane /\ Mcp!Sane /\ Adapter!Sane

-----------------------------------------------------------------------------
ofTurns == <<spawned, running, link, protocolFailure, catalog, loadedThreads, activeTurns, callbacks,
          unconfirmedThreads, completedTurns, usageByTurn, turnWaiters, usageTimers, stopWaiters,
          retiredTurns, sure, spent, turnAt, status, startedSeen, endSeen, emitted, procOf>>
ofClaude == <<uncertainStops, invocations, expired, cancelling, termination, proc, tree, stopping,
          killedForCancel, killedForDeadline, wrote, handled>>
ofAdapter == <<runs, settled, from, activeByTask, waiters, held, mode, launched, confirmed, explicit,
          runtime, repairs>>
ofMcp == <<state, connecting, conn, at, on, opener, miss, timedOut>>
ofKeys == <<up, operation, task, row, lease, live, gen, tries, ended, answer, mishaps>>
ofView == <<db, view, read, bind, poller, ui, moves>>
all == <<part, child, closed, pc, aborted, report, outcome, disposal, active, pending, closing,
         ofTurns, ofClaude, ofAdapter, ofMcp, ofKeys, ofView>>

turnsVars == Turns!vars
claudeVars == Claude!vars
adapterVars == Adapter!adapterVars
mcpVars == Mcp!mcpVars
keysVars == Keys!delegationVars
viewVars == View!trackingVars

Now(p) == part = p
TurnsStep(A) ==
    /\ part = "turns" /\ A
    /\ UNCHANGED <<part, disposal, active, pending, closing,
                   ofClaude, ofAdapter, ofMcp, ofKeys, ofView>>
ClaudeStep(A) ==
    /\ part = "claude" /\ A
    /\ UNCHANGED <<part, child, closing,
                   ofTurns, ofAdapter, ofMcp, ofKeys, ofView>>
AdapterStep(A) ==
    /\ part = "adapter" /\ A
    /\ UNCHANGED <<part, child, closed, pending, closing,
                   ofTurns, ofClaude, ofMcp, ofKeys, ofView>>
McpStep(A) ==
    /\ part = "mcp" /\ A
    /\ UNCHANGED <<part, pc, aborted, report, disposal, active,
                   ofTurns, ofClaude, ofAdapter, ofKeys, ofView>>
KeysStep(A) ==
    /\ part = "keys" /\ A
    /\ UNCHANGED <<part, child, closed, aborted, report, outcome, disposal, pending, closing,
                   ofTurns, ofClaude, ofAdapter, ofMcp, ofView>>
ViewStep(A) ==
    /\ part = "view" /\ A
    /\ UNCHANGED <<part, child, closed, pc, aborted, report, outcome, disposal, active, pending,
                   ofTurns, ofClaude, ofAdapter, ofMcp, ofKeys>>

NoTurns ==
    /\ spawned = None /\ running = None /\ link = None /\ protocolFailure = None /\ catalog = None
    /\ loadedThreads = None /\ activeTurns = None /\ callbacks = None /\ unconfirmedThreads = None
    /\ completedTurns = None /\ usageByTurn = None /\ turnWaiters = None /\ usageTimers = None
    /\ stopWaiters = None /\ retiredTurns = None /\ sure = None /\ spent = None /\ turnAt = None
    /\ status = None /\ startedSeen = None /\ endSeen = None /\ emitted = None /\ procOf = None
NoClaude ==
    /\ uncertainStops = None /\ invocations = None /\ expired = None /\ cancelling = None
    /\ termination = None /\ proc = None /\ tree = None /\ stopping = None /\ killedForCancel = None
    /\ killedForDeadline = None /\ wrote = None /\ handled = None
NoAdapter ==
    /\ runs = None /\ settled = None /\ from = None /\ activeByTask = None /\ waiters = None
    /\ held = None /\ mode = None /\ launched = None /\ confirmed = None /\ explicit = None
    /\ runtime = None /\ repairs = None
NoMcp ==
    /\ state = None /\ connecting = None /\ conn = None /\ at = None /\ on = None /\ opener = None
    /\ miss = None /\ timedOut = None
NoKeys ==
    /\ up = None /\ operation = None /\ task = None /\ row = None /\ lease = None /\ live = None
    /\ gen = None /\ tries = None /\ ended = None /\ answer = None /\ mishaps = None
NoView ==
    /\ db = None /\ view = None /\ read = None /\ bind = None /\ poller = None /\ ui = None
    /\ moves = None

Init ==
    \/ /\ part = "turns" /\ Turns!Init
       /\ NoClaude /\ NoAdapter /\ NoMcp /\ NoKeys /\ NoView
       /\ disposal = None /\ active = None /\ pending = None /\ closing = None
    \/ /\ part = "claude" /\ Claude!Init
       /\ NoTurns /\ NoAdapter /\ NoMcp /\ NoKeys /\ NoView
       /\ child = None /\ closing = None
    \/ /\ part = "adapter" /\ Adapter!Init
       /\ NoTurns /\ NoClaude /\ NoMcp /\ NoKeys /\ NoView
       /\ child = None /\ closed = None /\ pending = None /\ closing = None
    \/ /\ part = "mcp" /\ Mcp!Init
       /\ NoTurns /\ NoClaude /\ NoAdapter /\ NoKeys /\ NoView
       /\ pc = None /\ aborted = None /\ report = None /\ disposal = None /\ active = None
    \/ /\ part = "keys" /\ Keys!Init
       /\ NoTurns /\ NoClaude /\ NoAdapter /\ NoMcp /\ NoView
       /\ child = None /\ closed = None /\ aborted = None /\ report = None /\ outcome = None
       /\ disposal = None /\ pending = None /\ closing = None
    \/ /\ part = "view" /\ View!Init
       /\ NoTurns /\ NoClaude /\ NoAdapter /\ NoMcp /\ NoKeys
       /\ child = None /\ closed = None /\ pc = None /\ aborted = None /\ report = None /\ outcome = None
       /\ disposal = None /\ active = None /\ pending = None

NextAdapter ==
    \/ \E c \in Calls :
          \/ AdapterStep(Adapter!Replay(c)) \/ AdapterStep(Adapter!Invoke(c)) \/ AdapterStep(Adapter!Abort(c))
          \/ AdapterStep(Adapter!Advance(c)) \/ AdapterStep(Adapter!Client(c))
          \/ AdapterStep(Adapter!ClientLaunches(c)) \/ AdapterStep(Adapter!RuntimeEnds(c))
    \/ AdapterStep(Adapter!Dispose) \/ AdapterStep(Adapter!Disposed)

NextMcp ==
    \/ \E c \in McpCalls :
          \/ McpStep(Mcp!Begin(c)) \/ McpStep(Mcp!Answered(c)) \/ McpStep(Mcp!TimesOut(c)) \/ McpStep(Mcp!Fails(c))
          \/ McpStep(Mcp!CallFails(c)) \/ McpStep(Mcp!Resume(c)) \/ McpStep(Mcp!ResumeDeadline(c))
          \/ McpStep(Mcp!ChildCloses(c))
    \/ \E k \in Conns :
          \/ McpStep(Mcp!Opens(k)) \/ McpStep(Mcp!OpenFails(k)) \/ McpStep(Mcp!Refused(k))
          \/ McpStep(Mcp!ServerDies(k)) \/ McpStep(Mcp!Gone(k))
    \/ McpStep(Mcp!Close) \/ McpStep(Mcp!CloseConnection) \/ McpStep(Mcp!CloseEnds)

NextKeys ==
    \/ \E c \in KeyCalls :
          \/ KeysStep(Keys!Delegate(c)) \/ KeysStep(Keys!Wait(c)) \/ KeysStep(Keys!Queue(c))
          \/ KeysStep(Keys!Admit(c)) \/ KeysStep(Keys!Prepare(c)) \/ KeysStep(Keys!Launch(c))
          \/ KeysStep(Keys!Ended(c)) \/ KeysStep(Keys!Commit(c)) \/ KeysStep(Keys!Retry(c))
          \/ KeysStep(Keys!Finish(c)) \/ KeysStep(Keys!Milestone(c)) \/ KeysStep(Keys!ReportStopped(c))
          \/ KeysStep(Keys!StoreFails(c))
    \/ KeysStep(\E g \in live : Keys!RuntimeEnds(g))
    \/ \E s \in Servers : KeysStep(Keys!Crash(s))
    \/ KeysStep(Keys!Cancel) \/ KeysStep(Keys!Reconcile) \/ KeysStep(Keys!Reap) \/ KeysStep(Keys!LateStop)

NextView ==
    \/ ViewStep(View!NewRoot) \/ ViewStep(View!ReplaceDatabase) \/ ViewStep(View!Expire) \/ ViewStep(View!Tick)
    \/ ViewStep(View!Look) \/ ViewStep(View!Serve) \/ ViewStep(View!ServeBind) \/ ViewStep(View!ServeClose)
    \/ ViewStep(View!Close) \/ ViewStep(View!Destroy)
    \/ \E r \in View!Runs : ViewStep(View!Event(r)) \/ ViewStep(View!FollowRun(r))
    \/ \E r \in View!Runs \cup {None} : ViewStep(View!Bind(r)) \/ \E f \in BOOLEAN : ViewStep(View!Reopen(r, f))
    \/ \E lost \in BOOLEAN :
          ViewStep(View!Arrive(lost)) \/ ViewStep(View!BindEnds(lost)) \/ ViewStep(View!CloseEnds(lost))
    \/ \E shown \in BOOLEAN : ViewStep(View!SetVisible(shown))

Next == TurnsStep(Turns!Next) \/ ClaudeStep(Claude!Next) \/ NextAdapter \/ NextMcp \/ NextKeys \/ NextView

\* The fairness of each component's own specification, of the one that is at work.
Fairness ==
    /\ \A c \in TurnCalls :
          /\ WF_turnsVars(Now("turns") /\ Turns!Continue(c)) /\ WF_turnsVars(Now("turns") /\ Turns!Timer(c))
          /\ WF_turnsVars(Now("turns") /\ Turns!EnterTurn(c)) /\ WF_turnsVars(Now("turns") /\ Turns!LaunchTurn(c))
          /\ WF_turnsVars(Now("turns") /\ Turns!TurnStarted(c)) /\ WF_turnsVars(Now("turns") /\ Turns!TurnCompleted(c))
    /\ WF_turnsVars(Now("turns") /\ (Turns!Connected \/ Turns!ConnectFails))
    /\ WF_turnsVars(Now("turns") /\ Turns!CatalogRead)
    /\ \A i \in Invs :
          /\ WF_claudeVars(Now("claude") /\ Claude!Advance(i)) /\ WF_claudeVars(Now("claude") /\ Claude!Checked(i))
          /\ WF_claudeVars(Now("claude") /\ Claude!Expire(i)) /\ WF_claudeVars(Now("claude") /\ Claude!Cancelled(i))
          /\ WF_claudeVars(Now("claude") /\ Claude!CancelTimer(i))
    /\ WF_claudeVars(Now("claude") /\ Claude!Disposed)
    /\ \A c \in Calls : WF_adapterVars(Now("adapter") /\ (Adapter!Advance(c) \/ Adapter!Client(c)))
    /\ WF_adapterVars(Now("adapter") /\ Adapter!Disposed)
    /\ \A c \in McpCalls : WF_mcpVars(Now("mcp") /\ Mcp!Proceeds(c))
    /\ \A k \in Conns : WF_mcpVars(Now("mcp") /\ Mcp!Resolves(k))
    /\ WF_mcpVars(Now("mcp") /\ (Mcp!CloseConnection \/ Mcp!CloseEnds))
    /\ \A c \in KeyCalls : WF_keysVars(Now("keys") /\ Keys!Wait(c)) /\ WF_keysVars(Now("keys") /\ Keys!Attempt(c))
    /\ WF_viewVars(Now("view") /\ View!Tick) /\ WF_viewVars(Now("view") /\ View!Serving)
    /\ WF_viewVars(Now("view") /\ View!Arrive(FALSE)) /\ WF_viewVars(Now("view") /\ View!BindEnds(FALSE))

Spec == Init /\ [][Next]_all /\ Fairness
-----------------------------------------------------------------------------
(* Properties, each defined in the module of its component.                *)

\* Whatever runtimes, processes, answers and callers do, every call, cancellation, disposal and
\* delegation comes to its end, a turn that was given up frees its thread once it has provably
\* ended, and the widget comes to show what the database has.
EverythingSettles ==
    <>[](\/ part = "turns" /\ Turns!AtRest
         \/ part = "claude" /\ Claude!AtRest
         \/ part = "adapter" /\ Adapter!AtRest
         \/ part = "mcp" /\ Mcp!AtRest
         \/ part = "keys" /\ Keys!AtRest
         \/ part = "view" /\ View!AtRest)

\* The tokens of an answered turn add up, in whatever order usage and completion arrive.
UsageAddsUp == part = "turns" => Turns!UsageAddsUp

\* Over a client that confirms stops, the Codex adapter reports "stopped" as its last word on no
\* turn that is alive.
StopReportHonest == part = "adapter" => Adapter!StopReportHonest

\* One key of the Codex adapter is never at work twice, nor is one task.
OneExecution == part = "adapter" => Adapter!OneExecution

\* The MCP client leaves no child and no server behind when it was closed.
CloseLeavesNoRuntime == part = "mcp" => Mcp!CloseLeavesNoRuntime

\* A delegation key is at work once, across servers, replays and crashes.
OneRuntimePerKey == part = "keys" => Keys!OneRuntimePerKey

\* All callers of a delegation key are told one outcome.
AnswersAgree == part = "keys" => Keys!AnswersAgree

\* The slot and scope of a finished delegation are free again, but for the cases it names.
SlotComesBack == part = "keys" => Keys!SlotComesBack

\* A widget shows the run that was picked, until another is picked.
PinnedIsShown == part = "view" => View!PinnedIsShown
=============================================================================
