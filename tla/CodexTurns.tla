----------------------------- MODULE CodexTurns -----------------------------
(***************************************************************************)
(* The Codex App Server client (codex-app-server-client.ts): one child     *)
(* process at a time, JSON-RPC over its stdio, one turn per call.  The     *)
(* question is the stop evidence.  A call may lose its turn to a timer, an *)
(* abort, a lost process or a malformed frame while the turn goes on at    *)
(* the server; the client may say "stopped" only on the terminal           *)
(* notification of that very turn, and must keep the thread locked until   *)
(* then.                                                                   *)
(*                                                                         *)
(* JavaScript runs to completion: an action is one turn of the event loop, *)
(* and a continuation of a settled promise runs before the next event (the *)
(* guard Quiet).  The turn a call starts carries the name of the call.     *)
(* The notifications of a turn arrive in the order they were written; the  *)
(* response to turn/start arrives anywhere among them, or never.           *)
(***************************************************************************)
EXTENDS Naturals, FiniteSets

CONSTANTS Calls,        \* calls of start or reply, and the turns they start
          Threads,      \* Codex threads
          Starts,       \* the calls that are start; the others are reply
          Strict,       \* the calls with telemetry_mode "strict"
          ThreadOf,     \* the thread of each call
          MaxSpawn,     \* processes that may be spawned
          MaxTotal,     \* model calls one turn makes at most
          None, Null    \* no entry in a map; an entry that holds null

Sane ==
    /\ Starts \subseteq Calls /\ Strict \subseteq Calls
    /\ ThreadOf \in [Calls -> Threads]
    /\ MaxSpawn \in Nat /\ MaxTotal \in Nat
    /\ None \notin Calls /\ Null \notin Calls /\ None # Null

ASSUME CodexAssumption == Sane

VARIABLES child,        \* the current child process, 0 for none
          spawned,      \* how many were spawned
          running,      \* the children that have not exited
          link,         \* "down", "connecting" or "up": connecting, initialized
          closed, protocolFailure,
          catalog,      \* modelCatalog: "none", "reading" or "ready"
          loadedThreads,
          activeTurns,  \* thread -> None, Null (turn id unknown) or a turn
          callbacks,    \* thread -> None or the call whose callback it holds
          unconfirmedThreads,
          completedTurns, usageByTurn, turnWaiters, usageTimers, stopWaiters,
          retiredTurns,
          pc, aborted, sure, report, outcome, spent,
          turnAt,       \* the turn at the server
          status, startedSeen, endSeen, emitted, procOf

connVars   == <<child, spawned, running, link, closed, protocolFailure, catalog, loadedThreads>>
threadVars == <<activeTurns, callbacks, unconfirmedThreads>>
turnVars   == <<completedTurns, usageByTurn, turnWaiters, usageTimers, stopWaiters, retiredTurns>>
callVars   == <<pc, aborted, sure, report, outcome, spent>>
serverVars == <<turnAt, status, startedSeen, endSeen, emitted, procOf>>
vars == <<connVars, threadVars, turnVars, callVars, serverVars>>

NoUsage == [last |-> 0, total |-> 0]

Init ==
    /\ child = 0 /\ spawned = 0 /\ running = {} /\ link = "down"
    /\ closed = FALSE /\ protocolFailure = FALSE
    /\ catalog = "none" /\ loadedThreads = {}
    /\ activeTurns = [t \in Threads |-> None]
    /\ callbacks = [t \in Threads |-> None]
    /\ unconfirmedThreads = {}
    /\ completedTurns = {} /\ usageByTurn = [c \in Calls |-> NoUsage]
    /\ turnWaiters = {} /\ usageTimers = {} /\ stopWaiters = {} /\ retiredTurns = {}
    /\ pc = [c \in Calls |-> "idle"] /\ aborted = {} /\ sure = {}
    /\ report = [c \in Calls |-> "none"]
    /\ outcome = [c \in Calls |-> "none"]
    /\ spent = [c \in Calls |-> NoUsage]
    /\ turnAt = [c \in Calls |-> "none"]
    /\ status = [c \in Calls |-> "none"]
    /\ startedSeen = {} /\ endSeen = {}
    /\ emitted = [c \in Calls |-> 0]
    /\ procOf = [c \in Calls |-> 0]
-----------------------------------------------------------------------------
(* Helpers.                                                                *)

\* A continuation is due: it runs before the next event.
Due(c)    == pc[c] \in {"refused", "caught", "stopResolved", "stopExpired", "answered"}
               \/ (pc[c] = "catalog" /\ catalog = "ready")
Quiet     == \A c \in Calls : ~Due(c)
Goto(c, l) == pc' = [pc EXCEPT ![c] = l]
Say(c, r)  == report' = [report EXCEPT ![c] = r]

\* request(): refused before anything is written when the signal is aborted
\* or the child is gone.
Sent(c, awaiting, otherwise) == IF c \in aborted \/ child = 0 THEN otherwise ELSE awaiting

\* What becomes of an awaited promise when everything is rejected.
AfterReject(l) ==
    CASE l \in {"connect", "config", "catalog", "thread"} -> "refused"
      [] l \in {"starting", "waiting"} -> "caught"
      [] l = "interrupting" -> "stopExpired"
      [] OTHER -> l

\* removeTurnWaiter: waiter, timers and every record of the turn.
Forget(S) ==
    /\ turnWaiters' = turnWaiters \ S
    /\ usageTimers' = usageTimers \ S
    /\ completedTurns' = completedTurns \ S
    /\ usageByTurn' = [c \in Calls |-> IF c \in S THEN NoUsage ELSE usageByTurn[c]]

\* rejectAll: pending requests, turn waiters and stop waiters.
RejectAll ==
    /\ pc' = [c \in Calls |-> AfterReject(pc[c])]
    /\ Forget(turnWaiters)
    /\ stopWaiters' = {}
    /\ catalog' = IF catalog = "reading" THEN "none" ELSE catalog
    /\ UNCHANGED <<aborted, sure, report, outcome, spent, retiredTurns>>
-----------------------------------------------------------------------------
(* Connection.                                                             *)

\* ensureConnected: fail, go on, join the connection being opened, or spawn.
\* A child whose initialize failed is not ended: a later call spawns another.
Connect(c) ==
    /\ Quiet /\ pc[c] = "idle"
    /\ \/ /\ closed \/ protocolFailure
          /\ Goto(c, "refused")
          /\ UNCHANGED <<child, spawned, running, link>>
       \/ /\ ~closed /\ ~protocolFailure /\ link = "up"
          /\ Goto(c, Sent(c,
                 CASE c \in Starts -> "config"
                   [] c \notin Starts /\ ThreadOf[c] \in loadedThreads -> "handle"
                   [] OTHER -> "thread",
                 IF c \notin Starts /\ ThreadOf[c] \in loadedThreads THEN "handle" ELSE "refused"))
          /\ UNCHANGED <<child, spawned, running, link>>
       \/ /\ ~closed /\ ~protocolFailure /\ link = "connecting"
          /\ Goto(c, "connect")
          /\ UNCHANGED <<child, spawned, running, link>>
       \/ /\ ~closed /\ ~protocolFailure /\ link = "down" /\ spawned < MaxSpawn
          /\ spawned' = spawned + 1
          /\ child' = spawned + 1
          /\ running' = running \cup {spawned + 1}
          /\ link' = "connecting"
          /\ Goto(c, "connect")
    /\ UNCHANGED <<closed, protocolFailure, catalog, loadedThreads, threadVars,
                   turnVars, aborted, sure, report, outcome, spent, serverVars>>

Connected ==
    /\ Quiet /\ link = "connecting"
    /\ link' = "up"
    /\ pc' = [c \in Calls |->
                 IF pc[c] # "connect" THEN pc[c]
                 ELSE CASE c \notin Starts /\ ThreadOf[c] \in loadedThreads -> "handle"
                        [] c \in Starts -> Sent(c, "config", "refused")
                        [] OTHER -> Sent(c, "thread", "refused")]
    /\ UNCHANGED <<child, spawned, running, closed, protocolFailure, catalog, loadedThreads,
                   threadVars, turnVars, aborted, sure, report, outcome, spent, serverVars>>

ConnectFails ==
    /\ Quiet /\ link = "connecting"
    /\ link' = "down"
    /\ pc' = [c \in Calls |-> IF pc[c] = "connect" THEN "refused" ELSE pc[c]]
    /\ UNCHANGED <<child, spawned, running, closed, protocolFailure, catalog, loadedThreads,
                   threadVars, turnVars, aborted, sure, report, outcome, spent, serverVars>>

\* The close event of a child.  Only the current one takes the connection
\* down, but any of them rejects everything that is pending.
ChildClosed(g) ==
    /\ Quiet /\ g \in running
    /\ running' = running \ {g}
    /\ IF child = g
       THEN child' = 0 /\ loadedThreads' = {}
       ELSE UNCHANGED <<child, loadedThreads>>
    /\ link' = IF child = g \/ (~closed /\ link = "connecting") THEN "down" ELSE link
    /\ turnAt' = [c \in Calls |-> IF procOf[c] = g /\ turnAt[c] = "sent" THEN "lost" ELSE turnAt[c]]
    /\ IF closed THEN UNCHANGED <<callVars, turnVars, catalog>> ELSE RejectAll
    /\ UNCHANGED <<spawned, closed, protocolFailure, threadVars, status, startedSeen,
                   endSeen, emitted, procOf>>

\* close(): the child is asked to end, and its output is still read.
Close ==
    /\ Quiet /\ ~closed
    /\ closed' = TRUE /\ child' = 0 /\ link' = "down"
    /\ RejectAll
    /\ UNCHANGED <<spawned, running, protocolFailure, loadedThreads, threadVars, serverVars>>

\* A frame that cannot be read: nothing of this client is read any more.
MalformedFrame ==
    /\ Quiet /\ running # {} /\ ~protocolFailure
    /\ protocolFailure' = TRUE
    /\ closed' = TRUE /\ child' = 0 /\ link' = "down"
    /\ RejectAll
    /\ UNCHANGED <<spawned, running, loadedThreads, threadVars, serverVars>>
-----------------------------------------------------------------------------
(* Preparing a turn: model, thread, handle.                                *)

Resolved(c) ==
    IF c \in Starts
    THEN /\ Goto(c, Sent(c, "thread", "refused"))
         /\ UNCHANGED loadedThreads
    ELSE /\ Goto(c, "handle")
         /\ loadedThreads' = loadedThreads \cup {ThreadOf[c]}

\* The answer to config/read: a custom provider needs no catalog; the first
\* call that needs it starts reading it for all.
ConfigRead(c) ==
    /\ Quiet /\ pc[c] = "config" /\ child # 0
    /\ \/ Resolved(c) /\ UNCHANGED catalog
       \/ /\ Goto(c, "catalog")
          /\ catalog' = IF catalog = "none" THEN "reading" ELSE catalog
          /\ UNCHANGED loadedThreads
    /\ UNCHANGED <<child, spawned, running, link, closed, protocolFailure, threadVars, turnVars,
                   aborted, sure, report, outcome, spent, serverVars>>

\* The shared read ends; a failed one is dropped, so that the next call tries again.
CatalogRead ==
    /\ Quiet /\ catalog = "reading"
    /\ \/ catalog' = "ready" /\ UNCHANGED pc
       \/ /\ catalog' = "none"
          /\ pc' = [c \in Calls |-> IF pc[c] = "catalog" THEN "refused" ELSE pc[c]]
    /\ UNCHANGED <<child, spawned, running, link, closed, protocolFailure, loadedThreads,
                   threadVars, turnVars, aborted, sure, report, outcome, spent, serverVars>>

\* The wanted or the default model is listed, or the profile does not match.
PickModel(c) ==
    /\ pc[c] = "catalog" /\ catalog = "ready"
    /\ \/ Resolved(c)
       \/ Goto(c, "refused") /\ UNCHANGED loadedThreads
    /\ UNCHANGED <<child, spawned, running, link, closed, protocolFailure, catalog, threadVars,
                   turnVars, aborted, sure, report, outcome, spent, serverVars>>

\* thread/start or thread/resume is answered.
ThreadReady(c) ==
    /\ Quiet /\ pc[c] = "thread" /\ child # 0
    /\ IF c \in Starts
       THEN /\ loadedThreads' = loadedThreads \cup {ThreadOf[c]}
            /\ Goto(c, "handle")
       ELSE /\ Goto(c, Sent(c, "config", "refused"))
            /\ UNCHANGED loadedThreads
    /\ UNCHANGED <<child, spawned, running, link, closed, protocolFailure, catalog, threadVars,
                   turnVars, aborted, sure, report, outcome, spent, serverVars>>

\* An error, a timeout or another thread's id instead; or the handle is not saved.
PrepareFails(c) ==
    /\ Quiet /\ pc[c] \in {"config", "thread", "handle"}
    /\ Goto(c, "refused")
    /\ UNCHANGED <<connVars, threadVars, turnVars, aborted, sure, report, outcome, spent, serverVars>>

\* The catch of start and of reply: no turn was launched by this call.
Refuse(c) ==
    /\ pc[c] = "refused"
    /\ LET stopped == c \in Starts \/ activeTurns[ThreadOf[c]] = None
           kind == IF stopped THEN "stopped" ELSE "unconfirmed"
       IN /\ Say(c, kind)
          /\ outcome' = [outcome EXCEPT ![c] = kind]
    /\ Goto(c, "done")
    /\ UNCHANGED <<connVars, threadVars, turnVars, aborted, sure, spent, serverVars>>
-----------------------------------------------------------------------------
(* runTurn.                                                                *)

\* The handle is saved: refuse on an abort or an open turn, else take the thread.
EnterTurn(c) ==
    /\ Quiet /\ pc[c] = "handle"
    /\ LET t == ThreadOf[c] IN
       IF c \in aborted \/ activeTurns[t] # None
       THEN /\ outcome' = [outcome EXCEPT ![c] = IF c \in aborted THEN "stopped" ELSE "unconfirmed"]
            /\ Goto(c, "done")
            /\ UNCHANGED <<activeTurns, callbacks>>
       ELSE /\ activeTurns' = [activeTurns EXCEPT ![t] = Null]
            /\ callbacks' = [callbacks EXCEPT ![t] = c]
            /\ Goto(c, "reporting")
            /\ UNCHANGED outcome
    /\ UNCHANGED <<connVars, unconfirmedThreads, turnVars, aborted, sure, report, spent, serverVars>>

\* The report "running" is accepted and turn/start is written, or either fails.
LaunchTurn(c) ==
    /\ Quiet /\ pc[c] = "reporting"
    /\ \/ /\ Say(c, "running")
          /\ Goto(c, Sent(c, "starting", "caught"))
          /\ IF c \in aborted \/ child = 0
             THEN UNCHANGED <<turnAt, procOf>>
             ELSE /\ turnAt' = [turnAt EXCEPT ![c] = "sent"]
                  /\ procOf' = [procOf EXCEPT ![c] = child]
       \/ /\ Goto(c, "caught")
          /\ UNCHANGED <<report, turnAt, procOf>>
    /\ UNCHANGED <<connVars, threadVars, turnVars, aborted, sure, outcome, spent,
                   status, startedSeen, endSeen, emitted>>

\* maybeFinishTurn, with the records as they are after the event.
Verdict(c, completed, usage) ==
    IF c \notin completed THEN "wait"
    ELSE IF status[c] # "completed" THEN "fail"
    ELSE IF usage.total > 0 THEN "finish"
    ELSE IF c \in Strict THEN "wait" ELSE "grace"

Finish(c, completed, usage) ==
    LET v == Verdict(c, completed, usage) IN
    IF v \in {"fail", "finish"}
    THEN /\ turnWaiters' = turnWaiters \ {c}
         /\ usageTimers' = usageTimers \ {c}
         /\ completedTurns' = completed \ {c}
         /\ usageByTurn' = [usageByTurn EXCEPT ![c] = NoUsage]
         /\ Goto(c, IF v = "fail" THEN "caught" ELSE "answered")
         /\ sure' = IF v = "fail" THEN sure \cup {c} ELSE sure
         /\ spent' = [spent EXCEPT ![c] = IF v = "finish" THEN usage ELSE @]
    ELSE /\ turnWaiters' = turnWaiters \cup {c}
         /\ usageTimers' = IF v = "grace" THEN usageTimers \cup {c} ELSE usageTimers
         /\ completedTurns' = completed
         /\ usageByTurn' = [usageByTurn EXCEPT ![c] = usage]
         /\ Goto(c, "waiting")
         /\ UNCHANGED <<sure, spent>>

\* The response to turn/start: the id is known and waitForTurn begins.
TurnAccepted(c) ==
    /\ Quiet /\ pc[c] = "starting" /\ ~protocolFailure
    /\ turnAt[c] \in {"running", "ended"} /\ procOf[c] \in running
    /\ activeTurns' = [activeTurns EXCEPT ![ThreadOf[c]] = c]
    /\ Finish(c, completedTurns, usageByTurn[c])
    /\ UNCHANGED <<connVars, callbacks, unconfirmedThreads, stopWaiters, retiredTurns,
                   aborted, report, outcome, serverVars>>

\* turn/start times out: whether the turn began is unknown.
TurnRpcTimeout(c) ==
    /\ Quiet /\ pc[c] = "starting"
    /\ Goto(c, "caught")
    /\ UNCHANGED <<connVars, threadVars, turnVars, aborted, sure, report, outcome, spent, serverVars>>

\* Seeded bug: a deadline that has passed is taken for the end of the turn.
DeadlineEndsTurn(c) ==
    /\ Quiet /\ pc[c] = "waiting"
    /\ Forget({c})
    /\ Goto(c, "caught")
    /\ sure' = sure \cup {c}
    /\ UNCHANGED <<connVars, threadVars, stopWaiters, retiredTurns, aborted, report, outcome,
                   spent, serverVars>>

\* The deadline of waitForTurn.
WaitTimeout(c) ==
    /\ Quiet /\ pc[c] = "waiting"
    /\ Forget({c})
    /\ Goto(c, IF c \in completedTurns /\ c \notin Strict /\ status[c] = "completed"
               THEN "answered" ELSE "caught")
    /\ sure' = IF c \in completedTurns THEN sure \cup {c} ELSE sure
    /\ UNCHANGED <<connVars, threadVars, stopWaiters, retiredTurns, aborted, report, outcome,
                   spent, serverVars>>

\* The usage grace period of an operational turn ends.
UsageTimer(c) ==
    /\ Quiet /\ c \in usageTimers
    /\ Forget({c})
    /\ Goto(c, "answered")
    /\ UNCHANGED <<connVars, threadVars, stopWaiters, retiredTurns, aborted, sure, report,
                   outcome, spent, serverVars>>

\* The caller's signal aborts: the request or the wait it guards is rejected.
Abort(c) ==
    /\ Quiet /\ c \notin aborted /\ pc[c] # "done"
    /\ aborted' = aborted \cup {c}
    /\ Goto(c, CASE pc[c] \in {"config", "catalog", "thread"} -> "refused"
                 [] pc[c] \in {"starting", "waiting"} -> "caught"
                 [] OTHER -> pc[c])
    /\ IF pc[c] = "waiting"
       THEN /\ sure' = IF c \in completedTurns THEN sure \cup {c} ELSE sure
            /\ Forget({c})
       ELSE UNCHANGED <<sure, completedTurns, usageByTurn, turnWaiters, usageTimers>>
    /\ UNCHANGED <<connVars, threadVars, stopWaiters, retiredTurns, report, outcome, spent, serverVars>>

\* The catch of runTurn: the stop is known already, or the turn is interrupted
\* when its id is known, or the thread is marked at once.
Catch(c) ==
    /\ pc[c] = "caught"
    /\ LET t == ThreadOf[c]
           known == activeTurns[t] = c
       IN \/ /\ c \in sure \/ (known /\ c \in completedTurns)
             /\ sure' = sure \cup {c}
             /\ Say(c, "stopped")
             /\ Goto(c, "closing")
             /\ UNCHANGED <<unconfirmedThreads, stopWaiters>>
          \/ /\ c \notin sure /\ known /\ c \notin completedTurns
             /\ stopWaiters' = stopWaiters \cup {c}
             /\ Goto(c, "interrupting")
             /\ UNCHANGED <<sure, report, unconfirmedThreads>>
          \/ /\ c \notin sure /\ ~known
             /\ unconfirmedThreads' = unconfirmedThreads \cup {t}
             /\ Say(c, "unconfirmed")
             /\ Goto(c, "closing")
             /\ UNCHANGED <<sure, stopWaiters>>
    /\ UNCHANGED <<connVars, activeTurns, callbacks, completedTurns, usageByTurn, turnWaiters,
                   usageTimers, retiredTurns, aborted, outcome, spent, serverVars>>

\* The stop timer: the interrupt was not answered by a completion in time.
StopTimer(c) ==
    /\ Quiet /\ c \in stopWaiters
    /\ stopWaiters' = stopWaiters \ {c}
    /\ Goto(c, IF pc[c] = "interrupting" THEN "stopExpired" ELSE pc[c])
    /\ UNCHANGED <<connVars, threadVars, completedTurns, usageByTurn, turnWaiters, usageTimers,
                   retiredTurns, aborted, sure, report, outcome, spent, serverVars>>

\* Seeded bug: the answer to turn/interrupt is taken for the end of the turn.
AnsweredMeansStopped(c) ==
    /\ pc[c] \in {"stopResolved", "stopExpired"}
    /\ sure' = sure \cup {c} /\ Say(c, "stopped") /\ Goto(c, "closing")
    /\ UNCHANGED <<connVars, threadVars, turnVars, aborted, outcome, spent, serverVars>>

\* The continuation of interruptAndConfirm.
Interrupted(c) ==
    /\ pc[c] \in {"stopResolved", "stopExpired"}
    /\ IF pc[c] = "stopResolved"
       THEN /\ sure' = sure \cup {c}
            /\ Say(c, "stopped")
            /\ UNCHANGED unconfirmedThreads
       ELSE /\ unconfirmedThreads' = unconfirmedThreads \cup {ThreadOf[c]}
            /\ Say(c, "unconfirmed")
            /\ UNCHANGED sure
    /\ Goto(c, "closing")
    /\ UNCHANGED <<connVars, activeTurns, callbacks, turnVars, aborted, outcome, spent, serverVars>>

\* The finally of runTurn: a confirmed stop frees the thread and retires the turn.
Release(c) ==
    LET t == ThreadOf[c] IN
    /\ activeTurns' = [activeTurns EXCEPT ![t] = None]
    /\ callbacks' = [callbacks EXCEPT ![t] = None]
    /\ unconfirmedThreads' = unconfirmedThreads \ {t}
    /\ IF activeTurns[t] = c
       THEN Forget({c}) /\ retiredTurns' = retiredTurns \cup {c}
       ELSE UNCHANGED <<completedTurns, usageByTurn, turnWaiters, usageTimers, retiredTurns>>

\* waitForTurn returned: the answer, or a completed turn without a message.
Answer(c) ==
    /\ pc[c] = "answered"
    /\ \/ /\ Release(c)
          /\ outcome' = [outcome EXCEPT ![c] = "ok"]
          /\ Goto(c, "done")
          /\ UNCHANGED sure
       \/ /\ sure' = sure \cup {c}
          /\ Goto(c, "caught")
          /\ UNCHANGED <<outcome, threadVars, completedTurns, usageByTurn, turnWaiters,
                         usageTimers, retiredTurns>>
    /\ UNCHANGED <<connVars, stopWaiters, aborted, report, spent, serverVars>>

\* Seeded bug: the finally frees the thread whatever is known of the stop.
AlwaysFrees(c) ==
    /\ Quiet /\ pc[c] = "closing"
    /\ Release(c)
    /\ outcome' = [outcome EXCEPT ![c] = IF c \in sure THEN "stopped" ELSE "unconfirmed"]
    /\ Goto(c, "done")
    /\ UNCHANGED <<connVars, stopWaiters, aborted, sure, report, spent, serverVars>>

\* The report of the catch was taken: the call fails with what it knows.
FailTurn(c) ==
    /\ Quiet /\ pc[c] = "closing"
    /\ IF c \in sure
       THEN Release(c)
       ELSE UNCHANGED <<threadVars, completedTurns, usageByTurn, turnWaiters, usageTimers, retiredTurns>>
    /\ outcome' = [outcome EXCEPT ![c] = IF c \in sure THEN "stopped" ELSE "unconfirmed"]
    /\ Goto(c, "done")
    /\ UNCHANGED <<connVars, stopWaiters, aborted, sure, report, spent, serverVars>>
-----------------------------------------------------------------------------
(* The App Server, as far as the client depends on it.                     *)

ServerTakes(c) ==
    /\ Quiet /\ turnAt[c] = "sent" /\ procOf[c] \in running
    /\ turnAt' = [turnAt EXCEPT ![c] = "running"]
    /\ UNCHANGED <<connVars, threadVars, turnVars, callVars, status, startedSeen, endSeen,
                   emitted, procOf>>

\* The server answers turn/start with an error and starts nothing.
ServerRefuses(c) ==
    /\ Quiet /\ turnAt[c] = "sent" /\ procOf[c] \in running /\ ~protocolFailure
    /\ turnAt' = [turnAt EXCEPT ![c] = "lost"]
    /\ Goto(c, IF pc[c] = "starting" THEN "caught" ELSE pc[c])
    /\ UNCHANGED <<connVars, threadVars, turnVars, aborted, sure, report, outcome, spent,
                   status, startedSeen, endSeen, emitted, procOf>>

ServerEnds(c) ==
    /\ Quiet /\ turnAt[c] = "running" /\ procOf[c] \in running
    /\ turnAt' = [turnAt EXCEPT ![c] = "ended"]
    /\ \E s \in {"completed", "failed"} : status' = [status EXCEPT ![c] = s]
    /\ UNCHANGED <<connVars, threadVars, turnVars, callVars, startedSeen, endSeen, emitted, procOf>>
-----------------------------------------------------------------------------
(* onNotification.                                                         *)

Readable(c) == Quiet /\ ~protocolFailure /\ procOf[c] \in running

\* turn/started: correlates the thread; a turn of an unconfirmed thread is interrupted.
TurnStarted(c) ==
    /\ Readable(c) /\ turnAt[c] \in {"running", "ended"} /\ c \notin startedSeen
    /\ startedSeen' = startedSeen \cup {c}
    /\ LET t == ThreadOf[c] IN
       IF c \in retiredTurns \/ activeTurns[t] \notin {Null, c}
       THEN UNCHANGED <<activeTurns, stopWaiters>>
       ELSE /\ activeTurns' = [activeTurns EXCEPT ![t] = c]
            /\ stopWaiters' = IF t \in unconfirmedThreads THEN stopWaiters \cup {c} ELSE stopWaiters
    /\ UNCHANGED <<connVars, callbacks, unconfirmedThreads, completedTurns, usageByTurn,
                   turnWaiters, usageTimers, retiredTurns, callVars, turnAt, status, endSeen,
                   emitted, procOf>>

\* Seeded bug: a repeated total counts its last call again.
CountsTwice(old, total) ==
    IF old.total > 0 /\ total >= old.total
    THEN [last |-> old.last + 1, total |-> total] ELSE [last |-> 1, total |-> total]

\* thread/tokenUsage/updated: a newer cumulative total adds its last call, a
\* repeated one adds nothing.
Accumulate(old, total) ==
    CASE old.total > 0 /\ total > old.total -> [last |-> old.last + 1, total |-> total]
      [] old.total > 0 /\ total = old.total -> [last |-> old.last, total |-> total]
      [] OTHER -> [last |-> 1, total |-> total]

UsageUpdated(c) ==
    /\ Readable(c) /\ c \in startedSeen
    /\ \E total \in {emitted[c], emitted[c] + 1} \cap (1..MaxTotal) :
          LET usage == Accumulate(usageByTurn[c], total) IN
          /\ emitted' = [emitted EXCEPT ![c] = total]
          /\ IF c \in retiredTurns
             THEN UNCHANGED <<turnVars, callVars>>
             ELSE /\ IF c \in turnWaiters
                     THEN Finish(c, completedTurns, usage)
                     ELSE /\ usageByTurn' = [usageByTurn EXCEPT ![c] = usage]
                          /\ UNCHANGED <<completedTurns, turnWaiters, usageTimers, pc, sure, spent>>
                  /\ UNCHANGED <<stopWaiters, retiredTurns, aborted, report, outcome>>
    /\ UNCHANGED <<connVars, threadVars, turnAt, status, startedSeen, endSeen, procOf>>

\* turn/completed: the only stop evidence.
TurnCompleted(c) ==
    /\ Readable(c) /\ turnAt[c] = "ended" /\ c \in startedSeen /\ c \notin endSeen
    /\ endSeen' = endSeen \cup {c}
    /\ LET t == ThreadOf[c]
           current == c \notin retiredTurns /\ activeTurns[t] = c
       IN /\ report' = [d \in Calls |-> IF current /\ callbacks[t] = d THEN "stopped" ELSE report[d]]
          /\ IF c \in retiredTurns
             THEN UNCHANGED <<threadVars, turnVars, pc, sure, spent>>
             ELSE IF current /\ t \in unconfirmedThreads
             THEN /\ Release(c)
                  /\ UNCHANGED <<stopWaiters, pc, sure, spent>>
             ELSE /\ stopWaiters' = stopWaiters \ {c}
                  /\ IF c \in turnWaiters
                     THEN Finish(c, completedTurns \cup {c}, usageByTurn[c])
                     ELSE /\ completedTurns' = completedTurns \cup {c}
                          /\ Goto(c, IF pc[c] = "interrupting" THEN "stopResolved" ELSE pc[c])
                          /\ UNCHANGED <<usageByTurn, turnWaiters, usageTimers, sure, spent>>
                  /\ UNCHANGED <<threadVars, retiredTurns>>
    /\ UNCHANGED <<connVars, aborted, outcome, turnAt, status, startedSeen, emitted, procOf>>
-----------------------------------------------------------------------------
Continue(c) == \/ PickModel(c) \/ Refuse(c) \/ Catch(c) \/ Interrupted(c)
               \/ Answer(c) \/ FailTurn(c)
Timer(c)    == \/ PrepareFails(c) \/ TurnRpcTimeout(c) \/ WaitTimeout(c)
               \/ UsageTimer(c) \/ StopTimer(c)
Step(c) ==
    \/ Connect(c) \/ ConfigRead(c) \/ ThreadReady(c) \/ EnterTurn(c) \/ LaunchTurn(c)
    \/ TurnAccepted(c) \/ Abort(c) \/ Continue(c) \/ Timer(c)
    \/ ServerTakes(c) \/ ServerRefuses(c) \/ ServerEnds(c)
    \/ TurnStarted(c) \/ UsageUpdated(c) \/ TurnCompleted(c)

Next == \/ \E c \in Calls : Step(c)
        \/ \E g \in 1..MaxSpawn : ChildClosed(g)
        \/ Connected \/ ConnectFails \/ CatalogRead \/ Close \/ MalformedFrame

\* Timers fire, callbacks return and the event loop goes on; nothing is
\* assumed of the server, of the caller's signal or of the process.
Fairness ==
    /\ \A c \in Calls : WF_vars(Continue(c)) /\ WF_vars(Timer(c))
                        /\ WF_vars(EnterTurn(c)) /\ WF_vars(LaunchTurn(c))
    /\ WF_vars(Connected \/ ConnectFails) /\ WF_vars(CatalogRead)
    \* What a live process has written is read.
    /\ \A c \in Calls : WF_vars(TurnStarted(c)) /\ WF_vars(TurnCompleted(c))

Spec == Init /\ [][Next]_vars /\ Fairness
-----------------------------------------------------------------------------
(* Properties.                                                             *)

Launched(c) == turnAt[c] \in {"sent", "running"}

\* Type invariant of the client and of the server's side of its turns.
TypeOK ==
    /\ child \in 0..MaxSpawn /\ spawned \in 0..MaxSpawn /\ running \subseteq 1..MaxSpawn
    /\ link \in {"down", "connecting", "up"} /\ catalog \in {"none", "reading", "ready"}
    /\ closed \in BOOLEAN /\ protocolFailure \in BOOLEAN /\ loadedThreads \subseteq Threads
    /\ activeTurns \in [Threads -> Calls \cup {None, Null}]
    /\ callbacks \in [Threads -> Calls \cup {None}]
    /\ unconfirmedThreads \subseteq Threads
    /\ \A S \in {completedTurns, turnWaiters, usageTimers, stopWaiters, retiredTurns,
                  aborted, sure, startedSeen, endSeen} : S \subseteq Calls
    /\ report \in [Calls -> {"none", "running", "stopped", "unconfirmed"}]
    /\ outcome \in [Calls -> {"none", "ok", "stopped", "unconfirmed"}]

\* What the client last told the orchestrator about a turn is what frees its
\* write scope: "stopped" is said only of a turn that was never launched or
\* whose end the server announced, whatever was aborted, timed out, lost or
\* reconnected meanwhile.
StopReportHonest == \A c \in Calls : report[c] = "stopped" => ~Launched(c)

\* The same of the outcome a call ends with, which the adapter classifies.
OutcomeHonest == \A c \in Calls : outcome[c] \in {"ok", "stopped"} => ~Launched(c)

\* A thread never has two turns at work: one whose stop is unknown keeps it
\* locked across time-outs, a new process and a resumed thread.
OneOpenTurn ==
    \A c, d \in Calls : c # d /\ ThreadOf[c] = ThreadOf[d] => ~(Launched(c) /\ Launched(d))

\* The tokens of an answered turn are the sum of its model calls, each counted
\* once, in whatever order usage and completion arrive; strict has them always.
UsageAddsUp ==
    \A c \in Calls : outcome[c] = "ok" =>
        /\ spent[c].last = spent[c].total
        /\ c \in Strict => spent[c].total > 0

\* Nothing is owed to anyone: every call has settled - after a lost response, a silent turn, an
\* interrupt without an answer, a lost process or a failed connection (1) - and a turn that ended
\* has freed its thread, be it long after it was given up, unless its process or what it writes
\* was lost (2).
AtRest ==
    /\ \A c \in Calls : pc[c] \in {"idle", "done"}
    /\ \A c \in Calls : pc[c] = "done" /\ turnAt[c] = "ended" =>
          protocolFailure \/ procOf[c] \notin running \cap {child} \/ activeTurns[ThreadOf[c]] # c

=============================================================================
