--------------------------- MODULE DelegationKeys ---------------------------
(***************************************************************************)
(* One delegation under one key (delegation-operation.ts, delegate and     *)
(* delegateOnce of orchestrator.ts): calls that repeat it on the same      *)
(* server or another one share, wait for, replay or take over the one      *)
(* operation row, whatever server dies between its transactions.  What an  *)
(* attempt does to the task is TaskLifecycle, slots and scopes are         *)
(* ScopeFence: contention is a free choice here.                           *)
(***************************************************************************)
EXTENDS Naturals, FiniteSets

CONSTANTS Calls, Servers,
          At,           \* the server of a call
          Contract,     \* the fingerprint of its request
          MaxAttempts,  \* attempts a delegation may make
          None

VARIABLES up,           \* servers whose process lives
          operation,    \* the operation row
          task,         \* the state of its task
          row,          \* the execution row
          lease,
          live,         \* generations whose runtime is at work
          active,       \* activeDelegations of a server: the call that runs it
          pc, gen, tries, ended, answer,
          mishaps       \* history: what the properties except, if it happened

rows == <<operation, task, row, lease>>
delegationVars == <<up, rows, live, active, pc, gen, tries, ended, answer, mishaps>>

NoOperation == [phase |-> "none", executor |-> None, contract |-> None, outcome |-> None]
NoRow == [gen |-> 0, phase |-> "STOPPED", stop |-> TRUE, cancel |-> FALSE, executor |-> None]
Terminal == {"DONE", "FAILED", "CANCELLED"}

Init ==
    /\ up = Servers /\ operation = NoOperation /\ task = "none" /\ row = NoRow /\ lease = "none"
    /\ live = {} /\ active = [s \in Servers |-> None]
    /\ pc = [c \in Calls |-> "idle"] /\ gen = [c \in Calls |-> 0] /\ tries = [c \in Calls |-> 0]
    /\ ended = [c \in Calls |-> "none"] /\ answer = [c \in Calls |-> "none"]
    /\ mishaps = {}
-----------------------------------------------------------------------------
Goto(c, l)  == pc' = [pc EXCEPT ![c] = l]
Mine(c)     == At[c] \in up /\ active[At[c]] = c
Current(c)  == row.gen = gen[c]
Stop        == [row EXCEPT !.phase = "STOPPED", !.stop = TRUE]
Clear       == lease \notin {"HELD", "QUARANTINED"}   \* no live lease fences the scope

\* The promise of c settles, and with it those of the calls that share it.
Settle(c, a) ==
    LET S == {c} \cup {d \in Calls : pc[d] = "shares" /\ At[d] = At[c]}
    IN /\ pc' = [d \in Calls |-> IF d \in S THEN "answered" ELSE pc[d]]
       /\ answer' = [d \in Calls |-> IF d \in S THEN a ELSE answer[d]]
       /\ gen' = [gen EXCEPT ![c] = 0] /\ tries' = [tries EXCEPT ![c] = 0]
       /\ ended' = [ended EXCEPT ![c] = "none"]
       /\ active' = [active EXCEPT ![At[c]] = None]

\* Only a launch that was not authorized yet is known not to have started.
TakenOver(executor, phase) == executor \notin up /\ phase = "PREPARING"

\* reserveTask, and what delegate makes of it: the key is new, reused for another
\* contract, finished, run by this server, run by another one, or left by a dead one.
Delegate(c) ==
    LET s == At[c]  op == operation
        known == op.phase # "none" /\ op.contract = Contract[c] /\ op.outcome = None
        Uncertain == /\ known /\ op.phase # "UNCERTAIN" /\ op.executor \notin up
                     /\ ~TakenOver(op.executor, op.phase)
        Own(l) == active' = [active EXCEPT ![s] = c] /\ Goto(c, "queue")
    IN
    /\ pc[c] = "idle" /\ s \in up
    /\ \/ /\ op.phase = "none"
          /\ operation' = [phase |-> "PREPARING", executor |-> s, contract |-> Contract[c], outcome |-> None]
          /\ task' = "PENDING" /\ Own(c)
          /\ UNCHANGED <<row, lease, answer>>
       \/ /\ \/ op.phase # "none" /\ op.contract # Contract[c]
             \/ Uncertain /\ row.gen > 0 /\ ~row.stop /\ Clear   \* no lease to quarantine
          /\ Goto(c, "answered") /\ answer' = [answer EXCEPT ![c] = "refused"]
          /\ UNCHANGED <<rows, active>>
       \/ /\ op.contract = Contract[c] /\ op.outcome # None
          /\ Goto(c, "answered") /\ answer' = [answer EXCEPT ![c] = op.outcome]
          /\ UNCHANGED <<rows, active>>
       \/ /\ known /\ op.phase # "UNCERTAIN" /\ op.executor = s
          /\ IF active[s] # None THEN Goto(c, "shares") /\ UNCHANGED active ELSE Own(c)
          /\ UNCHANGED <<rows, answer>>
       \/ /\ known /\ (op.phase = "UNCERTAIN" \/ (op.executor # s /\ op.executor \in up))
          /\ Goto(c, IF active[s] # None THEN "shares" ELSE "waits")
          /\ UNCHANGED <<rows, active, answer>>
       \/ /\ known /\ op.phase # "UNCERTAIN" /\ TakenOver(op.executor, op.phase)
          /\ row' = IF row.phase = "QUEUED" \/ (row.phase = "RUNNING" /\ row.stop)
                    THEN [row EXCEPT !.phase = "STOPPED"] ELSE row
          /\ operation' = [op EXCEPT !.executor = s]
          /\ Own(c)
          /\ UNCHANGED <<task, lease, answer>>
       \/ /\ Uncertain /\ (row.gen > 0 /\ ~row.stop => ~Clear)
          /\ row' = IF row.gen > 0 /\ ~row.stop THEN [row EXCEPT !.phase = "QUARANTINED"] ELSE row
          /\ lease' = IF row.gen > 0 /\ ~row.stop THEN "QUARANTINED" ELSE lease
          /\ task' = IF task = "WORKING" THEN "BLOCKED" ELSE task
          /\ operation' = [op EXCEPT !.phase = "UNCERTAIN"]
          /\ Goto(c, "waits")
          /\ UNCHANGED <<active, answer>>
    /\ UNCHANGED <<up, live, gen, tries, ended, mishaps>>

\* wait: polls until there is an answer, or its own time is up.
Wait(c) ==
    /\ pc[c] = "waits" /\ At[c] \in up
    /\ Goto(c, "answered")
    /\ answer' = [answer EXCEPT ![c] = IF operation.outcome # None THEN operation.outcome
                                       ELSE IF operation.phase = "UNCERTAIN" THEN "uncertain" ELSE "in progress"]
    /\ UNCHANGED <<up, rows, live, active, gen, tries, ended, mishaps>>
-----------------------------------------------------------------------------
(* delegateOnce and runAttempt, transaction by transaction.                *)

Failed(c) == Goto(c, "failed")

\* The claim, a no-op for a task that is owned already, and the queue.
Queue(c) ==
    /\ pc[c] = "queue" /\ Mine(c)
    /\ \/ Failed(c) /\ UNCHANGED <<rows, gen>>     \* inputs, deadline, a full queue
       \/ /\ row.phase = "STOPPED"
          /\ task' = IF task = "PENDING" THEN "CLAIMED" ELSE task
          /\ row' = [gen |-> row.gen + 1, phase |-> "QUEUED", stop |-> TRUE, cancel |-> FALSE, executor |-> At[c]]
          /\ gen' = [gen EXCEPT ![c] = row.gen + 1]
          /\ Goto(c, "admission")
          /\ UNCHANGED <<operation, lease>>
    /\ UNCHANGED <<up, live, active, tries, ended, answer, mishaps>>

\* awaitAdmission: a cancellation, the deadline, or a slot.
Admit(c) ==
    /\ pc[c] = "admission" /\ Mine(c)
    /\ \/ /\ ~Current(c) /\ Failed(c) /\ UNCHANGED <<task, row>>
       \/ /\ Current(c) /\ row.cancel
          /\ row' = Stop /\ task' = IF task \in Terminal THEN task ELSE "CANCELLED"
          /\ Failed(c)
       \/ /\ Current(c) /\ ~row.cancel
          /\ row' = Stop /\ Failed(c) /\ UNCHANGED task
       \/ /\ Current(c) /\ ~row.cancel /\ row.phase \in {"QUEUED", "RUNNING"}
          /\ row' = [row EXCEPT !.phase = "RUNNING"] /\ Goto(c, "prepare") /\ UNCHANGED task
    /\ UNCHANGED <<up, operation, lease, live, active, gen, tries, ended, answer, mishaps>>

Authorized(c) == operation.executor = At[c] /\ operation.outcome = None /\ operation.phase # "UNCERTAIN"

Authorize == [operation EXCEPT !.phase = "AUTHORIZED"]

\* Lease, WORKING, attempt row and authorize in one transaction; or the execution is
\* stopped, and a conflict of scopes blocks the task.
Prepare(c) ==
    /\ pc[c] = "prepare" /\ Mine(c)
    /\ \/ /\ Current(c) /\ ~row.cancel /\ task \in {"CLAIMED", "BLOCKED"} /\ Authorized(c)
          /\ lease # "QUARANTINED"
          /\ lease' = "HELD" /\ task' = "WORKING" /\ row' = [row EXCEPT !.stop = FALSE]
          /\ operation' = Authorize
          /\ Goto(c, "launch")
       \/ /\ row' = IF Current(c) THEN Stop ELSE row
          /\ task' \in {task, IF Current(c) /\ ~row.cancel /\ task = "CLAIMED" THEN "BLOCKED" ELSE task}
          /\ Failed(c)
          /\ UNCHANGED <<operation, lease>>
    /\ UNCHANGED <<up, live, active, gen, tries, ended, answer, mishaps>>

Launch(c) ==
    /\ pc[c] = "launch" /\ Mine(c)
    /\ live' = live \cup {gen[c]} /\ Goto(c, "running")
    /\ UNCHANGED <<up, rows, active, gen, tries, ended, answer, mishaps>>

\* The runtime works and ends on its own, its server alive or not.
RuntimeEnds(g) ==
    /\ g \in live /\ live' = live \ {g}
    /\ UNCHANGED <<up, rows, active, pc, gen, tries, ended, answer, mishaps>>

\* bridge_set_state: the worker says that it verifies its work, or is at it again.
Milestone(c) ==
    /\ pc[c] = "running" /\ Mine(c) /\ gen[c] \in live /\ task \in {"WORKING", "VERIFYING"}
    /\ task' = IF task = "WORKING" THEN "VERIFYING" ELSE "WORKING"
    /\ UNCHANGED <<up, operation, row, lease, live, active, pc, gen, tries, ended, answer, mishaps>>

\* reportRuntimeState("stopped"), before the invocation settles.
ReportStopped(c) ==
    /\ pc[c] = "running" /\ Mine(c) /\ gen[c] \notin live /\ Current(c) /\ ~row.stop
    /\ row' = [row EXCEPT !.stop = TRUE]
    /\ UNCHANGED <<up, operation, task, lease, live, active, pc, gen, tries, ended, answer, mishaps>>

\* The same report, from the server that launched the runtime, once the invocation was given
\* up without evidence: confirmStopped frees the scope with the row.
LateStop ==
    /\ row.executor \in up /\ row.phase = "QUARANTINED" /\ ~row.stop /\ row.gen \notin live
    /\ \A c \in Calls : pc[c] # "commit"       \* that server is not in the middle of a step
    /\ row' = Stop /\ lease' = IF Clear THEN lease ELSE "RELEASED"
    /\ UNCHANGED <<up, operation, task, live, active, pc, gen, tries, ended, answer, mishaps>>

\* Seeded bug: whatever a runtime reports or not, an invocation that settled has stopped.
SettledIsStopped(c) == {TRUE}

\* Stop evidence comes from a runtime that has ended, and may be missing.
StopEvidence(c) == IF gen[c] \in live THEN {FALSE} ELSE BOOLEAN

\* The invocation settles or is given up; the stop evidence is written at once.
Ended(c) ==
    /\ pc[c] = "running" /\ Mine(c)
    /\ \/ /\ ~Current(c) /\ Failed(c) /\ UNCHANGED <<row, ended>>
       \/ /\ Current(c)
          /\ \E result \in {"ok", "error"}, stopped \in StopEvidence(c) :
                /\ row' = [row EXCEPT !.stop = stopped, !.phase = IF stopped THEN "RUNNING" ELSE "QUARANTINED"]
                /\ ended' = [ended EXCEPT ![c] = IF ~stopped THEN "uncertain" ELSE result]
          /\ Goto(c, "commit")
    /\ UNCHANGED <<up, operation, task, lease, live, active, gen, tries, answer, mishaps>>

\* Where the final transaction takes a task whose invocation brought no result; it is
\* refused as a whole when the task may not go there (ALLOWED_TRANSITIONS).
Verdict(c) == IF task \in Terminal THEN task
              ELSE IF ended[c] = "uncertain" THEN "BLOCKED"
              ELSE IF row.cancel THEN "CANCELLED" ELSE "FAILED"

\* Seeded bug: a task that verifies its work cannot fail.
Unfailing(to) == <<task, to>> \notin {<<"VERIFYING", "CANCELLED">>, <<"VERIFYING", "FAILED">>, <<"BLOCKED", "BLOCKED">>}

Legal(to) == <<task, to>> \notin {<<"VERIFYING", "CANCELLED">>, <<"BLOCKED", "BLOCKED">>}

\* Seeded bug: the outcome of the operation is not part of the final transaction.
Unrecorded == operation

Recorded == [operation EXCEPT !.phase = "FINISHED", !.outcome = "ok"]

\* leases.release is refused on a quarantined lease, leases.quarantine on one that is over.
LeaseAllows(c) == IF ended[c] = "uncertain" THEN ~Clear ELSE lease # "QUARANTINED"
Released == IF lease = "HELD" THEN "RELEASED" ELSE lease

\* The final transaction: a result finishes the operation with it, unless a
\* cancellation came first; an error leaves that to delegateOnce.  When the task may not
\* move, or its lease not, the transaction rolls back as a whole, the second one too.
Commit(c) ==
    /\ pc[c] = "commit" /\ Mine(c)
    /\ \/ /\ Current(c) /\ ended[c] = "ok" /\ ~row.cancel /\ LeaseAllows(c)
          /\ operation.executor = At[c] /\ operation.outcome = None
          /\ task' \in {"DONE", "BLOCKED", "FAILED"} /\ row' = Stop /\ lease' = Released
          /\ operation' = Recorded
          /\ Settle(c, "ok")
       \/ \* an error, a refused result, or none in time
          /\ Current(c) /\ Legal(Verdict(c)) /\ LeaseAllows(c)
          /\ task' = Verdict(c)
          /\ row' = IF ended[c] = "uncertain" THEN row ELSE Stop
          /\ lease' = IF ended[c] = "uncertain" THEN "QUARANTINED" ELSE Released
          /\ Failed(c)
          /\ UNCHANGED <<operation, active, gen, tries, ended, answer>>
       \/ /\ ~Current(c) \/ ~Legal(Verdict(c)) \/ ~LeaseAllows(c)
          /\ Failed(c) /\ ended' = [ended EXCEPT ![c] = "refused"]
          /\ UNCHANGED <<rows, active, gen, tries, answer>>
    /\ UNCHANGED <<up, live, mishaps>>

\* The store refuses a transaction of the attempt, and those that would clean up after it.
StoreFails(c) ==
    /\ pc[c] \in {"admission", "prepare", "running", "commit"} /\ Mine(c)
    /\ Failed(c) /\ mishaps' = mishaps \cup {"store"}
    /\ UNCHANGED <<up, rows, live, active, gen, tries, ended, answer>>

\* RUNTIME_STOP_UNCONFIRMED and ILLEGAL_TRANSITION are no retryable errors.
CanRetry(c) ==
    /\ tries[c] + 1 < MaxAttempts /\ ended[c] \notin {"uncertain", "refused"}
    /\ row.stop /\ ~row.cancel /\ task # "CANCELLED"

Retry(c) ==
    /\ pc[c] = "failed" /\ Mine(c) /\ CanRetry(c)
    /\ task \in {"FAILED", "WORKING", "BLOCKED", "VERIFYING"}
    /\ task' = "PENDING" /\ tries' = [tries EXCEPT ![c] = @ + 1]
    /\ ended' = [ended EXCEPT ![c] = "none"]
    /\ Goto(c, "queue")
    /\ UNCHANGED <<up, operation, row, lease, live, active, gen, answer, mishaps>>

\* finish: an outcome is written once, by the server that executes the operation.
Finish(c) ==
    /\ pc[c] = "failed" /\ Mine(c)
    /\ \/ /\ operation.outcome # None
          /\ Settle(c, operation.outcome) /\ UNCHANGED operation
       \/ /\ operation.outcome = None /\ operation.executor = At[c]
          /\ operation' = [operation EXCEPT !.phase = "FINISHED", !.outcome = "error"]
          /\ Settle(c, "error")
       \/ /\ operation.outcome = None /\ operation.executor # At[c]
          /\ Settle(c, "in progress") /\ UNCHANGED operation
    /\ UNCHANGED <<up, task, row, lease, live, mishaps>>
-----------------------------------------------------------------------------
(* Other steps of the servers.                                             *)

\* cancelTask: without a runtime the task is cancelled at once, else its executor is asked.
Cancel ==
    /\ up # {} /\ task \notin Terminal \cup {"none", "PENDING"}
    /\ \/ /\ row.phase \in {"QUEUED", "STOPPED"} /\ task # "VERIFYING"
          /\ row' = [Stop EXCEPT !.cancel = @ \/ row.phase = "QUEUED"]
          /\ lease' = Released
          /\ task' = "CANCELLED"
       \/ /\ row.phase \in {"RUNNING", "QUARANTINED"} /\ ~row.cancel
          /\ row' = [row EXCEPT !.cancel = TRUE]
          /\ UNCHANGED <<lease, task>>
    /\ UNCHANGED <<up, operation, live, active, pc, gen, tries, ended, answer, mishaps>>

\* reconcileExecutors, on any server that lives.
Reconcile ==
    /\ up # {} /\ row.executor \in Servers \ up /\ row.phase \in {"QUEUED", "RUNNING"}
    /\ IF row.stop
       THEN row' = Stop /\ lease' = Released
       ELSE /\ row' = [row EXCEPT !.phase = "QUARANTINED"]
            /\ lease' = IF lease = "HELD" THEN "QUARANTINED" ELSE lease
    /\ UNCHANGED <<up, operation, task, live, active, pc, gen, tries, ended, answer, mishaps>>

\* reapExpired, when a server starts: the lease has run out, whatever its execution does.
Reap ==
    /\ up # {} /\ lease = "HELD"
    /\ lease' = IF row.stop THEN "EXPIRED" ELSE "QUARANTINED"
    /\ mishaps' = IF row.stop THEN mishaps ELSE mishaps \cup {"reaper"}
    /\ UNCHANGED <<up, operation, task, row, live, active, pc, gen, tries, ended, answer>>

Crash(s) ==
    /\ s \in up /\ up' = up \ {s}
    /\ pc' = [c \in Calls |-> IF At[c] = s THEN "dead" ELSE pc[c]]
    /\ active' = [active EXCEPT ![s] = None]
    /\ gen' = [c \in Calls |-> IF At[c] = s THEN 0 ELSE gen[c]]
    /\ tries' = [c \in Calls |-> IF At[c] = s THEN 0 ELSE tries[c]]
    /\ ended' = [c \in Calls |-> IF At[c] = s THEN "none" ELSE ended[c]]
    /\ UNCHANGED <<rows, live, answer, mishaps>>

Attempt(c) == \/ Queue(c) \/ Admit(c) \/ Prepare(c) \/ Launch(c) \/ Ended(c) \/ Commit(c)
              \/ Retry(c) \/ Finish(c)
Next == \/ \E c \in Calls : Delegate(c) \/ Wait(c) \/ Attempt(c) \/ Milestone(c) \/ ReportStopped(c) \/ StoreFails(c)
        \/ \E g \in live : RuntimeEnds(g)
        \/ \E s \in Servers : Crash(s)
        \/ Cancel \/ Reconcile \/ Reap \/ LateStop

\* Polls and deadlines come: a wait, an admission and an invocation each end in bounded time.
Fairness == \A c \in Calls : WF_delegationVars(Wait(c)) /\ WF_delegationVars(Attempt(c))

Spec == Init /\ [][Next]_delegationVars /\ Fairness
-----------------------------------------------------------------------------
(* Properties.                                                             *)

\* A call is served by a server; None is none of them, and no outcome.
Sane ==
    /\ At \in [Calls -> Servers]
    /\ None \notin Servers /\ None \notin Calls /\ None \notin {"ok", "error"}

TypeOK ==
    /\ up \subseteq Servers
    /\ operation.phase \in {"none", "PREPARING", "AUTHORIZED", "FINISHED", "UNCERTAIN"}
    /\ operation.outcome \in {None, "ok", "error"}
    /\ row.phase \in {"QUEUED", "RUNNING", "QUARANTINED", "STOPPED"}
    /\ lease \in {"none", "HELD", "RELEASED", "EXPIRED", "QUARANTINED"}
    /\ mishaps \subseteq {"reaper", "store"}
    /\ active \in [Servers -> Calls \cup {None}]
    /\ \A c \in Calls : tries[c] < MaxAttempts

\* A key is at work once: whichever servers repeat the delegation, take it over or
\* die, no runtime is launched beside one that may be alive, and none runs for an
\* operation that a dead server may have left only prepared (it would be run again).
OneRuntimePerKey ==
    /\ Cardinality(live) <= 1
    /\ operation.phase = "PREPARING" => live = {}

\* Whoever is told an outcome under this key is told the same one, and it is the one recorded.
AnswersAgree ==
    \A c \in Calls : answer[c] \in {"ok", "error"} => answer[c] = operation.outcome

\* Nothing is owed to anyone: every call whose server lives was answered, whatever became of the others.
AtRest == \A c \in Calls : pc[c] \in {"idle", "answered", "dead"}

\* The slot and the scope of a delegation are free again once it is finished and its runtime has
\* provably stopped (docs/PROTOCOL.md:235), whoever died or took it over.  Three things alone keep
\* them: a cancellation accepted while the task is VERIFYING, which the final transaction refuses;
\* the lease that a starting server quarantined under the running row; a store that failed.
SlotComesBack ==
    operation.outcome # None /\ row.stop =>
        \/ row.phase = "STOPPED" /\ Clear
        \/ task = "VERIFYING" /\ row.cancel
        \/ "reaper" \in mishaps /\ lease = "QUARANTINED"
        \/ "store" \in mishaps
=============================================================================
