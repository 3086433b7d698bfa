--------------------------- MODULE TaskLifecycle ---------------------------
(***************************************************************************)
(* The life of a task: shared/control-plane/src/task-service.ts,           *)
(* deliverable-service.ts, attempt-service.ts, the MCP tools over them     *)
(* (mcp-server-core/src/tools.ts) and the transactions by which            *)
(* orchestrator.ts and delegation-operation.ts launch, end, retry and      *)
(* recover a delegated task.                                               *)
(*                                                                         *)
(* Two agents call tools at any time, a runtime that works on a delegated  *)
(* task included: every action below is one transaction, or a synchronous  *)
(* run of transactions that commute with what other processes may do       *)
(* between them.  Which lease and which slot an execution gets is the      *)
(* subject of ScopeFence: here admission, contention and a lease that      *)
(* refuses the final transaction are free choices, and a coroutine whose   *)
(* generation was replaced is gone, since assertGeneration refuses all it  *)
(* could still do.  Who may ask for a recovery (lineage) is not modelled.  *)
(***************************************************************************)
EXTENDS Integers, FiniteSets

CONSTANTS
    Task, Agent,
    Check,          \* the checks (kind, command) evidence is recorded for
    Delegated,      \* bound: the tasks that are ever delegated or recovered
    Delegate,       \* the agent a task is delegated to (DelegationRequest.to)
    Retries,        \* DelegationRequest.max_attempts
    MaxAttempt,     \* bound: the last attempt number
    None            \* null

ASSUME TaskAssumption ==
    /\ Delegated \subseteq Task
    /\ Delegate \in [Task -> Agent]
    /\ Retries \in Nat /\ MaxAttempt \in Nat
    /\ None \notin Agent

VARIABLES
    task,         \* task rows
    deps,         \* the dependency edges of a task
    verification, \* the checks recorded for an attempt of a task
    deliverable,  \* the deliverable row of a task
    att,          \* attempt rows
    exec,         \* the execution row of a task
    call,         \* the coroutine that manages the current generation of that row
    loop          \* the coroutine that runs the delegation of a task

vars == <<task, deps, verification, deliverable, att, exec, call, loop>>

Attempt == 0..MaxAttempt
State == {"PENDING", "CLAIMED", "WORKING", "BLOCKED", "VERIFYING", "DONE", "FAILED", "CANCELLED"}
Terminal == {"DONE", "FAILED", "CANCELLED"}
Status == {"COMPLETE", "PARTIAL", "FAILED"}
Verdict == {"none", "passed", "failed"}
Evidence == [Check -> Verdict]

\* What ends an attempt, as far as recovery and retry tell it apart.  TRANSIENT is an
\* ADAPTER_FAILURE whose runtime_failure says so.
Fault == {"TIMEOUT", "ADAPTER_FAILURE", "TRANSIENT", "INTERNAL", "OTHER"}
Resumable == {"ADAPTER_FAILURE", "TRANSIENT", "TIMEOUT"}
Retryable == {"TRANSIENT", "TIMEOUT", "INTERNAL"}

Row(state, owner, attempt, blocked) ==
    [state |-> state, owner |-> owner, attempt |-> attempt, blocked |-> blocked]
Deliverable(status, attempt, evidence) ==
    [status |-> status, attempt |-> attempt, evidence |-> evidence]
AttemptRow(status, agent, handle, resumable) ==
    [status |-> status, agent |-> agent, handle |-> handle, resumable |-> resumable]
ExecRow(phase, agent, attempt, stop, cancel) ==
    [phase |-> phase, agent |-> agent, attempt |-> attempt, stop |-> stop, cancel |-> cancel]
Call(pc, recovery) == [pc |-> pc, recovery |-> recovery]
Loop(pc, attempt, limit, authorized) ==
    [pc |-> pc, attempt |-> attempt, limit |-> limit, authorized |-> authorized]

NoEvidence == [c \in Check |-> "none"]
NoTask == Row("absent", None, 0, FALSE)
NoDeliverable == Deliverable("none", 0, NoEvidence)
NoAttempt == AttemptRow("none", None, FALSE, FALSE)
NoExec == ExecRow("none", None, 0, TRUE, FALSE)
NoCall == Call("off", FALSE)
NoLoop == Loop("off", 0, 0, FALSE)

TaskRow == [state : State \cup {"absent"}, owner : Agent \cup {None},
            attempt : Attempt, blocked : BOOLEAN]
DeliverableRow == [status : Status \cup {"none"}, attempt : Attempt, evidence : Evidence]
AttRow == [status : {"none", "open", "ended"}, agent : Agent \cup {None},
           handle : BOOLEAN, resumable : BOOLEAN]
ExecutionRow == [phase : {"none", "QUEUED", "RUNNING", "QUARANTINED", "STOPPED"},
                 agent : Agent \cup {None}, attempt : Attempt, stop : BOOLEAN, cancel : BOOLEAN]
CallRow == [pc : {"off", "waiting", "abandoning", "admitted", "invoking", "dead"},
            recovery : BOOLEAN]
LoopRow == [pc : {"off", "queue", "busy", "failed", "again", "contended", "dead"},
            attempt : Attempt, limit : Nat, authorized : BOOLEAN]

TypeOK ==
    /\ task \in [Task -> TaskRow]
    /\ deps \in [Task -> SUBSET Task]
    /\ verification \in [Task -> [Attempt -> Evidence]]
    /\ deliverable \in [Task -> DeliverableRow]
    /\ att \in [Task -> [Attempt -> AttRow]]
    /\ exec \in [Task -> ExecutionRow]
    /\ call \in [Task -> CallRow]
    /\ loop \in [Task -> LoopRow]

Init ==
    /\ task = [t \in Task |-> NoTask]
    /\ deps = [t \in Task |-> {}]
    /\ verification = [t \in Task |-> [k \in Attempt |-> NoEvidence]]
    /\ deliverable = [t \in Task |-> NoDeliverable]
    /\ att = [t \in Task |-> [k \in Attempt |-> NoAttempt]]
    /\ exec = [t \in Task |-> NoExec]
    /\ call = [t \in Task |-> NoCall]
    /\ loop = [t \in Task |-> NoLoop]

-----------------------------------------------------------------------------
(* The task state machine.                                                 *)

Transitions ==
    ({"PENDING"} \X {"CLAIMED", "CANCELLED"}) \cup
    ({"CLAIMED"} \X {"WORKING", "BLOCKED", "PENDING", "CANCELLED"}) \cup
    ({"WORKING"} \X {"BLOCKED", "VERIFYING", "FAILED", "CANCELLED"}) \cup
    ({"BLOCKED"} \X {"WORKING", "CLAIMED", "FAILED", "CANCELLED"}) \cup
    ({"VERIFYING"} \X {"DONE", "BLOCKED", "WORKING", "FAILED"})

Legal(from, to) == <<from, to>> \in Transitions

Exists(t) == task[t].state # "absent"
Owned(t) == task[t].owner # None
Satisfied(t) == \A d \in deps[t] : task[d].state = "DONE"

\* transition(): the row after a legal move.
Moved(r, to) == Row(to, r.owner, r.attempt, r.blocked /\ to # "WORKING")

\* block()
Blocked(r) == Row("BLOCKED", r.owner, r.attempt, TRUE)

\* The owner of t may move it to `to`; the dependency gate is at WORKING only.
MayMove(t, to) == Legal(task[t].state, to) /\ (to = "WORKING" => Satisfied(t))

Update(t, r) == task' = [task EXCEPT ![t] = r]

\* executions.update and requestCancel leave agent and attempt alone.
SetExec(t, phase, stop, cancel) ==
    [exec EXCEPT ![t] = ExecRow(phase, exec[t].agent, exec[t].attempt, stop, cancel)]

\* The coroutine that manages the execution is in memory.
Managing == {"waiting", "abandoning", "admitted", "invoking"}

NoCallAt(t) == [call EXCEPT ![t] = NoCall]

UNCHANGED_RUN == UNCHANGED <<att, exec, call, loop>>
UNCHANGED_RESULT == UNCHANGED <<verification, deliverable>>

-----------------------------------------------------------------------------
(* Agents, through the MCP tools.                                          *)

\* bridge_create_task.  Dependencies must exist.
Create(t, D) ==
    /\ ~Exists(t)
    /\ \A d \in D : Exists(d)
    /\ Update(t, Row("PENDING", None, 0, FALSE))
    /\ deps' = [deps EXCEPT ![t] = D]
    /\ UNCHANGED_RUN /\ UNCHANGED_RESULT

\* Seeded bug: the search does not leave the direct dependencies.
Reaches_Direct(from, to) == from = to \/ to \in deps[from]

\* The search finds `to` unless a set that is closed under dependencies holds `from` without it.
Reaches(from, to) ==
    \A S \in SUBSET Task :
        from \in S /\ (\A u \in S : deps[u] \subseteq S) => to \in S

\* bridge_add_dependency: any agent, in any state of either task.
AddDependency(t, d) ==
    /\ Exists(t) /\ Exists(d) /\ t # d
    /\ ~Reaches(d, t)
    /\ deps' = [deps EXCEPT ![t] = @ \cup {d}]
    /\ UNCHANGED task
    /\ UNCHANGED_RUN /\ UNCHANGED_RESULT

\* bridge_claim_task, and work-session.ts.
Claim(t, a) ==
    /\ task[t].state = "PENDING" /\ ~Owned(t)
    /\ Update(t, Row("CLAIMED", a, task[t].attempt, task[t].blocked))
    /\ UNCHANGED deps
    /\ UNCHANGED_RUN /\ UNCHANGED_RESULT

\* Only a work session releases a task.
Release(t) ==
    /\ Owned(t) /\ task[t].state = "CLAIMED"
    /\ Update(t, Row("PENDING", None, task[t].attempt, task[t].blocked))
    /\ UNCHANGED deps
    /\ UNCHANGED_RUN /\ UNCHANGED_RESULT

\* bridge_set_state: the enum of the tool has no PENDING, and CANCELLED goes to cancelTask.
SetState(t, to) ==
    /\ Owned(t) /\ to \notin {"PENDING", "CANCELLED"}
    /\ MayMove(t, to)
    /\ Update(t, Moved(task[t], to))
    /\ UNCHANGED deps
    /\ UNCHANGED_RUN /\ UNCHANGED_RESULT

\* bridge_block_task, and the raiseBlocker of a runtime.
Block(t) ==
    /\ Owned(t) /\ Legal(task[t].state, "BLOCKED")
    /\ Update(t, Blocked(task[t]))
    /\ UNCHANGED deps
    /\ UNCHANGED_RUN /\ UNCHANGED_RESULT

\* bridge_record_verification, and the recordVerification of a runtime: the latest run of a
\* check is the one that counts.  The task may be in any state.
RecordVerification(t, c, v) ==
    /\ Owned(t) /\ v # "none"
    /\ verification' = [verification EXCEPT ![t][task[t].attempt][c] = v]
    /\ UNCHANGED <<task, deps, deliverable>>
    /\ UNCHANGED_RUN

\* The checks of the current attempt.
Recorded(t) == verification[t][task[t].attempt]

\* mergeEvidence: what the deliverable itself reports wins.
Merged(t, submitted) ==
    [c \in Check |-> IF submitted[c] # "none" THEN submitted[c] ELSE Recorded(t)[c]]

\* Evidence COMPLETE is accepted with: some check, none of them failing.
Verified(evidence) ==
    /\ \A c \in Check : evidence[c] # "failed"
    /\ \E c \in Check : evidence[c] = "passed"

FinalState(status) ==
    CASE status = "COMPLETE" -> "DONE" [] status = "PARTIAL" -> "BLOCKED" [] OTHER -> "FAILED"

\* finalizeDeliverable accepts the state it is in, and takes WORKING to DONE over VERIFYING;
\* a COMPLETE from BLOCKED goes over WORKING first, and no dependency is looked at.
Accepts(state, status) ==
    \/ state = FinalState(status)
    \/ Legal(state, FinalState(status))
    \/ status = "COMPLETE" /\ state \in {"WORKING", "BLOCKED"}

Delivered(r, status) ==
    Row(FinalState(status), r.owner, r.attempt,
        IF status = "COMPLETE" THEN r.blocked /\ r.state # "BLOCKED"
        ELSE r.blocked \/ (status = "PARTIAL" /\ r.state # "BLOCKED"))

Deliver(t, status, evidence) ==
    /\ Update(t, Delivered(task[t], status))
    /\ deliverable' = [deliverable EXCEPT ![t] = Deliverable(status, task[t].attempt, evidence)]
    /\ UNCHANGED <<deps, verification>>

\* bridge_submit_deliverable
Submit(t, status, submitted) ==
    /\ Owned(t)
    /\ status = "COMPLETE" => Verified(Merged(t, submitted))
    /\ Accepts(task[t].state, status)
    /\ Deliver(t, status, Merged(t, submitted))
    /\ UNCHANGED_RUN

Idle(t) == exec[t].phase \in {"none", "STOPPED"}

HandleSaved(t, k, a) ==
    LET r == att[t][k]
    IN IF r.status = "none" THEN AttemptRow("open", a, TRUE, FALSE)
       ELSE AttemptRow(r.status, a, TRUE, r.resumable)

\* bridge_set_execution_handle, and the saveExecutionHandle of a runtime whose callbacks are
\* still accepted.
SaveHandle(t) ==
    LET k == task[t].attempt
    IN /\ Owned(t)
       /\ \/ Idle(t) /\ att[t][k].status # "ended"
          \/ /\ call[t].pc = "invoking" /\ exec[t].phase = "RUNNING" /\ ~exec[t].cancel
             /\ exec[t].attempt = k /\ exec[t].agent = task[t].owner
             /\ task[t].state \notin Terminal
       /\ att' = [att EXCEPT ![t][k] = HandleSaved(t, k, task[t].owner)]
       /\ UNCHANGED <<task, deps, exec, call, loop>>
       /\ UNCHANGED_RESULT

\* Seeded bug: a running execution is taken for an idle one.
Cancellable_Running == {"none", "QUEUED", "RUNNING", "STOPPED"}

\* The phases in which there is no runtime to wait for.
Cancellable == {"none", "QUEUED", "STOPPED"}

\* cancelTask, by the owner or a manager with durable authority over it: without a runtime the
\* task is cancelled at once, otherwise its executor is asked to.  An unowned task has nobody
\* on whose behalf the transition could be made.
RequestCancel(t) ==
    LET e == exec[t]
    IN /\ Owned(t) /\ task[t].state \notin Terminal
       /\ \/ /\ e.phase \in Cancellable /\ Legal(task[t].state, "CANCELLED")
             /\ Update(t, Moved(task[t], "CANCELLED"))
             /\ exec' = IF e.phase = "none" THEN exec
                        ELSE SetExec(t, "STOPPED", TRUE, e.cancel \/ e.phase # "STOPPED")
          \/ /\ e.phase \notin Cancellable
             /\ exec' = SetExec(t, e.phase, e.stop, TRUE)
             /\ UNCHANGED task
       /\ UNCHANGED <<deps, att, call, loop>> /\ UNCHANGED_RESULT

\* shutdown() only flags the tasks its server works on.
Shutdown(t) ==
    LET e == exec[t]
    IN /\ call[t].pc \in Managing /\ e.phase # "STOPPED"
       /\ exec' = SetExec(t, e.phase, e.stop, TRUE)
       /\ UNCHANGED <<task, deps, att, call, loop>> /\ UNCHANGED_RESULT

-----------------------------------------------------------------------------
(* Delegation: delegateOnce and runAttempt.                                *)

SetCall(t, pc) == [call EXCEPT ![t] = Call(pc, call[t].recovery)]
\* The coroutine's locals are gone with it; that a launch was authorized is durable.
SetLoop(t, pc) ==
    [loop EXCEPT ![t] =
        CASE pc \in {"off", "contended"} -> Loop(pc, 0, 0, FALSE)
          [] pc = "dead" -> Loop(pc, 0, 0, @.authorized)
          [] OTHER -> Loop(pc, @.attempt, @.limit, @.authorized)]

\* What the delegation of t does once its attempt ended: nothing, if a recovery ended.
LoopAfter(t, pc) == IF call[t].recovery \/ loop[t].pc # "busy" THEN loop ELSE SetLoop(t, pc)

\* delegate() on the task it has just created, or runReady() on a ready one.
StartDelegation(t) ==
    /\ t \in Delegated /\ loop[t].pc = "off"
    /\ task[t].state = "PENDING" /\ ~Owned(t)
    /\ loop' = [loop EXCEPT ![t] =
                  Loop("queue", task[t].attempt, task[t].attempt + Retries + 1, FALSE)]
    /\ UNCHANGED <<task, deps, att, exec, call>> /\ UNCHANGED_RESULT

\* bridge_continue_task: a delegation that met scope contention before its first launch.
ContinueTask(t) ==
    /\ loop[t].pc = "contended" /\ task[t].state = "BLOCKED"
    /\ \A k \in Attempt : att[t][k].status = "none"
    /\ loop' = [loop EXCEPT ![t] =
                  Loop("queue", task[t].attempt, task[t].attempt + Retries + 1, FALSE)]
    /\ UNCHANGED <<task, deps, att, exec, call>> /\ UNCHANGED_RESULT

\* claim() for the delegate: a no-op on a task it owns, whatever the state.
Claimable(t, a) ==
    \/ task[t].state = "PENDING" /\ ~Owned(t)
    \/ task[t].owner = a /\ task[t].state # "PENDING"

ClaimedBy(t, a) ==
    IF Owned(t) THEN task[t] ELSE Row("CLAIMED", a, task[t].attempt, task[t].blocked)

\* runAttempt, first transaction: the execution is queued for the loop's attempt number.
QueueAttempt(t) ==
    /\ loop[t].pc = "queue"
    /\ Claimable(t, Delegate[t]) /\ Idle(t)
    /\ Update(t, ClaimedBy(t, Delegate[t]))
    /\ exec' = [exec EXCEPT ![t] = ExecRow("QUEUED", Delegate[t], loop[t].attempt, TRUE, FALSE)]
    /\ call' = [call EXCEPT ![t] = Call("waiting", FALSE)]
    /\ loop' = SetLoop(t, "busy")
    /\ UNCHANGED <<deps, att>> /\ UNCHANGED_RESULT

\* The transaction is refused, or the deadline has passed, and the delegation is over.
QueueRefused(t) ==
    /\ loop[t].pc = "queue"
    /\ loop' = SetLoop(t, "off")
    /\ UNCHANGED <<task, deps, att, exec, call>> /\ UNCHANGED_RESULT

\* tryAdmit grants a slot (see ScopeFence).
Admit(t) ==
    LET e == exec[t]
    IN /\ call[t].pc = "waiting" /\ e.phase = "QUEUED" /\ ~e.cancel
       /\ exec' = SetExec(t, "RUNNING", e.stop, FALSE)
       /\ call' = SetCall(t, "admitted")
       /\ UNCHANGED <<task, deps, att, loop>> /\ UNCHANGED_RESULT

\* awaitAdmission gives up, on the deadline or on a cancellation that it finds on the row:
\* it stops the row, and then cancels the task if that is legal and its to cancel.
LeaveQueue(t) ==
    LET e == exec[t]
    IN /\ call[t].pc = "waiting"
       /\ exec' = SetExec(t, "STOPPED", TRUE, e.cancel)
       /\ call' = SetCall(t, "abandoning")
       /\ IF e.cancel /\ task[t].owner = e.agent /\ Legal(task[t].state, "CANCELLED")
          THEN Update(t, Moved(task[t], "CANCELLED"))
          ELSE UNCHANGED task
       /\ UNCHANGED <<deps, att, loop>> /\ UNCHANGED_RESULT

\* runAttempt, second transaction.  It reserves the scope, starts the task, opens (or re-opens)
\* the attempt row and withdraws the stop evidence.
Authorize(t) ==
    LET e == exec[t]
        k == e.attempt
        r == att[t][k]
    IN /\ call[t] = Call("admitted", FALSE) /\ ~e.cancel /\ loop[t].pc = "busy"
       /\ task[t].owner = e.agent
       /\ \/ task[t].state = "WORKING" /\ UNCHANGED task
          \/ MayMove(t, "WORKING") /\ Update(t, Moved(task[t], "WORKING"))
       /\ att' = [att EXCEPT ![t][k] =
                    IF r.status = "none" THEN AttemptRow("open", e.agent, FALSE, FALSE)
                    ELSE AttemptRow(r.status, e.agent, r.handle, r.resumable)]
       /\ exec' = SetExec(t, e.phase, FALSE, FALSE)
       /\ call' = SetCall(t, "invoking")
       /\ loop' = [loop EXCEPT ![t] = Loop("busy", @.attempt, @.limit, TRUE)]
       /\ UNCHANGED deps /\ UNCHANGED_RESULT

\* runAttempt's catch block: contention escalates the task, when it can be blocked, and waits
\* for bridge_continue_task; any other refusal is an error delegateOnce judges.
AbandonAttempt(t) ==
    /\ call[t].pc \in {"admitted", "abandoning"} /\ ~call[t].recovery
    /\ exec' = SetExec(t, "STOPPED", TRUE, exec[t].cancel)
    /\ call' = NoCallAt(t)
    /\ \/ /\ call[t].pc = "admitted"
          /\ task[t].owner = exec[t].agent /\ Legal(task[t].state, "BLOCKED")
          /\ Update(t, Blocked(task[t]))
          /\ loop' = LoopAfter(t, "contended")
       \/ /\ UNCHANGED task
          /\ \E pc \in {"failed", "off"} : loop' = LoopAfter(t, pc)
    /\ UNCHANGED <<deps, att>> /\ UNCHANGED_RESULT

-----------------------------------------------------------------------------
(* The end of an invocation: performInvocation.                            *)

\* Reports of the adapter: the loss of stop evidence, or the stop itself, which lifts a
\* quarantined row whether its manager still waits for it or not.
Report(t, stopped) ==
    LET e == exec[t]
    IN /\ \/ call[t].pc = "invoking" /\ e.phase = "RUNNING"
          \/ e.phase = "QUARANTINED" /\ stopped
       /\ exec' = SetExec(t, IF e.phase = "QUARANTINED" THEN "STOPPED" ELSE e.phase, stopped, e.cancel)
       /\ UNCHANGED <<task, deps, att, call, loop>> /\ UNCHANGED_RESULT

\* attempts.end: of the outcome, only whether a recovery may follow it is kept.
EndedAttempt(t, k, resumable) ==
    [att EXCEPT ![t][k] =
        IF @.status = "none" THEN @ ELSE AttemptRow("ended", @.agent, @.handle, resumable)]

\* The execution row once the final transaction has committed.
Concluded(t, stopped) == SetExec(t, IF stopped THEN "STOPPED" ELSE "QUARANTINED", stopped, exec[t].cancel)

\* A COMPLETE that the evidence refuses is committed as PARTIAL.
Downgraded(status, evidence) ==
    IF status = "COMPLETE" /\ ~Verified(evidence) THEN "PARTIAL" ELSE status

\* submit() as performInvocation calls it: for the owner, and for the attempt it ran.
Submittable(t, status) ==
    /\ task[t].owner = exec[t].agent /\ task[t].attempt = exec[t].attempt
    /\ Accepts(task[t].state, status)

\* The runtime returned a deliverable and no cancellation was committed before it.
Finish(t, status, submitted) ==
    LET verdict == Downgraded(status, Merged(t, submitted))
    IN /\ call[t].pc = "invoking" /\ ~exec[t].cancel
       /\ Submittable(t, verdict)
       /\ Deliver(t, verdict, Merged(t, submitted))
       /\ att' = EndedAttempt(t, exec[t].attempt, FALSE)
       /\ exec' = Concluded(t, TRUE)
       /\ call' = NoCallAt(t)
       /\ loop' = LoopAfter(t, "off")

\* Where an invocation without a deliverable leaves its task.
FailureState(t, stopped) ==
    IF exec[t].cancel /\ stopped THEN "CANCELLED"
    ELSE IF ~stopped \/ call[t].recovery THEN "BLOCKED" ELSE "FAILED"

FailedRow(t, stopped) ==
    IF FailureState(t, stopped) = "BLOCKED" THEN Blocked(task[t])
    ELSE Moved(task[t], FailureState(t, stopped))

\* The runtime failed, was cancelled, its stop is unproven, or its deliverable was refused.
Fail(t, fault, stopped) ==
    /\ call[t].pc = "invoking" /\ (~stopped => fault = "OTHER")
    /\ \/ task[t].state \in Terminal /\ UNCHANGED task
       \/ /\ task[t].owner = exec[t].agent /\ Legal(task[t].state, FailureState(t, stopped))
          /\ Update(t, FailedRow(t, stopped))
    /\ att' = EndedAttempt(t, exec[t].attempt, fault \in Resumable)
    /\ exec' = Concluded(t, stopped)
    /\ call' = NoCallAt(t)
    /\ loop' = LoopAfter(t, IF fault \in Retryable THEN "failed" ELSE "off")
    /\ UNCHANGED deps /\ UNCHANGED_RESULT

\* The final transaction is rolled back, by a task that cannot make the move or by its lease.
CommitThrows(t, stopped) ==
    /\ call[t].pc = "invoking"
    /\ exec' = SetExec(t, IF stopped THEN "RUNNING" ELSE "QUARANTINED", stopped, exec[t].cancel)
    /\ call' = NoCallAt(t)
    /\ loop' = LoopAfter(t, "off")
    /\ UNCHANGED <<task, deps, att>> /\ UNCHANGED_RESULT

-----------------------------------------------------------------------------
(* Retry: delegateOnce after a retryable error.                            *)

\* canRetry is decided on what the rows say now; telemetry and the deadline may say no.
DecideRetry(t) ==
    /\ loop[t].pc = "failed"
    /\ \/ /\ loop[t].attempt + 1 < loop[t].limit
          /\ exec[t].stop /\ ~exec[t].cancel /\ task[t].state # "CANCELLED"
          /\ loop' = SetLoop(t, "again")
       \/ loop' = SetLoop(t, "off")
    /\ UNCHANGED <<task, deps, att, exec, call>> /\ UNCHANGED_RESULT

\* Seeded bug: the retry does not look at the state it resets.
Resettable_Any(t) == ~exec[t].cancel

\* What the transaction still looks at: not the execution, nor its stop evidence.
Resettable(t) ==
    /\ ~exec[t].cancel
    /\ \/ task[t].state = "FAILED"
       \/ task[t].owner = Delegate[t] /\ Legal(task[t].state, "FAILED")
    /\ task[t].attempt + 1 < loop[t].limit

\* retry()
Reset(r) == Row("PENDING", None, r.attempt + 1, FALSE)

\* The transaction: fail the task if it is not, and reset it for the next attempt.
Retry(t) ==
    /\ loop[t].pc = "again"
    /\ \/ /\ Resettable(t)
          /\ task[t].attempt < MaxAttempt /\ loop[t].attempt < MaxAttempt
          /\ Update(t, Reset(task[t]))
          /\ loop' = [loop EXCEPT ![t] = Loop("queue", @.attempt + 1, @.limit, @.authorized)]
       \/ /\ ~Resettable(t)
          /\ loop' = SetLoop(t, "off") /\ UNCHANGED task
    /\ UNCHANGED <<deps, att, exec, call>> /\ UNCHANGED_RESULT

-----------------------------------------------------------------------------
(* Recovery: prepareRecovery and executeRecovery.                          *)

\* A runtime crash is not an authored verdict.
Interrupted(t) ==
    LET r == att[t][task[t].attempt]
    IN /\ deliverable[t].status = "none"
       /\ r.agent = task[t].owner /\ r.status = "ended" /\ r.handle /\ r.resumable

\* Seeded bug: whatever has been claimed may be resumed.
Recoverable_Claimed(t) == task[t].state # "PENDING"

\* assertRecoverable
Recoverable(t) ==
    \/ task[t].state \in {"CLAIMED", "WORKING", "BLOCKED", "VERIFYING"}
    \/ task[t].state = "FAILED" /\ Interrupted(t)

\* The handle of the current attempt is its owner's, and the next attempt does not exist.
Resumes(t) ==
    LET k == task[t].attempt
    IN /\ k < MaxAttempt
       /\ att[t][k].handle /\ att[t][k].agent = task[t].owner
       /\ att[t][k + 1].status = "none"

\* prepareRecovery: reserve a place in the queue (and a lease).
QueueRecovery(t) ==
    /\ t \in Delegated /\ Owned(t) /\ Recoverable(t) /\ Resumes(t) /\ Idle(t)
    /\ exec' = [exec EXCEPT ![t] = ExecRow("QUEUED", task[t].owner, task[t].attempt + 1, TRUE, FALSE)]
    /\ call' = [call EXCEPT ![t] = Call("waiting", TRUE)]
    /\ loop' = IF loop[t].pc = "busy" THEN SetLoop(t, "off") ELSE loop
    /\ UNCHANGED <<task, deps, att>> /\ UNCHANGED_RESULT

\* executeRecovery's transaction: close the interrupted attempt, reactivate the task under the
\* next attempt number, and withdraw the stop evidence.
AuthorizeRecovery(t) ==
    LET e == exec[t]
        k == task[t].attempt
        prior == att[t][k]
    IN /\ call[t] = Call("admitted", TRUE) /\ ~e.cancel
       /\ task[t].owner = e.agent /\ e.attempt = k + 1
       /\ Recoverable(t) /\ Resumes(t) /\ Satisfied(t)
       /\ Update(t, Row("WORKING", e.agent, k + 1, FALSE))
       /\ att' = [att EXCEPT
             ![t][k] = IF prior.status = "open" THEN AttemptRow("ended", prior.agent, TRUE, FALSE)
                       ELSE prior,
             ![t][k + 1] = AttemptRow("open", e.agent, TRUE, FALSE)]
       /\ exec' = SetExec(t, e.phase, FALSE, FALSE)
       /\ call' = SetCall(t, "invoking")
       /\ UNCHANGED <<deps, loop>> /\ UNCHANGED_RESULT

\* executeRecovery's catch block, one transaction: it stops the row and blocks a task that is
\* not terminal, or is rolled back when that task cannot be blocked.
AbandonRecovery(t) ==
    /\ call[t].pc \in {"admitted", "abandoning"} /\ call[t].recovery
    /\ call' = NoCallAt(t)
    /\ \/ /\ exec' = SetExec(t, "STOPPED", TRUE, exec[t].cancel)
          /\ exec[t].stop
          /\ \/ task[t].state \in Terminal /\ UNCHANGED task
             \/ /\ task[t].owner = exec[t].agent /\ Legal(task[t].state, "BLOCKED")
                /\ Update(t, Blocked(task[t]))
       \/ UNCHANGED <<task, exec>>
    /\ UNCHANGED <<deps, att, loop>> /\ UNCHANGED_RESULT

-----------------------------------------------------------------------------
(* Crashes, and what other processes make of them.                         *)

\* The process that delegates t dies, with the invocation it manages.
CrashDelegation(t) ==
    /\ loop[t].pc \in {"queue", "busy", "failed", "again"}
    /\ loop' = SetLoop(t, "dead")
    /\ call' = IF call[t].pc \in Managing /\ ~call[t].recovery THEN SetCall(t, "dead") ELSE call
    /\ UNCHANGED <<task, deps, att, exec>> /\ UNCHANGED_RESULT

\* The process that recovers t dies.
CrashRecovery(t) ==
    /\ call[t].pc \in Managing /\ call[t].recovery
    /\ call' = SetCall(t, "dead")
    /\ UNCHANGED <<task, deps, att, exec, loop>> /\ UNCHANGED_RESULT

\* reconcileExecutors: a dead manager's row.
Reconcile(t) ==
    LET e == exec[t]
    IN /\ call[t].pc = "dead" /\ e.phase \in {"QUEUED", "RUNNING"}
       /\ exec' = IF e.phase = "QUEUED" \/ e.stop THEN SetExec(t, "STOPPED", TRUE, e.cancel)
                  ELSE SetExec(t, "QUARANTINED", FALSE, e.cancel)
       /\ call' = NoCallAt(t)
       /\ UNCHANGED <<task, deps, att, loop>> /\ UNCHANGED_RESULT

\* reserveTask: a replay takes over a delegation that died before it launched anything...
TakeOver(t) ==
    LET e == exec[t]
    IN /\ loop[t].pc = "dead" /\ ~loop[t].authorized
       /\ exec' = IF e.phase = "QUEUED" \/ (e.phase = "RUNNING" /\ e.stop)
                  THEN SetExec(t, "STOPPED", e.stop, e.cancel) ELSE exec
       /\ loop' = [loop EXCEPT ![t] =
                     Loop("queue", task[t].attempt, task[t].attempt + Retries + 1, FALSE)]
       /\ UNCHANGED <<task, deps, att, call>> /\ UNCHANGED_RESULT

\* ...and declares one that may have launched uncertain.  Neither asks whose row it is.
DeclareUncertain(t) ==
    LET e == exec[t]
    IN /\ loop[t].pc = "dead" /\ loop[t].authorized
       /\ exec' = IF e.stop THEN exec ELSE SetExec(t, "QUARANTINED", FALSE, e.cancel)
       /\ IF Owned(t) /\ task[t].state = "WORKING" THEN Update(t, Blocked(task[t])) ELSE UNCHANGED task
       /\ loop' = SetLoop(t, "off")
       /\ UNCHANGED <<deps, att, call>> /\ UNCHANGED_RESULT

-----------------------------------------------------------------------------
AgentStep ==
    \/ \E t \in Task :
          \/ \E D \in SUBSET Task : Create(t, D)
          \/ \E d \in Task : AddDependency(t, d)
          \/ \E a \in Agent : Claim(t, a)
          \/ \E to \in State : SetState(t, to)
          \/ \E c \in Check, v \in Verdict : RecordVerification(t, c, v)
          \/ \E status \in Status, e \in Evidence : Submit(t, status, e)
          \/ Release(t) \/ Block(t) \/ SaveHandle(t) \/ RequestCancel(t)

DelegationStep(t) ==
    \/ StartDelegation(t) \/ ContinueTask(t) \/ QueueAttempt(t) \/ QueueRefused(t)
    \/ Admit(t) \/ LeaveQueue(t) \/ Authorize(t) \/ AbandonAttempt(t)
    \/ DecideRetry(t) \/ Retry(t)

RecoveryStep(t) == QueueRecovery(t) \/ AuthorizeRecovery(t) \/ AbandonRecovery(t)

InvocationStep(t) ==
    \/ \E status \in Status, e \in Evidence : Finish(t, status, e)
    \/ \E stopped \in BOOLEAN :
          \/ Report(t, stopped) \/ CommitThrows(t, stopped)
          \/ \E fault \in Fault : Fail(t, fault, stopped)

OutsideStep(t) ==
    \/ Shutdown(t) \/ CrashDelegation(t) \/ CrashRecovery(t)
    \/ Reconcile(t) \/ TakeOver(t) \/ DeclareUncertain(t)

Next ==
    \/ AgentStep
    \/ \E t \in Delegated : DelegationStep(t) \/ RecoveryStep(t) \/ InvocationStep(t) \/ OutsideStep(t)

Spec == Init /\ [][Next]_vars

-----------------------------------------------------------------------------
(* Properties.                                                             *)

\* "Cycles are rejected, so dependencies cannot deadlock the two agents against each other"
\* (tools.ts:673-674): whatever edges were added in whatever order, every set of tasks has one
\* that waits for none of the others.
NoDependencyDeadlock ==
    \A S \in SUBSET Task : S # {} => \E t \in S : deps[t] \cap S = {}

\* A COMPLETE deliverable is the last word on its task: the task is DONE in the attempt that
\* delivered it, on evidence of that attempt in which some check passed and none failed.  No
\* retry, recovery, late submission or downgrade separates the two rows afterwards.
CompleteIsFinal ==
    \A t \in Task : deliverable[t].status = "COMPLETE" =>
        /\ task[t].state = "DONE"
        /\ deliverable[t].attempt = task[t].attempt
        /\ Verified(deliverable[t].evidence)

\* "clear the blocker first so the finished task does not carry a stale reason"
\* (deliverable-service.ts:201-202): a task that is worked on, checked or done has no blocker.
FinishedCarriesNoBlocker ==
    \A t \in Task : task[t].state \in {"WORKING", "VERIFYING", "DONE"} => ~task[t].blocked

\* A task has an owner exactly while it is not up for grabs: cancellation and recovery act on
\* behalf of that owner without asking for one (orchestrator.ts:547).
OwnedUnlessPending ==
    \A t \in Task : Owned(t) <=> task[t].state \notin {"absent", "PENDING"}

\* DONE and CANCELLED are final for state, owner and attempt: no retry decided before, no
\* recovery reserved before and no runtime that ends afterwards reopens the task.
VerdictsStand ==
    [][\A t \in Task : task[t].state \in {"DONE", "CANCELLED"} =>
          /\ task'[t].state = task[t].state
          /\ task'[t].owner = task[t].owner
          /\ task'[t].attempt = task[t].attempt]_vars

\* Cancellation never frees work that may still be executing: a task whose row is RUNNING or
\* QUARANTINED is cancelled only by the transaction that ends its invocation, and none without
\* stop evidence on its row ("Unconfirmed stops retain their scope in quarantine",
\* tools.ts:491).
CancelledOnEvidence ==
    [][\A t \in Task : task[t].state # "CANCELLED" /\ task'[t].state = "CANCELLED" =>
          /\ exec[t].phase # "none" => exec'[t].stop
          /\ exec[t].phase \in {"RUNNING", "QUARANTINED"} => call'[t].pc # call[t].pc]_vars

\* "A task cannot be completed without at least one passing check" (tools.ts:594-595).
DoneIsVerified ==
    \A t \in Task : task[t].state = "DONE" =>
        \/ Verified(Recorded(t))
        \/ deliverable[t].status = "COMPLETE"

\* "entering WORKING fails with DEPENDENCY_UNSATISFIED unless every dependency is DONE"
\* (docs/PROTOCOL.md:128): no task that was not being worked on gets past that gate.
DependencyGate ==
    [][\A t \in Task :
          /\ task[t].state \notin {"WORKING", "VERIFYING", "DONE"}
          /\ task'[t].state \in {"WORKING", "VERIFYING", "DONE"}
          => \A d \in deps[t] : task[d].state = "DONE"]_vars

-----------------------------------------------------------------------------
(* The rest of the inductive invariant behind these properties.            *)

\* Edges lead from created tasks to created tasks.
DepsExist ==
    \A t \in Task :
        /\ deps[t] # {} => Exists(t)
        /\ \A d \in deps[t] : Exists(d)

\* The row a coroutine manages names the agent it was queued for.
ManagedRowNamesAgent ==
    \A t \in Task : call[t].pc # "off" => exec[t].agent # None

IInv ==
    /\ TypeOK /\ DepsExist /\ NoDependencyDeadlock /\ ManagedRowNamesAgent
    /\ OwnedUnlessPending /\ FinishedCarriesNoBlocker /\ CompleteIsFinal

=============================================================================
