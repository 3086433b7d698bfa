----------------------------- MODULE ScopeFence -----------------------------
(***************************************************************************)
(* Write-scope leases, durable execution records and the runtimes they     *)
(* fence: shared/control-plane/src/lease-manager.ts, execution-service.ts  *)
(* and the steps of orchestrator.ts that touch either table.               *)
(*                                                                         *)
(* Several native server processes share one SQLite workspace.  A server   *)
(* step is one BEGIN IMMEDIATE transaction (store/sqlite-store.ts:406), so *)
(* steps interleave between transactions and at every await.  The state    *)
(* is of three kinds:                                                      *)
(*   - durable rows: lease, exec;                                          *)
(*   - process memory, lost by a crash: the coroutine call[g] that manages *)
(*     generation g;                                                       *)
(*   - the world: which servers are up, and whether the runtime a          *)
(*     generation launched is really executing.  No transaction can read   *)
(*     that; the adapter only reports it.                                  *)
(*                                                                         *)
(* Task and attempt rows belong to other components.  Where a handler also *)
(* changes them, their guards appear here as a free choice between the     *)
(* transaction and its rollback.  Wall-clock time is abstracted to one     *)
(* distinction: a row whose state column is HELD is "HELD" here until its  *)
(* expires_at passes, and "LAPSED" afterwards.  RELEASED and EXPIRED rows, *)
(* which no handler tells apart, are both "ENDED".                         *)
(***************************************************************************)
EXTENDS Integers, FiniteSets

CONSTANTS
    Task, Agent, Server, Lease, Scope,
    AgentOf,        \* the agent that executes a task (DelegationRequest.to)
    ScopeOf,        \* the scope a task's contract declares (TaskSpec.scope)
    Overlap,        \* pairs of scopes for which conflictingPairs is not empty
    RepairAgents,   \* agents whose adapter may open another turn for one generation
    MaxConcurrency, \* what a server may declare as AdapterInfo.max_concurrency
    Manual,         \* the requests <<agent, task, scope>> made through bridge_acquire_lease
    QueueLimit,     \* 64 in execution-service.ts:16
    MaxGen,         \* bound: generations ever queued
    None            \* null

ASSUME FenceAssumption ==
    /\ AgentOf \in [Task -> Agent]
    /\ ScopeOf \in [Task -> Scope]
    /\ Overlap \subseteq Scope \X Scope
    /\ \A a, b \in Scope : <<a, b>> \in Overlap => <<b, a>> \in Overlap
    /\ RepairAgents \subseteq Agent
    /\ MaxConcurrency \subseteq Nat \ {0}
    /\ Manual \subseteq Agent \X Task \X Scope
    /\ QueueLimit \in Nat
    /\ MaxGen \in Nat
    /\ None \notin Task \cup Agent \cup Server \cup Lease \cup Scope

VARIABLES
    lease,    \* lease table
    exec,     \* execution table, one row per task
    call,     \* the coroutine managing a generation, in its server's memory
    runtime,  \* what the runtime of a generation is really doing
    up,       \* which server processes (executor_pid) exist
    nextGen   \* generations are fresh UUIDs: the next one

vars == <<lease, exec, call, runtime, up, nextGen>>

Gen == 1..MaxGen

LeaseState == {"HELD", "LAPSED", "QUARANTINED", "ENDED"}
Phase == {"QUEUED", "RUNNING", "QUARANTINED", "STOPPED"}
CallPc == {"unused", "waiting", "abandoning", "abandoned", "admitted", "invoking", "settled", "done"}
RuntimeState == {"none", "asserted", "starting", "running", "stopped"}

NoLeaseRow == [state |-> "none", task |-> None, holder |-> None, scope |-> None]
NoExecRow  == [phase |-> "none", gen |-> 0, server |-> None, max |-> 0,
               ticket |-> 0, stop |-> TRUE, lease |-> None, cancel |-> FALSE]
NoCall     == [pc |-> "unused", task |-> None, server |-> None,
               lease |-> None, stopped |-> FALSE, saw |-> "none"]

LeaseRow == [state : LeaseState \cup {"none"}, task : Task \cup {None},
             holder : Agent \cup {None}, scope : Scope \cup {None}]
ExecRow  == [phase : Phase \cup {"none"}, gen : Gen \cup {0}, server : Server \cup {None},
             max : Nat, ticket : Nat, stop : BOOLEAN, lease : Lease \cup {None},
             cancel : BOOLEAN]
CallRow  == [pc : CallPc, task : Task \cup {None}, server : Server \cup {None},
             lease : Lease \cup {None}, stopped : BOOLEAN, saw : Phase \cup {"none"}]

TypeOK ==
    /\ lease \in [Lease -> LeaseRow]
    /\ exec \in [Task -> ExecRow]
    /\ call \in [Gen -> CallRow]
    /\ runtime \in [Gen -> RuntimeState]
    /\ up \in [Server -> BOOLEAN]
    /\ nextGen \in 1..(MaxGen + 1)

Init ==
    /\ lease = [l \in Lease |-> NoLeaseRow]
    /\ exec = [t \in Task |-> NoExecRow]
    /\ call = [g \in Gen |-> NoCall]
    /\ runtime = [g \in Gen |-> "none"]
    /\ up = [s \in Server |-> TRUE]
    /\ nextGen = 1

-----------------------------------------------------------------------------
(* A server is one JavaScript thread.  Where a handler takes two steps     *)
(* without an await between them, no other step of the same server comes   *)
(* between: only those of another process, the clock and the runtimes.     *)

InTurn(g) == runtime[g] = "asserted" \/ call[g].saw # "none"

TurnOpen(s) == \E g \in Gen : InTurn(g) /\ call[g].server = s

Ready(s) == up[s] /\ ~TurnOpen(s)

\* Some server can serve a request that any of them may serve.
Served == \E s \in Server : Ready(s)

-----------------------------------------------------------------------------
(* Leases.                                                                 *)

\* The state column of the row is HELD.
Held(l) == lease[l].state \in {"HELD", "LAPSED"}

\* The execution row of l's task is bound to l and has no stop evidence.
Unconfirmed(l) ==
    LET t == lease[l].task IN t # None /\ exec[t].lease = l /\ ~exec[t].stop

\* Seeded bug: an unconfirmed execution does not outlive the TTL.
IsLive_TtlOnly(l) == lease[l].state \in {"QUARANTINED", "HELD"}

\* isLive: quarantine and an unconfirmed execution outlive the TTL.
IsLive(l) ==
    \/ lease[l].state \in {"QUARANTINED", "HELD"}
    \/ lease[l].state = "LAPSED" /\ Unconfirmed(l)

Conflicting(a, b) == <<a, b>> \in Overlap

\* A row of findConflicts: l refuses scope s to holder a for task t.
Conflicts(l, s, a, t) ==
    /\ IsLive(l)
    /\ ~ /\ lease[l].holder = a /\ lease[l].task = t /\ Held(l)
         /\ exec[t].stop
    /\ \/ Conflicting(s, lease[l].scope)
       \/ lease[l].task = t /\ (lease[l].state = "QUARANTINED" \/ Unconfirmed(l))

Free(s, a, t) == \A l \in Lease : ~Conflicts(l, s, a, t)

Granted(s, a, t) ==
    [state |-> "HELD", task |-> t, holder |-> a, scope |-> s]

WithState(l, st) == [lease EXCEPT ![l].state = st]

\* bridge_acquire_lease.  The tool checks neither the task's owner nor its state.
Acquire(a, t, s, l) ==
    /\ <<a, t, s>> \in Manual
    /\ lease[l].state = "none"
    /\ Served
    /\ Free(s, a, t)
    /\ lease' = [lease EXCEPT ![l] = Granted(s, a, t)]
    /\ UNCHANGED <<exec, call, runtime, up, nextGen>>

\* The clock passes expires_at.
Expire(l) ==
    /\ lease[l].state = "HELD"
    /\ lease' = WithState(l, "LAPSED")
    /\ UNCHANGED <<exec, call, runtime, up, nextGen>>

\* renew moves the expires_at of a lease that is "HELD" to another time that has not passed:
\* a step that changes nothing here, and is left out of Next.

\* Seeded bug: release does not look at the execution.
Release_Unfenced(l) ==
    /\ Held(l)
    /\ Served
    /\ lease' = WithState(l, "ENDED")
    /\ UNCHANGED <<exec, call, runtime, up, nextGen>>

Release(l) ==
    /\ Held(l) /\ ~Unconfirmed(l)
    /\ Served
    /\ lease' = WithState(l, "ENDED")
    /\ UNCHANGED <<exec, call, runtime, up, nextGen>>

\* Seeded bug: reaping does not skip quarantined rows.
ReapExpired_Quarantined ==
    /\ Served
    /\ lease' = [l \in Lease |->
                   IF lease[l].state = "QUARANTINED" THEN [lease[l] EXCEPT !.state = "ENDED"] ELSE lease[l]]
    /\ UNCHANGED <<exec, call, runtime, up, nextGen>>

\* reapExpired, over every row in one transaction.
ReapExpired ==
    /\ \E l \in Lease : lease[l].state = "LAPSED"
    /\ Served
    /\ lease' = [l \in Lease |->
                   IF lease[l].state = "LAPSED"
                   THEN [lease[l] EXCEPT !.state =
                           IF Unconfirmed(l) THEN "QUARANTINED" ELSE "ENDED"]
                   ELSE lease[l]]
    /\ UNCHANGED <<exec, call, runtime, up, nextGen>>

-----------------------------------------------------------------------------
(* Executions: queue, shared admission, reconciliation of dead managers.   *)

\* executions.update: what its callers patch, but for the lease, is the phase and the evidence.
Updated(t, phase, stop) == [exec EXCEPT ![t].phase = phase, ![t].stop = stop]

\* Seeded bug: quarantined executions do not count.
Occupying_Running == {"RUNNING"}

Occupying == {"RUNNING", "QUARANTINED"}

Queued(a) == {t \in Task : AgentOf[t] = a /\ exec[t].phase = "QUEUED"}

\* Seeded bug: the length of the queue as a ticket.
FreshTicket_Count == Cardinality({t \in Task : exec[t].phase = "QUEUED"}) + 1

\* Math.max over every row's ticket, plus one.
FreshTicket == CHOOSE k \in 1..(nextGen + 1) :
    /\ \A t \in Task : exec[t].ticket < k
    /\ k = 1 \/ \E t \in Task : exec[t].ticket = k - 1

Queueable(t, s) ==
    /\ nextGen \in Gen
    /\ exec[t].phase \in {"none", "STOPPED"}
    /\ Ready(s)
    /\ Cardinality(Queued(AgentOf[t])) < QueueLimit

QueuedRow(s, m, l) ==
    [phase |-> "QUEUED", gen |-> nextGen, server |-> s, max |-> m,
     ticket |-> FreshTicket, stop |-> TRUE, lease |-> l, cancel |-> FALSE]

WaitingCall(t, s, l) ==
    [pc |-> "waiting", task |-> t, server |-> s, lease |-> l, stopped |-> FALSE, saw |-> "none"]

\* runAttempt, first transaction: claim the task and queue its execution.
QueueAttempt(t, s, m) ==
    /\ Queueable(t, s)
    /\ exec' = [exec EXCEPT ![t] = QueuedRow(s, m, None)]
    /\ call' = [call EXCEPT ![nextGen] = WaitingCall(t, s, None)]
    /\ nextGen' = nextGen + 1
    /\ UNCHANGED <<lease, runtime, up>>

\* prepareRecovery: nothing live on the task or over its scope, then queue and acquire.
QueueRecovery(t, s, m, l) ==
    /\ Queueable(t, s)
    /\ lease[l].state = "none"
    /\ \A k \in Lease : IsLive(k) =>
          lease[k].task # t /\ ~Conflicting(ScopeOf[t], lease[k].scope)
    /\ lease' = [lease EXCEPT ![l] = Granted(ScopeOf[t], AgentOf[t], t)]
    /\ exec' = [exec EXCEPT ![t] = QueuedRow(s, m, l)]
    /\ call' = [call EXCEPT ![nextGen] = WaitingCall(t, s, l)]
    /\ nextGen' = nextGen + 1
    /\ UNCHANGED <<runtime, up>>

\* Seeded bug: only admitted rows are reconciled.
Orphans_Running(A) == {t \in Task :
    /\ AgentOf[t] \in A
    /\ exec[t].phase = "RUNNING"
    /\ ~up[exec[t].server]}

\* The rows reconcileExecutors changes for the agents in A.
Orphans(A) == {t \in Task :
    /\ AgentOf[t] \in A
    /\ exec[t].phase \in {"QUEUED", "RUNNING"}
    /\ ~up[exec[t].server]}

Reconciled(A) == [t \in Task |->
    IF t \notin Orphans(A) THEN exec[t]
    ELSE IF exec[t].phase = "QUEUED" \/ exec[t].stop
         THEN [exec[t] EXCEPT !.phase = "STOPPED", !.stop = TRUE]
         ELSE [exec[t] EXCEPT !.phase = "QUARANTINED"]]

ReconciledLeases(A) == [l \in Lease |->
    IF Held(l) /\ \E t \in Orphans(A) : exec[t].lease = l
    THEN [lease[l] EXCEPT !.state =
            IF \E t \in Orphans(A) : exec[t].lease = l /\ Reconciled(A)[t].phase = "STOPPED"
            THEN "ENDED" ELSE "QUARANTINED"]
    ELSE lease[l]]

\* recover(): every server may run it at any time.
Reconcile ==
    /\ Orphans(Agent) # {}
    /\ Served
    /\ exec' = Reconciled(Agent)
    /\ lease' = ReconciledLeases(Agent)
    /\ UNCHANGED <<call, runtime, up, nextGen>>

\* tryAdmit's decision on the reconciled rows E: capacity is the smallest limit that any
\* row still counted declares, and the first uncancelled QUEUED ticket goes first.
Admits(E, t) ==
    LET active  == {u \in Task : AgentOf[u] = AgentOf[t] /\ E[u].phase \notin {"none", "STOPPED"}}
        running == {u \in active : E[u].phase \in Occupying}
        eligible == {u \in active : E[u].phase = "QUEUED" /\ ~E[u].cancel}
    IN /\ \A u \in active : Cardinality(running) < E[u].max
       /\ t \in eligible
       /\ \A u \in eligible : E[t].ticket <= E[u].ticket

\* Seeded bug: reports are matched to their task, not to their generation.
Current_AnyGeneration(g) == exec[call[g].task].gen # 0

Current(g) == exec[call[g].task].gen = g

\* The attempt ends, and the coroutine's locals with it.  Its adapter may still report.
Ended(g) == [call EXCEPT ![g].pc = "done", ![g].stopped = FALSE]

\* One poll of awaitAdmission that reaches tryAdmit: reconciliation is committed whether or
\* not the poll is admitted.
PollAdmission(g) ==
    LET t == call[g].task
        E == Reconciled({AgentOf[t]})
    IN /\ call[g].pc = "waiting" /\ Ready(call[g].server)
       /\ Current(g) /\ ~exec[t].cancel
       /\ lease' = ReconciledLeases({AgentOf[t]})
       /\ IF Admits(E, t)
          THEN /\ exec' = [E EXCEPT ![t].phase = "RUNNING"]
               /\ call' = [call EXCEPT ![g].pc = "admitted"]
          ELSE exec' = E /\ call' = call
       /\ UNCHANGED <<runtime, up, nextGen>>

\* Cancellation or the deadline ends the wait: awaitAdmission stops the row in one
\* transaction and throws, and the caller's catch block runs in another.
LeaveQueue(g) ==
    LET t == call[g].task
    IN /\ call[g].pc = "waiting" /\ Ready(call[g].server)
       /\ Current(g)
       /\ call' = [call EXCEPT ![g].pc = "abandoning"]
       /\ exec' = Updated(t, "STOPPED", TRUE)
       /\ UNCHANGED <<lease, runtime, up, nextGen>>

\* The lease a prelaunch failure gives back: runAttempt's row has none yet, executeRecovery
\* releases the one it reserved, and release is a no-op unless the lease is HELD.
GivenBack(l) == IF l # None /\ Held(l) THEN WithState(l, "ENDED") ELSE lease

\* runAttempt's and executeRecovery's catch blocks: the wait was given up, or a lease
\* conflict or a task guard refused the launch, or the generation is no longer current.
\* executeRecovery cleans up in one transaction with tasks.block, which rolls it back when the
\* task cannot be blocked: it may be BLOCKED already.
AbandonPrelaunch(g) ==
    LET t == call[g].task
    IN /\ \/ call[g].pc \in {"abandoning", "admitted"}
          \/ call[g].pc = "waiting" /\ ~Current(g)
       /\ Ready(call[g].server)
       /\ call' = [call EXCEPT ![g].pc = "abandoned"]
       /\ \/ /\ Current(g)
             /\ exec' = Updated(t, "STOPPED", TRUE)
             /\ lease' = GivenBack(call[g].lease)
          \/ /\ ~Current(g) \/ call[g].lease # None
             /\ UNCHANGED <<exec, lease>>
       /\ UNCHANGED <<runtime, up, nextGen>>

\* runAttempt, second transaction: acquire the scope, bind it to the row, authorize launch.
AuthorizeAttempt(g, l) ==
    LET t == call[g].task
    IN /\ call[g].pc = "admitted" /\ call[g].lease = None /\ Ready(call[g].server)
       /\ Current(g) /\ ~exec[t].cancel
       /\ lease[l].state = "none"
       /\ Free(ScopeOf[t], AgentOf[t], t)
       /\ lease' = [lease EXCEPT ![l] = Granted(ScopeOf[t], AgentOf[t], t)]
       /\ exec' = [exec EXCEPT ![t].lease = l, ![t].stop = FALSE]
       /\ call' = [call EXCEPT ![g].pc = "invoking", ![g].lease = l]
       /\ UNCHANGED <<runtime, up, nextGen>>

\* executeRecovery's transaction.  It does not look at the reserved lease again.
AuthorizeRecovery(g) ==
    LET t == call[g].task
    IN /\ call[g].pc = "admitted" /\ call[g].lease # None /\ Ready(call[g].server)
       /\ Current(g) /\ ~exec[t].cancel
       /\ exec' = Updated(t, exec[t].phase, FALSE)
       /\ call' = [call EXCEPT ![g].pc = "invoking"]
       /\ UNCHANGED <<lease, runtime, up, nextGen>>

-----------------------------------------------------------------------------
(* The runtime and what its adapter reports.                               *)

Executing(g) == runtime[g] \in {"starting", "running"}

\* ...or has been cleared to launch by a check that is still the last thing it did.
Live(g) == runtime[g] = "asserted" \/ Executing(g)

\* Seeded bug: the callback check forgets expires_at.
CallbackLegal_Lapsed(g) ==
    LET e == exec[call[g].task]
    IN Current(g) /\ e.phase = "RUNNING" /\ ~e.cancel /\ e.lease # None /\ Held(e.lease)

\* The row that assertCallback accepts: running, not cancelled, inside its unexpired lease.
CallbackLegal(g) ==
    LET e == exec[call[g].task]
    IN /\ Current(g) /\ e.phase = "RUNNING" /\ ~e.cancel
       /\ e.lease # None /\ lease[e.lease].state = "HELD"

\* reportRuntimeState("running") first asserts the callback...
AssertRunning(g) ==
    /\ call[g].pc = "invoking" /\ Ready(call[g].server)
    /\ \/ runtime[g] = "none"
       \/ runtime[g] = "stopped" /\ AgentOf[call[g].task] \in RepairAgents
    /\ CallbackLegal(g)
    /\ runtime' = [runtime EXCEPT ![g] = "asserted"]
    /\ UNCHANGED <<lease, exec, call, up, nextGen>>

\* ...and then, in a transaction of its own, withdraws the stop evidence.
ReportRunning(g) ==
    LET t == call[g].task
    IN /\ runtime[g] = "asserted" /\ up[call[g].server]
       /\ exec' = IF Current(g) THEN Updated(t, exec[t].phase, FALSE) ELSE exec
       /\ runtime' = [runtime EXCEPT ![g] = IF Current(g) THEN "starting" ELSE "stopped"]
       /\ UNCHANGED <<lease, call, up, nextGen>>

\* The process is spawned, or the turn is started, only after that report.
Launch(g) ==
    /\ runtime[g] = "starting" /\ Ready(call[g].server)
    /\ runtime' = [runtime EXCEPT ![g] = "running"]
    /\ UNCHANGED <<lease, exec, call, up, nextGen>>

\* The runtime finishes, is killed, or dies: with or without its manager.
RuntimeExit(g) ==
    /\ runtime[g] = "running"
    /\ runtime' = [runtime EXCEPT ![g] = "stopped"]
    /\ UNCHANGED <<lease, exec, call, up, nextGen>>

\* confirmStopped, under a row that has just recorded the stop.
Confirmed(l) ==
    IF l # None /\ (Held(l) \/ lease[l].state = "QUARANTINED")
    THEN WithState(l, "ENDED") ELSE lease

Reporting(g) == call[g].pc \in {"invoking", "settled", "done"} /\ Ready(call[g].server)

\* reportRuntimeState("stopped") reads the row before it opens its transaction.  An adapter
\* sends it when nothing was launched or the runtime has ended; it stays legal for its
\* generation after the attempt has ended.
ReadBeforeStopReport(g) ==
    LET t == call[g].task
    IN /\ Reporting(g)
       /\ runtime[g] \in {"none", "starting", "stopped"}
       /\ Current(g) /\ ~exec[t].stop
       /\ call' = [call EXCEPT ![g].saw = exec[t].phase]
       /\ runtime' = [runtime EXCEPT ![g] = "stopped"]
       /\ UNCHANGED <<lease, exec, up, nextGen>>

\* The transaction: the phase it lifts is the one read before it.
ReportStopped(g) ==
    LET t == call[g].task
        quarantined == call[g].saw = "QUARANTINED"
    IN /\ call[g].saw # "none" /\ up[call[g].server]
       /\ call' = [call EXCEPT ![g].saw = "none"]
       /\ IF Current(g)
          THEN /\ exec' = Updated(t, IF quarantined THEN "STOPPED" ELSE exec[t].phase, TRUE)
               /\ lease' = IF quarantined THEN Confirmed(exec[t].lease) ELSE lease
          ELSE UNCHANGED <<exec, lease>>
       /\ UNCHANGED <<runtime, up, nextGen>>

\* reportRuntimeState("unconfirmed"): no callback check, only the generation.
ReportUnconfirmed(g) ==
    LET t == call[g].task
    IN /\ Reporting(g)
       /\ Current(g) /\ exec[t].stop
       /\ exec' = Updated(t, exec[t].phase, FALSE)
       /\ UNCHANGED <<lease, call, runtime, up, nextGen>>

-----------------------------------------------------------------------------
(* The end of an invocation: performInvocation after the race between the  *)
(* adapter's promise and the bounded stop timer.                           *)

\* What the attempt may conclude: the stop timer or a failure says the stop is unproven; a
\* failure says it is proven, which an adapter does of a runtime that is not executing; or
\* the row decides.
StopVerdict(g) ==
    {FALSE, exec[call[g].task].stop} \cup (IF Executing(g) THEN {} ELSE {TRUE})

Settle(g, stopped) ==
    LET t == call[g].task
    IN /\ call[g].pc = "invoking" /\ Ready(call[g].server)
       /\ stopped \in StopVerdict(g)
       /\ IF Current(g)
          THEN /\ exec' = Updated(t, IF stopped THEN "RUNNING" ELSE "QUARANTINED", stopped)
               /\ call' = [call EXCEPT ![g].pc = "settled", ![g].stopped = stopped]
          ELSE /\ call' = Ended(g)
               /\ UNCHANGED exec
       /\ UNCHANGED <<lease, runtime, up, nextGen>>

\* The final transaction: with stop evidence the row stops and release is a no-op unless
\* the lease is HELD, but refuses a quarantined one; without evidence quarantine accepts
\* a HELD or a QUARANTINED lease only.
Commit(g) ==
    LET t == call[g].task
        l == call[g].lease
    IN /\ call[g].pc = "settled" /\ Ready(call[g].server)
       /\ Current(g)
       /\ \/ /\ call[g].stopped
             /\ lease[l].state # "QUARANTINED"
             /\ exec' = Updated(t, "STOPPED", TRUE)
             /\ lease' = GivenBack(l)
          \/ /\ ~call[g].stopped
             /\ Held(l) \/ lease[l].state = "QUARANTINED"
             /\ lease' = WithState(l, "QUARANTINED")
             /\ UNCHANGED exec
       /\ call' = Ended(g)
       /\ UNCHANGED <<runtime, up, nextGen>>

\* The transaction is rolled back: by a lease that refuses, by a task that cannot make
\* the transition, or because the generation is no longer current.
CommitThrows(g) ==
    /\ call[g].pc = "settled" /\ Ready(call[g].server)
    /\ call' = Ended(g)
    /\ UNCHANGED <<lease, exec, runtime, up, nextGen>>

-----------------------------------------------------------------------------
(* Requests of other processes, and crashes.                               *)

\* cancelTask: a row that is not executing is stopped on the spot and gives its HELD
\* lease back; otherwise the request is left for the executor to see.
CancelTask(t) ==
    LET idle == exec[t].phase \in {"QUEUED", "STOPPED"}
    IN /\ exec[t].phase # "none"
       /\ Served
       /\ exec' = [exec EXCEPT
             ![t].cancel = (exec[t].phase # "STOPPED" \/ exec[t].cancel),
             ![t].phase = IF idle THEN "STOPPED" ELSE exec[t].phase,
             ![t].stop = (idle \/ exec[t].stop)]
       /\ lease' = IF idle THEN GivenBack(exec[t].lease) ELSE lease
       /\ UNCHANGED <<call, runtime, up, nextGen>>

\* shutdown() asks for the cancellation of the tasks its own server is working on.
ShutdownCancel(t) ==
    /\ exec[t].phase \in {"QUEUED", "RUNNING", "QUARANTINED"}
    /\ \E g \in Gen : /\ call[g].task = t /\ call[g].pc \notin {"abandoned", "done"}
                      /\ Ready(call[g].server)
    /\ exec' = [exec EXCEPT ![t].cancel = TRUE]
    /\ UNCHANGED <<lease, call, runtime, up, nextGen>>

\* reserveTask replays a PREPARING delegation whose executor is dead.  The executor of the
\* delegation is not compared with the executor of the row.
ReclaimPrelaunch(t) ==
    /\ \/ exec[t].phase = "QUEUED"
       \/ exec[t].phase = "RUNNING" /\ exec[t].stop
    /\ Served /\ \E s \in Server : ~up[s]
    /\ exec' = Updated(t, "STOPPED", exec[t].stop)
    /\ UNCHANGED <<lease, call, runtime, up, nextGen>>

\* reserveTask replays an AUTHORIZED delegation whose executor is dead: whether it ever
\* launched is unknowable.  Again only the delegation's executor is looked at.
QuarantineUncertain(t) ==
    LET l == exec[t].lease
    IN /\ exec[t].phase # "none" /\ ~exec[t].stop
       /\ Served /\ \E s \in Server : ~up[s]
       /\ l # None => Held(l) \/ lease[l].state = "QUARANTINED"
       /\ exec' = Updated(t, "QUARANTINED", FALSE)
       /\ lease' = IF l = None THEN lease ELSE WithState(l, "QUARANTINED")
       /\ UNCHANGED <<call, runtime, up, nextGen>>

\* A native server dies.  Its runtimes go on; a later server is another element of Server.
\* Bound: one server stays up (with none left, only runtimes and leases still end).
Crash(s) ==
    /\ up[s] /\ \E r \in Server \ {s} : up[r]
    /\ up' = [up EXCEPT ![s] = FALSE]
    /\ UNCHANGED <<lease, exec, call, runtime, nextGen>>

-----------------------------------------------------------------------------
LeaseStep ==
    \/ \E a \in Agent, t \in Task, s \in Scope, l \in Lease : Acquire(a, t, s, l)
    \/ \E l \in Lease : Expire(l) \/ Release(l)
    \/ ReapExpired

QueueStep ==
    \/ \E t \in Task, s \in Server, m \in MaxConcurrency :
          \/ QueueAttempt(t, s, m)
          \/ \E l \in Lease : QueueRecovery(t, s, m, l)
    \/ Reconcile

PrelaunchStep(g) ==
    \/ PollAdmission(g)
    \/ LeaveQueue(g)
    \/ AbandonPrelaunch(g)
    \/ \E l \in Lease : AuthorizeAttempt(g, l)
    \/ AuthorizeRecovery(g)

RuntimeStep(g) ==
    \/ AssertRunning(g)
    \/ ReportRunning(g)
    \/ Launch(g)
    \/ RuntimeExit(g)
    \/ ReadBeforeStopReport(g)
    \/ ReportStopped(g)
    \/ ReportUnconfirmed(g)

EndStep(g) ==
    \/ \E stopped \in BOOLEAN : Settle(g, stopped)
    \/ Commit(g)
    \/ CommitThrows(g)

OutsideStep ==
    \/ \E t \in Task : \/ CancelTask(t) \/ ShutdownCancel(t)
                      \/ ReclaimPrelaunch(t) \/ QuarantineUncertain(t)
    \/ \E s \in Server : Crash(s)

\* Generations that have been queued.
Started == {g \in Gen : call[g].pc # "unused"}

Next ==
    \/ LeaseStep
    \/ QueueStep
    \/ \E g \in Started : PrelaunchStep(g) \/ RuntimeStep(g) \/ EndStep(g)
    \/ OutsideStep

Spec == Init /\ [][Next]_vars

\* awaitAdmission polls every 25 ms as long as its process lives, and what follows the wait is
\* straight-line code.  Nothing is assumed of the clock, of cancellations, of other requests
\* or of runtimes.
Fairness ==
    \A g \in Gen :
        /\ WF_vars(PollAdmission(g))
        /\ WF_vars(AbandonPrelaunch(g) \/ AuthorizeRecovery(g)
                      \/ \E l \in Lease : AuthorizeAttempt(g, l))

FairSpec == Spec /\ Fairness

-----------------------------------------------------------------------------
(* Properties.                                                             *)

\* What a lease allows now: a write by its holder, or by the runtime it was granted to.
Writable(l) ==
    \/ lease[l].state = "HELD"
    \/ \E g \in Gen : call[g].lease = l /\ Live(g)

SameIdentity(l, k) == lease[l].holder = lease[k].holder /\ lease[l].task = lease[k].task

\* While a runtime executes, or is cleared to, its task's row is still the row of its
\* generation, counts against the agent's slots, has no stop evidence, and is bound to the
\* lease the runtime was granted, which no clock or request has ended.  Everything that
\* keeps two writers apart rests on this one relation between the database and the world.
Fenced ==
    \A g \in Gen : Live(g) =>
        LET e == exec[call[g].task]
        IN /\ Current(g) /\ e.phase \in Occupying /\ ~e.stop
           /\ e.lease = call[g].lease /\ e.lease # None
           /\ lease[e.lease].state \in {"HELD", "LAPSED", "QUARANTINED"}

\* Two runtimes that are really executing work for different tasks and never overlap in
\* scope, whatever the clock, crashed managers and late reports have done to the rows that
\* are meant to keep them apart (types.ts:77-79, lease-manager.ts:4-9).
WritersDisjoint ==
    \A g, h \in Gen :
        g # h /\ Executing(g) /\ Executing(h) =>
            /\ call[g].task # call[h].task
            /\ ~Conflicting(ScopeOf[call[g].task], ScopeOf[call[h].task])

\* A lease that assertWritable accepts is disjoint from the scope of every runtime that is
\* executing for someone else, and from every other writable lease: the agent that edits
\* files itself under bridge_acquire_lease never meets a delegated runtime there.
LeasesExclusive ==
    \A l, k \in Lease :
        l # k /\ Writable(l) /\ Writable(k) /\ ~SameIdentity(l, k) =>
            ~Conflicting(lease[l].scope, lease[k].scope)

\* Positive stop evidence on a row is about the runtime of that row's generation: it is never
\* there while that runtime executes, so no late or foreign report frees its scope.
StopEvidenceHonest ==
    \A t \in Task : exec[t].gen # 0 /\ Executing(exec[t].gen) => ~exec[t].stop

\* Runtimes of one agent really executing in the whole workspace, those of dead managers
\* included, never exceed the limit any of their servers declared.
SharedCapacity ==
    \A g \in Gen : Executing(g) =>
        Cardinality({h \in Gen : Executing(h) /\ AgentOf[call[h].task] = AgentOf[call[g].task]})
            <= exec[call[g].task].max

InLine(g) ==
    /\ call[g].pc = "waiting" /\ up[call[g].server] /\ Current(g)
    /\ exec[call[g].task].phase = "QUEUED" /\ ~exec[call[g].task].cancel

\* Admission is first come, first served across processes: nobody is admitted past an
\* uncancelled execution of the same agent that was queued earlier and is still managed.
NoOvertaking ==
    [][\A g, h \in Gen :
          /\ g < h /\ InLine(g) /\ InLine(h)
          /\ AgentOf[call[g].task] = AgentOf[call[h].task]
          => call'[h].pc # "admitted"]_vars

\* "Dead managers cannot hold the prelaunch FIFO forever" (execution-service.ts:46): where no
\* work is ever authorized, an execution that is in line, whose own manager lives, is admitted
\* or cancelled in the end, whichever processes die in front of it.
QueueDrains == \A g \in Gen : InLine(g) ~> ~InLine(g)

\* A quarantined scope is given back only once the runtime that was granted it no longer
\* executes: not by expiry, cancellation, reaping, reconciliation or a new generation.
QuarantineOutlivesRuntime ==
    [][\A l \in Lease :
          lease[l].state = "QUARANTINED" /\ lease'[l].state # "QUARANTINED"
          => \A g \in Gen : call[g].lease = l => ~Executing(g)]_vars

\* Once an attempt is over and its row holds positive stop evidence, its scope is not
\* quarantined: "The orchestrator releases the lease after positive stop confirmation"
\* (docs/PROTOCOL.md:235).
EvidenceReleasesScope ==
    \A g \in Gen :
        LET t == call[g].task
        IN /\ call[g].pc = "done" /\ call[g].lease # None /\ call[g].saw = "none"
           /\ Current(g) /\ exec[t].lease = call[g].lease /\ exec[t].stop
           => lease[call[g].lease].state # "QUARANTINED"

\* Every behaviour is one of the abstract lock: a lease identity is granted once, only when
\* compatible with all that is granted, and what has lapsed, been released or lost its
\* runtime never becomes writable again (renew refuses "to resurrect an expired one",
\* lease-manager.ts:203).
Lock == INSTANCE ScopeLock WITH grant <-
    [l \in Lease |->
        IF Writable(l)
        THEN [phase |-> "granted", task |-> lease[l].task, holder |-> lease[l].holder,
              scope |-> lease[l].scope]
        ELSE [phase |-> IF lease[l].state = "none" THEN "unused" ELSE "over",
              task |-> None, holder |-> None, scope |-> None]]

ImplementsScopeLock == Lock!Spec

-----------------------------------------------------------------------------
(* The rest of the inductive invariant behind these properties.            *)

\* The row of a task is the one its generation queued, bound to that generation's lease.
RowsBound ==
    \A t \in Task :
        /\ exec[t].ticket < nextGen
        /\ exec[t].gen = 0 => exec[t] = NoExecRow
        /\ exec[t].gen # 0 =>
              /\ exec[t].gen < nextGen
              /\ call[exec[t].gen].task = t
              /\ exec[t].lease = call[exec[t].gen].lease
              /\ exec[t].server \in Server

\* A generation's lease covers the scope of its task's contract, for the task's agent.
CallsBound ==
    \A g \in Gen :
        /\ g >= nextGen => call[g] = NoCall /\ runtime[g] = "none"
        /\ g < nextGen => call[g].task \in Task /\ call[g].server \in Server
        /\ call[g].lease # None =>
              LET r == lease[call[g].lease]
              IN /\ r.state # "none" /\ r.task = call[g].task
                 /\ r.scope = ScopeOf[call[g].task] /\ r.holder = AgentOf[call[g].task]

\* A row that either fences its scope or refuses every callback.
Refusing(t) == ~exec[t].stop \/ exec[t].phase = "STOPPED"

\* What the progress of a coroutine says of its runtime.  The last part is why the first
\* launch of a generation needs no second check: its row lost the stop evidence when the
\* launch was authorized, and regains it only with the phase that refuses callbacks.
CallOrdered(g) ==
    /\ call[g].pc \in {"waiting", "abandoning", "abandoned", "admitted"} => runtime[g] = "none"
    /\ call[g].pc \in {"invoking", "settled"} => call[g].lease # None
    /\ call[g].pc = "settled" /\ call[g].stopped => ~Live(g)
    /\ call[g].saw # "none" => runtime[g] = "stopped"
    /\ call[g].pc = "invoking" /\ runtime[g] = "none" /\ Current(g) => Refusing(call[g].task)

CallsOrdered == \A g \in Gen : CallOrdered(g)

\* A lease row exists once it has been granted.
LeasesBound ==
    \A l \in Lease : lease[l].state # "none" =>
        lease[l].task \in Task /\ lease[l].holder \in Agent /\ lease[l].scope \in Scope

IInv == TypeOK /\ RowsBound /\ CallsBound /\ CallsOrdered /\ LeasesBound /\ Fenced /\ LeasesExclusive

=============================================================================
