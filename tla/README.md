# TLA+ models of the bidirectional bridge

Two coding agents, Claude and Codex, hand each other tasks through two native
MCP servers. The servers are separate processes with one SQLite database
between them, and each of them drives the runtime of its agent. This directory
holds models of what the parts promise each other, TLC configurations that check
the models on small instances, and proofs that the TLA+ proof system checks for
every instance.

Paths below leave out `src/`. CP stands for `shared/control-plane/src`, MCP for
`shared/mcp-server-core`, CL for `claude/claude-side/src`, CX for
`codex/codex-side/src`.

    tlc -workers 2 -config ScopeFencePair.cfg MCScopeFence
    tlc -workers 2 -config Runtimes.cfg MCRuntimes
    tlapm ScopeFenceProofs.tla

## 1. The system

### Components, their state and their operations

| Component | State it keeps | Operations | What makes it correct |
|---|---|---|---|
| Write-scope leases, `CP/lease-manager.ts` | `leases` rows: HELD, QUARANTINED, RELEASED, EXPIRED, a TTL | acquire, renew, release, reapExpired, quarantine, confirmStopped, assertWritable | no two parties may write one path; a lease outlives its TTL while its runtime may execute; quarantine ends on stop evidence only |
| Shared execution queue, `CP/execution-service.ts` | `executions`, one row per task: generation, phase, ticket, executor pid, stop evidence | queue, tryAdmit, update, requestCancel, reconcileExecutors, assertGeneration, assertCallback | first come first served across processes; shared limit never exceeded; dead managers neither block the queue nor free what their runtime holds |
| Task service, `CP/task-service.ts` | `tasks`, `task_dependencies` | create, claim, release, addDependency, transition, block, unblock, finalizeDeliverable, retry, assertRecoverable, beginRecovery | legal moves only; no dependency circle; verdicts are final; owner and state agree |
| Deliverables and checks, `CP/deliverable-service.ts` | `deliverables`, `verifications` | recordVerification, submit | COMPLETE only on a passing check of the same attempt, with none failing |
| Attempts, `CP/attempt-service.ts` | `task_attempts`, session handles, observations and their telemetry | start, startResumed, saveHandle, end, seal and repair of a receipt | one row per attempt number; what an attempt ended with stays; a receipt says what the telemetry row says |
| Orchestrator, `CP/orchestrator.ts` | the coroutines in memory, `activeDelegations`, `activeRecoveries` | delegate, runReady, continueTask, resumeAuthorizedTask, runAttempt, awaitAdmission, performInvocation, reportRuntimeState, prepareRecovery, executeRecovery, replayRecovery, cancelTask, shutdown | a runtime is launched only behind its fence; its end is committed once; no retry or recovery runs over a verdict |
| Delegation operations, `CP/delegation-operation.ts` | `delegation_operations` | reserveTask, authorize, wait, finish | one runtime at a time and one outcome per key, across replays and crashes |
| Startup recovery, `CP/control-plane.ts` | - | recover | reconciles what dead processes left |
| Idempotency, `CP/idempotency.ts` | `idempotency` | runIdempotent | one effect per key; another request under the same key is refused |
| Shared memory, `CP/memory-service.ts` | `memory_notes` revisions, the event head | upsert, getContext, getChanges | no lost update; pages that miss nothing |
| Artifacts, `CP/artifact-registry.ts` | files named by hash | publish, open, verify | content matches its hash |
| Store, `CP/store/` | the database | transaction, savepoints, mapping of rows | BEGIN IMMEDIATE transactions are serial |
| MCP tools and server, `MCP/src/tools.ts`, `server.ts`, `lifecycle.ts` | - | the `bridge_*` tools, shutdown | the calls above and no others |
| Tracking, `MCP/src/tracking*.ts`, `MCP/ui/` | views in a sidecar database, pinned to a run or following the latest; a poller and a snapshot in the browser | open, bind, read, followRun, close; poll, accept, hide | a picked run stays shown, a visible widget catches up, a closed one asks nothing more |
| Claude adapter, `CL/adapters/claude-adapter.ts` | slots and their queue, invocations by task, uncertain stops | invoke, cancel, dispose | slots are neither lost nor given twice; a task is never run beside a process that may be alive |
| Claude Code runner, `CL/adapters/claude-code-runner.ts` | one process group per run | run, stop, ensureProcessTreeStopped | "stopped" means the group is gone; no result that was written is lost |
| Codex app-server client, `CX/codex-app-server-client.ts` | child process, catalog, threads, turns, their usage and waiters | start, reply, close and the handlers of notifications | "stopped" only on the end of that turn; one open turn per thread; tokens add up |
| Codex adapter, `CX/codex-adapter.ts` | a replay cache by key, executions by task, a semaphore | invoke, cancel, dispose | one execution per key and task; the last report about a live turn is not "stopped" |
| Codex MCP client, `CX/codex-mcp-client.ts` | one shared connection, resumed children | start, reply, close | close leaves no process behind |
| Work sessions, `CL/work-session.ts` | the leases a session believes it holds | beginWork, block, complete, abandon, releaseAll | what a session started is its own while it holds the lease |
| Web audit, `shared/web-audit/src/` | an offline ledger | validate, plan, replay | independent of the bridge |
| Protocol, `shared/protocol/src/` | - | state machine, scope overlap, schemas, ids | overlap is never missed |

`PROJECT.json` lists every component with its files and how far it is modelled.

### How they interact

A tool call or a delegation is a JavaScript coroutine in one of the server
processes. It works in SQLite transactions (`BEGIN IMMEDIATE`; an inner
`transaction` is a savepoint), so what one coroutine does is atomic up to the
end of a transaction, and between two of them everything else may happen: the
other process's transactions, the clock, the runtime, and, where there is an
`await`, other coroutines of the same process. A delegated task goes through

1. `delegateOnce`: reserve the operation under its key, create the task,
2. `runAttempt`, first transaction: claim the task, queue its execution,
3. `awaitAdmission`: poll `tryAdmit` every 25 ms until a slot is granted,
4. `runAttempt`, second transaction: acquire the scope, start the task and the
   attempt, bind the lease to the row and withdraw its stop evidence,
5. `performInvocation`: the adapter of the agent launches a runtime - a process
   group for Claude, a turn of an app-server for Codex - which itself calls
   tools of the bridge; the adapter reports "running", "stopped" or
   "unconfirmed", and returns,
6. the final transaction: deliverable or failure, attempt, execution and lease,
7. back to 2 after a retryable error, within `max_attempts`; else the outcome
   of the operation is recorded, and every call under its key is answered.

A recovery (`prepareRecovery`, `executeRecovery`) takes the place of 2-4 for a
task that has a session handle. Any process reconciles the rows of processes
that no longer exist. Agents may also take part by themselves (work sessions),
share notes, and be watched from a widget.

### What is hard here

- A transaction cannot read whether a runtime executes. The database has rows
  about it (phase, stop evidence, lease), and reports about it may be late,
  missing, or about a generation that has been replaced. The reports are made by
  adapters that do not know it for certain either: an interrupt is acknowledged
  before the turn ends, a process exits before its children.
- TTLs pass at any time, and a live runtime must keep its scope nevertheless.
- A manager dies between any two transactions; its runtime goes on.
- Decisions are read in one transaction and acted on in another: the retry, the
  report of a stop, the replay of a delegation, a repair of telemetry.
- Both agents use tools on a task that a runtime is working on.
- Inside a process, a deadline, an abort, a disposal and the event that all of
  them wait for may come in one turn of the event loop, in any order.

The `hazards` of `PROJECT.json` list these at their lines, with the properties
that cover them or why none does.

## 2. The modules

| Module | What it is |
|---|---|
| `ScopeFence` | leases, executions and runtimes of several server processes |
| `ScopeLock` | the abstract lock: a lease identity is unused, granted, over |
| `TaskLifecycle` | tasks, dependencies, evidence, deliverables, attempts and the delegations that move them |
| `DelegationKeys` | one delegation key: calls that share, wait for, replay or take over one operation |
| `RecoveryRequests` | requests to recover one stranded task: who may, reservation, replay, closing |
| `AttemptRecords` | session handles, telemetry rows and receipts of a task's attempts |
| `WorkSessions` | sessions that claim tasks and lease scopes by themselves |
| `Idempotency` | `runIdempotent` |
| `SharedMemory` | notes, their revisions, and readers by pages |
| `ClaudeRuns` | the Claude adapter over the Claude Code runner |
| `ProcessTree` | whether a process and what it started are gone, on POSIX and on Windows |
| `CodexTurns` | the app-server client: connection, threads, turns |
| `CodexAdapter` | the Codex adapter over a client |
| `CodexMcp` | the MCP client |
| `TrackingView` | one view of delegation tracking and the widget that watches it |
| `MCScopeFence`, `MCTaskLifecycle`, `MCCodexTurns`, `MCClaudeRuns` | small instances of one component |
| `Runtimes`, `Records` | six components each, of which one is at work; the properties of the two big runs |
| `MCRuntimes`, `MCRecords` | a small instance of each |
| `ScopeFenceProofs` | theorems about `ScopeFence`: leases, the queue, the refinement of `ScopeLock` |
| `TaskLifecycleProofs`, `DelegationKeysProofs`, `RecoveryRequestsProofs`, `CodexTurnsProofs`, `ClaudeRunsProofs` | theorems about the module they are named after |
| `RecordsProofs`, `RuntimesProofs` | theorems about the composites: what holds of `SharedMemory`, `AttemptRecords`, `WorkSessions`, `ProcessTree`, `Idempotency`, `CodexAdapter`, `CodexMcp`, `TrackingView` is proved there, what was proved of the others is carried over |

The modules divide one system by the question asked, and each leaves free what
another one decides, so that a safety property that holds in one holds of the
code:

- `ScopeFence` has processes, crashes, generations, tickets and leases, and leaves
  out what a task row says: where a handler also moves a task, its commit and its
  rollback are both possible. `TaskLifecycle` has the rows of a task and every
  transaction that writes them, and leaves out slots and leases: admission,
  contention, and a lease that refuses the final transaction, are free choices.
- `DelegationKeys` and `RecoveryRequests` have the rows of one operation and one
  reservation together with one task, row and lease, and take the rest of both as
  free choices. They ask what `TaskLifecycle` cannot: what repeated calls are told,
  and what is left when a step fails.
- `ScopeFence` takes the order of reports as given: "stopped" only of a runtime that
  has ended. `ClaudeRuns`, `CodexTurns` and `CodexAdapter` are where that is shown
  (`StopReportHonest`, three times, each over what the layer below may do), and
  `ProcessTree` is what "ended" rests on for a process.

In the same way `CodexAdapter` takes its client to answer every turn, which
`CodexTurns` shows (`AtRest`), and `ClaudeRuns` takes a check of a process group to
say TRUE only of one that is gone. On POSIX that is `StopProofSound` of `ProcessTree`; on
Windows it is so but for the exception of that property, so the stop reports of `ClaudeRuns` there
are no better than the check.

### ScopeFence

| Variable | Code |
|---|---|
| `lease[l]` | the row of lease `l`. `HELD` splits at `expires_at` into `HELD` and `LAPSED`; `RELEASED` and `EXPIRED`, which no handler tells apart, are `ENDED` |
| `exec[t]` | the execution row of task `t`; generations are numbers because they are fresh UUIDs |
| `call[g]` | the coroutine that manages generation `g`: where it is, its captured lease, its `stopped` verdict, and the phase it read before its stop report (`saw`) |
| `runtime[g]` | what the process or turn of generation `g` is really doing |
| `up[s]` | whether executor process `s` exists (`processAlive`) |
| `nextGen` | the next fresh generation |

The actions follow the transactions. Two handlers are two actions because the
code has two transactions without an `await` between them: `AssertRunning` and
`ReportRunning` (`reportRuntimeState("running")`, `orchestrator.ts:1207-1210`),
`ReadBeforeStopReport` and `ReportStopped` (`orchestrator.ts:1207-1216`). Other
processes, the clock and runtimes come between, other handlers of the same
process do not: that is `Ready`. `Reconcile` and `PollAdmission` share
`Reconciled`, because `tryAdmit` reconciles its agent's rows in its own transaction,
whether it admits or not. `ReclaimPrelaunch` and `QuarantineUncertain` are the two
replies of `reserveTask` to the replay of a dead process's delegation; the code
compares the executor of the operation and not of the row, and so does the model.

`ScopeLock` says what a lease is for in three phases. The refinement mapping
calls a lease granted while its holder may write under it or a runtime launched
under it executes.

### TaskLifecycle

| Variable | Code |
|---|---|
| `task`, `deps` | `tasks`: state, owner, attempt number, whether a blocker is set; the dependency edges |
| `verification[t][k]` | for attempt `k`, the latest verdict of each check |
| `deliverable`, `att` | the deliverable of a task; its attempts: open or ended, agent, handle, whether its end may be resumed |
| `exec` | phase, agent, attempt number, stop evidence and cancellation of the execution row |
| `call[t]` | the coroutine of the current generation. One that was replaced can do nothing (`assertGeneration`), so it is forgotten |
| `loop[t]` | `delegateOnce`: where it is, its attempt number and limit, whether a launch was authorized |

Tools that an agent calls (`AgentStep`) run at any moment, also during an
invocation, which is what a runtime does with the callbacks it is given. An
error that ends an attempt keeps what `retryable` (`errors.ts`) and
`assertRecoverable` tell apart (`Fault`). `Reaches` is the reachability of
`TaskService.reaches` written as a quantifier over closed sets, so that the
theorems can use it without recursion. The two decisions of a retry are two
actions, `DecideRetry` and `Retry`, since the code decides on rows it has read and
then opens a transaction that looks at less.

### Operations and records

| Module | State | An action is | Left out |
|---|---|---|---|
| `DelegationKeys` | `operation`, `task`, `row`, `lease`: the rows; `active[s]`: `activeDelegations` of a server; `pc`, `gen`, `tries`, `ended`, `answer`: a call; `live`: generations at work; `up`; `mishaps`: history, whether `reapExpired` quarantined a lease under an execution and whether the store failed | a transaction of `delegate`, `reserveTask`, `wait` (one poll), an attempt, `finish`; a crash; a cancellation; a reconciliation; the end of a lease (`Reap`); a stop reported after the attempt (`LateStop`); a transaction of the attempt that the store refuses (`StoreFails`) | the contents of a task, slots; a store that fails outside an attempt; adapters that report "running" or "unconfirmed", which `ScopeFence` has |
| `RecoveryRequests` | `lineage`, `task`, `attempt`, `att`, `row`; `kept[k]`: the reservation under a key; `lease`; `hand[p]`: `activeRecoveries`; `launches`, `told`: history | a request (authorized, reserved or replayed), admission, authorization, the end of the attempt, a cancellation, a crash | how a lineage came to be: it is drawn from `Lineages` |
| `AttemptRecords` | `attempt`, `strict`; `prepared`: a delegation that may still be launched; `runner`: the execution row; `att`, `receipt`, `sealed`: the three tables; `rerun`: history, attempts started again after their end | start, retry, resumption, save a handle, end with a draft and its seal, a seal that fails, a repair | counts of tokens: a row has usage or not |
| `WorkSessions` | `state`, `owner`, `lease`: the database; `held[s]`, `begin[s]`: the fields of a session and the step of its `beginWork`; `up` | one transaction of a session's operation, a refusal, an expiry, a crash | tools of other agents on the same tasks: `TaskLifecycle` |
| `Idempotency` | `rows`; `applied`: mutations in the database; `pc`, `answer` of a call | the lookup, the transaction that looks again, a mutation that throws, a repeated call | the hash: a request is its identity |
| `SharedMemory` | `notes`, `head`, `cache`; `request`, `told` of an agent; `mirror`, `scan`: readers by pages | an upsert, a page of changes, a page of context, an event of anything else | text: a note is the set of contributions merged into it |

### Runtimes

JavaScript runs to completion, so an action is what one event sets off up to the
next `await`: where the code has several statements between two of them they are one
step, and where it awaits a callback anything else may come.

| Module | State | Environment |
|---|---|---|
| `CodexTurns` | the fields of the client under their names (`activeTurns`, `callbacks`, `unconfirmedThreads`, `completedTurns`, `usageByTurn`, `turnWaiters`, `usageTimers`, `stopWaiters`, `retiredTurns`); `pc`, `sure`, `report`, `outcome`, `spent` of a call | `turnAt`, `status`, `emitted`, `startedSeen`, `endSeen`, `procOf`: a turn at the server and how far its notifications were read. The server may answer, refuse, be silent, exit, or write a malformed frame |
| `CodexAdapter` | `runs`, `settled`, `from`: the replay cache; `activeByTask`, `active`, `waiters`, `held`: the semaphore; `mode`, `launched`, `confirmed`, `explicit`, `repairs` of an execution | `runtime`: the turn behind a call. A client returns, fails with or without saying that its turn stopped, or finds its thread stale; the turns of calls in `Silent` report no states. `Confirming` is `supportsStopConfirmation` |
| `CodexMcp` | `closed`, `state`, `connecting`: the fields; `at`, `on`, `opener`, `timedOut`, `outcome` of a call; `closing`, `pending`: `close()` | `conn[k]`: server processes; `child[c]`: the process of a resumed call; `miss`: sessions the server forgot |
| `ClaudeRuns` | `invocations`, `active`, `pending`, `uncertainStops`, `disposal`, `cancelling`: the adapter; `closed`, `tree`, `stopping`, `killedForCancel`, `killedForDeadline`, `termination`: a run | `proc`: live, exited with children left (`orphans`), or gone; `wrote`, `handled`: frames |
| `ProcessTree` | `seen`: the process table that was awaited (`Look`) and is then judged by what is known of the child by now (`Judge`); `known`, `targets`, `rootSeen`, `closedAt`, `verdict`: the other locals of the check | `row[p]`: who has pid `p`, its parent and the time it was created; anything may start, end and reuse a pid between a snapshot and a kill |
| `TrackingView` | `view`: the sidecar's row; `poller`, `ui`: the fields of the widget; `read`, `bind`, `closing`: requests in flight | `db`: roots and events of the bridge database, which may be replaced; `moves`: acts of the user, the host or the network |

### The two composites

`Runtimes` and `Records` are made of six components each. These share no state: a
behaviour is one of the component that `part` names, and the variables of the others are
None throughout. Components that name a variable alike share its name, and its meaning is
that of the one at work. Every parameter of a component is a constant of the composite, so
`MCRuntimes` and `MCRecords` only choose values, and what is proved of a composite is proved
for all of them. `RuntimesAssumption` and `RecordsAssumption` say of the constants what each
module's `Sane` says.

Each of the two runs asks one question of components of one kind: of those that drive or
follow something outside the database, whether everything that was started is settled, once,
and answered alike (`EverythingSettles` and the invariants around it); of those that keep
records, whether the records and proofs are true whatever fails between two steps. A
property named in a run is the one of the component's module, under the condition that it is
the component's part.

## 3. What the runs check

| Run | Instance | Shows |
|---|---|---|
| `pair` | 2 agents, a task each with overlapping scopes, 2 servers, 2 generations, 2 leases | `WritersDisjoint`, `LeasesExclusive`, `StopEvidenceHonest`, `Fenced`, `QuarantineOutlivesRuntime` through every order of expiry, crash, reconciliation, cancellation, replay and report |
| `manual` | the same with leases acquired by hand, 1 generation, 3 leases | `ImplementsScopeLock`: no lease is granted against a writer, a live runtime or itself |
| `slots` | 1 agent, interchangeable tasks, servers that declare a limit of 1 or 2 | `SharedCapacity`: runtimes that execute, those of dead managers included, within every declared limit |
| `drain` | the queue of one agent, 2 tasks, 3 generations, no lease to launch under | `NoOvertaking`; `QueueDrains` under fair polling |
| `repair` | `pair` with an adapter that opens a second turn | **violated**: `WritersDisjoint` |
| `attempts` | 1 task with a check, delegated, 2 attempt numbers | `CompleteIsFinal` through tools, delegation, recovery, cancellation and crashes |
| `retries` | 1 task, 2 agents, 1 retry | `VerdictsStand`, `CancelledOnEvidence` |
| `dependencies` | 3 tasks, all states, edges at creation and later | `NoDependencyDeadlock` |
| `turns` | a strict start and a reply on its thread, 2 processes | `StopReportHonest`, `OutcomeHonest`, `OneOpenTurn` through responses, notifications, timers, aborts, exits and malformed frames in every order |
| `claude` | 3 invocations of 2 tasks for 1 slot and 1 place in the queue | `SlotsConserved`, `StopReportHonest`, `OneRuntimePerTask`, `OutcomeMatchesRun`, `DisposeLeavesNothing` |
| `runtimes` | six parts: a strict turn of up to 3 model calls; 2 Claude tasks for one slot; 3 calls of the Codex adapter, two of them one request; 3 calls of the MCP client over 2 connections; 4 calls of one key on 2 servers that may die, 2 attempts; a widget over 2 roots | `EverythingSettles` under the fairness below; `UsageAddsUp`; `StopReportHonest` and `OneExecution` of the Codex adapter; `CloseLeavesNoRuntime`; `OneRuntimePerKey`, `AnswersAgree`, `SlotComesBack`; `PinnedIsShown` |
| `records` | six parts: notes of 2 agents on 2 keys, 3 events; recoveries of one task on 3 servers, two of them of one agent; 2 attempts with 3 handles, one unsafe, with a delegation that may be launched after a resumption; 3 sessions, 2 overlapping tasks, one depending on the other; trees of 3 pids on both platforms; 4 idempotent calls on 2 keys | `NothingLost`, `PagesComplete`; `NeverRelaunched`, `OneVerdict`, `AbandonedIsClosable`; `ReceiptsTrue`, `EndedForGood`; `StartedIsKept`; `StopProofSound`; `AnswersTrue` |

`AnswersTrue` of `records` is `AppliedOnce` and `AnswersTrue` of `Idempotency`. For
every property of a passing run some module has a seeded bug (the definitions commented
so), the definition of the code with one plausible mistake: put in its place, it makes TLC
find the property violated.

Each module of a component has one type invariant where its variables have types to speak
of. Those of the modules with theorems are proved, in the form the invariant needs; all of
them hold on the instances above.

### Findings

One run is expected to be violated. The others below are cases where the code does
something else than a document or a comment says; each is stated as an operator in
its module, named here, or as an exception a property makes.

- `repair` (code bug). `reportRuntimeState("running")` checks the lease and withdraws
  the stop evidence in two transactions. For a first launch nothing can come
  between, because the row already lost its evidence in step 4; the proof rests on
  that. A repair turn starts from a row that has just reported its stop: between
  the two transactions another process may be granted the scope.
- `EvidenceReleasesScope` of `ScopeFence`. A lease that `reapExpired` quarantines under
  a RUNNING row stays quarantined after positive stop evidence.
- `DoneIsVerified` of `TaskLifecycle`. `bridge_set_state` takes a task over VERIFYING to
  DONE without a check.
- `DependencyGate` of `TaskLifecycle`. A COMPLETE deliverable submitted from BLOCKED
  passes WORKING without a look at the dependencies.
- The first exception of `SlotComesBack` (code bug). A cancellation accepted while the task
  is VERIFYING makes the final transaction throw: row, slot and lease stay. The second is
  `EvidenceReleasesScope` seen from the operation, which is then finished over a RUNNING row;
  the third, a store that fails in the final transaction, is nobody's mistake.
- The exception of `ReceiptsTrue` and `EndedForGood` (code bug). A delegation that died
  before its launch may be repeated after a recovery has closed the current attempt. It is
  launched in that attempt: `start`, `saveHandle` and the final transaction do not ask whether the
  attempt has ended, so its handle may be replaced and its sealed receipt is overwritten.
- The exception of `StopProofSound` (code bug), on Windows. The process table is awaited and the
  state of the child read after it; what the child starts in between, before it exits, is
  in no table when the stop is taken for proved.
- The exception of `AbandonedIsClosable`. The cleanup of a recovery of a BLOCKED task
  that is refused after admission blocks the task again, which is no legal move; the
  whole cleanup is rolled back.
- The exception of `AtRest` in `CodexTurns` (code bug). When the process is lost while
  a completed turn waits for its usage only, the recorded completion is forgotten and the
  thread stays locked.
- `StrangersSpared` of `ProcessTree`. On Windows the pids of a snapshot are killed one
  after the other; a pid freed by the first kill may belong to a stranger by then.
- `FailedStartLeavesNothing` of `WorkSessions`. `beginWork` does not undo its claim and
  lease when the dependency gate refuses the task.
- `Unheard` of `TrackingView`. A pin the widget did not hear of leaves it on the former run
  for good; the instance has `Unheard = FALSE`.
- `tracking.ts:151` (code bug). The UPDATE of a read does not repeat the condition it was
  decided on; a pin in between is overwritten.
- `bridge-server.ts:186`. `--runtime-transport mcp` runs the app-server client under the
  name of the MCP one.

### Bounds, and why they are enough

- `MaxGen` of `ScopeFence` (2; 3 in `drain`, 1 in `manual`): generations ever queued.
  Fences are between two writers: either two tasks once each, or one task whose first
  generation is replaced by a second. A third waiting execution matters for order in the
  queue only. With leases by hand one runtime meets two other leases.
- `Lease` (2 or 3 identities): one per generation, and one for an agent's own.
- `Server` (2): the manager that dies and the one that goes on. One always stays
  up; after the last crash only runtimes and the clock still move.
- `QueueLimit` is the code's 64, out of reach on purpose, except for `drain`, which has
  2.
- `MaxAttempt` (1): attempts 0 and 1, so that one retry or one recovery happens and
  what is late from attempt 0 meets attempt 1. `Retries` is 0 or 1.
- `Check` (1, or none where evidence is not the question): evidence is judged by
  whether some check passed and none failed. Two attempts of one check already differ.
- `Delegated`: tasks that are ever delegated. `dependencies` has none: delegation adds no
  edge, and `SetState` and `Submit` already move tasks through their states there.
- `MaxSpawn` (2) and `MaxTotal` (1, 3 in `runtimes`): one process that is lost and its
  successor; model calls of a turn, three so that usage comes before, between and after the
  rest. `Limit` and `MaxPending` (1) of both adapters: one runs, one waits, a third is
  refused. `Frames` (1): a result is written or not. `MaxEntries` (1) and `Repairs` (1)
  of the Codex adapter: the cache overflows with the second key.
- `Conns` (2): a dropped connection and the next. `MaxAttempts` (2) of `DelegationKeys`,
  `MaxGen` (2) of `RecoveryRequests`: one is replaced by another.
- `MaxRuns`, `MaxEvents`, `MaxMoves` (2) of `TrackingView`: the former and the next run, one
  page that is late and one that is newer, two acts that cross. `MaxEvents` (3) of
  `SharedMemory`: two revisions and one change between two pages; `Limit` 2 cuts pages.
- `MaxLeases` (2) of `WorkSessions`; `MaxBorn` (4) of `ProcessTree`: the child, a tool, and
  two that reuse a pid.
- `TidyTools` of `ProcessTree` (TRUE): a tool that ends by itself outlives what it started,
  and the used pid of the child is not reused at once. Without it no sequence of snapshots
  can know every descendant: a process whose parent is gone before either was seen names no
  ancestor that is known.
- Symmetry is over servers and leases, over tasks where they are interchangeable, and
  over the agents, sessions and servers `Alike` names in `records`; it is used for safety
  properties only (invariants, properties of a step, the refinement), whose formula is
  itself symmetric; never for liveness.

- What an instance leaves to the theorem: `runtimes` has one strict call of `CodexTurns`
  (`UsageAddsUp` holds for the other modes by `UsageAddsUpAlways`), and in its calls of the Codex
  adapter a key has one body and one task, so that a key asked with another body and a task asked
  under another key are `OneExecutionAlways`. `Confirming` is TRUE. With `Unheard = FALSE`
  `PinnedIsShown` and `EverythingSettles` are about widgets that hear of each pick.
- Assumed of the environment: no client of `CodexAdapter` calls a thread stale while its turn is
  at work (`ReplaceStale` follows the text of the error, whatever state was reported); the
  state of the database, the process table and a group is read as it is at one moment.

Deadlock is not checked: with bounded generations, attempts and calls, the system
does stop when all of them are finished.

### Fairness

All fairness is weak, and none is assumed of a runtime, a server, a caller, a crash,
a cancellation or a clock that ends a lease.

- `drain`: `awaitAdmission` polls every 25 ms while its process lives, and what follows
  admission is straight-line code in the same coroutine: `PollAdmission(g)` and the step
  after it. The instance has no lease to grant, so every admitted execution is given up: a
  runtime may execute for as long as it likes and holds its slot while it does, and what
  `QueueDrains` asks is that nothing else ever does.
- `CodexTurns`: settled promises are continued (`Continue`, `EnterTurn`, `LaunchTurn`),
  timers fire (`Timer`), a connect ends with a connection or an error, the catalog is read
  or its request times out, and what a live process has written is read (`TurnStarted`,
  `TurnCompleted`). That a turn ends is not assumed.
- `ClaudeRuns`: the same for promises (`Advance`), a check of a group ends in bounded time
  (`Checked`), deadlines and the time limit of a cancellation pass (`Expire`, `CancelTimer`),
  and whoever waits for them goes on (`Cancelled`, `Disposed`).
- `CodexAdapter`: promises are continued, a client answers every turn it was asked for.
- `CodexMcp`: requests, connects and resumptions have deadlines; a killed child ends;
  closing a client of the SDK returns.
- `DelegationKeys`: polls and deadlines come, so a wait, an admission and an invocation end.
- `TrackingView`: timers fire, the server answers, answers arrive; each loss is one of
  `MaxMoves`.

## 4. What is proved

Every safety property of a passing run is stated by a theorem. The theorems hold for all
values of the constants that satisfy the assumption of the module: `FenceAssumption`,
`TaskAssumption`, `CodexAssumption`, `ClaudeAssumption`, `RecordsAssumption`,
`RuntimesAssumption`, or `Sane` where a module is part of a composite. They say no more than
that functions have the domain they are used with, that bounds are numbers, a limit of slots at
least one, and that `None` is nobody's name. Some theorems need more, and say so: those about `ScopeFence` that adapters
open no second turn, `StopProofIsSound` that tools are tidy, `PinnedIsShownAlways` that the
widget hears of each pick. In all three cases TLC has the counterexample without.
`StopReportHonest` of `CodexAdapter` is about clients with `Confirming`, which both clients of
the bridge are; the invariant behind it and the other theorems about the adapter hold of
older ones too. An older client that fails without a word on its turn is reported stopped by
design: such clients promise that nothing is at work once their promise settles
(`orchestrator.ts:423`), so that the model, whose environment breaks that promise, says nothing
against the code.

### ScopeFence, when adapters launch one runtime per generation

Every theorem has the assumption `RepairAgents = {}`. It is needed: `repair` is the
counterexample without it.

| Theorem | Property |
|---|---|
| `TypeCorrect` | `TypeOK` |
| `RuntimesFenced` | `Fenced` |
| `ExclusiveLeases` | `LeasesExclusive` |
| `DisjointWriters` | `WritersDisjoint` |
| `HonestStopEvidence` | `StopEvidenceHonest` |
| `QuarantineLifted` | `QuarantineOutlivesRuntime` |
| `CapacityShared` | `SharedCapacity` |
| `FirstComeFirstServed` | `NoOvertaking` |
| `LockImplemented` | `ImplementsScopeLock` |

All rest on `Invariance`, `Spec => []IInv`. `Fenced` relates the world to the database:
while a runtime executes or has just been cleared to, its row is its own, counted
and without stop evidence, and bound to a lease nothing has ended. It is not inductive.
`ReportRunning` makes a runtime execute on the strength of an earlier check; that the
row still has no stop evidence then follows from `CallsOrdered`: a row loses its evidence
before the first launch and regains it only together with a phase that refuses
callbacks. And the reports of every other coroutine leave this row alone because of
`RowsBound` and `CallsBound`: row, generation and lease name each other.
`LeasesExclusive` then needs one look at each grant: whatever somebody may write under
is live for `findConflicts` (`WritableLive`). The properties up to `QuarantineLifted`
follow from `IInv` without another induction.

The queue needs one. `SharedCapacity` counts runtimes, the code counts rows, and a
runtime is launched long after it was counted; so `SlotsCounted` says of everybody who
may still come to execute (`Claims`: cleared, or admitted and not yet launched with a
RUNNING row) that they are no more than any of their rows allows. A quiet step gives
nobody a claim (`QuietStep`); admission, the only other one, adds one claim to at most
as many occupying rows as it has just counted below its own limit and those of all
occupying rows. `NoOvertaking` follows from two parts of the same invariant: tickets order
rows as generations do (`TicketsOrdered`; `FreshTicket` is above all of them), and a row
names the server that manages it (`RowsManaged`), so that nobody in line is taken for the
orphan of a dead manager.

For the refinement the steps fall in two kinds. Those that grant - `Acquire` and a
reservation for a recovery - take one unused lease apart from every granted one, by
`LeasesExclusive` before and after. All others leave every lease as granted as it was
or end some (`GrantsNothing`): a runtime is cleared only under a lease that is still
held (`Within`), and a lease that is over is never used again.

### TaskLifecycle

| Theorem | Property |
|---|---|
| `TypeCorrect` | `TypeOK` |
| `DependenciesAcyclic` | `NoDependencyDeadlock` |
| `CompleteStaysFinal` | `CompleteIsFinal` |
| `NoStaleBlocker` | `FinishedCarriesNoBlocker` |
| `OwnedOrPending` | `OwnedUnlessPending` |
| `VerdictsKept` | `VerdictsStand` |
| `CancelledWithEvidence` | `CancelledOnEvidence` |

Again one induction (`Invariance`), most of it about single rows: `GoodRow` is what the
invariants say of a row, `Stands` what a step may not do to one with a verdict, and
each operation writes a good row that stands. Two parts need more. For the
dependencies: a new task is a dependency of nobody; a new edge leads out of `t` into the
tasks that `d` reaches, a closed set without `t`, so a set that meets it has its minimum
there, and for another the edge does not count. And `ManagedRowNamesAgent`: a coroutine
cancels the task whose owner is the agent of its row, which must not hold because both
are null; `OwnedUnlessPending` is not inductive without it. `FinishedCarriesNoBlocker` and
`OwnedUnlessPending` are proved and no longer run: the theorems cover them for every
instance.

### DelegationKeys

| Theorem | Property |
|---|---|
| `OneRuntimeAlways` | `OneRuntimePerKey` |
| `AnswersAgreeAlways` | `AnswersAgree` |
| `SlotComesBackAlways` | `SlotComesBack` |

The operation row names the server that executes it and not the call, so that two calls
could take themselves for the executor. `Owned` is why they do not: who is past its
reservation is the active delegation of a living server, that server is the executor,
there is no outcome yet, and a living executor has such a call, which a repeated
delegation joins. Only a dead executor is taken over, and only while the operation is
PREPARING; then nothing was launched (`Unlaunched`), since the attempt that withdraws the
stop evidence of its row authorizes the operation in the same transaction. Hence
whatever executes is the generation of the row (`LiveRow`), and an outcome is written
once. `SlotComesBack` asks of an operation with an outcome what `FreeWhenFailed` says of
its owner one step before: that its last attempt has ended with a STOPPED row and no live
lease when there is stop evidence, but for the cancellation of a task that is VERIFYING, a lease
that was quarantined under the running row, and a store that failed. `mishaps` is history for
the last two; `Staged` says that only `reapExpired` quarantines the lease of a runtime whose
server is still waiting for it.

### RecoveryRequests

| Theorem | Property |
|---|---|
| `NeverRelaunchedAlways` | `NeverRelaunched` |
| `OneVerdictAlways` | `OneVerdict` |
| `AbandonedIsClosableAlways` | `AbandonedIsClosable` |

The generation of a reservation ties its key, its execution and its row together
(`Bound`). An execution may outlive its row: a reconciliation of nobody's row, another
reservation, a cancellation. `Owning` says what is left of the row as long as it has the
generation of the execution - a cancellation before the launch stops it for good, with the
task, and only then may another request close the reservation - and `Current` is the
check that keeps every later step to that case. Hence a launch happens under a key in
preparation, of which nothing was told (`KeyOk`), and is the adjacent attempt, which is
new; its attempt is open until the execution itself settles it or the next reservation
interrupts it, so that all answers are one. The exception in `AbandonedIsClosable` is
exactly the branch of `Abandon` whose transaction fails.

### CodexTurns

| Theorem | Property |
|---|---|
| `StopReportsHonest` | `StopReportHonest` |
| `OutcomesHonest` | `OutcomeHonest` |
| `OneOpenTurnAlways` | `OneOpenTurn` |

A thread belongs to the call whose callback it has, from the moment the call takes it until
the stop of its turn is known. `Holding` says that a turn which is at work, or has ended
unused, holds its thread, whatever has become of its call; `Threading` that a thread never
names a turn but that of the call it belongs to. So two turns at work on one thread would
be one, the end of a turn can only report its own call, and what is recorded as
evidence is recorded of a turn that has ended (`Evidence`). `GivenUp` is needed for the
thread that a late end frees: nobody who could free it once more is left. Most steps do
nothing but move calls on and are proved at once (`MoveKeeps`).

`UsageAddsUpAlways` needs the books as well (`Booked`): until a turn is answered, what is
counted of it is what its server has sent, one model call at a time, and nobody has been
told anything; the call that answers takes the count, and a strict call only a count that is
not zero, for the timer that ends the wait for usage is never set for one.

### ClaudeRuns

| Theorem | Property |
|---|---|
| `SlotsAreConserved` | `SlotsConserved` |
| `StopReportsAreHonest` | `StopReportHonest` |
| `OneRuntime` | `OneRuntimePerTask` |
| `OutcomesMatch` | `OutcomeMatchesRun` |
| `DisposalIsComplete` | `DisposeLeavesNothing` |

The counter `active` is the number of those who hold a slot (`Slots`), a slot that is given
back while somebody waits is never free in between, and nobody waits twice, so that an abort
or a deadline that takes one waiter out of the queue takes out no other. `Run` says of
each step of an invocation what is known of its process there: no process before the spawn,
none left of the group where a check has said so, and after the return of an invocation
whose process may live its task in `uncertainStops`, which is what refuses the next one.
`OneRuntimePerTask` is needed to preserve itself: an entry in `invocations` keeps a second
invocation of a task out, and only the end of the first, or the mark, replaces it.

### Records

| Theorem | Property | Module |
|---|---|---|
| `NothingIsLostAlways`, `PagesAreCompleteAlways` | `NothingLost`, `PagesComplete` | `SharedMemory` |
| `NeverRelaunchedHere`, `OneVerdictHere`, `AbandonedIsClosableHere` | `NeverRelaunched`, `OneVerdict`, `AbandonedIsClosable` | `RecoveryRequests` |
| `ReceiptsAreTrueAlways`, `EndedForGoodAlways` | `ReceiptsTrue`, `EndedForGood` | `AttemptRecords` |
| `StartedIsKeptAlways` | `StartedIsKept` | `WorkSessions` |
| `StopProofIsSound` | `StopProofSound` | `ProcessTree` |
| `AnswersAreTrueAlways` | `AnswersTrue` | `Idempotency` |

A step of the composite is a step of the component at work (`Split`), and each component has
an invariant of its own.

- `MemoryInv`. That no contribution is lost needs that revisions of a key only grow
  (`Ordered`), and that what an agent is about to send was composed from one of them
  (`Composed`): a write whose expected revision is no longer the last is refused, so the body
  it carries includes all before it. That none is merged twice needs the cache of answers
  (`WrittenOnce`): the first revision that has a contribution is the one its agent was, or
  will be, answered with. `Passed` is what a reader by pages has at its cursor; an end of the
  scan is recorded only when no row is left behind it.
- `AttemptInv` relates a receipt to its telemetry row (`Honest`) through the outcomes of
  sealing: final before, recorded, refused, failed. Sealing never changes a row that is there
  and returns a final receipt as it is; where there is a row the receipt is final, unless a
  further run of the attempt has put a draft in its place. An attempt that is worked on after
  its end is such a run, so what ended stays apart from it.
- `SessionInv`. What is started leaves PENDING and CLAIMED for good, and with them the only
  moves that change an owner, so a session may be late with everything but the lease, which it
  has from before the start (`Leased`).
- `TreeInv` says where processes of the run come from (`Descended`): from the child, or from
  an older one that is still alive. So once the child has exited the oldest that is alive was
  started by the child itself; its pid starts no more of them, and what it started is older than
  its close event. A process table without the child has such a one in it (`Witness`) as long as
  any process of the run is alive when it is judged, for what was started since descends from
  what is in it; and that one is what the judgement looks for (`WitnessIsOwned`). Of a table
  with the child in it this is not so, which is the exception of `StopProofSound`.
- `OnceInv`: a row of the table stands for one applied mutation of its key, and nothing is
  applied without its row; the second lookup inside the transaction is what keeps it.

### Runtimes

| Theorem | Property | Module |
|---|---|---|
| `UsageAddsUpAlways` | `UsageAddsUp` | `CodexTurns` |
| `StopReportHonestAlways`, `OneExecutionAlways`, `AdapterSlotsConserved` | `StopReportHonest`, `OneExecution`, `SlotsConserved` of the module | `CodexAdapter` |
| `CloseLeavesNoRuntimeAlways` | `CloseLeavesNoRuntime` | `CodexMcp` |
| `OneRuntimePerKeyAlways`, `AnswersAgreeAlways`, `SlotComesBackAlways` | the same | `DelegationKeys` |
| `PinnedIsShownAlways` | `PinnedIsShown` | `TrackingView` |

- `AdapterInv`. Whoever is at work is in the replay cache and holds its task (`AtWork`): the
  cache trims settled entries only, in the order they were made, and `Kept` and `Trimmed` say
  what is left of a sequence. An invocation that finds its key shares the entry, one that
  finds its task taken is turned away. `Honest` follows one execution: evidence that a turn
  has stopped - a report, the note `confirmed`, an error that says so, a result - is recorded of
  a turn that has ended, and the next turn of the same execution, a repair or the replacement
  of a stale thread, begins only once it is withdrawn, also when a turn reports nothing. It is
  evidence of clients that confirm stops (`Confirming`); the theorem says nothing of others.
- `AdapterSlots`, for `AdapterSlotsConserved`: who has been admitted holds a slot until it
  settles, and is then not in the queue, so that the slot it gives back goes to somebody who
  has none. `SlotsConserved` of `CodexAdapter` is proved and no longer run, to the same effect
  as that of `ClaudeRuns`.
- `McpInv`. A server that comes up is the one `connecting` names, one that is up is `state`
  (`OneConnection`), and a closed client begins no other; a call that fails late drops the
  connection it used and not its successor.
- `ViewInv`. A pinned view is shown, or its answer is on its way, where what was asked before
  is of no account (`Resting`, `Underway`). `Looking` is needed for a read of two statements:
  one that looked at a view that followed cannot meet a pin of the widget's own, since its
  server serves one call at a time.

### What is only model-checked

- `QueueDrains` and `EverythingSettles`: liveness is out of the prover's reach.
- The ranges of `TypeOK` of `TrackingView` (runs and events within their bounds): its
  invariant needs the shapes of its records only.
- Behaviour with `RepairAgents # {}`.

The prover has no induction over data, and recursive operators put a module out of
its reach, so no module has any.

## 5. What is not modelled, and why

- SQL, schema migration, row decoding, JSON schemas, stdio and HTTP transport,
  prompts, the parsing of runtime output, diagnostics, entry points, packaging and
  certification: I/O, data layout or wording.
- `renew` changes the TTL of a lease that has one to run, and so changes nothing at
  the level of `HELD` and `LAPSED`.
- `runReady` starts delegations that are modelled; the events and reports it and others
  write are not state anything decides on.
- `allowUnverified` of `submit`: no server passes it.
- Work sessions: `declareTask` and `requestFromAgent` create tasks, `report` and `publish`
  write records; tracking: the list of past runs, the projection of rows, the HTTP server
  with its tokens.
- Glob overlap itself (`scope.ts:60-140`) is the relation `Overlap`: a string algorithm
  that calls for a module of recursive definitions of its own.
- The artifact registry: content-addressed files, where what could go wrong lies
  between two system calls.
- The adapter registry, the clock, the web-audit ledger, scripts: no shared state with the
  above.

## 6. What is left

1. `Globs`: `globsOverlap` against a reference definition over bounded patterns, TLC only.
2. `Artifacts`: publish, open and verify over files that change between two reads.
3. Refinements: `RecoveryRequests` and `DelegationKeys` each against an abstract operation
   (unused, at work, over with one outcome), as `ScopeFence` has `ScopeLock`.
