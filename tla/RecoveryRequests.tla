-------------------------- MODULE RecoveryRequests --------------------------
(***************************************************************************)
(* Requests to recover one stranded task (resumeAuthorizedTask to          *)
(* replayRecovery of orchestrator.ts): its owner or the manager that       *)
(* delegated it asks, with a key or without, on any server; a transaction  *)
(* reserves a lease and a row under the key, others admit, authorize and   *)
(* finish the attempt, and the same key asked again is answered from what  *)
(* they left.  TaskLifecycle has what an attempt does to its task,         *)
(* ScopeFence the slots and the other scopes.                              *)
(***************************************************************************)
EXTENDS Naturals

CONSTANTS Server, AgentOf,      \* the agent each native server is bound to
          Lineages,             \* lineages the task may have
          Key, NoKey, None,
          MaxGen                \* bound on reservations

VARIABLES up,
          lineage,              \* owner, creator and parent of the task
          task, attempt,        \* its state and current attempt
          att,                  \* its attempts: "none", "open", or an outcome
          row,                  \* the execution row
          lease,                \* of each reservation
          kept,                 \* the reservation stored under a key
          hand,                 \* activeRecoveries: what a server executes for this task
          launches, told        \* history: attempts invoked, final answers given

stored == <<task, attempt, att, row, lease, kept>>
recoveryVars == <<up, lineage, stored, hand, launches, told>>

Gen == 1..MaxGen
Terminal == {"DONE", "FAILED", "CANCELLED"}
Interruption == {"ADAPTER_FAILURE", "TIMEOUT"}
NoRow == [gen |-> 0, phase |-> "STOPPED", stop |-> TRUE, cancel |-> FALSE, by |-> None]

\* A task is stranded: its process died at work, or blocked it, or failed without a verdict.
Init ==
    /\ up = Server /\ lineage \in Lineages /\ attempt = 0 /\ row = NoRow
    /\ \E s \in {<<"WORKING", "open">>, <<"BLOCKED", "TIMEOUT">>, <<"FAILED", "ADAPTER_FAILURE">>} :
          task = s[1] /\ att = [n \in 0..MaxGen |-> IF n = 0 THEN s[2] ELSE "none"]
    /\ lease = [g \in Gen |-> "none"] /\ kept = [k \in Key |-> None]
    /\ hand = [p \in Server |-> None] /\ launches = {} /\ told = [k \in Key |-> {}]
-----------------------------------------------------------------------------
\* authorizeRecoveryIdentity: the owner asks as such; a manager asks for a child it created and
\* delegated to its owner, under a parent it owns in the same run, one level up.
Kind(p) == IF AgentOf[p] = lineage.owner THEN "owner" ELSE "delegated_manager"
Authorized(p) ==
    \/ Kind(p) = "owner"
    \/ /\ lineage.adjacent
       /\ lineage.parentOwner = AgentOf[p] /\ lineage.creator = AgentOf[p]
       /\ lineage.delegation \in {None, <<AgentOf[p], lineage.owner>>}

\* resumeAuthorizedTask: a server that executes a recovery of the task already shares its
\* promise with the same key, and refuses any other.
Asks(p) == p \in up /\ Authorized(p) /\ hand[p] = None

\* assertRecoverable.
Recoverable == task \in {"WORKING", "BLOCKED"} \/ (task = "FAILED" /\ att[attempt] \in Interruption)

Live(g)    == lease[g] \in {"HELD", "QUARANTINED"}
Held(g)    == g \in Gen /\ lease[g] = "HELD"
SetLease(g, s) == IF Held(g) THEN [lease EXCEPT ![g] = s] ELSE lease
Stopped    == [row EXCEPT !.phase = "STOPPED", !.stop = TRUE]
Current(p) == row.gen = hand[p].gen
Tell(k, a) == told' = IF k = NoKey THEN told ELSE [told EXCEPT ![k] = @ \cup {a}]

\* storeRecoveryReservation: nothing is stored for a request without a key.
Store(k, phase, a) ==
    kept' = IF k = NoKey THEN kept ELSE [kept EXCEPT ![k].phase = phase, ![k].answer = a]

\* Seeded bug: the reservation is looked up before the transaction only.
PrepareUnread(p, k) ==
    LET g == row.gen + 1 IN
    /\ Asks(p) /\ g \in Gen
    /\ Recoverable /\ row.phase = "STOPPED" /\ \A h \in Gen : ~Live(h)
    /\ row' = [gen |-> g, phase |-> "QUEUED", stop |-> TRUE, cancel |-> FALSE, by |-> p]
    /\ lease' = [lease EXCEPT ![g] = "HELD"]
    /\ kept' = IF k = NoKey THEN kept
               ELSE [kept EXCEPT ![k] = [kind |-> Kind(p), attempt |-> attempt + 1, gen |-> g,
                                         phase |-> "PREPARING", answer |-> None]]
    /\ hand' = [hand EXCEPT ![p] = [key |-> k, gen |-> 0, lease |-> g, attempt |-> attempt + 1,
                                    pc |-> "prepared", error |-> None]]
    /\ UNCHANGED <<up, task, attempt, att, launches, told>>

\* prepareRecovery: one transaction reserves the adjacent attempt, a row and a fresh lease,
\* unless the key is known, a row is busy, or a lease over the scope is live.
Prepare(p, k) ==
    LET g == row.gen + 1 IN
    /\ Asks(p) /\ g \in Gen
    /\ ~(k # NoKey /\ kept[k] # None)
    /\ Recoverable /\ row.phase = "STOPPED" /\ \A h \in Gen : ~Live(h)
    /\ row' = [gen |-> g, phase |-> "QUEUED", stop |-> TRUE, cancel |-> FALSE, by |-> p]
    /\ lease' = [lease EXCEPT ![g] = "HELD"]
    /\ kept' = IF k = NoKey THEN kept
               ELSE [kept EXCEPT ![k] = [kind |-> Kind(p), attempt |-> attempt + 1, gen |-> g,
                                         phase |-> "PREPARING", answer |-> None]]
    /\ hand' = [hand EXCEPT ![p] = [key |-> k, gen |-> 0, lease |-> g, attempt |-> attempt + 1,
                                    pc |-> "prepared", error |-> None]]
    /\ UNCHANGED <<up, task, attempt, att, launches, told>>

\* executeRecovery reads the row after the transaction that made it.
ReadRow(p) ==
    /\ hand[p] # None /\ hand[p].pc = "prepared"
    /\ hand' = [hand EXCEPT ![p].gen = row.gen, ![p].pc = "queued"]
    /\ UNCHANGED <<up, stored, launches, told>>

Failed(p, e) == hand' = [hand EXCEPT ![p].pc = "failed", ![p].error = e]

\* awaitAdmission: an obsolete row, a cancellation, the deadline, or a slot.
Admit(p) ==
    /\ hand[p] # None /\ hand[p].pc = "queued"
    /\ \/ ~Current(p) /\ Failed(p, "obsolete") /\ UNCHANGED <<row, task>>
       \/ /\ Current(p) /\ row.cancel
          /\ row' = Stopped /\ task' = IF task \in Terminal THEN task ELSE "CANCELLED"
          /\ Failed(p, "TASK_CANCELLED")
       \/ /\ Current(p) /\ ~row.cancel
          /\ row' = Stopped /\ Failed(p, "TIMEOUT") /\ UNCHANGED task
       \/ /\ Current(p) /\ ~row.cancel /\ row.phase \in {"QUEUED", "RUNNING"}
          /\ row' = [row EXCEPT !.phase = "RUNNING"]
          /\ hand' = [hand EXCEPT ![p].pc = "admitted"] /\ UNCHANGED task
    /\ UNCHANGED <<up, attempt, att, lease, kept, launches, told>>

\* The transaction before the launch closes the interrupted attempt and opens the next one.
\* It may fail, because of a dependency or the provider's retry time for instance.
Authorize(p) ==
    LET h == hand[p] IN
    /\ h # None /\ h.pc = "admitted"
    /\ \/ Failed(p, IF Current(p) /\ row.cancel THEN "TASK_CANCELLED" ELSE "refused")
          /\ UNCHANGED <<stored, launches>>
       \/ /\ Current(p) /\ ~row.cancel /\ Recoverable /\ h.attempt = attempt + 1
          /\ att' = [att EXCEPT ![attempt] = IF @ = "open" THEN "interrupted" ELSE @, ![h.attempt] = "open"]
          /\ task' = "WORKING" /\ attempt' = h.attempt
          /\ row' = [row EXCEPT !.stop = FALSE]
          /\ Store(h.key, "AUTHORIZED", None)
          /\ hand' = [hand EXCEPT ![p].pc = "running"]
          /\ launches' = launches \cup {<<h.key, h.attempt, h.lease>>}
          /\ UNCHANGED lease
    /\ UNCHANGED <<up, told>>

\* Seeded bug: only an interrupted recovery is cleaned up, not one of a failed task.
AbandonRunning(p) ==
    LET h == hand[p] IN
    /\ h # None /\ h.pc = "failed"
    /\ hand' = [hand EXCEPT ![p] = None]
    /\ IF Current(p) /\ row.stop /\ task \notin {"BLOCKED", "FAILED"} /\ lease[h.lease] # "QUARANTINED"
       THEN /\ row' = Stopped
            /\ lease' = SetLease(h.lease, "RELEASED")
            /\ task' = IF task \in Terminal THEN task ELSE "BLOCKED"
            /\ Store(h.key, "FINISHED", h.error) /\ Tell(h.key, h.error)
       ELSE UNCHANGED <<row, lease, task, kept, told>>
    /\ UNCHANGED <<up, attempt, att, launches>>

\* The catch block: release what was reserved and freeze the refusal.  Its transaction is
\* rolled back when the row is another one's, or the task is BLOCKED and cannot be again.
Abandon(p) ==
    LET h == hand[p] IN
    /\ h # None /\ h.pc = "failed"
    /\ hand' = [hand EXCEPT ![p] = None]
    /\ IF Current(p) /\ row.stop /\ task # "BLOCKED" /\ lease[h.lease] # "QUARANTINED"
       THEN /\ row' = Stopped
            /\ lease' = SetLease(h.lease, "RELEASED")
            /\ task' = IF task \in Terminal THEN task ELSE "BLOCKED"
            /\ Store(h.key, "FINISHED", h.error) /\ Tell(h.key, h.error)
       ELSE UNCHANGED <<row, lease, task, kept, told>>
    /\ UNCHANGED <<up, attempt, att, launches>>
-----------------------------------------------------------------------------
(* performInvocation of the recovered attempt.                             *)

Running(p) == hand[p] # None /\ hand[p].pc = "running"

\* The runtime proves its own end before the invocation settles.
ReportStopped(p) ==
    /\ Running(p) /\ Current(p)
    /\ row' = [row EXCEPT !.stop = TRUE]
    /\ UNCHANGED <<up, task, attempt, att, lease, kept, hand, launches, told>>

\* raiseBlocker.
RaiseBlocker(p) ==
    /\ Running(p) /\ Current(p) /\ ~row.cancel /\ task = "WORKING" /\ lease[row.gen] = "HELD"
    /\ task' = "BLOCKED"
    /\ UNCHANGED <<up, attempt, att, row, lease, kept, hand, launches, told>>

Settle(p, a, state, r, l) ==
    /\ task' = state /\ row' = r /\ lease' = SetLease(hand[p].lease, l)
    /\ att' = [att EXCEPT ![hand[p].attempt] = a]
    /\ Store(hand[p].key, "FINISHED", a) /\ Tell(hand[p].key, a)
    /\ hand' = [hand EXCEPT ![p] = None]
    /\ UNCHANGED <<up, attempt, launches>>

\* The final transaction: a deliverable of a runtime that provably stopped, ...
Deliver(p, status) ==
    /\ Running(p) /\ Current(p) /\ ~row.cancel
    /\ task \in {"WORKING", "BLOCKED"}
    /\ Settle(p, status, CASE status = "COMPLETE" -> "DONE" [] status = "PARTIAL" -> "BLOCKED" [] OTHER -> "FAILED",
              Stopped, "RELEASED")

\* ... a failure or a cancellation of one, ...
Fail(p) ==
    /\ Running(p) /\ Current(p)
    /\ row.cancel \/ task = "WORKING"
    /\ Settle(p, IF row.cancel THEN "TASK_CANCELLED" ELSE "ADAPTER_FAILURE",
              IF row.cancel THEN "CANCELLED" ELSE "BLOCKED", Stopped, "RELEASED")

\* ... or the end of one that may still run.
Lose(p) ==
    /\ Running(p) /\ Current(p) /\ task = "WORKING"
    /\ Settle(p, "RUNTIME_STOP_UNCONFIRMED", "BLOCKED",
              [row EXCEPT !.phase = "QUARANTINED", !.stop = FALSE], "QUARANTINED")

\* A transaction that throws leaves the verdict on the stop alone, and answers nothing.
CommitThrows(p, stopped) ==
    /\ Running(p) /\ Current(p)
    /\ row' = [row EXCEPT !.stop = stopped, !.phase = IF stopped THEN "RUNNING" ELSE "QUARANTINED"]
    /\ hand' = [hand EXCEPT ![p] = None]
    /\ UNCHANGED <<up, task, attempt, att, lease, kept, launches, told>>
-----------------------------------------------------------------------------
(* Replays, cancellations, dead servers.                                   *)

\* reconcileExecutors, for this row.
DeadRow == row.phase \in {"QUEUED", "RUNNING"} /\ row.by \notin up
Reconciled ==
    IF ~DeadRow THEN [row |-> row, lease |-> lease]
    ELSE IF row.phase = "QUEUED" \/ row.stop
    THEN [row |-> Stopped, lease |-> SetLease(row.gen, "RELEASED")]
    ELSE [row |-> [row EXCEPT !.phase = "QUARANTINED"], lease |-> SetLease(row.gen, "QUARANTINED")]

Reconcile ==
    /\ DeadRow
    /\ row' = Reconciled.row /\ lease' = Reconciled.lease
    /\ UNCHANGED <<up, task, attempt, att, kept, hand, launches, told>>

\* readRecoveryReservation: the key names this request, or it is refused.
Known(p, k) == Asks(p) /\ kept[k] # None /\ kept[k].kind = Kind(p)

\* replayRecovery: the frozen answer, ...
ReplayFinished(p, k) ==
    /\ Known(p, k) /\ kept[k].phase = "FINISHED"
    /\ Tell(k, kept[k].answer)
    /\ UNCHANGED <<up, stored, hand, launches>>

\* Seeded bug: a reservation whose row is not running yet counts as abandoned.
ReplayQueued(p, k) ==
    LET r == Reconciled  own == kept[k].gen = r.row.gen
        abandoned == ~own \/ r.row.phase \in {"QUEUED", "STOPPED"}
        code == IF task = "CANCELLED" THEN "TASK_CANCELLED" ELSE "ADAPTER_FAILURE"
    IN
    /\ Known(p, k) /\ kept[k].phase = "PREPARING"
    /\ row' = r.row
    /\ IF abandoned
       THEN /\ lease' = IF r.lease[kept[k].gen] = "HELD" THEN [r.lease EXCEPT ![kept[k].gen] = "RELEASED"]
                        ELSE r.lease
            /\ Store(k, "FINISHED", code) /\ Tell(k, code)
       ELSE lease' = r.lease /\ UNCHANGED <<kept, told>>
    /\ UNCHANGED <<up, task, attempt, att, hand, launches>>

\* ... for a reservation, its closing when its row is another's or provably stopped, ...
ReplayPreparing(p, k) ==
    LET r == Reconciled  own == kept[k].gen = r.row.gen
        abandoned == ~own \/ (r.row.phase = "STOPPED" /\ r.row.stop)
        code == IF task = "CANCELLED" THEN "TASK_CANCELLED" ELSE "ADAPTER_FAILURE"
    IN
    /\ Known(p, k) /\ kept[k].phase = "PREPARING"
    /\ row' = r.row
    /\ IF abandoned
       THEN /\ lease' = IF r.lease[kept[k].gen] = "HELD" THEN [r.lease EXCEPT ![kept[k].gen] = "RELEASED"]
                        ELSE r.lease
            /\ Store(k, "FINISHED", code) /\ Tell(k, code)
       ELSE lease' = r.lease /\ UNCHANGED <<kept, told>>
    /\ UNCHANGED <<up, task, attempt, att, hand, launches>>

\* ... for a launched attempt, the outcome it was ended with, and nothing while it is open.
ReplayAuthorized(p, k) ==
    /\ Known(p, k) /\ kept[k].phase = "AUTHORIZED" /\ att[kept[k].attempt] # "open"
    /\ Tell(k, att[kept[k].attempt])
    /\ UNCHANGED <<up, stored, hand, launches>>

\* cancelTask: a row that runs is only marked; any other is stopped for good, with its task.
Cancel ==
    /\ \E p \in up : Authorized(p)
    /\ task \notin Terminal
    /\ IF row.phase \in {"RUNNING", "QUARANTINED"}
       THEN ~row.cancel /\ row' = [row EXCEPT !.cancel = TRUE] /\ UNCHANGED <<task, lease>>
       ELSE /\ row' = IF row.phase = "QUEUED" THEN [Stopped EXCEPT !.cancel = TRUE] ELSE Stopped
            /\ lease' = SetLease(row.gen, "RELEASED")
            /\ task' = "CANCELLED"
    /\ UNCHANGED <<up, attempt, att, kept, hand, launches, told>>

\* reapExpired: a lease lapses with the deadline of its recovery, and is quarantined when its
\* runtime may still run.
Expire(g) ==
    /\ Held(g) /\ ~\E p \in Server : hand[p] # None /\ hand[p].lease = g
    /\ lease' = [lease EXCEPT ![g] = IF row.gen = g /\ ~row.stop THEN "QUARANTINED" ELSE "EXPIRED"]
    /\ UNCHANGED <<up, task, attempt, att, row, kept, hand, launches, told>>

Die(p) ==
    /\ p \in up /\ up' = up \ {p}
    /\ hand' = [hand EXCEPT ![p] = None]
    /\ UNCHANGED <<stored, launches, told>>

ServerStep(p) ==
    \/ \E k \in Key \cup {NoKey} : Prepare(p, k)
    \/ ReadRow(p) \/ Admit(p) \/ Authorize(p) \/ Abandon(p)
    \/ ReportStopped(p) \/ RaiseBlocker(p) \/ Fail(p) \/ Lose(p)
    \/ \E status \in {"COMPLETE", "PARTIAL", "FAILED"} : Deliver(p, status)
    \/ \E stopped \in BOOLEAN : CommitThrows(p, stopped)
    \/ \E k \in Key : ReplayFinished(p, k) \/ ReplayPreparing(p, k) \/ ReplayAuthorized(p, k)
    \/ Die(p)

Next ==
    /\ (\E p \in Server : ServerStep(p)) \/ Reconcile \/ Cancel \/ \E g \in Gen : Expire(g)
    /\ UNCHANGED lineage

Spec == Init /\ [][Next]_recoveryVars
-----------------------------------------------------------------------------
(* Properties.                                                             *)

LaunchCodes == {"COMPLETE", "PARTIAL", "FAILED", "RUNTIME_STOP_UNCONFIRMED", "interrupted"}
Phases  == {"prepared", "queued", "admitted", "failed", "running"}
Errors  == {"obsolete", "TASK_CANCELLED", "TIMEOUT", "refused"}
Answers == Errors \cup LaunchCodes \cup {"ADAPTER_FAILURE", "none"}
Reservation == [kind : {"owner", "delegated_manager"}, attempt : 0..MaxGen, gen : Gen,
                phase : {"PREPARING", "AUTHORIZED", "FINISHED"}, answer : Answers \cup {None}]
Execution == [key : Key \cup {NoKey}, gen : 0..MaxGen, lease : Gen, attempt : 0..MaxGen,
              pc : Phases, error : Errors \cup {None}]
Row == [gen : 0..MaxGen, phase : {"QUEUED", "RUNNING", "QUARANTINED", "STOPPED"},
        stop : BOOLEAN, cancel : BOOLEAN, by : Server \cup {None}]

\* None is no row of a table, NoKey is no key.
Sane ==
    /\ MaxGen \in Nat /\ NoKey \notin Key
    /\ None \notin Reservation /\ None \notin Execution

TypeOK ==
    /\ up \subseteq Server /\ attempt \in 0..MaxGen /\ row \in Row
    /\ task \in Terminal \cup {"WORKING", "BLOCKED"}
    /\ att \in [0..MaxGen -> Answers \cup {"open"}]
    /\ lease \in [Gen -> {"none", "HELD", "QUARANTINED", "RELEASED", "EXPIRED"}]
    /\ kept \in [Key -> Reservation \cup {None}]
    /\ hand \in [Server -> Execution \cup {None}]
    /\ launches \subseteq (Key \cup {NoKey}) \X (0..MaxGen) \X Gen
    /\ told \in [Key -> SUBSET Answers]

\* "An abandoned authorized launch cannot be automatically invoked again" (docs/recovery.md:44):
\* a key starts one runtime, and an attempt is started by one reservation, whoever repeats the
\* request, dies, cancels, or closes the reservation meanwhile.
NeverRelaunched ==
    \A x, y \in launches : (x[1] = y[1] /\ x[1] # NoKey) \/ x[2] = y[2] => x = y

\* What one caller is told of a key, the others are not told otherwise: a refused recovery has
\* launched nothing (1), and a launched one has one outcome (2), even for callers on other servers
\* and after a crash.
OneVerdict ==
    \A k \in Key :
        /\ told[k] \cap LaunchCodes # {} => \E x \in launches : x[1] = k
        /\ \A a, b \in told[k] : a \in LaunchCodes => a = b

\* "An abandoned prelaunch reservation can be safely closed" (docs/recovery.md:43): once no server
\* executes it, its row is not one of a live server that will never touch it again; but for one
\* case, a recovery of a BLOCKED task that is refused after its admission, whose cleanup fails.
AbandonedIsClosable ==
    \A k \in Key :
        (kept[k] # None /\ kept[k].phase = "PREPARING" /\ \A p \in up : hand[p] = None \/ hand[p].key # k) =>
            \/ kept[k].gen # row.gen \/ row.phase = "STOPPED" \/ row.by \notin up
            \/ task = "BLOCKED" /\ row.phase = "RUNNING"
=============================================================================
