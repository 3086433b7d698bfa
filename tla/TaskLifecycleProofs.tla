------------------------ MODULE TaskLifecycleProofs ------------------------
(***************************************************************************)
(* Proofs about TaskLifecycle, for every set of tasks, agents and checks,  *)
(* every delegate, retry budget and number of attempts.                    *)
(*                                                                         *)
(* The argument is one induction, on IInv, and most of it is about single  *)
(* rows: GoodRow is what the invariants say of a task row, Stands what no  *)
(* step may do to a row with a verdict, and every operation is shown to    *)
(* write a good row that stands (OneRow, OneDeliverable).  Two parts need  *)
(* more than a row.                                                        *)
(*                                                                         *)
(* NoDependencyDeadlock: a new task is a dependency of no other, so a set  *)
(* that gains it keeps the member it had that waits for none.  A new edge  *)
(* from t to d leads into the tasks d reaches, which are closed under      *)
(* dependency and, by the check of addDependency, do not contain t: a set  *)
(* that meets them has its minimum there, and in another d does not count. *)
(*                                                                         *)
(* ManagedRowNamesAgent: a coroutine cancels a task when the task's owner  *)
(* is the agent of its row.  Were that column empty, the comparison would  *)
(* hold of an unowned task, and PENDING would become CANCELLED without an  *)
(* owner; OwnedUnlessPending is not inductive without this part.           *)
(***************************************************************************)
EXTENDS TaskLifecycle, TLAPS

USE TaskAssumption DEF Attempt

-----------------------------------------------------------------------------
(* The rows: each constructor builds a row of its type from typed columns. *)

\* A task row built from typed columns is a task row with those columns.
LEMMA RowTyped ==
  ASSUME NEW s \in State \cup {"absent"}, NEW o \in Agent \cup {None}, NEW a \in Attempt,
         NEW b \in BOOLEAN
  PROVE  /\ Row(s, o, a, b) \in TaskRow
         /\ Row(s, o, a, b).state = s /\ Row(s, o, a, b).owner = o
         /\ Row(s, o, a, b).attempt = a /\ Row(s, o, a, b).blocked = b
  BY DEF Row, TaskRow

\* The columns of a task row are typed.
LEMMA TaskColumns ==
  ASSUME NEW r \in TaskRow
  PROVE  /\ r.state \in State \cup {"absent"} /\ r.owner \in Agent \cup {None}
         /\ r.attempt \in Attempt /\ r.blocked \in BOOLEAN
  BY DEF TaskRow

\* A deliverable built from typed columns is a deliverable with those columns.
LEMMA DeliverableTyped ==
  ASSUME NEW s \in Status \cup {"none"}, NEW a \in Attempt, NEW e \in Evidence
  PROVE  /\ Deliverable(s, a, e) \in DeliverableRow
         /\ Deliverable(s, a, e).status = s /\ Deliverable(s, a, e).attempt = a
         /\ Deliverable(s, a, e).evidence = e
  BY DEF Deliverable, DeliverableRow

\* An attempt row built from typed columns is an attempt row.
LEMMA AttemptTyped ==
  ASSUME NEW s \in {"none", "open", "ended"}, NEW g \in Agent \cup {None},
         NEW h \in BOOLEAN, NEW b \in BOOLEAN
  PROVE  AttemptRow(s, g, h, b) \in AttRow
  BY DEF AttemptRow, AttRow

\* The columns of an attempt row are typed.
LEMMA AttColumns ==
  ASSUME NEW r \in AttRow
  PROVE  /\ r.status \in {"none", "open", "ended"} /\ r.agent \in Agent \cup {None}
         /\ r.handle \in BOOLEAN /\ r.resumable \in BOOLEAN
  BY DEF AttRow

\* The columns of an execution row are typed.
LEMMA ExecColumns ==
  ASSUME NEW r \in ExecutionRow
  PROVE  /\ r.phase \in {"none", "QUEUED", "RUNNING", "QUARANTINED", "STOPPED"}
         /\ r.agent \in Agent \cup {None} /\ r.attempt \in Attempt
         /\ r.stop \in BOOLEAN /\ r.cancel \in BOOLEAN
  BY DEF ExecutionRow

\* A coroutine built from typed parts is a coroutine with those parts.
LEMMA CallTyped ==
  ASSUME NEW p \in {"off", "waiting", "abandoning", "admitted", "invoking", "dead"},
         NEW r \in BOOLEAN
  PROVE  /\ Call(p, r) \in CallRow /\ Call(p, r).pc = p /\ Call(p, r).recovery = r
  BY DEF Call, CallRow

\* The parts of a coroutine are typed.
LEMMA CallColumns ==
  ASSUME NEW r \in CallRow
  PROVE  /\ r.pc \in {"off", "waiting", "abandoning", "admitted", "invoking", "dead"}
         /\ r.recovery \in BOOLEAN
  BY DEF CallRow

\* A delegation loop built from typed parts is a delegation loop.
LEMMA LoopTyped ==
  ASSUME NEW p \in {"off", "queue", "busy", "failed", "again", "contended", "dead"},
         NEW a \in Attempt, NEW n \in Nat, NEW b \in BOOLEAN
  PROVE  Loop(p, a, n, b) \in LoopRow
  BY DEF Loop, LoopRow

\* The parts of a delegation loop are typed.
LEMMA LoopColumns ==
  ASSUME NEW r \in LoopRow
  PROVE  /\ r.pc \in {"off", "queue", "busy", "failed", "again", "contended", "dead"}
         /\ r.attempt \in Attempt /\ r.limit \in Nat /\ r.authorized \in BOOLEAN
  BY DEF LoopRow

\* What the transition table says of the moves the properties turn on.
LEMMA LegalMoves ==
  ASSUME NEW from, NEW to, Legal(from, to)
  PROVE  /\ from \notin Terminal \cup {"absent"} /\ to \in State
         /\ to = "PENDING" => from = "CLAIMED"
         /\ to = "VERIFYING" => from = "WORKING"
         /\ to = "DONE" => from = "VERIFYING"
         /\ from = "PENDING" => to \in {"CLAIMED", "CANCELLED"}
  BY DEF Legal, Transitions, Terminal, State

-----------------------------------------------------------------------------
(* One task row.  GoodRow is what the invariants say of a single row, and  *)
(* Stands what a step may not do to a row with a verdict.                  *)

GoodRow(r) ==
    /\ r \in TaskRow /\ r.state # "absent"
    /\ r.owner # None <=> r.state # "PENDING"
    /\ r.state \in {"WORKING", "VERIFYING", "DONE"} => ~r.blocked

Stands(r, s) ==
    r.state \in {"DONE", "CANCELLED"} =>
        s.state = r.state /\ s.owner = r.owner /\ s.attempt = r.attempt

TaskInv ==
    /\ task \in [Task -> TaskRow] /\ deps \in [Task -> SUBSET Task]
    /\ verification \in [Task -> [Attempt -> Evidence]]
    /\ deliverable \in [Task -> DeliverableRow]
    /\ DepsExist /\ NoDependencyDeadlock
    /\ OwnedUnlessPending /\ FinishedCarriesNoBlocker /\ CompleteIsFinal

RunInv ==
    /\ att \in [Task -> [Attempt -> AttRow]] /\ exec \in [Task -> ExecutionRow]
    /\ call \in [Task -> CallRow] /\ loop \in [Task -> LoopRow]
    /\ ManagedRowNamesAgent

VerdictsStandNow == \A t \in Task : Stands(task[t], task'[t])

CancelledNow ==
    \A t \in Task : task[t].state # "CANCELLED" /\ task'[t].state = "CANCELLED" =>
        /\ exec[t].phase # "none" => exec'[t].stop
        /\ exec[t].phase \in {"RUNNING", "QUARANTINED"} => call'[t].pc # call[t].pc

\* What every step has to do.
StepOK == IInv' /\ VerdictsStandNow /\ CancelledNow

\* The invariant splits into what the task tables promise and what the run tables promise.
LEMMA InvParts == IInv <=> TaskInv /\ RunInv
  BY DEF IInv, TypeOK, TaskInv, RunInv

\* Every created task has a good row.
LEMMA CreatedRow ==
  ASSUME TaskInv, NEW t \in Task, Exists(t)
  PROVE  GoodRow(task[t]) /\ (Owned(t) <=> task[t].state # "PENDING")
  BY DEF TaskInv, OwnedUnlessPending, FinishedCarriesNoBlocker, Exists, Owned, GoodRow

\* An owned task exists, is past PENDING, and its owner is an agent.
LEMMA OwnedExists ==
  ASSUME TaskInv, NEW t \in Task, Owned(t)
  PROVE  Exists(t) /\ task[t].state # "PENDING" /\ task[t].owner \in Agent
  <1>1. task[t].owner \in Agent \cup {None}
    BY TaskColumns DEF TaskInv
  <1>2. QED
    BY <1>1 DEF TaskInv, OwnedUnlessPending, Exists, Owned

\* A legal move to anything but PENDING keeps a row good, if it keeps the row owned.
LEMMA MovedGood ==
  ASSUME NEW r, GoodRow(r), NEW to, Legal(r.state, to), to # "PENDING", r.owner # None
  PROVE  GoodRow(Moved(r, to)) /\ Stands(r, Moved(r, to)) /\ Moved(r, to).state = to
  <1>1. /\ to \in State /\ r.state \notin Terminal
        /\ to = "VERIFYING" => r.state = "WORKING"
        /\ to = "DONE" => r.state = "VERIFYING"
    BY LegalMoves
  <1>2. r.owner \in Agent \cup {None} /\ r.attempt \in Attempt /\ r.blocked \in BOOLEAN
    BY TaskColumns DEF GoodRow
  <1> DEFINE b == r.blocked /\ to # "WORKING"
  <1>3. b \in BOOLEAN /\ Moved(r, to) = Row(to, r.owner, r.attempt, b)
    BY DEF Moved
  <1>4. to \in {"WORKING", "VERIFYING", "DONE"} => ~b
    BY <1>1 DEF GoodRow
  <1> HIDE DEF b
  <1>5. /\ Moved(r, to) \in TaskRow
        /\ Moved(r, to).state = to /\ Moved(r, to).owner = r.owner
        /\ Moved(r, to).blocked = b
    BY <1>1, <1>2, <1>3, RowTyped
  <1>6. to # "absent"
    BY <1>1 DEF State
  <1>7. QED
    BY <1>1, <1>4, <1>5, <1>6 DEF GoodRow, Stands, Terminal

\* Blocking a row by a legal transition keeps it good and rewrites no verdict.
LEMMA BlockedGood ==
  ASSUME NEW r, GoodRow(r), Legal(r.state, "BLOCKED")
  PROVE  GoodRow(Blocked(r)) /\ Stands(r, Blocked(r)) /\ Blocked(r).state = "BLOCKED"
  <1>1. r.state \notin Terminal /\ r.state # "PENDING"
    BY LegalMoves
  <1>2. r.owner \in Agent \cup {None} /\ r.attempt \in Attempt
    BY TaskColumns DEF GoodRow
  <1>3. Blocked(r) \in TaskRow
    BY <1>2, RowTyped DEF Blocked, State
  <1>4. Blocked(r).state = "BLOCKED" /\ Blocked(r).owner = r.owner
    BY DEF Blocked, Row
  <1>5. QED
    BY <1>1, <1>3, <1>4 DEF GoodRow, Stands, Terminal

\* What finalizeDeliverable makes of a row it accepts.
LEMMA DeliveredGood ==
  ASSUME NEW r, GoodRow(r), NEW status \in Status, Accepts(r.state, status)
  PROVE  /\ GoodRow(Delivered(r, status)) /\ Stands(r, Delivered(r, status))
         /\ Delivered(r, status).state = FinalState(status)
         /\ Delivered(r, status).attempt = r.attempt
  <1>1. r.owner \in Agent \cup {None} /\ r.attempt \in Attempt /\ r.blocked \in BOOLEAN
    BY TaskColumns DEF GoodRow
  <1>2. /\ status = "COMPLETE" => FinalState(status) = "DONE"
        /\ status = "PARTIAL" => FinalState(status) = "BLOCKED"
        /\ status = "FAILED" => FinalState(status) = "FAILED"
    BY DEF FinalState
  <1>3. FinalState(status) \in {"DONE", "BLOCKED", "FAILED"}
    BY <1>2 DEF Status
  <1>4. r.state # "PENDING" /\ (r.state \in Terminal => r.state = FinalState(status))
    <2>1. CASE r.state = FinalState(status)
      BY <2>1, <1>3
    <2>2. CASE Legal(r.state, FinalState(status))
      BY <2>2, <1>3, LegalMoves
    <2>3. CASE status = "COMPLETE" /\ r.state \in {"WORKING", "BLOCKED"}
      BY <2>3 DEF Terminal
    <2>4. QED
      BY <2>1, <2>2, <2>3 DEF Accepts
  <1>5. status = "COMPLETE" => r.state \in {"DONE", "VERIFYING", "WORKING", "BLOCKED"}
    BY <1>2, LegalMoves DEF Accepts
  <1> DEFINE b == IF status = "COMPLETE" THEN r.blocked /\ r.state # "BLOCKED"
                  ELSE r.blocked \/ (status = "PARTIAL" /\ r.state # "BLOCKED")
  <1>6. b \in BOOLEAN /\ Delivered(r, status) = Row(FinalState(status), r.owner, r.attempt, b)
    BY <1>1 DEF Delivered
  <1>7. FinalState(status) = "DONE" => ~b
    <2>1. status = "COMPLETE" => ~b
      BY <1>5 DEF GoodRow
    <2>2. QED
      BY <2>1, <1>2 DEF Status
  <1> HIDE DEF b
  <1>8. Delivered(r, status) \in TaskRow
    BY <1>1, <1>3, <1>6, RowTyped DEF State
  <1>9. /\ Delivered(r, status).state = FinalState(status) /\ Delivered(r, status).owner = r.owner
        /\ Delivered(r, status).attempt = r.attempt /\ Delivered(r, status).blocked = b
    BY <1>1, <1>3, <1>6, RowTyped DEF State
  <1>10. QED
    BY <1>3, <1>4, <1>7, <1>8, <1>9 DEF GoodRow, Stands, Terminal

-----------------------------------------------------------------------------
(* Steps that write one task row, or none.                                 *)

\* A step that leaves tasks, edges, evidence and deliverables alone.
LEMMA TasksKept ==
  ASSUME TaskInv, UNCHANGED <<task, deps, verification, deliverable>>
  PROVE  TaskInv' /\ VerdictsStandNow
  BY DEF TaskInv, VerdictsStandNow, Stands, DepsExist, NoDependencyDeadlock, OwnedUnlessPending,
         FinishedCarriesNoBlocker, CompleteIsFinal, Exists, Owned

\* An update writes the row of one task and no other.
LEMMA RowWritten ==
  ASSUME TaskInv, NEW t \in Task, NEW r, Update(t, r)
  PROVE  task'[t] = r /\ \A u \in Task : u # t => task'[u] = task[u]
  BY DEF TaskInv, Update

\* A step that replaces the row of t by a good one that respects its verdict.
LEMMA OneRow ==
  ASSUME TaskInv, NEW t \in Task, NEW r, Update(t, r),
         GoodRow(r), Stands(task[t], r),
         UNCHANGED <<deps, verification, deliverable>>
  PROVE  TaskInv' /\ VerdictsStandNow
  <1>1. task'[t] = r /\ \A u \in Task : u # t => task'[u] = task[u]
    BY RowWritten
  <1>2. task' \in [Task -> TaskRow]
    BY DEF TaskInv, Update, GoodRow
  <1>3. \A u \in Task : Exists(u) => Exists(u)'
    BY <1>1 DEF Exists, GoodRow
  <1>4. DepsExist'
    <2>1. DepsExist /\ deps' = deps /\ deps \in [Task -> SUBSET Task]
      BY DEF TaskInv
    <2>2. QED
      BY <2>1, <1>3 DEF DepsExist
  <1>5. NoDependencyDeadlock'
    BY DEF TaskInv, NoDependencyDeadlock
  <1>6. OwnedUnlessPending'
    BY <1>1 DEF TaskInv, OwnedUnlessPending, Owned, GoodRow
  <1>7. FinishedCarriesNoBlocker'
    BY <1>1 DEF TaskInv, FinishedCarriesNoBlocker, GoodRow
  <1>8. CompleteIsFinal'
    <2>1. \A u \in Task : deliverable[u].status = "COMPLETE" =>
             task[u].state = "DONE" /\ deliverable[u].attempt = task[u].attempt /\ Verified(deliverable[u].evidence)
      BY DEF TaskInv, CompleteIsFinal
    <2>2. \A u \in Task : task[u].state = "DONE" => task'[u].state = "DONE" /\ task'[u].attempt = task[u].attempt
      BY <1>1 DEF Stands
    <2>3. QED
      BY <2>1, <2>2 DEF CompleteIsFinal
  <1>9. VerdictsStandNow
    BY <1>1 DEF VerdictsStandNow, Stands
  <1>10. QED
    BY <1>2, <1>4, <1>5, <1>6, <1>7, <1>8, <1>9 DEF TaskInv

\* A step that submits a deliverable the state accepts, on evidence COMPLETE is accepted with.
LEMMA OneDeliverable ==
  ASSUME TaskInv, NEW t \in Task, NEW status \in Status, NEW evidence \in Evidence,
         Owned(t), Accepts(task[t].state, status), status = "COMPLETE" => Verified(evidence),
         Deliver(t, status, evidence)
  PROVE  TaskInv' /\ VerdictsStandNow
  <1> DEFINE r == Delivered(task[t], status)
  <1>1. GoodRow(task[t])
    BY OwnedExists, CreatedRow
  <1>2. /\ GoodRow(r) /\ Stands(task[t], r)
        /\ r.state = FinalState(status) /\ r.attempt = task[t].attempt
    BY <1>1, DeliveredGood
  <1>3. Update(t, r) /\ UNCHANGED <<deps, verification>>
    BY DEF Deliver
  <1> HIDE DEF r
  <1>4. task'[t] = r /\ \A u \in Task : u # t => task'[u] = task[u]
    BY <1>3, RowWritten
  <1>5. task' \in [Task -> TaskRow]
    BY <1>2, <1>3 DEF TaskInv, Update, GoodRow
  <1> DEFINE d == Deliverable(status, task[t].attempt, evidence)
  <1>6. /\ d \in DeliverableRow /\ d.status = status
        /\ d.attempt = task[t].attempt /\ d.evidence = evidence
    BY <1>1, TaskColumns, DeliverableTyped DEF GoodRow
  <1>7. deliverable' = [deliverable EXCEPT ![t] = d]
    BY DEF Deliver
  <1> HIDE DEF d
  <1>8. /\ deliverable' \in [Task -> DeliverableRow] /\ deliverable'[t] = d
        /\ \A u \in Task : u # t => deliverable'[u] = deliverable[u]
    BY <1>6, <1>7 DEF TaskInv
  <1>9. DepsExist'
    <2>1. \A u \in Task : Exists(u) => Exists(u)'
      BY <1>2, <1>4 DEF Exists, GoodRow
    <2>2. DepsExist /\ deps' = deps /\ deps \in [Task -> SUBSET Task]
      BY <1>3 DEF TaskInv
    <2>3. QED
      BY <2>1, <2>2 DEF DepsExist
  <1>10. NoDependencyDeadlock'
    BY <1>3 DEF TaskInv, NoDependencyDeadlock
  <1>11. OwnedUnlessPending'
    BY <1>2, <1>4 DEF TaskInv, OwnedUnlessPending, Owned, GoodRow
  <1>12. FinishedCarriesNoBlocker'
    BY <1>2, <1>4 DEF TaskInv, FinishedCarriesNoBlocker, GoodRow
  <1>13. CompleteIsFinal'
    <2>1. ASSUME NEW u \in Task, u # t, deliverable'[u].status = "COMPLETE"
          PROVE  /\ task'[u].state = "DONE" /\ deliverable'[u].attempt = task'[u].attempt
                 /\ Verified(deliverable'[u].evidence)
      BY <2>1, <1>4, <1>8 DEF TaskInv, CompleteIsFinal
    <2>2. ASSUME deliverable'[t].status = "COMPLETE"
          PROVE  /\ task'[t].state = "DONE" /\ deliverable'[t].attempt = task'[t].attempt
                 /\ Verified(deliverable'[t].evidence)
      BY <2>2, <1>2, <1>4, <1>6, <1>8 DEF FinalState
    <2>3. QED
      BY <2>1, <2>2 DEF CompleteIsFinal
  <1>14. VerdictsStandNow
    BY <1>2, <1>4 DEF VerdictsStandNow, Stands
  <1>15. verification' \in [Task -> [Attempt -> Evidence]] /\ deps' \in [Task -> SUBSET Task]
    BY <1>3 DEF TaskInv
  <1>16. QED
    BY <1>5, <1>8, <1>9, <1>10, <1>11, <1>12, <1>13, <1>14, <1>15 DEF TaskInv

\* The same three steps as steps of the whole system, when they cancel nothing.
LEMMA KeptStep ==
  ASSUME IInv, UNCHANGED <<task, deps, verification, deliverable>>, RunInv'
  PROVE  StepOK
  <1>1. TaskInv /\ TaskInv' /\ VerdictsStandNow
    BY InvParts, TasksKept
  <1>2. CancelledNow
    BY DEF CancelledNow
  <1>3. IInv'
    BY <1>1 DEF IInv, TypeOK, TaskInv, RunInv
  <1>4. QED
    BY <1>1, <1>2, <1>3 DEF StepOK

\* A step that writes one good row, respects verdicts and cancels nothing keeps everything.
LEMMA RowStep ==
  ASSUME IInv, NEW t \in Task, NEW r, Update(t, r), GoodRow(r), Stands(task[t], r),
         r.state = "CANCELLED" => task[t].state = "CANCELLED",
         UNCHANGED <<deps, verification, deliverable>>, RunInv'
  PROVE  StepOK
  <1>1. TaskInv /\ TaskInv' /\ VerdictsStandNow
    BY InvParts, OneRow
  <1>2. CancelledNow
    BY <1>1, RowWritten DEF CancelledNow
  <1>3. IInv'
    BY <1>1 DEF IInv, TypeOK, TaskInv, RunInv
  <1>4. QED
    BY <1>1, <1>2, <1>3 DEF StepOK

\* A step that writes an acceptable deliverable of an owned task keeps everything.
LEMMA ResultStep ==
  ASSUME IInv, NEW t \in Task, NEW status \in Status, NEW evidence \in Evidence,
         Owned(t), Accepts(task[t].state, status), status = "COMPLETE" => Verified(evidence),
         Deliver(t, status, evidence), RunInv'
  PROVE  StepOK
  <1>1. TaskInv /\ TaskInv' /\ VerdictsStandNow
    BY InvParts, OneDeliverable
  <1>2. CancelledNow
    <2>1. GoodRow(task[t])
      BY <1>1, OwnedExists, CreatedRow
    <2>2. Delivered(task[t], status).state = FinalState(status) /\ FinalState(status) # "CANCELLED"
      BY <2>1, DeliveredGood DEF FinalState
    <2>3. Update(t, Delivered(task[t], status))
      BY DEF Deliver
    <2>4. /\ task'[t].state # "CANCELLED"
          /\ \A u \in Task : u # t => task'[u] = task[u]
      BY <1>1, <2>2, <2>3, RowWritten
    <2>5. QED
      BY <2>4 DEF CancelledNow
  <1>3. IInv'
    BY <1>1 DEF IInv, TypeOK, TaskInv, RunInv
  <1>4. QED
    BY <1>1, <1>2, <1>3 DEF StepOK

\* The three moves of an owned task.
LEMMA MovedStep ==
  ASSUME IInv, NEW t \in Task, NEW to, Owned(t), Legal(task[t].state, to),
         to \notin {"PENDING", "CANCELLED"}, Update(t, Moved(task[t], to)),
         UNCHANGED <<deps, verification, deliverable>>, RunInv'
  PROVE  StepOK
  <1>1. GoodRow(task[t]) /\ task[t].owner # None
    BY InvParts, OwnedExists, CreatedRow DEF Owned
  <1>2. /\ GoodRow(Moved(task[t], to)) /\ Stands(task[t], Moved(task[t], to))
        /\ Moved(task[t], to).state = to
    BY <1>1, MovedGood
  <1>3. QED
    BY <1>2, RowStep

\* A step that blocks an owned task keeps everything.
LEMMA BlockedStep ==
  ASSUME IInv, NEW t \in Task, Owned(t), Legal(task[t].state, "BLOCKED"),
         Update(t, Blocked(task[t])), UNCHANGED <<deps, verification, deliverable>>, RunInv'
  PROVE  StepOK
  <1>1. GoodRow(task[t])
    BY InvParts, OwnedExists, CreatedRow
  <1>2. /\ GoodRow(Blocked(task[t])) /\ Stands(task[t], Blocked(task[t]))
        /\ Blocked(task[t]).state = "BLOCKED"
    BY <1>1, BlockedGood
  <1>3. QED
    BY <1>2, RowStep

\* A step that cancels an owned task keeps everything when it leaves stop evidence and, if an
\* invocation is live, ends it.
LEMMA CancelStep ==
  ASSUME IInv, NEW t \in Task, Owned(t), Legal(task[t].state, "CANCELLED"),
         Update(t, Moved(task[t], "CANCELLED")), UNCHANGED <<deps, verification, deliverable>>,
         RunInv', exec[t].phase # "none" => exec'[t].stop,
         exec[t].phase \in {"RUNNING", "QUARANTINED"} => call'[t].pc # call[t].pc
  PROVE  StepOK
  <1>1. TaskInv /\ GoodRow(task[t]) /\ task[t].owner # None
    BY InvParts, OwnedExists, CreatedRow DEF Owned
  <1>2. GoodRow(Moved(task[t], "CANCELLED")) /\ Stands(task[t], Moved(task[t], "CANCELLED"))
    BY <1>1, MovedGood
  <1>3. TaskInv' /\ VerdictsStandNow
    BY <1>1, <1>2, OneRow
  <1>4. \A u \in Task : u # t => task'[u] = task[u]
    BY <1>1, RowWritten
  <1>5. CancelledNow
    BY <1>4 DEF CancelledNow
  <1>6. IInv'
    BY <1>3 DEF IInv, TypeOK, TaskInv, RunInv
  <1>7. QED
    BY <1>3, <1>5, <1>6 DEF StepOK

\* A step outside the run tables keeps what they promise.
LEMMA RunKept ==
  ASSUME IInv, UNCHANGED_RUN
  PROVE  RunInv'
  BY DEF IInv, TypeOK, RunInv, UNCHANGED_RUN, ManagedRowNamesAgent

-----------------------------------------------------------------------------
(* Agents.                                                                 *)

\* The new task is nobody's dependency, so a set has the minimum it had without it.
LEMMA CreateStep ==
  ASSUME IInv, NEW t \in Task, NEW D \in SUBSET Task, Create(t, D)
  PROVE  StepOK
  <1> DEFINE r == Row("PENDING", None, 0, FALSE)
  <1>1. /\ ~Exists(t) /\ \A d \in D : Exists(d)
        /\ Update(t, r) /\ deps' = [deps EXCEPT ![t] = D]
        /\ UNCHANGED <<verification, deliverable>>
    BY DEF Create, UNCHANGED_RESULT
  <1>2. TaskInv /\ RunInv'
    BY InvParts, RunKept DEF Create
  <1>3. /\ r \in TaskRow /\ r.state = "PENDING" /\ r.owner = None /\ r.blocked = FALSE
    BY DEF Row, TaskRow, State
  <1> HIDE DEF r
  <1>4. task'[t] = r /\ \A u \in Task : u # t => task'[u] = task[u]
    BY <1>1, <1>2, RowWritten
  <1>5. task' \in [Task -> TaskRow] /\ deps' \in [Task -> SUBSET Task]
    BY <1>1, <1>2, <1>3 DEF TaskInv, Update
  <1>6. deps'[t] = D /\ \A u \in Task : u # t => deps'[u] = deps[u]
    BY <1>1, <1>2 DEF TaskInv
  <1>7. DepsExist'
    <2>1. \A u \in Task : Exists(u) => Exists(u)'
      BY <1>3, <1>4 DEF Exists
    <2>2. Exists(t)'
      BY <1>3, <1>4 DEF Exists
    <2>3. QED
      BY <1>1, <1>2, <1>6, <2>1, <2>2 DEF DepsExist, TaskInv
  <1>8. NoDependencyDeadlock'
    <2> SUFFICES ASSUME NEW S \in SUBSET Task, S # {}
                 PROVE  \E u \in S : deps'[u] \cap S = {}
      BY DEF NoDependencyDeadlock
    <2>1. t \notin D /\ \A u \in Task : t \notin deps[u]
      BY <1>1, <1>2 DEF TaskInv, DepsExist
    <2>2. CASE S \ {t} = {}
      BY <1>6, <2>1, <2>2
    <2>3. CASE S \ {t} # {}
      <3>1. PICK u \in S \ {t} : deps[u] \cap (S \ {t}) = {}
        BY <1>2, <2>3 DEF TaskInv, NoDependencyDeadlock
      <3>2. deps'[u] \cap S = {}
        BY <1>6, <2>1, <3>1
      <3>3. QED
        BY <3>2
    <2>4. QED
      BY <2>2, <2>3
  <1>9. OwnedUnlessPending'
    BY <1>2, <1>3, <1>4 DEF TaskInv, OwnedUnlessPending, Owned
  <1>10. FinishedCarriesNoBlocker'
    BY <1>2, <1>3, <1>4 DEF TaskInv, FinishedCarriesNoBlocker
  <1>11. CompleteIsFinal'
    BY <1>1, <1>2, <1>4 DEF TaskInv, CompleteIsFinal, Exists
  <1>12. TaskInv'
    BY <1>1, <1>2, <1>5, <1>7, <1>8, <1>9, <1>10, <1>11 DEF TaskInv
  <1>13. IInv'
    BY <1>2, <1>12 DEF IInv, TypeOK, TaskInv, RunInv
  <1>14. VerdictsStandNow /\ CancelledNow
    BY <1>1, <1>3, <1>4 DEF VerdictsStandNow, Stands, CancelledNow, Exists
  <1>15. QED
    BY <1>13, <1>14 DEF StepOK

\* The new edge leads out of t into a closed set without t: a set that meets the closed set has
\* a minimum there, and for another one the edge does not count.
LEMMA AddDependencyStep ==
  ASSUME IInv, NEW t \in Task, NEW d \in Task, AddDependency(t, d)
  PROVE  StepOK
  <1>1. /\ Exists(t) /\ Exists(d) /\ ~Reaches(d, t)
        /\ deps' = [deps EXCEPT ![t] = deps[t] \cup {d}]
        /\ UNCHANGED <<task, verification, deliverable>>
    BY DEF AddDependency, UNCHANGED_RESULT
  <1>2. TaskInv /\ RunInv'
    BY InvParts, RunKept DEF AddDependency
  <1>3. /\ deps' \in [Task -> SUBSET Task] /\ deps'[t] = deps[t] \cup {d}
        /\ \A u \in Task : u # t => deps'[u] = deps[u]
    BY <1>1, <1>2 DEF TaskInv
  <1>4. NoDependencyDeadlock'
    <2> SUFFICES ASSUME NEW S \in SUBSET Task, S # {}
                 PROVE  \E u \in S : deps'[u] \cap S = {}
      BY DEF NoDependencyDeadlock
    <2>1. PICK R \in SUBSET Task : d \in R /\ t \notin R /\ \A u \in R : deps[u] \subseteq R
      BY <1>1 DEF Reaches
    <2>2. CASE S \cap R # {}
      <3>1. PICK u \in S \cap R : deps[u] \cap (S \cap R) = {}
        BY <1>2, <2>2 DEF TaskInv, NoDependencyDeadlock
      <3>2. deps[u] \subseteq R /\ deps'[u] = deps[u]
        BY <1>3, <2>1, <3>1
      <3>3. QED
        BY <3>1, <3>2
    <2>3. CASE S \cap R = {}
      <3>1. PICK u \in S : deps[u] \cap S = {}
        BY <1>2 DEF TaskInv, NoDependencyDeadlock
      <3>2. d \notin S
        BY <2>1, <2>3
      <3>3. deps'[u] \subseteq deps[u] \cup {d}
        BY <1>3
      <3>4. QED
        BY <3>1, <3>2, <3>3
    <2>4. QED
      BY <2>2, <2>3
  <1>5. DepsExist'
    BY <1>1, <1>2, <1>3 DEF TaskInv, DepsExist, Exists
  <1>6. OwnedUnlessPending' /\ FinishedCarriesNoBlocker' /\ CompleteIsFinal'
    BY <1>1, <1>2 DEF TaskInv, OwnedUnlessPending, Owned, FinishedCarriesNoBlocker, CompleteIsFinal
  <1>7. TaskInv'
    BY <1>1, <1>2, <1>3, <1>4, <1>5, <1>6 DEF TaskInv
  <1>8. IInv'
    BY <1>2, <1>7 DEF IInv, TypeOK, TaskInv, RunInv
  <1>9. VerdictsStandNow /\ CancelledNow
    BY <1>1 DEF VerdictsStandNow, Stands, CancelledNow
  <1>10. QED
    BY <1>8, <1>9 DEF StepOK

\* claim keeps everything.
LEMMA ClaimStep ==
  ASSUME IInv, NEW t \in Task, NEW a \in Agent, Claim(t, a)
  PROVE  StepOK
  <1> DEFINE r == Row("CLAIMED", a, task[t].attempt, task[t].blocked)
  <1>1. task[t].state = "PENDING" /\ Update(t, r) /\ UNCHANGED <<deps, verification, deliverable>>
    BY DEF Claim, UNCHANGED_RESULT
  <1>2. TaskInv /\ RunInv'
    BY InvParts, RunKept DEF Claim
  <1>3. task[t].attempt \in Attempt /\ task[t].blocked \in BOOLEAN
    BY <1>2, TaskColumns DEF TaskInv
  <1>4. r \in TaskRow /\ r.state = "CLAIMED" /\ r.owner = a
    BY <1>3, RowTyped DEF State
  <1> HIDE DEF r
  <1>5. GoodRow(r) /\ Stands(task[t], r)
    BY <1>1, <1>4 DEF GoodRow, Stands
  <1>6. QED
    BY <1>1, <1>2, <1>4, <1>5, RowStep

\* release keeps everything: the row returns to PENDING without an owner.
LEMMA ReleaseStep ==
  ASSUME IInv, NEW t \in Task, Release(t)
  PROVE  StepOK
  <1> DEFINE r == Row("PENDING", None, task[t].attempt, task[t].blocked)
  <1>1. task[t].state = "CLAIMED" /\ Update(t, r) /\ UNCHANGED <<deps, verification, deliverable>>
    BY DEF Release, UNCHANGED_RESULT
  <1>2. TaskInv /\ RunInv'
    BY InvParts, RunKept DEF Release
  <1>3. task[t].attempt \in Attempt /\ task[t].blocked \in BOOLEAN
    BY <1>2, TaskColumns DEF TaskInv
  <1>4. r \in TaskRow /\ r.state = "PENDING" /\ r.owner = None
    BY <1>3, RowTyped DEF State
  <1> HIDE DEF r
  <1>5. GoodRow(r) /\ Stands(task[t], r)
    BY <1>1, <1>4 DEF GoodRow, Stands
  <1>6. QED
    BY <1>1, <1>2, <1>4, <1>5, RowStep

\* setState keeps everything.
LEMMA SetStateStep ==
  ASSUME IInv, NEW t \in Task, NEW to, SetState(t, to)
  PROVE  StepOK
  <1>1. RunInv'
    BY RunKept DEF SetState
  <1>2. QED
    BY <1>1, MovedStep DEF SetState, MayMove, UNCHANGED_RESULT

\* block keeps everything.
LEMMA BlockStep ==
  ASSUME IInv, NEW t \in Task, Block(t)
  PROVE  StepOK
  <1>1. RunInv'
    BY RunKept DEF Block
  <1>2. QED
    BY <1>1, BlockedStep DEF Block, UNCHANGED_RESULT

\* Evidence of the task is typed, merged or not.
LEMMA EvidenceTyped ==
  ASSUME TaskInv, NEW t \in Task, NEW submitted \in Evidence
  PROVE  Recorded(t) \in Evidence /\ Merged(t, submitted) \in Evidence
  <1>1. task[t].attempt \in Attempt
    BY TaskColumns DEF TaskInv
  <1>2. Recorded(t) \in Evidence
    BY <1>1 DEF TaskInv, Recorded
  <1>3. QED
    BY <1>2 DEF Merged, Evidence

\* recordVerification keeps everything: it writes evidence of the current attempt only, which a
\* COMPLETE deliverable no longer reads.
LEMMA RecordVerificationStep ==
  ASSUME IInv, NEW t \in Task, NEW c \in Check, NEW v \in Verdict, RecordVerification(t, c, v)
  PROVE  StepOK
  <1> DEFINE k == task[t].attempt
  <1>1. /\ verification' = [verification EXCEPT ![t][k][c] = v]
        /\ UNCHANGED <<task, deps, deliverable>>
    BY DEF RecordVerification
  <1>2. TaskInv /\ RunInv'
    BY InvParts, RunKept DEF RecordVerification
  <1>3. k \in Attempt
    BY <1>2, TaskColumns DEF TaskInv
  <1> HIDE DEF k
  <1>4. verification' \in [Task -> [Attempt -> Evidence]]
    BY <1>1, <1>2, <1>3 DEF TaskInv, Evidence
  <1>5. /\ DepsExist' /\ NoDependencyDeadlock' /\ OwnedUnlessPending'
        /\ FinishedCarriesNoBlocker' /\ CompleteIsFinal'
    BY <1>1, <1>2 DEF TaskInv, DepsExist, Exists, NoDependencyDeadlock, OwnedUnlessPending, Owned,
                      FinishedCarriesNoBlocker, CompleteIsFinal
  <1>6. TaskInv'
    BY <1>1, <1>2, <1>4, <1>5 DEF TaskInv
  <1>7. IInv'
    BY <1>2, <1>6 DEF IInv, TypeOK, TaskInv, RunInv
  <1>8. VerdictsStandNow /\ CancelledNow
    BY <1>1 DEF VerdictsStandNow, Stands, CancelledNow
  <1>9. QED
    BY <1>7, <1>8 DEF StepOK

\* submit keeps everything.
LEMMA SubmitStep ==
  ASSUME IInv, NEW t \in Task, NEW status \in Status, NEW e \in Evidence, Submit(t, status, e)
  PROVE  StepOK
  <1> DEFINE m == Merged(t, e)
  <1>1. TaskInv /\ RunInv'
    BY InvParts, RunKept DEF Submit
  <1>2. m \in Evidence
    BY <1>1, EvidenceTyped
  <1>3. /\ Owned(t) /\ Accepts(task[t].state, status) /\ (status = "COMPLETE" => Verified(m))
        /\ Deliver(t, status, m)
    BY DEF Submit
  <1> HIDE DEF m
  <1>4. QED
    BY <1>1, <1>2, <1>3, ResultStep

-----------------------------------------------------------------------------
(* The tables of a delegation: attempts, execution, coroutines.            *)

\* The values of three columns, named.
ExecPhase == {"none", "QUEUED", "RUNNING", "QUARANTINED", "STOPPED"}
CallPc == {"off", "waiting", "abandoning", "admitted", "invoking", "dead"}
LoopPc == {"off", "queue", "busy", "failed", "again", "contended", "dead"}

\* Every column the delegation actions read is typed, and a managed row names its agent.
LEMMA RunColumns ==
  ASSUME IInv, NEW t \in Task
  PROVE  /\ task[t].attempt \in Attempt /\ task[t].blocked \in BOOLEAN
         /\ task[t].owner \in Agent \cup {None}
         /\ exec[t].phase \in ExecPhase /\ exec[t].agent \in Agent \cup {None}
         /\ exec[t].attempt \in Attempt /\ exec[t].stop \in BOOLEAN /\ exec[t].cancel \in BOOLEAN
         /\ call[t].pc \in CallPc /\ call[t].recovery \in BOOLEAN
         /\ loop[t].pc \in LoopPc /\ loop[t].attempt \in Attempt
         /\ loop[t].limit \in Nat /\ loop[t].authorized \in BOOLEAN
         /\ call[t].pc # "off" => exec[t].agent # None
         /\ \A k \in Attempt : att[t][k] \in AttRow
  <1>1. /\ task[t] \in TaskRow /\ exec[t] \in ExecutionRow /\ call[t] \in CallRow
        /\ loop[t] \in LoopRow /\ \A k \in Attempt : att[t][k] \in AttRow
        /\ call[t].pc # "off" => exec[t].agent # None
    BY DEF IInv, TypeOK, ManagedRowNamesAgent
  <1>2. QED
    BY <1>1, TaskColumns, ExecColumns, CallColumns, LoopColumns DEF ExecPhase, CallPc, LoopPc

\* Rewriting the phase and flags of an execution row keeps the table typed and its agents fixed.
LEMMA SetExecTyped ==
  ASSUME IInv, NEW t \in Task, NEW p \in ExecPhase, NEW s \in BOOLEAN, NEW c \in BOOLEAN
  PROVE  /\ SetExec(t, p, s, c) \in [Task -> ExecutionRow]
         /\ \A u \in Task : SetExec(t, p, s, c)[u].agent = exec[u].agent
         /\ SetExec(t, p, s, c)[t].stop = s
  <1> DEFINE r == ExecRow(p, exec[t].agent, exec[t].attempt, s, c)
  <1>1. r \in ExecutionRow /\ r.agent = exec[t].agent /\ r.stop = s
    BY RunColumns DEF ExecRow, ExecutionRow, ExecPhase
  <1>2. SetExec(t, p, s, c) = [exec EXCEPT ![t] = r] /\ exec \in [Task -> ExecutionRow]
    BY DEF SetExec, IInv, TypeOK
  <1> HIDE DEF r
  <1>3. QED
    BY <1>1, <1>2

\* The same fact for a step that makes that rewrite.
LEMMA ExecSet ==
  ASSUME IInv, NEW t \in Task, NEW p \in ExecPhase, NEW s \in BOOLEAN, NEW c \in BOOLEAN,
         exec' = SetExec(t, p, s, c)
  PROVE  /\ exec' \in [Task -> ExecutionRow] /\ exec'[t].stop = s
         /\ \A u \in Task : exec'[u].agent = exec[u].agent
  BY SetExecTyped

\* Moving a coroutine keeps the table typed and the other coroutines in place.
LEMMA SetCallTyped ==
  ASSUME IInv, NEW t \in Task, NEW p \in CallPc
  PROVE  /\ SetCall(t, p) \in [Task -> CallRow] /\ SetCall(t, p)[t].pc = p
         /\ \A u \in Task : u # t => SetCall(t, p)[u] = call[u]
  <1> DEFINE r == Call(p, call[t].recovery)
  <1>1. r \in CallRow /\ r.pc = p
    BY RunColumns, CallTyped DEF CallPc
  <1>2. SetCall(t, p) = [call EXCEPT ![t] = r] /\ call \in [Task -> CallRow]
    BY DEF SetCall, IInv, TypeOK
  <1> HIDE DEF r
  <1>3. QED
    BY <1>1, <1>2

\* Ending a coroutine keeps the table typed and the other coroutines in place.
LEMMA NoCallTyped ==
  ASSUME IInv, NEW t \in Task
  PROVE  /\ NoCallAt(t) \in [Task -> CallRow] /\ NoCallAt(t)[t].pc = "off"
         /\ \A u \in Task : u # t => NoCallAt(t)[u] = call[u]
  <1>1. NoCall \in CallRow /\ NoCall.pc = "off"
    BY CallTyped DEF NoCall
  <1>2. NoCallAt(t) = [call EXCEPT ![t] = NoCall] /\ call \in [Task -> CallRow]
    BY DEF NoCallAt, IInv, TypeOK
  <1>3. QED
    BY <1>1, <1>2

\* Writing a typed delegation loop keeps the table typed.
LEMMA LoopWritten ==
  ASSUME IInv, NEW t \in Task, NEW r \in LoopRow
  PROVE  [loop EXCEPT ![t] = r] \in [Task -> LoopRow]
  BY DEF IInv, TypeOK

\* Moving a delegation loop keeps the table typed.
LEMMA SetLoopTyped ==
  ASSUME IInv, NEW t \in Task, NEW p \in LoopPc
  PROVE  SetLoop(t, p) \in [Task -> LoopRow]
  <1> DEFINE r == CASE p \in {"off", "contended"} -> Loop(p, 0, 0, FALSE)
                    [] p = "dead" -> Loop(p, 0, 0, loop[t].authorized)
                    [] OTHER -> Loop(p, loop[t].attempt, loop[t].limit, loop[t].authorized)
  <1>1. SetLoop(t, p) = [loop EXCEPT ![t] = r]
    BY DEF SetLoop
  <1>2. /\ Loop(p, 0, 0, FALSE) \in LoopRow
        /\ Loop(p, 0, 0, loop[t].authorized) \in LoopRow
        /\ Loop(p, loop[t].attempt, loop[t].limit, loop[t].authorized) \in LoopRow
    <2>1. 0 \in Attempt /\ 0 \in Nat /\ FALSE \in BOOLEAN
      OBVIOUS
    <2>2. QED
      BY <2>1, RunColumns, LoopTyped DEF LoopPc
  <1>3. r \in LoopRow
    BY <1>2
  <1> HIDE DEF r
  <1>4. QED
    BY <1>1, <1>3, LoopWritten

\* What an ended invocation does to its loop keeps the table typed.
LEMMA LoopAfterTyped ==
  ASSUME IInv, NEW t \in Task, NEW p \in LoopPc
  PROVE  LoopAfter(t, p) \in [Task -> LoopRow]
  BY SetLoopTyped DEF LoopAfter, IInv, TypeOK

\* The loop of a delegation that starts, continues or is taken over.
LEMMA LoopStarted ==
  ASSUME IInv, NEW t \in Task
  PROVE  [loop EXCEPT ![t] = Loop("queue", task[t].attempt, task[t].attempt + Retries + 1, FALSE)]
            \in [Task -> LoopRow]
  <1>1. task[t].attempt \in Attempt /\ task[t].attempt + Retries + 1 \in Nat
    BY RunColumns
  <1>2. Loop("queue", task[t].attempt, task[t].attempt + Retries + 1, FALSE) \in LoopRow
    BY <1>1, LoopTyped
  <1>3. QED
    BY <1>2, LoopWritten

\* Writing a typed attempt row keeps the table typed.
LEMMA AttWritten ==
  ASSUME IInv, NEW t \in Task, NEW k \in Attempt, NEW r \in AttRow
  PROVE  [att EXCEPT ![t][k] = r] \in [Task -> [Attempt -> AttRow]]
  BY DEF IInv, TypeOK

\* Ending an attempt keeps the table typed.
LEMMA EndedAttemptTyped ==
  ASSUME IInv, NEW t \in Task, NEW k \in Attempt, NEW b \in BOOLEAN
  PROVE  EndedAttempt(t, k, b) \in [Task -> [Attempt -> AttRow]]
  <1> DEFINE q == att[t][k]
             r == IF q.status = "none" THEN q ELSE AttemptRow("ended", q.agent, q.handle, b)
  <1>1. q \in AttRow
    BY RunColumns
  <1>2. EndedAttempt(t, k, b) = [att EXCEPT ![t][k] = r]
    BY DEF EndedAttempt
  <1>3. r \in AttRow
    <2> HIDE DEF q
    <2>1. AttemptRow("ended", q.agent, q.handle, b) \in AttRow
      BY <1>1, AttColumns, AttemptTyped
    <2>2. QED
      BY <1>1, <2>1
  <1> HIDE DEF r
  <1>4. QED
    BY <1>2, <1>3, AttWritten

\* The agents of the rows are kept and no coroutine is added.
LEMMA RunTyped ==
  ASSUME IInv,
         att' \in [Task -> [Attempt -> AttRow]], exec' \in [Task -> ExecutionRow],
         call' \in [Task -> CallRow], loop' \in [Task -> LoopRow],
         \A u \in Task : exec'[u].agent = exec[u].agent,
         \A u \in Task : call'[u].pc # "off" => call[u].pc # "off"
  PROVE  RunInv'
  BY DEF RunInv, IInv, ManagedRowNamesAgent

\* An execution that is queued for an agent.
LEMMA RunQueued ==
  ASSUME IInv, NEW t \in Task, NEW a \in Agent, NEW k \in Attempt, NEW recovery \in BOOLEAN,
         exec' = [exec EXCEPT ![t] = ExecRow("QUEUED", a, k, TRUE, FALSE)],
         call' = [call EXCEPT ![t] = Call("waiting", recovery)],
         loop' \in [Task -> LoopRow], UNCHANGED att
  PROVE  RunInv'
  <1> DEFINE e == ExecRow("QUEUED", a, k, TRUE, FALSE)
             c == Call("waiting", recovery)
  <1>1. e \in ExecutionRow /\ e.agent = a
    BY DEF ExecRow, ExecutionRow
  <1>2. c \in CallRow
    BY CallTyped
  <1>3. exec' = [exec EXCEPT ![t] = e] /\ call' = [call EXCEPT ![t] = c]
    OBVIOUS
  <1> HIDE DEF e, c
  <1>4. /\ exec \in [Task -> ExecutionRow] /\ call \in [Task -> CallRow]
        /\ att \in [Task -> [Attempt -> AttRow]] /\ ManagedRowNamesAgent
    BY DEF IInv, TypeOK
  <1>5. exec' \in [Task -> ExecutionRow] /\ call' \in [Task -> CallRow]
    BY <1>1, <1>2, <1>3, <1>4
  <1>6. ManagedRowNamesAgent'
    <2>1. exec'[t].agent # None
      BY <1>1, <1>3, <1>4
    <2>2. \A u \in Task : u # t => exec'[u] = exec[u] /\ call'[u] = call[u]
      BY <1>3, <1>4
    <2>3. QED
      BY <1>4, <2>1, <2>2 DEF ManagedRowNamesAgent
  <1>7. QED
    BY <1>4, <1>5, <1>6 DEF RunInv

\* A coroutine acts for the agent of its row: a task that agent owns is owned.
LEMMA ActsForOwner ==
  ASSUME IInv, NEW t \in Task, call[t].pc # "off", task[t].owner = exec[t].agent
  PROVE  Owned(t)
  BY RunColumns DEF Owned

-----------------------------------------------------------------------------
(* Agents again: handles and cancellation.                                 *)

\* saveHandle keeps everything.
LEMMA SaveHandleStep ==
  ASSUME IInv, NEW t \in Task, SaveHandle(t)
  PROVE  StepOK
  <1> DEFINE k == task[t].attempt
             q == att[t][k]
             r == HandleSaved(t, k, task[t].owner)
  <1>1. /\ Owned(t) /\ att' = [att EXCEPT ![t][k] = r]
        /\ UNCHANGED <<task, deps, verification, deliverable, exec, call, loop>>
    BY DEF SaveHandle, UNCHANGED_RESULT
  <1>2. k \in Attempt /\ q \in AttRow /\ task[t].owner \in Agent \cup {None}
    BY RunColumns
  <1>3. r \in AttRow
    <2>1. r = IF q.status = "none" THEN AttemptRow("open", task[t].owner, TRUE, FALSE)
              ELSE AttemptRow(q.status, task[t].owner, TRUE, q.resumable)
      BY DEF HandleSaved
    <2> HIDE DEF q, r
    <2>2. AttemptRow("open", task[t].owner, TRUE, FALSE) \in AttRow
      BY <1>2 DEF AttemptRow, AttRow
    <2>3. AttemptRow(q.status, task[t].owner, TRUE, q.resumable) \in AttRow
      BY <1>2 DEF AttemptRow, AttRow
    <2>4. QED
      BY <2>1, <2>2, <2>3
  <1> HIDE DEF k, q, r
  <1>4. att' \in [Task -> [Attempt -> AttRow]]
    BY <1>1, <1>2, <1>3, AttWritten
  <1>5. RunInv'
    BY <1>1, <1>4 DEF RunInv, IInv, TypeOK, ManagedRowNamesAgent
  <1>6. QED
    BY <1>1, <1>5, KeptStep

\* A cancellation request keeps everything: it cancels the task only on the branch that also
\* stops the row, and only a task that is owned.
LEMMA RequestCancelStep ==
  ASSUME IInv, NEW t \in Task, RequestCancel(t)
  PROVE  StepOK
  <1> DEFINE e == exec[t]
  <1>1. Owned(t) /\ UNCHANGED <<deps, verification, deliverable, att, call, loop>>
    BY DEF RequestCancel, UNCHANGED_RESULT
  <1>2. /\ e.phase \in ExecPhase /\ e.stop \in BOOLEAN /\ e.cancel \in BOOLEAN
        /\ exec \in [Task -> ExecutionRow]
    BY RunColumns DEF IInv, TypeOK
  <1>3. CASE /\ e.phase \in Cancellable /\ Legal(task[t].state, "CANCELLED")
             /\ Update(t, Moved(task[t], "CANCELLED"))
             /\ exec' = IF e.phase = "none" THEN exec
                        ELSE SetExec(t, "STOPPED", TRUE, e.cancel \/ e.phase # "STOPPED")
    <2> DEFINE c == e.cancel \/ e.phase # "STOPPED"
    <2>1. c \in BOOLEAN
      BY <1>2
    <2>2. ASSUME exec' = SetExec(t, "STOPPED", TRUE, c)
          PROVE  /\ exec' \in [Task -> ExecutionRow] /\ exec'[t].stop = TRUE
                 /\ \A u \in Task : exec'[u].agent = exec[u].agent
      <3> HIDE DEF c
      <3>1. "STOPPED" \in ExecPhase /\ TRUE \in BOOLEAN
        BY DEF ExecPhase
      <3>2. QED
        BY <2>1, <2>2, <3>1, ExecSet
    <2>3. /\ exec' \in [Task -> ExecutionRow]
          /\ \A u \in Task : exec'[u].agent = exec[u].agent
          /\ e.phase # "none" => exec'[t].stop
      BY <1>2, <1>3, <2>2
    <2>4. RunInv'
      BY <1>1, <2>3, RunTyped DEF IInv, TypeOK
    <2>5. e.phase \notin {"RUNNING", "QUARANTINED"}
      BY <1>3 DEF Cancellable
    <2>6. QED
      BY <1>1, <1>3, <2>3, <2>4, <2>5, CancelStep
  <1>4. CASE exec' = SetExec(t, e.phase, e.stop, TRUE) /\ UNCHANGED task
    <2>1. /\ exec' \in [Task -> ExecutionRow]
          /\ \A u \in Task : exec'[u].agent = exec[u].agent
      <3>1. TRUE \in BOOLEAN
        OBVIOUS
      <3>2. QED
        BY <1>2, <1>4, <3>1, ExecSet
    <2>2. RunInv'
      BY <1>1, <2>1, RunTyped DEF IInv, TypeOK
    <2>3. QED
      BY <1>1, <1>4, <2>2, KeptStep
  <1>5. QED
    BY <1>3, <1>4 DEF RequestCancel

\* A shutdown only marks the row.
LEMMA ShutdownStep ==
  ASSUME IInv, NEW t \in Task, Shutdown(t)
  PROVE  StepOK
  <1>1. /\ exec' = SetExec(t, exec[t].phase, exec[t].stop, TRUE)
        /\ UNCHANGED <<task, deps, verification, deliverable, att, call, loop>>
    BY DEF Shutdown, UNCHANGED_RESULT
  <1>2. /\ exec' \in [Task -> ExecutionRow]
        /\ \A u \in Task : exec'[u].agent = exec[u].agent
    <2>1. exec[t].phase \in ExecPhase /\ exec[t].stop \in BOOLEAN /\ TRUE \in BOOLEAN
      BY RunColumns
    <2>2. QED
      BY <1>1, <2>1, ExecSet
  <1>3. RunInv'
    BY <1>1, <1>2, RunTyped DEF IInv, TypeOK
  <1>4. QED
    BY <1>1, <1>3, KeptStep

-----------------------------------------------------------------------------
(* Delegation.                                                             *)

\* Steps that only move the loop.
LEMMA LoopStep ==
  ASSUME IInv, loop' \in [Task -> LoopRow],
         UNCHANGED <<task, deps, verification, deliverable, att, exec, call>>
  PROVE  StepOK
  <1>1. RunInv'
    BY DEF RunInv, IInv, TypeOK, ManagedRowNamesAgent
  <1>2. QED
    BY <1>1, KeptStep

\* Starting a delegation keeps everything.
LEMMA StartDelegationStep ==
  ASSUME IInv, NEW t \in Task, StartDelegation(t)
  PROVE  StepOK
  BY LoopStarted, LoopStep DEF StartDelegation, UNCHANGED_RESULT

\* Continuing a delegation keeps everything.
LEMMA ContinueTaskStep ==
  ASSUME IInv, NEW t \in Task, ContinueTask(t)
  PROVE  StepOK
  BY LoopStarted, LoopStep DEF ContinueTask, UNCHANGED_RESULT

\* A refused place in the queue keeps everything.
LEMMA QueueRefusedStep ==
  ASSUME IInv, NEW t \in Task, QueueRefused(t)
  PROVE  StepOK
  <1>1. loop' \in [Task -> LoopRow]
    BY SetLoopTyped DEF QueueRefused, LoopPc
  <1>2. QED
    BY <1>1, LoopStep DEF QueueRefused, UNCHANGED_RESULT

\* The retry decision keeps everything: it reads, and moves the loop.
LEMMA DecideRetryStep ==
  ASSUME IInv, NEW t \in Task, DecideRetry(t)
  PROVE  StepOK
  <1>1. loop' \in [Task -> LoopRow]
    <2>1. CASE loop' = SetLoop(t, "again")
      BY <2>1, SetLoopTyped DEF LoopPc
    <2>2. CASE loop' = SetLoop(t, "off")
      BY <2>2, SetLoopTyped DEF LoopPc
    <2>3. QED
      BY <2>1, <2>2 DEF DecideRetry
  <1>2. QED
    BY <1>1, LoopStep DEF DecideRetry, UNCHANGED_RESULT

\* Queueing an attempt keeps everything: claim, a fresh execution row and its coroutine.
LEMMA QueueAttemptStep ==
  ASSUME IInv, NEW t \in Task, QueueAttempt(t)
  PROVE  StepOK
  <1> DEFINE a == Delegate[t]
             r == ClaimedBy(t, a)
  <1>1. /\ Claimable(t, a) /\ Update(t, r)
        /\ exec' = [exec EXCEPT ![t] = ExecRow("QUEUED", a, loop[t].attempt, TRUE, FALSE)]
        /\ call' = [call EXCEPT ![t] = Call("waiting", FALSE)]
        /\ loop' = SetLoop(t, "busy")
        /\ UNCHANGED <<deps, verification, deliverable, att>>
    BY DEF QueueAttempt, UNCHANGED_RESULT
  <1>2. a \in Agent /\ a # None
    OBVIOUS
  <1> HIDE DEF a
  <1>3. RunInv'
    <2>1. loop[t].attempt \in Attempt /\ loop' \in [Task -> LoopRow]
      BY <1>1, RunColumns, SetLoopTyped DEF LoopPc
    <2>2. FALSE \in BOOLEAN
      OBVIOUS
    <2>3. QED
      BY <1>1, <1>2, <2>1, <2>2, RunQueued
  <1>4. CASE Owned(t)
    <2>1. r = task[t]
      BY <1>4 DEF ClaimedBy
    <2>2. GoodRow(task[t]) /\ Stands(task[t], task[t])
      BY <1>4, InvParts, OwnedExists, CreatedRow DEF Stands
    <2> HIDE DEF r
    <2>3. QED
      BY <1>1, <1>3, <2>1, <2>2, RowStep
  <1>5. CASE ~Owned(t)
    <2>1. task[t].state = "PENDING"
      BY <1>1, <1>2, <1>5 DEF Claimable, Owned
    <2>2. r = Row("CLAIMED", a, task[t].attempt, task[t].blocked)
      BY <1>5 DEF ClaimedBy
    <2>3. task[t].attempt \in Attempt /\ task[t].blocked \in BOOLEAN
      BY RunColumns
    <2> HIDE DEF r
    <2>4. r \in TaskRow /\ r.state = "CLAIMED" /\ r.owner = a
      BY <1>2, <2>2, <2>3, RowTyped DEF State
    <2>5. GoodRow(r) /\ Stands(task[t], r)
      BY <1>2, <2>1, <2>4 DEF GoodRow, Stands
    <2>6. QED
      BY <1>1, <1>3, <2>4, <2>5, RowStep
  <1>6. QED
    BY <1>4, <1>5

\* Admission keeps everything.
LEMMA AdmitStep ==
  ASSUME IInv, NEW t \in Task, Admit(t)
  PROVE  StepOK
  <1>1. /\ exec' = SetExec(t, "RUNNING", exec[t].stop, FALSE) /\ call' = SetCall(t, "admitted")
        /\ call[t].pc = "waiting"
        /\ UNCHANGED <<task, deps, verification, deliverable, att, loop>>
    BY DEF Admit, UNCHANGED_RESULT
  <1>2. /\ exec' \in [Task -> ExecutionRow]
        /\ \A u \in Task : exec'[u].agent = exec[u].agent
    <2>1. "RUNNING" \in ExecPhase /\ exec[t].stop \in BOOLEAN /\ FALSE \in BOOLEAN
      BY RunColumns DEF ExecPhase
    <2>2. QED
      BY <1>1, <2>1, ExecSet
  <1>3. /\ call' \in [Task -> CallRow]
        /\ \A u \in Task : u # t => call'[u] = call[u]
    BY <1>1, SetCallTyped DEF CallPc
  <1>4. RunInv'
    BY <1>1, <1>2, <1>3, RunTyped DEF IInv, TypeOK
  <1>5. QED
    BY <1>1, <1>4, KeptStep

\* Leaving the queue keeps everything.
LEMMA LeaveQueueStep ==
  ASSUME IInv, NEW t \in Task, LeaveQueue(t)
  PROVE  StepOK
  <1>1. /\ exec' = SetExec(t, "STOPPED", TRUE, exec[t].cancel) /\ call' = SetCall(t, "abandoning")
        /\ call[t].pc = "waiting"
        /\ UNCHANGED <<deps, verification, deliverable, att, loop>>
    BY DEF LeaveQueue, UNCHANGED_RESULT
  <1>2. /\ exec' \in [Task -> ExecutionRow] /\ exec'[t].stop
        /\ \A u \in Task : exec'[u].agent = exec[u].agent
    <2>1. "STOPPED" \in ExecPhase /\ TRUE \in BOOLEAN /\ exec[t].cancel \in BOOLEAN
      BY RunColumns DEF ExecPhase
    <2>2. QED
      BY <1>1, <2>1, ExecSet
  <1>3. /\ call' \in [Task -> CallRow] /\ call'[t].pc = "abandoning"
        /\ \A u \in Task : u # t => call'[u] = call[u]
    BY <1>1, SetCallTyped DEF CallPc
  <1>4. RunInv'
    BY <1>1, <1>2, <1>3, RunTyped DEF IInv, TypeOK
  <1>5. CASE UNCHANGED task
    BY <1>1, <1>4, <1>5, KeptStep
  <1>6. CASE /\ task[t].owner = exec[t].agent /\ Legal(task[t].state, "CANCELLED")
             /\ Update(t, Moved(task[t], "CANCELLED"))
    <2>1. Owned(t)
      BY <1>1, <1>6, ActsForOwner
    <2>2. QED
      BY <1>1, <1>2, <1>3, <1>4, <1>6, <2>1, CancelStep
  <1>7. QED
    BY <1>5, <1>6 DEF LeaveQueue

\* Authorising an attempt keeps everything.
LEMMA AuthorizeStep ==
  ASSUME IInv, NEW t \in Task, Authorize(t)
  PROVE  StepOK
  <1> DEFINE k == exec[t].attempt
             q == att[t][k]
             r == IF q.status = "none" THEN AttemptRow("open", exec[t].agent, FALSE, FALSE)
                  ELSE AttemptRow(q.status, exec[t].agent, q.handle, q.resumable)
             l == Loop("busy", loop[t].attempt, loop[t].limit, TRUE)
  <1>1. /\ call[t] = Call("admitted", FALSE) /\ task[t].owner = exec[t].agent
        /\ att' = [att EXCEPT ![t][k] = r]
        /\ exec' = SetExec(t, exec[t].phase, FALSE, FALSE) /\ call' = SetCall(t, "invoking")
        /\ loop' = [loop EXCEPT ![t] = l]
        /\ UNCHANGED <<deps, verification, deliverable>>
    BY DEF Authorize, UNCHANGED_RESULT
  <1>2. call[t].pc = "admitted"
    BY <1>1 DEF Call
  <1>3. att' \in [Task -> [Attempt -> AttRow]]
    <2>1. k \in Attempt /\ q \in AttRow /\ exec[t].agent \in Agent \cup {None}
      BY RunColumns
    <2>2. r \in AttRow
      <3> HIDE DEF q
      <3>1. QED
        BY <2>1 DEF AttemptRow, AttRow
    <2> HIDE DEF k, r
    <2>3. QED
      BY <1>1, <2>1, <2>2, AttWritten
  <1>4. loop' \in [Task -> LoopRow]
    <2>1. l \in LoopRow
      BY RunColumns DEF Loop, LoopRow, LoopPc
    <2> HIDE DEF l
    <2>2. QED
      BY <1>1, <2>1, LoopWritten
  <1> HIDE DEF k, r, l
  <1>5. /\ exec' \in [Task -> ExecutionRow]
        /\ \A u \in Task : exec'[u].agent = exec[u].agent
    <2>1. exec[t].phase \in ExecPhase /\ FALSE \in BOOLEAN
      BY RunColumns
    <2>2. QED
      BY <1>1, <2>1, ExecSet
  <1>6. /\ call' \in [Task -> CallRow] /\ \A u \in Task : u # t => call'[u] = call[u]
    BY <1>1, SetCallTyped DEF CallPc
  <1>7. RunInv'
    BY <1>2, <1>3, <1>4, <1>5, <1>6, RunTyped
  <1>8. CASE UNCHANGED task
    BY <1>1, <1>7, <1>8, KeptStep
  <1>9. CASE MayMove(t, "WORKING") /\ Update(t, Moved(task[t], "WORKING"))
    <2>1. Owned(t)
      BY <1>1, <1>2, ActsForOwner
    <2>2. Legal(task[t].state, "WORKING") /\ Update(t, Moved(task[t], "WORKING"))
      BY <1>9 DEF MayMove
    <2>3. UNCHANGED <<deps, verification, deliverable>>
      BY <1>1
    <2>4. QED
      BY <1>7, <2>1, <2>2, <2>3, MovedStep
  <1>10. QED
    BY <1>8, <1>9 DEF Authorize

\* Abandoning an attempt keeps everything.
LEMMA AbandonAttemptStep ==
  ASSUME IInv, NEW t \in Task, AbandonAttempt(t)
  PROVE  StepOK
  <1>1. /\ exec' = SetExec(t, "STOPPED", TRUE, exec[t].cancel) /\ call' = NoCallAt(t)
        /\ call[t].pc \in {"admitted", "abandoning"}
        /\ UNCHANGED <<deps, verification, deliverable, att>>
    BY DEF AbandonAttempt, UNCHANGED_RESULT
  <1>2. /\ exec' \in [Task -> ExecutionRow]
        /\ \A u \in Task : exec'[u].agent = exec[u].agent
    <2>1. "STOPPED" \in ExecPhase /\ TRUE \in BOOLEAN /\ exec[t].cancel \in BOOLEAN
      BY RunColumns DEF ExecPhase
    <2>2. QED
      BY <1>1, <2>1, ExecSet
  <1>3. /\ call' \in [Task -> CallRow] /\ \A u \in Task : call'[u].pc # "off" => call[u].pc # "off"
    BY <1>1, NoCallTyped
  <1>4. CASE /\ task[t].owner = exec[t].agent /\ Legal(task[t].state, "BLOCKED")
             /\ Update(t, Blocked(task[t])) /\ loop' = LoopAfter(t, "contended")
    <2>1. loop' \in [Task -> LoopRow]
      BY <1>4, LoopAfterTyped DEF LoopPc
    <2>2. RunInv'
      BY <1>1, <1>2, <1>3, <2>1, RunTyped DEF IInv, TypeOK
    <2>3. Owned(t)
      BY <1>1, <1>4, ActsForOwner
    <2>4. QED
      BY <1>1, <1>4, <2>2, <2>3, BlockedStep
  <1>5. CASE UNCHANGED task /\ \E pc \in {"failed", "off"} : loop' = LoopAfter(t, pc)
    <2>1. loop' \in [Task -> LoopRow]
      BY <1>5, LoopAfterTyped DEF LoopPc
    <2>2. RunInv'
      BY <1>1, <1>2, <1>3, <2>1, RunTyped DEF IInv, TypeOK
    <2>3. QED
      BY <1>1, <1>5, <2>2, KeptStep
  <1>6. QED
    BY <1>4, <1>5 DEF AbandonAttempt

\* A retry keeps everything: it resets only a task without a verdict.
LEMMA RetryStep ==
  ASSUME IInv, NEW t \in Task, Retry(t)
  PROVE  StepOK
  <1>1. UNCHANGED <<deps, verification, deliverable, att, exec, call>>
    BY DEF Retry, UNCHANGED_RESULT
  <1>2. CASE loop' = SetLoop(t, "off") /\ UNCHANGED task
    <2>1. loop' \in [Task -> LoopRow]
      BY <1>2, SetLoopTyped DEF LoopPc
    <2>2. QED
      BY <1>1, <1>2, <2>1, LoopStep
  <1>3. CASE /\ Resettable(t) /\ task[t].attempt < MaxAttempt /\ loop[t].attempt < MaxAttempt
             /\ Update(t, Reset(task[t]))
             /\ loop' = [loop EXCEPT ![t] = Loop("queue", @.attempt + 1, @.limit, @.authorized)]
    <2> DEFINE l == Loop("queue", loop[t].attempt + 1, loop[t].limit, loop[t].authorized)
               r == Reset(task[t])
    <2>1. l \in LoopRow
      BY <1>3, RunColumns DEF Loop, LoopRow
    <2>2. loop' = [loop EXCEPT ![t] = l]
      BY <1>3
    <2> HIDE DEF l
    <2>3. loop' \in [Task -> LoopRow]
      BY <2>1, <2>2, LoopWritten
    <2>4. RunInv'
      BY <1>1, <2>3 DEF RunInv, IInv, TypeOK, ManagedRowNamesAgent
    <2>5. task[t].attempt + 1 \in Attempt
      BY <1>3, RunColumns
    <2>6. /\ r \in TaskRow /\ r.state = "PENDING" /\ r.owner = None
      BY <2>5 DEF Reset, Row, TaskRow, State
    <2>7. task[t].state \notin {"DONE", "CANCELLED"}
      BY <1>3, LegalMoves DEF Resettable, Terminal
    <2> HIDE DEF r
    <2>8. GoodRow(r) /\ Stands(task[t], r)
      BY <2>6, <2>7 DEF GoodRow, Stands
    <2>9. Update(t, r)
      BY <1>3 DEF r
    <2>10. QED
      BY <1>1, <2>4, <2>6, <2>8, <2>9, RowStep
  <1>4. QED
    BY <1>2, <1>3 DEF Retry

-----------------------------------------------------------------------------
(* The end of an invocation.                                               *)

\* A report of the runtime keeps everything.
LEMMA ReportStep ==
  ASSUME IInv, NEW t \in Task, NEW stopped \in BOOLEAN, Report(t, stopped)
  PROVE  StepOK
  <1> DEFINE p == IF exec[t].phase = "QUARANTINED" THEN "STOPPED" ELSE exec[t].phase
  <1>1. /\ exec' = SetExec(t, p, stopped, exec[t].cancel)
        /\ UNCHANGED <<task, deps, verification, deliverable, att, call, loop>>
    BY DEF Report, UNCHANGED_RESULT
  <1>2. p \in ExecPhase /\ exec[t].cancel \in BOOLEAN
    BY RunColumns DEF ExecPhase
  <1> HIDE DEF p
  <1>3. /\ exec' \in [Task -> ExecutionRow]
        /\ \A u \in Task : exec'[u].agent = exec[u].agent
    BY <1>1, <1>2, ExecSet
  <1>4. RunInv'
    BY <1>1, <1>3, RunTyped DEF IInv, TypeOK
  <1>5. QED
    BY <1>1, <1>4, KeptStep

\* What the final transaction leaves of the execution, the attempt and the coroutine.
LEMMA RunEnded ==
  ASSUME IInv, NEW t \in Task, NEW stopped \in BOOLEAN, NEW b \in BOOLEAN, NEW p \in LoopPc,
         call[t].pc = "invoking",
         att' = EndedAttempt(t, exec[t].attempt, b), exec' = Concluded(t, stopped),
         call' = NoCallAt(t), loop' = LoopAfter(t, p)
  PROVE  RunInv' /\ exec'[t].stop = stopped /\ call'[t].pc = "off"
  <1> DEFINE ph == IF stopped THEN "STOPPED" ELSE "QUARANTINED"
  <1>1. ph \in ExecPhase /\ exec[t].cancel \in BOOLEAN /\ exec[t].attempt \in Attempt
    BY RunColumns DEF ExecPhase
  <1>2. exec' = SetExec(t, ph, stopped, exec[t].cancel)
    BY DEF Concluded
  <1> HIDE DEF ph
  <1>3. /\ exec' \in [Task -> ExecutionRow] /\ exec'[t].stop = stopped
        /\ \A u \in Task : exec'[u].agent = exec[u].agent
    BY <1>1, <1>2, ExecSet
  <1>4. /\ call' \in [Task -> CallRow] /\ call'[t].pc = "off"
        /\ \A u \in Task : call'[u].pc # "off" => call[u].pc # "off"
    BY NoCallTyped
  <1>5. att' \in [Task -> [Attempt -> AttRow]] /\ loop' \in [Task -> LoopRow]
    BY <1>1, EndedAttemptTyped, LoopAfterTyped
  <1>6. QED
    BY <1>3, <1>4, <1>5, RunTyped

\* Committing a result keeps everything.
LEMMA FinishStep ==
  ASSUME IInv, NEW t \in Task, NEW status \in Status, NEW e \in Evidence, Finish(t, status, e)
  PROVE  StepOK
  <1> DEFINE m == Merged(t, e)
             v == Downgraded(status, m)
  <1>1. /\ call[t].pc = "invoking" /\ Submittable(t, v) /\ Deliver(t, v, m)
        /\ att' = EndedAttempt(t, exec[t].attempt, FALSE) /\ exec' = Concluded(t, TRUE)
        /\ call' = NoCallAt(t) /\ loop' = LoopAfter(t, "off")
    BY DEF Finish
  <1>2. RunInv'
    <2>1. TRUE \in BOOLEAN /\ FALSE \in BOOLEAN /\ "off" \in LoopPc
      BY DEF LoopPc
    <2>2. QED
      BY <1>1, <2>1, RunEnded
  <1>3. m \in Evidence
    BY InvParts, EvidenceTyped
  <1>4. v \in Status /\ (v = "COMPLETE" => Verified(m))
    BY DEF Downgraded, Status
  <1>5. Owned(t) /\ Accepts(task[t].state, v)
    BY <1>1, ActsForOwner DEF Submittable
  <1> HIDE DEF m, v
  <1>6. QED
    BY <1>1, <1>2, <1>3, <1>4, <1>5, ResultStep

\* Committing a failure keeps everything.
LEMMA FailStep ==
  ASSUME IInv, NEW t \in Task, NEW fault \in Fault, NEW stopped \in BOOLEAN,
         Fail(t, fault, stopped)
  PROVE  StepOK
  <1> DEFINE b == fault \in Resumable
             p == IF fault \in Retryable THEN "failed" ELSE "off"
             f == FailureState(t, stopped)
  <1>1. /\ call[t].pc = "invoking"
        /\ att' = EndedAttempt(t, exec[t].attempt, b) /\ exec' = Concluded(t, stopped)
        /\ call' = NoCallAt(t) /\ loop' = LoopAfter(t, p)
        /\ UNCHANGED <<deps, verification, deliverable>>
    BY DEF Fail, UNCHANGED_RESULT
  <1>2. b \in BOOLEAN /\ p \in LoopPc
    BY DEF LoopPc
  <1> HIDE DEF b, p
  <1>3. RunInv' /\ exec'[t].stop = stopped /\ call'[t].pc = "off"
    BY <1>1, <1>2, RunEnded
  <1>4. CASE UNCHANGED task
    BY <1>1, <1>3, <1>4, KeptStep
  <1>5. CASE /\ task[t].owner = exec[t].agent /\ Legal(task[t].state, f)
             /\ Update(t, FailedRow(t, stopped))
    <2>1. Owned(t)
      BY <1>1, <1>5, ActsForOwner
    <2>2. f \in {"CANCELLED", "BLOCKED", "FAILED"} /\ (f = "CANCELLED" => stopped)
      BY DEF FailureState
    <2>3. CASE f = "BLOCKED"
      <3>1. FailedRow(t, stopped) = Blocked(task[t])
        BY <2>3 DEF FailedRow
      <3>2. QED
        BY <1>1, <1>3, <1>5, <2>1, <2>3, <3>1, BlockedStep
    <2>4. CASE f # "BLOCKED"
      <3>1. FailedRow(t, stopped) = Moved(task[t], f)
        BY <2>4 DEF FailedRow
      <3>2. CASE f = "CANCELLED"
        BY <1>1, <1>3, <1>5, <2>1, <2>2, <3>1, <3>2, CancelStep
      <3>3. CASE f = "FAILED"
        BY <1>1, <1>3, <1>5, <2>1, <3>1, <3>3, MovedStep
      <3>4. QED
        BY <2>2, <2>4, <3>2, <3>3
    <2>5. QED
      BY <2>3, <2>4
  <1>6. QED
    BY <1>4, <1>5 DEF Fail

\* A final transaction that throws keeps everything.
LEMMA CommitThrowsStep ==
  ASSUME IInv, NEW t \in Task, NEW stopped \in BOOLEAN, CommitThrows(t, stopped)
  PROVE  StepOK
  <1> DEFINE p == IF stopped THEN "RUNNING" ELSE "QUARANTINED"
  <1>1. /\ exec' = SetExec(t, p, stopped, exec[t].cancel)
        /\ call' = NoCallAt(t) /\ loop' = LoopAfter(t, "off")
        /\ UNCHANGED <<task, deps, verification, deliverable, att>>
    BY DEF CommitThrows, UNCHANGED_RESULT
  <1>2. p \in ExecPhase /\ exec[t].cancel \in BOOLEAN
    BY RunColumns DEF ExecPhase
  <1> HIDE DEF p
  <1>3. /\ exec' \in [Task -> ExecutionRow]
        /\ \A u \in Task : exec'[u].agent = exec[u].agent
    BY <1>1, <1>2, ExecSet
  <1>4. /\ call' \in [Task -> CallRow] /\ loop' \in [Task -> LoopRow]
        /\ \A u \in Task : call'[u].pc # "off" => call[u].pc # "off"
    BY <1>1, NoCallTyped, LoopAfterTyped DEF LoopPc
  <1>5. RunInv'
    BY <1>1, <1>3, <1>4, RunTyped DEF IInv, TypeOK
  <1>6. QED
    BY <1>1, <1>5, KeptStep

-----------------------------------------------------------------------------
(* Recovery.                                                               *)

\* Queueing a recovery keeps everything.
LEMMA QueueRecoveryStep ==
  ASSUME IInv, NEW t \in Task, QueueRecovery(t)
  PROVE  StepOK
  <1> DEFINE a == task[t].owner
             k == task[t].attempt + 1
  <1>1. /\ Owned(t) /\ Resumes(t)
        /\ exec' = [exec EXCEPT ![t] = ExecRow("QUEUED", a, k, TRUE, FALSE)]
        /\ call' = [call EXCEPT ![t] = Call("waiting", TRUE)]
        /\ loop' = IF loop[t].pc = "busy" THEN SetLoop(t, "off") ELSE loop
        /\ UNCHANGED <<task, deps, verification, deliverable, att>>
    BY DEF QueueRecovery, UNCHANGED_RESULT
  <1>2. a \in Agent
    BY <1>1, InvParts, OwnedExists
  <1>3. k \in Attempt /\ TRUE \in BOOLEAN
    BY <1>1, RunColumns DEF Resumes
  <1>4. loop' \in [Task -> LoopRow]
    <2>1. SetLoop(t, "off") \in [Task -> LoopRow] /\ loop \in [Task -> LoopRow]
      BY SetLoopTyped DEF LoopPc, IInv, TypeOK
    <2>2. QED
      BY <1>1, <2>1
  <1> HIDE DEF a, k
  <1>5. RunInv'
    BY <1>1, <1>2, <1>3, <1>4, RunQueued
  <1>6. QED
    BY <1>1, <1>5, KeptStep

\* Authorising a recovery keeps everything: the task was FAILED or BLOCKED, and reopens with the
\* agent of its row and no blocker.
LEMMA AuthorizeRecoveryStep ==
  ASSUME IInv, NEW t \in Task, AuthorizeRecovery(t)
  PROVE  StepOK
  <1> DEFINE k == task[t].attempt
             q == att[t][k]
             x == IF q.status = "open" THEN AttemptRow("ended", q.agent, TRUE, FALSE) ELSE q
             y == AttemptRow("open", exec[t].agent, TRUE, FALSE)
             r == Row("WORKING", exec[t].agent, k + 1, FALSE)
  <1>1. /\ call[t] = Call("admitted", TRUE) /\ task[t].owner = exec[t].agent
        /\ Recoverable(t) /\ Resumes(t) /\ Update(t, r)
        /\ att' = [att EXCEPT ![t][k] = x, ![t][k + 1] = y]
        /\ exec' = SetExec(t, exec[t].phase, FALSE, FALSE) /\ call' = SetCall(t, "invoking")
        /\ UNCHANGED <<deps, verification, deliverable, loop>>
    BY DEF AuthorizeRecovery, UNCHANGED_RESULT
  <1>2. call[t].pc = "admitted"
    BY <1>1 DEF Call
  <1>3. /\ k \in Attempt /\ k + 1 \in Attempt /\ q \in AttRow
        /\ exec[t].agent \in Agent /\ exec[t].agent # None
    <2>1. /\ exec[t].agent \in Agent \cup {None} /\ exec[t].agent # None
          /\ task[t].attempt \in Attempt
      BY <1>2, RunColumns
    <2>2. k + 1 \in Attempt
      BY <1>1, <2>1 DEF Resumes
    <2>3. q \in AttRow
      BY <2>1, RunColumns
    <2>4. QED
      BY <2>1, <2>2, <2>3
  <1>4. att' \in [Task -> [Attempt -> AttRow]]
    <2>1. x \in AttRow
      <3> HIDE DEF q
      <3>1. QED
        BY <1>3 DEF AttemptRow, AttRow
    <2>2. y \in AttRow
      BY <1>3 DEF AttemptRow, AttRow
    <2>3. att \in [Task -> [Attempt -> AttRow]]
      BY DEF IInv, TypeOK
    <2> HIDE DEF k, x, y
    <2>4. QED
      BY <1>1, <1>3, <2>1, <2>2, <2>3
  <1>5. task[t].state \notin {"absent", "PENDING", "DONE", "CANCELLED"}
    BY <1>1 DEF Recoverable
  <1>6. r \in TaskRow /\ r.state = "WORKING" /\ r.owner = exec[t].agent /\ r.blocked = FALSE
    BY <1>3 DEF Row, TaskRow, State
  <1> HIDE DEF k, q, x, y, r
  <1>7. GoodRow(r) /\ Stands(task[t], r)
    BY <1>3, <1>5, <1>6 DEF GoodRow, Stands
  <1>8. /\ exec' \in [Task -> ExecutionRow]
        /\ \A u \in Task : exec'[u].agent = exec[u].agent
    <2>1. exec[t].phase \in ExecPhase /\ FALSE \in BOOLEAN
      BY RunColumns
    <2>2. QED
      BY <1>1, <2>1, ExecSet
  <1>9. /\ call' \in [Task -> CallRow] /\ \A u \in Task : u # t => call'[u] = call[u]
    BY <1>1, SetCallTyped DEF CallPc
  <1>10. RunInv'
    BY <1>1, <1>2, <1>4, <1>8, <1>9, RunTyped DEF IInv, TypeOK
  <1>11. QED
    BY <1>1, <1>6, <1>7, <1>10, RowStep

\* Abandoning a recovery keeps everything.
LEMMA AbandonRecoveryStep ==
  ASSUME IInv, NEW t \in Task, AbandonRecovery(t)
  PROVE  StepOK
  <1>1. /\ call[t].pc \in {"admitted", "abandoning"} /\ call' = NoCallAt(t)
        /\ UNCHANGED <<deps, verification, deliverable, att, loop>>
    BY DEF AbandonRecovery, UNCHANGED_RESULT
  <1>2. /\ call' \in [Task -> CallRow] /\ \A u \in Task : call'[u].pc # "off" => call[u].pc # "off"
    BY <1>1, NoCallTyped
  <1>3. /\ exec' \in [Task -> ExecutionRow]
        /\ \A u \in Task : exec'[u].agent = exec[u].agent
    <2>1. CASE exec' = SetExec(t, "STOPPED", TRUE, exec[t].cancel)
      <3>1. "STOPPED" \in ExecPhase /\ TRUE \in BOOLEAN /\ exec[t].cancel \in BOOLEAN
        BY RunColumns DEF ExecPhase
      <3>2. QED
        BY <2>1, <3>1, ExecSet
    <2>2. CASE UNCHANGED exec
      BY <2>2 DEF IInv, TypeOK
    <2>3. QED
      BY <2>1, <2>2 DEF AbandonRecovery
  <1>4. RunInv'
    BY <1>1, <1>2, <1>3, RunTyped DEF IInv, TypeOK
  <1>5. CASE UNCHANGED task
    BY <1>1, <1>4, <1>5, KeptStep
  <1>6. CASE /\ task[t].owner = exec[t].agent /\ Legal(task[t].state, "BLOCKED")
             /\ Update(t, Blocked(task[t]))
    <2>1. Owned(t)
      BY <1>1, <1>6, ActsForOwner
    <2>2. QED
      BY <1>1, <1>4, <1>6, <2>1, BlockedStep
  <1>7. QED
    BY <1>5, <1>6 DEF AbandonRecovery

-----------------------------------------------------------------------------
(* Crashes, reconciliation and replay.                                     *)

\* The crash of a delegating process keeps everything: the tables are as its last commit left them.
LEMMA CrashDelegationStep ==
  ASSUME IInv, NEW t \in Task, CrashDelegation(t)
  PROVE  StepOK
  <1>1. /\ loop' = SetLoop(t, "dead")
        /\ (call' = SetCall(t, "dead") /\ call[t].pc \in Managing) \/ call' = call
        /\ UNCHANGED <<task, deps, verification, deliverable, att, exec>>
    BY DEF CrashDelegation, UNCHANGED_RESULT
  <1>2. loop' \in [Task -> LoopRow]
    BY <1>1, SetLoopTyped DEF LoopPc
  <1>3. /\ call' \in [Task -> CallRow] /\ \A u \in Task : call'[u].pc # "off" => call[u].pc # "off"
    <2>1. CASE call' = SetCall(t, "dead") /\ call[t].pc \in Managing
      BY <2>1, SetCallTyped DEF CallPc, Managing
    <2>2. CASE call' = call
      BY <2>2 DEF IInv, TypeOK
    <2>3. QED
      BY <1>1, <2>1, <2>2
  <1>4. RunInv'
    BY <1>1, <1>2, <1>3, RunTyped DEF IInv, TypeOK
  <1>5. QED
    BY <1>1, <1>4, KeptStep

\* The crash of a recovering process keeps everything.
LEMMA CrashRecoveryStep ==
  ASSUME IInv, NEW t \in Task, CrashRecovery(t)
  PROVE  StepOK
  <1>1. /\ call' = SetCall(t, "dead") /\ call[t].pc \in Managing
        /\ UNCHANGED <<task, deps, verification, deliverable, att, exec, loop>>
    BY DEF CrashRecovery, UNCHANGED_RESULT
  <1>2. /\ call' \in [Task -> CallRow] /\ \A u \in Task : call'[u].pc # "off" => call[u].pc # "off"
    BY <1>1, SetCallTyped DEF CallPc, Managing
  <1>3. RunInv'
    BY <1>1, <1>2, RunTyped DEF IInv, TypeOK
  <1>4. QED
    BY <1>1, <1>3, KeptStep

\* Reconciliation keeps everything.
LEMMA ReconcileStep ==
  ASSUME IInv, NEW t \in Task, Reconcile(t)
  PROVE  StepOK
  <1>1. /\ \/ exec' = SetExec(t, "STOPPED", TRUE, exec[t].cancel)
           \/ exec' = SetExec(t, "QUARANTINED", FALSE, exec[t].cancel)
        /\ call' = NoCallAt(t)
        /\ UNCHANGED <<task, deps, verification, deliverable, att, loop>>
    BY DEF Reconcile, UNCHANGED_RESULT
  <1>2. /\ exec' \in [Task -> ExecutionRow]
        /\ \A u \in Task : exec'[u].agent = exec[u].agent
    <2>1. /\ "STOPPED" \in ExecPhase /\ "QUARANTINED" \in ExecPhase
          /\ TRUE \in BOOLEAN /\ FALSE \in BOOLEAN /\ exec[t].cancel \in BOOLEAN
      BY RunColumns DEF ExecPhase
    <2>2. QED
      BY <1>1, <2>1, ExecSet
  <1>3. /\ call' \in [Task -> CallRow] /\ \A u \in Task : call'[u].pc # "off" => call[u].pc # "off"
    BY <1>1, NoCallTyped
  <1>4. RunInv'
    BY <1>1, <1>2, <1>3, RunTyped DEF IInv, TypeOK
  <1>5. QED
    BY <1>1, <1>4, KeptStep

\* Taking over the row of a dead manager keeps everything.
LEMMA TakeOverStep ==
  ASSUME IInv, NEW t \in Task, TakeOver(t)
  PROVE  StepOK
  <1>1. /\ exec' = SetExec(t, "STOPPED", exec[t].stop, exec[t].cancel) \/ exec' = exec
        /\ loop' = [loop EXCEPT ![t] =
                      Loop("queue", task[t].attempt, task[t].attempt + Retries + 1, FALSE)]
        /\ UNCHANGED <<task, deps, verification, deliverable, att, call>>
    BY DEF TakeOver, UNCHANGED_RESULT
  <1>2. /\ exec' \in [Task -> ExecutionRow]
        /\ \A u \in Task : exec'[u].agent = exec[u].agent
    <2>1. CASE exec' = SetExec(t, "STOPPED", exec[t].stop, exec[t].cancel)
      <3>1. "STOPPED" \in ExecPhase /\ exec[t].stop \in BOOLEAN /\ exec[t].cancel \in BOOLEAN
        BY RunColumns DEF ExecPhase
      <3>2. QED
        BY <2>1, <3>1, ExecSet
    <2>2. CASE exec' = exec
      BY <2>2 DEF IInv, TypeOK
    <2>3. QED
      BY <1>1, <2>1, <2>2
  <1>3. loop' \in [Task -> LoopRow]
    BY <1>1, LoopStarted
  <1>4. RunInv'
    BY <1>1, <1>2, <1>3, RunTyped DEF IInv, TypeOK
  <1>5. QED
    BY <1>1, <1>4, KeptStep

\* Declaring a row uncertain keeps everything.
LEMMA DeclareUncertainStep ==
  ASSUME IInv, NEW t \in Task, DeclareUncertain(t)
  PROVE  StepOK
  <1>1. /\ exec' = exec \/ exec' = SetExec(t, "QUARANTINED", FALSE, exec[t].cancel)
        /\ loop' = SetLoop(t, "off")
        /\ UNCHANGED <<deps, verification, deliverable, att, call>>
    BY DEF DeclareUncertain, UNCHANGED_RESULT
  <1>2. /\ exec' \in [Task -> ExecutionRow]
        /\ \A u \in Task : exec'[u].agent = exec[u].agent
    <2>1. CASE exec' = SetExec(t, "QUARANTINED", FALSE, exec[t].cancel)
      <3>1. "QUARANTINED" \in ExecPhase /\ FALSE \in BOOLEAN /\ exec[t].cancel \in BOOLEAN
        BY RunColumns DEF ExecPhase
      <3>2. QED
        BY <2>1, <3>1, ExecSet
    <2>2. CASE exec' = exec
      BY <2>2 DEF IInv, TypeOK
    <2>3. QED
      BY <1>1, <2>1, <2>2
  <1>3. loop' \in [Task -> LoopRow]
    BY <1>1, SetLoopTyped DEF LoopPc
  <1>4. RunInv'
    BY <1>1, <1>2, <1>3, RunTyped DEF IInv, TypeOK
  <1>5. CASE UNCHANGED task
    BY <1>1, <1>4, <1>5, KeptStep
  <1>6. CASE Owned(t) /\ task[t].state = "WORKING" /\ Update(t, Blocked(task[t]))
    <2>1. Legal(task[t].state, "BLOCKED")
      BY <1>6 DEF Legal, Transitions
    <2>2. QED
      BY <1>1, <1>4, <1>6, <2>1, BlockedStep
  <1>7. QED
    BY <1>5, <1>6 DEF DeclareUncertain

-----------------------------------------------------------------------------
(* Every step, and what follows.                                           *)

\* The empty store satisfies the invariant.
LEMMA InitOK == Init => IInv
  <1> SUFFICES ASSUME Init PROVE IInv
    OBVIOUS
  <1>1. NoEvidence \in Evidence
    BY DEF NoEvidence, Evidence, Verdict
  <1>2. NoTask \in TaskRow /\ NoTask.state = "absent" /\ NoTask.owner = None
    BY DEF NoTask, Row, TaskRow
  <1>3. NoDeliverable \in DeliverableRow /\ NoDeliverable.status = "none"
    BY <1>1 DEF NoDeliverable, Deliverable, DeliverableRow
  <1>4. NoAttempt \in AttRow /\ NoExec \in ExecutionRow
    BY DEF NoAttempt, AttemptRow, AttRow, NoExec, ExecRow, ExecutionRow
  <1>5. NoCall \in CallRow /\ NoCall.pc = "off" /\ NoLoop \in LoopRow
    BY DEF NoCall, Call, CallRow, NoLoop, Loop, LoopRow
  <1>6. TypeOK
    BY <1>1, <1>2, <1>3, <1>4, <1>5 DEF Init, TypeOK
  <1>7. DepsExist /\ NoDependencyDeadlock
    BY DEF Init, DepsExist, NoDependencyDeadlock
  <1>8. OwnedUnlessPending /\ FinishedCarriesNoBlocker /\ CompleteIsFinal /\ ManagedRowNamesAgent
    BY <1>2, <1>3, <1>5
       DEF Init, OwnedUnlessPending, Owned, FinishedCarriesNoBlocker, CompleteIsFinal,
           ManagedRowNamesAgent
  <1>9. QED
    BY <1>6, <1>7, <1>8 DEF IInv

\* A step that changes nothing keeps everything.
LEMMA StutterOK ==
  ASSUME IInv, UNCHANGED vars
  PROVE  StepOK
  <1>1. RunInv' /\ UNCHANGED <<task, deps, verification, deliverable>>
    BY RunKept DEF vars, UNCHANGED_RUN
  <1>2. QED
    BY <1>1, KeptStep

\* Every step keeps the invariant, rewrites no verdict and cancels on evidence.
LEMMA NextOK ==
  ASSUME IInv, Next
  PROVE  StepOK
  <1>1. CASE AgentStep
    <2>1. PICK t \in Task :
            \/ \E D \in SUBSET Task : Create(t, D)
            \/ \E d \in Task : AddDependency(t, d)
            \/ \E a \in Agent : Claim(t, a)
            \/ \E to \in State : SetState(t, to)
            \/ \E c \in Check, v \in Verdict : RecordVerification(t, c, v)
            \/ \E status \in Status, e \in Evidence : Submit(t, status, e)
            \/ Release(t) \/ Block(t) \/ SaveHandle(t) \/ RequestCancel(t)
      BY <1>1 DEF AgentStep
    <2>2. QED
      BY <2>1, CreateStep, AddDependencyStep, ClaimStep, SetStateStep, RecordVerificationStep,
         SubmitStep, ReleaseStep, BlockStep, SaveHandleStep, RequestCancelStep
  <1>2. ASSUME NEW t \in Delegated,
               DelegationStep(t) \/ RecoveryStep(t) \/ InvocationStep(t) \/ OutsideStep(t)
        PROVE  StepOK
    <2>1. t \in Task
      OBVIOUS
    <2>2. CASE DelegationStep(t)
      BY <2>1, <2>2, StartDelegationStep, ContinueTaskStep, QueueAttemptStep, QueueRefusedStep,
         AdmitStep, LeaveQueueStep, AuthorizeStep, AbandonAttemptStep, DecideRetryStep, RetryStep
         DEF DelegationStep
    <2>3. CASE RecoveryStep(t)
      BY <2>1, <2>3, QueueRecoveryStep, AuthorizeRecoveryStep, AbandonRecoveryStep
         DEF RecoveryStep
    <2>4. CASE InvocationStep(t)
      <3>1. CASE \E status \in Status, e \in Evidence : Finish(t, status, e)
        BY <2>1, <3>1, FinishStep
      <3>2. ASSUME NEW stopped \in BOOLEAN, Report(t, stopped)
            PROVE  StepOK
        BY <2>1, <3>2, ReportStep
      <3>3. ASSUME NEW stopped \in BOOLEAN, CommitThrows(t, stopped)
            PROVE  StepOK
        BY <2>1, <3>3, CommitThrowsStep
      <3>4. ASSUME NEW stopped \in BOOLEAN, NEW fault \in Fault, Fail(t, fault, stopped)
            PROVE  StepOK
        BY <2>1, <3>4, FailStep
      <3>5. QED
        BY <2>4, <3>1, <3>2, <3>3, <3>4 DEF InvocationStep
    <2>5. CASE OutsideStep(t)
      BY <2>1, <2>5, ShutdownStep, CrashDelegationStep, CrashRecoveryStep, ReconcileStep,
         TakeOverStep, DeclareUncertainStep
         DEF OutsideStep
    <2>6. QED
      BY <1>2, <2>2, <2>3, <2>4, <2>5
  <1>3. QED
    BY <1>1, <1>2 DEF Next

\* The invariant, by induction: every reachable state satisfies it, for any tasks, agents, checks,
\* delegates, retry budget and number of attempts.
THEOREM Invariance == Spec => []IInv
  <1>1. IInv /\ [Next]_vars => IInv'
    BY StutterOK, NextOK DEF StepOK
  <1>2. QED
    BY InitOK, <1>1, PTL DEF Spec

\* Every table of the store keeps its type.
THEOREM TypeCorrect == Spec => []TypeOK
  <1>1. IInv => TypeOK
    BY DEF IInv
  <1>2. QED
    BY Invariance, <1>1, PTL

\* However edges are added, at creation or later, some task of every set waits for none of the
\* others (addDependency, reaches).
THEOREM DependenciesAcyclic == Spec => []NoDependencyDeadlock
  <1>1. IInv => NoDependencyDeadlock
    BY DEF IInv
  <1>2. QED
    BY Invariance, <1>1, PTL

\* A COMPLETE deliverable stays with a DONE task, its attempt and its evidence (submit,
\* finalizeDeliverable, retry, beginRecovery).
THEOREM CompleteStaysFinal == Spec => []CompleteIsFinal
  <1>1. IInv => CompleteIsFinal
    BY DEF IInv
  <1>2. QED
    BY Invariance, <1>1, PTL

\* A finished task carries no stale blocker (transition, unblock, beginRecovery).
THEOREM NoStaleBlocker == Spec => []FinishedCarriesNoBlocker
  <1>1. IInv => FinishedCarriesNoBlocker
    BY DEF IInv
  <1>2. QED
    BY Invariance, <1>1, PTL

\* A task is unowned exactly while it is PENDING (claim, release, retry, cancelTask).
THEOREM OwnedOrPending == Spec => []OwnedUnlessPending
  <1>1. IInv => OwnedUnlessPending
    BY DEF IInv
  <1>2. QED
    BY Invariance, <1>1, PTL

\* No step reopens or reassigns a task that is DONE or CANCELLED.
THEOREM VerdictsKept == Spec => VerdictsStand
  <1>1. IInv /\ [Next]_vars =>
          [\A t \in Task : task[t].state \in {"DONE", "CANCELLED"} =>
             /\ task'[t].state = task[t].state
             /\ task'[t].owner = task[t].owner
             /\ task'[t].attempt = task[t].attempt]_vars
    BY NextOK DEF StepOK, VerdictsStandNow, Stands
  <1>2. QED
    BY Invariance, <1>1, PTL DEF Spec, VerdictsStand

\* No step cancels a task without stop evidence, or beside the invocation it does not end.
THEOREM CancelledWithEvidence == Spec => CancelledOnEvidence
  <1>1. IInv /\ [Next]_vars =>
          [\A t \in Task : task[t].state # "CANCELLED" /\ task'[t].state = "CANCELLED" =>
             /\ exec[t].phase # "none" => exec'[t].stop
             /\ exec[t].phase \in {"RUNNING", "QUARANTINED"} => call'[t].pc # call[t].pc]_vars
    BY NextOK DEF StepOK, CancelledNow
  <1>2. QED
    BY Invariance, <1>1, PTL DEF Spec, CancelledOnEvidence

=============================================================================
