----------------------------- MODULE ClaudeRuns -----------------------------
(***************************************************************************)
(* The Claude adapter (claude-adapter.ts) over the Claude Code runner      *)
(* (claude-code-runner.ts): slots and the queue for them, one process      *)
(* group per invocation, its frames, and how an invocation ends when its   *)
(* process closes, its deadline passes, it is cancelled, or the adapter is *)
(* disposed.  Whether a process group is gone is what ProcessTree is       *)
(* about; here a check of it says TRUE only of a group that is gone.       *)
(*                                                                         *)
(* The callbacks of an InvocationContext are promises: where the code      *)
(* awaits one, another event may come.                                     *)
(***************************************************************************)
EXTENDS Naturals, Sequences, FiniteSets

CONSTANTS Invs, Tasks, TaskOf,
          Limit,        \* max_concurrency
          MaxPending,   \* max_pending_invocations
          Frames,       \* frames a process writes; the last one is the result
          None

ASSUME ClaudeAssumption ==
    /\ TaskOf \in [Invs -> Tasks] /\ None \notin Invs
    /\ Limit \in Nat \ {0} /\ MaxPending \in Nat /\ Frames \in Nat \ {0}

VARIABLES disposal,     \* "no", "cancelling", "done" or "failed"
          uncertainStops, invocations, active, pending,
          pc, aborted, expired,
          cancelling,   \* the cancel() that waits for an invocation
          report, outcome, termination,
          proc,         \* the process group: "none", "live", "orphans" or "gone"
          closed,       \* the close event was read
          tree,         \* ensureStopped: "idle", "checking", "true" or "false"
          stopping,     \* stop() was called
          killedForCancel, killedForDeadline,
          wrote, handled

slotVars == <<disposal, uncertainStops, invocations, active, pending, cancelling>>
runVars  == <<closed, tree, stopping, killedForCancel, killedForDeadline>>
locals   == <<runVars, aborted, expired, termination, wrote, handled>>
vars == <<slotVars, pc, report, outcome, proc, locals>>

Init ==
    /\ disposal = "no" /\ uncertainStops = {} /\ invocations = [t \in Tasks |-> None]
    /\ active = 0 /\ pending = <<>> /\ cancelling = [i \in Invs |-> "no"]
    /\ pc = [i \in Invs |-> "idle"] /\ aborted = {} /\ expired = {}
    /\ report = [i \in Invs |-> "none"] /\ outcome = [i \in Invs |-> "none"]
    /\ termination = [i \in Invs |-> "none"]
    /\ proc = [i \in Invs |-> "none"]
    /\ closed = {} /\ tree = [i \in Invs |-> "idle"] /\ stopping = {}
    /\ killedForCancel = {} /\ killedForDeadline = {}
    /\ wrote = [i \in Invs |-> 0] /\ handled = [i \in Invs |-> 0]
-----------------------------------------------------------------------------
Goto(i, l)  == pc' = [pc EXCEPT ![i] = l]
End(i, o)   == outcome' = [outcome EXCEPT ![i] = o]
Late(i)     == i \in aborted \cup expired

\* reportRuntimeState of the adapter's context: a stop lifts the uncertainty.
Say(i, state) ==
    /\ report' = [report EXCEPT ![i] = state]
    /\ uncertainStops' = IF state = "stopped" THEN uncertainStops \ {TaskOf[i]} ELSE uncertainStops

\* The invocation settles: its entry is deleted, and what only it knew is gone.
Settle(i) ==
    /\ invocations' = [invocations EXCEPT ![TaskOf[i]] = None]
    /\ aborted' = aborted \ {i} /\ expired' = expired \ {i}
    /\ closed' = closed \ {i} /\ stopping' = stopping \ {i} /\ tree' = [tree EXCEPT ![i] = "idle"]
    /\ killedForCancel' = killedForCancel \ {i} /\ killedForDeadline' = killedForDeadline \ {i}
    /\ termination' = [termination EXCEPT ![i] = "none"]
    /\ wrote' = [wrote EXCEPT ![i] = 0] /\ handled' = [handled EXCEPT ![i] = 0]

\* invoke, invokeBounded, acquireSlot: refused, entered with a slot, queued, or
\* turned away by a deadline, an abort or a full queue.
Invoke(i) ==
    LET refused == disposal # "no" \/ TaskOf[i] \in uncertainStops \/ invocations[TaskOf[i]] # None
    IN /\ pc[i] = "idle"
       /\ \/ /\ refused
             /\ Goto(i, "done") /\ End(i, "rejected")
             /\ UNCHANGED <<invocations, active, pending>>
          \/ /\ ~refused
             /\ invocations' = [invocations EXCEPT ![TaskOf[i]] = i]
             /\ \/ active < Limit /\ active' = active + 1 /\ Goto(i, "admitted") /\ UNCHANGED pending
                \/ /\ active >= Limit /\ Len(pending) < MaxPending
                   /\ pending' = Append(pending, i) /\ Goto(i, "queued") /\ UNCHANGED active
                \/ /\ active >= Limit /\ Len(pending) >= MaxPending
                   /\ Goto(i, "notAdmitted") /\ UNCHANGED <<active, pending>>
                \/ \* aborted or late already
                   Goto(i, "notAdmitted") /\ UNCHANGED <<active, pending>>
             /\ UNCHANGED outcome
    /\ UNCHANGED <<disposal, uncertainStops, cancelling, report, proc, locals>>

NotAdmitted(i) ==
    /\ pc[i] = "notAdmitted"
    /\ Say(i, "stopped")
    /\ \E o \in {"fulfilled", "rejected"} : End(i, o)
    /\ Goto(i, "done") /\ Settle(i)
    /\ UNCHANGED <<disposal, active, pending, cancelling, proc>>

\* The callback of a slot: the next waiter has it, or it is free again.
Hand(ended) ==
    IF pending = <<>>
    THEN /\ active' = active - 1
         /\ pc' = [pc EXCEPT ![ended] = "done"]
         /\ UNCHANGED pending
    ELSE /\ pending' = Tail(pending)
         /\ pc' = [pc EXCEPT ![ended] = "done", ![Head(pending)] = "admitted"]
         /\ UNCHANGED active

\* execute: cancelled before work began, or on to the runner.
Execute(i) ==
    /\ pc[i] = "admitted"
    /\ IF i \in aborted
       THEN Say(i, "stopped") /\ End(i, "fulfilled") /\ Hand(i) /\ Settle(i)
       ELSE /\ Goto(i, "preflight")
            /\ UNCHANGED <<report, uncertainStops, outcome, active, pending, invocations, locals>>
    /\ UNCHANGED <<disposal, cancelling, proc>>

\* run, up to the report "running": rejected, cancelled, or the report refused.
Preflight(i) ==
    /\ pc[i] = "preflight"
    /\ \/ Say(i, "stopped") /\ End(i, "error") /\ Goto(i, "returned")
       \/ /\ Late(i)
          /\ Say(i, "stopped") /\ End(i, "blocker") /\ Goto(i, "returned")
       \/ /\ ~Late(i)
          /\ Say(i, "running") /\ Goto(i, "cleared")
          /\ UNCHANGED outcome
    /\ UNCHANGED <<disposal, invocations, active, pending, cancelling, proc, locals>>

\* The report was awaited: a cancellation may have come, else spawn.
Spawn(i) ==
    /\ pc[i] = "cleared"
    /\ \/ /\ Say(i, "stopped")
          /\ End(i, IF Late(i) THEN "blocker" ELSE "error")
          /\ Goto(i, "returned")
          /\ UNCHANGED proc
       \/ /\ ~Late(i)
          /\ proc' = [proc EXCEPT ![i] = "live"]
          /\ Goto(i, "spawned")
          /\ UNCHANGED <<report, uncertainStops, outcome>>
    /\ UNCHANGED <<disposal, invocations, active, pending, cancelling, locals>>
-----------------------------------------------------------------------------
(* The process, as the runner can observe it.                              *)

Write(i) ==
    /\ pc[i] = "spawned" /\ proc[i] = "live" /\ wrote[i] < Frames
    /\ wrote' = [wrote EXCEPT ![i] = @ + 1]
    /\ UNCHANGED <<slotVars, pc, report, outcome, proc, runVars, aborted, expired, termination, handled>>

\* The root exits, its tools with it or not; the tools end later.
Exit(i) ==
    /\ \/ proc[i] = "live" /\ \E s \in {"orphans", "gone"} : proc' = [proc EXCEPT ![i] = s]
       \/ proc[i] = "orphans" /\ proc' = [proc EXCEPT ![i] = "gone"]
    /\ UNCHANGED <<slotVars, pc, report, outcome, locals>>
-----------------------------------------------------------------------------
(* The runner while its process is alive.                                  *)

\* A frame is handled; the session id is saved and checkpoints are published here.
HandleFrame(i) ==
    /\ pc[i] \in {"spawned", "draining"} /\ handled[i] < wrote[i]
    /\ handled' = [handled EXCEPT ![i] = @ + 1]
    /\ UNCHANGED <<slotVars, pc, report, outcome, proc, runVars, aborted, expired, termination, wrote>>

\* The close event, after all output: the group is checked, unless that is under way.
Close(i) ==
    /\ pc[i] = "spawned" /\ proc[i] # "live" /\ i \notin closed
    /\ closed' = closed \cup {i}
    /\ tree' = [tree EXCEPT ![i] = IF @ = "idle" THEN "checking" ELSE @]
    /\ UNCHANGED <<slotVars, pc, aborted, expired, report, outcome, termination, proc,
                   stopping, killedForCancel, killedForDeadline, wrote, handled>>

\* ensureProcessTreeStopped answers: proof, or no proof.
Checked(i) ==
    /\ tree[i] = "checking"
    /\ \E v \in {"true", "false"} : /\ v = "true" => proc[i] = "gone"
                                    /\ tree' = [tree EXCEPT ![i] = v]
    /\ UNCHANGED <<slotVars, pc, aborted, expired, report, outcome, termination, proc, closed,
                   stopping, killedForCancel, killedForDeadline, wrote, handled>>

\* stop(): the same check, for a deadline or a cancellation.
StopEffect(S) ==
    /\ stopping' = stopping \cup S
    /\ tree' = [i \in Invs |-> IF i \in S /\ tree[i] = "idle" THEN "checking" ELSE tree[i]]

\* Waiters leave the queue, and the others keep their order.
Leave(S) ==
    LET stay == {k \in DOMAIN pending : pending[k] \notin S}
    IN \E kept \in [1..Cardinality(stay) -> stay] :
          /\ \A m, n \in DOMAIN kept : m < n => kept[m] < kept[n]
          /\ pending' = [k \in DOMAIN kept |-> pending[kept[k]]]

\* The deadline passes.
Expire(i) ==
    /\ i \notin expired /\ pc[i] \notin {"idle", "done"}
    /\ expired' = expired \cup {i}
    /\ IF pc[i] = "queued" THEN Leave({i}) /\ Goto(i, "notAdmitted") ELSE UNCHANGED <<pending, pc>>
    /\ IF pc[i] = "spawned"
       THEN killedForDeadline' = killedForDeadline \cup {i} /\ StopEffect({i})
       ELSE UNCHANGED <<killedForDeadline, stopping, tree>>
    /\ UNCHANGED <<disposal, uncertainStops, invocations, active, cancelling, aborted, report,
                   outcome, termination, proc, closed, killedForCancel, wrote, handled>>

\* The signal of every invocation of S aborts.
AbortEffect(S) ==
    /\ aborted' = aborted \cup S
    /\ Leave(S)
    /\ pc' = [i \in Invs |-> IF i \in S /\ pc[i] = "queued" THEN "notAdmitted" ELSE pc[i]]
    /\ LET K == {i \in S : pc[i] = "spawned"}
       IN killedForCancel' = killedForCancel \cup K /\ StopEffect(K)

Entered(i) == invocations[TaskOf[i]] = i

\* The caller's own signal.
CallerAborts(i) ==
    /\ Entered(i) /\ i \notin aborted
    /\ AbortEffect({i})
    /\ UNCHANGED <<disposal, uncertainStops, invocations, active, cancelling, expired, report,
                   outcome, termination, proc, closed, killedForDeadline, wrote, handled>>

\* cancel(task): aborts and waits for the end, with a time limit.
Cancel(i) ==
    /\ Entered(i) /\ cancelling[i] = "no" /\ TaskOf[i] \notin uncertainStops
    /\ AbortEffect({i} \ aborted)
    /\ cancelling' = [cancelling EXCEPT ![i] = "racing"]
    /\ UNCHANGED <<disposal, uncertainStops, invocations, active, expired, report, outcome,
                   termination, proc, closed, killedForDeadline, wrote, handled>>

\* The race of a cancel is over; only a disposal keeps the answer.
Acknowledge(i, answer) ==
    cancelling' = [cancelling EXCEPT ![i] =
                      IF disposal = "cancelling" /\ answer = "uncertain" THEN answer ELSE "no"]

CancelTimer(i) ==
    /\ cancelling[i] = "racing" /\ pc[i] # "done"
    /\ Acknowledge(i, "uncertain")
    /\ uncertainStops' = uncertainStops \cup {TaskOf[i]}
    /\ report' = [report EXCEPT ![i] = "unconfirmed"]
    /\ UNCHANGED <<disposal, invocations, active, pending, pc, outcome, proc, locals>>

Cancelled(i) ==
    /\ cancelling[i] = "racing" /\ pc[i] = "done"
    /\ Acknowledge(i, outcome[i])
    /\ UNCHANGED <<disposal, uncertainStops, invocations, active, pending, pc, report, outcome,
                   proc, locals>>

\* Seeded bug: the invocations are aborted and not waited for.
AbortsOnly ==
    /\ disposal = "no" /\ disposal' = "cancelling"
    /\ AbortEffect({i \in Invs : Entered(i)} \ aborted)
    /\ UNCHANGED <<uncertainStops, invocations, active, cancelling, expired, report, outcome,
                   termination, proc, closed, killedForDeadline, wrote, handled>>

\* dispose: every invocation is cancelled; an uncertain one refuses at once.
Dispose ==
    /\ disposal = "no"
    /\ LET S == {i \in Invs : Entered(i) /\ TaskOf[i] \notin uncertainStops}
       IN /\ AbortEffect(S \ aborted)
          /\ cancelling' = [i \in Invs |-> IF i \in S THEN "racing"
                                           ELSE IF Entered(i) THEN "uncertain" ELSE "no"]
    /\ disposal' = "cancelling"
    /\ UNCHANGED <<uncertainStops, invocations, active, expired, report, outcome, termination,
                   proc, closed, killedForDeadline, wrote, handled>>

Disposed ==
    /\ disposal = "cancelling" /\ \A i \in Invs : cancelling[i] # "racing"
    /\ disposal' = IF \E i \in Invs : cancelling[i] = "uncertain" THEN "failed" ELSE "done"
    /\ UNCHANGED <<uncertainStops, invocations, active, pending, cancelling, pc, report, outcome,
                   proc, locals>>
-----------------------------------------------------------------------------
(* The end of a run.                                                       *)

\* Seeded bug: a successful kill command is taken for the stop.
KillIsProof(i) ==
    IF i \in closed \cup stopping /\ tree[i] # "idle" THEN {TRUE} ELSE {}

\* The race between the close event and the stop, with the timer for a close
\* that does not follow: TRUE is proof, {} is not decided yet.
StopVerdicts(i) ==
    CASE i \in closed /\ tree[i] \in {"true", "false"} -> {tree[i] = "true"}
      [] i \notin closed /\ i \in stopping /\ tree[i] \in {"true", "false"} -> {FALSE}
      [] OTHER -> {}

\* The stop is reported.  Uncertainty outranks everything the run has shown; a
\* refused report of a stop ends the run at once.
Stopped(i) ==
    /\ pc[i] = "spawned"
    /\ \E confirmed \in StopVerdicts(i) :
          \/ /\ confirmed
             /\ Say(i, "stopped") /\ Goto(i, "draining")
             /\ UNCHANGED outcome
          \/ /\ confirmed
             /\ End(i, "error") /\ Goto(i, "returned")
             /\ UNCHANGED <<report, uncertainStops>>
          \/ /\ ~confirmed
             /\ Say(i, "unconfirmed")
             /\ End(i, "uncertain") /\ Goto(i, "returned")
    /\ UNCHANGED <<disposal, invocations, active, pending, cancelling, proc, locals>>

\* terminationKind, with what the frame or the profile says.
Termination(i, failed) ==
    CASE i \in killedForCancel -> "CANCELLED"
      [] i \notin killedForCancel /\ i \in killedForDeadline -> "TIMEOUT"
      [] OTHER -> IF failed \/ handled[i] < Frames THEN "FAILED" ELSE "COMPLETED"

\* Seeded bug: the result is judged without waiting for the frames.
NotDrained(i) ==
    /\ pc[i] = "draining"
    /\ termination' = [termination EXCEPT ![i] = Termination(i, FALSE)]
    /\ End(i, IF i \in killedForCancel \cup killedForDeadline THEN "blocker"
              ELSE IF handled[i] < Frames THEN "noResult" ELSE "ok")
    /\ Goto(i, "returned")
    /\ UNCHANGED <<slotVars, aborted, expired, report, proc, runVars, wrote, handled>>

\* Every frame is handled: telemetry, then the result of the run.
Drained(i) ==
    /\ pc[i] = "draining" /\ handled[i] = wrote[i]
    /\ \E failed \in BOOLEAN :
          /\ termination' = [termination EXCEPT ![i] = Termination(i, failed)]
          /\ CASE i \in killedForCancel \cup killedForDeadline -> End(i, "blocker")
               [] i \notin killedForCancel \cup killedForDeadline /\ handled[i] < Frames ->
                    \* a checkpoint makes it a partial result
                    \E o \in {"noResult", "blocker"} : End(i, o)
               [] OTHER -> IF failed THEN \E o \in {"error", "blocker"} : End(i, o) ELSE End(i, "ok")
    /\ Goto(i, "returned")
    /\ UNCHANGED <<slotVars, aborted, expired, report, proc, runVars, wrote, handled>>

\* Seeded bug: an uncertain stop is not remembered.
Forgets(i) ==
    /\ pc[i] = "returned"
    /\ Hand(i) /\ Settle(i)
    /\ UNCHANGED <<disposal, uncertainStops, cancelling, report, outcome, proc>>

\* Seeded bug: the slot is given back on every way out but an uncertain stop.
KeepsSlot(i) ==
    /\ pc[i] = "returned"
    /\ IF outcome[i] = "uncertain" THEN Goto(i, "done") /\ UNCHANGED <<active, pending>> ELSE Hand(i)
    /\ Settle(i)
    /\ UNCHANGED <<disposal, uncertainStops, cancelling, report, outcome, proc>>

\* The runner returned: deliverable or error, slot, uncertainty, entry.
Return(i) ==
    /\ pc[i] = "returned"
    /\ Hand(i) /\ Settle(i)
    /\ End(i, CASE outcome[i] = "uncertain" -> "uncertain"
                [] outcome[i] # "uncertain" /\ (outcome[i] \in {"ok", "blocker"} \/ i \in aborted) -> "fulfilled"
                [] OTHER -> "rejected")
    /\ uncertainStops' = IF outcome[i] = "uncertain" THEN uncertainStops \cup {TaskOf[i]}
                         ELSE uncertainStops
    /\ UNCHANGED <<disposal, cancelling, report, proc>>
-----------------------------------------------------------------------------
Advance(i) == \/ NotAdmitted(i) \/ Execute(i) \/ Preflight(i) \/ Spawn(i)
              \/ HandleFrame(i) \/ Close(i) \/ Stopped(i) \/ Drained(i) \/ Return(i)
Next == \/ \E i \in Invs :
              \/ Invoke(i) \/ Advance(i) \/ Write(i) \/ Exit(i) \/ Checked(i) \/ Expire(i)
              \/ CallerAborts(i) \/ Cancel(i) \/ CancelTimer(i) \/ Cancelled(i)
        \/ Dispose \/ Disposed

\* Promises are continued, checks of a group end in bounded time, and deadlines
\* pass; nothing is assumed of the process itself.
Fairness ==
    /\ \A i \in Invs : WF_vars(Advance(i)) /\ WF_vars(Checked(i)) /\ WF_vars(Expire(i))
    /\ \A i \in Invs : WF_vars(Cancelled(i)) /\ WF_vars(CancelTimer(i))
    /\ WF_vars(Disposed)

Spec == Init /\ [][Next]_vars /\ Fairness
-----------------------------------------------------------------------------
(* Properties.                                                             *)

Alive(i)   == proc[i] \in {"live", "orphans"}
Holding(i) == pc[i] \in {"admitted", "preflight", "cleared", "spawned", "draining", "returned"}
Waiting    == {pending[k] : k \in DOMAIN pending}

TypeOK ==
    /\ disposal \in {"no", "cancelling", "done", "failed"} /\ uncertainStops \subseteq Tasks
    /\ invocations \in [Tasks -> Invs \cup {None}] /\ active \in 0..Limit
    /\ pending \in Seq(Invs) /\ Len(pending) <= MaxPending
    /\ report \in [Invs -> {"none", "running", "stopped", "unconfirmed"}]
    /\ \A i \in Invs : handled[i] <= wrote[i] /\ wrote[i] <= Frames

\* No slot is lost and none is given twice: those who hold one are as many as
\* are counted, and nobody waits while one is free - through every time-out,
\* abort and cancellation of a waiter that meets a hand-over.
SlotsConserved ==
    /\ active = Cardinality({i \in Invs : Holding(i)})
    /\ pending # <<>> => active = Limit
    /\ {i \in Invs : pc[i] = "queued"} = Waiting

\* "stopped" frees the write scope: it is the last word only when nothing of the
\* process group is left.
StopReportHonest == \A i \in Invs : report[i] = "stopped" => ~Alive(i)

\* A task whose process may still work is not run again, neither after a stop
\* that was not confirmed nor while a cancellation has given up waiting.
OneRuntimePerTask ==
    \A i, j \in Invs : i # j /\ TaskOf[i] = TaskOf[j] => ~(Alive(i) /\ Alive(j))

\* What is said of a run is what happened: no result is lost that the process
\* wrote before it closed, and success is claimed only of a process that ended
\* by itself, with its telemetry saying so.
OutcomeMatchesRun ==
    \A i \in Invs : pc[i] = "returned" =>
        /\ outcome[i] = "noResult" => wrote[i] < Frames
        /\ outcome[i] = "ok" => /\ ~Alive(i) /\ wrote[i] = Frames
                                /\ termination[i] = "COMPLETED"
                                /\ i \notin stopping

\* A disposed adapter has left nothing running that it did not name as uncertain.
DisposeLeavesNothing ==
    disposal = "done" => \A i \in Invs : Alive(i) => TaskOf[i] \in uncertainStops

\* Nothing is owed to anyone: every invocation and every disposal has settled, whatever its process did.
AtRest ==
    /\ \A i \in Invs : invocations[TaskOf[i]] = i => pc[i] = "done"
    /\ disposal # "cancelling"
=============================================================================
