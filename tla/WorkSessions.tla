---------------------------- MODULE WorkSessions ----------------------------
(***************************************************************************)
(* Agents that take part by themselves (ClaudeWorkSession of               *)
(* work-session.ts): sessions in processes of their own, several of them   *)
(* of one agent, claim tasks, lease their scopes and finish or abandon     *)
(* them, each operation in a transaction of its own.                       *)
(***************************************************************************)
EXTENDS Naturals

CONSTANTS Session, AgentOf, Task, Overlap, Needs, None,
          MaxLeases             \* bound on leases taken

VARIABLES state, owner,         \* of each task
          lease,                \* leases taken, in order
          up, held,             \* what a session believes to hold: a lease of a task, or 0
          begin                 \* the beginWork a session is in

sessionVars == <<state, owner, lease, up, held, begin>>

Lease == 1..MaxLeases
Terminal == {"DONE", "FAILED"}
Live(l)  == lease[l] # None /\ lease[l].live
Mine(s, t) == owner[t] = AgentOf[s]

Init ==
    /\ state = [t \in Task |-> "PENDING"] /\ owner = [t \in Task |-> None]
    /\ lease = [l \in Lease |-> None]
    /\ up = Session /\ held = [s \in Session |-> [t \in Task |-> 0]] /\ begin = [s \in Session |-> None]
-----------------------------------------------------------------------------
(* beginWork: claim, lease, start, and the way back from a refused lease.  *)

\* claim: a no-op for a task of the same agent, whatever became of it.
Claim(s, t) ==
    /\ s \in up /\ begin[s] = None
    /\ Mine(s, t) \/ state[t] = "PENDING"
    /\ state' = [state EXCEPT ![t] = IF @ = "PENDING" THEN "CLAIMED" ELSE @]
    /\ owner' = [owner EXCEPT ![t] = AgentOf[s]]
    /\ begin' = [begin EXCEPT ![s] = [task |-> t, step |-> "claimed", lease |-> 0]]
    /\ UNCHANGED <<lease, up, held>>

At(s, step) == begin[s] # None /\ begin[s].step = step

\* findConflicts: a live lease over the scope, but for the agent's own of this task.
Conflict(s, t) ==
    \E l \in Lease :
        /\ Live(l) /\ <<t, lease[l].task>> \in Overlap
        /\ ~(lease[l].task = t /\ lease[l].holder = AgentOf[s])

Acquire(s) ==
    LET t == begin[s].task IN
    /\ At(s, "claimed")
    /\ IF Conflict(s, t)
       THEN /\ begin' = [begin EXCEPT ![s].step = "refused"]
            /\ UNCHANGED lease
       ELSE \E l \in Lease :
            /\ lease[l] = None /\ \A k \in 1..(l - 1) : lease[k] # None
            /\ lease' = [lease EXCEPT ![l] = [task |-> t, holder |-> AgentOf[s], live |-> TRUE]]
            /\ begin' = [begin EXCEPT ![s].step = "leased", ![s].lease = l]
    /\ UNCHANGED <<state, owner, up, held>>

\* Seeded bug: the way back does not ask whether the task has been started meanwhile.
RollbackAny(s) ==
    /\ At(s, "refused")
    /\ IF Mine(s, begin[s].task)
       THEN /\ state' = [state EXCEPT ![begin[s].task] = "PENDING"]
            /\ owner' = [owner EXCEPT ![begin[s].task] = None]
       ELSE UNCHANGED <<state, owner>>
    /\ begin' = [begin EXCEPT ![s] = None]
    /\ UNCHANGED <<lease, up, held>>

\* TaskService.release: legal for a CLAIMED task of this agent only; beginWork ignores a refusal.
Returned(s, t) ==
    IF Mine(s, t) /\ state[t] = "CLAIMED"
    THEN state' = [state EXCEPT ![t] = "PENDING"] /\ owner' = [owner EXCEPT ![t] = None]
    ELSE UNCHANGED <<state, owner>>

Rollback(s) ==
    /\ At(s, "refused") /\ Returned(s, begin[s].task)
    /\ begin' = [begin EXCEPT ![s] = None]
    /\ UNCHANGED <<lease, up, held>>

\* transition: to WORKING, once what the task needs is DONE.  A refusal leaves the lease behind.
Start(s) ==
    LET t == begin[s].task
        legal == state[t] = "WORKING" \/ (state[t] \in {"CLAIMED", "BLOCKED"} /\ \A u \in Needs[t] : state[u] = "DONE")
    IN
    /\ At(s, "leased")
    /\ IF Mine(s, t) /\ legal
       THEN state' = [state EXCEPT ![t] = "WORKING"] /\ held' = [held EXCEPT ![s][t] = begin[s].lease]
       ELSE UNCHANGED <<state, held>>
    /\ begin' = [begin EXCEPT ![s] = None]
    /\ UNCHANGED <<owner, lease, up>>
-----------------------------------------------------------------------------
(* The end of work.                                                        *)

Idle(s) == s \in up /\ begin[s] = None

\* releaseLease.
Freed(s, t) ==
    /\ held' = [held EXCEPT ![s][t] = 0]
    /\ lease' = IF held[s][t] = 0 THEN lease ELSE [lease EXCEPT ![held[s][t]].live = FALSE]

\* finalizeDeliverable: the moves a deliverable may make.
Accepts(from, final) == from \in {final, "WORKING", "BLOCKED"} \/ (from = "CLAIMED" /\ final = "BLOCKED")

\* complete: the deliverable is accepted or refused, and the lease released in any case.
Complete(s, t, final) ==
    /\ Idle(s) /\ Freed(s, t)
    /\ \/ Mine(s, t) /\ Accepts(state[t], final) /\ state' = [state EXCEPT ![t] = final]
       \/ held[s][t] # 0 /\ UNCHANGED state
    /\ UNCHANGED <<owner, up, begin>>

Block(s, t) ==
    /\ Idle(s) /\ Mine(s, t) /\ state[t] \in {"CLAIMED", "WORKING"}
    /\ state' = [state EXCEPT ![t] = "BLOCKED"]
    /\ UNCHANGED <<owner, lease, up, held, begin>>

\* abandon: back to the pool if that is legal, and the lease released in any case.
Abandon(s, t) ==
    /\ Idle(s) /\ Returned(s, t) /\ Freed(s, t)
    /\ UNCHANGED <<up, begin>>

ReleaseAll(s) ==
    /\ Idle(s)
    /\ held' = [held EXCEPT ![s] = [t \in Task |-> 0]]
    /\ lease' = [l \in Lease |-> IF \E t \in Task : held[s][t] = l THEN [lease[l] EXCEPT !.live = FALSE] ELSE lease[l]]
    /\ UNCHANGED <<state, owner, up, begin>>

\* A session that crashes leaves what it has in the database.
Crash(s) ==
    /\ s \in up /\ up' = up \ {s}
    /\ held' = [held EXCEPT ![s] = [t \in Task |-> 0]] /\ begin' = [begin EXCEPT ![s] = None]
    /\ UNCHANGED <<state, owner, lease>>

Expire(l) ==
    /\ Live(l) /\ lease' = [lease EXCEPT ![l].live = FALSE]
    /\ UNCHANGED <<state, owner, up, held, begin>>

Next ==
    \/ \E s \in Session :
          \/ Acquire(s) \/ Rollback(s) \/ Start(s) \/ ReleaseAll(s) \/ Crash(s)
          \/ \E t \in Task :
                \/ Claim(s, t) \/ Block(s, t) \/ Abandon(s, t)
                \/ \E final \in {"DONE", "BLOCKED", "FAILED"} : Complete(s, t, final)
    \/ \E l \in Lease : Expire(l)

Spec == Init /\ [][Next]_sessionVars
-----------------------------------------------------------------------------
(* Properties.                                                             *)

States == {"PENDING", "CLAIMED", "WORKING", "BLOCKED", "DONE", "FAILED"}
LeaseRow == [task : Task, holder : {AgentOf[s] : s \in Session}, live : BOOLEAN]
Beginning == [task : Task, step : {"claimed", "refused", "leased"}, lease : 0..MaxLeases]

\* None is no row of a table, and what overlaps overlaps both ways.
Sane ==
    /\ MaxLeases \in Nat /\ None \notin LeaseRow /\ None \notin Beginning
    /\ \A t, u \in Task : <<t, u>> \in Overlap => <<u, t>> \in Overlap

TypeOK ==
    /\ state \in [Task -> States] /\ owner \in [Task -> {AgentOf[s] : s \in Session} \cup {None}]
    /\ lease \in [Lease -> LeaseRow \cup {None}]
    /\ up \subseteq Session
    /\ held \in [Session -> [Task -> 0..MaxLeases]]
    /\ begin \in [Session -> Beginning \cup {None}]

\* A session that started a task and still has its lease owns it, and what it writes no other task
\* writes: the claim, the refused lease and the way back of another session, between any two of its
\* steps, take neither from it.
StartedIsKept ==
    \A s \in Session, t \in Task :
        held[s][t] # 0 /\ Live(held[s][t]) =>
            /\ Mine(s, t) /\ state[t] \notin {"PENDING", "CLAIMED"}
            /\ \A l \in Lease : Live(l) /\ <<t, lease[l].task>> \in Overlap => lease[l].task = t

\* "a failed start never leaves a task owned-but-unstartable" (work-session.ts:114-115): a task is
\* CLAIMED only while one of its agent's sessions is starting it, or after a session was lost.
FailedStartLeavesNothing ==
    \A t \in Task : state[t] = "CLAIMED" =>
        (\E s \in Session : begin[s] # None /\ begin[s].task = t) \/ up # Session
=============================================================================
