-------------------------------- MODULE Records --------------------------------
(***************************************************************************)
(* The components that keep records or proofs for others: notes,           *)
(* recoveries, attempts, work sessions, process trees and idempotent       *)
(* answers.  They share no state; a behaviour is one of the component that *)
(* `part` names, and the variables of the others are None.                 *)
(***************************************************************************)
EXTENDS Naturals

CONSTANTS
    None,
    Agents, Keys, Big, Limit, MaxEvents,                         \* of SharedMemory
    Server, AgentOf, Lineages, RecoveryKey, NoKey, MaxGen,       \* of RecoveryRequests
    Handle, Unsafe, MaxAttempt,                                  \* of AttemptRecords
    Session, SessionAgent, Task, Overlap, Needs, MaxLeases,      \* of WorkSessions
    Pids, Root, MaxBorn, TidyTools,                              \* of ProcessTree
    Calls, KeyOf, RequestOf                                      \* of Idempotency

VARIABLES
    part,
    notes, head, cache, working, request, told, reader, mirror, scan,
    rUp, rLineage, rTask, rAttempt, rAtt, rRow, rLease, rKept, rHand, rLaunches, rTold,
    attempt, strict, prepared, runner, att, receipt, sealed, rerun,
    state, owner, lease, up, held, begin,
    platform, row, clock, rootSeen, closedAt, seen, known, targets, verdict, struck,
    rows, applied, pc, answer

Memory == INSTANCE SharedMemory

Recovery == INSTANCE RecoveryRequests WITH
    Key <- RecoveryKey, up <- rUp, lineage <- rLineage, task <- rTask, attempt <- rAttempt,
    att <- rAtt, row <- rRow, lease <- rLease, kept <- rKept, hand <- rHand,
    launches <- rLaunches, told <- rTold

Attempts == INSTANCE AttemptRecords

Sessions == INSTANCE WorkSessions WITH AgentOf <- SessionAgent

Tree == INSTANCE ProcessTree

Once == INSTANCE Idempotency

ASSUME RecordsAssumption ==
    Memory!Sane /\ Recovery!Sane /\ Attempts!Sane /\ Sessions!Sane /\ Tree!Sane

-----------------------------------------------------------------------------
memoryVars   == <<notes, head, cache, working, request, told, reader, mirror, scan>>
recoveryVars == <<rUp, rLineage, rTask, rAttempt, rAtt, rRow, rLease, rKept, rHand, rLaunches, rTold>>
attemptVars  == <<attempt, strict, prepared, runner, att, receipt, sealed, rerun>>
sessionVars  == <<state, owner, lease, up, held, begin>>
treeVars     == <<platform, row, clock, rootSeen, closedAt, seen, known, targets, verdict, struck>>
onceVars     == <<rows, applied, pc, answer>>
all == <<part, memoryVars, recoveryVars, attemptVars, sessionVars, treeVars, onceVars>>

MemoryStep(A) ==
    part = "memory" /\ A /\ UNCHANGED <<part, recoveryVars, attemptVars, sessionVars, treeVars, onceVars>>
RecoveryStep(A) ==
    /\ part = "recovery" /\ A
    /\ UNCHANGED <<part, rLineage, memoryVars, attemptVars, sessionVars, treeVars, onceVars>>
AttemptStep(A) ==
    part = "attempts" /\ A /\ UNCHANGED <<part, memoryVars, recoveryVars, sessionVars, treeVars, onceVars>>
SessionStep(A) ==
    part = "sessions" /\ A /\ UNCHANGED <<part, memoryVars, recoveryVars, attemptVars, treeVars, onceVars>>
TreeStep(A) ==
    part = "tree" /\ A /\ UNCHANGED <<part, memoryVars, recoveryVars, attemptVars, sessionVars, onceVars>>
OnceStep(A) ==
    part = "once" /\ A /\ UNCHANGED <<part, memoryVars, recoveryVars, attemptVars, sessionVars, treeVars>>

NoMemory ==
    /\ notes = None /\ head = None /\ cache = None /\ working = None /\ request = None
    /\ told = None /\ reader = None /\ mirror = None /\ scan = None
NoRecovery ==
    /\ rUp = None /\ rLineage = None /\ rTask = None /\ rAttempt = None /\ rAtt = None /\ rRow = None
    /\ rLease = None /\ rKept = None /\ rHand = None /\ rLaunches = None /\ rTold = None
NoAttempts ==
    /\ attempt = None /\ strict = None /\ prepared = None /\ runner = None
    /\ att = None /\ receipt = None /\ sealed = None /\ rerun = None
NoSessions ==
    /\ state = None /\ owner = None /\ lease = None
    /\ up = None /\ held = None /\ begin = None
NoTree ==
    /\ platform = None /\ row = None /\ clock = None /\ rootSeen = None /\ closedAt = None
    /\ seen = None /\ known = None /\ targets = None /\ verdict = None /\ struck = None
NoOnce == rows = None /\ applied = None /\ pc = None /\ answer = None

Init ==
    \/ part = "memory" /\ Memory!Init /\ NoRecovery /\ NoAttempts /\ NoSessions /\ NoTree /\ NoOnce
    \/ part = "recovery" /\ Recovery!Init /\ NoMemory /\ NoAttempts /\ NoSessions /\ NoTree /\ NoOnce
    \/ part = "attempts" /\ Attempts!Init /\ NoMemory /\ NoRecovery /\ NoSessions /\ NoTree /\ NoOnce
    \/ part = "sessions" /\ Sessions!Init /\ NoMemory /\ NoRecovery /\ NoAttempts /\ NoTree /\ NoOnce
    \/ part = "tree" /\ Tree!Init /\ NoMemory /\ NoRecovery /\ NoAttempts /\ NoSessions /\ NoOnce
    \/ part = "once" /\ Once!Init /\ NoMemory /\ NoRecovery /\ NoAttempts /\ NoSessions /\ NoTree

NextMemory ==
    \/ \E a \in Agents :
          \/ \E k \in Keys, l \in {"active", "archived"} : MemoryStep(Memory!Compose(a, k, l))
          \/ \E refused, lost \in BOOLEAN : MemoryStep(Memory!Upsert(a, refused, lost))
          \/ MemoryStep(Memory!GiveUp(a)) \/ MemoryStep(Memory!TaskEnds(a))
    \/ MemoryStep(Memory!OtherEvent) \/ MemoryStep(Memory!FreezeChanges)
    \/ MemoryStep(Memory!FreezeContext) \/ MemoryStep(Memory!ContextRead)
    \/ \E n \in 1 .. Limit : MemoryStep(Memory!ReadChanges(n)) \/ MemoryStep(Memory!ReadContext(n))

NextRecovery ==
    \/ \E p \in Server :
          \/ \E k \in RecoveryKey \cup {NoKey} : RecoveryStep(Recovery!Prepare(p, k))
          \/ RecoveryStep(Recovery!ReadRow(p)) \/ RecoveryStep(Recovery!Admit(p))
          \/ RecoveryStep(Recovery!Authorize(p)) \/ RecoveryStep(Recovery!Abandon(p))
          \/ RecoveryStep(Recovery!ReportStopped(p)) \/ RecoveryStep(Recovery!RaiseBlocker(p))
          \/ RecoveryStep(Recovery!Fail(p)) \/ RecoveryStep(Recovery!Lose(p)) \/ RecoveryStep(Recovery!Die(p))
          \/ \E status \in {"COMPLETE", "PARTIAL", "FAILED"} : RecoveryStep(Recovery!Deliver(p, status))
          \/ \E stopped \in BOOLEAN : RecoveryStep(Recovery!CommitThrows(p, stopped))
          \/ \E k \in RecoveryKey : \/ RecoveryStep(Recovery!ReplayFinished(p, k))
                                    \/ RecoveryStep(Recovery!ReplayPreparing(p, k))
                                    \/ RecoveryStep(Recovery!ReplayAuthorized(p, k))
    \/ RecoveryStep(Recovery!Reconcile) \/ RecoveryStep(Recovery!Cancel)
    \/ \E g \in 1..MaxGen : RecoveryStep(Recovery!Expire(g))

NextAttempts ==
    \/ AttemptStep(Attempts!Start) \/ AttemptStep(Attempts!Retry)
    \/ AttemptStep(Attempts!Resume) \/ AttemptStep(Attempts!Lose)
    \/ \E h \in Handle : AttemptStep(Attempts!SaveHandle(h)) \/ AttemptStep(Attempts!ToolSave(h))
    \/ \E usage, fault, stopped \in BOOLEAN, check \in Attempts!Check :
          AttemptStep(Attempts!Conclude(usage, check, fault, stopped))
    \/ \E n \in 0..MaxAttempt, fault \in BOOLEAN : AttemptStep(Attempts!Repair(n, fault))

NextSessions ==
    \/ \E s \in Session :
          \/ SessionStep(Sessions!Acquire(s)) \/ SessionStep(Sessions!Rollback(s))
          \/ SessionStep(Sessions!Start(s)) \/ SessionStep(Sessions!ReleaseAll(s))
          \/ SessionStep(Sessions!Crash(s))
          \/ \E t \in Task :
                \/ SessionStep(Sessions!Claim(s, t)) \/ SessionStep(Sessions!Block(s, t))
                \/ SessionStep(Sessions!Abandon(s, t))
                \/ \E final \in {"DONE", "BLOCKED", "FAILED"} :
                      SessionStep(Sessions!Complete(s, t, final))
    \/ \E l \in 1..MaxLeases : SessionStep(Sessions!Expire(l))

NextTree ==
    \/ \E p \in Pids :
          \/ TreeStep(\E q \in Tree!Live : Tree!Begin(p, q, row[q].ours))
          \/ TreeStep(Tree!Begin(p, None, FALSE)) \/ TreeStep(Tree!End(p)) \/ TreeStep(Tree!Terminate(p))
    \/ TreeStep(Tree!RootEvent) \/ TreeStep(Tree!ProbeGroup) \/ TreeStep(Tree!KillGroup)
    \/ TreeStep(Tree!Look) \/ TreeStep(Tree!Judge) \/ TreeStep(Tree!GiveUp)

NextOnce == \E c \in Calls : OnceStep(Once!Lookup(c)) \/ OnceStep(Once!Commit(c)) \/ OnceStep(Once!Repeat(c))

Next == NextMemory \/ NextRecovery \/ NextAttempts \/ NextSessions \/ NextTree \/ NextOnce

Spec == Init /\ [][Next]_all
-----------------------------------------------------------------------------
(* Properties, each defined in the module of its component.                *)

\* What an agent merged into a note stays in it, and is merged once.
NothingLost == part = "memory" => Memory!NothingLost

\* Readers by pages get every change up to their cursor, and every note of a scan.
PagesComplete == part = "memory" => Memory!PagesComplete

\* A recovery key, and an attempt, start one runtime.
NeverRelaunched == part = "recovery" => Recovery!NeverRelaunched

\* Callers of a recovery key are not told contradictory outcomes.
OneVerdict == part = "recovery" => Recovery!OneVerdict

\* An abandoned reservation can be closed, but for one case.
AbandonedIsClosable == part = "recovery" => Recovery!AbandonedIsClosable

\* Receipts tell the truth about the telemetry rows.
ReceiptsTrue == part = "attempts" => Attempts!ReceiptsTrue

\* An attempt that ended, and a sealed receipt, are not rewritten, but by a further run of it.
EndedForGood == [][part = "attempts" => Attempts!Unrewritten]_all

\* A session owns the tasks it started while it holds their leases, and shares their files with nobody.
StartedIsKept == part = "sessions" => Sessions!StartedIsKept

\* No process of a run is alive once its stop is proved, but by a table that lists its child.
StopProofSound == part = "tree" => Tree!StopProofSound

\* An idempotency key is applied once, and an answer is of the request that gets it.
AnswersTrue == part = "once" => Once!AppliedOnce /\ Once!AnswersTrue
=============================================================================
