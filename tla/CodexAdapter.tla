---------------------------- MODULE CodexAdapter ----------------------------
(***************************************************************************)
(* The Codex adapter (codex-adapter.ts) over a client that runs turns:     *)
(* replay of an invocation by its key, one execution per task, a semaphore *)
(* with a bounded queue, resumption with a replacement of a stale thread,  *)
(* one repair turn, and the report of the stop that ends every execution.  *)
(* The client is external; one of an older kind reports no states, and its *)
(* settled promise is all the evidence of a stop there is.                 *)
(***************************************************************************)
EXTENDS Naturals, Sequences, FiniteSets, SequencesExt

CONSTANTS Calls, Tasks, TaskOf, KeyOf, BodyOf,   \* BodyOf: the fingerprint of a call
          Resumes,      \* calls with a previous handle
          Strict,       \* calls with resume_required
          Silent,       \* calls whose turns report no states
          Confirming,   \* supportsStopConfirmation of the client, which an older kind lacks
          Limit, MaxPending, MaxEntries,
          Repairs,      \* max_structure_repairs
          None

VARIABLES disposal,     \* "no", "waiting" or "done"
          runs,         \* entries of the replay cache, oldest first: calls that execute
          settled,      \* executions whose promise is settled
          from,         \* the execution whose promise a call returned, or None
          activeByTask, active, waiters,
          held,         \* executions with a release handle
          pc, aborted,
          mode,         \* the turn in hand: "resume", "start" or "repair"
          launched, confirmed,   \* runtimeLaunched, runtimeStopConfirmed
          explicit,     \* runtime_stop_confirmed of the error: "yes", "no" or "none"
          report, runtime,       \* runtime: "none", "live" or "ended"
          repairs, outcome

slotVars == <<activeByTask, active, waiters, held>>
cache    == <<disposal, runs, settled, from>>
turnVars == <<mode, launched, report, runtime, repairs>>
adapterVars == <<cache, slotVars, pc, aborted, turnVars, confirmed, explicit, outcome>>

Init ==
    /\ disposal = "no" /\ runs = <<>> /\ settled = {} /\ from = [c \in Calls |-> None]
    /\ activeByTask = [t \in Tasks |-> None] /\ active = 0 /\ waiters = <<>> /\ held = {}
    /\ pc = [c \in Calls |-> "idle"] /\ aborted = {}
    /\ mode = [c \in Calls |-> IF c \in Resumes THEN "resume" ELSE "start"]
    /\ launched = {} /\ confirmed = {} /\ explicit = [c \in Calls |-> "none"]
    /\ report = [c \in Calls |-> "none"] /\ runtime = [c \in Calls |-> "none"]
    /\ repairs = [c \in Calls |-> 0] /\ outcome = [c \in Calls |-> "none"]
-----------------------------------------------------------------------------
Goto(c, l)     == pc' = [pc EXCEPT ![c] = l]
Throw(c, stop) == Goto(c, "caught") /\ explicit' = [explicit EXCEPT ![c] = stop]
Known(c)       == {r \in ToSet(runs) : KeyOf[r] = KeyOf[c]}

\* What is left of s: its elements at the places K, in their order.
Keep(s, K) ==
    [k \in 1..Cardinality(K) |-> s[CHOOSE j \in K : Cardinality({i \in K : i <= j}) = k]]

\* Seeded bug: the oldest entries go, settled or not.
TrimOldest(s, done) == IF Len(s) <= MaxEntries THEN s ELSE SubSeq(s, Len(s) - MaxEntries + 1, Len(s))

\* trimIdempotencyCache: the oldest settled entries go while there are too many.
Trim(s, done) ==
    LET excess   == IF Len(s) > MaxEntries THEN Len(s) - MaxEntries ELSE 0
        older(k) == Cardinality({j \in 1..k : s[j] \in done})
    IN Keep(s, {k \in DOMAIN s : s[k] \notin done \/ older(k) > excess})

\* invoke: refused, or a replay that shares the promise of its key and body.
Replay(c) ==
    /\ pc[c] = "idle" /\ (disposal # "no" \/ Known(c) # {})
    /\ LET same == {r \in Known(c) : disposal = "no" /\ BodyOf[r] = BodyOf[c]} IN
       /\ from' = [from EXCEPT ![c] = IF same = {} THEN None ELSE CHOOSE r \in same : TRUE]
       /\ Goto(c, IF same = {} THEN "refused" ELSE "shares")
    /\ UNCHANGED <<disposal, runs, settled, slotVars, aborted, turnVars, confirmed, explicit, outcome>>

\* A new execution, which its task, its signal, its deadline or the semaphore may turn away.
Invoke(c) ==
    /\ pc[c] = "idle" /\ disposal = "no" /\ Known(c) = {}
    /\ runs' = Trim(Append(runs, c), settled)
    /\ from' = [from EXCEPT ![c] = c]
    /\ IF activeByTask[TaskOf[c]] # None
       THEN /\ Goto(c, "turnedAway")
            /\ UNCHANGED <<slotVars, explicit, aborted>>
       ELSE /\ activeByTask' = [activeByTask EXCEPT ![TaskOf[c]] = c]
            /\ \/ aborted' = aborted \cup {c} /\ Throw(c, "none")
                  /\ UNCHANGED <<active, waiters, held>>
               \/ /\ active < Limit /\ active' = active + 1 /\ held' = held \cup {c}
                  /\ Goto(c, "admitted")
                  /\ UNCHANGED <<waiters, explicit, aborted>>
               \/ /\ active >= Limit /\ Len(waiters) < MaxPending
                  /\ waiters' = Append(waiters, c) /\ Goto(c, "queued")
                  /\ UNCHANGED <<active, held, explicit, aborted>>
               \/ /\ active >= Limit /\ Len(waiters) >= MaxPending
                  /\ Throw(c, "yes")
                  /\ UNCHANGED <<active, held, waiters, aborted>>
    /\ UNCHANGED <<disposal, settled, turnVars, confirmed, outcome>>

\* The signal of every execution of S aborts: waiters leave the queue.
AbortEffect(S) ==
    /\ aborted' = aborted \cup S
    /\ waiters' = Keep(waiters, {k \in DOMAIN waiters : waiters[k] \notin S})
    /\ pc' = [c \in Calls |-> IF c \in S /\ pc[c] = "queued" THEN "caught" ELSE pc[c]]

\* The caller's signal, cancel(task), or the deadline.
Abort(c) ==
    /\ activeByTask[TaskOf[c]] = c /\ c \notin aborted
    /\ AbortEffect({c})
    /\ UNCHANGED <<cache, activeByTask, active, held, turnVars, confirmed, explicit, outcome>>

Dispose ==
    /\ disposal = "no" /\ disposal' = "waiting"
    /\ AbortEffect({c \in Calls : activeByTask[TaskOf[c]] = c})
    /\ UNCHANGED <<runs, settled, from, activeByTask, active, held, turnVars, confirmed, explicit, outcome>>

\* The client is closed, whatever comes of that, and what was in the cache has settled.
Disposed ==
    /\ disposal = "waiting" /\ ToSet(runs) \subseteq settled
    /\ disposal' = "done"
    /\ UNCHANGED <<runs, settled, from, slotVars, pc, aborted, turnVars, confirmed, explicit, outcome>>
-----------------------------------------------------------------------------
(* An execution.  Each callback into the control plane may refuse.         *)

\* The transport context keeps every state a client reports, then passes it on.
Say(c, state) ==
    /\ report' = [report EXCEPT ![c] = state]
    /\ confirmed' = IF state = "stopped" THEN confirmed \cup {c} ELSE confirmed \ {c}

Begin(c) ==
    /\ pc[c] = "admitted"
    /\ \/ Throw(c, "none") /\ UNCHANGED launched
       \/ launched' = launched \cup {c} /\ Goto(c, "ready") /\ UNCHANGED explicit
    /\ UNCHANGED <<cache, slotVars, aborted, mode, confirmed, report, runtime, repairs, outcome>>

\* Seeded bug: a repair turn inherits the proof of the turn before it.
ProofInherited(c) ==
    /\ pc[c] = "ready" /\ ~(mode[c] = "start" /\ c \in Strict)
    /\ Goto(c, "turn") /\ runtime' = [runtime EXCEPT ![c] = "none"]
    /\ UNCHANGED <<cache, slotVars, aborted, mode, launched, confirmed, explicit, report, repairs, outcome>>

\* startOrResume and the repair: the client is asked for a turn, a strict resume
\* never for a new thread; a repair gives up the proof of the turn before it.
AskClient(c) ==
    /\ pc[c] = "ready"
    /\ \/ /\ ~(mode[c] = "start" /\ c \in Strict)
          /\ Goto(c, "turn") /\ runtime' = [runtime EXCEPT ![c] = "none"]
          /\ IF mode[c] = "repair" THEN Say(c, "running") ELSE UNCHANGED <<report, confirmed>>
          /\ UNCHANGED explicit
       \/ /\ mode[c] # "start" \/ c \in Strict \cup Resumes
          /\ Throw(c, "none")
          /\ confirmed' \in {confirmed, IF mode[c] = "repair" THEN confirmed \ {c} ELSE confirmed}
          /\ UNCHANGED <<report, runtime>>
    /\ UNCHANGED <<cache, slotVars, aborted, mode, launched, repairs, outcome>>

Told(c, state) == IF c \in Silent THEN UNCHANGED <<report, confirmed>> ELSE Say(c, state)

\* The client launches a turn, and says so first.
ClientLaunches(c) ==
    /\ pc[c] = "turn" /\ runtime[c] = "none" /\ c \notin aborted
    /\ Told(c, "running")
    /\ runtime' = [runtime EXCEPT ![c] = "live"]
    /\ UNCHANGED <<cache, slotVars, pc, aborted, mode, launched, explicit, repairs, outcome>>

RuntimeEnds(c) ==
    /\ runtime[c] = "live"
    /\ runtime' = [runtime EXCEPT ![c] = "ended"]
    /\ UNCHANGED <<cache, slotVars, pc, aborted, mode, launched, confirmed, explicit, report, repairs, outcome>>

ClientReturns(c) ==
    /\ pc[c] = "turn" /\ runtime[c] = "ended"
    /\ Goto(c, "answered")
    /\ UNCHANGED <<cache, slotVars, aborted, turnVars, confirmed, explicit, outcome>>

\* A turn fails: the client claims a stop only of a turn that is not alive, and
\* its error may say nothing at all.
ClientFails(c) ==
    /\ pc[c] = "turn"
    /\ \/ runtime[c] # "live" /\ Told(c, "stopped") /\ Throw(c, "yes")
       \/ Told(c, "unconfirmed") /\ Throw(c, "no")
       \/ /\ \E stop \in {"yes", "no", "none"} : (stop = "yes" => runtime[c] # "live") /\ Throw(c, stop)
          /\ UNCHANGED <<report, confirmed>>
    /\ UNCHANGED <<cache, slotVars, aborted, mode, launched, runtime, repairs, outcome>>

\* A handle that the text of the error calls stale is replaced by a new thread, unless
\* resumption is strict, whatever state the client reported with it.  No client calls a
\* thread stale while its turn is at work.
ReplaceStale(c) ==
    /\ pc[c] = "turn" /\ mode[c] = "resume" /\ c \notin Strict /\ runtime[c] # "live"
    /\ \/ \E state \in {"stopped", "unconfirmed"} : Told(c, state)
       \/ UNCHANGED <<report, confirmed>>
    /\ mode' = [mode EXCEPT ![c] = "start"]
    /\ Goto(c, "ready")
    /\ UNCHANGED <<cache, slotVars, aborted, launched, explicit, runtime, repairs, outcome>>

\* The handle is saved and the stop reported; either may be refused.
Answered(c) ==
    /\ pc[c] = "answered"
    /\ \/ mode[c] # "repair" /\ Throw(c, "none") /\ UNCHANGED <<report, confirmed>>
       \/ confirmed' = confirmed \cup {c} /\ Throw(c, "none") /\ UNCHANGED report
       \/ Say(c, "stopped") /\ Goto(c, "judging") /\ UNCHANGED explicit
    /\ UNCHANGED <<cache, slotVars, aborted, mode, launched, runtime, repairs, outcome>>

End(c, o) == outcome' = [outcome EXCEPT ![c] = o] /\ Goto(c, "ending")

\* parseWithBoundedRepair: valid, repaired in the same thread, or given up.
Judge(c) ==
    /\ pc[c] = "judging"
    /\ \/ Goto(c, "publishing") /\ UNCHANGED <<mode, repairs, outcome>>
       \/ /\ repairs[c] < Repairs
          /\ repairs' = [repairs EXCEPT ![c] = @ + 1] /\ mode' = [mode EXCEPT ![c] = "repair"]
          /\ Goto(c, "ready")
          /\ UNCHANGED outcome
       \/ End(c, "failed") /\ UNCHANGED <<mode, repairs>>
    /\ UNCHANGED <<cache, slotVars, aborted, launched, confirmed, explicit, report, runtime>>

\* Verifications and artifacts, each only while nothing has aborted, then the deliverable:
\* when there is none left, it is returned though the signal has aborted.
Publish(c) ==
    /\ pc[c] = "publishing"
    /\ \/ End(c, "result") /\ UNCHANGED explicit
       \/ Throw(c, "none") /\ UNCHANGED outcome
    /\ UNCHANGED <<cache, slotVars, aborted, turnVars, confirmed>>

\* The catch: what is known to have stopped is reported so, and what an older client
\* gave up without a word on it.
StopKnown(c) ==
    \/ explicit[c] = "yes"
    \/ explicit[c] = "none" /\ (c \notin launched \/ c \in confirmed \/ ~Confirming)

Catch(c) ==
    /\ pc[c] = "caught"
    /\ \/ /\ Say(c, IF StopKnown(c) THEN "stopped" ELSE "unconfirmed")
          /\ \E o \in IF ~StopKnown(c) THEN {"unconfirmed"}
                      ELSE IF c \in aborted THEN {"stopped"}
                      ELSE {"error", "stopped", "partial"} : End(c, o)
       \/ \* the report itself is refused
          End(c, "error") /\ UNCHANGED <<report, confirmed>>
    /\ UNCHANGED <<cache, slotVars, aborted, mode, launched, explicit, runtime, repairs>>

\* The release handle: the slot goes to the first waiter, or is free.
Release(c) ==
    /\ held' = (held \ {c}) \cup (IF c \in held /\ waiters # <<>> THEN {Head(waiters)} ELSE {})
    /\ active' = IF c \in held /\ waiters = <<>> THEN active - 1 ELSE active
    /\ waiters' = IF c \in held /\ waiters # <<>> THEN Tail(waiters) ELSE waiters
    /\ pc' = [d \in Calls |-> CASE d = c -> "done"
                                [] d # c /\ d \in held' \ held -> "admitted"
                                [] OTHER -> pc[d]]

\* The finally block: telemetry, which may refuse a success; slot and task are free;
\* the promise settles, and the cache is trimmed.
Settle(c) ==
    /\ pc[c] \in {"ending", "turnedAway"}
    /\ \E o \in IF outcome[c] \in {"result", "failed"} THEN {"fulfilled", "rejected"}
                ELSE IF outcome[c] \in {"partial", "stopped"} THEN {"fulfilled"} ELSE {"rejected"} :
          outcome' = [outcome EXCEPT ![c] = o]
    /\ IF pc[c] = "ending" THEN activeByTask' = [activeByTask EXCEPT ![TaskOf[c]] = None]
       ELSE UNCHANGED activeByTask
    /\ Release(c)
    /\ settled' = settled \cup {c} /\ runs' = Trim(runs, settled')
    /\ aborted' = aborted \ {c} /\ launched' = launched \ {c} /\ confirmed' = confirmed \ {c}
    /\ explicit' = [explicit EXCEPT ![c] = "none"] /\ mode' = [mode EXCEPT ![c] = "start"]
    /\ repairs' = [repairs EXCEPT ![c] = 0]
    /\ runtime' = [runtime EXCEPT ![c] = IF @ = "live" THEN @ ELSE "none"]
    /\ UNCHANGED <<disposal, from, report>>
-----------------------------------------------------------------------------
Advance(c) == \/ Begin(c) \/ AskClient(c) \/ Answered(c) \/ Judge(c) \/ Publish(c)
              \/ Catch(c) \/ Settle(c)
Client(c)  == ClientReturns(c) \/ ClientFails(c) \/ ReplaceStale(c)
Next == \/ \E c \in Calls : \/ Replay(c) \/ Invoke(c) \/ Abort(c) \/ Advance(c) \/ Client(c)
                            \/ ClientLaunches(c) \/ RuntimeEnds(c)
        \/ Dispose \/ Disposed

\* Promises are continued, and a client answers every turn it was asked for
\* (AtRest of CodexTurns, on its own instance).
Fairness == (\A c \in Calls : WF_adapterVars(Advance(c) \/ Client(c))) /\ WF_adapterVars(Disposed)

Spec == Init /\ [][Next]_adapterVars /\ Fairness
-----------------------------------------------------------------------------
(* Properties.                                                             *)

\* A call is of a task, None is none of them; the constructor checks both bounds.
Sane ==
    /\ TaskOf \in [Calls -> Tasks] /\ None \notin Calls /\ Limit \in Nat \ {0} /\ MaxPending \in Nat
    /\ Confirming \in BOOLEAN

Executing(c) == pc[c] \notin {"idle", "refused", "shares", "done"}

TypeOK ==
    /\ disposal \in {"no", "waiting", "done"} /\ runs \in Seq(Calls) /\ settled \subseteq Calls
    /\ from \in [Calls -> Calls \cup {None}] /\ activeByTask \in [Tasks -> Calls \cup {None}]
    /\ active \in 0..Limit /\ Len(waiters) <= MaxPending /\ held \subseteq Calls
    /\ report \in [Calls -> {"none", "running", "stopped", "unconfirmed"}]
    /\ \A c \in Calls : repairs[c] <= Repairs

\* The slots counted are those held, and nobody waits while one is free, whatever
\* aborts, deadlines and disposal do to a waiter that is just being admitted; once
\* disposed nobody is at work, for the control plane then closes its store.
SlotsConserved ==
    /\ active = Cardinality(held) /\ held \subseteq {c \in Calls : Executing(c)}
    /\ waiters # <<>> => active = Limit
    /\ ToSet(waiters) = {c \in Calls : pc[c] = "queued"}
    /\ disposal = "done" => \A c \in Calls : ~Executing(c)

\* "stopped" frees the write scope: of a client that confirms stops it is never the last word
\* on a turn that is alive, through a repair, a replaced thread, and turns that report nothing;
\* and nobody is handed a deliverable of such a turn.
StopReportHonest ==
    Confirming => \A c \in Calls :
        report[c] = "stopped" \/ outcome[c] = "fulfilled" => runtime[c] # "live"

\* One key is never at work twice, not even when the cache overflows; one task is
\* neither; and who shares a promise asked for the same thing.
OneExecution ==
    /\ \A c, d \in Calls : c # d /\ Executing(c) /\ Executing(d) =>
          /\ KeyOf[c] # KeyOf[d]
          /\ TaskOf[c] = TaskOf[d] => "turnedAway" \in {pc[c], pc[d]}
    /\ \A c \in Calls : from[c] # None => KeyOf[from[c]] = KeyOf[c] /\ BodyOf[from[c]] = BodyOf[c]

\* Nothing is owed to anyone: every execution and every disposal has settled.
AtRest == (\A c \in Calls : ~Executing(c)) /\ disposal # "waiting"
=============================================================================
