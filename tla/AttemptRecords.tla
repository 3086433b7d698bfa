--------------------------- MODULE AttemptRecords ---------------------------
(***************************************************************************)
(* The records of a task's attempts (attempt-service.ts, and the commit of *)
(* performInvocation): the session each attempt can be resumed by, the one *)
(* telemetry row it ends with, and the receipt that says whether that row  *)
(* could be sealed.  A storage fault may hit any seal; the persisted draft *)
(* is then sealed by a repair.  A delegation that died before its launch   *)
(* may be repeated after a recovery has closed the current attempt: it     *)
(* works on that attempt again.                                            *)
(***************************************************************************)
EXTENDS Naturals

CONSTANTS Handle, Unsafe,       \* what a caller may pass as a session, and what is none
          None,
          MaxAttempt            \* bound on attempt numbers

VARIABLES attempt,      \* the task's current attempt
          strict,       \* spec.telemetry_mode
          prepared,     \* a delegation of the task is still PREPARING
          runner,       \* its execution row: "none" if STOPPED, "unstopped" if nobody
                        \* executes it any more, or what executes it
          att,          \* task_attempts
          receipt,      \* attempt_observations: the draft, and what became of it
          sealed,       \* attempt_telemetry
          rerun         \* history: attempts started again after their end

attemptVars == <<attempt, strict, prepared, runner, att, receipt, sealed, rerun>>

N == 0..MaxAttempt
Ended(n) == att[n] # None /\ att[n].ended
AtWork == runner \in {"delegation", "recovery"}
\* assertSafeHandle: no credential, no transcript, one printable line.
Safe(h)  == h \notin Unsafe
Row(h, from) == [handle |-> h, from |-> from, ended |-> FALSE]

Init ==
    /\ attempt = 0 /\ strict \in BOOLEAN /\ prepared \in BOOLEAN /\ runner = "none" /\ rerun = {}
    /\ att = [n \in N |-> None] /\ receipt = [n \in N |-> None] /\ sealed = [n \in N |-> None]
-----------------------------------------------------------------------------
(* Attempts and their sessions.                                            *)

\* start, from runAttempt: a record that exists already is kept, an ended one too, which a
\* delegation meets that is launched only now.
Start ==
    /\ runner = "none"
    /\ prepared \/ ~Ended(attempt)
    /\ att' = [att EXCEPT ![attempt] = IF @ = None THEN Row(None, None) ELSE @]
    /\ rerun' = rerun \cup {n \in {attempt} : Ended(n)}
    /\ prepared' = FALSE /\ runner' = "delegation"
    /\ UNCHANGED <<attempt, strict, receipt, sealed>>

\* TaskService.retry looks at the task alone.
Retry ==
    /\ runner = "none" /\ attempt < MaxAttempt
    /\ attempt' = attempt + 1
    /\ UNCHANGED <<strict, prepared, runner, att, receipt, sealed, rerun>>

\* startResumed, in the transaction that closes the attempt it resumes.
Resume ==
    /\ runner = "none" /\ att[attempt] # None /\ attempt < MaxAttempt
    /\ att[attempt].handle # None /\ att[attempt + 1] = None
    /\ att' = [att EXCEPT ![attempt].ended = TRUE, ![attempt + 1] = Row(att[attempt].handle, attempt)]
    /\ attempt' = attempt + 1 /\ runner' = "recovery"
    /\ UNCHANGED <<strict, prepared, receipt, sealed, rerun>>

\* saveExecutionHandle, while the runtime is at work: a recovered session stays the same.
SaveHandle(h) ==
    /\ AtWork /\ Safe(h)
    /\ runner = "recovery" => h = att[attempt].handle
    /\ att' = [att EXCEPT ![attempt].handle = h]
    /\ UNCHANGED <<attempt, strict, prepared, runner, receipt, sealed, rerun>>

\* bridge_save_execution_handle, by the owner, when no execution owns the record.
ToolSave(h) ==
    /\ runner = "none" /\ Safe(h) /\ ~Ended(attempt)
    /\ att' = [att EXCEPT ![attempt] = IF @ = None THEN Row(h, None) ELSE [@ EXCEPT !.handle = h]]
    /\ UNCHANGED <<attempt, strict, prepared, runner, receipt, sealed, rerun>>

\* The executor dies, or its final transaction throws for good: what it wrote before stays.
\* Later somebody stops the row.
Lose ==
    /\ \/ AtWork /\ runner' = "unstopped"
       \/ runner # "none" /\ runner' = "none"
    /\ UNCHANGED <<attempt, strict, prepared, att, receipt, sealed, rerun>>
-----------------------------------------------------------------------------
(* Observation.                                                            *)

\* normalizeAttemptTelemetry: what the properties tell apart of a normalized row; the times
\* in it differ from one run of an attempt to the next.
Telemetry == [usage : BOOLEAN, verdict : {"as reported", "commit failed"}, run : {"first", "rerun"}]
Observed(usage, verdict) ==
    [usage |-> usage, verdict |-> verdict, run |-> IF attempt \in rerun THEN "rerun" ELSE "first"]

\* What assertSafeTelemetry and the schema find in it.
Check == {"fine", "PRIVACY", "SCHEMA"}

\* prepareObservation: a draft that fails a check keeps none of its values.
Draft(t, check) ==
    [status |-> IF check = "fine" THEN "PENDING" ELSE "REJECTED",
     category |-> IF check = "fine" THEN None ELSE check,
     accepted |-> ~strict, telemetry |-> IF check = "fine" THEN t ELSE None]

\* recordTelemetry: the one row of an attempt, or the one that is there.
Recorded(r, row) == IF row = None THEN r.telemetry ELSE row

\* Seeded bug: a sealed draft is sealed again.
SealAgain(r, row, fault) ==
    IF r.telemetry = None THEN [receipt |-> r, row |-> row]
    ELSE IF fault
    THEN [receipt |-> [r EXCEPT !.status = "INCOMPLETE", !.category = "STORAGE", !.accepted = ~strict], row |-> row]
    ELSE [receipt |-> [r EXCEPT !.status = IF r.telemetry.usage THEN "COMPLETE" ELSE "INCOMPLETE",
                                !.category = IF r.telemetry.usage THEN None ELSE "USAGE_UNAVAILABLE",
                                !.accepted = ~strict \/ r.telemetry.usage],
          row |-> Recorded(r, row)]

\* sealObservation: a receipt that is final is returned; else the draft becomes the row, unless
\* the storage fails or the row that is there differs from it.
Seal(r, row, fault) ==
    IF r.status \in {"REJECTED", "COMPLETE"} \/ r.category = "USAGE_UNAVAILABLE"
    THEN [receipt |-> r, row |-> row]
    ELSE IF fault \/ Recorded(r, row) # r.telemetry
    THEN [receipt |-> [r EXCEPT !.status = IF fault THEN "INCOMPLETE" ELSE "REJECTED",
                                !.category = IF fault THEN "STORAGE" ELSE "SCHEMA", !.accepted = ~strict],
          row |-> row]
    ELSE [receipt |-> [r EXCEPT !.status = IF r.telemetry.usage THEN "COMPLETE" ELSE "INCOMPLETE",
                                !.category = IF r.telemetry.usage THEN None ELSE "USAGE_UNAVAILABLE",
                                !.accepted = ~strict \/ r.telemetry.usage],
          row |-> Recorded(r, row)]

\* end, putObservation and sealObservation, in one transaction with the end of the execution:
\* whatever record and draft of the attempt are there.
Commit(t, check, fault, stopped) ==
    LET s == Seal(Draft(t, check), sealed[attempt], fault) IN
    /\ AtWork
    /\ att' = [att EXCEPT ![attempt].ended = TRUE]
    /\ receipt' = [receipt EXCEPT ![attempt] = s.receipt]
    /\ sealed' = [sealed EXCEPT ![attempt] = s.row]
    /\ runner' = IF stopped THEN "none" ELSE "unstopped"
    /\ UNCHANGED <<attempt, strict, prepared, rerun>>

\* Seeded bug: a commit that throws keeps the row it sealed.
CommitAgainKept(usage, check, fault, stopped) ==
    \/ Commit(Observed(usage, "as reported"), check, fault, stopped)
    \/ /\ AtWork /\ sealed[attempt] = None
       /\ sealed' = [sealed EXCEPT ![attempt] = Observed(usage, "as reported")]
       /\ UNCHANGED <<attempt, strict, prepared, runner, att, receipt, rerun>>
    \/ Commit(Observed(usage, "commit failed"), check, fault, stopped)

\* The final transaction of performInvocation, at the first try, or at the second one, whose
\* telemetry says so, after a first one that threw and was rolled back.  An attempt that has
\* ended is told nothing of what a further run used.
Conclude(usage, check, fault, stopped) ==
    /\ usage => attempt \notin rerun
    /\ \E verdict \in {"as reported", "commit failed"} :
          Commit(Observed(usage, verdict), check, fault, stopped)

\* repairObservation, of any attempt that left a draft.
Repair(n, fault) ==
    LET s == Seal(receipt[n], sealed[n], fault) IN
    /\ receipt[n] # None
    /\ receipt' = [receipt EXCEPT ![n] = s.receipt] /\ sealed' = [sealed EXCEPT ![n] = s.row]
    /\ UNCHANGED <<attempt, strict, prepared, runner, att, rerun>>

Next ==
    \/ Start \/ Retry \/ Resume \/ Lose
    \/ \E h \in Handle : SaveHandle(h) \/ ToolSave(h)
    \/ \E usage, fault, stopped \in BOOLEAN, check \in Check :
          Conclude(usage, check, fault, stopped)
    \/ \E n \in N, fault \in BOOLEAN : Repair(n, fault)

Spec == Init /\ [][Next]_attemptVars
-----------------------------------------------------------------------------
(* Properties.                                                             *)

Attempt == [handle : (Handle \ Unsafe) \cup {None}, from : N \cup {None}, ended : BOOLEAN]
Category == {"PRIVACY", "SCHEMA", "STORAGE", "USAGE_UNAVAILABLE"}
Receipt == [status : {"PENDING", "REJECTED", "COMPLETE", "INCOMPLETE"}, category : Category \cup {None},
            accepted : BOOLEAN, telemetry : Telemetry \cup {None}]

\* None is no row of a table, and no category.
Sane == MaxAttempt \in Nat /\ None \notin Attempt /\ None \notin Telemetry /\ None \notin Receipt \cup Category

TypeOK ==
    /\ attempt \in N /\ strict \in BOOLEAN /\ prepared \in BOOLEAN /\ rerun \subseteq N
    /\ runner \in {"none", "unstopped", "delegation", "recovery"}
    /\ att \in [N -> Attempt \cup {None}]
    /\ receipt \in [N -> Receipt \cup {None}]
    /\ sealed \in [N -> Telemetry \cup {None}]

\* A receipt tells the truth about the telemetry row, whatever faults, repeated commits, repairs
\* and further runs of the attempt came before: a final one has its draft in the row, a row has a
\* receipt that says it is there, unless a further run of the attempt put another draft in its
\* place, and a strict attempt is accepted on a COMPLETE receipt only.
Final(r) == r.status = "COMPLETE" \/ r.category = "USAGE_UNAVAILABLE"
ReceiptsTrue ==
    \A n \in N :
        /\ sealed[n] # None => receipt[n] # None /\ (Final(receipt[n]) \/ n \in rerun)
        /\ receipt[n] # None =>
              /\ Final(receipt[n]) => sealed[n] # None /\ receipt[n].telemetry = sealed[n]
              /\ receipt[n].status = "COMPLETE" => sealed[n].usage
              /\ receipt[n].accepted => ~strict \/ receipt[n].status = "COMPLETE"

\* What an attempt ended with stays.  A sealed row stays whatever happens ("Schema disagreement
\* with an already sealed record preserves that record", docs/telemetry.md:52).  A repair never
\* takes back a sealed receipt ("Repeating a completed repair returns the same receipt",
\* docs/telemetry.md:56), and "A closed attempt handle cannot be rewritten" (tools.ts:292), so that
\* a recovery finds the session it left; except by a further run of the attempt, which the code
\* does not refuse: it may replace handle and receipt.
Unrewritten ==
    \A n \in N :
        /\ sealed[n] # None => sealed'[n] = sealed[n]
        /\ n \notin rerun' => /\ Ended(n) => att'[n] = att[n]
                              /\ sealed[n] # None => receipt'[n] = receipt[n]
EndedForGood == [][Unrewritten]_attemptVars
=============================================================================
