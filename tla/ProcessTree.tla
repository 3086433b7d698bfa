----------------------------- MODULE ProcessTree -----------------------------
(***************************************************************************)
(* ensureProcessTreeStopped (claude-code-runner.ts): whether a Claude      *)
(* process and the tools it started are gone.  On POSIX the tools share a  *)
(* process group; on Windows the tree is rebuilt from snapshots of all     *)
(* processes, by parent pid and creation time, while processes start, end  *)
(* and reuse pids between a snapshot, its use and the kills that follow.   *)
(***************************************************************************)
EXTENDS Naturals, FiniteSets

CONSTANTS Pids, Root,     \* Root: the pid of the child that was spawned
          MaxBorn,        \* processes that are ever started
          TidyTools,      \* a tool that ends by itself outlives what it started,
                          \* and none gets the used pid of the child
          None

VARIABLES platform,       \* "posix" or "win32"
          row,            \* pid -> None or a process
          clock,          \* creation times are the order of creation
          rootSeen,       \* of the child: "alive", "exited" or "closed"
          closedAt,       \* 0 until the close event
          seen,           \* the process table that was asked for last, None before it came
          known,          \* pid -> creation time of what was found to belong
          targets,        \* found by the last snapshot, still to be killed
          verdict,        \* "none", "stopped" or "unconfirmed"
          struck          \* a process of somebody else was killed

treeVars == <<platform, row, clock, rootSeen, closedAt, seen, known, targets, verdict, struck>>

Started == 1
Process(parent, born, ours) == [parent |-> parent, born |-> born, ours |-> ours]
Live == {p \in Pids : row[p] # None}
Ours == {p \in Live : row[p].ours}

\* Besides the child, an older process may run whose dead parent had the child's pid.
Init ==
    /\ platform \in {"posix", "win32"}
    /\ \E elder \in SUBSET (Pids \ {Root}) : Cardinality(elder) <= 1 /\
          row = [p \in Pids |-> CASE p = Root -> Process(None, Started, TRUE)
                                  [] p \in elder -> Process(Root, 0, FALSE)
                                  [] OTHER -> None]
    /\ clock = Started /\ rootSeen = "alive" /\ closedAt = 0
    /\ seen = None /\ known = [p \in Pids |-> None] /\ targets = {}
    /\ verdict = "none" /\ struck = FALSE
-----------------------------------------------------------------------------
(* The operating system.                                                   *)

\* A pid is free again once its process is gone, the child's once its end was seen.
Free == {p \in Pids \ Live : p # Root \/ rootSeen # "alive"}

Begin(p, parent, ours) ==
    /\ p \in Free /\ clock < MaxBorn
    /\ ours /\ TidyTools => p # Root
    /\ clock' = clock + 1
    /\ row' = [row EXCEPT ![p] = Process(parent, clock + 1, ours)]
    /\ UNCHANGED <<platform, rootSeen, closedAt, seen, known, targets, verdict, struck>>

End(p) ==
    /\ p \in Live
    /\ row[p].ours /\ p # Root /\ TidyTools => \A q \in Ours : row[q].parent # p
    /\ row' = [row EXCEPT ![p] = None]
    /\ UNCHANGED <<platform, clock, rootSeen, closedAt, seen, known, targets, verdict, struck>>

\* The exit event of the child, and its close event later.
RootEvent ==
    /\ \/ rootSeen = "alive" /\ row[Root] = None /\ rootSeen' = "exited" /\ UNCHANGED closedAt
       \/ rootSeen = "exited" /\ rootSeen' = "closed" /\ closedAt' = clock
    /\ UNCHANGED <<platform, row, clock, seen, known, targets, verdict, struck>>
-----------------------------------------------------------------------------
(* POSIX: probe the group, SIGTERM, SIGKILL after a grace period.          *)

ProbeGroup ==
    /\ platform = "posix" /\ verdict = "none" /\ Ours = {}
    /\ verdict' = "stopped"
    /\ UNCHANGED <<platform, row, clock, rootSeen, closedAt, seen, known, targets, struck>>

KillGroup ==
    /\ platform = "posix" /\ verdict = "none" /\ Ours # {}
    /\ row' = [p \in Pids |-> IF p \in Ours THEN None ELSE row[p]]
    /\ UNCHANGED <<platform, clock, rootSeen, closedAt, seen, known, targets, verdict, struck>>
-----------------------------------------------------------------------------
(* Windows: the process table is asked for, and judged when it has come.   *)

\* snapshot().
Look ==
    /\ platform = "win32" /\ verdict = "none" /\ targets = {} /\ seen = None
    /\ seen' = row
    /\ UNCHANGED <<platform, row, clock, rootSeen, closedAt, known, targets, verdict, struck>>

Listed == {p \in Pids : seen[p] # None}

\* The row of a process says that it belongs below what was found so far.
Belongs(p, owned) ==
    LET up == seen[p].parent IN
    /\ p # Root
    /\ \/ up = Root \/ up \in owned
       \/ up \in Pids /\ known[up] # None /\ up \notin Listed
    /\ seen[p].born >= Started
    /\ up = Root /\ closedAt # 0 => seen[p].born <= closedAt
    /\ up # Root => seen[p].born >= (IF known[up] # None THEN known[up] ELSE seen[up].born)

Seed == {p \in Listed : \/ p = Root /\ rootSeen = "alive"
                        \/ known[p] = seen[p].born}
Owned == {p \in Listed : \A S \in SUBSET Listed :
             (Seed \subseteq S /\ \A q \in Listed : Belongs(q, S) => q \in S) => p \in S}

\* Seeded bug: once the child has exited, nothing is looked for.
ExitIsProof ==
    /\ verdict = "none" /\ seen # None
    /\ known' = [p \in Pids |-> IF p \in Owned THEN seen[p].born ELSE known[p]]
    /\ targets' = IF rootSeen = "alive" THEN Owned ELSE {}
    /\ verdict' = IF rootSeen # "alive" THEN "stopped" ELSE IF Owned # {} THEN "none" ELSE "unconfirmed"
    /\ seen' = IF verdict' = "none" THEN None ELSE seen
    /\ UNCHANGED <<platform, row, clock, rootSeen, closedAt, struck>>

\* What the table says is judged by whether the child has ended by now, and when; so is the answer.
Judge ==
    /\ verdict = "none" /\ seen # None
    /\ known' = [p \in Pids |-> IF p \in Owned THEN seen[p].born ELSE known[p]]
    /\ targets' = Owned
    /\ verdict' = IF Owned # {} THEN "none"
                  ELSE IF rootSeen = "alive" THEN "unconfirmed" ELSE "stopped"
    /\ seen' = IF verdict' = "none" THEN None ELSE seen
    /\ UNCHANGED <<platform, row, clock, rootSeen, closedAt, struck>>

\* What taskkill /T takes down: whoever has the pid now, and what it started.
Below(p) == {q \in Live : \A S \in SUBSET Live :
                (p \in S /\ \A r \in Live : \A up \in S \cap {row[r].parent} :
                    row[r].born > row[up].born => r \in S) => q \in S}

\* Kills follow one by one, the child first; any of them may fail.
Terminate(p) ==
    /\ p \in targets /\ (Root \in targets => p = Root)
    /\ targets' = targets \ {p}
    /\ \E K \in {{}, IF p \in Live THEN Below(p) ELSE {}} :
          /\ row' = [q \in Pids |-> IF q \in K THEN None ELSE row[q]]
          /\ struck' = (struck \/ K \ Ours # {})
    /\ UNCHANGED <<platform, clock, rootSeen, closedAt, seen, known, verdict>>

\* An inspection fails, or the stop deadline passes: never a proof.  After a
\* failure the child is killed once more if it is still alive.
GiveUp ==
    /\ verdict = "none" /\ verdict' = "unconfirmed" /\ targets' = {} /\ seen' = None
    /\ \E K \in {{}, IF platform = "win32" /\ rootSeen = "alive" /\ Root \in Live
                     THEN Below(Root) ELSE {}} :
          /\ row' = [q \in Pids |-> IF q \in K THEN None ELSE row[q]]
          /\ struck' = (struck \/ K \ Ours # {})
    /\ UNCHANGED <<platform, clock, rootSeen, closedAt, known>>
-----------------------------------------------------------------------------
Next ==
    \/ \E p \in Pids : \/ \E up \in Live : Begin(p, up, row[up].ours)
                       \/ Begin(p, None, FALSE)
                       \/ End(p) \/ Terminate(p)
    \/ RootEvent \/ ProbeGroup \/ KillGroup \/ Look \/ Judge \/ GiveUp

Spec == Init /\ [][Next]_treeVars /\ WF_treeVars(GiveUp)
-----------------------------------------------------------------------------
(* Properties.                                                             *)

Processes == [parent : Pids \cup {None}, born : Nat, ours : BOOLEAN]

Sane == Root \in Pids /\ MaxBorn \in Nat /\ None \notin Processes

TypeOK ==
    /\ platform \in {"posix", "win32"} /\ row \in [Pids -> Processes \cup {None}]
    /\ clock \in Nat \ {0} /\ rootSeen \in {"alive", "exited", "closed"} /\ closedAt \in 0 .. clock
    /\ seen \in [Pids -> Processes \cup {None}] \cup {None}
    /\ known \in [Pids -> Nat \cup {None}] /\ targets \subseteq Pids
    /\ verdict \in {"none", "stopped", "unconfirmed"} /\ struck \in BOOLEAN

\* The child of the run was alive when the table was made.
ChildListed == seen # None /\ seen[Root] # None /\ seen[Root].ours

\* Proof of a stop is proof: once the check has answered TRUE, no process that the run started is
\* alive or ever will be, whatever was started, ended or got a used pid between snapshot, judgement,
\* kill and the next snapshot; unless the answer rests on a table in which the child, whose end has
\* been seen since, is alive: what that child started in between is not in it.
StopProofSound == verdict = "stopped" /\ ~ChildListed => Ours = {}

\* "PID creation times prevent killing an unrelated process after PID reuse."
StrangersSpared == ~struck
=============================================================================
