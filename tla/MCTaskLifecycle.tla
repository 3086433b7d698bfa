-------------------------- MODULE MCTaskLifecycle --------------------------
(***************************************************************************)
(* Small instances of TaskLifecycle for TLC.                               *)
(***************************************************************************)
EXTENDS TaskLifecycle, TLC

CONSTANTS t1, t2, t3, codex, claude, lint

ToCodex == [t \in Task |-> codex]

TasksAlike == Permutations(Task)
=============================================================================
