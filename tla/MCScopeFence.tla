---------------------------- MODULE MCScopeFence ----------------------------
(***************************************************************************)
(* Small instances of ScopeFence for TLC.                                  *)
(***************************************************************************)
EXTENDS ScopeFence, TLC

CONSTANTS t1, t2, t3, codex, claude, s1, s2, l1, l2, l3, sa, sb, sc

Symmetric == Permutations(Server) \cup Permutations(Lease)

\* Two agents, two tasks whose scopes overlap.
PairAgentOf == t1 :> codex @@ t2 :> claude
PairScopeOf == t1 :> sa @@ t2 :> sb
PairOverlap == {<<sa, sa>>, <<sa, sb>>, <<sb, sa>>, <<sb, sb>>}

\* One agent whose tasks have read-only scopes: they only compete for its slots.
SlotAgentOf == [t \in Task |-> codex]
SlotScopeOf == [t \in Task |-> sc]
SlotSymmetric == Symmetric \cup Permutations(Task)

\* An agent may work by hand on its own task, or on a task another agent executes.
ByHand == {<<codex, t1, sa>>, <<claude, t2, sb>>}

Nothing == {}
=============================================================================
