------------------------------ MODULE ScopeLock ------------------------------
(***************************************************************************)
(* What write-scope leases promise, with no clock, server, queue or        *)
(* runtime in it.  A lease goes from unused to granted to over, and is     *)
(* granted only when it overlaps no scope that someone else may be         *)
(* writing.  ScopeFence implements it: a lease is granted there while      *)
(* its holder may write under it, or a runtime launched under it executes. *)
(***************************************************************************)
CONSTANTS Lease, Task, Agent, Scope, Overlap, None

VARIABLE grant

Grant == [phase : {"granted"}, task : Task, holder : Agent, scope : Scope]

NoGrant(p) == [phase |-> p, task |-> None, holder |-> None, scope |-> None]

Init == grant = [l \in Lease |-> NoGrant("unused")]

\* Only the same agent working on the same task may overlap itself.
Compatible(a, b) ==
    \/ a.task = b.task /\ a.holder = b.holder
    \/ <<a.scope, b.scope>> \notin Overlap

Give(l, r) ==
    /\ grant[l].phase = "unused"
    /\ \A k \in Lease : grant[k].phase = "granted" => Compatible(r, grant[k])
    /\ grant' = [grant EXCEPT ![l] = r]

\* Any number of leases may end in one step: a reaping, or a runtime's exit.
End(L) == grant' = [l \in Lease |-> IF l \in L THEN NoGrant("over") ELSE grant[l]]

Next ==
    \/ \E l \in Lease, r \in Grant : Give(l, r)
    \/ \E L \in SUBSET {l \in Lease : grant[l].phase = "granted"} : End(L)

Spec == Init /\ [][Next]_grant

=============================================================================
