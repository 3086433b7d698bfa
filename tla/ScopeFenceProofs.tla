-------------------------- MODULE ScopeFenceProofs --------------------------
(***************************************************************************)
(* Proofs about ScopeFence, for every set of tasks, agents, servers and    *)
(* leases, every overlap relation and every bound.                         *)
(*                                                                         *)
(* The argument is one induction, on IInv.  Fenced alone is not inductive: *)
(* its step through the running report needs CallsOrdered (a generation's  *)
(* row loses its stop evidence before its first launch and regains it only *)
(* with the phase that refuses callbacks) and its step through every other *)
(* manager's report needs RowsBound and CallsBound (a row, the coroutine   *)
(* of its generation and its lease name each other).  LeasesExclusive then *)
(* follows at each grant, because IsLive counts every lease that somebody  *)
(* may write under (WritableLive).                                         *)
(*                                                                         *)
(* The theorems assume RepairAgents = {}: the adapters launch one runtime  *)
(* per generation.  With an adapter that opens another turn they do not    *)
(* hold between processes; ScopeFenceRepair.cfg shows a behaviour.         *)
(***************************************************************************)
EXTENDS ScopeFence, FiniteSetTheorems, WellFoundedInduction, TLAPS

USE FenceAssumption DEF Gen, LeaseRow, ExecRow, CallRow

\* A generation that is executing or cleared to launch holds everything the fence promises: the
\* row is its own, unconfirmed and counted, and its lease covers its task and refuses others.
LEMMA LiveFacts ==
  ASSUME IInv, NEW g \in Gen, Live(g)
  PROVE  LET t == call[g].task
             l == call[g].lease
         IN /\ t \in Task /\ l \in Lease /\ g < nextGen
            /\ exec[t].gen = g /\ exec[t].lease = l
            /\ exec[t].phase \in {"RUNNING", "QUARANTINED"} /\ exec[t].stop = FALSE
            /\ lease[l].task = t /\ lease[l].holder = AgentOf[t] /\ lease[l].scope = ScopeOf[t]
            /\ lease[l].state \in {"HELD", "LAPSED", "QUARANTINED"}
            /\ Unconfirmed(l) /\ IsLive(l)
  <1> USE DEF IInv
  <1>1. g < nextGen /\ call[g].task \in Task
    BY DEF TypeOK, CallsBound, Live, Executing
  <1>2. /\ exec[call[g].task].gen = g /\ exec[call[g].task].lease = call[g].lease
        /\ exec[call[g].task].phase \in {"RUNNING", "QUARANTINED"}
        /\ exec[call[g].task].stop = FALSE
        /\ call[g].lease # None
        /\ lease[call[g].lease].state \in {"HELD", "LAPSED", "QUARANTINED"}
    BY <1>1 DEF Fenced, Current, Occupying, TypeOK
  <1>3. call[g].lease \in Lease
    BY <1>2 DEF TypeOK
  <1>4. /\ lease[call[g].lease].task = call[g].task
        /\ lease[call[g].lease].holder = AgentOf[call[g].task]
        /\ lease[call[g].lease].scope = ScopeOf[call[g].task]
    BY <1>2 DEF CallsBound
  <1>5. Unconfirmed(call[g].lease)
    BY <1>1, <1>2, <1>4 DEF Unconfirmed
  <1>6. QED
    BY <1>1, <1>2, <1>3, <1>4, <1>5 DEF IsLive

\* Setting the state of one lease row leaves every other column and row alone.
LEMMA StateTyped ==
  ASSUME TypeOK, NEW l \in Lease, NEW st \in LeaseState
  PROVE  /\ WithState(l, st) \in [Lease -> LeaseRow]
         /\ \A k \in Lease :
              /\ WithState(l, st)[k].task = lease[k].task
              /\ WithState(l, st)[k].holder = lease[k].holder
              /\ WithState(l, st)[k].scope = lease[k].scope
              /\ WithState(l, st)[k].state = IF k = l THEN st ELSE lease[k].state
  <1> DEFINE r == [state |-> st, task |-> lease[l].task, holder |-> lease[l].holder,
                   scope |-> lease[l].scope]
  <1>1. r \in LeaseRow
    BY DEF TypeOK
  <1>2. [lease[l] EXCEPT !.state = st] = r
    <2>1. lease[l] \in LeaseRow
      BY DEF TypeOK
    <2>2. lease[l] = [state |-> lease[l].state, task |-> lease[l].task,
                      holder |-> lease[l].holder, scope |-> lease[l].scope]
      BY <2>1
    <2>3. QED
      BY <2>2
  <1>3. WithState(l, st) = [k \in Lease |-> IF k = l THEN r ELSE lease[k]]
    BY <1>2 DEF TypeOK, WithState
  <1> HIDE DEF r
  <1>4. WithState(l, st) \in [Lease -> LeaseRow]
    BY <1>1, <1>3 DEF TypeOK
  <1>5. r.state = st /\ r.task = lease[l].task /\ r.holder = lease[l].holder /\ r.scope = lease[l].scope
    BY DEF r
  <1>6. \A k \in Lease : WithState(l, st)[k] = IF k = l THEN r ELSE lease[k]
    BY <1>3
  <1>7. QED
    BY <1>4, <1>5, <1>6

\* executions.update patches the phase and the evidence of one row, and nothing else.
LEMMA RowUpdated ==
  ASSUME TypeOK, NEW t \in Task, NEW p \in Phase \cup {"none"}, NEW b \in BOOLEAN
  PROVE  /\ Updated(t, p, b) \in [Task -> ExecRow]
         /\ \A k \in Task :
              /\ k # t => Updated(t, p, b)[k] = exec[k]
              /\ Updated(t, p, b)[k].phase = IF k = t THEN p ELSE exec[k].phase
              /\ Updated(t, p, b)[k].gen = exec[k].gen
              /\ Updated(t, p, b)[k].server = exec[k].server
              /\ Updated(t, p, b)[k].max = exec[k].max
              /\ Updated(t, p, b)[k].ticket = exec[k].ticket
              /\ Updated(t, p, b)[k].stop = IF k = t THEN b ELSE exec[k].stop
              /\ Updated(t, p, b)[k].lease = exec[k].lease
              /\ Updated(t, p, b)[k].cancel = exec[k].cancel
  <1> DEFINE r == [phase |-> p, gen |-> exec[t].gen, server |-> exec[t].server, max |-> exec[t].max, ticket |-> exec[t].ticket, stop |-> b, lease |-> exec[t].lease, cancel |-> exec[t].cancel]
  <1>1. r \in ExecRow
    BY DEF TypeOK
  <1>2. [exec[t] EXCEPT !.phase = p, !.stop = b] = r
    <2>1. exec[t] \in ExecRow
      BY DEF TypeOK
    <2>2. exec[t] = [phase |-> exec[t].phase, gen |-> exec[t].gen, server |-> exec[t].server, max |-> exec[t].max, ticket |-> exec[t].ticket, stop |-> exec[t].stop, lease |-> exec[t].lease, cancel |-> exec[t].cancel]
      BY <2>1
    <2> DEFINE y == [exec[t] EXCEPT !.phase = p]
    <2>3. y = [phase |-> p, gen |-> exec[t].gen, server |-> exec[t].server, max |-> exec[t].max, ticket |-> exec[t].ticket, stop |-> exec[t].stop, lease |-> exec[t].lease, cancel |-> exec[t].cancel]
      BY <2>2
    <2>4. [exec[t] EXCEPT !.phase = p, !.stop = b] = [y EXCEPT !.stop = b]
      OBVIOUS
    <2> HIDE DEF y
    <2>5. [y EXCEPT !.stop = b] = r
      BY <2>3
    <2>6. QED
      BY <2>4, <2>5
  <1>3. Updated(t, p, b) = [k \in Task |-> IF k = t THEN r ELSE exec[k]]
    BY <1>2 DEF TypeOK, Updated
  <1> HIDE DEF r
  <1>4. Updated(t, p, b) \in [Task -> ExecRow]
    BY <1>1, <1>3 DEF TypeOK
  <1>5. r.phase = p /\ r.gen = exec[t].gen /\ r.server = exec[t].server /\ r.max = exec[t].max /\ r.ticket = exec[t].ticket /\ r.stop = b /\ r.lease = exec[t].lease /\ r.cancel = exec[t].cancel
    BY DEF r
  <1>6. \A k \in Task : Updated(t, p, b)[k] = IF k = t THEN r ELSE exec[k]
    BY <1>3
  <1>7. QED
    BY <1>4, <1>5, <1>6

\* Moving the program counter of one coroutine leaves its other locals and the others alone.
LEMMA CallMoved ==
  ASSUME TypeOK, NEW g \in Gen, NEW p \in CallPc,
         call' = [call EXCEPT ![g].pc = p]
  PROVE  /\ call' \in [Gen -> CallRow]
         /\ \A k \in Gen : k # g => call'[k] = call[k]
         /\ \A k \in Gen : /\ call'[k].task = call[k].task /\ call'[k].server = call[k].server
                           /\ call'[k].lease = call[k].lease
         /\ call'[g].pc = p /\ call'[g].stopped = call[g].stopped /\ call'[g].saw = call[g].saw
  <1> DEFINE r == [pc |-> p, task |-> call[g].task, server |-> call[g].server, lease |-> call[g].lease, stopped |-> call[g].stopped, saw |-> call[g].saw]
  <1>1. r \in CallRow
    BY DEF TypeOK
  <1>2. [call[g] EXCEPT !.pc = p] = r
    <2>1. call[g] \in CallRow
      BY DEF TypeOK
    <2>2. call[g] = [pc |-> call[g].pc, task |-> call[g].task, server |-> call[g].server, lease |-> call[g].lease, stopped |-> call[g].stopped, saw |-> call[g].saw]
      BY <2>1
    <2>3. QED
      BY <2>2
  <1>3. call' = [k \in Gen |-> IF k = g THEN r ELSE call[k]]
    BY <1>2 DEF TypeOK
  <1> HIDE DEF r
  <1>4. call' \in [Gen -> CallRow]
    BY <1>1, <1>3 DEF TypeOK
  <1>5. r.pc = p /\ r.task = call[g].task /\ r.server = call[g].server /\ r.lease = call[g].lease /\ r.stopped = call[g].stopped /\ r.saw = call[g].saw
    BY DEF r
  <1>6. \A k \in Gen : call'[k] = IF k = g THEN r ELSE call[k]
    BY <1>3
  <1>7. QED
    BY <1>4, <1>5, <1>6

\* Moving a program counter and recording a verdict leaves the identity of the coroutine alone.
LEMMA CallConcluded ==
  ASSUME TypeOK, NEW g \in Gen, NEW p \in CallPc, NEW b \in BOOLEAN,
         call' = [call EXCEPT ![g].pc = p, ![g].stopped = b]
  PROVE  /\ call' \in [Gen -> CallRow]
         /\ \A k \in Gen : k # g => call'[k] = call[k]
         /\ \A k \in Gen : /\ call'[k].task = call[k].task /\ call'[k].server = call[k].server
                           /\ call'[k].lease = call[k].lease
         /\ call'[g].pc = p /\ call'[g].stopped = b /\ call'[g].saw = call[g].saw
  <1> DEFINE r == [pc |-> p, task |-> call[g].task, server |-> call[g].server, lease |-> call[g].lease, stopped |-> b, saw |-> call[g].saw]
  <1>1. r \in CallRow
    BY DEF TypeOK
  <1>2. [call[g] EXCEPT !.pc = p, !.stopped = b] = r
    <2>1. call[g] \in CallRow
      BY DEF TypeOK
    <2>2. call[g] = [pc |-> call[g].pc, task |-> call[g].task, server |-> call[g].server, lease |-> call[g].lease, stopped |-> call[g].stopped, saw |-> call[g].saw]
      BY <2>1
    <2> DEFINE y == [call[g] EXCEPT !.pc = p]
    <2>3. y = [pc |-> p, task |-> call[g].task, server |-> call[g].server, lease |-> call[g].lease, stopped |-> call[g].stopped, saw |-> call[g].saw]
      BY <2>2
    <2>4. [call[g] EXCEPT !.pc = p, !.stopped = b] = [y EXCEPT !.stopped = b]
      OBVIOUS
    <2> HIDE DEF y
    <2>5. [y EXCEPT !.stopped = b] = r
      BY <2>3
    <2>6. QED
      BY <2>4, <2>5
  <1>3. call' = [k \in Gen |-> IF k = g THEN r ELSE call[k]]
    BY <1>2 DEF TypeOK
  <1> HIDE DEF r
  <1>4. call' \in [Gen -> CallRow]
    BY <1>1, <1>3 DEF TypeOK
  <1>5. r.pc = p /\ r.task = call[g].task /\ r.server = call[g].server /\ r.lease = call[g].lease /\ r.stopped = b /\ r.saw = call[g].saw
    BY DEF r
  <1>6. \A k \in Gen : call'[k] = IF k = g THEN r ELSE call[k]
    BY <1>3
  <1>7. QED
    BY <1>4, <1>5, <1>6

\* Recording the phase read before a stop report changes that one local.
LEMMA CallSaw ==
  ASSUME TypeOK, NEW g \in Gen, NEW p \in Phase \cup {"none"},
         call' = [call EXCEPT ![g].saw = p]
  PROVE  /\ call' \in [Gen -> CallRow]
         /\ \A k \in Gen : k # g => call'[k] = call[k]
         /\ \A k \in Gen : /\ call'[k].task = call[k].task /\ call'[k].server = call[k].server
                           /\ call'[k].lease = call[k].lease
         /\ call'[g].pc = call[g].pc /\ call'[g].stopped = call[g].stopped /\ call'[g].saw = p
  <1> DEFINE r == [pc |-> call[g].pc, task |-> call[g].task, server |-> call[g].server, lease |-> call[g].lease, stopped |-> call[g].stopped, saw |-> p]
  <1>1. r \in CallRow
    BY DEF TypeOK
  <1>2. [call[g] EXCEPT !.saw = p] = r
    <2>1. call[g] \in CallRow
      BY DEF TypeOK
    <2>2. call[g] = [pc |-> call[g].pc, task |-> call[g].task, server |-> call[g].server, lease |-> call[g].lease, stopped |-> call[g].stopped, saw |-> call[g].saw]
      BY <2>1
    <2>3. QED
      BY <2>2
  <1>3. call' = [k \in Gen |-> IF k = g THEN r ELSE call[k]]
    BY <1>2 DEF TypeOK
  <1> HIDE DEF r
  <1>4. call' \in [Gen -> CallRow]
    BY <1>1, <1>3 DEF TypeOK
  <1>5. r.pc = call[g].pc /\ r.task = call[g].task /\ r.server = call[g].server /\ r.lease = call[g].lease /\ r.stopped = call[g].stopped /\ r.saw = p
    BY DEF r
  <1>6. \A k \in Gen : call'[k] = IF k = g THEN r ELSE call[k]
    BY <1>3
  <1>7. QED
    BY <1>4, <1>5, <1>6

-----------------------------------------------------------------------------
(* Most steps grant nothing and queue nothing.                             *)

\* Leases may end, lapse or be quarantined, and none is granted.
LeaseShrinks ==
    /\ lease' \in [Lease -> LeaseRow]
    /\ \A l \in Lease :
          /\ lease'[l].task = lease[l].task /\ lease'[l].holder = lease[l].holder
          /\ lease'[l].scope = lease[l].scope
          /\ lease'[l].state = "none" <=> lease[l].state = "none"
          /\ lease'[l].state = "HELD" => lease[l].state = "HELD"

\* Rows keep their identity: no generation is queued and no lease bound.
RowsKept ==
    /\ exec' \in [Task -> ExecRow]
    /\ \A t \in Task :
          /\ exec'[t].gen = exec[t].gen /\ exec'[t].lease = exec[t].lease
          /\ exec'[t].server = exec[t].server /\ exec'[t].ticket = exec[t].ticket
          /\ exec[t].gen = 0 => exec'[t] = exec[t]

\* Coroutines keep their identity, and generations not yet queued stay unused.
CallsKept ==
    /\ call' \in [Gen -> CallRow]
    /\ \A g \in Gen :
          /\ call'[g].task = call[g].task /\ call'[g].server = call[g].server
          /\ call'[g].lease = call[g].lease
          /\ g >= nextGen => call'[g] = call[g] /\ runtime'[g] = runtime[g]

\* A step that grants nothing and queues nothing.
Kept ==
    /\ LeaseShrinks /\ RowsKept /\ CallsKept
    /\ runtime' \in [Gen -> RuntimeState] /\ up' \in [Server -> BOOLEAN] /\ nextGen' = nextGen

\* The typing and binding parts of the invariant survive every step that grants and queues nothing.
LEMMA KeptBound == ASSUME IInv, Kept PROVE TypeOK' /\ RowsBound' /\ CallsBound' /\ LeasesBound'
  <1> USE DEF Kept
  <1>1. TypeOK'
    BY DEF IInv, TypeOK, LeaseShrinks, RowsKept, CallsKept
  <1>2. RowsBound'
    BY DEF IInv, TypeOK, RowsBound, RowsKept, CallsKept
  <1>3. CallsBound'
    BY DEF IInv, TypeOK, CallsBound, CallsKept, LeaseShrinks
  <1>4. LeasesBound'
    BY DEF IInv, TypeOK, LeasesBound, LeaseShrinks
  <1>5. QED
    BY <1>1, <1>2, <1>3, <1>4

\* A generation that stays cleared, or is cleared now under its unexpired lease, keeps its
\* fence if its row and its lease do.
FenceKept(g) ==
    /\ \/ Live(g)
       \/ /\ call[g].task \in Task /\ exec[call[g].task].gen = g /\ call[g].lease \in Lease
          /\ exec[call[g].task].lease = call[g].lease /\ lease[call[g].lease].state = "HELD"
    /\ exec'[call[g].task].phase \in Occupying /\ exec'[call[g].task].stop = FALSE
    /\ lease'[call[g].lease].state \in {"HELD", "LAPSED", "QUARANTINED"}

\* Under such a step, Fenced and LeasesExclusive survive if each cleared generation keeps its fence.
LEMMA KeptFenced ==
  ASSUME IInv, Kept, \A g \in Gen : Live(g)' => FenceKept(g)
  PROVE  Fenced' /\ LeasesExclusive'
  <1> USE DEF FenceKept
  <1>1. Fenced'
    <2> SUFFICES ASSUME NEW g \in Gen, Live(g)'
                 PROVE (LET e == exec[call[g].task]
                        IN /\ Current(g) /\ e.phase \in Occupying /\ ~e.stop
                           /\ e.lease = call[g].lease /\ e.lease # None
                           /\ lease[e.lease].state \in {"HELD", "LAPSED", "QUARANTINED"})'
      BY DEF Fenced
    <2>1. call[g].task \in Task /\ call[g].lease \in Lease /\ exec[call[g].task].gen = g
          /\ exec[call[g].task].lease = call[g].lease
      BY LiveFacts
    <2>2. call'[g].task = call[g].task /\ call'[g].lease = call[g].lease
      BY DEF Kept, CallsKept
    <2>3. exec'[call[g].task].gen = g /\ exec'[call[g].task].lease = call[g].lease
      BY <2>1 DEF Kept, RowsKept
    <2>4. QED
      BY <2>1, <2>2, <2>3 DEF Current
  <1>2. ASSUME NEW l \in Lease, Writable(l)' PROVE Writable(l)
    <2>1. CASE lease'[l].state = "HELD"
      BY <2>1 DEF Writable, Kept, LeaseShrinks
    <2>2. CASE \E g \in Gen : call'[g].lease = l /\ Live(g)'
      <3>1. PICK g \in Gen : call'[g].lease = l /\ Live(g)'
        BY <2>2
      <3>2. call[g].lease = l
        BY <3>1 DEF Kept, CallsKept
      <3>3. Live(g) \/ lease[l].state = "HELD"
        BY <3>1, <3>2
      <3>4. QED
        BY <3>2, <3>3 DEF Writable
    <2>3. QED
      BY <1>2, <2>1, <2>2 DEF Writable
  <1>3. \A l, k \in Lease : SameIdentity(l, k)' = SameIdentity(l, k)
                            /\ lease'[l].scope = lease[l].scope
    BY DEF SameIdentity, Kept, LeaseShrinks
  <1>4. LeasesExclusive'
    BY <1>2, <1>3 DEF IInv, LeasesExclusive, Conflicting
  <1>5. QED
    BY <1>1, <1>4

\* The part of a coroutine that does not move keeps its order.
LEMMA KeptOrdered ==
  ASSUME IInv, Kept, NEW h \in Gen, call'[h] = call[h], runtime'[h] = runtime[h],
         call[h].task \in Task /\ exec[call[h].task].gen = h /\ Refusing(call[h].task)
            => Refusing(call[h].task)'
  PROVE  CallOrdered(h)'
  <1>1. CallOrdered(h)
    BY DEF IInv, CallsOrdered
  <1>2. (call[h].task \in Task) \/ h >= nextGen
    BY DEF IInv, TypeOK, CallsBound
  <1>3. CASE h >= nextGen
    <2>1. call[h].pc = "unused" /\ call[h].saw = "none"
      BY <1>3 DEF IInv, CallsBound, NoCall
    <2>2. QED
      BY <2>1 DEF CallOrdered
  <1>4. CASE call[h].task \in Task
    <2>1. Current(h)' <=> Current(h)
      BY <1>4 DEF Current, Kept, RowsKept
    <2>2. Live(h)' <=> Live(h)
      BY DEF Live, Executing
    <2>3. QED
      BY <1>1, <1>4, <2>1, <2>2 DEF CallOrdered, Current
  <1>5. QED
    BY <1>2, <1>3, <1>4

\* The whole invariant survives such a step once order and fences are shown.
LEMMA KeptInv ==
  ASSUME IInv, Kept,
         \A g \in Gen : CallOrdered(g)',
         \A g \in Gen : Live(g)' => FenceKept(g)
  PROVE  IInv'
  <1>1. CallsOrdered'
    BY DEF CallsOrdered
  <1>2. QED
    BY <1>1, KeptBound, KeptFenced DEF IInv

\* A cleared generation whose row and lease the step leaves alone.
LEMMA UntouchedFence ==
  ASSUME IInv, NEW g \in Gen, Live(g), exec'[call[g].task] = exec[call[g].task],
         \/ lease'[call[g].lease].state = lease[call[g].lease].state
         \/ lease'[call[g].lease].state \in {"HELD", "LAPSED", "QUARANTINED"}
  PROVE  FenceKept(g)
  <1>1. /\ exec[call[g].task].phase \in {"RUNNING", "QUARANTINED"}
        /\ exec[call[g].task].stop = FALSE
        /\ lease[call[g].lease].state \in {"HELD", "LAPSED", "QUARANTINED"}
    BY LiveFacts
  <1>2. QED
    BY <1>1 DEF FenceKept, Occupying

\* Two generations cleared for one task are one.
LEMMA LiveUnique ==
  ASSUME IInv, NEW g \in Gen, Live(g), NEW t \in Task, call[g].task = t
  PROVE  exec[t].gen = g /\ exec[t].phase \in {"RUNNING", "QUARANTINED"} /\ exec[t].stop = FALSE
  BY LiveFacts

\* Ending, lapsing or quarantining a row that exists grants nothing.
LEMMA StateShrinks ==
  ASSUME TypeOK, NEW l \in Lease, NEW st \in {"LAPSED", "QUARANTINED", "ENDED"},
         lease[l].state # "none", lease' = WithState(l, st)
  PROVE  LeaseShrinks /\ \A k \in Lease : lease'[k].state = IF k = l THEN st ELSE lease[k].state
  <1>1. st \in LeaseState
    BY DEF LeaseState
  <1>2. /\ WithState(l, st) \in [Lease -> LeaseRow]
        /\ \A k \in Lease :
              /\ WithState(l, st)[k].task = lease[k].task
              /\ WithState(l, st)[k].holder = lease[k].holder
              /\ WithState(l, st)[k].scope = lease[k].scope
              /\ WithState(l, st)[k].state = IF k = l THEN st ELSE lease[k].state
    BY <1>1, StateTyped
  <1>3. QED
    BY <1>2 DEF LeaseShrinks

\* An update of an existing row keeps its generation, lease, server and ticket.
LEMMA RowUpdatedKept ==
  ASSUME TypeOK, NEW t \in Task, NEW p \in Phase \cup {"none"}, NEW b \in BOOLEAN,
         exec[t].gen # 0, exec' = Updated(t, p, b)
  PROVE  /\ RowsKept
         /\ exec'[t].phase = p /\ exec'[t].stop = b
         /\ \A u \in Task : u # t => exec'[u] = exec[u]
  <1>1. exec' \in [Task -> ExecRow]
    BY RowUpdated
  <1>2. /\ \A k \in Task : k # t => exec'[k] = exec[k]
        /\ \A k \in Task : exec'[k].phase = IF k = t THEN p ELSE exec[k].phase
        /\ \A k \in Task : exec'[k].stop = IF k = t THEN b ELSE exec[k].stop
    BY RowUpdated
  <1>3. \A k \in Task : /\ exec'[k].gen = exec[k].gen /\ exec'[k].lease = exec[k].lease
                        /\ exec'[k].server = exec[k].server /\ exec'[k].ticket = exec[k].ticket
    BY RowUpdated
  <1>4. exec'[t].phase = p /\ exec'[t].stop = b
    BY <1>2
  <1>5. QED
    BY <1>1, <1>2, <1>3, <1>4 DEF RowsKept

\* The empty workspace satisfies the invariant.
LEMMA InitInv == Init => IInv
  <1> SUFFICES ASSUME Init PROVE IInv
    OBVIOUS
  <1> USE DEF Init, NoLeaseRow, NoExecRow, NoCall
  <1>1. TypeOK
    BY DEF TypeOK, LeaseState, Phase, CallPc, RuntimeState
  <1>2. RowsBound
    BY DEF RowsBound
  <1>3. CallsBound /\ CallsOrdered /\ LeasesBound
    BY DEF CallsBound, CallsOrdered, CallOrdered, LeasesBound, Current, Live, Executing
  <1>4. Fenced /\ LeasesExclusive
    BY DEF Fenced, LeasesExclusive, Writable, Live, Executing
  <1>5. QED
    BY <1>1, <1>2, <1>3, <1>4 DEF IInv

\* A step that ends, lapses or quarantines at most one lease leaves all other leases alone.
LEMMA LeaseMoved ==
  ASSUME TypeOK, NEW l \in Lease \cup {None},
         \/ lease' = lease
         \/ /\ l \in Lease /\ lease[l].state # "none"
            /\ \E st \in {"LAPSED", "QUARANTINED", "ENDED"} : lease' = WithState(l, st)
  PROVE  LeaseShrinks /\ \A k \in Lease : k # l => lease'[k].state = lease[k].state
  <1>1. CASE lease' = lease
    BY <1>1 DEF LeaseShrinks, TypeOK
  <1>2. CASE /\ l \in Lease /\ lease[l].state # "none"
             /\ \E st \in {"LAPSED", "QUARANTINED", "ENDED"} : lease' = WithState(l, st)
    <2>1. PICK st \in {"LAPSED", "QUARANTINED", "ENDED"} : lease' = WithState(l, st)
      BY <1>2
    <2>2. LeaseShrinks /\ \A k \in Lease : lease'[k].state = IF k = l THEN st ELSE lease[k].state
      BY <1>2, <2>1, StateShrinks
    <2>3. QED
      BY <2>2
  <1>3. QED
    BY <1>1, <1>2

\* A step by the manager of one generation, which touches that row and that lease only and
\* moves no other coroutine, keeps the invariant if it keeps its own order and fence.
LEMMA ManagerStep ==
  ASSUME IInv, Kept, NEW g \in Gen,
         \A h \in Gen : h # g => call'[h] = call[h] /\ runtime'[h] = runtime[h],
         \A t \in Task : exec[t].gen # g => exec'[t] = exec[t],
         \A l \in Lease : \/ lease'[l].state = lease[l].state
                          \/ Current(g) /\ l = call[g].lease,
         CallOrdered(g)',
         Live(g)' => FenceKept(g)
  PROVE  IInv'
  <1>1. ASSUME NEW h \in Gen, h # g
        PROVE  CallOrdered(h)'
    BY <1>1, KeptOrdered DEF Refusing
  <1>2. ASSUME NEW h \in Gen, h # g, Live(h)'
        PROVE  FenceKept(h)
    <2>1. Live(h)
      BY <1>2 DEF Live, Executing
    <2>2. /\ call[h].task \in Task /\ call[h].lease \in Lease /\ exec[call[h].task].gen = h
          /\ lease[call[h].lease].task = call[h].task
      BY <2>1, LiveFacts
    <2>3. exec'[call[h].task] = exec[call[h].task]
      BY <1>2, <2>2
    <2>4. lease'[call[h].lease].state = lease[call[h].lease].state
      <3>1. SUFFICES ASSUME Current(g), call[g].lease = call[h].lease PROVE FALSE
        BY <2>2
      <3>2. call[g].lease # None
        BY <2>2, <3>1
      <3>3. lease[call[g].lease].task = call[g].task
        BY <3>2 DEF IInv, CallsBound
      <3>4. QED
        BY <1>2, <2>2, <3>1, <3>3 DEF Current
    <2>5. QED
      BY <2>1, <2>3, <2>4, UntouchedFence
  <1>3. QED
    BY <1>1, <1>2, KeptInv

\* A step that moves no coroutine and no runtime keeps the invariant if it weakens no row: one
\* that refuses callbacks still does, and a cleared generation keeps its fence.
LEMMA RowStep ==
  ASSUME IInv, Kept, call' = call, runtime' = runtime,
         \A t \in Task : Refusing(t) => Refusing(t)',
         \A g \in Gen : Live(g) => FenceKept(g)
  PROVE  IInv'
  <1>1. ASSUME NEW h \in Gen PROVE CallOrdered(h)'
    BY KeptOrdered
  <1>2. ASSUME NEW h \in Gen, Live(h)' PROVE FenceKept(h)
    BY <1>2 DEF Live, Executing
  <1>3. QED
    BY <1>1, <1>2, KeptInv

-----------------------------------------------------------------------------
(* Leases.                                                                 *)

\* The clock breaks nothing: a lapsed lease still fences a runtime that executes.
LEMMA ExpireInv == ASSUME IInv, NEW l \in Lease, Expire(l) PROVE IInv'
  <1>1. /\ UNCHANGED <<exec, call, runtime, up, nextGen>>
        /\ lease' = WithState(l, "LAPSED") /\ lease[l].state = "HELD"
    BY DEF Expire
  <1>2. TypeOK
    BY DEF IInv
  <1>3. LeaseShrinks /\ \A k \in Lease : lease'[k].state = IF k = l THEN "LAPSED" ELSE lease[k].state
    BY <1>1, <1>2, StateShrinks
  <1>4. Kept
    BY <1>1, <1>2, <1>3 DEF TypeOK, Kept, RowsKept, CallsKept
  <1>5. ASSUME NEW g \in Gen PROVE CallOrdered(g)'
    BY <1>1, <1>4, KeptOrdered DEF Refusing
  <1>6. ASSUME NEW g \in Gen, Live(g)'
        PROVE  FenceKept(g)
    <2>1. Live(g)
      BY <1>1, <1>6 DEF Live, Executing
    <2>2. /\ exec[call[g].task].phase \in {"RUNNING", "QUARANTINED"}
          /\ exec[call[g].task].stop = FALSE /\ call[g].lease \in Lease
          /\ lease[call[g].lease].state \in {"HELD", "LAPSED", "QUARANTINED"}
      BY <2>1, LiveFacts
    <2>3. QED
      BY <1>1, <1>3, <2>1, <2>2 DEF FenceKept, Occupying
  <1>7. QED
    BY <1>4, <1>5, <1>6, KeptInv

\* release breaks nothing, because it refuses a lease whose execution is unconfirmed.
LEMMA ReleaseInv == ASSUME IInv, NEW l \in Lease, Release(l) PROVE IInv'
  <1>1. /\ UNCHANGED <<exec, call, runtime, up, nextGen>>
        /\ lease' = WithState(l, "ENDED") /\ lease[l].state \in {"HELD", "LAPSED"}
        /\ ~Unconfirmed(l)
    BY DEF Release, Held
  <1>2. TypeOK
    BY DEF IInv
  <1>3. LeaseShrinks /\ \A k \in Lease : lease'[k].state = IF k = l THEN "ENDED" ELSE lease[k].state
    BY <1>1, <1>2, StateShrinks
  <1>4. Kept
    BY <1>1, <1>2, <1>3 DEF TypeOK, Kept, RowsKept, CallsKept
  <1>5. ASSUME NEW g \in Gen PROVE CallOrdered(g)'
    BY <1>1, <1>4, KeptOrdered DEF Refusing
  <1>6. ASSUME NEW g \in Gen, Live(g)'
        PROVE  FenceKept(g)
    <2>1. Live(g)
      BY <1>1, <1>6 DEF Live, Executing
    <2>2. /\ exec[call[g].task].phase \in {"RUNNING", "QUARANTINED"}
          /\ exec[call[g].task].stop = FALSE /\ call[g].lease \in Lease
          /\ lease[call[g].lease].state \in {"HELD", "LAPSED", "QUARANTINED"}
          /\ Unconfirmed(call[g].lease)
      BY <2>1, LiveFacts
    <2>3. call[g].lease # l
      BY <1>1, <2>2
    <2>4. QED
      BY <1>1, <1>3, <2>1, <2>2, <2>3 DEF FenceKept, Occupying
  <1>7. QED
    BY <1>4, <1>5, <1>6, KeptInv

\* Reaping quarantines what has lapsed and is unconfirmed, and ends what has lapsed otherwise.
LEMMA ReapedLeases ==
  ASSUME IInv, ReapExpired
  PROVE  /\ LeaseShrinks
         /\ \A l \in Lease :
               lease'[l].state = IF lease[l].state # "LAPSED" THEN lease[l].state
                                 ELSE IF Unconfirmed(l) THEN "QUARANTINED" ELSE "ENDED"
  <1>1. TypeOK
    BY DEF IInv
  <1>2. /\ lease' \in [Lease -> LeaseRow]
        /\ \A l \in Lease : lease[l].state # "LAPSED" => lease'[l] = lease[l]
        /\ \A l \in Lease : lease[l].state = "LAPSED" =>
              lease'[l] = [state |-> IF Unconfirmed(l) THEN "QUARANTINED" ELSE "ENDED",
                           task |-> lease[l].task, holder |-> lease[l].holder,
                           scope |-> lease[l].scope]
    <2>1. ASSUME NEW l \in Lease, NEW st \in LeaseState
          PROVE  [lease[l] EXCEPT !.state = st] =
                    [state |-> st, task |-> lease[l].task, holder |-> lease[l].holder,
                     scope |-> lease[l].scope]
      <3>1. lease[l] \in LeaseRow
        BY <1>1 DEF TypeOK
      <3>2. lease[l] = [state |-> lease[l].state, task |-> lease[l].task,
                        holder |-> lease[l].holder, scope |-> lease[l].scope]
        BY <3>1
      <3>3. QED
        BY <3>2
    <2>2. lease' = [l \in Lease |->
                      IF lease[l].state = "LAPSED"
                      THEN [state |-> IF Unconfirmed(l) THEN "QUARANTINED" ELSE "ENDED",
                            task |-> lease[l].task, holder |-> lease[l].holder,
                            scope |-> lease[l].scope]
                      ELSE lease[l]]
      BY <2>1 DEF ReapExpired, LeaseState
    <2>3. QED
      BY <1>1, <2>2 DEF TypeOK, LeaseState
  <1>3. ASSUME NEW l \in Lease
        PROVE  /\ lease'[l].task = lease[l].task /\ lease'[l].holder = lease[l].holder
               /\ lease'[l].scope = lease[l].scope
               /\ lease'[l].state = IF lease[l].state # "LAPSED" THEN lease[l].state
                                    ELSE IF Unconfirmed(l) THEN "QUARANTINED" ELSE "ENDED"
    BY <1>2
  <1>4. QED
    BY <1>2, <1>3 DEF LeaseShrinks

\* Reaping breaks nothing, because it quarantines what is unconfirmed.
LEMMA ReapInv == ASSUME IInv, ReapExpired PROVE IInv'
  <1>1. UNCHANGED <<exec, call, runtime, up, nextGen>> /\ TypeOK
    BY DEF ReapExpired, IInv
  <1>2. \A l \in Lease :
           lease'[l].state = IF lease[l].state # "LAPSED" THEN lease[l].state
                             ELSE IF Unconfirmed(l) THEN "QUARANTINED" ELSE "ENDED"
    BY ReapedLeases
  <1>3. LeaseShrinks
    BY ReapedLeases
  <1>4. Kept
    BY <1>1, <1>3 DEF TypeOK, Kept, RowsKept, CallsKept
  <1>5. ASSUME NEW g \in Gen PROVE CallOrdered(g)'
    BY <1>1, <1>4, KeptOrdered DEF Refusing
  <1>6. ASSUME NEW g \in Gen, Live(g)'
        PROVE  FenceKept(g)
    <2>1. Live(g)
      BY <1>1, <1>6 DEF Live, Executing
    <2>2. call[g].lease \in Lease /\ Unconfirmed(call[g].lease)
      BY <2>1, LiveFacts
    <2>3. \/ lease'[call[g].lease].state = lease[call[g].lease].state
          \/ lease'[call[g].lease].state = "QUARANTINED"
      BY <1>2, <2>2
    <2>4. QED
      BY <1>1, <2>1, <2>3, UntouchedFence
  <1>7. QED
    BY <1>4, <1>5, <1>6, KeptInv


-----------------------------------------------------------------------------
(* The manager of a generation.                                            *)

\* A generation that has moved was queued, for a task, and a current one is bound to its lease.
LEMMA Known ==
  ASSUME IInv, NEW g \in Gen,
         call[g].pc # "unused" \/ runtime[g] # "none" \/ call[g].saw # "none"
  PROVE  /\ g < nextGen /\ call[g].task \in Task /\ call[g].lease \in Lease \cup {None}
         /\ call[g].lease # None => lease[call[g].lease].state # "none"
         /\ Current(g) => /\ exec[call[g].task].gen = g /\ exec[call[g].task].gen # 0
                          /\ exec[call[g].task].lease = call[g].lease
  <1>1. g < nextGen
    BY DEF IInv, CallsBound, NoCall, TypeOK
  <1>2. call[g].task \in Task /\ (call[g].lease # None => lease[call[g].lease].state # "none")
    BY <1>1 DEF IInv, CallsBound
  <1>3. call[g].lease \in Lease \cup {None}
    BY DEF IInv, TypeOK
  <1>4. Current(g) => /\ exec[call[g].task].gen = g /\ exec[call[g].task].gen # 0
                      /\ exec[call[g].task].lease = call[g].lease
    BY <1>2 DEF IInv, RowsBound, Current
  <1>5. QED
    BY <1>1, <1>2, <1>3, <1>4

\* Moving the program counter of a queued generation keeps the identities of all coroutines.
LEMMA PcKept ==
  ASSUME IInv, NEW g \in Gen, g < nextGen, NEW p \in CallPc,
         call' = [call EXCEPT ![g].pc = p],
         \A h \in Gen : h # g => runtime'[h] = runtime[h]
  PROVE  /\ CallsKept
         /\ \A h \in Gen : h # g => call'[h] = call[h] /\ runtime'[h] = runtime[h]
         /\ call'[g].pc = p /\ call'[g].stopped = call[g].stopped /\ call'[g].saw = call[g].saw
  <1>1. TypeOK
    BY DEF IInv
  <1>2. call' \in [Gen -> CallRow] /\ \A h \in Gen : h # g => call'[h] = call[h]
    BY <1>1, CallMoved
  <1>3. \A h \in Gen : /\ call'[h].task = call[h].task /\ call'[h].server = call[h].server
                        /\ call'[h].lease = call[h].lease
    BY <1>1, CallMoved
  <1>4. call'[g].pc = p /\ call'[g].stopped = call[g].stopped /\ call'[g].saw = call[g].saw
    BY <1>1, CallMoved
  <1>5. QED
    BY <1>2, <1>3, <1>4 DEF CallsKept, TypeOK, IInv

\* So does ending one with a verdict.
LEMMA ConcludedKept ==
  ASSUME IInv, NEW g \in Gen, g < nextGen, NEW p \in CallPc, NEW b \in BOOLEAN,
         call' = [call EXCEPT ![g].pc = p, ![g].stopped = b],
         \A h \in Gen : h # g => runtime'[h] = runtime[h]
  PROVE  /\ CallsKept
         /\ \A h \in Gen : h # g => call'[h] = call[h] /\ runtime'[h] = runtime[h]
         /\ call'[g].pc = p /\ call'[g].stopped = b /\ call'[g].saw = call[g].saw
  <1>1. TypeOK
    BY DEF IInv
  <1>2. call' \in [Gen -> CallRow] /\ \A h \in Gen : h # g => call'[h] = call[h]
    BY <1>1, CallConcluded
  <1>3. \A h \in Gen : /\ call'[h].task = call[h].task /\ call'[h].server = call[h].server
                        /\ call'[h].lease = call[h].lease
    BY <1>1, CallConcluded
  <1>4. call'[g].pc = p /\ call'[g].stopped = b /\ call'[g].saw = call[g].saw
    BY <1>1, CallConcluded
  <1>5. QED
    BY <1>2, <1>3, <1>4 DEF CallsKept, TypeOK, IInv

\* So does recording the phase a stop report has read.
LEMMA SawKept ==
  ASSUME IInv, NEW g \in Gen, g < nextGen, NEW p \in Phase \cup {"none"},
         call' = [call EXCEPT ![g].saw = p],
         \A h \in Gen : h # g => runtime'[h] = runtime[h]
  PROVE  /\ CallsKept
         /\ \A h \in Gen : h # g => call'[h] = call[h] /\ runtime'[h] = runtime[h]
         /\ call'[g].pc = call[g].pc /\ call'[g].stopped = call[g].stopped /\ call'[g].saw = p
  <1>1. TypeOK
    BY DEF IInv
  <1>2. call' \in [Gen -> CallRow] /\ \A h \in Gen : h # g => call'[h] = call[h]
    BY <1>1, CallSaw
  <1>3. \A h \in Gen : /\ call'[h].task = call[h].task /\ call'[h].server = call[h].server
                        /\ call'[h].lease = call[h].lease
    BY <1>1, CallSaw
  <1>4. call'[g].pc = call[g].pc /\ call'[g].stopped = call[g].stopped /\ call'[g].saw = p
    BY <1>1, CallSaw
  <1>5. QED
    BY <1>2, <1>3, <1>4 DEF CallsKept, TypeOK, IInv

\* A table that a step leaves alone is kept.
LEMMA Untouched ==
  ASSUME IInv
  PROVE  /\ lease' = lease => LeaseShrinks
         /\ exec' = exec => RowsKept
         /\ up' = up => up' \in [Server -> BOOLEAN]
         /\ runtime' = runtime => runtime' \in [Gen -> RuntimeState]
  BY DEF IInv, TypeOK, LeaseShrinks, RowsKept

\* Moving one runtime leaves the others alone.
LEMMA RuntimeMoved ==
  ASSUME IInv, NEW g \in Gen, g < nextGen, NEW r \in RuntimeState,
         runtime' = [runtime EXCEPT ![g] = r]
  PROVE  /\ runtime' \in [Gen -> RuntimeState] /\ runtime'[g] = r
         /\ \A h \in Gen : h # g => runtime'[h] = runtime[h]
         /\ call' = call => CallsKept
  BY DEF IInv, TypeOK, CallsKept

\* Leaving the queue keeps the invariant: nothing was launched for that generation.
LEMMA LeaveQueueInv == ASSUME IInv, NEW g \in Gen, LeaveQueue(g) PROVE IInv'
  <1>1. /\ call[g].pc = "waiting" /\ Current(g)
        /\ call' = [call EXCEPT ![g].pc = "abandoning"]
        /\ exec' = Updated(call[g].task, "STOPPED", TRUE)
        /\ UNCHANGED <<lease, runtime, up, nextGen>>
    BY DEF LeaveQueue
  <1>2. /\ g < nextGen /\ call[g].task \in Task /\ exec[call[g].task].gen = g
        /\ exec[call[g].task].gen # 0 /\ TypeOK /\ CallOrdered(g)
    BY <1>1, Known DEF IInv, CallsOrdered
  <1>3. /\ CallsKept /\ call'[g].pc = "abandoning" /\ call'[g].saw = call[g].saw
        /\ \A h \in Gen : h # g => call'[h] = call[h] /\ runtime'[h] = runtime[h]
    BY <1>1, <1>2, PcKept DEF CallPc
  <1>4. RowsKept /\ \A u \in Task : u # call[g].task => exec'[u] = exec[u]
    BY <1>1, <1>2, RowUpdatedKept DEF Phase
  <1>5. Kept
    BY <1>1, <1>3, <1>4, Untouched DEF Kept
  <1>6. runtime'[g] = "none"
    BY <1>1, <1>2 DEF CallOrdered
  <1>7. CallOrdered(g)' /\ ~Live(g)'
    BY <1>2, <1>3, <1>1, <1>6 DEF CallOrdered, Live, Executing
  <1>8. /\ \A u \in Task : exec[u].gen # g => exec'[u] = exec[u]
        /\ \A l \in Lease : lease'[l].state = lease[l].state
    BY <1>1, <1>2, <1>4
  <1>9. QED
    BY <1>3, <1>5, <1>7, <1>8, ManagerStep

\* Giving a lease back, or confirming its stop, ends at most that lease.
LEMMA GivenBackMoves ==
  ASSUME IInv, NEW l \in Lease \cup {None}, l # None => lease[l].state # "none",
         lease' = GivenBack(l) \/ lease' = Confirmed(l)
  PROVE  LeaseShrinks /\ \A k \in Lease : k # l => lease'[k].state = lease[k].state
  <1>1. \/ lease' = lease
        \/ l \in Lease /\ lease[l].state # "none" /\ lease' = WithState(l, "ENDED")
    BY DEF GivenBack, Confirmed
  <1>2. TypeOK
    BY DEF IInv
  <1>3. QED
    BY <1>1, <1>2, LeaseMoved

\* A prelaunch failure keeps the invariant: it stops a row no runtime was cleared for.
LEMMA AbandonInv == ASSUME IInv, NEW g \in Gen, AbandonPrelaunch(g) PROVE IInv'
  <1>1. /\ call[g].pc \in {"waiting", "abandoning", "admitted"}
        /\ call' = [call EXCEPT ![g].pc = "abandoned"]
        /\ UNCHANGED <<runtime, up, nextGen>>
        /\ \/ /\ Current(g)
              /\ exec' = Updated(call[g].task, "STOPPED", TRUE)
              /\ lease' = GivenBack(call[g].lease)
           \/ exec' = exec /\ lease' = lease
    BY DEF AbandonPrelaunch
  <1>2. /\ g < nextGen /\ call[g].task \in Task /\ TypeOK /\ CallOrdered(g)
        /\ Current(g) => exec[call[g].task].gen = g /\ exec[call[g].task].gen # 0
        /\ call[g].lease \in Lease \cup {None}
        /\ call[g].lease # None => lease[call[g].lease].state # "none"
    BY <1>1, Known DEF IInv, CallsOrdered
  <1>3. /\ CallsKept /\ call'[g].pc = "abandoned" /\ call'[g].saw = call[g].saw
        /\ \A h \in Gen : h # g => call'[h] = call[h] /\ runtime'[h] = runtime[h]
    BY <1>1, <1>2, PcKept DEF CallPc
  <1>4. /\ RowsKept
        /\ \A u \in Task : u # call[g].task \/ ~Current(g) => exec'[u] = exec[u]
    <2>1. CASE Current(g) /\ exec' = Updated(call[g].task, "STOPPED", TRUE)
      BY <1>1, <1>2, <2>1, RowUpdatedKept DEF Phase
    <2>2. CASE exec' = exec
      BY <1>1, <2>2, Untouched
    <2>3. QED
      BY <1>1, <2>1, <2>2
  <1>5. /\ LeaseShrinks
        /\ \A k \in Lease : k # call[g].lease \/ ~Current(g) => lease'[k].state = lease[k].state
    <2>1. CASE Current(g) /\ lease' = GivenBack(call[g].lease)
      BY <1>1, <1>2, <2>1, GivenBackMoves
    <2>2. CASE lease' = lease
      BY <1>1, <2>2, Untouched
    <2>3. QED
      BY <1>1, <2>1, <2>2
  <1>6. Kept
    BY <1>1, <1>3, <1>4, <1>5, Untouched DEF Kept
  <1>7. CallOrdered(g)' /\ ~Live(g)'
    BY <1>1, <1>2, <1>3 DEF CallOrdered, Live, Executing
  <1>8. /\ \A u \in Task : exec[u].gen # g => exec'[u] = exec[u]
        /\ \A l \in Lease : \/ lease'[l].state = lease[l].state
                            \/ Current(g) /\ l = call[g].lease
    <2>1. \A u \in Task : exec[u].gen # g => exec'[u] = exec[u]
      BY <1>4 DEF Current
    <2>2. QED
      BY <2>1, <1>5 DEF Current
  <1>9. QED
    BY <1>3, <1>6, <1>7, <1>8, ManagerStep

\* Authorizing a recovery keeps the invariant: it withdraws the evidence before any launch.
LEMMA AuthorizeRecoveryInv == ASSUME IInv, NEW g \in Gen, AuthorizeRecovery(g) PROVE IInv'
  <1>1. /\ call[g].pc = "admitted" /\ call[g].lease # None /\ Current(g)
        /\ call' = [call EXCEPT ![g].pc = "invoking"]
        /\ exec' = Updated(call[g].task, exec[call[g].task].phase, FALSE)
        /\ UNCHANGED <<lease, runtime, up, nextGen>>
    BY DEF AuthorizeRecovery
  <1>2. /\ g < nextGen /\ call[g].task \in Task /\ exec[call[g].task].gen = g
        /\ exec[call[g].task].gen # 0 /\ TypeOK /\ CallOrdered(g)
        /\ exec[call[g].task].phase \in Phase \cup {"none"}
    BY <1>1, Known DEF IInv, CallsOrdered, TypeOK
  <1>3. /\ CallsKept /\ call'[g].pc = "invoking" /\ call'[g].saw = call[g].saw
        /\ \A h \in Gen : h # g => call'[h] = call[h] /\ runtime'[h] = runtime[h]
    BY <1>1, <1>2, PcKept DEF CallPc
  <1>4. /\ RowsKept /\ \A u \in Task : u # call[g].task => exec'[u] = exec[u]
        /\ exec'[call[g].task].stop = FALSE
    BY <1>1, <1>2, RowUpdatedKept
  <1>5. Kept
    BY <1>1, <1>3, <1>4, Untouched DEF Kept
  <1>6. runtime'[g] = "none" /\ call'[g].lease = call[g].lease /\ call'[g].task = call[g].task
    BY <1>1, <1>2, <1>3 DEF CallOrdered, CallsKept
  <1>7. CallOrdered(g)' /\ ~Live(g)'
    BY <1>1, <1>2, <1>3, <1>4, <1>6 DEF CallOrdered, Live, Executing, Refusing
  <1>8. /\ \A u \in Task : exec[u].gen # g => exec'[u] = exec[u]
        /\ \A l \in Lease : lease'[l].state = lease[l].state
    BY <1>1, <1>2, <1>4
  <1>9. QED
    BY <1>3, <1>5, <1>7, <1>8, ManagerStep

\* The callback check clears a first launch: the row cannot hold stop evidence and still pass.
LEMMA AssertRunningInv ==
  ASSUME IInv, RepairAgents = {}, NEW g \in Gen, AssertRunning(g) PROVE IInv'
  <1>1. /\ call[g].pc = "invoking" /\ runtime[g] = "none" /\ CallbackLegal(g)
        /\ runtime' = [runtime EXCEPT ![g] = "asserted"]
        /\ UNCHANGED <<lease, exec, call, up, nextGen>>
    BY DEF AssertRunning
  <1>2. /\ g < nextGen /\ call[g].task \in Task /\ exec[call[g].task].gen = g
        /\ exec[call[g].task].lease = call[g].lease /\ CallOrdered(g) /\ TypeOK
        /\ call[g].lease \in Lease \cup {None}
    BY <1>1, Known DEF IInv, CallsOrdered, CallbackLegal
  <1>3. /\ exec[call[g].task].phase = "RUNNING" /\ call[g].lease \in Lease
        /\ lease[call[g].lease].state = "HELD"
    BY <1>1, <1>2 DEF CallbackLegal
  <1>4. exec[call[g].task].stop = FALSE
    BY <1>1, <1>2, <1>3 DEF CallOrdered, Refusing, Current, TypeOK
  <1>5. /\ CallsKept /\ runtime' \in [Gen -> RuntimeState] /\ runtime'[g] = "asserted"
        /\ \A h \in Gen : h # g => call'[h] = call[h] /\ runtime'[h] = runtime[h]
    BY <1>1, <1>2, RuntimeMoved DEF RuntimeState
  <1>6. Kept
    BY <1>1, <1>5, Untouched DEF Kept
  <1>7. CallOrdered(g)'
    BY <1>1, <1>2, <1>5 DEF CallOrdered
  <1>8. FenceKept(g)
    BY <1>1, <1>2, <1>3, <1>4 DEF FenceKept, Occupying
  <1>9. QED
    BY <1>1, <1>5, <1>6, <1>7, <1>8, ManagerStep

\* The running report keeps the fence of the generation it clears, or stops one that is stale.
LEMMA ReportRunningInv == ASSUME IInv, NEW g \in Gen, ReportRunning(g) PROVE IInv'
  <1>1. runtime[g] = "asserted" /\ Live(g)
    BY DEF ReportRunning, Live
  <1>2. /\ g < nextGen /\ call[g].task \in Task /\ Current(g) /\ exec[call[g].task].gen # 0
        /\ exec[call[g].task].phase \in {"RUNNING", "QUARANTINED"}
        /\ lease[call[g].lease].state \in {"HELD", "LAPSED", "QUARANTINED"}
    <2>1. /\ g < nextGen /\ call[g].task \in Task /\ exec[call[g].task].gen = g
          /\ exec[call[g].task].phase \in {"RUNNING", "QUARANTINED"}
          /\ lease[call[g].lease].state \in {"HELD", "LAPSED", "QUARANTINED"}
      BY <1>1, LiveFacts
    <2>2. QED
      BY <2>1 DEF Current
  <1>3. /\ exec' = Updated(call[g].task, exec[call[g].task].phase, FALSE)
        /\ runtime' = [runtime EXCEPT ![g] = "starting"]
        /\ UNCHANGED <<lease, call, up, nextGen>> /\ TypeOK /\ CallOrdered(g)
    BY <1>2 DEF ReportRunning, IInv, CallsOrdered
  <1>4. /\ CallsKept /\ runtime' \in [Gen -> RuntimeState] /\ runtime'[g] = "starting"
        /\ \A h \in Gen : h # g => call'[h] = call[h] /\ runtime'[h] = runtime[h]
    BY <1>2, <1>3, RuntimeMoved DEF RuntimeState
  <1>5. /\ RowsKept /\ exec'[call[g].task].stop = FALSE
        /\ exec'[call[g].task].phase = exec[call[g].task].phase
        /\ \A u \in Task : u # call[g].task => exec'[u] = exec[u]
    BY <1>2, <1>3, RowUpdatedKept DEF Phase
  <1>6. Kept
    BY <1>3, <1>4, <1>5, Untouched DEF Kept
  <1>7. CallOrdered(g)'
    BY <1>1, <1>3, <1>4 DEF CallOrdered
  <1>8. FenceKept(g)
    BY <1>1, <1>2, <1>3, <1>5 DEF FenceKept, Occupying
  <1>9. \A u \in Task : exec[u].gen # g => exec'[u] = exec[u]
    BY <1>2, <1>5 DEF Current
  <1>10. QED
    BY <1>3, <1>4, <1>6, <1>7, <1>8, <1>9, ManagerStep

\* A launch or an exit: only the world moves.
LEMMA RuntimeOnly ==
  ASSUME IInv, NEW g \in Gen, runtime[g] \in {"starting", "running"},
         NEW r \in {"running", "stopped"},
         runtime' = [runtime EXCEPT ![g] = r], UNCHANGED <<lease, exec, call, up, nextGen>>
  PROVE  IInv'
  <1>1. Live(g) /\ CallOrdered(g)
    BY DEF Live, Executing, IInv, CallsOrdered
  <1>2. g < nextGen
    BY <1>1, LiveFacts
  <1>3. /\ CallsKept /\ runtime' \in [Gen -> RuntimeState] /\ runtime'[g] = r
        /\ \A h \in Gen : h # g => call'[h] = call[h] /\ runtime'[h] = runtime[h]
    BY <1>2, RuntimeMoved DEF RuntimeState
  <1>4. Kept
    BY <1>3, Untouched DEF Kept
  <1>5. CallOrdered(g)'
    BY <1>1, <1>3 DEF CallOrdered
  <1>6. FenceKept(g)
    BY <1>1, UntouchedFence
  <1>7. QED
    BY <1>3, <1>4, <1>5, <1>6, ManagerStep

\* Spawning the runtime moves only the world.
LEMMA LaunchInv == ASSUME IInv, NEW g \in Gen, Launch(g) PROVE IInv'
  BY RuntimeOnly DEF Launch

\* The end of a runtime moves only the world.
LEMMA RuntimeExitInv == ASSUME IInv, NEW g \in Gen, RuntimeExit(g) PROVE IInv'
  BY RuntimeOnly DEF RuntimeExit

\* Reading the row before a stop report records a phase; the runtime is over by then.
LEMMA ReadBeforeInv == ASSUME IInv, NEW g \in Gen, ReadBeforeStopReport(g) PROVE IInv'
  <1>1. /\ call[g].pc \in {"invoking", "settled", "done"} /\ Current(g)
        /\ call' = [call EXCEPT ![g].saw = exec[call[g].task].phase]
        /\ runtime' = [runtime EXCEPT ![g] = "stopped"]
        /\ UNCHANGED <<lease, exec, up, nextGen>>
    BY DEF ReadBeforeStopReport, Reporting
  <1>2. /\ g < nextGen /\ call[g].task \in Task /\ CallOrdered(g)
        /\ exec[call[g].task].phase \in Phase \cup {"none"}
    BY <1>1, Known DEF IInv, TypeOK, CallsOrdered
  <1>3. /\ runtime' \in [Gen -> RuntimeState] /\ runtime'[g] = "stopped"
        /\ \A h \in Gen : h # g => runtime'[h] = runtime[h]
    BY <1>1, <1>2, RuntimeMoved DEF RuntimeState
  <1>4. /\ CallsKept /\ call'[g].pc = call[g].pc /\ call'[g].stopped = call[g].stopped
        /\ \A h \in Gen : h # g => call'[h] = call[h]
    BY <1>1, <1>2, <1>3, SawKept
  <1>5. Kept
    BY <1>1, <1>3, <1>4, Untouched DEF Kept
  <1>6. call'[g].lease = call[g].lease
    BY <1>4 DEF CallsKept
  <1>7. CallOrdered(g)' /\ ~Live(g)'
    BY <1>1, <1>2, <1>3, <1>4, <1>6 DEF CallOrdered, Live, Executing
  <1>8. QED
    BY <1>1, <1>3, <1>4, <1>5, <1>7, ManagerStep

\* A stop report frees the scope of no other generation: it writes only while it is current.
LEMMA ReportStoppedInv == ASSUME IInv, NEW g \in Gen, ReportStopped(g) PROVE IInv'
  <1>1. /\ call[g].saw # "none" /\ call' = [call EXCEPT ![g].saw = "none"]
        /\ UNCHANGED <<runtime, up, nextGen>>
    BY DEF ReportStopped
  <1>2. /\ g < nextGen /\ call[g].task \in Task /\ TypeOK /\ CallOrdered(g)
        /\ Current(g) => /\ exec[call[g].task].gen = g /\ exec[call[g].task].gen # 0
                         /\ exec[call[g].task].lease = call[g].lease
        /\ call[g].lease \in Lease \cup {None}
        /\ call[g].lease # None => lease[call[g].lease].state # "none"
        /\ exec[call[g].task].phase \in Phase \cup {"none"}
    BY <1>1, Known DEF IInv, CallsOrdered, TypeOK
  <1>3. /\ CallsKept /\ call'[g].pc = call[g].pc /\ call'[g].stopped = call[g].stopped
        /\ call'[g].saw = "none"
        /\ \A h \in Gen : h # g => call'[h] = call[h] /\ runtime'[h] = runtime[h]
    BY <1>1, <1>2, SawKept
  <1>4. RowsKept /\ \A u \in Task : u # call[g].task \/ ~Current(g) => exec'[u] = exec[u]
    <2>1. CASE Current(g)
      <3>1. PICK p \in Phase \cup {"none"} : exec' = Updated(call[g].task, p, TRUE)
        BY <1>2, <2>1 DEF ReportStopped, Phase
      <3>2. QED
        BY <1>2, <2>1, <3>1, RowUpdatedKept
    <2>2. CASE ~Current(g)
      BY <2>2, Untouched DEF ReportStopped
    <2>3. QED
      BY <2>1, <2>2
  <1>5. /\ LeaseShrinks
        /\ \A k \in Lease : k # call[g].lease \/ ~Current(g) => lease'[k].state = lease[k].state
    <2>1. CASE Current(g)
      <3>1. lease' = lease \/ lease' = Confirmed(call[g].lease)
        BY <1>2, <2>1 DEF ReportStopped
      <3>2. QED
        BY <1>2, <2>1, <3>1, GivenBackMoves, Untouched
    <2>2. CASE ~Current(g)
      BY <2>2, Untouched DEF ReportStopped
    <2>3. QED
      BY <2>1, <2>2
  <1>6. Kept
    BY <1>1, <1>3, <1>4, <1>5, Untouched DEF Kept
  <1>7. call'[g].lease = call[g].lease
    BY <1>3 DEF CallsKept
  <1>8. CallOrdered(g)' /\ ~Live(g)'
    BY <1>1, <1>2, <1>3, <1>7 DEF CallOrdered, Live, Executing
  <1>9. \A u \in Task : exec[u].gen # g => exec'[u] = exec[u]
    BY <1>4 DEF Current
  <1>10. QED
    BY <1>3, <1>5, <1>6, <1>8, <1>9, ManagerStep DEF Current

\* An unconfirmed report only withdraws evidence.
LEMMA ReportUnconfirmedInv == ASSUME IInv, NEW g \in Gen, ReportUnconfirmed(g) PROVE IInv'
  <1>1. /\ call[g].pc \in {"invoking", "settled", "done"} /\ Current(g)
        /\ exec' = Updated(call[g].task, exec[call[g].task].phase, FALSE)
        /\ UNCHANGED <<lease, call, runtime, up, nextGen>> /\ exec[call[g].task].stop
    BY DEF ReportUnconfirmed, Reporting
  <1>2. /\ g < nextGen /\ call[g].task \in Task /\ TypeOK /\ CallOrdered(g)
        /\ exec[call[g].task].gen = g /\ exec[call[g].task].gen # 0
        /\ exec[call[g].task].phase \in Phase \cup {"none"}
    BY <1>1, Known DEF IInv, CallsOrdered, TypeOK
  <1>3. /\ RowsKept /\ exec'[call[g].task].stop = FALSE
        /\ \A u \in Task : u # call[g].task => exec'[u] = exec[u]
    BY <1>1, <1>2, RowUpdatedKept
  <1>4. CallsKept
    BY <1>1, <1>2 DEF CallsKept, TypeOK
  <1>5. Kept
    BY <1>1, <1>3, <1>4, Untouched DEF Kept
  <1>6. ~Live(g)
    BY <1>1, LiveFacts
  <1>7. CallOrdered(g)' /\ ~Live(g)'
    BY <1>1, <1>2, <1>3, <1>6 DEF CallOrdered, Live, Executing, Refusing
  <1>8. \A u \in Task : exec[u].gen # g => exec'[u] = exec[u]
    BY <1>2, <1>3
  <1>9. QED
    BY <1>1, <1>5, <1>7, <1>8, ManagerStep

-----------------------------------------------------------------------------
(* The end of an invocation.                                               *)

\* The verdict of an attempt keeps the invariant: positive evidence is of a runtime that is over.
LEMMA SettleInv ==
  ASSUME IInv, NEW g \in Gen, NEW stopped \in BOOLEAN, Settle(g, stopped) PROVE IInv'
  <1>1. /\ call[g].pc = "invoking" /\ UNCHANGED <<lease, runtime, up, nextGen>>
        /\ Ready(call[g].server) /\ stopped \in StopVerdict(g)
    BY DEF Settle
  <1>2. /\ g < nextGen /\ call[g].task \in Task /\ TypeOK /\ CallOrdered(g)
        /\ Current(g) => exec[call[g].task].gen = g /\ exec[call[g].task].gen # 0
        /\ call[g].lease # None
    BY <1>1, Known DEF IInv, CallsOrdered, CallOrdered
  <1>3. stopped => ~Live(g)
    <2>1. SUFFICES ASSUME stopped, Live(g) PROVE FALSE
      OBVIOUS
    <2>2. exec[call[g].task].stop = FALSE
      BY <2>1, LiveFacts
    <2>3. runtime[g] # "asserted"
      BY <1>1 DEF Ready, TurnOpen, InTurn
    <2>4. QED
      BY <1>1, <2>1, <2>2, <2>3 DEF StopVerdict, Live
  <1>4. CASE Current(g)
    <2>1. /\ exec' = Updated(call[g].task, IF stopped THEN "RUNNING" ELSE "QUARANTINED", stopped)
          /\ call' = [call EXCEPT ![g].pc = "settled", ![g].stopped = stopped]
      BY <1>4 DEF Settle
    <2>2. /\ CallsKept /\ call'[g].pc = "settled" /\ call'[g].stopped = stopped
          /\ call'[g].saw = call[g].saw
          /\ \A h \in Gen : h # g => call'[h] = call[h] /\ runtime'[h] = runtime[h]
      BY <1>1, <1>2, <2>1, ConcludedKept DEF CallPc
    <2>3. /\ RowsKept /\ \A u \in Task : u # call[g].task => exec'[u] = exec[u]
          /\ exec'[call[g].task].phase \in {"RUNNING", "QUARANTINED"}
          /\ exec'[call[g].task].stop = stopped
      BY <1>2, <1>4, <2>1, RowUpdatedKept DEF Phase
    <2>4. Kept
      BY <1>1, <2>2, <2>3, Untouched DEF Kept
    <2>5. call'[g].lease = call[g].lease
      BY <2>2 DEF CallsKept
    <2>6. Live(g)' <=> Live(g)
      BY <1>1 DEF Live, Executing
    <2>7. CallOrdered(g)'
      BY <1>1, <1>2, <1>3, <2>2, <2>5, <2>6 DEF CallOrdered
    <2>8. Live(g)' => FenceKept(g)
      <3>1. SUFFICES ASSUME Live(g) PROVE FenceKept(g)
        BY <2>6
      <3>2. stopped = FALSE /\ lease[call[g].lease].state \in {"HELD", "LAPSED", "QUARANTINED"}
        BY <1>3, <3>1, LiveFacts
      <3>3. QED
        BY <1>1, <2>3, <3>1, <3>2 DEF FenceKept, Occupying
    <2>9. \A u \in Task : exec[u].gen # g => exec'[u] = exec[u]
      BY <1>2, <1>4, <2>3
    <2>10. QED
      BY <1>1, <2>2, <2>4, <2>7, <2>8, <2>9, ManagerStep
  <1>5. CASE ~Current(g)
    <2>1. exec' = exec /\ call' = [call EXCEPT ![g].pc = "done", ![g].stopped = FALSE]
      BY <1>5 DEF Settle, Ended
    <2>2. /\ CallsKept /\ call'[g].pc = "done" /\ call'[g].saw = call[g].saw
          /\ \A h \in Gen : h # g => call'[h] = call[h] /\ runtime'[h] = runtime[h]
      BY <1>1, <1>2, <2>1, ConcludedKept DEF CallPc
    <2>3. Kept
      BY <1>1, <2>1, <2>2, Untouched DEF Kept
    <2>4. ~Live(g)
      BY <1>5, LiveFacts DEF Current
    <2>5. CallOrdered(g)' /\ ~Live(g)'
      BY <1>1, <1>2, <2>2, <2>4 DEF CallOrdered, Live, Executing
    <2>6. QED
      BY <1>1, <2>1, <2>2, <2>3, <2>5, ManagerStep
  <1>6. QED
    BY <1>4, <1>5

\* The final transaction ends a lease only with the verdict of a runtime that is over.
LEMMA CommitInv == ASSUME IInv, NEW g \in Gen, Commit(g) PROVE IInv'
  <1>1. /\ call[g].pc = "settled" /\ Current(g) /\ UNCHANGED <<runtime, up, nextGen>>
        /\ call' = [call EXCEPT ![g].pc = "done", ![g].stopped = FALSE]
    BY DEF Commit, Ended
  <1>2. /\ g < nextGen /\ call[g].task \in Task /\ TypeOK /\ CallOrdered(g)
        /\ exec[call[g].task].gen = g /\ exec[call[g].task].gen # 0
        /\ call[g].lease \in Lease /\ lease[call[g].lease].state # "none"
    BY <1>1, Known DEF IInv, CallsOrdered, CallOrdered
  <1>3. /\ CallsKept /\ call'[g].pc = "done" /\ call'[g].saw = call[g].saw
        /\ \A h \in Gen : h # g => call'[h] = call[h] /\ runtime'[h] = runtime[h]
    BY <1>1, <1>2, ConcludedKept DEF CallPc
  <1>4. CallOrdered(g)' /\ (Live(g)' <=> Live(g))
    BY <1>1, <1>2, <1>3 DEF CallOrdered, Live, Executing
  <1>5. CASE /\ call[g].stopped /\ exec' = Updated(call[g].task, "STOPPED", TRUE)
             /\ lease' = GivenBack(call[g].lease)
    <2>1. RowsKept /\ \A u \in Task : u # call[g].task => exec'[u] = exec[u]
      BY <1>2, <1>5, RowUpdatedKept DEF Phase
    <2>2. LeaseShrinks /\ \A k \in Lease : k # call[g].lease => lease'[k].state = lease[k].state
      BY <1>2, <1>5, GivenBackMoves
    <2>3. Kept
      BY <1>1, <1>3, <2>1, <2>2, Untouched DEF Kept
    <2>4. ~Live(g)
      BY <1>1, <1>2, <1>5 DEF CallOrdered
    <2>5. \A u \in Task : exec[u].gen # g => exec'[u] = exec[u]
      BY <1>2, <2>1
    <2>6. QED
      BY <1>1, <1>3, <1>4, <2>2, <2>3, <2>4, <2>5, ManagerStep
  <1>6. CASE lease' = WithState(call[g].lease, "QUARANTINED") /\ exec' = exec
    <2>1. LeaseShrinks /\ \A k \in Lease : lease'[k].state =
                             IF k = call[g].lease THEN "QUARANTINED" ELSE lease[k].state
      BY <1>2, <1>6, StateShrinks
    <2>2. Kept
      BY <1>1, <1>3, <1>6, <2>1, Untouched DEF Kept
    <2>3. Live(g) => FenceKept(g)
      BY <1>2, <1>6, <2>1, UntouchedFence
    <2>4. QED
      BY <1>1, <1>3, <1>4, <1>6, <2>1, <2>2, <2>3, ManagerStep
  <1>7. QED
    BY <1>5, <1>6 DEF Commit

\* A final transaction that is rolled back only ends the coroutine.
LEMMA CommitThrowsInv == ASSUME IInv, NEW g \in Gen, CommitThrows(g) PROVE IInv'
  <1>1. /\ call[g].pc = "settled" /\ UNCHANGED <<lease, exec, runtime, up, nextGen>>
        /\ call' = [call EXCEPT ![g].pc = "done", ![g].stopped = FALSE]
    BY DEF CommitThrows, Ended
  <1>2. g < nextGen /\ CallOrdered(g)
    BY <1>1, Known DEF IInv, CallsOrdered
  <1>3. /\ CallsKept /\ call'[g].pc = "done" /\ call'[g].saw = call[g].saw
        /\ \A h \in Gen : h # g => call'[h] = call[h] /\ runtime'[h] = runtime[h]
    BY <1>1, <1>2, ConcludedKept DEF CallPc
  <1>4. Kept
    BY <1>1, <1>3, Untouched DEF Kept
  <1>5. CallOrdered(g)' /\ (Live(g)' <=> Live(g))
    BY <1>1, <1>2, <1>3 DEF CallOrdered, Live, Executing
  <1>6. Live(g) => FenceKept(g)
    BY <1>1, UntouchedFence
  <1>7. QED
    BY <1>1, <1>3, <1>4, <1>5, <1>6, ManagerStep

-----------------------------------------------------------------------------
(* Requests of other processes, and crashes.                               *)

\* A step that moves no coroutine and no runtime keeps them all.
LEMMA AllUntouched ==
  ASSUME IInv, call' = call, runtime' = runtime, up' = up, nextGen' = nextGen,
         LeaseShrinks, RowsKept
  PROVE  Kept
  BY DEF Kept, CallsKept, IInv, TypeOK

\* A cancellation patches one row and keeps its generation, lease, server and ticket.
LEMMA RowCancelled ==
  ASSUME TypeOK, NEW t \in Task, NEW p \in Phase \cup {"none"}, NEW b \in BOOLEAN,
         NEW c \in BOOLEAN, exec[t].gen # 0,
         \/ exec' = [exec EXCEPT ![t].cancel = c, ![t].phase = p, ![t].stop = b]
         \/ exec' = [exec EXCEPT ![t].cancel = c] /\ p = exec[t].phase /\ b = exec[t].stop
  PROVE  /\ RowsKept
         /\ exec'[t].phase = p /\ exec'[t].stop = b
         /\ \A u \in Task : u # t => exec'[u] = exec[u]
  <1> DEFINE r == [phase |-> p, gen |-> exec[t].gen, server |-> exec[t].server,
                   max |-> exec[t].max, ticket |-> exec[t].ticket, stop |-> b,
                   lease |-> exec[t].lease, cancel |-> c]
             y == [exec[t] EXCEPT !.cancel = c]
             z == [y EXCEPT !.phase = p]
  <1>1. exec[t] \in ExecRow /\ r \in ExecRow
    BY DEF TypeOK
  <1>2. exec[t] = [phase |-> exec[t].phase, gen |-> exec[t].gen, server |-> exec[t].server,
                   max |-> exec[t].max, ticket |-> exec[t].ticket, stop |-> exec[t].stop,
                   lease |-> exec[t].lease, cancel |-> exec[t].cancel]
    BY <1>1
  <1>3. y = [phase |-> exec[t].phase, gen |-> exec[t].gen, server |-> exec[t].server,
             max |-> exec[t].max, ticket |-> exec[t].ticket, stop |-> exec[t].stop,
             lease |-> exec[t].lease, cancel |-> c]
    BY <1>2
  <1>4. [exec[t] EXCEPT !.cancel = c, !.phase = p, !.stop = b] = [z EXCEPT !.stop = b]
    OBVIOUS
  <1> HIDE DEF y
  <1>5. z = [phase |-> p, gen |-> exec[t].gen, server |-> exec[t].server,
             max |-> exec[t].max, ticket |-> exec[t].ticket, stop |-> exec[t].stop,
             lease |-> exec[t].lease, cancel |-> c]
    BY <1>3
  <1> HIDE DEF z
  <1>6. [z EXCEPT !.stop = b] = r
    BY <1>5
  <1>7. exec' = [u \in Task |-> IF u = t THEN r ELSE exec[u]]
    <2>1. CASE exec' = [exec EXCEPT ![t].cancel = c, ![t].phase = p, ![t].stop = b]
      BY <1>4, <1>6, <2>1 DEF TypeOK
    <2>2. CASE exec' = [exec EXCEPT ![t].cancel = c] /\ p = exec[t].phase /\ b = exec[t].stop
      <3>1. y = r
        BY <1>3, <2>2
      <3>2. QED
        BY <2>2, <3>1 DEF TypeOK, y
    <2>3. QED
      BY <2>1, <2>2
  <1>8. /\ r.phase = p /\ r.stop = b /\ r.gen = exec[t].gen /\ r.lease = exec[t].lease
        /\ r.server = exec[t].server /\ r.ticket = exec[t].ticket
    OBVIOUS
  <1> HIDE DEF r
  <1>9. exec' \in [Task -> ExecRow] /\ exec'[t] = r /\ \A u \in Task : u # t => exec'[u] = exec[u]
    BY <1>1, <1>7 DEF TypeOK
  <1>10. QED
    BY <1>8, <1>9 DEF RowsKept

\* cancelTask keeps the invariant: it stops only a row that is QUEUED or STOPPED already.
LEMMA CancelTaskInv == ASSUME IInv, NEW t \in Task, CancelTask(t) PROVE IInv'
  <1> DEFINE idle == exec[t].phase \in {"QUEUED", "STOPPED"}
             p == IF idle THEN "STOPPED" ELSE exec[t].phase
             b == idle \/ exec[t].stop
             c == exec[t].phase # "STOPPED" \/ exec[t].cancel
  <1>1. /\ UNCHANGED <<call, runtime, up, nextGen>> /\ exec[t].phase # "none" /\ TypeOK
        /\ lease' = IF idle THEN GivenBack(exec[t].lease) ELSE lease
        /\ exec' = [exec EXCEPT ![t].cancel = c, ![t].phase = p, ![t].stop = b]
    BY DEF CancelTask, IInv
  <1>2. exec[t] \in ExecRow
    BY <1>1 DEF TypeOK
  <1>3. p \in Phase \cup {"none"} /\ b \in BOOLEAN /\ c \in BOOLEAN
    BY <1>2 DEF Phase
  <1>6. p = (IF idle THEN "STOPPED" ELSE exec[t].phase) /\ b = (idle \/ exec[t].stop)
    OBVIOUS
  <1> HIDE DEF p, b, c
  <1>7. exec[t].gen # 0
    BY <1>1 DEF IInv, RowsBound, NoExecRow
  <1>8. /\ RowsKept /\ exec'[t].phase = p /\ exec'[t].stop = b
        /\ \A u \in Task : u # t => exec'[u] = exec[u]
    BY <1>1, <1>3, <1>7, RowCancelled
  <1>9. \/ lease' = lease
        \/ idle /\ lease' = GivenBack(exec[t].lease)
    BY <1>1
  <1>10. /\ exec[t].lease \in Lease \cup {None}
         /\ exec[t].lease # None => lease[exec[t].lease].state # "none" /\ lease[exec[t].lease].task = t
    <2>1. exec[t].gen \in Gen
      BY <1>2, <1>7
    <2>2. call[exec[t].gen].task = t /\ exec[t].lease = call[exec[t].gen].lease
      BY <1>7 DEF IInv, RowsBound
    <2>3. QED
      BY <1>2, <2>1, <2>2 DEF IInv, CallsBound
  <1>11. /\ LeaseShrinks
         /\ \A k \in Lease : lease'[k].state = lease[k].state \/ (idle /\ k = exec[t].lease)
    <2>1. CASE lease' = lease
      BY <2>1, Untouched
    <2>2. CASE idle /\ lease' = GivenBack(exec[t].lease)
      BY <1>10, <2>2, GivenBackMoves
    <2>3. QED
      BY <1>9, <2>1, <2>2
  <1>12. Kept
    BY <1>1, <1>8, <1>11, AllUntouched
  <1>13. \A u \in Task : Refusing(u) => Refusing(u)'
    BY <1>6, <1>8 DEF Refusing
  <1>14. ASSUME NEW g \in Gen, Live(g) PROVE FenceKept(g)
    <2>1. /\ call[g].task \in Task /\ call[g].lease \in Lease
          /\ exec[call[g].task].phase \in {"RUNNING", "QUARANTINED"}
          /\ exec[call[g].task].stop = FALSE /\ lease[call[g].lease].task = call[g].task
          /\ lease[call[g].lease].state \in {"HELD", "LAPSED", "QUARANTINED"}
      BY <1>14, LiveFacts
    <2>2. /\ exec'[call[g].task].phase = exec[call[g].task].phase
          /\ exec'[call[g].task].stop = exec[call[g].task].stop
      BY <1>6, <1>8, <2>1
    <2>3. ~(idle /\ call[g].lease = exec[t].lease)
      <3>1. SUFFICES ASSUME idle, call[g].lease = exec[t].lease PROVE FALSE
        OBVIOUS
      <3>2. call[g].task # t
        BY <2>1, <3>1
      <3>3. exec[t].lease # None
        BY <2>1, <3>1
      <3>4. QED
        BY <1>10, <2>1, <3>1, <3>2, <3>3
    <2>4. lease'[call[g].lease].state = lease[call[g].lease].state
      BY <1>11, <2>1, <2>3
    <2>5. QED
      BY <1>14, <2>1, <2>2, <2>4 DEF FenceKept, Occupying
  <1>15. QED
    BY <1>1, <1>12, <1>13, <1>14, RowStep

\* The cancellations of a shutdown set a flag that is no part of the fence.
LEMMA ShutdownCancelInv == ASSUME IInv, NEW t \in Task, ShutdownCancel(t) PROVE IInv'
  <1>1. /\ UNCHANGED <<lease, call, runtime, up, nextGen>> /\ exec[t].phase # "none" /\ TypeOK
        /\ exec' = [exec EXCEPT ![t].cancel = TRUE]
    BY DEF ShutdownCancel, IInv
  <1>2. exec[t].phase \in Phase \cup {"none"} /\ exec[t].stop \in BOOLEAN
    BY <1>1 DEF TypeOK
  <1>3. exec[t].gen # 0
    BY <1>1 DEF IInv, RowsBound, NoExecRow
  <1>4. /\ RowsKept /\ exec'[t].phase = exec[t].phase /\ exec'[t].stop = exec[t].stop
        /\ \A u \in Task : u # t => exec'[u] = exec[u]
    BY <1>1, <1>2, <1>3, RowCancelled
  <1>8. /\ RowsKept
        /\ \A u \in Task : exec'[u].phase = exec[u].phase /\ exec'[u].stop = exec[u].stop
    BY <1>4
  <1>9. Kept
    BY <1>1, <1>8, Untouched, AllUntouched
  <1>10. \A u \in Task : Refusing(u) => Refusing(u)'
    BY <1>8 DEF Refusing
  <1>11. ASSUME NEW g \in Gen, Live(g) PROVE FenceKept(g)
    <2>1. /\ call[g].task \in Task
          /\ exec[call[g].task].phase \in {"RUNNING", "QUARANTINED"}
          /\ exec[call[g].task].stop = FALSE
          /\ lease[call[g].lease].state \in {"HELD", "LAPSED", "QUARANTINED"}
      BY <1>11, LiveFacts
    <2>2. QED
      BY <1>1, <1>8, <1>11, <2>1 DEF FenceKept, Occupying
  <1>12. QED
    BY <1>1, <1>9, <1>10, <1>11, RowStep

\* Reclaiming a delegation that never launched stops a row no runtime is cleared under.
LEMMA ReclaimPrelaunchInv == ASSUME IInv, NEW t \in Task, ReclaimPrelaunch(t) PROVE IInv'
  <1>1. /\ UNCHANGED <<lease, call, runtime, up, nextGen>> /\ exec[t].phase # "none" /\ TypeOK
        /\ exec[t].phase = "QUEUED" \/ exec[t].stop
        /\ exec' = Updated(t, "STOPPED", exec[t].stop) /\ exec[t].stop \in BOOLEAN
    BY DEF ReclaimPrelaunch, IInv, TypeOK
  <1>2. exec[t].gen # 0
    BY <1>1 DEF IInv, RowsBound, NoExecRow
  <1>3. /\ RowsKept /\ exec'[t].phase = "STOPPED"
        /\ \A u \in Task : u # t => exec'[u] = exec[u]
    BY <1>1, <1>2, RowUpdatedKept DEF Phase
  <1>4. Kept
    BY <1>1, <1>3, Untouched, AllUntouched
  <1>5. \A u \in Task : Refusing(u) => Refusing(u)'
    BY <1>3 DEF Refusing
  <1>6. ASSUME NEW g \in Gen, Live(g) PROVE FenceKept(g)
    <2>1. /\ call[g].task \in Task
          /\ exec[call[g].task].phase \in {"RUNNING", "QUARANTINED"}
          /\ exec[call[g].task].stop = FALSE
      BY <1>6, LiveFacts
    <2>2. exec'[call[g].task] = exec[call[g].task]
      BY <1>1, <1>3, <2>1
    <2>3. QED
      BY <1>1, <1>6, <2>2, UntouchedFence
  <1>7. QED
    BY <1>1, <1>4, <1>5, <1>6, RowStep

\* Quarantining an uncertain launch keeps the fence of the runtime it may have.
LEMMA QuarantineUncertainInv ==
  ASSUME IInv, NEW t \in Task, QuarantineUncertain(t) PROVE IInv'
  <1>1. /\ UNCHANGED <<call, runtime, up, nextGen>> /\ exec[t].phase # "none" /\ TypeOK
        /\ exec' = Updated(t, "QUARANTINED", FALSE)
        /\ \/ exec[t].lease = None /\ lease' = lease
           \/ /\ exec[t].lease # None /\ lease' = WithState(exec[t].lease, "QUARANTINED")
              /\ lease[exec[t].lease].state # "none"
    BY DEF QuarantineUncertain, IInv, Held
  <1>2. exec[t].gen # 0 /\ exec[t].lease \in Lease \cup {None}
    BY <1>1 DEF IInv, RowsBound, NoExecRow, TypeOK
  <1>3. /\ RowsKept /\ exec'[t].phase = "QUARANTINED" /\ exec'[t].stop = FALSE
        /\ \A u \in Task : u # t => exec'[u] = exec[u]
    BY <1>1, <1>2, RowUpdatedKept DEF Phase
  <1>4. /\ LeaseShrinks
        /\ \A k \in Lease : lease'[k].state \in {lease[k].state, "QUARANTINED"}
    <2>1. CASE exec[t].lease = None /\ lease' = lease
      BY <2>1, Untouched
    <2>2. CASE /\ exec[t].lease # None /\ lease' = WithState(exec[t].lease, "QUARANTINED")
               /\ lease[exec[t].lease].state # "none"
      <3>1. LeaseShrinks /\ \A k \in Lease : lease'[k].state =
                               IF k = exec[t].lease THEN "QUARANTINED" ELSE lease[k].state
        BY <1>1, <1>2, <2>2, StateShrinks
      <3>2. QED
        BY <3>1
    <2>3. QED
      BY <1>1, <2>1, <2>2
  <1>5. Kept
    BY <1>1, <1>3, <1>4, AllUntouched
  <1>6. \A u \in Task : Refusing(u) => Refusing(u)'
    BY <1>3 DEF Refusing
  <1>7. ASSUME NEW g \in Gen, Live(g) PROVE FenceKept(g)
    <2>1. /\ call[g].task \in Task /\ call[g].lease \in Lease
          /\ exec[call[g].task].phase \in {"RUNNING", "QUARANTINED"}
          /\ exec[call[g].task].stop = FALSE
          /\ lease[call[g].lease].state \in {"HELD", "LAPSED", "QUARANTINED"}
      BY <1>7, LiveFacts
    <2>2. /\ exec'[call[g].task].phase \in {"RUNNING", "QUARANTINED"}
          /\ exec'[call[g].task].stop = FALSE
      BY <1>3, <2>1
    <2>3. lease'[call[g].lease].state \in {"HELD", "LAPSED", "QUARANTINED"}
      BY <1>4, <2>1
    <2>4. QED
      BY <1>7, <2>2, <2>3 DEF FenceKept, Occupying
  <1>8. QED
    BY <1>1, <1>5, <1>6, <1>7, RowStep

\* The death of a server takes no fence away: rows and leases outlive it.
LEMMA CrashInv == ASSUME IInv, NEW s \in Server, Crash(s) PROVE IInv'
  <1>1. /\ UNCHANGED <<lease, exec, call, runtime, nextGen>> /\ up' \in [Server -> BOOLEAN]
    BY DEF Crash, IInv, TypeOK
  <1>2. Kept
    BY <1>1, Untouched DEF Kept, CallsKept, IInv, TypeOK
  <1>3. \A u \in Task : Refusing(u) => Refusing(u)'
    BY <1>1 DEF Refusing
  <1>4. \A g \in Gen : Live(g) => FenceKept(g)
    BY <1>1, UntouchedFence
  <1>5. QED
    BY <1>1, <1>2, <1>3, <1>4, RowStep

-----------------------------------------------------------------------------
(* Reconciliation of dead managers, and admission.                         *)

\* What reconciliation does to the row of one task, field by field.
LEMMA ReconciledRow ==
  ASSUME TypeOK, NEW A, NEW t \in Task
  PROVE  /\ Reconciled(A)[t] \in ExecRow
         /\ Reconciled(A)[t].gen = exec[t].gen /\ Reconciled(A)[t].lease = exec[t].lease
         /\ Reconciled(A)[t].server = exec[t].server /\ Reconciled(A)[t].ticket = exec[t].ticket
         /\ t \notin Orphans(A) => Reconciled(A)[t] = exec[t]
         /\ t \in Orphans(A) => exec[t].phase \in {"QUEUED", "RUNNING"}
         /\ t \in Orphans(A) /\ (exec[t].phase = "QUEUED" \/ exec[t].stop) =>
               Reconciled(A)[t].phase = "STOPPED" /\ Reconciled(A)[t].stop = TRUE
         /\ t \in Orphans(A) /\ exec[t].phase # "QUEUED" /\ ~exec[t].stop =>
               Reconciled(A)[t].phase = "QUARANTINED" /\ Reconciled(A)[t].stop = FALSE
  <1> DEFINE R(p, b) ==
               [phase |-> p, gen |-> exec[t].gen, server |-> exec[t].server, max |-> exec[t].max,
                ticket |-> exec[t].ticket, stop |-> b, lease |-> exec[t].lease,
                cancel |-> exec[t].cancel]
  <1>1. exec[t] \in ExecRow
    BY DEF TypeOK
  <1>2. exec[t] = R(exec[t].phase, exec[t].stop)
    BY <1>1
  <1>3. ASSUME NEW p PROVE [exec[t] EXCEPT !.phase = p] = R(p, exec[t].stop)
    BY <1>2
  <1>4. ASSUME NEW b PROVE [exec[t] EXCEPT !.phase = "STOPPED", !.stop = b] = R("STOPPED", b)
    <2> DEFINE y == [exec[t] EXCEPT !.phase = "STOPPED"]
    <2>1. [exec[t] EXCEPT !.phase = "STOPPED", !.stop = b] = [y EXCEPT !.stop = b]
      OBVIOUS
    <2>2. y = R("STOPPED", exec[t].stop)
      BY <1>3
    <2> HIDE DEF y
    <2>3. QED
      BY <2>1, <2>2
  <1>5. ASSUME NEW p \in Phase, NEW b \in BOOLEAN
        PROVE  /\ R(p, b) \in ExecRow /\ R(p, b).phase = p /\ R(p, b).stop = b
               /\ R(p, b).gen = exec[t].gen /\ R(p, b).lease = exec[t].lease
               /\ R(p, b).server = exec[t].server /\ R(p, b).ticket = exec[t].ticket
    BY <1>1
  <1>6. "STOPPED" \in Phase /\ "QUARANTINED" \in Phase
    BY DEF Phase
  <1> HIDE DEF R
  <1>7. t \in Orphans(A) => exec[t].phase \in {"QUEUED", "RUNNING"}
    BY DEF Orphans
  <1>8. CASE t \notin Orphans(A)
    <2>1. Reconciled(A)[t] = exec[t]
      BY <1>8 DEF Reconciled
    <2>2. QED
      BY <1>1, <1>8, <2>1
  <1>9. CASE t \in Orphans(A) /\ (exec[t].phase = "QUEUED" \/ exec[t].stop)
    <2>1. Reconciled(A)[t] = R("STOPPED", TRUE)
      BY <1>4, <1>9 DEF Reconciled
    <2>2. /\ R("STOPPED", TRUE) \in ExecRow /\ R("STOPPED", TRUE).phase = "STOPPED"
          /\ R("STOPPED", TRUE).stop = TRUE
          /\ R("STOPPED", TRUE).gen = exec[t].gen /\ R("STOPPED", TRUE).lease = exec[t].lease
          /\ R("STOPPED", TRUE).server = exec[t].server
          /\ R("STOPPED", TRUE).ticket = exec[t].ticket
      BY <1>5, <1>6
    <2>3. QED
      BY <1>7, <1>9, <2>1, <2>2
  <1>10. CASE t \in Orphans(A) /\ exec[t].phase # "QUEUED" /\ ~exec[t].stop
    <2>1. exec[t].stop = FALSE
      BY <1>1, <1>10
    <2>2. Reconciled(A)[t] = R("QUARANTINED", FALSE)
      BY <1>3, <1>10, <2>1 DEF Reconciled
    <2>3. /\ R("QUARANTINED", FALSE) \in ExecRow /\ R("QUARANTINED", FALSE).phase = "QUARANTINED"
          /\ R("QUARANTINED", FALSE).stop = FALSE
          /\ R("QUARANTINED", FALSE).gen = exec[t].gen
          /\ R("QUARANTINED", FALSE).lease = exec[t].lease
          /\ R("QUARANTINED", FALSE).server = exec[t].server
          /\ R("QUARANTINED", FALSE).ticket = exec[t].ticket
      BY <1>5, <1>6
    <2>4. QED
      BY <1>7, <1>10, <2>2, <2>3
  <1>11. QED
    BY <1>8, <1>9, <1>10

HIDE DEF LeaseRow, ExecRow, CallRow

\* Reconciliation keeps the generation, lease, server and ticket of every row.
LEMMA ReconciledRows ==
  ASSUME TypeOK, NEW A
  PROVE  /\ Reconciled(A) \in [Task -> ExecRow]
         /\ \A t \in Task : /\ Reconciled(A)[t].gen = exec[t].gen /\ Reconciled(A)[t].lease = exec[t].lease
                            /\ Reconciled(A)[t].server = exec[t].server /\ Reconciled(A)[t].ticket = exec[t].ticket
  <1>1. Reconciled(A) = [t \in Task |-> Reconciled(A)[t]]
    BY DEF Reconciled
  <1>2. \A t \in Task : Reconciled(A)[t] \in ExecRow
    BY ReconciledRow
  <1>3. ASSUME NEW t \in Task
        PROVE  /\ Reconciled(A)[t].gen = exec[t].gen /\ Reconciled(A)[t].lease = exec[t].lease
               /\ Reconciled(A)[t].server = exec[t].server
               /\ Reconciled(A)[t].ticket = exec[t].ticket
    BY ReconciledRow
  <1>4. QED
    BY <1>1, <1>2, <1>3

USE DEF LeaseRow, ExecRow, CallRow

\* Only a lease that an orphaned row is bound to changes, and it is ended only when one of
\* those rows ends with evidence.
LEMMA ReconciledLeaseRows ==
  ASSUME TypeOK, NEW A, lease' = ReconciledLeases(A)
  PROVE  /\ LeaseShrinks
         /\ \A l \in Lease :
              \/ lease'[l].state = lease[l].state
              \/ lease'[l].state = "QUARANTINED"
              \/ \E t \in Orphans(A) : exec[t].lease = l /\ Reconciled(A)[t].phase = "STOPPED"
  <1> DEFINE bound(l) == Held(l) /\ \E t \in Orphans(A) : exec[t].lease = l
             ends(l) == \E t \in Orphans(A) : exec[t].lease = l /\ Reconciled(A)[t].phase = "STOPPED"
             r(l) == [state |-> IF ends(l) THEN "ENDED" ELSE "QUARANTINED", task |-> lease[l].task,
                      holder |-> lease[l].holder, scope |-> lease[l].scope]
  <1>1. ASSUME NEW l \in Lease
        PROVE  lease[l] \in LeaseRow /\ r(l) \in LeaseRow
               /\ [lease[l] EXCEPT !.state = IF ends(l) THEN "ENDED" ELSE "QUARANTINED"] = r(l)
    <2>1. lease[l] \in LeaseRow
      BY DEF TypeOK
    <2>2. lease[l] = [state |-> lease[l].state, task |-> lease[l].task,
                      holder |-> lease[l].holder, scope |-> lease[l].scope]
      BY <2>1
    <2>3. ASSUME NEW st
          PROVE  [lease[l] EXCEPT !.state = st] = [state |-> st, task |-> lease[l].task,
                    holder |-> lease[l].holder, scope |-> lease[l].scope]
      BY <2>2
    <2> HIDE DEF ends
    <2>4. r(l) \in LeaseRow
      BY <2>1 DEF LeaseState
    <2>5. QED
      BY <2>1, <2>3, <2>4
  <1>2. lease' = [l \in Lease |-> IF bound(l) THEN r(l) ELSE lease[l]]
    BY <1>1 DEF ReconciledLeases
  <1>3. ASSUME NEW l \in Lease
        PROVE  /\ lease'[l] \in LeaseRow
               /\ lease'[l].task = lease[l].task /\ lease'[l].holder = lease[l].holder
               /\ lease'[l].scope = lease[l].scope
               /\ lease'[l].state = lease[l].state
                  \/ (Held(l) /\ lease'[l].state = "QUARANTINED")
                  \/ (Held(l) /\ lease'[l].state = "ENDED" /\ ends(l))
    <2> HIDE DEF ends
    <2>1. CASE ~bound(l)
      BY <1>1, <1>2, <2>1
    <2>2. CASE bound(l)
      <3>1. /\ r(l).state = IF ends(l) THEN "ENDED" ELSE "QUARANTINED"
            /\ r(l).task = lease[l].task /\ r(l).holder = lease[l].holder
            /\ r(l).scope = lease[l].scope
        OBVIOUS
      <3> HIDE DEF r
      <3>2. lease'[l] = r(l) /\ Held(l)
        BY <1>2, <2>2
      <3>3. QED
        BY <1>1, <3>1, <3>2
    <2>3. QED
      BY <2>1, <2>2
  <1>4. lease' \in [Lease -> LeaseRow]
    BY <1>2, <1>3
  <1>5. LeaseShrinks
    BY <1>3, <1>4 DEF LeaseShrinks, Held
  <1>6. QED
    BY <1>3, <1>5

HIDE DEF LeaseRow, ExecRow, CallRow

\* Reconciliation never takes the fence from a generation that is cleared.
LEMMA ReconciledFence ==
  ASSUME IInv, NEW A, lease' = ReconciledLeases(A),
         NEW g \in Gen, Live(g)
  PROVE  /\ call[g].task \in Task /\ call[g].lease \in Lease
         /\ Reconciled(A)[call[g].task].phase \in {"RUNNING", "QUARANTINED"}
         /\ Reconciled(A)[call[g].task].stop = FALSE
         /\ lease'[call[g].lease].state \in {"HELD", "LAPSED", "QUARANTINED"}
  <1>1. /\ call[g].task \in Task /\ call[g].lease \in Lease
        /\ exec[call[g].task].phase \in {"RUNNING", "QUARANTINED"}
        /\ exec[call[g].task].stop = FALSE /\ lease[call[g].lease].task = call[g].task
        /\ lease[call[g].lease].state \in {"HELD", "LAPSED", "QUARANTINED"}
    BY LiveFacts
  <1>2. TypeOK
    BY DEF IInv
  <1>3. /\ Reconciled(A)[call[g].task].phase \in {"RUNNING", "QUARANTINED"}
        /\ Reconciled(A)[call[g].task].stop = FALSE
    <2>1. CASE call[g].task \in Orphans(A)
      BY <1>1, <1>2, <2>1, ReconciledRow
    <2>2. CASE call[g].task \notin Orphans(A)
      BY <1>1, <1>2, <2>2, ReconciledRow
    <2>3. QED
      BY <2>1, <2>2
  <1>4. ASSUME NEW t \in Orphans(A), exec[t].lease = call[g].lease, Reconciled(A)[t].phase = "STOPPED"
        PROVE  FALSE
    <2>1. t \in Task
      BY DEF Orphans
    <2>2. exec[t].gen # 0
      BY <1>1, <1>4, <2>1 DEF IInv, RowsBound, NoExecRow
    <2>3. exec[t].gen \in Gen
      BY <1>2, <2>1, <2>2 DEF TypeOK, ExecRow
    <2>4. call[exec[t].gen].task = t /\ call[exec[t].gen].lease = call[g].lease
      BY <1>4, <2>1, <2>2 DEF IInv, RowsBound
    <2>5. call[g].lease # None
      BY <1>1
    <2>6. lease[call[g].lease].task = t
      BY <2>3, <2>4, <2>5 DEF IInv, CallsBound
    <2>7. QED
      BY <1>1, <1>3, <1>4, <2>6
  <1>5. \/ lease'[call[g].lease].state = lease[call[g].lease].state
        \/ lease'[call[g].lease].state = "QUARANTINED"
        \/ \E t \in Orphans(A) : exec[t].lease = call[g].lease /\ Reconciled(A)[t].phase = "STOPPED"
    BY <1>1, <1>2, ReconciledLeaseRows
  <1>6. QED
    BY <1>1, <1>3, <1>4, <1>5

\* Reconciliation keeps unused rows unused, and rows that refuse callbacks refusing.
LEMMA ReconciledKept ==
  ASSUME IInv, NEW A
  PROVE  \A t \in Task :
            /\ exec[t].gen = 0 => Reconciled(A)[t] = exec[t]
            /\ Refusing(t) => ~Reconciled(A)[t].stop \/ Reconciled(A)[t].phase = "STOPPED"
  <1> SUFFICES ASSUME NEW t \in Task
               PROVE  /\ exec[t].gen = 0 => Reconciled(A)[t] = exec[t]
                      /\ Refusing(t) => ~Reconciled(A)[t].stop \/ Reconciled(A)[t].phase = "STOPPED"
    OBVIOUS
  <1>1. TypeOK
    BY DEF IInv
  <1>2. CASE t \notin Orphans(A)
    <2>1. Reconciled(A)[t] = exec[t]
      BY <1>1, <1>2, ReconciledRow
    <2>2. QED
      BY <2>1 DEF Refusing
  <1>3. CASE t \in Orphans(A)
    <2>1. /\ exec[t].phase \in {"QUEUED", "RUNNING"}
          /\ ~Reconciled(A)[t].stop \/ Reconciled(A)[t].phase = "STOPPED"
      BY <1>1, <1>3, ReconciledRow
    <2>2. exec[t].gen # 0
      BY <2>1 DEF IInv, RowsBound, NoExecRow
    <2>3. QED
      BY <2>1, <2>2
  <1>4. QED
    BY <1>2, <1>3

USE DEF LeaseRow, ExecRow, CallRow

\* Reconciling the rows of dead managers keeps the invariant.
LEMMA ReconcileInv == ASSUME IInv, Reconcile PROVE IInv'
  <1>1. /\ UNCHANGED <<call, runtime, up, nextGen>> /\ TypeOK
        /\ exec' = Reconciled(Agent) /\ lease' = ReconciledLeases(Agent)
    BY DEF Reconcile, IInv
  <1>2. /\ exec' \in [Task -> ExecRow]
        /\ \A t \in Task : /\ exec'[t].gen = exec[t].gen /\ exec'[t].lease = exec[t].lease
                           /\ exec'[t].server = exec[t].server /\ exec'[t].ticket = exec[t].ticket
    BY <1>1, ReconciledRows
  <1>3. \A t \in Task : /\ exec[t].gen = 0 => exec'[t] = exec[t]
                        /\ Refusing(t) => ~exec'[t].stop \/ exec'[t].phase = "STOPPED"
    BY <1>1, ReconciledKept
  <1>4. RowsKept /\ LeaseShrinks
    BY <1>1, <1>2, <1>3, ReconciledLeaseRows DEF RowsKept
  <1>5. Kept
    BY <1>1, <1>4, AllUntouched
  <1>6. \A t \in Task : Refusing(t) => Refusing(t)'
    BY <1>3 DEF Refusing
  <1>7. ASSUME NEW g \in Gen, Live(g) PROVE FenceKept(g)
    BY <1>1, <1>7, ReconciledFence DEF FenceKept, Occupying
  <1>8. QED
    BY <1>1, <1>5, <1>6, <1>7, RowStep

\* An admitted row was queued before the poll, and still is after its reconciliation.
LEMMA AdmittedQueued ==
  ASSUME IInv, NEW A, NEW t \in Task, Admits(Reconciled(A), t)
  PROVE  exec[t].phase = "QUEUED" /\ Reconciled(A)[t] = exec[t]
  <1>1. TypeOK
    BY DEF IInv
  <1>2. Reconciled(A)[t].phase = "QUEUED"
    BY DEF Admits
  <1>3. CASE t \in Orphans(A)
    BY <1>1, <1>2, <1>3, ReconciledRow
  <1>4. CASE t \notin Orphans(A)
    <2>1. Reconciled(A)[t] = exec[t]
      BY <1>4 DEF Reconciled
    <2>2. QED
      BY <1>2, <2>1
  <1>5. QED
    BY <1>3, <1>4

\* Admission keeps the invariant, with the reconciliation that every poll commits.
LEMMA PollAdmissionInv == ASSUME IInv, NEW g \in Gen, PollAdmission(g) PROVE IInv'
  <1> DEFINE t == call[g].task
             A == {AgentOf[t]}
             E == Reconciled(A)
  <1>1. /\ call[g].pc = "waiting" /\ Current(g) /\ lease' = ReconciledLeases(A)
        /\ UNCHANGED <<runtime, up, nextGen>>
        /\ \/ /\ Admits(E, t) /\ exec' = [E EXCEPT ![t].phase = "RUNNING"]
              /\ call' = [call EXCEPT ![g].pc = "admitted"]
           \/ exec' = E /\ call' = call
    BY DEF PollAdmission
  <1>2. /\ g < nextGen /\ t \in Task /\ TypeOK /\ CallOrdered(g)
        /\ exec[t].gen = g /\ exec[t].gen # 0
    BY <1>1, Known DEF IInv, CallsOrdered
  <1>3. /\ E \in [Task -> ExecRow]
        /\ \A u \in Task : /\ E[u].gen = exec[u].gen /\ E[u].lease = exec[u].lease
                           /\ E[u].server = exec[u].server /\ E[u].ticket = exec[u].ticket
    BY <1>2, ReconciledRows
  <1>4. \A u \in Task : /\ exec[u].gen = 0 => E[u] = exec[u]
                        /\ Refusing(u) => ~E[u].stop \/ E[u].phase = "STOPPED"
    BY ReconciledKept
  <1>5. LeaseShrinks
    BY <1>1, <1>2, ReconciledLeaseRows
  <1>6. ASSUME NEW h \in Gen, Live(h)
        PROVE  /\ call[h].task \in Task /\ call[h].lease \in Lease
               /\ E[call[h].task].phase \in {"RUNNING", "QUARANTINED"}
               /\ E[call[h].task].stop = FALSE
               /\ lease'[call[h].lease].state \in {"HELD", "LAPSED", "QUARANTINED"}
    BY <1>1, <1>6, ReconciledFence
  <1>7. runtime[g] = "none"
    BY <1>1, <1>2 DEF CallOrdered
  <1>8. CASE exec' = E /\ call' = call
    <2>1. RowsKept
      BY <1>3, <1>4, <1>8 DEF RowsKept
    <2>2. Kept
      BY <1>1, <1>5, <1>8, <2>1, AllUntouched
    <2>3. \A u \in Task : Refusing(u) => Refusing(u)'
      BY <1>4, <1>8 DEF Refusing
    <2>4. ASSUME NEW h \in Gen, Live(h) PROVE FenceKept(h)
      BY <1>6, <1>8, <2>4 DEF FenceKept, Occupying
    <2>5. QED
      BY <1>1, <1>8, <2>2, <2>3, <2>4, RowStep
  <1>9. CASE /\ Admits(E, t) /\ exec' = [E EXCEPT ![t].phase = "RUNNING"]
             /\ call' = [call EXCEPT ![g].pc = "admitted"]
    <2>1. exec[t].phase = "QUEUED" /\ E[t] = exec[t]
      BY <1>2, <1>9, AdmittedQueued
    <2> HIDE DEF E
    <2> DEFINE r == [phase |-> "RUNNING", gen |-> exec[t].gen, server |-> exec[t].server,
                     max |-> exec[t].max, ticket |-> exec[t].ticket, stop |-> exec[t].stop,
                     lease |-> exec[t].lease, cancel |-> exec[t].cancel]
    <2>2. [E[t] EXCEPT !.phase = "RUNNING"] = r /\ r \in ExecRow
      <3>1. exec[t] \in ExecRow
        BY <1>2 DEF TypeOK
      <3>2. exec[t] = [phase |-> exec[t].phase, gen |-> exec[t].gen, server |-> exec[t].server,
                       max |-> exec[t].max, ticket |-> exec[t].ticket, stop |-> exec[t].stop,
                       lease |-> exec[t].lease, cancel |-> exec[t].cancel]
        BY <3>1
      <3>3. [exec[t] EXCEPT !.phase = "RUNNING"] = r
        BY <3>2
      <3>4. QED
        BY <2>1, <3>1, <3>3 DEF Phase
    <2>3. exec' = [u \in Task |-> IF u = t THEN r ELSE E[u]]
      BY <1>3, <1>9, <2>2
    <2>4. /\ r.gen = exec[t].gen /\ r.lease = exec[t].lease
          /\ r.server = exec[t].server /\ r.ticket = exec[t].ticket
      OBVIOUS
    <2> HIDE DEF r
    <2>5. /\ exec' \in [Task -> ExecRow] /\ exec'[t] = r
          /\ \A u \in Task : u # t => exec'[u] = E[u]
      BY <1>2, <1>3, <2>2, <2>3
    <2>6. RowsKept
      BY <1>2, <1>3, <1>4, <2>4, <2>5 DEF RowsKept
    <2>7. /\ CallsKept /\ call'[g].pc = "admitted" /\ call'[g].saw = call[g].saw
          /\ \A h \in Gen : h # g => call'[h] = call[h] /\ runtime'[h] = runtime[h]
      BY <1>1, <1>2, <1>9, PcKept DEF CallPc
    <2>8. Kept
      BY <1>1, <1>5, <2>6, <2>7, Untouched DEF Kept
    <2>9. CallOrdered(g)' /\ ~Live(g)'
      BY <1>1, <1>2, <1>7, <2>7 DEF CallOrdered, Live, Executing
    <2>10. ASSUME NEW h \in Gen, h # g PROVE CallOrdered(h)'
      <3>1. ASSUME call[h].task \in Task, exec[call[h].task].gen = h, Refusing(call[h].task)
            PROVE  Refusing(call[h].task)'
        <4>1. call[h].task # t
          BY <1>2, <2>10, <3>1
        <4>2. exec'[call[h].task] = E[call[h].task]
          BY <2>5, <3>1, <4>1
        <4>3. QED
          BY <1>4, <2>7, <2>10, <3>1, <4>2 DEF Refusing
      <3>2. QED
        BY <2>7, <2>8, <2>10, <3>1, KeptOrdered
    <2>11. ASSUME NEW h \in Gen, Live(h)' PROVE FenceKept(h)
      <3>1. Live(h)
        BY <1>1, <2>11 DEF Live, Executing
      <3>2. call[h].task # t
        BY <2>1, <3>1, LiveFacts
      <3>3. exec'[call[h].task] = E[call[h].task]
        BY <1>6, <2>5, <3>1, <3>2
      <3>4. QED
        BY <1>6, <3>1, <3>3 DEF FenceKept, Occupying
    <2>12. \A h \in Gen : CallOrdered(h)'
      BY <2>9, <2>10
    <2>13. QED
      BY <2>8, <2>11, <2>12, KeptInv
  <1>10. QED
    BY <1>1, <1>8, <1>9

-----------------------------------------------------------------------------
(* Steps that grant a lease or queue a generation.                         *)

Grants(l, s, a, t) ==
    lease[l].state = "none" /\ lease' = [lease EXCEPT ![l] = Granted(s, a, t)]

\* No live lease overlaps s, but for those of the same agent on the same task.
Clear(s, a, t) ==
    \A k \in Lease : IsLive(k) /\ ~(lease[k].holder = a /\ lease[k].task = t)
                        => ~Conflicting(s, lease[k].scope)

\* A grant fills a row nobody was bound to.
LEMMA LeaseGranted ==
  ASSUME IInv, NEW l \in Lease, NEW a \in Agent, NEW t \in Task, NEW s \in Scope,
         Grants(l, s, a, t)
  PROVE  /\ lease' \in [Lease -> LeaseRow]
         /\ lease'[l].state = "HELD" /\ lease'[l].task = t /\ lease'[l].holder = a
         /\ lease'[l].scope = s
         /\ \A k \in Lease : k # l => lease'[k] = lease[k]
         /\ \A g \in Gen : call[g].lease # l
         /\ LeasesBound'
  <1> DEFINE r == Granted(s, a, t)
  <1>1. /\ r \in LeaseRow /\ r.state = "HELD" /\ r.task = t /\ r.holder = a /\ r.scope = s
    BY DEF Granted, LeaseState
  <1>2. TypeOK
    BY DEF IInv
  <1> HIDE DEF r
  <1>3. /\ lease' \in [Lease -> LeaseRow] /\ lease'[l] = r
        /\ \A k \in Lease : k # l => lease'[k] = lease[k]
    BY <1>1, <1>2 DEF TypeOK, r, Grants
  <1>4. ASSUME NEW g \in Gen PROVE call[g].lease # l
    BY DEF IInv, CallsBound, Grants
  <1>5. LeasesBound'
    <2>1. SUFFICES ASSUME NEW k \in Lease, lease'[k].state # "none"
                   PROVE  lease'[k].task \in Task /\ lease'[k].holder \in Agent
                          /\ lease'[k].scope \in Scope
      BY DEF LeasesBound
    <2>2. CASE k = l
      BY <1>1, <1>3, <2>2
    <2>3. CASE k # l
      BY <1>3, <2>1, <2>3 DEF IInv, LeasesBound
    <2>4. QED
      BY <2>2, <2>3
  <1>6. QED
    BY <1>1, <1>3, <1>4, <1>5

\* A lease somebody may write under is one that isLive counts.
LEMMA WritableLive == ASSUME IInv, NEW l \in Lease, Writable(l) PROVE IsLive(l)
  <1>1. CASE lease[l].state = "HELD"
    BY <1>1 DEF IsLive
  <1>2. CASE \E g \in Gen : call[g].lease = l /\ Live(g)
    BY <1>2, LiveFacts
  <1>3. QED
    BY <1>1, <1>2 DEF Writable

\* A grant that meets no live lease in scope, but for its own identity's, keeps leases exclusive.
LEMMA GrantExclusive ==
  ASSUME IInv, NEW l \in Lease, NEW a \in Agent, NEW t \in Task, NEW s \in Scope,
         Grants(l, s, a, t), Clear(s, a, t),
         \A g \in Gen : Live(g)' => Live(g) /\ call'[g].lease = call[g].lease
  PROVE  LeasesExclusive'
  <1>1. /\ lease'[l].task = t /\ lease'[l].holder = a /\ lease'[l].scope = s
        /\ \A k \in Lease : k # l => lease'[k] = lease[k]
    BY LeaseGranted
  <1>2. ASSUME NEW k \in Lease, k # l, Writable(k)' PROVE Writable(k) /\ IsLive(k)
    <2>1. Writable(k)
      BY <1>1, <1>2 DEF Writable
    <2>2. QED
      BY <2>1, WritableLive
  <1>3. ASSUME NEW k \in Lease, k # l, Writable(k)', ~(lease[k].holder = a /\ lease[k].task = t)
        PROVE  <<s, lease[k].scope>> \notin Overlap /\ <<lease[k].scope, s>> \notin Overlap
    <2>1. IsLive(k)
      BY <1>2, <1>3
    <2>2. <<s, lease[k].scope>> \notin Overlap
      BY <1>3, <2>1 DEF Conflicting, Clear
    <2>3. lease[k].state # "none"
      BY <2>1 DEF IsLive
    <2>4. lease[k].scope \in Scope
      BY <2>3 DEF IInv, LeasesBound
    <2>5. QED
      BY <2>2, <2>4
  <1>4. SUFFICES ASSUME NEW i \in Lease, NEW k \in Lease, i # k, Writable(i)', Writable(k)',
                        ~(lease'[i].holder = lease'[k].holder /\ lease'[i].task = lease'[k].task)
                 PROVE  <<lease'[i].scope, lease'[k].scope>> \notin Overlap
    BY DEF LeasesExclusive, SameIdentity, Conflicting
  <1>5. CASE i = l
    <2>1. lease'[k] = lease[k]
      BY <1>1, <1>4, <1>5
    <2>2. QED
      BY <1>1, <1>3, <1>4, <1>5, <2>1
  <1>6. CASE k = l
    <2>1. lease'[i] = lease[i]
      BY <1>1, <1>4, <1>6
    <2>2. QED
      BY <1>1, <1>3, <1>4, <1>6, <2>1
  <1>7. CASE i # l /\ k # l
    <2>1. Writable(i) /\ Writable(k) /\ lease'[i] = lease[i] /\ lease'[k] = lease[k]
      BY <1>1, <1>2, <1>4, <1>7
    <2>2. QED
      BY <1>4, <2>1 DEF IInv, LeasesExclusive, SameIdentity, Conflicting
  <1>8. QED
    BY <1>5, <1>6, <1>7

\* A lease taken by hand keeps the invariant: the conflict check sees every writable lease.
LEMMA AcquireInv ==
  ASSUME IInv, NEW a \in Agent, NEW t \in Task, NEW s \in Scope, NEW l \in Lease,
         Acquire(a, t, s, l)
  PROVE  IInv'
  <1>1. /\ Grants(l, s, a, t) /\ UNCHANGED <<exec, call, runtime, up, nextGen>>
        /\ Free(s, a, t)
    BY DEF Acquire, Grants
  <1>2. /\ lease' \in [Lease -> LeaseRow] /\ LeasesBound'
        /\ \A k \in Lease : k # l => lease'[k] = lease[k]
        /\ \A g \in Gen : call[g].lease # l
    BY <1>1, LeaseGranted
  <1>3. TypeOK' /\ RowsBound'
    BY <1>1, <1>2 DEF IInv, TypeOK, RowsBound
  <1>4. CallsBound'
    BY <1>1, <1>2 DEF IInv, TypeOK, CallsBound
  <1>5. CallsOrdered'
    BY <1>1 DEF IInv, CallsOrdered, CallOrdered, Live, Executing, Current, Refusing
  <1>6. Fenced'
    <2>1. SUFFICES ASSUME NEW g \in Gen, Live(g)
                   PROVE (LET e == exec[call[g].task]
                          IN /\ Current(g) /\ e.phase \in Occupying /\ ~e.stop
                             /\ e.lease = call[g].lease /\ e.lease # None
                             /\ lease[e.lease].state \in {"HELD", "LAPSED", "QUARANTINED"})'
      BY <1>1 DEF Fenced, Live, Executing
    <2>2. call[g].lease \in Lease /\ exec[call[g].task].lease = call[g].lease
      BY <2>1, LiveFacts
    <2>3. lease'[call[g].lease] = lease[call[g].lease]
      BY <1>2, <2>2
    <2>4. QED
      BY <1>1, <2>1, <2>2, <2>3 DEF IInv, Fenced, Current
  <1>7. LeasesExclusive'
    <2>1. Clear(s, a, t)
      BY <1>1 DEF Free, Conflicts, Clear
    <2>2. \A g \in Gen : Live(g)' => Live(g) /\ call'[g].lease = call[g].lease
      BY <1>1 DEF Live, Executing
    <2>3. QED
      BY <1>1, <2>1, <2>2, GrantExclusive
  <1>8. QED
    BY <1>2, <1>3, <1>4, <1>5, <1>6, <1>7 DEF IInv

\* A fresh ticket exists, is beyond every row's, and is at most the generation's number.
LEMMA TicketFresh ==
  ASSUME IInv
  PROVE  /\ FreshTicket \in Nat /\ FreshTicket < nextGen + 1
         /\ \A t \in Task : exec[t].ticket < FreshTicket
  <1> DEFINE beyond(k) == \A t \in Task : exec[t].ticket < k
             next(k) == k = 1 \/ \E t \in Task : exec[t].ticket = k - 1
             B == {k \in Nat \ {0} : beyond(k)}
             R == {ss \in Nat \X Nat : ss[1] < ss[2]}
  <1>1. nextGen \in Nat \ {0} /\ \A t \in Task : exec[t].ticket \in Nat /\ exec[t].ticket < nextGen
    BY DEF IInv, TypeOK, RowsBound
  <1>2. nextGen \in B
    BY <1>1
  <1>3. \E k \in B : \A j \in B : ~(<<j, k>> \in R)
    <2>1. IsWellFoundedOn(R, Nat)
      BY NatLessThanWellFounded DEF OpToRel
    <2> HIDE DEF R
    <2>2. B \subseteq Nat /\ B # {}
      BY <1>2
    <2> HIDE DEF B
    <2>3. QED
      BY <2>1, <2>2, WFMin
  <1>4. PICK k \in B : \A j \in B : ~(<<j, k>> \in R)
    BY <1>3
  <1>5. k \in Nat \ {0} /\ beyond(k) /\ k <= nextGen
    <2>1. k \in Nat \ {0} /\ beyond(k)
      BY <1>4
    <2>2. ~(nextGen < k)
      BY <1>1, <1>2, <1>4, <2>1
    <2>3. QED
      BY <1>1, <2>1, <2>2
  <1>6. next(k)
    <2>1. SUFFICES ASSUME k # 1 PROVE \E t \in Task : exec[t].ticket = k - 1
      OBVIOUS
    <2>2. k - 1 \in Nat \ {0} /\ <<k - 1, k>> \in R
      BY <1>5, <2>1
    <2>3. k - 1 \notin B
      BY <1>4, <2>2
    <2>4. PICK t \in Task : ~(exec[t].ticket < k - 1)
      BY <2>2, <2>3
    <2>5. exec[t].ticket < k /\ exec[t].ticket \in Nat
      BY <1>1, <1>5
    <2>6. QED
      BY <1>5, <2>4, <2>5
  <1>7. \E x \in 1..(nextGen + 1) : beyond(x) /\ next(x)
    BY <1>1, <1>5, <1>6
  <1>8. FreshTicket \in 1..(nextGen + 1) /\ beyond(FreshTicket) /\ next(FreshTicket)
    BY <1>7 DEF FreshTicket
  <1>9. FreshTicket < nextGen + 1
    <2>1. CASE FreshTicket = 1
      BY <1>1, <2>1
    <2>2. CASE \E t \in Task : exec[t].ticket = FreshTicket - 1
      <3>1. PICK t \in Task : exec[t].ticket = FreshTicket - 1
        BY <2>2
      <3>2. FreshTicket - 1 < nextGen /\ FreshTicket \in Nat
        BY <1>1, <1>8, <3>1
      <3>3. QED
        BY <1>1, <3>2
    <2>3. QED
      BY <1>8, <2>1, <2>2
  <1>10. QED
    BY <1>1, <1>8, <1>9

\* What queueing a generation does to the rows and to its coroutine.
Queues(t, s, m, l) ==
    /\ nextGen \in Gen /\ exec[t].phase \in {"none", "STOPPED"}
    /\ exec' = [exec EXCEPT ![t] = QueuedRow(s, m, l)]
    /\ call' = [call EXCEPT ![nextGen] = WaitingCall(t, s, l)]
    /\ nextGen' = nextGen + 1
    /\ UNCHANGED <<runtime, up>>

\* A queued generation gets the next number, a row of its own and a coroutine that waits.
LEMMA QueuedFacts ==
  ASSUME IInv, NEW t \in Task, NEW s \in Server, NEW m \in MaxConcurrency,
         NEW l \in Lease \cup {None}, Queues(t, s, m, l)
  PROVE  /\ exec' \in [Task -> ExecRow] /\ call' \in [Gen -> CallRow]
         /\ nextGen' \in 1..(MaxGen + 1) /\ runtime' = runtime /\ up' = up
         /\ exec'[t].gen = nextGen /\ exec'[t].lease = l /\ exec'[t].server = s
         /\ exec'[t].ticket < nextGen'
         /\ call'[nextGen].task = t /\ call'[nextGen].lease = l /\ call'[nextGen].server = s
         /\ call'[nextGen].pc = "waiting" /\ call'[nextGen].saw = "none"
         /\ runtime[nextGen] = "none" /\ nextGen \in Gen
         /\ \A u \in Task : u # t => exec'[u] = exec[u]
         /\ \A g \in Gen : g # nextGen => call'[g] = call[g]
  <1> DEFINE r == QueuedRow(s, m, l)
             c == WaitingCall(t, s, l)
  <1>1. TypeOK /\ m \in Nat /\ nextGen \in Gen /\ FreshTicket \in Nat /\ FreshTicket < nextGen + 1
    BY TicketFresh DEF IInv, Queues
  <1>2. /\ r \in ExecRow /\ r.gen = nextGen /\ r.lease = l /\ r.server = s /\ r.ticket = FreshTicket
        /\ c \in CallRow /\ c.task = t /\ c.lease = l /\ c.server = s /\ c.pc = "waiting"
        /\ c.saw = "none"
    BY <1>1 DEF QueuedRow, WaitingCall, Phase, CallPc
  <1> HIDE DEF r, c
  <1>3. /\ exec' \in [Task -> ExecRow] /\ exec'[t] = r
        /\ \A u \in Task : u # t => exec'[u] = exec[u]
    BY <1>1, <1>2 DEF TypeOK, Queues, r
  <1>4. /\ call' \in [Gen -> CallRow] /\ call'[nextGen] = c
        /\ \A g \in Gen : g # nextGen => call'[g] = call[g]
    BY <1>1, <1>2 DEF TypeOK, Queues, c
  <1>5. runtime[nextGen] = "none" /\ nextGen' \in 1..(MaxGen + 1)
    BY <1>1 DEF IInv, CallsBound, Queues
  <1>6. exec'[t].ticket < nextGen'
    BY <1>1, <1>2, <1>3 DEF Queues
  <1>7. QED
    BY <1>1, <1>2, <1>3, <1>4, <1>5, <1>6 DEF Queues

\* Queueing clears no runtime and touches the row of none that is cleared.
LEMMA QueuedFrame ==
  ASSUME IInv, NEW t \in Task, NEW s \in Server, NEW m \in MaxConcurrency,
         NEW l \in Lease \cup {None}, Queues(t, s, m, l)
  PROVE  /\ RowsBound' /\ CallsOrdered'
         /\ \A g \in Gen : Live(g)' =>
               /\ Live(g) /\ call'[g] = call[g] /\ g < nextGen
               /\ call[g].task \in Task /\ exec'[call[g].task] = exec[call[g].task]
  <1>1. /\ exec' \in [Task -> ExecRow] /\ call' \in [Gen -> CallRow]
        /\ runtime' = runtime /\ nextGen' = nextGen + 1 /\ nextGen \in Gen
        /\ exec'[t].gen = nextGen /\ exec'[t].lease = l /\ exec'[t].server = s
        /\ exec'[t].ticket < nextGen'
        /\ call'[nextGen].task = t /\ call'[nextGen].lease = l
        /\ call'[nextGen].pc = "waiting" /\ call'[nextGen].saw = "none"
        /\ runtime[nextGen] = "none"
        /\ \A u \in Task : u # t => exec'[u] = exec[u]
        /\ \A g \in Gen : g # nextGen => call'[g] = call[g]
    BY QueuedFacts DEF Queues
  <1>2. exec[t].phase \in {"none", "STOPPED"}
    BY DEF Queues
  <1>3. RowsBound'
    <2>1. ASSUME NEW u \in Task, u # t
          PROVE  /\ exec'[u].ticket < nextGen'
                 /\ exec'[u].gen = 0 => exec'[u] = NoExecRow
                 /\ exec'[u].gen # 0 =>
                       /\ exec'[u].gen < nextGen'
                       /\ call'[exec'[u].gen].task = u
                       /\ exec'[u].lease = call'[exec'[u].gen].lease
                       /\ exec'[u].server \in Server
      <3>1. exec'[u] = exec[u] /\ exec[u].gen \in Gen \cup {0} /\ exec[u].ticket \in Nat
        BY <1>1, <2>1 DEF IInv, TypeOK
      <3>2. /\ exec[u].ticket < nextGen
            /\ exec[u].gen = 0 => exec[u] = NoExecRow
            /\ exec[u].gen # 0 =>
                  /\ exec[u].gen < nextGen
                  /\ call[exec[u].gen].task = u
                  /\ exec[u].lease = call[exec[u].gen].lease
                  /\ exec[u].server \in Server
        BY DEF IInv, RowsBound
      <3>3. exec[u].gen # 0 => call'[exec[u].gen] = call[exec[u].gen]
        BY <1>1, <3>1, <3>2
      <3>4. exec[u].ticket < nextGen'
        BY <1>1, <3>1, <3>2
      <3>5. exec[u].gen # 0 => exec[u].gen < nextGen'
        BY <1>1, <3>1, <3>2
      <3>6. QED
        BY <3>1, <3>2, <3>3, <3>4, <3>5
    <2>2. /\ exec'[t].ticket < nextGen'
          /\ exec'[t].gen # 0 /\ exec'[t].gen < nextGen'
          /\ call'[exec'[t].gen].task = t
          /\ exec'[t].lease = call'[exec'[t].gen].lease
          /\ exec'[t].server \in Server
      BY <1>1
    <2>3. QED
      BY <2>1, <2>2 DEF RowsBound
  <1>4. ASSUME NEW g \in Gen PROVE CallOrdered(g)'
    <2>1. CASE g = nextGen
      BY <1>1, <2>1 DEF CallOrdered, Live, Executing
    <2>2. CASE g < nextGen
      <3>1. call'[g] = call[g] /\ CallOrdered(g) /\ call[g].task \in Task
        BY <1>1, <2>2 DEF IInv, CallsOrdered, CallsBound
      <3>2. Current(g)' => Current(g) /\ exec'[call[g].task] = exec[call[g].task]
        <4>1. CASE call[g].task = t
          BY <1>1, <2>2, <3>1, <4>1 DEF Current
        <4>2. CASE call[g].task # t
          BY <1>1, <3>1, <4>2 DEF Current
        <4>3. QED
          BY <4>1, <4>2
      <3>3. Live(g)' <=> Live(g)
        BY <1>1 DEF Live, Executing
      <3>4. QED
        BY <1>1, <3>1, <3>2, <3>3 DEF CallOrdered, Refusing
    <2>3. CASE g > nextGen
      <3>1. call'[g] = NoCall
        <4>1. g >= nextGen /\ g # nextGen
          BY <1>1, <2>3
        <4>2. call[g] = NoCall
          BY <4>1 DEF IInv, CallsBound
        <4>3. QED
          BY <1>1, <4>1, <4>2
      <3>2. QED
        BY <3>1 DEF CallOrdered, NoCall
    <2>4. QED
      BY <1>1, <2>1, <2>2, <2>3
  <1>5. ASSUME NEW g \in Gen, Live(g)'
        PROVE  /\ Live(g) /\ call'[g] = call[g] /\ g < nextGen
               /\ call[g].task \in Task /\ exec'[call[g].task] = exec[call[g].task]
    <2>1. Live(g)
      BY <1>1, <1>5 DEF Live, Executing
    <2>2. /\ g < nextGen /\ call[g].task \in Task
          /\ exec[call[g].task].phase \in {"RUNNING", "QUARANTINED"}
      BY <2>1, LiveFacts
    <2>3. call[g].task # t
      BY <1>2, <2>2
    <2>4. QED
      BY <1>1, <2>1, <2>2, <2>3
  <1>6. CallsOrdered'
    BY <1>4 DEF CallsOrdered
  <1>7. QED
    BY <1>3, <1>5, <1>6

\* A generation that stays cleared, with its row, its coroutine and its lease row as they were.
LEMMA FencedFrame ==
  ASSUME IInv,
         \A g \in Gen : Live(g)' =>
            /\ Live(g) /\ call'[g] = call[g]
            /\ exec'[call[g].task] = exec[call[g].task]
            /\ lease'[call[g].lease] = lease[call[g].lease]
  PROVE  Fenced'
  <1>1. SUFFICES ASSUME NEW g \in Gen, Live(g)'
                 PROVE (LET e == exec[call[g].task]
                        IN /\ Current(g) /\ e.phase \in Occupying /\ ~e.stop
                           /\ e.lease = call[g].lease /\ e.lease # None
                           /\ lease[e.lease].state \in {"HELD", "LAPSED", "QUARANTINED"})'
    BY DEF Fenced
  <1>2. /\ Live(g) /\ call'[g] = call[g] /\ exec'[call[g].task] = exec[call[g].task]
        /\ lease'[call[g].lease] = lease[call[g].lease]
    BY <1>1
  <1>3. exec[call[g].task].lease = call[g].lease
    BY <1>2, LiveFacts
  <1>4. QED
    BY <1>2, <1>3 DEF IInv, Fenced, Current

\* Queueing a first attempt keeps the invariant.
LEMMA QueueAttemptInv ==
  ASSUME IInv, NEW t \in Task, NEW s \in Server, NEW m \in MaxConcurrency, QueueAttempt(t, s, m)
  PROVE  IInv'
  <1>1. Queues(t, s, m, None) /\ lease' = lease
    BY DEF QueueAttempt, Queueable, Queues
  <1>2. /\ exec' \in [Task -> ExecRow] /\ call' \in [Gen -> CallRow]
        /\ nextGen' \in 1..(MaxGen + 1) /\ runtime' = runtime /\ up' = up
        /\ call'[nextGen].task = t /\ call'[nextGen].lease = None /\ call'[nextGen].server = s
        /\ nextGen \in Gen /\ nextGen' = nextGen + 1
        /\ \A g \in Gen : g # nextGen => call'[g] = call[g]
    BY <1>1, QueuedFacts DEF Queues
  <1>3. /\ RowsBound' /\ CallsOrdered'
        /\ \A g \in Gen : Live(g)' =>
              /\ Live(g) /\ call'[g] = call[g] /\ g < nextGen
              /\ call[g].task \in Task /\ exec'[call[g].task] = exec[call[g].task]
    BY <1>1, QueuedFrame
  <1>4. TypeOK' /\ LeasesBound'
    BY <1>1, <1>2 DEF IInv, TypeOK, LeasesBound
  <1>5. CallsBound'
    <2>1. ASSUME NEW g \in Gen
          PROVE  /\ g >= nextGen' => call'[g] = NoCall /\ runtime'[g] = "none"
                 /\ g < nextGen' => call'[g].task \in Task /\ call'[g].server \in Server
                 /\ call'[g].lease # None =>
                       LET r == lease'[call'[g].lease]
                       IN /\ r.state # "none" /\ r.task = call'[g].task
                          /\ r.scope = ScopeOf[call'[g].task] /\ r.holder = AgentOf[call'[g].task]
      <3>1. CASE g = nextGen
        BY <1>2, <3>1
      <3>2. CASE g # nextGen
        <4>1. call'[g] = call[g] /\ (g >= nextGen' => g >= nextGen) /\ (g < nextGen' => g < nextGen)
          BY <1>2, <3>2
        <4>2. QED
          BY <1>1, <1>2, <4>1 DEF IInv, CallsBound
      <3>3. QED
        BY <3>1, <3>2
    <2>2. QED
      BY <2>1 DEF CallsBound
  <1>6. Fenced'
    BY <1>1, <1>3, FencedFrame
  <1>7. LeasesExclusive'
    <2>1. \A l \in Lease : Writable(l)' => Writable(l)
      BY <1>1, <1>3 DEF Writable
    <2>2. QED
      BY <1>1, <2>1 DEF IInv, LeasesExclusive, SameIdentity, Conflicting
  <1>8. QED
    BY <1>3, <1>4, <1>5, <1>6, <1>7 DEF IInv

\* Queueing a recovery keeps the invariant: its lease is granted where nothing is live.
LEMMA QueueRecoveryInv ==
  ASSUME IInv, NEW t \in Task, NEW s \in Server, NEW m \in MaxConcurrency, NEW l \in Lease,
         QueueRecovery(t, s, m, l)
  PROVE  IInv'
  <1> DEFINE a == AgentOf[t]
             sc == ScopeOf[t]
  <1>1. /\ Queues(t, s, m, l) /\ Grants(l, sc, a, t) /\ a \in Agent /\ sc \in Scope
        /\ Clear(sc, a, t)
    BY DEF QueueRecovery, Queueable, Queues, Grants, Clear
  <1>2. /\ exec' \in [Task -> ExecRow] /\ call' \in [Gen -> CallRow]
        /\ nextGen' \in 1..(MaxGen + 1) /\ runtime' = runtime /\ up' = up
        /\ call'[nextGen].task = t /\ call'[nextGen].lease = l /\ call'[nextGen].server = s
        /\ nextGen \in Gen /\ nextGen' = nextGen + 1
        /\ \A g \in Gen : g # nextGen => call'[g] = call[g]
    BY <1>1, QueuedFacts DEF Queues
  <1>3. /\ RowsBound' /\ CallsOrdered'
        /\ \A g \in Gen : Live(g)' =>
              /\ Live(g) /\ call'[g] = call[g] /\ g < nextGen
              /\ call[g].task \in Task /\ exec'[call[g].task] = exec[call[g].task]
    BY <1>1, QueuedFrame
  <1> HIDE DEF a, sc
  <1>4. /\ lease' \in [Lease -> LeaseRow] /\ LeasesBound'
        /\ lease'[l].state = "HELD" /\ lease'[l].task = t /\ lease'[l].holder = a
        /\ lease'[l].scope = sc
        /\ \A k \in Lease : k # l => lease'[k] = lease[k]
        /\ \A g \in Gen : call[g].lease # l
    BY <1>1, LeaseGranted
  <1>5. TypeOK'
    BY <1>2, <1>4 DEF IInv, TypeOK
  <1>6. CallsBound'
    <2>1. ASSUME NEW g \in Gen
          PROVE  /\ g >= nextGen' => call'[g] = NoCall /\ runtime'[g] = "none"
                 /\ g < nextGen' => call'[g].task \in Task /\ call'[g].server \in Server
                 /\ call'[g].lease # None =>
                       LET r == lease'[call'[g].lease]
                       IN /\ r.state # "none" /\ r.task = call'[g].task
                          /\ r.scope = ScopeOf[call'[g].task] /\ r.holder = AgentOf[call'[g].task]
      <3>1. CASE g = nextGen
        BY <1>2, <1>4, <3>1 DEF a, sc
      <3>2. CASE g # nextGen
        <4>1. call'[g] = call[g] /\ call[g].lease \in Lease \cup {None}
          BY <1>2, <3>2 DEF IInv, TypeOK
        <4>2. call[g].lease # None => lease'[call[g].lease] = lease[call[g].lease]
          BY <1>4, <4>1
        <4>3. QED
          BY <1>2, <3>2, <4>1, <4>2 DEF IInv, CallsBound
      <3>3. QED
        BY <3>1, <3>2
    <2>2. QED
      BY <2>1 DEF CallsBound
  <1>7. Fenced'
    <2>1. ASSUME NEW g \in Gen, Live(g)
          PROVE  lease'[call[g].lease] = lease[call[g].lease]
      BY <1>4, <2>1, LiveFacts
    <2>2. QED
      BY <1>3, <2>1, FencedFrame
  <1>8. LeasesExclusive'
    <2>1. \A g \in Gen : Live(g)' => Live(g) /\ call'[g].lease = call[g].lease
      BY <1>3
    <2>2. QED
      BY <1>1, <2>1, GrantExclusive
  <1>9. QED
    BY <1>3, <1>4, <1>5, <1>6, <1>7, <1>8 DEF IInv

\* Authorizing a launch keeps the invariant: the lease it binds met no live conflict.
LEMMA AuthorizeAttemptInv ==
  ASSUME IInv, NEW g \in Gen, NEW l \in Lease, AuthorizeAttempt(g, l) PROVE IInv'
  <1> DEFINE t == call[g].task
             a == AgentOf[t]
             sc == ScopeOf[t]
             r == [phase |-> exec[t].phase, gen |-> exec[t].gen, server |-> exec[t].server,
                   max |-> exec[t].max, ticket |-> exec[t].ticket, stop |-> FALSE, lease |-> l,
                   cancel |-> exec[t].cancel]
             c == [pc |-> "invoking", task |-> call[g].task, server |-> call[g].server,
                   lease |-> l, stopped |-> call[g].stopped, saw |-> call[g].saw]
  <1>1. /\ call[g].pc = "admitted" /\ call[g].lease = None /\ Current(g)
        /\ Free(sc, a, t) /\ Grants(l, sc, a, t)
        /\ exec' = [exec EXCEPT ![t].lease = l, ![t].stop = FALSE]
        /\ call' = [call EXCEPT ![g].pc = "invoking", ![g].lease = l]
        /\ UNCHANGED <<runtime, up, nextGen>>
    BY DEF AuthorizeAttempt, Grants
  <1>2. /\ g < nextGen /\ t \in Task /\ TypeOK /\ CallOrdered(g)
        /\ exec[t].gen = g /\ exec[t].gen # 0 /\ a \in Agent /\ sc \in Scope
    BY <1>1, Known DEF IInv, CallsOrdered
  <1>3. /\ exec' = [u \in Task |-> IF u = t THEN r ELSE exec[u]] /\ r \in ExecRow
    <2> DEFINE y == [exec[t] EXCEPT !.lease = l]
    <2>1. exec[t] \in ExecRow
      BY <1>2 DEF TypeOK
    <2>2. exec[t] = [phase |-> exec[t].phase, gen |-> exec[t].gen, server |-> exec[t].server,
                     max |-> exec[t].max, ticket |-> exec[t].ticket, stop |-> exec[t].stop,
                     lease |-> exec[t].lease, cancel |-> exec[t].cancel]
      BY <2>1
    <2>3. y = [phase |-> exec[t].phase, gen |-> exec[t].gen, server |-> exec[t].server,
               max |-> exec[t].max, ticket |-> exec[t].ticket, stop |-> exec[t].stop,
               lease |-> l, cancel |-> exec[t].cancel]
      BY <2>2
    <2>4. ASSUME NEW b PROVE [exec[t] EXCEPT !.lease = l, !.stop = b] = [y EXCEPT !.stop = b]
      OBVIOUS
    <2>5. r \in ExecRow
      BY <2>1
    <2> HIDE DEF y
    <2>6. ASSUME NEW b
          PROVE  [y EXCEPT !.stop = b] =
                   [phase |-> exec[t].phase, gen |-> exec[t].gen, server |-> exec[t].server,
                    max |-> exec[t].max, ticket |-> exec[t].ticket, stop |-> b,
                    lease |-> l, cancel |-> exec[t].cancel]
      BY <2>3
    <2>7. [exec[t] EXCEPT !.lease = l, !.stop = FALSE] = r
      BY <2>4, <2>6
    <2> HIDE DEF r
    <2>8. QED
      BY <1>1, <1>2, <2>5, <2>7 DEF TypeOK
  <1>4. /\ call' = [h \in Gen |-> IF h = g THEN c ELSE call[h]] /\ c \in CallRow
    <2> DEFINE y == [call[g] EXCEPT !.pc = "invoking"]
    <2>1. call[g] \in CallRow
      BY <1>2 DEF TypeOK
    <2>2. call[g] = [pc |-> call[g].pc, task |-> call[g].task, server |-> call[g].server,
                     lease |-> call[g].lease, stopped |-> call[g].stopped, saw |-> call[g].saw]
      BY <2>1
    <2>3. y = [pc |-> "invoking", task |-> call[g].task, server |-> call[g].server,
               lease |-> call[g].lease, stopped |-> call[g].stopped, saw |-> call[g].saw]
      BY <2>2
    <2>4. [call[g] EXCEPT !.pc = "invoking", !.lease = l] = [y EXCEPT !.lease = l]
      OBVIOUS
    <2>5. c \in CallRow
      BY <2>1 DEF CallPc
    <2> HIDE DEF y
    <2>6. [y EXCEPT !.lease = l] = c
      BY <2>3
    <2>7. [call[g] EXCEPT !.pc = "invoking", !.lease = l] = c
      BY <2>4, <2>6
    <2> HIDE DEF c
    <2>8. QED
      BY <1>1, <2>5, <2>7 DEF TypeOK, IInv
  <1>5. /\ r.gen = exec[t].gen /\ r.server = exec[t].server /\ r.ticket = exec[t].ticket
        /\ r.lease = l /\ r.stop = FALSE
        /\ c.pc = "invoking" /\ c.task = t /\ c.server = call[g].server /\ c.lease = l
        /\ c.saw = call[g].saw
    OBVIOUS
  <1> HIDE DEF r, c
  <1>6. /\ exec' \in [Task -> ExecRow] /\ exec'[t] = r
        /\ \A u \in Task : u # t => exec'[u] = exec[u]
        /\ call' \in [Gen -> CallRow] /\ call'[g] = c
        /\ \A h \in Gen : h # g => call'[h] = call[h]
    BY <1>2, <1>3, <1>4 DEF TypeOK
  <1>7. /\ runtime[g] = "none" /\ ~Live(g)
    BY <1>1, <1>2 DEF CallOrdered, Live, Executing
  <1>8. /\ lease' \in [Lease -> LeaseRow] /\ LeasesBound'
        /\ lease'[l].state = "HELD" /\ lease'[l].task = t /\ lease'[l].holder = a
        /\ lease'[l].scope = sc
        /\ \A k \in Lease : k # l => lease'[k] = lease[k]
        /\ \A h \in Gen : call[h].lease # l
    BY <1>1, <1>2, LeaseGranted
  <1>9. TypeOK'
    BY <1>1, <1>2, <1>6, <1>8 DEF TypeOK
  <1>10. RowsBound'
    <2>1. /\ exec'[t].ticket < nextGen' /\ exec'[t].gen # 0 /\ exec'[t].gen < nextGen'
          /\ call'[exec'[t].gen].task = t /\ exec'[t].lease = call'[exec'[t].gen].lease
          /\ exec'[t].server \in Server
      BY <1>1, <1>2, <1>5, <1>6 DEF IInv, RowsBound
    <2>2. ASSUME NEW u \in Task, u # t
          PROVE  /\ exec'[u].ticket < nextGen'
                 /\ exec'[u].gen = 0 => exec'[u] = NoExecRow
                 /\ exec'[u].gen # 0 =>
                       /\ exec'[u].gen < nextGen'
                       /\ call'[exec'[u].gen].task = u
                       /\ exec'[u].lease = call'[exec'[u].gen].lease
                       /\ exec'[u].server \in Server
      <3>1. exec'[u] = exec[u] /\ exec[u].gen \in Gen \cup {0}
        BY <1>2, <1>6, <2>2 DEF TypeOK
      <3>2. exec[u].gen # 0 => exec[u].gen # g
        BY <2>2 DEF IInv, RowsBound
      <3>3. exec[u].gen # 0 => call'[exec[u].gen] = call[exec[u].gen]
        BY <1>6, <3>1, <3>2
      <3>4. /\ exec[u].ticket < nextGen
            /\ exec[u].gen = 0 => exec[u] = NoExecRow
            /\ exec[u].gen # 0 =>
                  /\ exec[u].gen < nextGen
                  /\ call[exec[u].gen].task = u
                  /\ exec[u].lease = call[exec[u].gen].lease
                  /\ exec[u].server \in Server
        BY DEF IInv, RowsBound
      <3>5. nextGen' = nextGen
        BY <1>1
      <3>6. QED
        BY <3>1, <3>3, <3>4, <3>5
    <2>3. QED
      BY <2>1, <2>2 DEF RowsBound
  <1>11. CallsBound'
    <2>1. ASSUME NEW h \in Gen
          PROVE  /\ h >= nextGen' => call'[h] = NoCall /\ runtime'[h] = "none"
                 /\ h < nextGen' => call'[h].task \in Task /\ call'[h].server \in Server
                 /\ call'[h].lease # None =>
                       LET q == lease'[call'[h].lease]
                       IN /\ q.state # "none" /\ q.task = call'[h].task
                          /\ q.scope = ScopeOf[call'[h].task] /\ q.holder = AgentOf[call'[h].task]
      <3>1. CASE h = g
        <4>1. call[g].server \in Server /\ ~(g >= nextGen)
          BY <1>2 DEF IInv, CallsBound, TypeOK
        <4>2. QED
          BY <1>1, <1>2, <1>5, <1>6, <1>8, <3>1, <4>1
      <3>2. CASE h # g
        <4>1. call'[h] = call[h] /\ call[h].lease \in Lease \cup {None}
          BY <1>2, <1>6, <3>2 DEF TypeOK
        <4>2. call[h].lease # None => lease'[call[h].lease] = lease[call[h].lease]
          BY <1>8, <4>1
        <4>3. /\ h >= nextGen => call[h] = NoCall /\ runtime[h] = "none"
              /\ h < nextGen => call[h].task \in Task /\ call[h].server \in Server
              /\ call[h].lease # None =>
                    LET q == lease[call[h].lease]
                    IN /\ q.state # "none" /\ q.task = call[h].task
                       /\ q.scope = ScopeOf[call[h].task] /\ q.holder = AgentOf[call[h].task]
          BY DEF IInv, CallsBound
        <4>4. nextGen' = nextGen /\ runtime' = runtime
          BY <1>1
        <4>5. QED
          BY <4>1, <4>2, <4>3, <4>4
      <3>3. QED
        BY <3>1, <3>2
    <2>2. QED
      BY <2>1 DEF CallsBound
  <1>12. ASSUME NEW h \in Gen PROVE CallOrdered(h)'
    <2>1. CASE h = g
      <3>1. Refusing(t)'
        BY <1>2, <1>5, <1>6 DEF Refusing
      <3>2. call'[g].task = t /\ call'[g].pc = "invoking" /\ call'[g].lease = l
            /\ call'[g].saw = call[g].saw /\ l # None /\ ~Live(g)' /\ runtime'[g] = "none"
        BY <1>1, <1>5, <1>6, <1>7 DEF Live, Executing
      <3>3. exec'[t].stop = FALSE
        BY <1>5, <1>6
      <3>4. QED
        BY <1>2, <1>7, <2>1, <3>2, <3>3 DEF CallOrdered, Refusing
    <2>2. CASE h # g /\ h >= nextGen
      <3>1. call'[h] = NoCall
        BY <1>6, <2>2 DEF IInv, CallsBound
      <3>2. QED
        BY <3>1 DEF CallOrdered, NoCall
    <2>3. CASE h # g /\ h < nextGen
      <3>1. call'[h] = call[h] /\ CallOrdered(h) /\ call[h].task \in Task
        BY <1>6, <2>3 DEF IInv, CallsOrdered, CallsBound
      <3>2. Current(h)' => Current(h) /\ exec'[call[h].task] = exec[call[h].task]
        <4>1. CASE call[h].task = t
          BY <1>2, <1>5, <1>6, <2>3, <3>1, <4>1 DEF Current
        <4>2. CASE call[h].task # t
          BY <1>6, <3>1, <4>2 DEF Current
        <4>3. QED
          BY <4>1, <4>2
      <3>3. Live(h)' <=> Live(h)
        BY <1>1 DEF Live, Executing
      <3>4. QED
        BY <1>1, <3>1, <3>2, <3>3 DEF CallOrdered, Refusing
    <2>4. QED
      BY <1>2, <2>1, <2>2, <2>3 DEF TypeOK
  <1>13. ASSUME NEW h \in Gen, Live(h)'
         PROVE  /\ Live(h) /\ call'[h] = call[h]
                /\ exec'[call[h].task] = exec[call[h].task]
                /\ lease'[call[h].lease] = lease[call[h].lease]
    <2>1. Live(h)
      BY <1>1, <1>13 DEF Live, Executing
    <2>2. /\ h # g /\ call[h].task \in Task /\ call[h].lease \in Lease
          /\ exec[call[h].task].gen = h
      BY <1>7, <2>1, LiveFacts
    <2>3. call[h].task # t
      BY <1>2, <2>2
    <2>4. QED
      BY <1>6, <1>8, <2>1, <2>2, <2>3
  <1>14. Fenced'
    BY <1>13, FencedFrame
  <1>15. LeasesExclusive'
    <2>1. Clear(sc, a, t)
      BY <1>1 DEF Free, Conflicts, Clear
    <2>2. QED
      BY <1>1, <1>2, <1>13, <2>1, GrantExclusive
  <1>16. CallsOrdered'
    BY <1>12 DEF CallsOrdered
  <1>17. QED
    BY <1>8, <1>9, <1>10, <1>11, <1>14, <1>15, <1>16 DEF IInv

-----------------------------------------------------------------------------
(* The invariant, and what follows from it.                                *)

\* Every step keeps the invariant, for adapters that launch one runtime per generation.
LEMMA NextInv == ASSUME IInv, RepairAgents = {}, [Next]_vars PROVE IInv'
  <1>1. CASE UNCHANGED vars
    <2>1. UNCHANGED <<lease, exec, call, runtime, up, nextGen>>
      BY <1>1 DEF vars
    <2>2. Kept
      BY <2>1, Untouched, AllUntouched
    <2>3. \A t \in Task : Refusing(t) => Refusing(t)'
      BY <2>1 DEF Refusing
    <2>4. \A g \in Gen : Live(g) => FenceKept(g)
      BY <2>1, UntouchedFence
    <2>5. QED
      BY <2>1, <2>2, <2>3, <2>4, RowStep
  <1>2. CASE LeaseStep
    BY <1>2, AcquireInv, ExpireInv, ReleaseInv, ReapInv DEF LeaseStep
  <1>3. CASE QueueStep
    BY <1>3, QueueAttemptInv, QueueRecoveryInv, ReconcileInv DEF QueueStep
  <1>4. ASSUME NEW g \in Gen, PrelaunchStep(g) PROVE IInv'
    BY <1>4, PollAdmissionInv, LeaveQueueInv, AbandonInv, AuthorizeAttemptInv,
       AuthorizeRecoveryInv DEF PrelaunchStep
  <1>5. ASSUME NEW g \in Gen, RuntimeStep(g) PROVE IInv'
    BY <1>5, AssertRunningInv, ReportRunningInv, LaunchInv, RuntimeExitInv, ReadBeforeInv,
       ReportStoppedInv, ReportUnconfirmedInv DEF RuntimeStep
  <1>6. ASSUME NEW g \in Gen, EndStep(g) PROVE IInv'
    BY <1>6, SettleInv, CommitInv, CommitThrowsInv DEF EndStep
  <1>7. CASE OutsideStep
    BY <1>7, CancelTaskInv, ShutdownCancelInv, ReclaimPrelaunchInv, QuarantineUncertainInv,
       CrashInv DEF OutsideStep
  <1>8. QED
    BY <1>1, <1>2, <1>3, <1>4, <1>5, <1>6, <1>7 DEF Next, Started

\* The fence between the database and the world, with the row relations it rests on, holds in
\* every reachable state, for any number of servers, tasks, leases and generations, of any
\* system whose adapters launch one runtime per generation.
THEOREM Invariance == ASSUME RepairAgents = {} PROVE Spec => []IInv
  <1>1. Init => IInv
    BY InitInv
  <1>2. IInv /\ [Next]_vars => IInv'
    BY NextInv
  <1>3. QED
    BY <1>1, <1>2, PTL DEF Spec

\* Every reachable state is well typed.
THEOREM TypeCorrect == ASSUME RepairAgents = {} PROVE Spec => []TypeOK
  <1>1. IInv => TypeOK
    BY DEF IInv
  <1>2. Spec => []IInv
    BY Invariance
  <1>3. QED
    BY <1>1, <1>2, PTL

\* A runtime that executes, or is cleared to, is fenced: its row is still that of its generation,
\* counts against the slots, has no stop evidence and is bound to a lease that has not ended.
THEOREM RuntimesFenced == ASSUME RepairAgents = {} PROVE Spec => []Fenced
  <1>1. IInv => Fenced
    BY DEF IInv
  <1>2. Spec => []IInv
    BY Invariance
  <1>3. QED
    BY <1>1, <1>2, PTL

\* Two leases under which someone may write now, and which are not the same agent's on the same
\* task, do not overlap, expired leases with an executing runtime included.
THEOREM ExclusiveLeases == ASSUME RepairAgents = {} PROVE Spec => []LeasesExclusive
  <1>1. IInv => LeasesExclusive
    BY DEF IInv
  <1>2. Spec => []IInv
    BY Invariance
  <1>3. QED
    BY <1>1, <1>2, PTL

\* Two runtimes that really execute work for different tasks, over scopes that do not overlap.
THEOREM DisjointWriters == ASSUME RepairAgents = {} PROVE Spec => []WritersDisjoint
  <1>1. IInv => WritersDisjoint
    <2>1. SUFFICES ASSUME IInv, NEW g \in Gen, NEW h \in Gen, g # h, Executing(g), Executing(h)
                   PROVE  /\ call[g].task # call[h].task
                          /\ ~Conflicting(ScopeOf[call[g].task], ScopeOf[call[h].task])
      BY DEF WritersDisjoint
    <2>2. Live(g) /\ Live(h)
      BY <2>1 DEF Live
    <2>3. /\ call[g].lease \in Lease /\ exec[call[g].task].gen = g
          /\ lease[call[g].lease].task = call[g].task
          /\ lease[call[g].lease].scope = ScopeOf[call[g].task]
      BY <2>1, <2>2, LiveFacts
    <2>4. /\ call[h].lease \in Lease /\ exec[call[h].task].gen = h
          /\ lease[call[h].lease].task = call[h].task
          /\ lease[call[h].lease].scope = ScopeOf[call[h].task]
      BY <2>1, <2>2, LiveFacts
    <2>5. call[g].task # call[h].task
      BY <2>1, <2>3, <2>4
    <2>6. Writable(call[g].lease) /\ Writable(call[h].lease)
      BY <2>2 DEF Writable
    <2>7. call[g].lease # call[h].lease /\ ~SameIdentity(call[g].lease, call[h].lease)
      BY <2>3, <2>4, <2>5 DEF SameIdentity
    <2>8. ~Conflicting(lease[call[g].lease].scope, lease[call[h].lease].scope)
      BY <2>1, <2>3, <2>4, <2>6, <2>7 DEF IInv, LeasesExclusive
    <2>9. QED
      BY <2>3, <2>4, <2>5, <2>8
  <1>2. Spec => []IInv
    BY Invariance
  <1>3. QED
    BY <1>1, <1>2, PTL

\* No row holds positive stop evidence while the runtime of its generation executes.
THEOREM HonestStopEvidence == ASSUME RepairAgents = {} PROVE Spec => []StopEvidenceHonest
  <1>1. IInv => StopEvidenceHonest
    <2>1. SUFFICES ASSUME IInv, NEW t \in Task, exec[t].gen # 0, Executing(exec[t].gen)
                   PROVE  ~exec[t].stop
      BY DEF StopEvidenceHonest
    <2>2. exec[t].gen \in Gen /\ Live(exec[t].gen)
      BY <2>1 DEF IInv, TypeOK, Live
    <2>3. call[exec[t].gen].task = t
      BY <2>1 DEF IInv, RowsBound
    <2>4. exec[call[exec[t].gen].task].stop = FALSE
      BY <2>1, <2>2, LiveFacts
    <2>5. QED
      BY <2>3, <2>4
  <1>2. Spec => []IInv
    BY Invariance
  <1>3. QED
    BY <1>1, <1>2, PTL

\* A quarantined lease is touched by one kind of step only: the stop report of a generation.
LEMMA QuarantineKept ==
  ASSUME IInv, NEW l \in Lease, lease[l].state = "QUARANTINED", [Next]_vars,
         \A h \in Gen : ~ReportStopped(h)
  PROVE  lease'[l].state = "QUARANTINED"
  <1>1. TypeOK
    BY DEF IInv
  <1>2. ASSUME NEW k \in Lease, NEW st, lease' = WithState(k, st), k # l \/ st = "QUARANTINED"
        PROVE  lease'[l].state = "QUARANTINED"
    <2>1. CASE k # l
      BY <1>1, <1>2, <2>1 DEF WithState, TypeOK
    <2>2. CASE k = l
      BY <1>1, <1>2, <2>2, StateTyped DEF LeaseState
    <2>3. QED
      BY <2>1, <2>2
  <1>3. ASSUME lease' = lease PROVE lease'[l].state = "QUARANTINED"
    BY <1>3
  <1>4. ASSUME NEW k \in Lease \cup {None}, lease' = GivenBack(k)
        PROVE  lease'[l].state = "QUARANTINED"
    BY <1>2, <1>4 DEF GivenBack, Held
  <1>5. ASSUME NEW k \in Lease, NEW r, lease[k].state = "none", lease' = [lease EXCEPT ![k] = r]
        PROVE  lease'[l].state = "QUARANTINED"
    BY <1>1, <1>5 DEF TypeOK
  <1>6. ASSUME NEW A, lease' = ReconciledLeases(A) PROVE lease'[l].state = "QUARANTINED"
    BY <1>6 DEF ReconciledLeases, Held
  <1>7. CASE UNCHANGED vars
    BY <1>3, <1>7 DEF vars
  <1>8. CASE LeaseStep
    <2>1. ASSUME NEW a \in Agent, NEW t \in Task, NEW s \in Scope, NEW k \in Lease,
                 Acquire(a, t, s, k)
          PROVE  lease'[l].state = "QUARANTINED"
      BY <1>5, <2>1 DEF Acquire
    <2>2. ASSUME NEW k \in Lease, Expire(k) \/ Release(k) PROVE lease'[l].state = "QUARANTINED"
      BY <1>2, <2>2 DEF Expire, Release, Held
    <2>3. CASE ReapExpired
      BY <2>3 DEF ReapExpired
    <2>4. QED
      BY <1>8, <2>1, <2>2, <2>3 DEF LeaseStep
  <1>9. CASE QueueStep
    <2>1. ASSUME NEW t \in Task, NEW s \in Server, NEW m \in MaxConcurrency,
                 \/ QueueAttempt(t, s, m)
                 \/ \E k \in Lease : QueueRecovery(t, s, m, k)
          PROVE  lease'[l].state = "QUARANTINED"
      BY <1>3, <1>5, <2>1 DEF QueueAttempt, QueueRecovery
    <2>2. CASE Reconcile
      BY <1>6, <2>2 DEF Reconcile
    <2>3. QED
      BY <1>9, <2>1, <2>2 DEF QueueStep
  <1>10. ASSUME NEW g \in Gen, PrelaunchStep(g) PROVE lease'[l].state = "QUARANTINED"
    <2>1. call[g].lease \in Lease \cup {None}
      BY <1>1 DEF TypeOK
    <2>2. CASE PollAdmission(g)
      BY <1>6, <2>2 DEF PollAdmission
    <2>3. CASE AbandonPrelaunch(g)
      BY <1>3, <1>4, <2>1, <2>3 DEF AbandonPrelaunch
    <2>4. CASE \E k \in Lease : AuthorizeAttempt(g, k)
      BY <1>5, <2>4 DEF AuthorizeAttempt
    <2>5. CASE LeaveQueue(g) \/ AuthorizeRecovery(g)
      BY <1>3, <2>5 DEF LeaveQueue, AuthorizeRecovery
    <2>6. QED
      BY <1>10, <2>2, <2>3, <2>4, <2>5 DEF PrelaunchStep
  <1>11. ASSUME NEW g \in Gen, RuntimeStep(g) PROVE lease'[l].state = "QUARANTINED"
    BY <1>3, <1>11 DEF RuntimeStep, AssertRunning, ReportRunning, Launch, RuntimeExit,
                       ReadBeforeStopReport, ReportUnconfirmed
  <1>12. ASSUME NEW g \in Gen, EndStep(g) PROVE lease'[l].state = "QUARANTINED"
    <2>1. CASE (\E stopped \in BOOLEAN : Settle(g, stopped)) \/ CommitThrows(g)
      BY <1>3, <2>1 DEF Settle, CommitThrows
    <2>2. CASE Commit(g)
      <3>1. call[g].lease \in Lease
        BY <2>2, Known DEF Commit, IInv, CallsOrdered, CallOrdered
      <3>2. QED
        BY <1>2, <1>4, <2>2, <3>1 DEF Commit
    <2>3. QED
      BY <1>12, <2>1, <2>2 DEF EndStep
  <1>13. CASE OutsideStep
    <2>1. ASSUME NEW t \in Task, CancelTask(t) PROVE lease'[l].state = "QUARANTINED"
      <3>1. exec[t].lease \in Lease \cup {None}
        BY <1>1 DEF TypeOK
      <3>2. lease' = lease \/ lease' = GivenBack(exec[t].lease)
        BY <2>1 DEF CancelTask
      <3>3. QED
        BY <1>3, <1>4, <3>1, <3>2
    <2>2. ASSUME NEW t \in Task, QuarantineUncertain(t) PROVE lease'[l].state = "QUARANTINED"
      <3>1. exec[t].lease \in Lease \cup {None}
        BY <1>1 DEF TypeOK
      <3>2. \/ lease' = lease
            \/ exec[t].lease # None /\ lease' = WithState(exec[t].lease, "QUARANTINED")
        BY <2>2 DEF QuarantineUncertain
      <3>3. QED
        BY <1>2, <1>3, <3>1, <3>2
    <2>3. ASSUME NEW t \in Task, ShutdownCancel(t) \/ ReclaimPrelaunch(t)
          PROVE  lease'[l].state = "QUARANTINED"
      BY <1>3, <2>3 DEF ShutdownCancel, ReclaimPrelaunch
    <2>4. ASSUME NEW s \in Server, Crash(s) PROVE lease'[l].state = "QUARANTINED"
      BY <1>3, <2>4 DEF Crash
    <2>5. QED
      BY <1>13, <2>1, <2>2, <2>3, <2>4 DEF OutsideStep
  <1>14. QED
    BY <1>7, <1>8, <1>9, <1>10, <1>11, <1>12, <1>13 DEF Next, Started

\* A quarantined scope is given back only by the stop report of the generation it was granted to,
\* whose runtime no longer executes.
THEOREM QuarantineLifted == ASSUME RepairAgents = {} PROVE Spec => QuarantineOutlivesRuntime
  <1> DEFINE Step == \A l \in Lease :
                        lease[l].state = "QUARANTINED" /\ lease'[l].state # "QUARANTINED"
                        => \A g \in Gen : call[g].lease = l => ~Executing(g)
  <1>1. IInv /\ [Next]_vars => Step
    <2>1. SUFFICES ASSUME IInv, [Next]_vars, NEW l \in Lease, lease[l].state = "QUARANTINED",
                          lease'[l].state # "QUARANTINED",
                          NEW g \in Gen, call[g].lease = l, Executing(g)
                   PROVE  FALSE
      OBVIOUS
    <2>2. PICK h \in Gen : ReportStopped(h)
      BY <2>1, QuarantineKept
    <2>3. /\ call[h].saw # "none" /\ runtime[h] = "stopped"
      BY <2>1, <2>2 DEF ReportStopped, IInv, CallsOrdered, CallOrdered
    <2>4. /\ call[h].lease \in Lease \cup {None} /\ call[h].task \in Task
          /\ call[h].lease # None => lease[call[h].lease].state # "none"
          /\ Current(h) => exec[call[h].task].lease = call[h].lease
      BY <2>1, <2>3, Known
    <2>5. Current(h)
      BY <2>1, <2>2 DEF ReportStopped
    <2>6. lease' = Confirmed(call[h].lease) \/ lease' = lease
      BY <2>2, <2>4, <2>5 DEF ReportStopped
    <2>7. call[h].lease = l
      BY <2>1, <2>4, <2>6, GivenBackMoves
    <2>8. lease[l].task = call[h].task
      BY <2>1, <2>7 DEF IInv, CallsBound
    <2>9. /\ exec[call[g].task].gen = g /\ lease[l].task = call[g].task
      BY <2>1, LiveFacts DEF Live
    <2>10. g = h
      BY <2>5, <2>8, <2>9 DEF Current
    <2>11. QED
      BY <2>1, <2>3, <2>10 DEF Executing
  <1>2. IInv /\ [Next]_vars => [Step]_vars
    BY <1>1
  <1>3. Spec => []IInv
    BY Invariance
  <1> HIDE DEF Step
  <1>4. Spec => [][Step]_vars
    BY <1>2, <1>3, PTL DEF Spec
  <1>5. QED
    BY <1>4 DEF QuarantineOutlivesRuntime, Step

-----------------------------------------------------------------------------
(***************************************************************************)
(* Two promises of the shared execution queue that relate many rows: it is *)
(* first come first served, and the runtimes that execute stay within      *)
(* every declared limit.                                                   *)
(*                                                                         *)
(* Both rest on IInv and one invariant more each.  Tickets follow          *)
(* generations (TicketsOrdered), so who was queued earlier holds the       *)
(* smaller ticket.  And what counts against a limit is not the rows, which *)
(* late reports may move from STOPPED to RUNNING again, but the            *)
(* generations that may still execute without another admission (Claims):  *)
(* a poll is the only step that adds one, and it has just counted a row    *)
(* for each of the others.                                                 *)
(***************************************************************************)
HIDE DEF LeaseRow, ExecRow, CallRow

\* Generations that execute, or may come to execute without being admitted again.
Claims(g) ==
    \/ Live(g)
    \/ /\ call[g].pc \in {"admitted", "invoking"} /\ runtime[g] = "none"
       /\ Current(g) /\ exec[call[g].task].phase = "RUNNING"

Claimants(a) == {g \in Gen : Claims(g) /\ AgentOf[call[g].task] = a}

\* No more of an agent than any of their rows allows.
SlotsCounted ==
    \A g \in Gen : Claims(g) =>
        Cardinality(Claimants(AgentOf[call[g].task])) <= exec[call[g].task].max

\* Of two rows the one queued earlier has the smaller ticket.
TicketsOrdered ==
    \A t, u \in Task :
        exec[t].gen # 0 /\ exec[t].gen < exec[u].gen => exec[t].ticket < exec[u].ticket

\* A row names the server of its coroutine.
RowsManaged == \A t \in Task : exec[t].gen # 0 => exec[t].server = call[exec[t].gen].server

QInv == IInv /\ TicketsOrdered /\ RowsManaged /\ SlotsCounted

\* Coroutines keep their task and server...
SameCall(g) == call'[g].task = call[g].task /\ call'[g].server = call[g].server

USE DEF SameCall

\* ...and rows their generation, server, ticket and limit.
RowsSame ==
    /\ \A t \in Task : /\ exec'[t].gen = exec[t].gen /\ exec'[t].ticket = exec[t].ticket
                       /\ exec'[t].max = exec[t].max /\ exec'[t].server = exec[t].server
    /\ \A g \in Gen : SameCall(g)

\* A step after which nobody may execute who could not before.
Quiet == RowsSame /\ \A g \in Gen : Claims(g)' => Claims(g)

-----------------------------------------------------------------------------
\* What a claim says: a row of its own, which counts.
LEMMA ClaimFacts ==
  ASSUME IInv, NEW g \in Gen, Claims(g)
  PROVE  /\ call[g].task \in Task /\ g < nextGen /\ Current(g) /\ exec[call[g].task].gen = g
         /\ exec[call[g].task].phase \in {"RUNNING", "QUARANTINED"}
  <1>1. CASE Live(g)
    BY <1>1, LiveFacts DEF Current
  <1>2. CASE /\ call[g].pc \in {"admitted", "invoking"}
             /\ Current(g) /\ exec[call[g].task].phase = "RUNNING"
    BY <1>2, Known
  <1>3. QED
    BY <1>1, <1>2 DEF Claims

\* A step is quiet if it moves no coroutine into the two places before a launch, and no row of
\* a coroutine in them to RUNNING, and clears nobody who had no claim.
LEMMA QuietStep ==
  ASSUME IInv, RowsSame,
         \A g \in Gen : Live(g)' => Claims(g),
         \A g \in Gen : runtime'[g] = "none" => runtime[g] = "none",
         \A g \in Gen : call'[g].pc \in {"admitted", "invoking"} =>
            /\ call[g].pc \in {"admitted", "invoking"}
            /\ Current(g) /\ exec'[call[g].task].phase = "RUNNING" =>
                  exec[call[g].task].phase = "RUNNING"
  PROVE  Quiet
  <1>1. SUFFICES ASSUME NEW g \in Gen, Claims(g)', ~Live(g)'
                 PROVE  Claims(g)
    BY DEF Quiet
  <1>2. /\ call'[g].pc \in {"admitted", "invoking"} /\ runtime'[g] = "none"
        /\ exec'[call'[g].task].gen = g /\ exec'[call'[g].task].phase = "RUNNING"
    BY <1>1 DEF Claims, Current
  <1>3. call[g].pc \in {"admitted", "invoking"} /\ runtime[g] = "none"
    BY <1>2
  <1>4. call[g].task \in Task /\ call'[g].task = call[g].task
    BY <1>3, Known DEF RowsSame
  <1>5. Current(g)
    BY <1>2, <1>4 DEF RowsSame, Current
  <1>6. QED
    BY <1>2, <1>3, <1>4, <1>5 DEF Claims

\* Patching phase and evidence of a row keeps the rest of it.
LEMMA UpdatedSame ==
  ASSUME IInv, NEW t \in Task, NEW p \in Phase \cup {"none"}, NEW b \in BOOLEAN,
         exec' = Updated(t, p, b), \A g \in Gen : SameCall(g)
  PROVE  /\ RowsSame
         /\ \A u \in Task : exec'[u].phase = IF u = t THEN p ELSE exec[u].phase
  <1>1. TypeOK
    BY DEF IInv
  <1>2. QED
    BY <1>1, RowUpdated DEF RowsSame

\* What nobody touches is the same.
LEMMA SameRows == ASSUME exec' = exec, \A g \in Gen : SameCall(g) PROVE RowsSame
  BY DEF RowsSame

\* Steps that leave the executions, the coroutines and the runtimes alone.
LEMMA IdleQuiet == ASSUME IInv, UNCHANGED <<exec, call, runtime>> PROVE Quiet
  BY DEF Quiet, RowsSame, Claims, Live, Executing, Current

\* Steps on leases are quiet.
LEMMA LeaseQuiet == ASSUME IInv, LeaseStep PROVE Quiet
  BY IdleQuiet DEF LeaseStep, Acquire, Expire, Release, ReapExpired

\* Reconciliation moves no row to RUNNING.
LEMMA ReconciledQuiet ==
  ASSUME IInv, NEW A, exec' = Reconciled(A), UNCHANGED <<call, runtime>>
  PROVE  Quiet
  <1>1. TypeOK
    BY DEF IInv
  <1>2. ASSUME NEW t \in Task
        PROVE  /\ Reconciled(A)[t].gen = exec[t].gen /\ Reconciled(A)[t].ticket = exec[t].ticket
               /\ Reconciled(A)[t].server = exec[t].server
               /\ Reconciled(A)[t].phase = "RUNNING" => exec[t].phase = "RUNNING"
    BY <1>1, ReconciledRow
  <1>3. ASSUME NEW t \in Task PROVE Reconciled(A)[t].max = exec[t].max
    <2>1. exec[t] \in ExecRow
      BY <1>1 DEF TypeOK
    <2>2. QED
      BY <2>1 DEF Reconciled, ExecRow
  <1>4. RowsSame
    BY <1>2, <1>3 DEF RowsSame
  <1>5. ASSUME NEW g \in Gen, call[g].pc \in {"admitted", "invoking"}
        PROVE  exec'[call[g].task].phase = "RUNNING" => exec[call[g].task].phase = "RUNNING"
    <2>1. call[g].task \in Task
      BY <1>5, Known
    <2>2. QED
      BY <1>2, <2>1
  <1>6. QED
    BY <1>4, <1>5, QuietStep DEF Claims, Live, Executing

\* Setting two columns of a row, or two locals of a coroutine, leaves the others alone.
LEMMA TwoFields ==
  ASSUME TypeOK
  PROVE  /\ \A t \in Task, l \in Lease, b \in BOOLEAN :
               LET r == [exec[t] EXCEPT !.lease = l, !.stop = b]
               IN  /\ r.gen = exec[t].gen /\ r.ticket = exec[t].ticket
                   /\ r.max = exec[t].max /\ r.server = exec[t].server
                   /\ r.phase = exec[t].phase
         /\ \A g \in Gen, l \in Lease, p \in CallPc :
               LET r == [call[g] EXCEPT !.pc = p, !.lease = l]
               IN  r.task = call[g].task /\ r.server = call[g].server /\ r.pc = p
  <1>1. ASSUME NEW t \in Task, NEW l \in Lease, NEW b \in BOOLEAN
        PROVE  LET r == [exec[t] EXCEPT !.lease = l, !.stop = b]
               IN  /\ r.gen = exec[t].gen /\ r.ticket = exec[t].ticket
                   /\ r.max = exec[t].max /\ r.server = exec[t].server
                   /\ r.phase = exec[t].phase
    <2>1. exec[t] \in ExecRow
      BY DEF TypeOK
    <2>2. QED
      BY <2>1 DEF ExecRow
  <1>2. ASSUME NEW g \in Gen, NEW l \in Lease, NEW p \in CallPc
        PROVE  LET r == [call[g] EXCEPT !.pc = p, !.lease = l]
               IN  r.task = call[g].task /\ r.server = call[g].server /\ r.pc = p
    <2>1. call[g] \in CallRow
      BY DEF TypeOK
    <2>2. QED
      BY <2>1 DEF CallRow
  <1>3. QED
    BY <1>1, <1>2

\* Before admission and on the way out a coroutine claims nothing; an authorized one had its
\* claim since admission.
LEMMA PrelaunchQuiet ==
  ASSUME IInv, NEW g \in Gen,
         \/ LeaveQueue(g)
         \/ AbandonPrelaunch(g)
         \/ \E l \in Lease : AuthorizeAttempt(g, l)
         \/ AuthorizeRecovery(g)
  PROVE  Quiet
  <1> DEFINE t == call[g].task
  <1>1. TypeOK /\ t \in Task /\ exec[t].phase \in Phase \cup {"none"}
    <2>1. TypeOK
      BY DEF IInv
    <2>2. call[g].pc # "unused"
      BY DEF LeaveQueue, AbandonPrelaunch, AuthorizeAttempt, AuthorizeRecovery
    <2>3. t \in Task
      BY <2>2, Known
    <2>4. exec[t] \in ExecRow
      BY <2>1, <2>3 DEF TypeOK
    <2>5. QED
      BY <2>1, <2>3, <2>4 DEF ExecRow
  <1>2. runtime' = runtime
    BY DEF LeaveQueue, AbandonPrelaunch, AuthorizeAttempt, AuthorizeRecovery
  <1>3. /\ \A h \in Gen : SameCall(h)
        /\ \A h \in Gen : call'[h].pc \in {"admitted", "invoking"} =>
              call[h].pc \in {"admitted", "invoking"}
    <2>1. ASSUME NEW p \in CallPc, call' = [call EXCEPT ![g].pc = p],
                 p = "invoking" => call[g].pc = "admitted", p # "admitted"
          PROVE  <1>3!1 /\ <1>3!2
      BY <1>1, <2>1, CallMoved
    <2>2. ASSUME NEW l \in Lease, AuthorizeAttempt(g, l)
          PROVE  <1>3!1 /\ <1>3!2
      <3> DEFINE c == [call[g] EXCEPT !.pc = "invoking", !.lease = l]
      <3>1. call' = [call EXCEPT ![g] = c] /\ call[g].pc = "admitted"
        BY <2>2 DEF AuthorizeAttempt
      <3>2. c.task = call[g].task /\ c.server = call[g].server
        BY <1>1, TwoFields DEF CallPc
      <3> HIDE DEF c
      <3>3. QED
        BY <1>1, <3>1, <3>2 DEF TypeOK
    <2>3. QED
      BY <2>1, <2>2 DEF LeaveQueue, AbandonPrelaunch, AuthorizeRecovery, CallPc
  <1>4. /\ RowsSame
        /\ \A u \in Task : exec'[u].phase = "RUNNING" => exec[u].phase = "RUNNING"
    <2>1. CASE exec' = Updated(t, "STOPPED", TRUE)
      <3>1. "STOPPED" \in Phase \cup {"none"}
        BY DEF Phase
      <3> HIDE DEF t
      <3>2. QED
        BY <1>1, <1>3, <2>1, <3>1, UpdatedSame
    <2>2. CASE exec' = Updated(t, exec[t].phase, FALSE)
      <3>1. PICK p : p = exec[t].phase
        OBVIOUS
      <3> HIDE DEF t
      <3>2. RowsSame /\ \A u \in Task : exec'[u].phase = IF u = t THEN p ELSE exec[u].phase
        BY <1>1, <1>3, <2>2, <3>1, UpdatedSame
      <3>3. QED
        BY <3>1, <3>2
    <2>3. CASE exec' = exec
      BY <1>3, <2>3, SameRows
    <2>4. ASSUME NEW l \in Lease, AuthorizeAttempt(g, l)
          PROVE  <1>4!1 /\ <1>4!2
      <3> DEFINE r == [exec[t] EXCEPT !.lease = l, !.stop = FALSE]
      <3>1. exec' = [exec EXCEPT ![t] = r]
        BY <2>4 DEF AuthorizeAttempt
      <3>2. /\ r.gen = exec[t].gen /\ r.ticket = exec[t].ticket
            /\ r.max = exec[t].max /\ r.server = exec[t].server
            /\ r.phase = exec[t].phase
        BY <1>1, TwoFields
      <3> HIDE DEF r
      <3>3. QED
        BY <1>1, <1>3, <3>1, <3>2 DEF TypeOK, RowsSame
    <2>5. QED
      BY <2>1, <2>2, <2>3, <2>4 DEF LeaveQueue, AbandonPrelaunch, AuthorizeRecovery
  <1>5. \A h \in Gen : call[h].pc \in {"admitted", "invoking"} => call[h].task \in Task
    BY Known
  <1>6. QED
    BY <1>2, <1>3, <1>4, <1>5, QuietStep DEF Claims, Live, Executing

\* A step that patches at most one row, not to RUNNING, moves no coroutine to a place before a
\* launch and clears no runtime is quiet.
LEMMA PatchQuiet ==
  ASSUME IInv, NEW t \in Task, NEW p \in Phase \cup {"none"}, NEW b \in BOOLEAN,
         exec' = exec \/ exec' = Updated(t, p, b),
         p = "RUNNING" => exec[t].phase = "RUNNING",
         \A g \in Gen :
            /\ SameCall(g)
            /\ call'[g].pc \in {"admitted", "invoking"} => call[g].pc \in {"admitted", "invoking"}
            /\ Live(g)' => Live(g)
            /\ runtime'[g] = "none" => runtime[g] = "none"
  PROVE  Quiet
  <1>1. RowsSame /\ \A u \in Task : exec'[u].phase = "RUNNING" => exec[u].phase = "RUNNING"
    <2>1. CASE exec' = exec
      BY <2>1, SameRows
    <2>2. CASE exec' = Updated(t, p, b)
      BY <2>2, UpdatedSame
    <2>3. QED
      BY <2>1, <2>2
  <1>2. \A g \in Gen : call[g].pc \in {"admitted", "invoking"} => call[g].task \in Task
    BY Known
  <1>3. QED
    BY <1>1, <1>2, QuietStep DEF Claims

\* The report of a launch clears a runtime that had its claim; a runtime that goes on or ends
\* claims no more than before.
LEMMA RuntimeQuiet ==
  ASSUME IInv, RepairAgents = {}, NEW g \in Gen,
         AssertRunning(g) \/ ReportRunning(g) \/ Launch(g) \/ RuntimeExit(g)
  PROVE  Quiet
  <1>1. TypeOK /\ call[g].task \in Task
    <2>1. call[g].pc # "unused" \/ runtime[g] # "none"
      BY DEF AssertRunning, ReportRunning, Launch, RuntimeExit
    <2>2. QED
      BY <2>1, Known DEF IInv
  <1>2. CASE AssertRunning(g)
    <2>1. Claims(g) /\ \A h \in Gen : h # g => runtime'[h] = runtime[h]
      BY <1>1, <1>2 DEF AssertRunning, CallbackLegal, Claims, TypeOK
    <2>2. \A h \in Gen : Live(h)' => Claims(h)
      BY <2>1 DEF Claims, Live, Executing
    <2>3. \A h \in Gen : runtime'[h] = "none" => runtime[h] = "none"
      BY <1>1, <1>2 DEF AssertRunning, TypeOK
    <2>4. QED
      BY <1>2, <2>2, <2>3, QuietStep, SameRows DEF AssertRunning
  <1>3. CASE ReportRunning(g) \/ Launch(g) \/ RuntimeExit(g)
    <2>1. exec[call[g].task].phase \in Phase \cup {"none"}
      <3>1. exec[call[g].task] \in ExecRow
        BY <1>1 DEF TypeOK
      <3>2. QED
        BY <3>1 DEF ExecRow
    <2>2. exec' = exec \/ exec' = Updated(call[g].task, exec[call[g].task].phase, FALSE)
      BY <1>3 DEF ReportRunning, Launch, RuntimeExit
    <2>3. \A h \in Gen : /\ Live(h)' => Live(h)
                         /\ runtime'[h] = "none" => runtime[h] = "none"
      BY <1>1, <1>3 DEF ReportRunning, Launch, RuntimeExit, Live, Executing, TypeOK
    <2>4. call' = call
      BY <1>3 DEF ReportRunning, Launch, RuntimeExit
    <2>5. QED
      BY <1>1, <2>1, <2>2, <2>3, <2>4, PatchQuiet
  <1>4. QED
    BY <1>2, <1>3

\* Stop reports, and the two transactions that end an attempt.
LEMMA ReportQuiet ==
  ASSUME IInv, NEW g \in Gen,
         \/ ReadBeforeStopReport(g) \/ ReportStopped(g) \/ ReportUnconfirmed(g)
         \/ Commit(g) \/ CommitThrows(g)
  PROVE  Quiet
  <1> DEFINE t == call[g].task
             p == exec[t].phase
  <1>1. /\ TypeOK /\ t \in Task /\ p \in Phase \cup {"none"}
        /\ "STOPPED" \in Phase \cup {"none"} /\ call[g].stopped \in BOOLEAN
        /\ call[g].pc \in CallPc
    <2>1. TypeOK
      BY DEF IInv
    <2>2. call[g].pc # "unused" \/ call[g].saw # "none"
      BY DEF ReadBeforeStopReport, ReportStopped, ReportUnconfirmed, Commit, CommitThrows, Reporting
    <2>3. t \in Task
      BY <2>2, Known
    <2>4. exec[t] \in ExecRow /\ call[g] \in CallRow
      BY <2>1, <2>3 DEF TypeOK
    <2>5. QED
      BY <2>1, <2>3, <2>4 DEF ExecRow, CallRow, Phase
  <1>2. \/ exec' = exec
        \/ exec' = Updated(t, "STOPPED", TRUE)
        \/ exec' = Updated(t, p, TRUE)
        \/ exec' = Updated(t, p, FALSE)
    BY DEF ReadBeforeStopReport, ReportStopped, ReportUnconfirmed, Commit, CommitThrows
  <1>3. \A h \in Gen :
           /\ SameCall(h)
           /\ call'[h].pc \in {"admitted", "invoking"} => call[h].pc \in {"admitted", "invoking"}
    <2>1. CASE \E q \in Phase \cup {"none"} : call' = [call EXCEPT ![g].saw = q]
      BY <1>1, <2>1, CallSaw
    <2>2. CASE call' = Ended(g)
      <3>1. "done" \in CallPc /\ FALSE \in BOOLEAN
        BY DEF CallPc
      <3>2. /\ \A h \in Gen : SameCall(h)
            /\ \A h \in Gen : h # g => call'[h] = call[h]
            /\ call'[g].pc = "done"
        BY <1>1, <2>2, <3>1, CallConcluded DEF Ended
      <3>3. QED
        BY <3>2
    <2>3. CASE call' = call
      BY <2>3
    <2>4. QED
      BY <1>1, <2>1, <2>2, <2>3 DEF ReadBeforeStopReport, ReportStopped, ReportUnconfirmed, Commit, CommitThrows
  <1>4. \A h \in Gen : /\ Live(h)' => Live(h)
                       /\ runtime'[h] = "none" => runtime[h] = "none"
    BY <1>1 DEF ReadBeforeStopReport, ReportStopped, ReportUnconfirmed, Commit, CommitThrows,
       Live, Executing, TypeOK
  <1> HIDE DEF t, p
  <1>5. QED
    <2>1. CASE exec' = exec \/ exec' = Updated(t, "STOPPED", TRUE)
      BY <1>1, <1>3, <1>4, <2>1, PatchQuiet
    <2>2. CASE exec' = Updated(t, p, TRUE)
      BY <1>1, <1>3, <1>4, <2>2, PatchQuiet DEF p
    <2>3. CASE exec' = Updated(t, p, FALSE)
      BY <1>1, <1>3, <1>4, <2>3, PatchQuiet DEF p
    <2>4. QED
      BY <1>2, <2>1, <2>2, <2>3

\* The end of an invocation may set a row to RUNNING again, but its coroutine is past launching.
LEMMA SettleQuiet == ASSUME IInv, NEW g \in Gen, NEW b \in BOOLEAN, Settle(g, b) PROVE Quiet
  <1> DEFINE t == call[g].task
             p == IF b THEN "RUNNING" ELSE "QUARANTINED"
  <1>1. TypeOK /\ t \in Task /\ p \in Phase \cup {"none"} /\ call[g].pc = "invoking" /\ runtime' = runtime
    BY Known DEF IInv, Settle, Phase
  <1>2. CASE Current(g)
    <2>1. exec' = Updated(t, p, b) /\ call' = [call EXCEPT ![g].pc = "settled", ![g].stopped = b]
      BY <1>2 DEF Settle
    <2>2. /\ \A h \in Gen : SameCall(h)
          /\ \A h \in Gen : h # g => call'[h] = call[h]
          /\ call'[g].pc = "settled"
      <3>1. "settled" \in CallPc
        BY DEF CallPc
      <3>2. QED
        BY <1>1, <2>1, <3>1, CallConcluded
    <2>3. RowsSame /\ \A u \in Task : u # t => exec'[u].phase = exec[u].phase
      <3>1. /\ t \in Task /\ p \in Phase \cup {"none"} /\ exec' = Updated(t, p, b)
            /\ \A h \in Gen : SameCall(h)
        BY <1>1, <2>1, <2>2
      <3> HIDE DEF p, t
      <3>2. RowsSame /\ \A u \in Task : exec'[u].phase = IF u = t THEN p ELSE exec[u].phase
        BY <3>1, UpdatedSame
      <3>3. QED
        BY <3>2
    <2>4. ASSUME NEW h \in Gen, call'[h].pc \in {"admitted", "invoking"}
          PROVE  /\ call[h].pc \in {"admitted", "invoking"}
                 /\ Current(h) => call[h].task \in Task /\ call[h].task # t
      BY <1>2, <2>2, <2>4, Known DEF Current
    <2>5. \A h \in Gen : /\ Live(h)' => Claims(h)
                         /\ runtime'[h] = "none" => runtime[h] = "none"
      BY <1>1 DEF Claims, Live, Executing
    <2>6. QED
      BY <2>3, <2>4, <2>5, QuietStep
  <1>3. CASE ~Current(g)
    <2>1. call' = Ended(g) /\ exec' = exec
      BY <1>3 DEF Settle
    <2>2. "done" \in CallPc /\ FALSE \in BOOLEAN
      BY DEF CallPc
    <2>3. /\ \A h \in Gen : SameCall(h)
          /\ \A h \in Gen : h # g => call'[h] = call[h]
          /\ call'[g].pc = "done"
      BY <1>1, <2>1, <2>2, CallConcluded DEF Ended
    <2>4. RowsSame
      BY <2>1, <2>3, SameRows
    <2>5. \A h \in Gen : call'[h].pc \in {"admitted", "invoking"} =>
             call[h].pc \in {"admitted", "invoking"}
      BY <2>3
    <2>6. QED
      BY <1>1, <2>1, <2>4, <2>5, QuietStep DEF Claims, Live, Executing
  <1>4. QED
    BY <1>2, <1>3

\* Requests of other processes stop rows or quarantine them.
LEMMA OutsideQuiet == ASSUME IInv, OutsideStep PROVE Quiet
  <1>1. TypeOK
    BY DEF IInv
  <1>2. ASSUME NEW t \in Task, CancelTask(t) PROVE Quiet
    <2> DEFINE idle == exec[t].phase \in {"QUEUED", "STOPPED"}
               b == idle \/ exec[t].stop
               c == exec[t].phase # "STOPPED" \/ exec[t].cancel
               r == [exec[t] EXCEPT !.cancel = c, !.phase = IF idle THEN "STOPPED" ELSE exec[t].phase,
                                    !.stop = b]
    <2>1. exec[t] \in ExecRow
      BY <1>1 DEF TypeOK
    <2>2. exec' = [exec EXCEPT ![t] = r] /\ UNCHANGED <<call, runtime>>
      BY <1>2 DEF CancelTask
    <2>3. /\ r.gen = exec[t].gen /\ r.ticket = exec[t].ticket
          /\ r.max = exec[t].max /\ r.server = exec[t].server
          /\ r.phase = IF idle THEN "STOPPED" ELSE exec[t].phase
      BY <2>1 DEF ExecRow
    <2> HIDE DEF r
    <2>4. RowsSame /\ \A u \in Task : exec'[u].phase = "RUNNING" => exec[u].phase = "RUNNING"
      BY <1>1, <2>2, <2>3 DEF TypeOK, RowsSame
    <2>5. \A g \in Gen : call[g].pc \in {"admitted", "invoking"} => call[g].task \in Task
      BY Known
    <2>6. QED
      BY <2>2, <2>4, <2>5, QuietStep DEF Claims, Live, Executing
  <1>3. ASSUME NEW t \in Task, ShutdownCancel(t) PROVE Quiet
    <2> DEFINE r == [exec[t] EXCEPT !.cancel = TRUE]
    <2>1. exec[t] \in ExecRow
      BY <1>1 DEF TypeOK
    <2>2. exec' = [exec EXCEPT ![t] = r] /\ UNCHANGED <<call, runtime>>
      BY <1>3 DEF ShutdownCancel
    <2>3. /\ r.gen = exec[t].gen /\ r.ticket = exec[t].ticket
          /\ r.max = exec[t].max /\ r.server = exec[t].server
          /\ r.phase = exec[t].phase
      BY <2>1 DEF ExecRow
    <2> HIDE DEF r
    <2>4. RowsSame /\ \A u \in Task : exec'[u].phase = exec[u].phase
      BY <1>1, <2>2, <2>3 DEF TypeOK, RowsSame
    <2>5. \A g \in Gen : call[g].pc \in {"admitted", "invoking"} => call[g].task \in Task
      BY Known
    <2>6. QED
      BY <2>2, <2>4, <2>5, QuietStep DEF Claims, Live, Executing
  <1>4. ASSUME NEW t \in Task, ReclaimPrelaunch(t) \/ QuarantineUncertain(t) PROVE Quiet
    <2>1. exec[t].stop \in BOOLEAN
      <3>1. exec[t] \in ExecRow
        BY <1>1 DEF TypeOK
      <3>2. QED
        BY <3>1 DEF ExecRow
    <2>2. UNCHANGED <<call, runtime>>
      BY <1>4 DEF ReclaimPrelaunch, QuarantineUncertain
    <2>3. CASE exec' = Updated(t, "STOPPED", exec[t].stop)
      <3>1. "STOPPED" \in Phase \cup {"none"}
        BY DEF Phase
      <3>2. QED
        BY <2>1, <2>2, <2>3, <3>1, PatchQuiet DEF Live, Executing
    <2>4. CASE exec' = Updated(t, "QUARANTINED", FALSE)
      <3>1. "QUARANTINED" \in Phase \cup {"none"}
        BY DEF Phase
      <3>2. QED
        BY <2>2, <2>4, <3>1, PatchQuiet DEF Live, Executing
    <2>5. QED
      BY <1>4, <2>3, <2>4 DEF ReclaimPrelaunch, QuarantineUncertain
  <1>5. ASSUME NEW s \in Server, Crash(s) PROVE Quiet
    BY <1>5, IdleQuiet DEF Crash
  <1>6. QED
    BY <1>2, <1>3, <1>4, <1>5 DEF OutsideStep

-----------------------------------------------------------------------------
(* Admission, which alone adds a claim.                                    *)

\* A poll that admits generation g, on the rows E that it has just reconciled.
Admitting(g, E) ==
    LET t == call[g].task
    IN /\ t \in Task /\ Current(g) /\ Admits(E, t)
       /\ exec[t].phase = "QUEUED"
       /\ RowsSame /\ runtime' = runtime
       /\ \A u \in Task : /\ E[u].gen = exec[u].gen /\ E[u].max = exec[u].max
                          /\ E[u].phase # "none" => exec[u].phase # "none"
                          /\ u # t => exec'[u] = E[u]
       /\ \A h \in Gen : /\ Claims(h)' => Claims(h) \/ h = g
                         /\ Claims(h)' /\ h # g =>
                               E[call[h].task].phase \in {"RUNNING", "QUARANTINED"}

\* A poll is quiet, or admits its own generation: reconciliation leaves claimants their rows or
\* takes their claim.
LEMMA PollStep ==
  ASSUME IInv, NEW g \in Gen, PollAdmission(g)
  PROVE  Quiet \/ Admitting(g, Reconciled({AgentOf[call[g].task]}))
  <1> DEFINE t == call[g].task
             A == {AgentOf[t]}
             E == Reconciled(A)
  <1>1. /\ TypeOK /\ t \in Task /\ call[g].pc = "waiting" /\ Current(g) /\ runtime' = runtime
        /\ lease' = ReconciledLeases(A) /\ exec[t].gen = g
    BY Known DEF IInv, PollAdmission
  <1>2. CASE exec' = E /\ call' = call
    BY <1>1, <1>2, ReconciledQuiet
  <1>3. CASE /\ Admits(E, t) /\ exec' = [E EXCEPT ![t].phase = "RUNNING"]
             /\ call' = [call EXCEPT ![g].pc = "admitted"]
    <2>1. exec[t].phase = "QUEUED" /\ E[t] = exec[t]
      BY <1>1, <1>3, AdmittedQueued
    <2>2. ASSUME NEW u \in Task
          PROVE  /\ E[u].gen = exec[u].gen /\ E[u].ticket = exec[u].ticket /\ E[u].max = exec[u].max
                 /\ E[u].server = exec[u].server
                 /\ E[u].phase # "none" => exec[u].phase # "none"
                 /\ E[u].phase = "RUNNING" => exec[u].phase = "RUNNING"
      <3>1. exec[u] \in ExecRow
        BY <1>1 DEF TypeOK
      <3>2. E[u].max = exec[u].max
        BY <3>1 DEF Reconciled, ExecRow
      <3>3. TypeOK
        BY <1>1
      <3> HIDE DEF A
      <3>4. /\ E[u].gen = exec[u].gen /\ E[u].ticket = exec[u].ticket
            /\ E[u].server = exec[u].server
        BY <3>3, ReconciledRow
      <3>5. \/ E[u] = exec[u]
            \/ E[u].phase \in {"STOPPED", "QUARANTINED"} /\ exec[u].phase \in {"QUEUED", "RUNNING"}
        BY <3>3, ReconciledRow
      <3> HIDE DEF E
      <3>6. QED
        BY <3>2, <3>4, <3>5
    <2>3. E \in [Task -> ExecRow]
      BY <1>1, ReconciledRows
    <2> DEFINE r == [exec[t] EXCEPT !.phase = "RUNNING"]
    <2>4. /\ r.gen = exec[t].gen /\ r.ticket = exec[t].ticket
          /\ r.max = exec[t].max /\ r.server = exec[t].server
      <3>1. exec[t] \in ExecRow
        BY <1>1 DEF TypeOK
      <3>2. QED
        BY <3>1 DEF ExecRow
    <2>5. exec' = [E EXCEPT ![t] = r]
      BY <1>3, <2>1
    <2> HIDE DEF r, E
    <2>6. /\ \A u \in Task : u # t => exec'[u] = E[u]
          /\ exec'[t] = r
      BY <1>1, <2>3, <2>5
    <2>7. "admitted" \in CallPc
      BY DEF CallPc
    <2>8. /\ \A h \in Gen : SameCall(h)
          /\ \A h \in Gen : h # g => call'[h] = call[h]
      BY <1>1, <1>3, <2>7, CallMoved
    <2>9. RowsSame
      BY <2>2, <2>4, <2>6, <2>8 DEF RowsSame
    <2>10. ASSUME NEW h \in Gen, Claims(h)', h # g
           PROVE  Claims(h) /\ E[call[h].task].phase \in {"RUNNING", "QUARANTINED"}
      <3>1. CASE Live(h)
        <4>1. E[call[h].task].phase \in {"RUNNING", "QUARANTINED"}
          BY <1>1, <3>1, ReconciledFence DEF E
        <4>2. QED
          BY <3>1, <4>1 DEF Claims
      <3>2. CASE ~Live(h)
        <4>1. /\ call'[h].pc \in {"admitted", "invoking"} /\ runtime[h] = "none"
              /\ exec'[call'[h].task].gen = h /\ exec'[call'[h].task].phase = "RUNNING"
          BY <1>1, <2>10, <3>2 DEF Claims, Live, Executing, Current
        <4>2. call[h].pc \in {"admitted", "invoking"} /\ call[h].task \in Task
          BY <2>8, <2>10, <4>1, Known
        <4>3. exec[call[h].task].gen = h
          BY <2>8, <2>9, <4>1, <4>2 DEF RowsSame
        <4>4. call[h].task # t
          BY <1>1, <2>10, <4>3
        <4>5. E[call[h].task].phase = "RUNNING" /\ exec[call[h].task].phase = "RUNNING"
          BY <2>2, <2>6, <2>8, <4>1, <4>2, <4>4
        <4>6. QED
          BY <4>1, <4>2, <4>3, <4>5 DEF Claims, Current
      <3>3. QED
        BY <3>1, <3>2
    <2>11. QED
      BY <1>1, <1>3, <2>1, <2>2, <2>6, <2>9, <2>10 DEF Admitting, E
  <1>4. QED
    BY <1>2, <1>3 DEF PollAdmission

\* The rows counted against an agent's limit are finitely many: each names its own generation.
LEMMA RowsFinite ==
  ASSUME IInv, NEW S \in SUBSET {u \in Task : exec[u].phase # "none"}
  PROVE  IsFiniteSet(S)
  <1> DEFINE f == [u \in S |-> exec[u].gen]
  <1>1. ASSUME NEW u \in S PROVE u \in Task /\ exec[u].gen \in Gen /\ call[exec[u].gen].task = u
    <2>1. exec[u].gen # 0
      BY DEF IInv, RowsBound, NoExecRow
    <2>2. exec[u].gen \in Gen \cup {0}
      BY DEF IInv, TypeOK, ExecRow
    <2>3. QED
      BY <2>1, <2>2 DEF IInv, RowsBound
  <1>2. f \in Injection(S, Gen)
    BY <1>1 DEF Injection, IsInjective
  <1>3. IsFiniteSet(Gen)
    BY FS_Interval
  <1>4. QED
    BY <1>2, <1>3, FS_Injection

\* Any set of generations is finite.
LEMMA GensFinite == ASSUME NEW S \in SUBSET Gen PROVE IsFiniteSet(S) /\ Cardinality(S) \in Nat
  <1>1. IsFiniteSet(Gen)
    BY FS_Interval
  <1>2. IsFiniteSet(S)
    BY <1>1, FS_Subset
  <1>3. QED
    BY <1>2, FS_CardinalityType

\* The claimants of agent a after the step.
ClaimantsAfter(a) == {g \in Gen : Claims(g)' /\ AgentOf[call'[g].task] = a}

\* SlotsCounted', with the claimants after the step named.
LEMMA SlotsAfter ==
  ASSUME \A g \in Gen : Claims(g)' =>
            Cardinality(ClaimantsAfter(AgentOf[call'[g].task])) <= exec'[call'[g].task].max
  PROVE  SlotsCounted'
  BY DEF SlotsCounted, Claimants, ClaimantsAfter

\* No claimant of an agent joins: a claimant's limit holds as before.
LEMMA FewerClaimants ==
  ASSUME IInv, SlotsCounted, NEW g \in Gen, Claims(g),
         NEW a, a = AgentOf[call[g].task], ClaimantsAfter(a) \subseteq Claimants(a)
  PROVE  Cardinality(ClaimantsAfter(a)) <= exec[call[g].task].max
  <1>1. IsFiniteSet(Claimants(a)) /\ Cardinality(Claimants(a)) \in Nat
    BY GensFinite DEF Claimants
  <1>2. /\ Cardinality(ClaimantsAfter(a)) \in Nat
        /\ Cardinality(ClaimantsAfter(a)) <= Cardinality(Claimants(a))
    BY <1>1, FS_Subset, FS_CardinalityType
  <1>3. Cardinality(Claimants(a)) <= exec[call[g].task].max
    BY DEF SlotsCounted
  <1>4. exec[call[g].task].max \in Nat
    <2>1. exec[call[g].task] \in ExecRow
      BY ClaimFacts DEF IInv, TypeOK
    <2>2. QED
      BY <2>1 DEF ExecRow
  <1>5. QED
    BY <1>1, <1>2, <1>3, <1>4

\* Where claimants only leave, and keep their task and its limit, the limits stay respected.
LEMMA SlotsShrink ==
  ASSUME IInv, SlotsCounted,
         \A g \in Gen : Claims(g)' => /\ Claims(g) /\ call'[g].task = call[g].task
                                      /\ exec'[call[g].task].max = exec[call[g].task].max
  PROVE  SlotsCounted'
  <1>1. SUFFICES ASSUME NEW g \in Gen, Claims(g)'
                 PROVE  Cardinality(ClaimantsAfter(AgentOf[call'[g].task])) <= exec'[call'[g].task].max
    BY SlotsAfter
  <1>2. PICK a : a = AgentOf[call[g].task]
    OBVIOUS
  <1>3. Claims(g) /\ AgentOf[call'[g].task] = a /\ exec'[call'[g].task].max = exec[call[g].task].max
    BY <1>1, <1>2
  <1>4. ClaimantsAfter(a) \subseteq Claimants(a)
    BY DEF Claimants, ClaimantsAfter
  <1>5. Cardinality(ClaimantsAfter(a)) <= exec[call[g].task].max
    BY <1>2, <1>3, <1>4, FewerClaimants
  <1>6. QED
    BY <1>3, <1>5

\* An admission found fewer occupied rows than any row of its agent allows, and every other
\* claimant of that agent occupies one.
LEMMA AdmittingSlots ==
  ASSUME IInv, SlotsCounted, NEW g \in Gen, NEW E, E \in [Task -> ExecRow], Admitting(g, E)
  PROVE  SlotsCounted'
  <1>1. PICK t, a : t = call[g].task /\ a = AgentOf[t]
    OBVIOUS
  <1> DEFINE active == {u \in Task : AgentOf[u] = a /\ E[u].phase \notin {"none", "STOPPED"}}
             occupied == {u \in active : E[u].phase \in Occupying}
             others == ClaimantsAfter(a) \ {g}
             f == [h \in others |-> call[h].task]
  <1>2. /\ t \in Task /\ RowsSame /\ t \in active
        /\ \A u \in active : Cardinality(occupied) < E[u].max
        /\ \A h \in Gen : Claims(h)' => Claims(h) \/ h = g
    BY <1>1 DEF Admitting, Admits
  <1>3. ASSUME NEW h \in Gen, Claims(h)', h # g
        PROVE  /\ Claims(h) /\ call'[h].task = call[h].task /\ call[h].task \in Task
               /\ E[call[h].task].phase \in {"RUNNING", "QUARANTINED"}
               /\ exec[call[h].task].gen = h
    BY <1>3, ClaimFacts DEF Admitting, RowsSame
  <1>4. ASSUME NEW h \in others
        PROVE  h \in Gen /\ call[h].task \in occupied /\ exec[call[h].task].gen = h
    <2>1. h \in Gen /\ Claims(h)' /\ h # g /\ AgentOf[call'[h].task] = a
      BY <1>4 DEF ClaimantsAfter
    <2>2. /\ AgentOf[call[h].task] = a /\ call[h].task \in Task
          /\ E[call[h].task].phase \in {"RUNNING", "QUARANTINED"} /\ exec[call[h].task].gen = h
      BY <2>1, <1>3
    <2>3. QED
      BY <2>1, <2>2 DEF Occupying
  <1>5. IsFiniteSet(occupied)
    <2>1. occupied \subseteq {u \in Task : exec[u].phase # "none"}
      BY DEF Admitting, Occupying
    <2> HIDE DEF occupied
    <2>2. QED
      BY <2>1, RowsFinite
  <1>6. IsFiniteSet(others) /\ Cardinality(others) <= Cardinality(occupied)
    <2> HIDE DEF occupied, others
    <2>1. f \in Injection(others, occupied)
      BY <1>4 DEF Injection, IsInjective
    <2> HIDE DEF f
    <2>2. QED
      BY <1>5, <2>1, FS_Injection
  <1>7. /\ IsFiniteSet(ClaimantsAfter(a)) /\ Cardinality(ClaimantsAfter(a)) \in Nat
        /\ Cardinality(ClaimantsAfter(a)) <= Cardinality(others) + 1
        /\ Cardinality(others) \in Nat /\ Cardinality(occupied) \in Nat
    <2>1. IsFiniteSet(ClaimantsAfter(a))
      BY GensFinite DEF ClaimantsAfter
    <2>2. Cardinality(ClaimantsAfter(a)) \in Nat /\ Cardinality(others) \in Nat
          /\ Cardinality(occupied) \in Nat
      BY <1>5, <1>6, <2>1, FS_CardinalityType
    <2>3. Cardinality(others) = IF g \in ClaimantsAfter(a) THEN Cardinality(ClaimantsAfter(a)) - 1
                                ELSE Cardinality(ClaimantsAfter(a))
      BY <2>1, FS_RemoveElement
    <2>4. QED
      BY <2>1, <2>2, <2>3
  <1>8. SUFFICES ASSUME NEW h \in Gen, Claims(h)'
                 PROVE  Cardinality(ClaimantsAfter(AgentOf[call'[h].task])) <= exec'[call'[h].task].max
    BY SlotsAfter
  <1>9. call[h].task \in Task /\ call'[h].task = call[h].task
        /\ exec'[call[h].task].max = exec[call[h].task].max
    BY <1>1, <1>2, <1>3, <1>8 DEF RowsSame
  <1>10. CASE AgentOf[call[h].task] = a
    <2>1. call[h].task \in active
      <3>1. CASE h = g
        BY <1>1, <1>2, <3>1
      <3>2. CASE h # g
        BY <1>3, <1>8, <1>9, <1>10, <3>2
      <3>3. QED
        BY <3>1, <3>2
    <2>2. /\ exec[call[h].task].max = E[call[h].task].max
          /\ E[call[h].task].max \in Nat
      <3>1. E[call[h].task] \in ExecRow
        BY <1>9
      <3>2. QED
        BY <1>9, <3>1 DEF Admitting, ExecRow
    <2>3. Cardinality(occupied) < E[call[h].task].max
      BY <1>2, <2>1
    <2> HIDE DEF occupied, others
    <2>4. QED
      BY <1>6, <1>7, <1>9, <1>10, <2>2, <2>3
  <1>11. CASE AgentOf[call[h].task] # a
    <2>1. PICK b : b = AgentOf[call[h].task]
      OBVIOUS
    <2>2. h # g
      BY <1>1, <1>11
    <2>3. Claims(h)
      BY <2>2, <1>3, <1>8
    <2>4. ASSUME NEW k \in ClaimantsAfter(b) PROVE k \in Claimants(b)
      <3>1. k \in Gen /\ Claims(k)' /\ AgentOf[call'[k].task] = b
        BY <2>4 DEF ClaimantsAfter
      <3>2. call'[k].task = call[k].task
        BY <1>2, <3>1 DEF RowsSame
      <3>3. k # g
        BY <1>1, <1>11, <2>1, <3>1, <3>2
      <3>4. QED
        BY <1>3, <3>1, <3>2, <3>3 DEF Claimants
    <2>5. ClaimantsAfter(b) \subseteq Claimants(b)
      BY <2>4
    <2>6. Cardinality(ClaimantsAfter(b)) <= exec[call[h].task].max
      BY <2>1, <2>3, <2>5, FewerClaimants
    <2>7. QED
      BY <1>9, <2>1, <2>6
  <1>12. QED
    BY <1>10, <1>11

\* Queueing adds no claim, and its row is the last in line.
LEMMA QueuedLast ==
  ASSUME QInv, NEW t \in Task, NEW s \in Server, NEW m \in MaxConcurrency,
         NEW l \in Lease \cup {None}, Queues(t, s, m, l)
  PROVE  TicketsOrdered' /\ RowsManaged' /\ SlotsCounted'
  <1>1. /\ exec'[t].gen = nextGen /\ exec'[t].server = s
        /\ call'[nextGen].task = t /\ call'[nextGen].server = s /\ call'[nextGen].pc = "waiting"
        /\ nextGen \in Gen /\ runtime[nextGen] = "none" /\ runtime' = runtime
        /\ \A u \in Task : u # t => exec'[u] = exec[u]
        /\ \A g \in Gen : g # nextGen => call'[g] = call[g]
    BY QueuedFacts DEF QInv
  <1>2. \A u \in Task : exec[u].gen # 0 => exec[u].gen \in Gen /\ exec[u].gen < nextGen
    <2>1. \A u \in Task : exec[u].gen \in Gen \cup {0}
      BY DEF QInv, IInv, TypeOK, ExecRow
    <2>2. QED
      BY <2>1 DEF QInv, IInv, RowsBound
  <1>3. TicketsOrdered'
    <2>1. exec'[t].ticket = FreshTicket /\ \A u \in Task : exec[u].ticket < FreshTicket
      <3>1. exec \in [Task -> ExecRow]
        BY DEF QInv, IInv, TypeOK
      <3>2. exec'[t] = QueuedRow(s, m, l)
        BY <3>1 DEF Queues
      <3>3. QED
        BY <3>2, TicketFresh DEF QueuedRow, QInv
    <2>2. ASSUME NEW u \in Task, NEW v \in Task, exec'[u].gen # 0, exec'[u].gen < exec'[v].gen
          PROVE  exec'[u].ticket < exec'[v].ticket
      <3>1. u # t
        <4>1. SUFFICES ASSUME u = t PROVE FALSE
          OBVIOUS
        <4>2. exec'[v] = exec[v] /\ nextGen < exec[v].gen
          BY <1>1, <2>2, <4>1
        <4>3. QED
          BY <1>1, <1>2, <4>2
      <3>2. CASE v = t
        BY <1>1, <2>1, <3>1, <3>2
      <3>3. CASE v # t
        BY <1>1, <2>2, <3>1, <3>3 DEF QInv, TicketsOrdered
      <3>4. QED
        BY <3>2, <3>3
    <2>3. QED
      BY <2>2 DEF TicketsOrdered
  <1>4. RowsManaged'
    BY <1>1, <1>2 DEF QInv, RowsManaged
  <1>5. ASSUME NEW g \in Gen, Claims(g)'
        PROVE  /\ Claims(g) /\ call'[g].task = call[g].task
               /\ exec'[call[g].task].max = exec[call[g].task].max
    <2>1. g # nextGen
      BY <1>1, <1>5 DEF Claims, Live, Executing
    <2>2. call'[g] = call[g] /\ runtime'[g] = runtime[g]
      BY <1>1, <2>1
    <2>3. CASE Live(g)
      <3>1. Claims(g) /\ call[g].task \in Task /\ exec[call[g].task].phase \in {"RUNNING", "QUARANTINED"}
        BY <2>3, ClaimFacts DEF Claims, QInv
      <3>2. call[g].task # t
        BY <3>1 DEF Queues
      <3>3. QED
        BY <1>1, <2>2, <3>1, <3>2
    <2>4. CASE ~Live(g)
      <3>1. /\ call[g].pc \in {"admitted", "invoking"} /\ runtime[g] = "none"
            /\ exec'[call[g].task].gen = g /\ exec'[call[g].task].phase = "RUNNING"
        BY <1>5, <2>2, <2>4 DEF Claims, Live, Executing, Current
      <3>2. call[g].task \in Task
        BY <3>1, Known DEF QInv
      <3>3. call[g].task # t
        BY <1>1, <2>1, <3>1
      <3>4. exec'[call[g].task] = exec[call[g].task]
        BY <1>1, <3>2, <3>3
      <3>5. QED
        BY <2>2, <3>1, <3>4 DEF Claims, Current
    <2>5. QED
      BY <2>3, <2>4
  <1>6. SlotsCounted'
    BY <1>5, SlotsShrink DEF QInv
  <1>7. QED
    BY <1>3, <1>4, <1>6

\* A step that keeps the rows keeps their order and their managers.
LEMMA OrderKept ==
  ASSUME QInv, RowsSame
  PROVE  TicketsOrdered' /\ RowsManaged'
  <1>1. TicketsOrdered'
    BY DEF QInv, TicketsOrdered, RowsSame
  <1>2. \A t \in Task : exec[t].gen # 0 => exec[t].gen \in Gen
    BY DEF QInv, IInv, TypeOK, ExecRow
  <1>3. RowsManaged'
    BY <1>2 DEF QInv, RowsManaged, RowsSame
  <1>4. QED
    BY <1>1, <1>3

\* A quiet step keeps the limits.
LEMMA QuietKept ==
  ASSUME QInv, Quiet
  PROVE  TicketsOrdered' /\ RowsManaged' /\ SlotsCounted'
  <1>1. ASSUME NEW g \in Gen, Claims(g)'
        PROVE  /\ Claims(g) /\ call'[g].task = call[g].task
               /\ exec'[call[g].task].max = exec[call[g].task].max
    <2>1. Claims(g) /\ call[g].task \in Task
      BY <1>1, ClaimFacts DEF Quiet, QInv
    <2>2. QED
      BY <2>1 DEF Quiet, RowsSame
  <1>2. SlotsCounted'
    BY <1>1, SlotsShrink DEF QInv
  <1>3. QED
    BY <1>2, OrderKept DEF Quiet

\* A poll keeps them too.
LEMMA PollKept ==
  ASSUME QInv, NEW g \in Gen, PollAdmission(g)
  PROVE  TicketsOrdered' /\ RowsManaged' /\ SlotsCounted'
  <1>1. PICK E : E = Reconciled({AgentOf[call[g].task]})
    OBVIOUS
  <1>2. Quiet \/ Admitting(g, E)
    BY <1>1, PollStep DEF QInv
  <1>3. E \in [Task -> ExecRow]
    BY <1>1, ReconciledRows DEF QInv, IInv
  <1>4. CASE Admitting(g, E)
    <2>1. SlotsCounted'
      BY <1>3, <1>4, AdmittingSlots DEF QInv
    <2>2. RowsSame
      BY <1>4 DEF Admitting
    <2>3. QED
      BY <2>1, <2>2, OrderKept
  <1>5. QED
    BY <1>2, <1>4, QuietKept

\* Every step keeps the invariant.
LEMMA NextQueue == ASSUME QInv, RepairAgents = {}, [Next]_vars PROVE QInv'
  <1>1. IInv /\ IInv'
    BY NextInv DEF QInv
  <1> SUFFICES TicketsOrdered' /\ RowsManaged' /\ SlotsCounted'
    BY <1>1 DEF QInv
  <1>2. CASE UNCHANGED vars
    BY <1>1, <1>2, IdleQuiet, QuietKept DEF vars
  <1>3. CASE LeaseStep
    BY <1>1, <1>3, LeaseQuiet, QuietKept
  <1>4. CASE QueueStep
    <2>1. ASSUME NEW t \in Task, NEW s \in Server, NEW m \in MaxConcurrency, QueueAttempt(t, s, m)
          PROVE  TicketsOrdered' /\ RowsManaged' /\ SlotsCounted'
      <3>1. Queues(t, s, m, None)
        BY <2>1 DEF QueueAttempt, Queueable, Queues
      <3>2. QED
        BY <3>1, QueuedLast
    <2>2. ASSUME NEW t \in Task, NEW s \in Server, NEW m \in MaxConcurrency, NEW l \in Lease,
                 QueueRecovery(t, s, m, l)
          PROVE  TicketsOrdered' /\ RowsManaged' /\ SlotsCounted'
      <3>1. Queues(t, s, m, l)
        BY <2>2 DEF QueueRecovery, Queueable, Queues
      <3>2. QED
        BY <3>1, QueuedLast
    <2>3. CASE Reconcile
      BY <1>1, <2>3, ReconciledQuiet, QuietKept DEF Reconcile
    <2>4. QED
      BY <1>4, <2>1, <2>2, <2>3 DEF QueueStep
  <1>5. ASSUME NEW g \in Gen, PrelaunchStep(g)
        PROVE  TicketsOrdered' /\ RowsManaged' /\ SlotsCounted'
    BY <1>1, <1>5, PollKept, PrelaunchQuiet, QuietKept DEF PrelaunchStep
  <1>6. ASSUME NEW g \in Gen, RuntimeStep(g)
        PROVE  TicketsOrdered' /\ RowsManaged' /\ SlotsCounted'
    BY <1>1, <1>6, RuntimeQuiet, ReportQuiet, QuietKept DEF RuntimeStep
  <1>7. ASSUME NEW g \in Gen, EndStep(g)
        PROVE  TicketsOrdered' /\ RowsManaged' /\ SlotsCounted'
    BY <1>1, <1>7, SettleQuiet, ReportQuiet, QuietKept DEF EndStep
  <1>8. CASE OutsideStep
    BY <1>1, <1>8, OutsideQuiet, QuietKept
  <1>9. QED
    BY <1>2, <1>3, <1>4, <1>5, <1>6, <1>7, <1>8 DEF Next, Started

\* An empty database satisfies the invariant.
LEMMA InitQueue == Init => QInv
  <1> SUFFICES ASSUME Init PROVE QInv
    OBVIOUS
  <1>1. IInv
    BY InitInv
  <1>2. TicketsOrdered /\ RowsManaged
    BY DEF Init, NoExecRow, TicketsOrdered, RowsManaged
  <1>3. \A g \in Gen : ~Claims(g)
    BY DEF Init, NoCall, Claims, Live, Executing
  <1>4. SlotsCounted
    BY <1>3 DEF SlotsCounted
  <1>5. QED
    BY <1>1, <1>2, <1>4 DEF QInv

\* In every reachable state tickets follow the order in which executions were queued, a row names
\* the server that manages it, and whoever may execute is counted under every admitted limit.
THEOREM QueueInvariance == ASSUME RepairAgents = {} PROVE Spec => []QInv
  <1>1. Init => QInv
    BY InitQueue
  <1>2. QInv /\ [Next]_vars => QInv'
    BY NextQueue
  <1>3. QED
    BY <1>1, <1>2, PTL DEF Spec

\* The runtimes of one agent that execute are among its claimants: at no time are there more of
\* them than any of their rows allows, whichever managers have died or reported late.
THEOREM CapacityShared == ASSUME RepairAgents = {} PROVE Spec => []SharedCapacity
  <1>1. ASSUME QInv PROVE SharedCapacity
    <2>1. SUFFICES ASSUME NEW g \in Gen, Executing(g)
                   PROVE  Cardinality({h \in Gen : Executing(h) /\ AgentOf[call[h].task] = AgentOf[call[g].task]})
                             <= exec[call[g].task].max
      BY DEF SharedCapacity
    <2>2. PICK a : a = AgentOf[call[g].task]
      OBVIOUS
    <2> DEFINE S == {h \in Gen : Executing(h) /\ AgentOf[call[h].task] = a}
    <2>3. S \subseteq Claimants(a) /\ Claims(g)
      BY <2>1 DEF Claimants, Claims, Live
    <2>4. /\ IsFiniteSet(Claimants(a)) /\ Cardinality(Claimants(a)) \in Nat
          /\ IsFiniteSet(S) /\ Cardinality(S) \in Nat
      BY GensFinite DEF Claimants
    <2>5. Cardinality(S) <= Cardinality(Claimants(a))
      BY <2>3, <2>4, FS_Subset
    <2>6. Cardinality(Claimants(a)) <= exec[call[g].task].max
      BY <1>1, <2>2, <2>3 DEF QInv, SlotsCounted
    <2>7. exec[call[g].task].max \in Nat
      <3>1. exec[call[g].task] \in ExecRow
        BY <1>1, <2>3, ClaimFacts DEF QInv, IInv, TypeOK
      <3>2. QED
        BY <3>1 DEF ExecRow
    <2> HIDE DEF S
    <2>8. Cardinality(S) <= exec[call[g].task].max
      BY <2>4, <2>5, <2>6, <2>7
    <2>9. QED
      BY <2>2, <2>8 DEF S
  <1>2. Spec => []QInv
    BY QueueInvariance
  <1>3. QED
    BY <1>1, <1>2, PTL

-----------------------------------------------------------------------------
(* First come, first served.                                               *)

\* Only a poll moves a coroutine that waits to admission.
LEMMA AdmittedByPoll ==
  ASSUME IInv, [Next]_vars, NEW h \in Gen, call[h].pc = "waiting", call'[h].pc = "admitted"
  PROVE  PollAdmission(h)
  <1> SUFFICES ASSUME ~PollAdmission(h) PROVE call'[h].pc # "admitted"
    OBVIOUS
  <1>1. TypeOK
    BY DEF IInv
  <1>2. CASE call' = call
    BY <1>2
  <1>3. ASSUME NEW g \in Gen, NEW p \in CallPc \ {"admitted"},
               \/ call' = [call EXCEPT ![g].pc = p]
               \/ \E b \in BOOLEAN : call' = [call EXCEPT ![g].pc = p, ![g].stopped = b]
        PROVE  call'[h].pc # "admitted"
    BY <1>1, <1>3, CallMoved, CallConcluded
  <1>4. ASSUME NEW g \in Gen, NEW q \in Phase \cup {"none"}, call' = [call EXCEPT ![g].saw = q]
        PROVE  call'[h].pc # "admitted"
    BY <1>1, <1>4, CallSaw
  <1>5. CASE LeaseStep \/ OutsideStep \/ UNCHANGED vars \/ Reconcile
    BY <1>2, <1>5 DEF LeaseStep, OutsideStep, vars, Reconcile, Acquire, Expire, Release,
       ReapExpired, CancelTask, ShutdownCancel, ReclaimPrelaunch, QuarantineUncertain, Crash
  <1>6. ASSUME NEW t \in Task, NEW s \in Server, NEW m \in MaxConcurrency, NEW l \in Lease \cup {None},
               Queues(t, s, m, l)
        PROVE  call'[h].pc # "admitted"
    <2>1. call'[nextGen].pc = "waiting" /\ \A g \in Gen : g # nextGen => call'[g] = call[g]
      BY <1>6, QueuedFacts
    <2>2. QED
      BY <2>1
  <1>7. CASE QueueStep
    <2>1. ASSUME NEW t \in Task, NEW s \in Server, NEW m \in MaxConcurrency,
                 \/ QueueAttempt(t, s, m)
                 \/ \E l \in Lease : QueueRecovery(t, s, m, l)
          PROVE  \E l \in Lease \cup {None} : Queues(t, s, m, l)
      BY <2>1 DEF QueueAttempt, QueueRecovery, Queueable, Queues
    <2>2. QED
      BY <1>5, <1>6, <1>7, <2>1 DEF QueueStep
  <1>8. ASSUME NEW g \in Gen, PrelaunchStep(g) PROVE call'[h].pc # "admitted"
    <2>1. ASSUME PollAdmission(g) PROVE call'[h].pc # "admitted"
      <3>1. g # h
        BY <2>1
      <3>2. call' = call \/ call' = [call EXCEPT ![g].pc = "admitted"]
        BY <2>1 DEF PollAdmission
      <3>3. QED
        BY <1>1, <1>2, <3>1, <3>2, CallMoved DEF CallPc
    <2>2. ASSUME NEW l \in Lease, AuthorizeAttempt(g, l) PROVE call'[h].pc # "admitted"
      <3>1. PICK c : c = [call[g] EXCEPT !.pc = "invoking", !.lease = l]
        OBVIOUS
      <3>2. call' = [call EXCEPT ![g] = c] /\ call[g].pc = "admitted"
        BY <2>2, <3>1 DEF AuthorizeAttempt
      <3>3. g # h
        BY <3>2
      <3>4. QED
        BY <1>1, <3>2, <3>3 DEF TypeOK
    <2>3. "abandoning" \in CallPc \ {"admitted"} /\ "abandoned" \in CallPc \ {"admitted"}
          /\ "invoking" \in CallPc \ {"admitted"}
      BY DEF CallPc
    <2>4. QED
      BY <1>3, <1>8, <2>1, <2>2, <2>3 DEF PrelaunchStep, LeaveQueue, AbandonPrelaunch, AuthorizeRecovery
  <1>9. ASSUME NEW g \in Gen, RuntimeStep(g) PROVE call'[h].pc # "admitted"
    <2>1. \/ call' = call
          \/ call' = [call EXCEPT ![g].saw = "none"]
          \/ call' = [call EXCEPT ![g].saw = exec[call[g].task].phase] /\ call[g].pc # "unused"
      BY <1>9 DEF RuntimeStep, AssertRunning, ReportRunning, Launch, RuntimeExit,
         ReadBeforeStopReport, Reporting, ReportStopped, ReportUnconfirmed
    <2>2. CASE call[g].pc # "unused"
      <3>1. call[g].task \in Task
        BY <2>2, Known
      <3>2. exec[call[g].task] \in ExecRow
        BY <1>1, <3>1 DEF TypeOK
      <3>3. exec[call[g].task].phase \in Phase \cup {"none"}
        BY <3>2 DEF ExecRow
      <3>4. QED
        BY <1>2, <1>4, <2>1, <3>3
    <2>3. QED
      BY <1>2, <1>4, <2>1, <2>2
  <1>10. ASSUME NEW g \in Gen, EndStep(g) PROVE call'[h].pc # "admitted"
    <2>1. "settled" \in CallPc \ {"admitted"} /\ "done" \in CallPc \ {"admitted"}
      BY DEF CallPc
    <2>2. \E b \in BOOLEAN : \/ call' = [call EXCEPT ![g].pc = "settled", ![g].stopped = b]
                             \/ call' = [call EXCEPT ![g].pc = "done", ![g].stopped = b]
      BY <1>10 DEF EndStep, Settle, Commit, CommitThrows, Ended
    <2>3. QED
      BY <1>3, <2>1, <2>2
  <1>11. QED
    BY <1>5, <1>7, <1>8, <1>9, <1>10 DEF Next, Started

\* A poll that admits found its row first in line: whoever was queued earlier, is not cancelled
\* and is still managed would be counted, with a smaller ticket.
LEMMA AdmittedInOrder ==
  ASSUME QInv, NEW g \in Gen, NEW h \in Gen, g < h, InLine(g), InLine(h),
         AgentOf[call[g].task] = AgentOf[call[h].task], PollAdmission(h)
  PROVE  call'[h].pc # "admitted"
  <1>1. PICK t, u, a, A, E : /\ t = call[g].task /\ u = call[h].task /\ a = AgentOf[u]
                             /\ A = {a} /\ E = Reconciled(A)
    OBVIOUS
  <1>2. /\ t \in Task /\ u \in Task /\ AgentOf[t] = a
        /\ exec[t].gen = g /\ exec[u].gen = h
        /\ exec[t].phase = "QUEUED" /\ ~exec[t].cancel
        /\ up[exec[t].server] /\ TypeOK
    <2>1. t \in Task /\ u \in Task
      BY <1>1, Known DEF InLine, QInv
    <2>2. exec[t].gen = g /\ exec[u].gen = h /\ exec[t].phase = "QUEUED" /\ ~exec[t].cancel
          /\ up[call[g].server]
      BY <1>1 DEF InLine, Current
    <2>3. exec[t].server = call[g].server
      BY <2>1, <2>2 DEF QInv, RowsManaged
    <2>4. QED
      BY <1>1, <2>1, <2>2, <2>3 DEF QInv, IInv
  <1>3. E[t] = exec[t]
    <2>1. t \notin Orphans(A)
      BY <1>2 DEF Orphans
    <2>2. Reconciled(A)[t] = exec[t]
      BY <1>2, <2>1, ReconciledRow
    <2>3. QED
      BY <1>1, <2>2
  <1>4. E[u].ticket = exec[u].ticket
    <2>1. TypeOK /\ u \in Task
      BY <1>2
    <2>2. Reconciled(A)[u].ticket = exec[u].ticket
      BY <2>1, ReconciledRow
    <2>3. QED
      BY <1>1, <2>2
  <1>5. exec[t].ticket < exec[u].ticket
    BY <1>2 DEF QInv, TicketsOrdered
  <1>6. exec[t].ticket \in Nat /\ exec[u].ticket \in Nat
    BY <1>2 DEF TypeOK, ExecRow
  <1>7. ~Admits(E, u)
    <2>1. SUFFICES ASSUME Admits(E, u) PROVE FALSE
      OBVIOUS
    <2>2. t \in {v \in {w \in Task : AgentOf[w] = AgentOf[u] /\ E[w].phase \notin {"none", "STOPPED"}} :
                    E[v].phase = "QUEUED" /\ ~E[v].cancel}
      BY <1>1, <1>2, <1>3
    <2>3. E[u].ticket <= E[t].ticket
      BY <2>1, <2>2 DEF Admits
    <2>4. QED
      BY <1>3, <1>4, <1>5, <1>6, <2>3
  <1>8. call' = call
    BY <1>1, <1>7 DEF PollAdmission
  <1>9. QED
    BY <1>8 DEF InLine

\* Admission is first come, first served across the processes, whatever crashes, cancellations
\* and reconciliations come between.
THEOREM FirstComeFirstServed == ASSUME RepairAgents = {} PROVE Spec => NoOvertaking
  <1> DEFINE A == \A g, h \in Gen :
                     /\ g < h /\ InLine(g) /\ InLine(h)
                     /\ AgentOf[call[g].task] = AgentOf[call[h].task]
                     => call'[h].pc # "admitted"
  <1>1. ASSUME QInv, [Next]_vars PROVE A
    <2>1. SUFFICES ASSUME NEW g \in Gen, NEW h \in Gen, g < h, InLine(g), InLine(h),
                          AgentOf[call[g].task] = AgentOf[call[h].task], call'[h].pc = "admitted"
                   PROVE  FALSE
      OBVIOUS
    <2>2. PollAdmission(h)
      BY <1>1, <2>1, AdmittedByPoll DEF QInv, InLine
    <2>3. QED
      BY <1>1, <2>1, <2>2, AdmittedInOrder
  <1>2. Spec => []QInv
    BY QueueInvariance
  <1>3. QInv /\ [Next]_vars => [A]_vars
    BY <1>1
  <1> HIDE DEF A
  <1>4. Spec => [][A]_vars
    BY <1>2, <1>3, PTL DEF Spec
  <1>5. QED
    BY <1>4 DEF NoOvertaking, A

HIDE DEF SameCall
-----------------------------------------------------------------------------
(***************************************************************************)
(* ScopeFence implements ScopeLock: a lease identity is granted once, only *)
(* when it is compatible with all that is granted, and never comes back.   *)
(*                                                                         *)
(* Three actions of ScopeFence grant a lease, and each maps to Give: that  *)
(* the grant is compatible is LeasesExclusive after the step, part of      *)
(* IInv.  Every other step maps to the end of the leases that it makes     *)
(* unwritable, which may be none: no step but a grant makes a lease        *)
(* writable, because a runtime is cleared only inside a lease that is      *)
(* writable already.                                                       *)
(***************************************************************************)

\* What the abstract lock sees of lease l.
Seen(l) ==
    IF Writable(l)
    THEN [phase |-> "granted", task |-> lease[l].task, holder |-> lease[l].holder,
          scope |-> lease[l].scope]
    ELSE [phase |-> IF lease[l].state = "none" THEN "unused" ELSE "over",
          task |-> None, holder |-> None, scope |-> None]

\* A step that grants nothing.
GrantsNothing == LeaseShrinks /\ \A l \in Lease : Writable(l)' => Writable(l)

\* A writable lease exists.
LEMMA WritableExists ==
  ASSUME IInv, NEW l \in Lease, Writable(l)
  PROVE  lease[l].state # "none" /\ lease[l].task \in Task /\ lease[l].holder \in Agent
         /\ lease[l].scope \in Scope
  <1>1. lease[l].state # "none"
    BY WritableLive DEF IsLive
  <1>2. QED
    BY <1>1 DEF IInv, LeasesBound

\* A step that grants nothing ends the leases it makes unwritable.
LEMMA EndsSome == ASSUME IInv, GrantsNothing PROVE Lock!Next
  <1> DEFINE L == {l \in Lease : Writable(l) /\ ~Writable(l)'}
             over == [phase |-> "over", task |-> None, holder |-> None, scope |-> None]
  <1>1. ASSUME NEW l \in Lease PROVE Seen(l)' = IF l \in L THEN over ELSE Seen(l)
    <2>1. /\ lease'[l].task = lease[l].task /\ lease'[l].holder = lease[l].holder
          /\ lease'[l].scope = lease[l].scope
          /\ lease'[l].state = "none" <=> lease[l].state = "none"
          /\ Writable(l)' => Writable(l)
          /\ Writable(l) => lease[l].state # "none"
      BY WritableExists DEF GrantsNothing, LeaseShrinks
    <2>2. QED
      BY <2>1 DEF Seen
  <1>2. [l \in Lease |-> Seen(l)'] = [l \in Lease |-> IF l \in L THEN over ELSE Seen(l)]
    BY <1>1
  <1>3. \A l \in L : Seen(l).phase = "granted"
    BY DEF Seen
  <1>4. QED
    BY <1>2, <1>3 DEF Lock!Next, Lock!End, Lock!NoGrant, Seen

\* A step that grants lease l, and makes nothing else writable or unwritable, gives it.
LEMMA GivesOne ==
  ASSUME IInv, IInv', NEW l \in Lease, NEW a \in Agent, NEW t \in Task, NEW s \in Scope,
         Grants(l, s, a, t),
         \A g \in Gen : Live(g)' <=> Live(g),
         \A g \in Gen : Live(g) => call'[g].lease = call[g].lease
  PROVE  Lock!Next
  <1> DEFINE r == [phase |-> "granted", task |-> t, holder |-> a, scope |-> s]
  <1>1. /\ lease'[l].state = "HELD" /\ lease'[l].task = t /\ lease'[l].holder = a
        /\ lease'[l].scope = s
        /\ \A k \in Lease : k # l => lease'[k] = lease[k]
    BY LeaseGranted
  <1>2. Writable(l)' /\ Seen(l)' = r
    BY <1>1 DEF Writable, Seen
  <1>3. ~Writable(l) /\ Seen(l).phase = "unused"
    <2>1. lease[l].state = "none"
      BY DEF Grants
    <2>2. ~Writable(l)
      BY <2>1, WritableExists
    <2>3. QED
      BY <2>1, <2>2 DEF Seen
  <1>4. ASSUME NEW k \in Lease, k # l PROVE (Writable(k)' <=> Writable(k)) /\ Seen(k)' = Seen(k)
    <2>1. Writable(k)' <=> Writable(k)
      BY <1>1, <1>4 DEF Writable
    <2>2. QED
      BY <1>1, <1>4, <2>1 DEF Seen
  <1>5. ASSUME NEW k \in Lease, Seen(k).phase = "granted"
        PROVE  (t = Seen(k).task /\ a = Seen(k).holder) \/ <<s, Seen(k).scope>> \notin Overlap
    <2>1. k # l /\ Writable(k)
      BY <1>3, <1>5 DEF Seen
    <2>2. Writable(k)' /\ lease'[k] = lease[k]
      BY <1>1, <1>4, <2>1
    <2>3. \/ lease'[l].holder = lease'[k].holder /\ lease'[l].task = lease'[k].task
          \/ <<lease'[l].scope, lease'[k].scope>> \notin Overlap
      BY <1>2, <2>1, <2>2 DEF IInv, LeasesExclusive, SameIdentity, Conflicting
    <2>4. QED
      BY <1>1, <2>1, <2>2, <2>3 DEF Seen
  <1>6. [k \in Lease |-> Seen(k)'] = [[k \in Lease |-> Seen(k)] EXCEPT ![l] = r]
    BY <1>2, <1>4
  <1>7. r \in Lock!Grant
    BY DEF Lock!Grant
  <1>8. QED
    BY <1>3, <1>5, <1>6, <1>7 DEF Lock!Next, Lock!Give, Lock!Compatible, Seen

-----------------------------------------------------------------------------
(* The steps that grant nothing.                                           *)

\* Coroutines of cleared generations keep their lease, and nobody is cleared but inside a lease
\* that is held.
Within ==
    \A g \in Gen : Live(g)' =>
        /\ call'[g].lease = call[g].lease
        /\ Live(g) \/ lease[call[g].lease].state = "HELD"

\* A step within a lease's promises, after which leases are no more than they were, grants nothing.
LEMMA WithinHeld == ASSUME LeaseShrinks, Within PROVE GrantsNothing
  <1>1. ASSUME NEW l \in Lease, Writable(l)' PROVE Writable(l)
    <2>1. CASE lease'[l].state = "HELD"
      BY <2>1 DEF LeaseShrinks, Writable
    <2>2. CASE \E g \in Gen : call'[g].lease = l /\ Live(g)'
      BY <2>2 DEF Within, Writable
    <2>3. QED
      BY <1>1, <2>1, <2>2 DEF Writable
  <1>2. QED
    BY <1>1 DEF GrantsNothing

\* Where coroutines and runtimes stay, only leases move.
LEMMA WorldSame == ASSUME call' = call, runtime' = runtime PROVE Within
  BY DEF Within, Live, Executing

\* Leases that nobody touches.
LEMMA LeasesSame == ASSUME IInv, lease' = lease PROVE LeaseShrinks
  BY DEF IInv, TypeOK, LeaseShrinks

\* The lease of a row that was ever queued exists once it is bound.
LEMMA RowLease ==
  ASSUME IInv, NEW t \in Task, exec[t].phase # "none"
  PROVE  exec[t].lease \in Lease \cup {None}
         /\ (exec[t].lease # None => lease[exec[t].lease].state # "none")
  <1>1. exec[t].gen # 0
    BY DEF IInv, RowsBound, NoExecRow
  <1>2. exec[t] \in ExecRow
    BY DEF IInv, TypeOK
  <1>3. exec[t].gen \in Gen /\ exec[t].lease \in Lease \cup {None}
    BY <1>1, <1>2 DEF ExecRow
  <1>4. exec[t].lease = call[exec[t].gen].lease
    BY <1>1 DEF IInv, RowsBound
  <1>5. QED
    BY <1>3, <1>4 DEF IInv, CallsBound

\* Leases that end, lapse or are reaped.
LEMMA LeaseEnds ==
  ASSUME IInv, ReapExpired \/ \E l \in Lease : Expire(l) \/ Release(l)
  PROVE  GrantsNothing
  <1>1. LeaseShrinks
    BY ReapedLeases, LeaseMoved DEF Expire, Release, Held, IInv
  <1>2. Within
    BY WorldSame DEF Expire, Release, ReapExpired
  <1>3. QED
    BY <1>1, <1>2, WithinHeld

\* The steps of a manager before the launch, but for the grant.
LEMMA PrelaunchEnds ==
  ASSUME IInv, NEW g \in Gen,
         PollAdmission(g) \/ LeaveQueue(g) \/ AbandonPrelaunch(g) \/ AuthorizeRecovery(g)
  PROVE  GrantsNothing
  <1>1. /\ TypeOK /\ call[g].lease \in Lease \cup {None}
        /\ call[g].lease # None => lease[call[g].lease].state # "none"
    BY Known DEF IInv, PollAdmission, LeaveQueue, AbandonPrelaunch, AuthorizeRecovery
  <1>2. LeaseShrinks
    <2>1. \/ lease' = lease \/ lease' = GivenBack(call[g].lease)
          \/ \E A : lease' = ReconciledLeases(A)
      BY DEF PollAdmission, LeaveQueue, AbandonPrelaunch, AuthorizeRecovery
    <2>2. QED
      BY <1>1, <2>1, LeasesSame, GivenBackMoves, ReconciledLeaseRows
  <1>3. \A h \in Gen : call'[h].lease = call[h].lease
    <2>1. call' = call \/ \E p \in CallPc : call' = [call EXCEPT ![g].pc = p]
      BY DEF PollAdmission, LeaveQueue, AbandonPrelaunch, AuthorizeRecovery, CallPc
    <2>2. QED
      BY <1>1, <2>1, CallMoved
  <1>4. Within
    BY <1>3 DEF Within, Live, Executing, PollAdmission, LeaveQueue, AbandonPrelaunch, AuthorizeRecovery
  <1>5. QED
    BY <1>2, <1>4, WithinHeld

\* A runtime is cleared inside a held lease, and then launched, ended and reported.
LEMMA RuntimeEnds == ASSUME IInv, NEW g \in Gen, RuntimeStep(g) PROVE GrantsNothing
  <1>1. TypeOK /\ call[g].task \in Task /\ call[g].lease \in Lease \cup {None}
        /\ (Current(g) => exec[call[g].task].lease = call[g].lease)
        /\ (call[g].lease # None => lease[call[g].lease].state # "none")
    <2>1. call[g].pc # "unused" \/ runtime[g] # "none" \/ call[g].saw # "none"
      BY DEF RuntimeStep, AssertRunning, ReportRunning, Launch, RuntimeExit,
         ReadBeforeStopReport, Reporting, ReportStopped, ReportUnconfirmed
    <2>2. QED
      BY <2>1, Known DEF IInv
  <1>2. LeaseShrinks
    <2>1. lease' = lease \/ lease' = Confirmed(call[g].lease)
      BY <1>1 DEF RuntimeStep, AssertRunning, ReportRunning, Launch, RuntimeExit,
         ReadBeforeStopReport, ReportStopped, ReportUnconfirmed
    <2>2. QED
      BY <1>1, <2>1, LeasesSame, GivenBackMoves
  <1>3. \A h \in Gen : call'[h].lease = call[h].lease
    <2>1. exec[call[g].task].phase \in Phase \cup {"none"}
      <3>1. exec[call[g].task] \in ExecRow
        BY <1>1 DEF TypeOK
      <3>2. QED
        BY <3>1 DEF ExecRow
    <2>2. call' = call \/ \E q \in Phase \cup {"none"} : call' = [call EXCEPT ![g].saw = q]
      BY <2>1 DEF RuntimeStep, AssertRunning, ReportRunning, Launch, RuntimeExit,
         ReadBeforeStopReport, ReportStopped, ReportUnconfirmed
    <2>3. QED
      BY <1>1, <2>2, CallSaw
  <1>4. ASSUME NEW h \in Gen, Live(h)', ~Live(h) PROVE lease[call[h].lease].state = "HELD"
    <2>1. AssertRunning(g) /\ h = g
      BY <1>1, <1>4 DEF RuntimeStep, AssertRunning, ReportRunning, Launch, RuntimeExit,
         ReadBeforeStopReport, ReportStopped, ReportUnconfirmed, Live, Executing, TypeOK
    <2>2. QED
      BY <1>1, <2>1 DEF AssertRunning, CallbackLegal
  <1>5. Within
    BY <1>3, <1>4 DEF Within
  <1>6. QED
    BY <1>2, <1>5, WithinHeld

\* The end of an attempt.
LEMMA AttemptEnds == ASSUME IInv, NEW g \in Gen, EndStep(g) PROVE GrantsNothing
  <1>1. TypeOK /\ call[g].lease \in Lease /\ lease[call[g].lease].state # "none"
    <2>1. call[g].pc \in {"invoking", "settled"}
      BY DEF EndStep, Settle, Commit, CommitThrows
    <2>2. QED
      BY <2>1, Known DEF IInv, CallsOrdered, CallOrdered
  <1>2. LeaseShrinks
    <2>1. \/ lease' = lease \/ lease' = GivenBack(call[g].lease)
          \/ lease' = WithState(call[g].lease, "QUARANTINED")
      BY DEF EndStep, Settle, Commit, CommitThrows
    <2>2. QED
      BY <1>1, <2>1, LeasesSame, GivenBackMoves, StateShrinks
  <1>3. \A h \in Gen : call'[h].lease = call[h].lease
    <2>1. \E b \in BOOLEAN, p \in CallPc : call' = [call EXCEPT ![g].pc = p, ![g].stopped = b]
      BY DEF EndStep, Settle, Commit, CommitThrows, Ended, CallPc
    <2>2. QED
      BY <1>1, <2>1, CallConcluded
  <1>4. Within
    BY <1>3 DEF Within, Live, Executing, EndStep, Settle, Commit, CommitThrows
  <1>5. QED
    BY <1>2, <1>4, WithinHeld

\* Requests of other processes, and crashes.
LEMMA OutsideEnds == ASSUME IInv, OutsideStep PROVE GrantsNothing
  <1>1. call' = call /\ runtime' = runtime
    BY DEF OutsideStep, CancelTask, ShutdownCancel, ReclaimPrelaunch, QuarantineUncertain, Crash
  <1>2. LeaseShrinks
    <2>1. CASE lease' = lease
      BY <2>1, LeasesSame
    <2>2. ASSUME NEW t \in Task, exec[t].phase # "none",
                 \/ lease' = GivenBack(exec[t].lease)
                 \/ exec[t].lease # None /\ lease' = WithState(exec[t].lease, "QUARANTINED")
          PROVE  LeaseShrinks
      <3>1. exec[t].lease \in Lease \cup {None}
            /\ (exec[t].lease # None => lease[exec[t].lease].state # "none")
        BY <2>2, RowLease
      <3>2. QED
        BY <2>2, <3>1, GivenBackMoves, StateShrinks DEF IInv
    <2>3. QED
      BY <2>1, <2>2 DEF OutsideStep, CancelTask, ShutdownCancel, ReclaimPrelaunch,
         QuarantineUncertain, Crash
  <1>3. QED
    BY <1>1, <1>2, WorldSame, WithinHeld

-----------------------------------------------------------------------------
(* The steps that grant, and the theorem.                                  *)

\* An attempt's lease is granted to a coroutine whose runtime is not cleared.
LEMMA AttemptGives ==
  ASSUME IInv, IInv', NEW g \in Gen, NEW l \in Lease, AuthorizeAttempt(g, l)
  PROVE  Lock!Next
  <1>1. PICK t, a, s : t = call[g].task /\ a = AgentOf[t] /\ s = ScopeOf[t]
    OBVIOUS
  <1>2. /\ call[g].pc = "admitted" /\ runtime' = runtime
        /\ Grants(l, s, a, t)
    BY <1>1 DEF AuthorizeAttempt, Grants
  <1>3. t \in Task /\ a \in Agent /\ s \in Scope /\ ~Live(g) /\ TypeOK
    BY <1>1, <1>2, Known DEF IInv, CallsOrdered, CallOrdered, Live, Executing
  <1>4. \A h \in Gen : h # g => call'[h] = call[h]
    <2>1. PICK c : c = [call[g] EXCEPT !.pc = "invoking", !.lease = l]
      OBVIOUS
    <2>2. call' = [call EXCEPT ![g] = c]
      BY <2>1 DEF AuthorizeAttempt
    <2>3. QED
      BY <1>3, <2>2 DEF TypeOK
  <1>5. \A h \in Gen : Live(h)' <=> Live(h)
    BY <1>2 DEF Live, Executing
  <1>6. \A h \in Gen : Live(h) => call'[h].lease = call[h].lease
    BY <1>3, <1>4
  <1>7. QED
    BY <1>2, <1>3, <1>5, <1>6, GivesOne

\* A lease taken by hand, and the one a recovery reserves.
LEMMA ReservationGives ==
  ASSUME IInv, IInv', NEW l \in Lease, NEW a \in Agent, NEW t \in Task, NEW s \in Scope,
         \/ Acquire(a, t, s, l)
         \/ /\ a = AgentOf[t] /\ s = ScopeOf[t]
            /\ \E r \in Server, m \in MaxConcurrency : QueueRecovery(t, r, m, l)
  PROVE  Lock!Next
  <1>1. Grants(l, s, a, t) /\ runtime' = runtime
    BY DEF Acquire, QueueRecovery, Grants
  <1>2. \A g \in Gen : Live(g)' <=> Live(g)
    BY <1>1 DEF Live, Executing
  <1>3. \A g \in Gen : Live(g) => call'[g].lease = call[g].lease
    <2>1. CASE Acquire(a, t, s, l)
      BY <2>1 DEF Acquire
    <2>2. ASSUME NEW r \in Server, NEW m \in MaxConcurrency, QueueRecovery(t, r, m, l)
          PROVE  \A g \in Gen : Live(g) => call'[g].lease = call[g].lease
      <3>1. Queues(t, r, m, l)
        BY <2>2 DEF QueueRecovery, Queueable, Queues
      <3>2. QED
        BY <1>2, <3>1, QueuedFrame
    <2>3. QED
      BY <2>1, <2>2
  <1>4. QED
    BY <1>1, <1>2, <1>3, GivesOne

\* Queueing an attempt grants nothing yet.
LEMMA QueueEnds ==
  ASSUME IInv, NEW t \in Task, NEW s \in Server, NEW m \in MaxConcurrency, QueueAttempt(t, s, m)
  PROVE  GrantsNothing
  <1>1. Queues(t, s, m, None) /\ lease' = lease
    BY DEF QueueAttempt, Queueable, Queues
  <1>2. Within
    BY <1>1, QueuedFrame DEF Within
  <1>3. QED
    BY <1>1, <1>2, LeasesSame, WithinHeld

\* Every step is a step of the lock.
LEMMA LockStep == ASSUME IInv, IInv', [Next]_vars PROVE Lock!Next
  <1>1. CASE UNCHANGED vars
    BY <1>1, LeasesSame, WorldSame, WithinHeld, EndsSome DEF vars
  <1>2. CASE LeaseStep
    BY <1>2, LeaseEnds, EndsSome, ReservationGives DEF LeaseStep
  <1>3. CASE QueueStep
    <2>1. ASSUME NEW t \in Task, NEW s \in Server, NEW m \in MaxConcurrency, NEW l \in Lease,
                 QueueRecovery(t, s, m, l)
          PROVE  Lock!Next
      BY <2>1, ReservationGives
    <2>2. CASE Reconcile
      <3>1. LeaseShrinks
        BY <2>2, ReconciledLeaseRows DEF Reconcile, IInv
      <3>2. Within
        BY <2>2, WorldSame DEF Reconcile
      <3>3. QED
        BY <3>1, <3>2, WithinHeld, EndsSome
    <2>3. QED
      BY <1>3, <2>1, <2>2, QueueEnds, EndsSome DEF QueueStep
  <1>4. ASSUME NEW g \in Gen, PrelaunchStep(g) \/ RuntimeStep(g) \/ EndStep(g) PROVE Lock!Next
    BY <1>4, PrelaunchEnds, RuntimeEnds, AttemptEnds, EndsSome, AttemptGives DEF PrelaunchStep
  <1>5. CASE OutsideStep
    BY <1>5, OutsideEnds, EndsSome
  <1>6. QED
    BY <1>1, <1>2, <1>3, <1>4, <1>5 DEF Next, Started

\* Leases are the lock they promise to be: what may write now was granted once, disjoint from all
\* others, and what has lapsed, ended or lost its runtime never writes again.
THEOREM LockImplemented == ASSUME RepairAgents = {} PROVE Spec => ImplementsScopeLock
  <1>1. Init => Lock!Init
    BY DEF Init, NoLeaseRow, Writable, Live, Executing, Lock!Init, Lock!NoGrant
  <1>2. IInv /\ IInv' /\ [Next]_vars => Lock!Next
    BY LockStep
  <1>3. Spec => []IInv
    BY Invariance
  <1>4. QED
    BY <1>1, <1>2, <1>3, PTL DEF Spec, ImplementsScopeLock, Lock!Spec
=============================================================================
