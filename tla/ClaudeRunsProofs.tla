-------------------------- MODULE ClaudeRunsProofs --------------------------
(***************************************************************************)
(* Proofs about the Claude adapter.  IInv is inductive: the types, who     *)
(* holds and who waits for a slot (Slots), what is known of one run at     *)
(* each of its steps (Run), and the two properties that are needed to      *)
(* preserve themselves.                                                    *)
(***************************************************************************)
EXTENDS ClaudeRuns, FiniteSetTheorems, FunctionTheorems, SequenceTheorems, TLAPS

Labels == {"idle", "queued", "notAdmitted", "admitted", "preflight", "cleared", "spawned",
           "draining", "returned", "done"}

\* The labels of an invocation that has not started a process.
Unborn == {"idle", "queued", "notAdmitted", "admitted", "preflight", "cleared"}

Holders == {i \in Invs : Holding(i)}

Types ==
    /\ disposal \in {"no", "cancelling", "done", "failed"}
    /\ uncertainStops \in SUBSET Tasks
    /\ invocations \in [Tasks -> Invs \cup {None}]
    /\ active \in 0..Limit
    /\ pending \in Seq(Invs) /\ Len(pending) <= MaxPending
    /\ pc \in [Invs -> Labels]
    /\ aborted \in SUBSET Invs /\ expired \in SUBSET Invs
    /\ cancelling \in [Invs -> {"no", "racing", "uncertain"}]
    /\ report \in [Invs -> {"none", "running", "stopped", "unconfirmed"}]
    /\ outcome \in [Invs -> {"none", "rejected", "fulfilled", "error", "blocker", "uncertain",
                             "ok", "noResult"}]
    /\ termination \in [Invs -> {"none", "CANCELLED", "TIMEOUT", "FAILED", "COMPLETED"}]
    /\ proc \in [Invs -> {"none", "live", "orphans", "gone"}]
    /\ tree \in [Invs -> {"idle", "checking", "true", "false"}]
    /\ closed \in SUBSET Invs /\ stopping \in SUBSET Invs
    /\ killedForCancel \in SUBSET Invs /\ killedForDeadline \in SUBSET Invs
    /\ wrote \in [Invs -> 0..Frames] /\ handled \in [Invs -> 0..Frames]
    /\ \A i \in Invs : handled[i] <= wrote[i]

\* Who holds a slot is counted, who waits for one is queued once.
Slots ==
    /\ IsFiniteSet(Holders) /\ active = Cardinality(Holders)
    /\ pending # <<>> => active = Limit
    /\ {i \in Invs : pc[i] = "queued"} = Waiting
    /\ \A m, n \in DOMAIN pending : pending[m] = pending[n] => m = n

\* What is known of one invocation.
Run(i) ==
    /\ Entered(i) <=> pc[i] \notin {"idle", "done"}
    /\ pc[i] \in Unborn => proc[i] = "none"
    /\ tree[i] = "true" => proc[i] = "gone"
    /\ pc[i] = "draining" => proc[i] = "gone"
    /\ pc[i] = "cleared" => report[i] # "stopped"
    /\ report[i] = "stopped" => ~Alive(i)
    /\ pc[i] = "returned" /\ Alive(i) => outcome[i] = "uncertain"
    /\ pc[i] = "done" /\ Alive(i) =>
          TaskOf[i] \in uncertainStops /\ invocations[TaskOf[i]] = None
    /\ i \in stopping => i \in killedForCancel \cup killedForDeadline
    /\ disposal = "cancelling" /\ Entered(i) => cancelling[i] \in {"racing", "uncertain"}
    /\ disposal = "done" => ~Entered(i)

\* What its outcome says of it when its runner has returned (OutcomeMatchesRun, of one).
Told(i) ==
    pc[i] = "returned" =>
        /\ outcome[i] = "noResult" => wrote[i] < Frames
        /\ outcome[i] = "ok" => /\ ~Alive(i) /\ wrote[i] = Frames
                                /\ termination[i] = "COMPLETED"
                                /\ i \notin stopping

IInv == /\ Types /\ Slots
        /\ \A i \in Invs : Run(i) /\ Told(i)
        /\ OneRuntimePerTask
-----------------------------------------------------------------------------
(* The queue of waiters.                                                   *)

\* A cancelled or late waiter leaves the queue (acquireSlot): nobody else does, and nobody is
\* queued twice.
LEMMA LeaveKeeps ==
    ASSUME NEW S, Leave(S), pending \in Seq(Invs),
           \A m, n \in DOMAIN pending : pending[m] = pending[n] => m = n
    PROVE  /\ pending' \in Seq(Invs) /\ Len(pending') <= Len(pending)
           /\ Waiting' = Waiting \ S
           /\ pending' # <<>> => pending # <<>>
           /\ \A m, n \in DOMAIN pending' : pending'[m] = pending'[n] => m = n
<1> DEFINE stay == {k \in DOMAIN pending : pending[k] \notin S}
<1> DEFINE n == Cardinality(stay)
<1>1. PICK kept \in [1..n -> stay] :
         /\ \A a, b \in DOMAIN kept : a < b => kept[a] < kept[b]
         /\ pending' = [k \in DOMAIN kept |-> pending[kept[k]]]
  BY DEF Leave
<1>2. /\ DOMAIN pending = 1..Len(pending) /\ Len(pending) \in Nat
      /\ stay \in SUBSET (1..Len(pending))
      /\ \A k \in DOMAIN pending : pending[k] \in Invs
  BY LenProperties, ElementOfSeq
<1>3. /\ IsFiniteSet(1..Len(pending)) /\ Cardinality(1..Len(pending)) = Len(pending)
  <2>1. 1 \in Int /\ Len(pending) \in Int /\ (1 > Len(pending) => Len(pending) = 0)
    BY <1>2
  <2>2. /\ IsFiniteSet(1..Len(pending))
        /\ Cardinality(1..Len(pending)) = IF 1 > Len(pending) THEN 0 ELSE Len(pending) - 1 + 1
    BY <2>1, FS_Interval
  <2> QED BY <1>2, <2>1, <2>2
<1>4. IsFiniteSet(stay) /\ n <= Len(pending)
  BY <1>2, <1>3, FS_Subset
<1>5. n \in Nat
  BY <1>4, FS_CardinalityType
<1> HIDE DEF n
<1>6. \A a, b \in 1..n : kept[a] = kept[b] => a = b
  <2> SUFFICES ASSUME NEW a \in 1..n, NEW b \in 1..n, kept[a] = kept[b], a # b  PROVE FALSE
    OBVIOUS
  <2>1. a < b \/ b < a
    BY <1>5
  <2>2. kept[a] \in Nat /\ kept[b] \in Nat
    BY <1>1, <1>2
  <2>3. kept[a] < kept[b] \/ kept[b] < kept[a]
    BY <1>1, <2>1
  <2> QED BY <2>2, <2>3
<1>7. kept \in Injection(1..n, stay)
  BY <1>1, <1>6, Fun_IsInj
<1>8. Cardinality(1..n) = n
  BY <1>5, FS_Interval
<1>9. \A k \in stay : \E a \in 1..n : kept[a] = k
  <2>1. kept \in Surjection(1..n, stay)
    BY <1>4, <1>7, <1>8, FS_Injection DEF n
  <2> QED BY <2>1 DEF Surjection
<1>10. DOMAIN kept = 1..n /\ \A a \in 1..n : kept[a] \in stay
  BY <1>1
<1>11. pending' = [k \in 1..n |-> pending[kept[k]]]
  BY <1>1, <1>10
<1>12. pending' \in [1..n -> Invs]
  BY <1>2, <1>10, <1>11
<1>13. pending' \in Seq(Invs) /\ Len(pending') = n /\ DOMAIN pending' = 1..n
  BY <1>5, <1>12
<1>14. Waiting' = Waiting \ S
  <2>1. \A x \in Waiting' : x \in Waiting \ S
    BY <1>10, <1>11, <1>13 DEF Waiting
  <2>2. \A x \in Waiting \ S : x \in Waiting'
    <3> SUFFICES ASSUME NEW x \in Waiting \ S  PROVE x \in Waiting'
      OBVIOUS
    <3>1. PICK k \in stay : x = pending[k]
      BY DEF Waiting
    <3>2. PICK a \in 1..n : kept[a] = k
      BY <1>9
    <3> QED BY <1>11, <1>13, <3>1, <3>2 DEF Waiting
  <2> QED BY <2>1, <2>2
<1>15. pending' # <<>> => pending # <<>>
  BY <1>2, <1>4, <1>13
<1>16. \A a, b \in DOMAIN pending' : pending'[a] = pending'[b] => a = b
  BY <1>2, <1>6, <1>10, <1>11, <1>13
<1> QED BY <1>4, <1>13, <1>14, <1>15, <1>16

\* The callback of a slot (Hand) gives it to the next waiter or frees it: no slot is lost or
\* given twice.
LEMMA HandKeeps ==
    ASSUME Types, Slots, NEW i \in Invs, Holding(i), Hand(i)
    PROVE  /\ active' \in 0..Limit /\ pending' \in Seq(Invs) /\ Len(pending') <= MaxPending
           /\ pc' \in [Invs -> Labels] /\ pc'[i] = "done"
           /\ \A j \in Invs : j # i => \/ pc'[j] = pc[j]
                                       \/ pc[j] = "queued" /\ pc'[j] = "admitted"
           /\ Slots'
<1> DEFINE Queued == {j \in Invs : pc[j] = "queued"}
<1>1. /\ pc \in [Invs -> Labels] /\ active \in 0..Limit /\ pending \in Seq(Invs)
      /\ IsFiniteSet(Holders) /\ active = Cardinality(Holders)
      /\ pending # <<>> => active = Limit
      /\ Queued = Waiting
      /\ \A m, n \in DOMAIN pending : pending[m] = pending[n] => m = n
      /\ Len(pending) <= MaxPending /\ Len(pending) \in Nat /\ DOMAIN pending = 1..Len(pending)
      /\ i \in Holders /\ pc[i] # "queued"
  BY DEF Types, Slots, Holders, Holding
<1>2. /\ IsFiniteSet(Holders \ {i}) /\ Cardinality(Holders \ {i}) = active - 1
  BY <1>1, FS_RemoveElement
<1>3. active - 1 \in Nat
  BY <1>2, FS_CardinalityType
<1>4. CASE pending = <<>>
  <2>1. /\ active' = active - 1 /\ pending' = pending /\ pc' = [pc EXCEPT ![i] = "done"]
    BY <1>4 DEF Hand
  <2>2. Holders' = Holders \ {i}
    BY <1>1, <2>1 DEF Holders, Holding
  <2>3. Queued' = Queued /\ Waiting' = Waiting
    BY <1>1, <2>1 DEF Waiting
  <2>4. Slots'
    BY <1>1, <1>2, <1>4, <2>1, <2>2, <2>3 DEF Slots
  <2>5. active' \in 0..Limit
    BY <1>1, <1>3, <2>1, ClaudeAssumption
  <2>6. /\ pc' \in [Invs -> Labels] /\ pc'[i] = "done" /\ \A j \in Invs : j # i => pc'[j] = pc[j]
    BY <1>1, <2>1 DEF Labels
  <2> QED BY <1>1, <2>1, <2>4, <2>5, <2>6
<1>5. CASE pending # <<>>
  <2> DEFINE next == Head(pending)
  <2>1. /\ active' = active /\ pending' = Tail(pending)
        /\ pc' = [pc EXCEPT ![i] = "done", ![next] = "admitted"]
    BY <1>5 DEF Hand
  <2>2. /\ next \in Invs /\ Tail(pending) \in Seq(Invs) /\ Len(Tail(pending)) = Len(pending) - 1
        /\ \A k \in 1..Len(Tail(pending)) : Tail(pending)[k] = pending[k + 1]
        /\ next = pending[1] /\ 1 \in DOMAIN pending
    BY <1>1, <1>5, HeadTailProperties
  <2>3. /\ DOMAIN pending' = 1..(Len(pending) - 1) /\ Len(pending) \in Nat \ {0}
        /\ \A k \in DOMAIN pending' : pending'[k] = pending[k + 1] /\ k + 1 \in DOMAIN pending
    BY <1>1, <2>1, <2>2
  <2>4. next \in Queued /\ next # i /\ next \notin Holders
    BY <1>1, <2>2 DEF Waiting, Holders, Holding
  <2>5. /\ pc' \in [Invs -> Labels] /\ pc'[i] = "done" /\ pc'[next] = "admitted"
        /\ \A j \in Invs : j # i /\ j # next => pc'[j] = pc[j]
    BY <1>1, <2>1, <2>2, <2>4 DEF Labels
  <2>6. Holders' = (Holders \ {i}) \cup {next}
    BY <2>2, <2>4, <2>5 DEF Holders, Holding
  <2>7. /\ IsFiniteSet(Holders') /\ Cardinality(Holders') = active - 1 + 1
    BY <1>2, <2>4, <2>6, FS_AddElement
  <2>8. Queued' = Queued \ {next}
    BY <1>1, <2>2, <2>4, <2>5
  <2>9. Waiting' = Waiting \ {next}
    <3>1. \A x \in Waiting' : x \in Waiting /\ x # next
      BY <1>1, <2>2, <2>3 DEF Waiting
    <3>2. \A x \in Waiting : x # next => x \in Waiting'
      <4> SUFFICES ASSUME NEW k \in DOMAIN pending, pending[k] # next  PROVE pending[k] \in Waiting'
        BY DEF Waiting
      <4>1. k # 1 /\ k - 1 \in DOMAIN pending' /\ pending'[k - 1] = pending[k]
        BY <1>1, <2>2, <2>3
      <4> QED BY <4>1 DEF Waiting
    <3> QED BY <3>1, <3>2
  <2>10. \A m, n \in DOMAIN pending' : pending'[m] = pending'[n] => m = n
    BY <1>1, <2>3
  <2>11. Slots'
    BY <1>1, <1>5, <2>1, <2>7, <2>8, <2>9, <2>10 DEF Slots
  <2>12. Len(pending') <= MaxPending
    BY <1>1, <2>1, <2>2, ClaudeAssumption
  <2>13. \A j \in Invs : j # i => \/ pc'[j] = pc[j]
                                  \/ pc[j] = "queued" /\ pc'[j] = "admitted"
    BY <2>4, <2>5
  <2> QED BY <1>1, <2>1, <2>2, <2>5, <2>11, <2>12, <2>13
<1> QED BY <1>4, <1>5

\* Everyone who is neither of the queue nor of the slots moves freely.
LEMMA SlotsUntouched ==
    ASSUME Slots, UNCHANGED <<active, pending>>, Holders' = Holders,
           {j \in Invs : pc'[j] = "queued"} = {j \in Invs : pc[j] = "queued"}
    PROVE  Slots'
  BY DEF Slots, Waiting

-----------------------------------------------------------------------------
(* What the helpers of the actions do.                                     *)

\* A report (reportRuntimeState) is of one invocation, and only a stop lifts an uncertainty.
LEMMA SayDoes ==
    ASSUME Types, NEW i \in Invs, NEW state \in {"running", "stopped", "unconfirmed"},
           Say(i, state)
    PROVE  /\ report' \in [Invs -> {"none", "running", "stopped", "unconfirmed"}]
           /\ report'[i] = state
           /\ \A j \in Invs : j # i => report'[j] = report[j]
           /\ uncertainStops' \in SUBSET Tasks
           /\ \A t \in Tasks : t # TaskOf[i] /\ t \in uncertainStops => t \in uncertainStops'
           /\ state # "stopped" => uncertainStops' = uncertainStops
  BY DEF Types, Say

\* The step and the outcome of one invocation are set.
LEMMA GotoDoes ==
    ASSUME Types, NEW i \in Invs, NEW l \in Labels, Goto(i, l)
    PROVE  /\ pc' \in [Invs -> Labels] /\ pc'[i] = l
           /\ \A j \in Invs : j # i => pc'[j] = pc[j]
  BY DEF Types, Goto

\* An invocation ends with an outcome.
LEMMA EndDoes ==
    ASSUME Types, NEW i \in Invs,
           NEW o \in {"rejected", "fulfilled", "error", "blocker", "uncertain", "ok", "noResult"},
           End(i, o)
    PROVE  /\ outcome' \in [Invs -> {"none", "rejected", "fulfilled", "error", "blocker",
                                     "uncertain", "ok", "noResult"}]
           /\ outcome'[i] = o
           /\ \A j \in Invs : j # i => outcome'[j] = outcome[j]
  BY DEF Types, End

\* When an invocation settles, its entry and what only it knew are gone.
LEMMA SettleDoes ==
    ASSUME Types, NEW i \in Invs, Settle(i)
    PROVE  /\ invocations' \in [Tasks -> Invs \cup {None}] /\ invocations'[TaskOf[i]] = None
           /\ \A t \in Tasks : t # TaskOf[i] => invocations'[t] = invocations[t]
           /\ aborted' \in SUBSET Invs /\ expired' \in SUBSET Invs
           /\ closed' \in SUBSET Invs /\ stopping' = stopping \ {i}
           /\ killedForCancel' = killedForCancel \ {i}
           /\ killedForDeadline' = killedForDeadline \ {i}
           /\ tree' \in [Invs -> {"idle", "checking", "true", "false"}] /\ tree'[i] = "idle"
           /\ termination' \in [Invs -> {"none", "CANCELLED", "TIMEOUT", "FAILED", "COMPLETED"}]
           /\ wrote' \in [Invs -> 0..Frames] /\ handled' \in [Invs -> 0..Frames]
           /\ wrote'[i] = 0 /\ handled'[i] = 0
           /\ \A j \in Invs : j # i => /\ tree'[j] = tree[j] /\ termination'[j] = termination[j]
                                       /\ wrote'[j] = wrote[j] /\ handled'[j] = handled[j]
<1>1. /\ invocations' \in [Tasks -> Invs \cup {None}] /\ invocations'[TaskOf[i]] = None
      /\ \A t \in Tasks : t # TaskOf[i] => invocations'[t] = invocations[t]
  BY ClaudeAssumption DEF Types, Settle
<1>2. /\ aborted' \in SUBSET Invs /\ expired' \in SUBSET Invs
      /\ closed' \in SUBSET Invs /\ stopping' = stopping \ {i}
      /\ killedForCancel' = killedForCancel \ {i}
      /\ killedForDeadline' = killedForDeadline \ {i}
  BY DEF Types, Settle
<1>3. 0 \in 0..Frames
  BY ClaudeAssumption
<1>4. /\ tree' \in [Invs -> {"idle", "checking", "true", "false"}] /\ tree'[i] = "idle"
      /\ termination' \in [Invs -> {"none", "CANCELLED", "TIMEOUT", "FAILED", "COMPLETED"}]
      /\ \A j \in Invs : j # i => tree'[j] = tree[j] /\ termination'[j] = termination[j]
  BY DEF Types, Settle
<1>5. /\ wrote' \in [Invs -> 0..Frames] /\ handled' \in [Invs -> 0..Frames]
      /\ wrote'[i] = 0 /\ handled'[i] = 0
      /\ \A j \in Invs : j # i => wrote'[j] = wrote[j] /\ handled'[j] = handled[j]
  BY <1>3 DEF Types, Settle
<1> QED BY <1>1, <1>2, <1>4, <1>5

\* An abort ends the wait for a slot and stops what runs: nothing else moves.
LEMMA AbortDoes ==
    ASSUME Types, Slots, NEW S \in SUBSET Invs, AbortEffect(S)
    PROVE  /\ aborted' = aborted \cup S /\ aborted' \in SUBSET Invs
           /\ pc' = [j \in Invs |-> IF j \in S /\ pc[j] = "queued" THEN "notAdmitted" ELSE pc[j]]
           /\ pc' \in [Invs -> Labels]
           /\ killedForCancel' = killedForCancel \cup {j \in S : pc[j] = "spawned"}
           /\ stopping' = stopping \cup {j \in S : pc[j] = "spawned"}
           /\ tree' \in [Invs -> {"idle", "checking", "true", "false"}]
           /\ \A j \in Invs : tree'[j] = tree[j] \/ tree'[j] = "checking"
           /\ pending' \in Seq(Invs) /\ Len(pending') <= MaxPending
           /\ active' = active => Slots'
<1>1. Leave(S)
  BY DEF AbortEffect
<1>2. /\ pending \in Seq(Invs) /\ Len(pending) <= MaxPending /\ Len(pending) \in Nat
      /\ \A m, n \in DOMAIN pending : pending[m] = pending[n] => m = n
  BY DEF Types, Slots
<1>3. /\ pending' \in Seq(Invs) /\ Len(pending') <= Len(pending)
      /\ Waiting' = Waiting \ S
      /\ pending' # <<>> => pending # <<>>
      /\ \A m, n \in DOMAIN pending' : pending'[m] = pending'[n] => m = n
  BY <1>1, <1>2, LeaveKeeps
<1>4. Len(pending') <= MaxPending
  BY <1>2, <1>3, LenProperties, ClaudeAssumption
<1>5. /\ pc' = [j \in Invs |-> IF j \in S /\ pc[j] = "queued" THEN "notAdmitted" ELSE pc[j]]
      /\ pc \in [Invs -> Labels]
  BY DEF AbortEffect, Types
<1>6. pc' \in [Invs -> Labels]
  BY <1>5 DEF Labels
<1>7. /\ aborted' = aborted \cup S /\ aborted' \in SUBSET Invs
      /\ killedForCancel' = killedForCancel \cup {j \in S : pc[j] = "spawned"}
      /\ stopping' = stopping \cup {j \in S : pc[j] = "spawned"}
      /\ tree' \in [Invs -> {"idle", "checking", "true", "false"}]
      /\ \A j \in Invs : tree'[j] = tree[j] \/ tree'[j] = "checking"
  BY DEF AbortEffect, StopEffect, Types
<1>8. ASSUME active' = active  PROVE Slots'
  <2>1. Holders' = Holders
    BY <1>5 DEF Holders, Holding
  <2>2. {j \in Invs : pc'[j] = "queued"} = {j \in Invs : pc[j] = "queued"} \ S
    BY <1>5
  <2> QED BY <1>3, <1>8, <2>1, <2>2 DEF Slots
<1> QED BY <1>3, <1>4, <1>5, <1>6, <1>7, <1>8
-----------------------------------------------------------------------------
(* What a step of one invocation leaves true of the others.                *)

Untouched(j) ==
    /\ proc'[j] = proc[j] /\ tree'[j] = tree[j] /\ report'[j] = report[j]
    /\ outcome'[j] = outcome[j] /\ cancelling'[j] = cancelling[j]
    /\ termination'[j] = termination[j] /\ wrote'[j] = wrote[j]
    /\ j \in stopping' => j \in stopping
    /\ j \in killedForCancel \cup killedForDeadline =>
          j \in killedForCancel' \cup killedForDeadline'

\* The entry of the acting invocation is its own: nothing that is known of an abandoned process
\* of the same task can be lifted by it.
LEMMA OthersKeep ==
    ASSUME IInv, NEW i \in Invs, Entered(i), NEW j \in Invs, j # i, Untouched(j),
           disposal' = disposal,
           pc'[j] = pc[j] \/ (pc[j] = "queued" /\ pc'[j] = "admitted"),
           \A t \in Tasks : t # TaskOf[i] =>
               /\ invocations'[t] = invocations[t]
               /\ t \in uncertainStops => t \in uncertainStops',
           invocations'[TaskOf[i]] \in {i, None}
    PROVE  Run(j)' /\ Told(j)'
<1>1. /\ Run(j) /\ Told(j) /\ TaskOf[i] \in Tasks /\ TaskOf[j] \in Tasks /\ None # i /\ None # j
      /\ invocations[TaskOf[i]] = i
  BY ClaudeAssumption DEF IInv, Entered
<1>2. Entered(j)' <=> Entered(j)
  BY <1>1 DEF Entered
<1>3. Alive(j)' <=> Alive(j)
  BY DEF Alive, Untouched
<1>4. pc[j] = "done" /\ Alive(j) => TaskOf[j] # TaskOf[i]
  BY <1>1 DEF Run
<1>5. Told(j)'
  BY <1>1, <1>3 DEF Told, Untouched
<1>6. Run(j)'
  BY <1>1, <1>2, <1>3, <1>4 DEF Run, Untouched, Unborn
<1> QED BY <1>5, <1>6

\* Only a spawn makes a process alive.
LEMMA AliveShrinks ==
    ASSUME OneRuntimePerTask, \A j \in Invs : Alive(j)' => Alive(j)
    PROVE  OneRuntimePerTask'
  BY DEF OneRuntimePerTask
-----------------------------------------------------------------------------
(* The steps.                                                              *)

\* What every step of an invocation may use.
LEMMA Facts ==
    ASSUME IInv, NEW i \in Invs
    PROVE  /\ Types /\ Slots /\ Run(i) /\ Told(i) /\ OneRuntimePerTask
           /\ TaskOf[i] \in Tasks /\ None # i
           /\ pc[i] \notin {"idle", "done"} => Entered(i) /\ invocations[TaskOf[i]] = i
  BY ClaudeAssumption DEF IInv, Run, Entered

\* The parts of the invariant, put together.
LEMMA Together ==
    ASSUME Types', Slots', OneRuntimePerTask', NEW i \in Invs, Run(i)', Told(i)',
           \A j \in Invs : j # i => Run(j)' /\ Told(j)'
    PROVE  IInv'
  BY DEF IInv

\* Spawn is the one step that makes a process alive: the entry says that no other of its task is.
LEMMA SpawnKeeps == ASSUME IInv, NEW i \in Invs, Spawn(i)  PROVE IInv'
<1>0. /\ Types /\ Slots /\ Run(i) /\ Told(i) /\ OneRuntimePerTask
      /\ TaskOf[i] \in Tasks /\ None # i /\ pc[i] = "cleared"
      /\ Entered(i) /\ invocations[TaskOf[i]] = i
  BY Facts DEF Spawn
<1>1. UNCHANGED <<disposal, invocations, active, pending, cancelling, locals>>
  BY DEF Spawn
<1>2. CASE Say(i, "stopped") /\ UNCHANGED proc /\ Goto(i, "returned")
           /\ End(i, IF Late(i) THEN "blocker" ELSE "error")
  <2>1. /\ report' \in [Invs -> {"none", "running", "stopped", "unconfirmed"}]
        /\ report'[i] = "stopped"
        /\ \A j \in Invs : j # i => report'[j] = report[j]
        /\ uncertainStops' \in SUBSET Tasks
        /\ \A t \in Tasks : t # TaskOf[i] /\ t \in uncertainStops => t \in uncertainStops'
    BY <1>0, <1>2, SayDoes
  <2>2. /\ pc' \in [Invs -> Labels] /\ pc'[i] = "returned"
        /\ \A j \in Invs : j # i => pc'[j] = pc[j]
    BY <1>0, <1>2, GotoDoes DEF Labels
  <2>3. PICK o \in {"blocker", "error"} : End(i, o)
    BY <1>2
  <2>4. /\ outcome' \in [Invs -> {"none", "rejected", "fulfilled", "error", "blocker",
                                  "uncertain", "ok", "noResult"}]
        /\ outcome'[i] \in {"blocker", "error"}
        /\ \A j \in Invs : j # i => outcome'[j] = outcome[j]
    BY <1>0, <2>3, EndDoes
  <2>5. Types'
    BY <1>0, <1>1, <1>2, <2>1, <2>2, <2>4 DEF Types, locals, runVars
  <2>6. Slots'
    BY <1>0, <1>1, <2>2, SlotsUntouched DEF Holders, Holding
  <2>7. OneRuntimePerTask'
    BY <1>0, <1>2, AliveShrinks DEF Alive
  <2>8. Run(i)' /\ Told(i)'
    BY <1>0, <1>1, <1>2, <2>1, <2>2, <2>4 DEF Run, Told, Entered, Alive, Unborn, locals, runVars
  <2>9. ASSUME NEW j \in Invs, j # i  PROVE Run(j)' /\ Told(j)'
    <3>1. Untouched(j)
      BY <1>1, <1>2, <2>1, <2>4, <2>9 DEF Untouched, locals, runVars
    <3> QED BY <1>0, <1>1, <2>1, <2>2, <2>9, <3>1, OthersKeep
  <2> QED BY <2>5, <2>6, <2>7, <2>8, <2>9, Together
<1>3. CASE proc' = [proc EXCEPT ![i] = "live"] /\ Goto(i, "spawned")
           /\ UNCHANGED <<report, uncertainStops, outcome>>
  <2>1. /\ proc' \in [Invs -> {"none", "live", "orphans", "gone"}] /\ proc'[i] = "live"
        /\ \A j \in Invs : j # i => proc'[j] = proc[j]
    BY <1>0, <1>3 DEF Types
  <2>2. /\ pc' \in [Invs -> Labels] /\ pc'[i] = "spawned"
        /\ \A j \in Invs : j # i => pc'[j] = pc[j]
    BY <1>0, <1>3, GotoDoes DEF Labels
  <2>3. Types'
    BY <1>0, <1>1, <1>3, <2>1, <2>2 DEF Types, locals, runVars
  <2>4. Slots'
    BY <1>0, <1>1, <2>2, SlotsUntouched DEF Holders, Holding
  <2>5. OneRuntimePerTask'
    <3> SUFFICES ASSUME NEW j \in Invs, j # i, TaskOf[j] = TaskOf[i]  PROVE ~Alive(j)
      BY <1>0, <2>1 DEF OneRuntimePerTask, Alive
    <3>1. Run(j) /\ ~Entered(j)
      BY <1>0 DEF IInv, Entered
    <3> QED BY <1>0, <3>1 DEF Run, Alive, Unborn
  <2>6. Run(i)' /\ Told(i)'
    BY <1>0, <1>1, <1>3, <2>1, <2>2 DEF Run, Told, Entered, Alive, Unborn, locals, runVars
  <2>7. ASSUME NEW j \in Invs, j # i  PROVE Run(j)' /\ Told(j)'
    <3>1. Untouched(j)
      BY <1>1, <1>3, <2>1, <2>7 DEF Untouched, locals, runVars
    <3> QED BY <1>0, <1>1, <1>3, <2>2, <2>7, <3>1, OthersKeep
  <2> QED BY <2>3, <2>4, <2>5, <2>6, <2>7, Together
<1> QED BY <1>2, <1>3 DEF Spawn

\* An invocation is refused, or entered: then no process of its task is left that might work.
LEMMA InvokeKeeps == ASSUME IInv, NEW i \in Invs, Invoke(i)  PROVE IInv'
<1>0. /\ Types /\ Slots /\ Run(i) /\ Told(i) /\ OneRuntimePerTask
      /\ TaskOf[i] \in Tasks /\ None # i /\ pc[i] = "idle"
  BY Facts DEF Invoke
<1>1. UNCHANGED <<disposal, uncertainStops, cancelling, report, proc, locals>>
  BY DEF Invoke
<1>2. OneRuntimePerTask'
  BY <1>0, <1>1, AliveShrinks DEF Alive
<1>3. CASE /\ Goto(i, "done") /\ End(i, "rejected")
           /\ UNCHANGED <<invocations, active, pending>>
  <2>1. /\ pc' \in [Invs -> Labels] /\ pc'[i] = "done"
        /\ \A j \in Invs : j # i => pc'[j] = pc[j]
    BY <1>0, <1>3, GotoDoes DEF Labels
  <2>2. /\ outcome' \in [Invs -> {"none", "rejected", "fulfilled", "error", "blocker",
                                  "uncertain", "ok", "noResult"}]
        /\ \A j \in Invs : j # i => outcome'[j] = outcome[j]
    BY <1>0, <1>3, EndDoes
  <2>3. Types'
    BY <1>0, <1>1, <1>3, <2>1, <2>2 DEF Types, locals, runVars
  <2>4. Slots'
    BY <1>0, <1>3, <2>1, SlotsUntouched DEF Holders, Holding
  <2>5. Run(i)' /\ Told(i)'
    BY <1>0, <1>1, <1>3, <2>1 DEF Run, Told, Entered, Alive, Unborn, locals, runVars
  <2>6. ASSUME NEW j \in Invs, j # i  PROVE Run(j)' /\ Told(j)'
    <3>1. Run(j) /\ Told(j)
      BY DEF IInv
    <3>2. Run(j)'
      BY <1>1, <1>3, <2>1, <2>2, <2>6, <3>1 DEF Run, Entered, Alive, Unborn, locals, runVars
    <3>3. Told(j)'
      BY <1>1, <1>3, <2>1, <2>2, <2>6, <3>1 DEF Told, Alive, locals, runVars
    <3> QED BY <3>2, <3>3
  <2> QED BY <1>2, <2>3, <2>4, <2>5, <2>6, Together
<1>4. CASE /\ disposal = "no" /\ TaskOf[i] \notin uncertainStops /\ invocations[TaskOf[i]] = None
           /\ invocations' = [invocations EXCEPT ![TaskOf[i]] = i]
           /\ \/ active < Limit /\ active' = active + 1 /\ Goto(i, "admitted") /\ UNCHANGED pending
              \/ /\ active >= Limit /\ Len(pending) < MaxPending
                 /\ pending' = Append(pending, i) /\ Goto(i, "queued") /\ UNCHANGED active
              \/ Goto(i, "notAdmitted") /\ UNCHANGED <<active, pending>>
           /\ UNCHANGED outcome
  <2> DEFINE Queued == {j \in Invs : pc[j] = "queued"}
  <2>1. /\ invocations' \in [Tasks -> Invs \cup {None}] /\ invocations'[TaskOf[i]] = i
        /\ \A t \in Tasks : t # TaskOf[i] => invocations'[t] = invocations[t]
    BY <1>0, <1>4 DEF Types
  <2>2. PICK l \in {"admitted", "queued", "notAdmitted"} : Goto(i, l)
    BY <1>4
  <2>3. /\ pc' \in [Invs -> Labels] /\ pc'[i] \in {"admitted", "queued", "notAdmitted"}
        /\ pc'[i] = l /\ \A j \in Invs : j # i => pc'[j] = pc[j]
    BY <1>0, <2>2, GotoDoes DEF Labels
  <2>4. /\ active \in 0..Limit /\ Limit \in Nat /\ MaxPending \in Nat /\ pending \in Seq(Invs)
        /\ Len(pending) \in Nat /\ Len(pending) <= MaxPending /\ DOMAIN pending = 1..Len(pending)
        /\ pc \in [Invs -> Labels]
    BY <1>0, ClaudeAssumption DEF Types
  <2>5. /\ active' \in 0..Limit /\ pending' \in Seq(Invs) /\ Len(pending') <= MaxPending /\ Slots'
    <3>1. CASE active < Limit /\ active' = active + 1 /\ Goto(i, "admitted") /\ UNCHANGED pending
      <4>1. pc'[i] = "admitted"
        BY <1>0, <3>1, GotoDoes DEF Labels
      <4>2. Holders' = Holders \cup {i} /\ i \notin Holders
        BY <1>0, <2>3, <4>1 DEF Holders, Holding
      <4>3. IsFiniteSet(Holders') /\ Cardinality(Holders') = active + 1
        BY <1>0, <4>2, FS_AddElement DEF Slots
      <4>4. Queued' = Queued /\ Waiting' = Waiting
        BY <1>0, <2>3, <3>1, <4>1 DEF Waiting
      <4>5. pending = <<>>
        BY <1>0, <2>4, <3>1 DEF Slots
      <4>6. Slots'
        BY <1>0, <3>1, <4>3, <4>4, <4>5 DEF Slots
      <4> QED BY <2>4, <3>1, <4>6
    <3>2. CASE /\ active >= Limit /\ Len(pending) < MaxPending
               /\ pending' = Append(pending, i) /\ Goto(i, "queued") /\ UNCHANGED active
      <4>1. pc'[i] = "queued"
        BY <1>0, <3>2, GotoDoes DEF Labels
      <4>2. Holders' = Holders
        BY <1>0, <2>3, <4>1 DEF Holders, Holding
      <4>3. /\ pending' \in Seq(Invs) /\ Len(pending') = Len(pending) + 1
            /\ \A k \in 1..Len(pending) : pending'[k] = pending[k]
            /\ pending'[Len(pending) + 1] = i
        BY <2>4, <3>2, AppendProperties
      <4>4. DOMAIN pending' = 1..(Len(pending) + 1)
        BY <4>3, LenProperties
      <4>5. Queued' = Queued \cup {i} /\ i \notin Queued
        BY <1>0, <2>3, <4>1
      <4>6. Waiting' = Waiting \cup {i}
        BY <2>4, <4>3, <4>4 DEF Waiting
      <4>7. \A k \in DOMAIN pending : pending[k] # i
        BY <1>0, <4>5 DEF Slots, Waiting
      <4>8. \A m, n \in DOMAIN pending' : pending'[m] = pending'[n] => m = n
        BY <1>0, <2>4, <4>3, <4>4, <4>7 DEF Slots
      <4>9. Slots'
        BY <1>0, <2>4, <3>2, <4>2, <4>5, <4>6, <4>8 DEF Slots
      <4> QED BY <2>4, <3>2, <4>3, <4>9
    <3>3. CASE Goto(i, "notAdmitted") /\ UNCHANGED <<active, pending>>
      <4>1. pc'[i] = "notAdmitted"
        BY <1>0, <3>3, GotoDoes DEF Labels
      <4>2. Slots'
        BY <1>0, <2>3, <3>3, <4>1, SlotsUntouched DEF Holders, Holding
      <4> QED BY <2>4, <3>3, <4>2
    <3> QED BY <1>4, <3>1, <3>2, <3>3
  <2>6. Types'
    BY <1>0, <1>1, <1>4, <2>1, <2>3, <2>5 DEF Types, locals, runVars
  <2>7. Run(i)' /\ Told(i)'
    BY <1>0, <1>1, <1>4, <2>1, <2>3 DEF Run, Told, Entered, Alive, Unborn, locals, runVars
  <2>8. ASSUME NEW j \in Invs, j # i  PROVE Run(j)' /\ Told(j)'
    <3>1. Run(j) /\ Told(j) /\ TaskOf[j] \in Tasks /\ None # j
      BY ClaudeAssumption DEF IInv
    <3>2. Entered(j)' <=> Entered(j)
      BY <1>4, <2>1, <2>8, <3>1 DEF Entered
    <3>3. Run(j)'
      BY <1>1, <1>4, <2>1, <2>3, <2>8, <3>1, <3>2 DEF Run, Alive, Unborn, locals, runVars
    <3>4. Told(j)'
      BY <1>1, <1>4, <2>3, <2>8, <3>1 DEF Told, Alive, locals, runVars
    <3> QED BY <3>3, <3>4
  <2> QED BY <1>2, <2>5, <2>6, <2>7, <2>8, Together
<1> QED BY <1>3, <1>4 DEF Invoke

\* What the steps of an invocation that gives its slot back, or that was not admitted, share.
Leaves(i) ==
    /\ Settle(i) /\ UNCHANGED <<disposal, cancelling, proc>>
    /\ pc'[i] = "done" /\ pc' \in [Invs -> Labels]
    /\ \A j \in Invs : j # i => \/ pc'[j] = pc[j]
                                \/ pc[j] = "queued" /\ pc'[j] = "admitted"

\* They keep the invariant.
LEMMA LeavesKeeps ==
    ASSUME IInv, NEW i \in Invs, pc[i] \notin {"idle", "done"}, Leaves(i), Slots',
           active' \in 0..Limit, pending' \in Seq(Invs), Len(pending') <= MaxPending,
           report' \in [Invs -> {"none", "running", "stopped", "unconfirmed"}],
           report'[i] = "stopped" => ~Alive(i),
           uncertainStops' \in SUBSET Tasks,
           Alive(i) => TaskOf[i] \in uncertainStops',
           outcome' \in [Invs -> {"none", "rejected", "fulfilled", "error", "blocker",
                                  "uncertain", "ok", "noResult"}],
           \A t \in Tasks : t # TaskOf[i] /\ t \in uncertainStops => t \in uncertainStops',
           \A j \in Invs : j # i => report'[j] = report[j] /\ outcome'[j] = outcome[j]
    PROVE  IInv'
<1>0. /\ Types /\ Slots /\ Run(i) /\ Told(i) /\ OneRuntimePerTask
      /\ TaskOf[i] \in Tasks /\ None # i
      /\ Entered(i) /\ invocations[TaskOf[i]] = i
  BY Facts
<1>1. /\ invocations' \in [Tasks -> Invs \cup {None}] /\ invocations'[TaskOf[i]] = None
      /\ \A t \in Tasks : t # TaskOf[i] => invocations'[t] = invocations[t]
      /\ aborted' \in SUBSET Invs /\ expired' \in SUBSET Invs
      /\ closed' \in SUBSET Invs /\ stopping' = stopping \ {i}
      /\ killedForCancel' = killedForCancel \ {i}
      /\ killedForDeadline' = killedForDeadline \ {i}
      /\ tree' \in [Invs -> {"idle", "checking", "true", "false"}] /\ tree'[i] = "idle"
      /\ termination' \in [Invs -> {"none", "CANCELLED", "TIMEOUT", "FAILED", "COMPLETED"}]
      /\ wrote' \in [Invs -> 0..Frames] /\ handled' \in [Invs -> 0..Frames]
      /\ wrote'[i] = 0 /\ handled'[i] = 0
      /\ \A j \in Invs : j # i => /\ tree'[j] = tree[j] /\ termination'[j] = termination[j]
                                  /\ wrote'[j] = wrote[j] /\ handled'[j] = handled[j]
  BY <1>0, SettleDoes DEF Leaves
<1>2. UNCHANGED <<disposal, cancelling, proc>>
  BY DEF Leaves
<1>3. \A j \in Invs : handled'[j] <= wrote'[j]
  <2>1. \A j \in Invs : handled[j] <= wrote[j]
    BY <1>0 DEF Types
  <2>2. handled'[i] <= wrote'[i]
    BY <1>1
  <2> QED BY <1>1, <2>1, <2>2
<1>4. Types'
  BY <1>0, <1>1, <1>2, <1>3 DEF Types, Leaves
<1>5. OneRuntimePerTask'
  BY <1>0, <1>2, AliveShrinks DEF Alive
<1>6. Run(i)' /\ Told(i)'
  BY <1>0, <1>1, <1>2 DEF Run, Told, Entered, Alive, Unborn, Leaves
<1>7. ASSUME NEW j \in Invs, j # i  PROVE Run(j)' /\ Told(j)'
  <2>1. Untouched(j)
    BY <1>1, <1>2, <1>7 DEF Untouched
  <2> QED BY <1>0, <1>1, <1>2, <1>7, <2>1, OthersKeep DEF Leaves
<1> QED BY <1>4, <1>5, <1>6, <1>7, Together

\* A waiter that was not admitted reports that nothing runs, and settles.
LEMMA NotAdmittedKeeps == ASSUME IInv, NEW i \in Invs, NotAdmitted(i)  PROVE IInv'
<1>0. Types /\ Slots /\ Run(i) /\ pc[i] = "notAdmitted"
  BY Facts DEF NotAdmitted
<1>1. /\ report' \in [Invs -> {"none", "running", "stopped", "unconfirmed"}]
      /\ report'[i] = "stopped"
      /\ \A j \in Invs : j # i => report'[j] = report[j]
      /\ uncertainStops' \in SUBSET Tasks
      /\ \A t \in Tasks : t # TaskOf[i] /\ t \in uncertainStops => t \in uncertainStops'
  BY <1>0, SayDoes DEF NotAdmitted
<1>2. /\ pc' \in [Invs -> Labels] /\ pc'[i] = "done"
      /\ \A j \in Invs : j # i => pc'[j] = pc[j]
  BY <1>0, GotoDoes DEF NotAdmitted, Labels
<1>3. PICK o \in {"fulfilled", "rejected"} : End(i, o)
  BY DEF NotAdmitted
<1>4. /\ outcome' \in [Invs -> {"none", "rejected", "fulfilled", "error", "blocker",
                                "uncertain", "ok", "noResult"}]
      /\ \A j \in Invs : j # i => outcome'[j] = outcome[j]
  BY <1>0, <1>3, EndDoes
<1>5. UNCHANGED <<disposal, active, pending, cancelling, proc>> /\ Settle(i)
  BY DEF NotAdmitted
<1>6. Slots'
  BY <1>0, <1>2, <1>5, SlotsUntouched DEF Holders, Holding
<1>7. active' \in 0..Limit /\ pending' \in Seq(Invs) /\ Len(pending') <= MaxPending
  BY <1>0, <1>5 DEF Types
<1>8. ~Alive(i)
  BY <1>0 DEF Run, Alive, Unborn
<1>9. Leaves(i)
  BY <1>2, <1>5 DEF Leaves
<1> QED BY <1>0, <1>1, <1>4, <1>6, <1>7, <1>8, <1>9, LeavesKeeps

\* Execute: cancelled before any work, or on to the runner.
LEMMA ExecuteKeeps == ASSUME IInv, NEW i \in Invs, Execute(i)  PROVE IInv'
<1>0. /\ Types /\ Slots /\ Run(i) /\ Told(i) /\ OneRuntimePerTask /\ pc[i] = "admitted"
      /\ TaskOf[i] \in Tasks /\ None # i /\ Entered(i) /\ invocations[TaskOf[i]] = i
  BY Facts DEF Execute
<1>1. UNCHANGED <<disposal, cancelling, proc>>
  BY DEF Execute
<1>2. ~Alive(i) /\ Holding(i)
  BY <1>0 DEF Run, Alive, Unborn, Holding
<1>3. CASE Say(i, "stopped") /\ End(i, "fulfilled") /\ Hand(i) /\ Settle(i)
  <2>1. /\ report' \in [Invs -> {"none", "running", "stopped", "unconfirmed"}]
        /\ \A j \in Invs : j # i => report'[j] = report[j]
        /\ uncertainStops' \in SUBSET Tasks
        /\ \A t \in Tasks : t # TaskOf[i] /\ t \in uncertainStops => t \in uncertainStops'
    BY <1>0, <1>3, SayDoes
  <2>2. /\ outcome' \in [Invs -> {"none", "rejected", "fulfilled", "error", "blocker",
                                  "uncertain", "ok", "noResult"}]
        /\ \A j \in Invs : j # i => outcome'[j] = outcome[j]
    BY <1>0, <1>3, EndDoes
  <2>3. /\ active' \in 0..Limit /\ pending' \in Seq(Invs) /\ Len(pending') <= MaxPending
        /\ pc' \in [Invs -> Labels] /\ pc'[i] = "done"
        /\ \A j \in Invs : j # i => \/ pc'[j] = pc[j]
                                    \/ pc[j] = "queued" /\ pc'[j] = "admitted"
        /\ Slots'
    BY <1>0, <1>2, <1>3, HandKeeps
  <2>4. Leaves(i)
    BY <1>1, <1>3, <2>3 DEF Leaves
  <2> QED BY <1>0, <1>2, <2>1, <2>2, <2>3, <2>4, LeavesKeeps
<1>4. CASE /\ Goto(i, "preflight")
           /\ UNCHANGED <<report, uncertainStops, outcome, active, pending, invocations, locals>>
  <2>1. /\ pc' \in [Invs -> Labels] /\ pc'[i] = "preflight"
        /\ \A j \in Invs : j # i => pc'[j] = pc[j]
    BY <1>0, <1>4, GotoDoes DEF Labels
  <2>2. Types'
    BY <1>0, <1>1, <1>4, <2>1 DEF Types, locals, runVars
  <2>3. Slots'
    BY <1>0, <1>4, <2>1, SlotsUntouched DEF Holders, Holding
  <2>4. OneRuntimePerTask'
    BY <1>0, <1>1, AliveShrinks DEF Alive
  <2>5. Run(i)' /\ Told(i)'
    BY <1>0, <1>1, <1>4, <2>1 DEF Run, Told, Entered, Alive, Unborn, locals, runVars
  <2>6. ASSUME NEW j \in Invs, j # i  PROVE Run(j)' /\ Told(j)'
    <3>1. Untouched(j)
      BY <1>1, <1>4 DEF Untouched, locals, runVars
    <3> QED BY <1>0, <1>1, <1>4, <2>1, <2>6, <3>1, OthersKeep
  <2> QED BY <2>2, <2>3, <2>4, <2>5, <2>6, Together
<1> QED BY <1>3, <1>4 DEF Execute

\* run, up to the report "running".
LEMMA PreflightKeeps == ASSUME IInv, NEW i \in Invs, Preflight(i)  PROVE IInv'
<1>0. /\ Types /\ Slots /\ Run(i) /\ Told(i) /\ OneRuntimePerTask /\ pc[i] = "preflight"
      /\ TaskOf[i] \in Tasks /\ None # i /\ Entered(i) /\ invocations[TaskOf[i]] = i
  BY Facts DEF Preflight
<1>1. UNCHANGED <<disposal, invocations, active, pending, cancelling, proc, locals>>
  BY DEF Preflight
<1>2. PICK state \in {"running", "stopped"}, l \in {"cleared", "returned"} :
         /\ Say(i, state) /\ Goto(i, l)
         /\ state = "running" <=> l = "cleared"
         /\ \/ End(i, "error") \/ End(i, "blocker") \/ UNCHANGED outcome
         /\ l = "returned" => End(i, "error") \/ End(i, "blocker")
  BY DEF Preflight
<1>3. /\ report' \in [Invs -> {"none", "running", "stopped", "unconfirmed"}]
      /\ report'[i] = state
      /\ \A j \in Invs : j # i => report'[j] = report[j]
      /\ uncertainStops' \in SUBSET Tasks
      /\ \A t \in Tasks : t # TaskOf[i] /\ t \in uncertainStops => t \in uncertainStops'
  BY <1>0, <1>2, SayDoes
<1>4. /\ pc' \in [Invs -> Labels] /\ pc'[i] = l
      /\ \A j \in Invs : j # i => pc'[j] = pc[j]
  BY <1>0, <1>2, GotoDoes DEF Labels
<1>5. /\ outcome' \in [Invs -> {"none", "rejected", "fulfilled", "error", "blocker",
                                "uncertain", "ok", "noResult"}]
      /\ \A j \in Invs : j # i => outcome'[j] = outcome[j]
      /\ l = "returned" => outcome'[i] \in {"error", "blocker"}
  <2>1. CASE UNCHANGED outcome /\ l # "returned"
    BY <1>0, <2>1 DEF Types
  <2>2. CASE End(i, "error")
    BY <1>0, <2>2, EndDoes
  <2>3. CASE End(i, "blocker")
    BY <1>0, <2>3, EndDoes
  <2> QED BY <1>2, <2>1, <2>2, <2>3
<1>6. Types'
  BY <1>0, <1>1, <1>3, <1>4, <1>5 DEF Types, locals, runVars
<1>7. Slots'
  BY <1>0, <1>1, <1>4, SlotsUntouched DEF Holders, Holding
<1>8. OneRuntimePerTask'
  BY <1>0, <1>1, AliveShrinks DEF Alive
<1>9. Run(i)' /\ Told(i)'
  BY <1>0, <1>1, <1>2, <1>3, <1>4, <1>5 DEF Run, Told, Entered, Alive, Unborn, locals, runVars
<1>10. ASSUME NEW j \in Invs, j # i  PROVE Run(j)' /\ Told(j)'
  <2>1. Untouched(j)
    BY <1>1, <1>3, <1>5, <1>10 DEF Untouched, locals, runVars
  <2> QED BY <1>0, <1>1, <1>3, <1>4, <1>10, <2>1, OthersKeep
<1> QED BY <1>6, <1>7, <1>8, <1>9, <1>10, Together

\* The process writes, exits and leaves tools behind; a frame is handled; its close event is
\* read; a check of its group answers: what is alive only shrinks, and a proof is of a group
\* that is gone.
LEMMA ProcessKeeps ==
    ASSUME IInv, NEW i \in Invs,
           \/ Write(i) \/ Exit(i) \/ HandleFrame(i) \/ Close(i) \/ Checked(i)
    PROVE  IInv'
<1>0. /\ Types /\ Slots /\ Run(i) /\ Told(i) /\ OneRuntimePerTask
      /\ TaskOf[i] \in Tasks /\ None # i
  BY Facts
<1>1. /\ UNCHANGED <<slotVars, pc, report, outcome, aborted, expired, termination, stopping,
                     killedForCancel, killedForDeadline>>
  BY DEF Write, Exit, HandleFrame, Close, Checked, locals, runVars
<1>2. /\ wrote' \in [Invs -> 0..Frames] /\ handled' \in [Invs -> 0..Frames]
      /\ \A j \in Invs : handled'[j] <= wrote'[j]
      /\ \A j \in Invs : j # i => wrote'[j] = wrote[j]
      /\ wrote'[i] # wrote[i] => pc[i] = "spawned"
  <2>0. /\ wrote \in [Invs -> 0..Frames] /\ handled \in [Invs -> 0..Frames]
        /\ \A j \in Invs : handled[j] <= wrote[j]
        /\ Frames \in Nat
    BY <1>0, ClaudeAssumption DEF Types
  <2>1. CASE Write(i)
    <3>1. pc[i] = "spawned" /\ wrote[i] < Frames /\ handled' = handled
      BY <2>1 DEF Write
    <3>2. wrote' = [wrote EXCEPT ![i] = wrote[i] + 1]
      BY <2>1 DEF Write
    <3> QED BY <2>0, <3>1, <3>2
  <2>2. CASE HandleFrame(i)
    <3>1. handled[i] < wrote[i] /\ wrote' = wrote
      BY <2>2 DEF HandleFrame
    <3>2. handled' = [handled EXCEPT ![i] = handled[i] + 1]
      BY <2>2 DEF HandleFrame
    <3> QED BY <2>0, <3>1, <3>2
  <2>3. CASE Exit(i) \/ Close(i) \/ Checked(i)
    <3>1. UNCHANGED <<wrote, handled>>
      BY <2>3 DEF Exit, Close, Checked, locals
    <3> QED BY <2>0, <3>1
  <2> QED BY <2>1, <2>2, <2>3
<1>3. /\ proc' \in [Invs -> {"none", "live", "orphans", "gone"}]
      /\ \A j \in Invs : j # i => proc'[j] = proc[j]
      /\ proc'[i] = proc[i] \/ (proc[i] \in {"live", "orphans"} /\ proc'[i] \in {"orphans", "gone"})
  <2>0. proc \in [Invs -> {"none", "live", "orphans", "gone"}]
    BY <1>0 DEF Types
  <2>1. CASE Exit(i)
    BY <2>0, <2>1 DEF Exit
  <2>2. CASE Write(i) \/ HandleFrame(i) \/ Close(i) \/ Checked(i)
    <3>1. proc' = proc
      BY <2>2 DEF Write, HandleFrame, Close, Checked
    <3> QED BY <2>0, <3>1
  <2> QED BY <2>1, <2>2
<1>4. /\ tree' \in [Invs -> {"idle", "checking", "true", "false"}] /\ closed' \in SUBSET Invs
      /\ \A j \in Invs : j # i => tree'[j] = tree[j]
      /\ tree'[i] = "true" => tree[i] = "true" \/ proc'[i] = "gone"
  <2>0. tree \in [Invs -> {"idle", "checking", "true", "false"}] /\ closed \in SUBSET Invs
    BY <1>0 DEF Types
  <2>1. CASE Close(i)
    BY <2>0, <2>1 DEF Close
  <2>2. CASE Checked(i)
    BY <2>0, <2>2 DEF Checked
  <2>3. CASE Write(i) \/ HandleFrame(i) \/ Exit(i)
    <3>1. UNCHANGED <<tree, closed>>
      BY <2>3 DEF Write, HandleFrame, Exit, locals, runVars
    <3> QED BY <2>0, <3>1
  <2> QED BY <2>1, <2>2, <2>3
<1>5. Types'
  BY <1>0, <1>1, <1>2, <1>3, <1>4 DEF Types, slotVars
<1>6. Slots'
  BY <1>0, <1>1, SlotsUntouched DEF slotVars, Holders, Holding
<1>7. \A j \in Invs : Alive(j)' => Alive(j)
  BY <1>3 DEF Alive
<1>8. OneRuntimePerTask'
  BY <1>0, <1>7, AliveShrinks
<1>9. Run(i)'
  BY <1>0, <1>1, <1>3, <1>4, <1>7 DEF Run, Entered, Alive, Unborn, slotVars
<1>10. Told(i)'
  BY <1>0, <1>1, <1>2, <1>7 DEF Told
<1>11. ASSUME NEW j \in Invs, j # i  PROVE Run(j)' /\ Told(j)'
  <2>1. Run(j) /\ Told(j)
    BY DEF IInv
  <2>2. Run(j)'
    BY <1>1, <1>3, <1>4, <1>11, <2>1 DEF Run, Entered, Alive, Unborn, slotVars
  <2>3. Told(j)'
    BY <1>1, <1>2, <1>3, <1>11, <2>1 DEF Told, Alive
  <2> QED BY <2>2, <2>3
<1> QED BY <1>5, <1>6, <1>8, <1>9, <1>10, <1>11, Together

\* The stop of a run is reported: "stopped" is said of a group that is gone.
LEMMA StoppedKeeps == ASSUME IInv, NEW i \in Invs, Stopped(i)  PROVE IInv'
<1>0. /\ Types /\ Slots /\ Run(i) /\ Told(i) /\ OneRuntimePerTask /\ pc[i] = "spawned"
      /\ TaskOf[i] \in Tasks /\ None # i /\ Entered(i) /\ invocations[TaskOf[i]] = i
  BY Facts DEF Stopped
<1>1. UNCHANGED <<disposal, invocations, active, pending, cancelling, proc, locals>>
  BY DEF Stopped
<1>2. PICK confirmed \in StopVerdicts(i) :
          \/ /\ confirmed
             /\ Say(i, "stopped") /\ Goto(i, "draining")
             /\ UNCHANGED outcome
          \/ /\ confirmed
             /\ End(i, "error") /\ Goto(i, "returned")
             /\ UNCHANGED <<report, uncertainStops>>
          \/ /\ ~confirmed
             /\ Say(i, "unconfirmed")
             /\ End(i, "uncertain") /\ Goto(i, "returned")
  BY DEF Stopped
<1>3. confirmed => proc[i] = "gone"
  BY <1>0 DEF StopVerdicts, Run
<1>4. OneRuntimePerTask'
  BY <1>0, <1>1, AliveShrinks DEF Alive
<1>5. ASSUME Types', Slots', Run(i)', Told(i)',
             \A j \in Invs : j # i => /\ pc'[j] = pc[j] /\ report'[j] = report[j]
                                      /\ outcome'[j] = outcome[j],
             \A t \in Tasks : t # TaskOf[i] /\ t \in uncertainStops => t \in uncertainStops'
      PROVE  IInv'
  <2>1. ASSUME NEW j \in Invs, j # i  PROVE Run(j)' /\ Told(j)'
    <3>1. Untouched(j)
      BY <1>1, <1>5, <2>1 DEF Untouched, locals, runVars
    <3> QED BY <1>0, <1>1, <1>5, <2>1, <3>1, OthersKeep
  <2> QED BY <1>4, <1>5, <2>1, Together
<1>6. CASE confirmed /\ Say(i, "stopped") /\ Goto(i, "draining") /\ UNCHANGED outcome
  <2>1. /\ report' \in [Invs -> {"none", "running", "stopped", "unconfirmed"}]
        /\ \A j \in Invs : j # i => report'[j] = report[j]
        /\ uncertainStops' \in SUBSET Tasks
        /\ \A t \in Tasks : t # TaskOf[i] /\ t \in uncertainStops => t \in uncertainStops'
    BY <1>0, <1>6, SayDoes
  <2>2. /\ pc' \in [Invs -> Labels] /\ pc'[i] = "draining"
        /\ \A j \in Invs : j # i => pc'[j] = pc[j]
    BY <1>0, <1>6, GotoDoes DEF Labels
  <2>3. Types'
    BY <1>0, <1>1, <1>6, <2>1, <2>2 DEF Types, locals, runVars
  <2>4. Slots'
    BY <1>0, <1>1, <2>2, SlotsUntouched DEF Holders, Holding
  <2>5. Run(i)' /\ Told(i)'
    BY <1>0, <1>1, <1>3, <1>6, <2>2 DEF Run, Told, Entered, Alive, Unborn, locals, runVars
  <2> QED BY <1>5, <1>6, <2>1, <2>2, <2>3, <2>4, <2>5
<1>7. CASE /\ confirmed /\ End(i, "error") /\ Goto(i, "returned")
           /\ UNCHANGED <<report, uncertainStops>>
  <2>1. /\ outcome' \in [Invs -> {"none", "rejected", "fulfilled", "error", "blocker",
                                  "uncertain", "ok", "noResult"}]
        /\ outcome'[i] = "error"
        /\ \A j \in Invs : j # i => outcome'[j] = outcome[j]
    BY <1>0, <1>7, EndDoes
  <2>2. /\ pc' \in [Invs -> Labels] /\ pc'[i] = "returned"
        /\ \A j \in Invs : j # i => pc'[j] = pc[j]
    BY <1>0, <1>7, GotoDoes DEF Labels
  <2>3. Types'
    BY <1>0, <1>1, <1>7, <2>1, <2>2 DEF Types, locals, runVars
  <2>4. Slots'
    BY <1>0, <1>1, <2>2, SlotsUntouched DEF Holders, Holding
  <2>5. Run(i)' /\ Told(i)'
    BY <1>0, <1>1, <1>3, <1>7, <2>1, <2>2
       DEF Run, Told, Entered, Alive, Unborn, locals, runVars
  <2> QED BY <1>5, <1>7, <2>1, <2>2, <2>3, <2>4, <2>5
<1>8. CASE ~confirmed /\ Say(i, "unconfirmed") /\ End(i, "uncertain") /\ Goto(i, "returned")
  <2>1. /\ report' \in [Invs -> {"none", "running", "stopped", "unconfirmed"}]
        /\ report'[i] = "unconfirmed"
        /\ \A j \in Invs : j # i => report'[j] = report[j]
        /\ uncertainStops' = uncertainStops
    BY <1>0, <1>8, SayDoes
  <2>2. /\ outcome' \in [Invs -> {"none", "rejected", "fulfilled", "error", "blocker",
                                  "uncertain", "ok", "noResult"}]
        /\ outcome'[i] = "uncertain"
        /\ \A j \in Invs : j # i => outcome'[j] = outcome[j]
    BY <1>0, <1>8, EndDoes
  <2>3. /\ pc' \in [Invs -> Labels] /\ pc'[i] = "returned"
        /\ \A j \in Invs : j # i => pc'[j] = pc[j]
    BY <1>0, <1>8, GotoDoes DEF Labels
  <2>4. Types'
    BY <1>0, <1>1, <2>1, <2>2, <2>3 DEF Types, locals, runVars
  <2>5. Slots'
    BY <1>0, <1>1, <2>3, SlotsUntouched DEF Holders, Holding
  <2>6. Run(i)' /\ Told(i)'
    BY <1>0, <1>1, <2>1, <2>2, <2>3 DEF Run, Told, Entered, Alive, Unborn, locals, runVars
  <2> QED BY <1>5, <2>1, <2>2, <2>3, <2>4, <2>5, <2>6
<1> QED BY <1>2, <1>6, <1>7, <1>8

\* Every frame is handled: the outcome is of all that was written.
LEMMA DrainedKeeps == ASSUME IInv, NEW i \in Invs, Drained(i)  PROVE IInv'
<1>0. /\ Types /\ Slots /\ Run(i) /\ Told(i) /\ OneRuntimePerTask /\ pc[i] = "draining"
      /\ TaskOf[i] \in Tasks /\ None # i /\ Entered(i) /\ invocations[TaskOf[i]] = i
      /\ handled[i] = wrote[i] /\ wrote[i] \in 0..Frames /\ Frames \in Nat
  BY Facts, ClaudeAssumption DEF Drained, Types
<1>1. UNCHANGED <<slotVars, aborted, expired, report, proc, runVars, wrote, handled>>
  BY DEF Drained
<1>2. /\ pc' \in [Invs -> Labels] /\ pc'[i] = "returned"
      /\ \A j \in Invs : j # i => pc'[j] = pc[j]
  BY <1>0, GotoDoes DEF Drained, Labels
<1>3. PICK failed \in BOOLEAN :
        /\ termination' = [termination EXCEPT ![i] = Termination(i, failed)]
        /\ CASE i \in killedForCancel \cup killedForDeadline -> End(i, "blocker")
             [] i \notin killedForCancel \cup killedForDeadline /\ handled[i] < Frames ->
                  \E o \in {"noResult", "blocker"} : End(i, o)
             [] OTHER -> IF failed THEN \E o \in {"error", "blocker"} : End(i, o) ELSE End(i, "ok")
  BY DEF Drained
<1>4. Termination(i, failed) \in {"CANCELLED", "TIMEOUT", "FAILED", "COMPLETED"}
  BY DEF Termination
<1>5. /\ termination' \in [Invs -> {"none", "CANCELLED", "TIMEOUT", "FAILED", "COMPLETED"}]
      /\ termination'[i] = Termination(i, failed)
      /\ \A j \in Invs : j # i => termination'[j] = termination[j]
  BY <1>0, <1>3, <1>4 DEF Types
<1>6. PICK o \in {"error", "blocker", "ok", "noResult"} :
        /\ End(i, o)
        /\ o = "noResult" => handled[i] < Frames
        /\ o = "ok" => /\ i \notin killedForCancel \cup killedForDeadline
                       /\ ~(handled[i] < Frames) /\ ~failed
  <2>1. CASE i \in killedForCancel \cup killedForDeadline
    BY <1>3, <2>1
  <2>2. CASE i \notin killedForCancel \cup killedForDeadline /\ handled[i] < Frames
    BY <1>3, <2>2
  <2>3. CASE i \notin killedForCancel \cup killedForDeadline /\ ~(handled[i] < Frames)
    BY <1>3, <2>3
  <2> QED BY <2>1, <2>2, <2>3
<1>7. /\ outcome' \in [Invs -> {"none", "rejected", "fulfilled", "error", "blocker",
                                "uncertain", "ok", "noResult"}]
      /\ outcome'[i] = o
      /\ \A j \in Invs : j # i => outcome'[j] = outcome[j]
  BY <1>0, <1>6, EndDoes
<1>8. Types'
  BY <1>0, <1>1, <1>2, <1>5, <1>7 DEF Types, slotVars, runVars
<1>9. Slots'
  BY <1>0, <1>1, <1>2, SlotsUntouched DEF Holders, Holding, slotVars
<1>10. OneRuntimePerTask'
  BY <1>0, <1>1, AliveShrinks DEF Alive
<1>11. Run(i)'
  BY <1>0, <1>1, <1>2 DEF Run, Entered, Alive, Unborn, slotVars, runVars
<1>12. Told(i)'
  <2>1. o = "ok" => wrote[i] = Frames /\ termination'[i] = "COMPLETED"
    BY <1>0, <1>5, <1>6 DEF Termination
  <2>2. ~Alive(i)' /\ stopping' = stopping /\ wrote' = wrote
    BY <1>0, <1>1 DEF Run, Alive, runVars
  <2>3. i \in stopping => i \in killedForCancel \cup killedForDeadline
    BY <1>0 DEF Run
  <2> QED BY <1>0, <1>6, <1>7, <2>1, <2>2, <2>3 DEF Told
<1>13. ASSUME NEW j \in Invs, j # i  PROVE Run(j)' /\ Told(j)'
  <2>1. Untouched(j)
    BY <1>1, <1>5, <1>7, <1>13 DEF Untouched, slotVars, runVars
  <2> QED BY <1>0, <1>1, <1>2, <1>13, <2>1, OthersKeep DEF slotVars
<1> QED BY <1>8, <1>9, <1>10, <1>11, <1>12, <1>13, Together

\* The runner returned: its slot is handed on, and a stop without proof keeps the task closed.
LEMMA ReturnKeeps == ASSUME IInv, NEW i \in Invs, Return(i)  PROVE IInv'
<1>0. /\ Types /\ Slots /\ Run(i) /\ pc[i] = "returned" /\ TaskOf[i] \in Tasks
  BY Facts DEF Return
<1>1. UNCHANGED <<disposal, cancelling, report, proc>> /\ Hand(i) /\ Settle(i) /\ Holding(i)
  BY <1>0 DEF Return, Holding
<1>2. PICK o \in {"uncertain", "fulfilled", "rejected"} : End(i, o)
  BY DEF Return
<1>3. /\ outcome' \in [Invs -> {"none", "rejected", "fulfilled", "error", "blocker",
                                "uncertain", "ok", "noResult"}]
      /\ \A j \in Invs : j # i => outcome'[j] = outcome[j]
  BY <1>0, <1>2, EndDoes
<1>4. /\ uncertainStops' \in SUBSET Tasks /\ uncertainStops \subseteq uncertainStops'
      /\ outcome[i] = "uncertain" => TaskOf[i] \in uncertainStops'
  BY <1>0 DEF Return, Types
<1>5. /\ active' \in 0..Limit /\ pending' \in Seq(Invs) /\ Len(pending') <= MaxPending
      /\ pc' \in [Invs -> Labels] /\ pc'[i] = "done"
      /\ \A j \in Invs : j # i => \/ pc'[j] = pc[j]
                                  \/ pc[j] = "queued" /\ pc'[j] = "admitted"
      /\ Slots'
  BY <1>0, <1>1, HandKeeps
<1>6. /\ report' \in [Invs -> {"none", "running", "stopped", "unconfirmed"}]
      /\ report'[i] = "stopped" => ~Alive(i)
      /\ \A j \in Invs : report'[j] = report[j]
  BY <1>0, <1>1 DEF Types, Run
<1>7. Alive(i) => TaskOf[i] \in uncertainStops'
  BY <1>0, <1>4 DEF Run
<1>8. Leaves(i)
  BY <1>1, <1>5 DEF Leaves
<1> QED BY <1>0, <1>3, <1>4, <1>5, <1>6, <1>7, <1>8, LeavesKeeps

\* What is known of an invocation survives an abort, a deadline and a cancellation of any: they
\* start no process, report no stop, and say of what they stop that they did.
Signalled(j) ==
    /\ UNCHANGED <<invocations, outcome, wrote, termination, proc>>
    /\ pc'[j] = pc[j] \/ (pc[j] = "queued" /\ pc'[j] = "notAdmitted")
    /\ tree'[j] \in {tree[j], "checking"}
    /\ j \in stopping' /\ j \notin stopping =>
          j \in killedForCancel' \cup killedForDeadline' /\ pc[j] = "spawned"
    /\ killedForCancel \subseteq killedForCancel' /\ killedForDeadline \subseteq killedForDeadline'

\* A signal to one slot keeps the invariant.
LEMMA SignalKeeps ==
    ASSUME IInv, NEW j \in Invs, Signalled(j),
           report'[j] = report[j] \/ report'[j] = "unconfirmed",
           uncertainStops \subseteq uncertainStops',
           disposal' = "done" => disposal = "done",
           disposal' = "cancelling" /\ Entered(j) => cancelling'[j] \in {"racing", "uncertain"}
    PROVE  Run(j)' /\ Told(j)'
<1>1. Run(j) /\ Told(j)
  BY DEF IInv
<1>2. (Entered(j)' <=> Entered(j)) /\ (Alive(j)' <=> Alive(j))
  BY DEF Entered, Alive, Signalled
<1>3. /\ Entered(j)' <=> pc'[j] \notin {"idle", "done"}
      /\ pc'[j] \in Unborn => proc'[j] = "none"
      /\ tree'[j] = "true" => proc'[j] = "gone"
      /\ pc'[j] = "draining" => proc'[j] = "gone"
  BY <1>1, <1>2 DEF Run, Signalled, Unborn
<1>4. /\ pc'[j] = "cleared" => report'[j] # "stopped"
      /\ report'[j] = "stopped" => ~Alive(j)'
      /\ pc'[j] = "returned" /\ Alive(j)' => outcome'[j] = "uncertain"
      /\ pc'[j] = "done" /\ Alive(j)' =>
            TaskOf[j] \in uncertainStops' /\ invocations'[TaskOf[j]] = None
  BY <1>1, <1>2 DEF Run, Signalled
<1>5. j \in stopping' => j \in killedForCancel' \cup killedForDeadline'
  BY <1>1 DEF Run, Signalled
<1>6. /\ disposal' = "cancelling" /\ Entered(j)' => cancelling'[j] \in {"racing", "uncertain"}
      /\ disposal' = "done" => ~Entered(j)'
  BY <1>1, <1>2 DEF Run
<1>7. Run(j)'
  BY <1>3, <1>4, <1>5, <1>6 DEF Run
<1>8. Told(j)'
  BY <1>1, <1>2 DEF Told, Signalled
<1> QED BY <1>7, <1>8

\* The deadline passes.
LEMMA ExpireKeeps == ASSUME IInv, NEW i \in Invs, Expire(i)  PROVE IInv'
<1>0. Types /\ Slots /\ OneRuntimePerTask
  BY Facts
<1>1. UNCHANGED <<disposal, uncertainStops, invocations, active, cancelling, aborted, report,
                  outcome, termination, proc, closed, killedForCancel, wrote, handled>>
  BY DEF Expire
<1>2. /\ pc' \in [Invs -> Labels] /\ pending' \in Seq(Invs) /\ Len(pending') <= MaxPending
      /\ \A j \in Invs : pc'[j] = pc[j] \/ (pc[j] = "queued" /\ pc'[j] = "notAdmitted")
      /\ Slots'
  <2>1. CASE pc[i] = "queued"
    <3>1. Leave({i}) /\ Goto(i, "notAdmitted")
      BY <2>1 DEF Expire
    <3>2. /\ pc' \in [Invs -> Labels] /\ pc'[i] = "notAdmitted"
          /\ \A j \in Invs : j # i => pc'[j] = pc[j]
      BY <1>0, <3>1, GotoDoes DEF Labels
    <3>3. /\ pending' \in Seq(Invs) /\ Len(pending') <= Len(pending)
          /\ Waiting' = Waiting \ {i}
          /\ pending' # <<>> => pending # <<>>
          /\ \A m, n \in DOMAIN pending' : pending'[m] = pending'[n] => m = n
      BY <1>0, <3>1, LeaveKeeps DEF Types, Slots
    <3>4. Len(pending') <= MaxPending
      BY <1>0, <3>3, LenProperties, ClaudeAssumption DEF Types
    <3>5. Holders' = Holders
      BY <2>1, <3>2 DEF Holders, Holding
    <3>6. {j \in Invs : pc'[j] = "queued"} = {j \in Invs : pc[j] = "queued"} \ {i}
      BY <3>2
    <3>7. Slots'
      BY <1>0, <1>1, <3>3, <3>5, <3>6 DEF Slots
    <3> QED BY <2>1, <3>2, <3>3, <3>4, <3>7
  <2>2. CASE pc[i] # "queued"
    <3>1. UNCHANGED <<pc, pending>>
      BY <2>2 DEF Expire
    <3>2. Slots'
      BY <1>0, <1>1, <3>1, SlotsUntouched DEF Holders, Holding
    <3> QED BY <1>0, <3>1, <3>2 DEF Types
  <2> QED BY <2>1, <2>2
<1>3. /\ killedForDeadline \subseteq killedForDeadline' /\ killedForDeadline' \in SUBSET Invs
      /\ stopping' \in SUBSET Invs
      /\ \A j \in Invs : j \in stopping' /\ j \notin stopping =>
            j \in killedForDeadline' /\ pc[j] = "spawned"
      /\ tree' \in [Invs -> {"idle", "checking", "true", "false"}]
      /\ \A j \in Invs : tree'[j] \in {tree[j], "checking"}
  <2>1. CASE pc[i] = "spawned"
    <3>1. killedForDeadline' = killedForDeadline \cup {i} /\ StopEffect({i})
      BY <2>1 DEF Expire
    <3> QED BY <1>0, <2>1, <3>1 DEF StopEffect, Types
  <2>2. CASE pc[i] # "spawned"
    <3>1. UNCHANGED <<killedForDeadline, stopping, tree>>
      BY <2>2 DEF Expire
    <3> QED BY <1>0, <3>1 DEF Types
  <2> QED BY <2>1, <2>2
<1>4. Types'
  BY <1>0, <1>1, <1>2, <1>3 DEF Types, Expire
<1>5. OneRuntimePerTask'
  BY <1>0, <1>1, AliveShrinks DEF Alive
<1>6. ASSUME NEW j \in Invs  PROVE Run(j)' /\ Told(j)'
  <2>1. Signalled(j)
    BY <1>1, <1>2, <1>3 DEF Signalled
  <2>2. disposal = "cancelling" /\ Entered(j) => cancelling[j] \in {"racing", "uncertain"}
    BY DEF IInv, Run
  <2> QED BY <1>1, <2>1, <2>2, SignalKeeps
<1> QED BY <1>2, <1>4, <1>5, <1>6, Together

\* The caller's own signal, cancel() and dispose() abort in the same way.
LEMMA AbortsKeep ==
    ASSUME IInv, NEW S \in SUBSET Invs, AbortEffect(S),
           UNCHANGED <<uncertainStops, invocations, active, expired, report, outcome,
                       termination, proc, closed, killedForDeadline, wrote, handled>>,
           disposal' \in {disposal, "cancelling"},
           cancelling' \in [Invs -> {"no", "racing", "uncertain"}],
           \A j \in Invs : disposal' = "cancelling" /\ Entered(j) =>
                              cancelling'[j] \in {"racing", "uncertain"}
    PROVE  IInv'
<1>0. Types /\ Slots /\ OneRuntimePerTask
  BY DEF IInv
<1>1. /\ aborted' \in SUBSET Invs
      /\ pc' = [j \in Invs |-> IF j \in S /\ pc[j] = "queued" THEN "notAdmitted" ELSE pc[j]]
      /\ pc' \in [Invs -> Labels]
      /\ killedForCancel' = killedForCancel \cup {j \in S : pc[j] = "spawned"}
      /\ stopping' = stopping \cup {j \in S : pc[j] = "spawned"}
      /\ tree' \in [Invs -> {"idle", "checking", "true", "false"}]
      /\ \A j \in Invs : tree'[j] = tree[j] \/ tree'[j] = "checking"
      /\ pending' \in Seq(Invs) /\ Len(pending') <= MaxPending
      /\ Slots'
  BY <1>0, AbortDoes
<1>2. /\ stopping' \in SUBSET Invs /\ killedForCancel' \in SUBSET Invs
      /\ disposal' \in {"no", "cancelling", "done", "failed"}
  BY <1>0, <1>1 DEF Types
<1>3. Types'
  BY <1>0, <1>1, <1>2 DEF Types
<1>4. OneRuntimePerTask'
  BY <1>0, AliveShrinks DEF Alive
<1>5. ASSUME NEW j \in Invs  PROVE Run(j)' /\ Told(j)'
  <2>1. Signalled(j)
    BY <1>1 DEF Signalled
  <2> QED BY <2>1, SignalKeeps
<1> QED BY <1>1, <1>3, <1>4, <1>5, Together DEF IInv

\* The signal of an invocation is aborted.
LEMMA CallerAbortsKeeps == ASSUME IInv, NEW i \in Invs, CallerAborts(i)  PROVE IInv'
<1>1. \A j \in Invs : disposal = "cancelling" /\ Entered(j) =>
                         cancelling[j] \in {"racing", "uncertain"}
  BY DEF IInv, Run
<1>2. cancelling \in [Invs -> {"no", "racing", "uncertain"}]
  BY DEF IInv, Types
<1>3. /\ AbortEffect({i})
      /\ UNCHANGED <<disposal, uncertainStops, invocations, active, cancelling, expired, report,
                     outcome, termination, proc, closed, killedForDeadline, wrote, handled>>
  BY DEF CallerAborts
<1> QED BY <1>1, <1>2, <1>3, AbortsKeep

\* Its task is cancelled.
LEMMA CancelKeeps == ASSUME IInv, NEW i \in Invs, Cancel(i)  PROVE IInv'
<1>1. \A j \in Invs : disposal = "cancelling" /\ Entered(j) =>
                         cancelling[j] \in {"racing", "uncertain"}
  BY DEF IInv, Run
<1>2. cancelling \in [Invs -> {"no", "racing", "uncertain"}]
  BY DEF IInv, Types
<1>3. /\ AbortEffect({i} \ aborted) /\ {i} \ aborted \in SUBSET Invs
      /\ cancelling' = [cancelling EXCEPT ![i] = "racing"]
      /\ UNCHANGED <<disposal, uncertainStops, invocations, active, expired, report, outcome,
                     termination, proc, closed, killedForDeadline, wrote, handled>>
  BY DEF Cancel
<1>4. /\ cancelling' \in [Invs -> {"no", "racing", "uncertain"}]
      /\ \A j \in Invs : disposal' = "cancelling" /\ Entered(j) =>
                            cancelling'[j] \in {"racing", "uncertain"}
  BY <1>1, <1>2, <1>3
<1> QED BY <1>3, <1>4, AbortsKeep

\* The adapter is disposed of.
LEMMA DisposeKeeps == ASSUME IInv, Dispose  PROVE IInv'
<1> DEFINE S == {i \in Invs : Entered(i) /\ TaskOf[i] \notin uncertainStops}
<1>1. /\ AbortEffect(S \ aborted) /\ S \ aborted \in SUBSET Invs
      /\ cancelling' = [i \in Invs |-> IF i \in S THEN "racing"
                                       ELSE IF Entered(i) THEN "uncertain" ELSE "no"]
      /\ disposal' = "cancelling"
      /\ UNCHANGED <<uncertainStops, invocations, active, expired, report, outcome, termination,
                     proc, closed, killedForDeadline, wrote, handled>>
  BY DEF Dispose
<1>2. /\ cancelling' \in [Invs -> {"no", "racing", "uncertain"}]
      /\ \A j \in Invs : Entered(j) => cancelling'[j] \in {"racing", "uncertain"}
  BY <1>1
<1> QED BY <1>1, <1>2, AbortsKeep

\* The race of a cancel is over: with an end, or without one and the task stays uncertain.
LEMMA AcknowledgeKeeps ==
    ASSUME IInv, NEW i \in Invs, CancelTimer(i) \/ Cancelled(i)
    PROVE  IInv'
<1>0. Types /\ Slots /\ OneRuntimePerTask /\ Run(i) /\ TaskOf[i] \in Tasks
  BY Facts
<1>1. UNCHANGED <<disposal, invocations, active, pending, pc, outcome, proc, locals>>
  BY DEF CancelTimer, Cancelled
<1>2. /\ cancelling' \in [Invs -> {"no", "racing", "uncertain"}]
      /\ \A j \in Invs : j # i => cancelling'[j] = cancelling[j]
      /\ CancelTimer(i) /\ disposal = "cancelling" => cancelling'[i] = "uncertain"
      /\ Cancelled(i) => pc[i] = "done"
  <2>0. cancelling \in [Invs -> {"no", "racing", "uncertain"}]
    BY <1>0 DEF Types
  <2>1. CASE CancelTimer(i)
    <3>1. cancelling' = [cancelling EXCEPT ![i] = IF disposal = "cancelling" THEN "uncertain"
                                                  ELSE "no"]
      BY <2>1 DEF CancelTimer, Acknowledge
    <3>2. pc[i] # "done"
      BY <2>1 DEF CancelTimer
    <3>3. ~Cancelled(i)
      BY <3>2 DEF Cancelled
    <3> QED BY <2>0, <3>1, <3>3
  <2>2. CASE Cancelled(i)
    <3>1. PICK answer \in {"no", "uncertain"} : cancelling' = [cancelling EXCEPT ![i] = answer]
      BY <2>2 DEF Cancelled, Acknowledge
    <3>2. pc[i] = "done"
      BY <2>2 DEF Cancelled
    <3>3. ~CancelTimer(i)
      BY <3>2 DEF CancelTimer
    <3> QED BY <2>0, <3>1, <3>2, <3>3
  <2> QED BY <2>1, <2>2
<1>3. /\ uncertainStops' \in SUBSET Tasks /\ uncertainStops \subseteq uncertainStops'
      /\ report' \in [Invs -> {"none", "running", "stopped", "unconfirmed"}]
      /\ \A j \in Invs : report'[j] \in {report[j], "unconfirmed"}
  BY <1>0 DEF Types, CancelTimer, Cancelled
<1>4. Types'
  BY <1>0, <1>1, <1>2, <1>3 DEF Types, locals, runVars
<1>5. Slots'
  BY <1>0, <1>1, SlotsUntouched DEF Holders, Holding
<1>6. OneRuntimePerTask'
  BY <1>0, <1>1, AliveShrinks DEF Alive
<1>7. ASSUME NEW j \in Invs  PROVE Run(j)' /\ Told(j)'
  <2>1. Signalled(j)
    BY <1>1 DEF Signalled, locals, runVars
  <2>2. disposal' = "cancelling" /\ Entered(j) => cancelling'[j] \in {"racing", "uncertain"}
    <3>1. Run(j)
      BY DEF IInv
    <3> QED BY <1>0, <1>1, <1>2, <3>1 DEF Run
  <2> QED BY <1>1, <1>3, <2>1, <2>2, SignalKeeps
<1> QED BY <1>4, <1>5, <1>6, <1>7, Together

\* A disposal that is done has nothing entered any more.
LEMMA DisposedKeeps == ASSUME IInv, Disposed  PROVE IInv'
<1>0. Types /\ Slots /\ OneRuntimePerTask
  BY DEF IInv
<1>1. /\ UNCHANGED <<uncertainStops, invocations, active, pending, cancelling, pc, report,
                     outcome, proc, locals>>
      /\ disposal = "cancelling" /\ disposal' \in {"done", "failed"}
      /\ \A i \in Invs : cancelling[i] # "racing"
      /\ disposal' = "done" => \A i \in Invs : cancelling[i] # "uncertain"
  BY DEF Disposed
<1>2. Types'
  BY <1>0, <1>1 DEF Types, locals, runVars
<1>3. Slots'
  BY <1>0, <1>1, SlotsUntouched DEF Holders, Holding
<1>4. OneRuntimePerTask'
  BY <1>0, <1>1, AliveShrinks DEF Alive
<1>5. ASSUME NEW j \in Invs  PROVE Run(j)' /\ Told(j)'
  <2>1. Run(j) /\ Told(j)
    BY DEF IInv
  <2>2. Run(j)'
    BY <1>1, <2>1 DEF Run, Entered, Alive, Unborn, locals, runVars
  <2>3. Told(j)'
    BY <1>1, <2>1 DEF Told, Alive, locals, runVars
  <2> QED BY <2>2, <2>3
<1> QED BY <1>2, <1>3, <1>4, <1>5 DEF IInv

\* Nothing changes.
LEMMA StutterKeeps == ASSUME IInv, UNCHANGED vars  PROVE IInv'
<1>1. /\ Types' = Types /\ Slots' = Slots /\ OneRuntimePerTask' = OneRuntimePerTask
      /\ \A i \in Invs : Run(i)' = Run(i) /\ Told(i)' = Told(i)
  BY DEF vars, slotVars, locals, runVars, Types, Slots, Holders, Holding, Waiting,
         OneRuntimePerTask, Alive, Run, Told, Entered, Unborn
<1> QED BY <1>1 DEF IInv
-----------------------------------------------------------------------------
(* The theorems.                                                           *)

\* The adapter starts with nothing entered.
LEMMA InitHolds == Init => IInv
<1> SUFFICES ASSUME Init  PROVE IInv
  OBVIOUS
<1> USE DEF Init
<1>1. Types
  BY ClaudeAssumption DEF Types, Labels
<1>2. Slots
  <2>1. Holders = {} /\ Waiting = {} /\ {i \in Invs : pc[i] = "queued"} = {}
    BY DEF Holders, Holding, Waiting
  <2>2. IsFiniteSet(Holders) /\ Cardinality(Holders) = 0
    BY <2>1, FS_EmptySet
  <2> QED BY <2>1, <2>2 DEF Slots
<1>3. \A i \in Invs : Run(i) /\ Told(i)
  BY ClaudeAssumption DEF Run, Told, Entered, Alive
<1>4. OneRuntimePerTask
  BY DEF OneRuntimePerTask, Alive
<1> QED BY <1>1, <1>2, <1>3, <1>4 DEF IInv

\* Every step of the adapter, of its runner and of its processes keeps the invariant.
LEMMA NextKeeps == IInv /\ [Next]_vars => IInv'
<1> SUFFICES ASSUME IInv, [Next]_vars  PROVE IInv'
  OBVIOUS
<1>1. CASE UNCHANGED vars
  BY <1>1, StutterKeeps
<1>2. CASE Dispose \/ Disposed
  BY <1>2, DisposeKeeps, DisposedKeeps
<1>3. ASSUME NEW i \in Invs, Advance(i)  PROVE IInv'
  BY <1>3, NotAdmittedKeeps, ExecuteKeeps, PreflightKeeps, SpawnKeeps, ProcessKeeps,
     StoppedKeeps, DrainedKeeps, ReturnKeeps DEF Advance
<1>4. ASSUME NEW i \in Invs,
             \/ Invoke(i) \/ Write(i) \/ Exit(i) \/ Checked(i) \/ Expire(i)
             \/ CallerAborts(i) \/ Cancel(i) \/ CancelTimer(i) \/ Cancelled(i)
      PROVE  IInv'
  BY <1>4, InvokeKeeps, ProcessKeeps, ExpireKeeps, CallerAbortsKeeps, CancelKeeps,
     AcknowledgeKeeps
<1> QED BY <1>1, <1>2, <1>3, <1>4 DEF Next

\* The inductive invariant holds in every state.
THEOREM Inductive == Spec => []IInv
  BY InitHolds, NextKeeps, PTL DEF Spec

\* The variables keep their types.
THEOREM TypesHold == Spec => []TypeOK
<1>1. IInv => TypeOK
  <2> SUFFICES ASSUME IInv  PROVE TypeOK
    OBVIOUS
  <2>1. Types
    BY DEF IInv
  <2>2. ASSUME NEW i \in Invs  PROVE handled[i] <= wrote[i] /\ wrote[i] <= Frames
    BY <2>1, ClaudeAssumption DEF Types
  <2> QED BY <2>1, <2>2 DEF TypeOK, Types
<1> QED BY <1>1, Inductive, PTL

\* No slot is lost and none is given twice, through every abort, deadline and hand-over
\* (acquireSlot and its release).
THEOREM SlotsAreConserved == Spec => []SlotsConserved
<1>1. IInv => SlotsConserved
  BY DEF IInv, Slots, SlotsConserved, Holders
<1> QED BY <1>1, Inductive, PTL

\* "stopped" is the last word of no run whose process group may still work
\* (reportRuntimeState).
THEOREM StopReportsAreHonest == Spec => []StopReportHonest
<1>1. IInv => StopReportHonest
  BY DEF IInv, Run, StopReportHonest
<1> QED BY <1>1, Inductive, PTL

\* Two process groups of one task are never alive together (invocations, uncertainStops).
THEOREM OneRuntime == Spec => []OneRuntimePerTask
<1>1. IInv => OneRuntimePerTask
  BY DEF IInv
<1> QED BY <1>1, Inductive, PTL

\* What is returned of a run is what its process wrote and how it ended.
THEOREM OutcomesMatch == Spec => []OutcomeMatchesRun
<1>1. IInv => OutcomeMatchesRun
  BY DEF IInv, Told, OutcomeMatchesRun
<1> QED BY <1>1, Inductive, PTL

\* A disposal that succeeded left nothing alive but what it named as uncertain.
THEOREM DisposalIsComplete == Spec => []DisposeLeavesNothing
<1>1. IInv => DisposeLeavesNothing
  <2> SUFFICES ASSUME IInv, disposal = "done", NEW i \in Invs, Alive(i)
               PROVE  TaskOf[i] \in uncertainStops
    BY DEF DisposeLeavesNothing
  <2>1. Run(i) /\ ~Entered(i)
    BY DEF IInv, Run
  <2>2. pc[i] = "done"
    BY <2>1 DEF Run, Alive, Unborn
  <2> QED BY <2>1, <2>2 DEF Run
<1> QED BY <1>1, Inductive, PTL
=============================================================================
