----------------------- MODULE RecoveryRequestsProofs -----------------------
(***************************************************************************)
(* Theorems about RecoveryRequests: whatever the number of servers, keys   *)
(* and reservations, a key starts one attempt and an attempt is started    *)
(* once, all callers of a key are told one verdict, and a reservation that *)
(* nobody executes can be closed.  The reason is that the generation of a  *)
(* reservation binds its key, its execution and its row to each other: who *)
(* executes it (Serving) acts only while the row is still its own.         *)
(***************************************************************************)
EXTENDS RecoveryRequests, TLAPS

\* A launched attempt is one of those the task has had, and one launch of it.
Launched(k) == \E x \in launches : x[1] = k
Ordered ==
    /\ attempt <= row.gen
    /\ \A x \in launches : x[2] <= attempt
    /\ NeverRelaunched

\* What is stored under a key, and what was said about it.
KeyOk(k) ==
    LET r == kept[k] IN
    /\ r = None \/ r.phase = "PREPARING" => told[k] = {} /\ ~Launched(k)
    /\ r # None => r.gen <= row.gen
    /\ r # None /\ r.phase = "AUTHORIZED" =>
          /\ <<k, r.attempt, r.gen>> \in launches
          /\ told[k] \subseteq {att[r.attempt]} /\ (att[r.attempt] = "open" => told[k] = {})
    /\ r # None /\ r.phase = "FINISHED" =>
          /\ r.answer \in Answers
          /\ IF r.answer \in LaunchCodes THEN Launched(k) /\ told[k] \subseteq {r.answer}
             ELSE told[k] \cap LaunchCodes = {}

\* An execution and what was stored for it.
Refused(k) == kept[k].phase = "PREPARING" \/ (kept[k].phase = "FINISHED" /\ kept[k].answer \notin LaunchCodes)
Serving(p) ==
    LET h == hand[p] IN
    h # None =>
        /\ p \in up /\ h.lease <= row.gen /\ h.attempt <= h.lease
        /\ lease[h.lease] # "QUARANTINED"
        /\ h.pc # "prepared" => h.gen = h.lease
        /\ h.key # NoKey =>
              /\ kept[h.key] # None /\ kept[h.key].gen = h.lease /\ kept[h.key].attempt = h.attempt
              /\ IF h.pc = "running" THEN kept[h.key].phase = "AUTHORIZED"
                 ELSE Refused(h.key) /\ ~Launched(h.key)
        /\ h.pc = "running" => <<h.key, h.attempt, h.lease>> \in launches
        /\ h.pc = "failed" => h.error \in Errors

\* The row, as long as it belongs to the execution.
Preparing(k) == k # NoKey => kept[k].phase = "PREPARING"
Owning(p) ==
    LET h == hand[p] IN
    /\ h # None /\ h.pc = "prepared" => row.gen = h.lease
    /\ h # None /\ row.gen = h.lease =>
          /\ row.by = p
          /\ h.pc \in {"prepared", "queued"} => row.stop
          /\ h.pc \in {"prepared", "queued"} =>
                \/ row.phase = "QUEUED" /\ ~row.cancel /\ Preparing(h.key)
                \/ row.phase = "STOPPED" /\ row.cancel /\ task = "CANCELLED"
          /\ h.pc = "admitted" => row.stop /\ row.phase = "RUNNING" /\ Preparing(h.key)
          /\ h.pc = "failed" => row.stop /\ row.phase \in {"RUNNING", "STOPPED"}
          /\ h.pc = "running" => att[h.attempt] = "open"

\* A generation belongs to one execution and one key.
Bound ==
    /\ \A p, q \in Server : hand[p] # None /\ hand[q] # None /\ hand[p].lease = hand[q].lease => p = q
    /\ \A p \in Server, k \in Key :
          hand[p] # None /\ kept[k] # None /\ kept[k].gen = hand[p].lease => hand[p].key = k

IInv ==
    /\ TypeOK /\ Ordered /\ Bound
    /\ \A k \in Key : KeyOk(k)
    /\ \A p \in Server : Serving(p) /\ Owning(p)
    /\ AbandonedIsClosable
-----------------------------------------------------------------------------
\* At first nothing is reserved.
LEMMA InitRequests == ASSUME Sane, Init PROVE IInv
  <1>1. TypeOK
    BY DEF Sane, Init, TypeOK, NoRow, Row, Gen, Answers, Errors, Terminal
  <1>2. Ordered /\ Bound
    BY DEF Sane, Init, Ordered, Bound, NeverRelaunched, NoRow
  <1>3. \A k \in Key : KeyOk(k)
    BY DEF Init, KeyOk, Launched
  <1>4. (\A p \in Server : Serving(p) /\ Owning(p)) /\ AbandonedIsClosable
    BY DEF Init, Serving, Owning, AbandonedIsClosable
  <1> QED
    BY <1>1, <1>2, <1>3, <1>4 DEF IInv

\* The fields of an execution.
LEMMA Fields ==
  ASSUME TypeOK, NEW p \in Server, hand[p] # None
  PROVE  /\ hand[p] \in Execution
         /\ hand[p].key \in Key \cup {NoKey} /\ hand[p].lease \in Gen /\ hand[p].gen \in 0..MaxGen
         /\ hand[p].attempt \in 0..MaxGen /\ hand[p].pc \in Phases
         /\ hand[p].error \in Errors \cup {None}
  <1>1. hand[p] \in Execution
    BY DEF TypeOK
  <1> QED
    BY <1>1 DEF Execution

\* Who is past its reading of the row and finds it current has the generation of the row.
LEMMA CurrentOwns ==
  ASSUME Sane, IInv, NEW p \in Server, hand[p] # None, hand[p].pc # "prepared", Current(p)
  PROVE  /\ hand[p].lease = row.gen /\ row.by = p /\ p \in up
         /\ \A q \in Server : hand[q] # None /\ q # p => hand[q].lease # row.gen
  BY DEF IInv, Serving, Owning, Bound, Current

\* The row of a dead server belongs to nobody.
LEMMA DeadBelongs ==
  ASSUME IInv, NEW p \in Server, hand[p] # None, row.gen = hand[p].lease PROVE ~DeadRow
  BY DEF IInv, Serving, Owning, DeadRow

\* What a reconciliation makes of the row and the leases: nothing, or the end of a dead server's.
LEMMA ReconciledFacts ==
  ASSUME Sane, TypeOK
  PROVE  /\ Reconciled.row \in Row /\ Reconciled.row.gen = row.gen /\ Reconciled.row.by = row.by
         /\ Reconciled.row.phase \in {row.phase, "STOPPED", "QUARANTINED"}
         /\ Reconciled.lease \in [Gen -> {"none", "HELD", "QUARANTINED", "RELEASED", "EXPIRED"}]
         /\ \A g \in Gen : g # row.gen => Reconciled.lease[g] = lease[g]
         /\ ~DeadRow => Reconciled.row = row /\ Reconciled.lease = lease
         /\ DeadRow => Reconciled.row.phase \in {"STOPPED", "QUARANTINED"} /\ row.by \notin up
  <1>1. /\ Stopped \in Row /\ Stopped.gen = row.gen /\ Stopped.by = row.by /\ Stopped.phase = "STOPPED"
        /\ [row EXCEPT !.phase = "QUARANTINED"] \in Row
        /\ [row EXCEPT !.phase = "QUARANTINED"].gen = row.gen
        /\ [row EXCEPT !.phase = "QUARANTINED"].by = row.by
        /\ [row EXCEPT !.phase = "QUARANTINED"].phase = "QUARANTINED"
    BY DEF TypeOK, Row, Stopped
  <1>2. ASSUME NEW s \in {"RELEASED", "QUARANTINED"}
        PROVE  /\ SetLease(row.gen, s) \in [Gen -> {"none", "HELD", "QUARANTINED", "RELEASED", "EXPIRED"}]
               /\ \A g \in Gen : g # row.gen => SetLease(row.gen, s)[g] = lease[g]
    BY DEF TypeOK, SetLease, Held
  <1>3. CASE ~DeadRow
    BY <1>3 DEF Reconciled, TypeOK
  <1>4. CASE DeadRow /\ (row.phase = "QUEUED" \/ row.stop)
    BY <1>1, <1>2, <1>4 DEF Reconciled, DeadRow
  <1>5. CASE DeadRow /\ ~(row.phase = "QUEUED" \/ row.stop)
    BY <1>1, <1>2, <1>5 DEF Reconciled, DeadRow
  <1> QED
    BY <1>3, <1>4, <1>5

\* A step that leaves reservations, executions and history alone keeps what is said of them, if it
\* leaves the row to who has it.
LEMMA RowStep ==
  ASSUME Sane, IInv, UNCHANGED <<up, attempt, att, kept, hand, launches, told>>,
         row' \in Row, row'.gen = row.gen, row'.by = row.by,
         task' \in Terminal \cup {"WORKING", "BLOCKED"},
         lease' \in [Gen -> {"none", "HELD", "QUARANTINED", "RELEASED", "EXPIRED"}],
         \A p \in Server : hand[p] # None => lease'[hand[p].lease] # "QUARANTINED",
         \A p \in Server : Owning(p)', AbandonedIsClosable'
  PROVE IInv'
  <1>1. TypeOK'
    BY DEF IInv, TypeOK
  <1>2. Ordered' /\ Bound'
    BY DEF IInv, Ordered, Bound, NeverRelaunched
  <1>3. \A k \in Key : KeyOk(k)'
    BY DEF IInv, KeyOk, Launched
  <1>4. \A p \in Server : Serving(p)'
    BY DEF IInv, Serving, Refused, Launched
  <1> QED
    BY <1>1, <1>2, <1>3, <1>4 DEF IInv

\* A reservation in preparation that nobody executes has a generation nobody executes.
LEMMA NobodyCurrent ==
  ASSUME IInv, NEW k \in Key, kept[k] # None, \A p \in up : hand[p] = None \/ hand[p].key # k
  PROVE  \A p \in Server : hand[p] # None => hand[p].lease # kept[k].gen
  BY DEF IInv, Bound, Serving

\* The row of a dead server is settled.
LEMMA ReconcileKeeps == ASSUME Sane, IInv, Reconcile PROVE IInv'
  <1>1. /\ DeadRow /\ row' = Reconciled.row /\ lease' = Reconciled.lease /\ TypeOK
        /\ UNCHANGED <<up, task, attempt, att, kept, hand, launches, told>>
    BY DEF Reconcile, IInv
  <1>2. \A p \in Server : hand[p] # None => row.gen # hand[p].lease
    BY <1>1, DeadBelongs
  <1>3. /\ row' \in Row /\ row'.gen = row.gen /\ row'.by = row.by /\ row.by \notin up
        /\ lease' \in [Gen -> {"none", "HELD", "QUARANTINED", "RELEASED", "EXPIRED"}]
        /\ \A g \in Gen : g # row.gen => lease'[g] = lease[g]
    BY <1>1, ReconciledFacts
  <1>4. \A p \in Server : Owning(p)'
    BY <1>1, <1>2, <1>3 DEF IInv, Owning
  <1>5. \A p \in Server : hand[p] # None => lease'[hand[p].lease] # "QUARANTINED"
    BY <1>1, <1>2, <1>3, Fields DEF IInv, Serving
  <1>6. AbandonedIsClosable'
    BY <1>1, <1>3 DEF AbandonedIsClosable
  <1> QED
    BY <1>1, <1>3, <1>4, <1>5, <1>6, RowStep DEF TypeOK

\* A cancellation marks a row at work, and stops any other.
LEMMA CancelKeeps == ASSUME Sane, IInv, Cancel PROVE IInv'
  <1>1. TypeOK /\ UNCHANGED <<up, attempt, att, kept, hand, launches, told>> /\ task \notin Terminal
    BY DEF Cancel, IInv
  <1>2. CASE row.phase \in {"RUNNING", "QUARANTINED"}
    <2>1. /\ row' \in Row /\ row'.gen = row.gen /\ row'.by = row.by /\ row'.phase = row.phase
          /\ row'.stop = row.stop /\ UNCHANGED <<task, lease>>
      BY <1>1, <1>2 DEF Cancel, TypeOK, Row
    <2>2. \A p \in Server : Owning(p)'
      BY <1>1, <1>2, <2>1 DEF IInv, Owning, Preparing
    <2>3. AbandonedIsClosable'
      BY <1>1, <2>1 DEF IInv, AbandonedIsClosable
    <2> QED
      BY <1>1, <2>1, <2>2, <2>3, RowStep DEF TypeOK, IInv, Serving
  <1>3. CASE row.phase \notin {"RUNNING", "QUARANTINED"}
    <2>1. /\ row' \in Row /\ row'.gen = row.gen /\ row'.by = row.by /\ row'.phase = "STOPPED"
          /\ row'.stop = TRUE /\ (row.phase = "QUEUED" => row'.cancel = TRUE)
          /\ lease' = SetLease(row.gen, "RELEASED") /\ task' = "CANCELLED"
      BY <1>1, <1>3 DEF Cancel, TypeOK, Row, Stopped
    <2>2. /\ lease' \in [Gen -> {"none", "HELD", "QUARANTINED", "RELEASED", "EXPIRED"}]
          /\ \A g \in Gen : lease'[g] \in {lease[g], "RELEASED"}
      BY <1>1, <2>1 DEF SetLease, Held, TypeOK
    <2>3. \A p \in Server : Owning(p)'
      BY <1>1, <1>3, <2>1 DEF IInv, Owning, Preparing, Terminal
    <2>4. AbandonedIsClosable'
      BY <1>1, <2>1 DEF AbandonedIsClosable
    <2>5. \A p \in Server : hand[p] # None => lease'[hand[p].lease] # "QUARANTINED"
      BY <1>1, <2>2, Fields DEF IInv, Serving
    <2>6. task' \in Terminal
      BY <2>1 DEF Terminal
    <2> QED
      BY <1>1, <2>1, <2>2, <2>3, <2>4, <2>5, <2>6, RowStep
  <1> QED
    BY <1>2, <1>3

\* A lease lapses that nobody executes under.
LEMMA ExpireKeeps == ASSUME Sane, IInv, NEW g \in Gen, Expire(g) PROVE IInv'
  <1>1. /\ UNCHANGED <<up, task, attempt, att, row, kept, hand, launches, told>> /\ TypeOK
        /\ \E s \in {"QUARANTINED", "EXPIRED"} : lease' = [lease EXCEPT ![g] = s]
        /\ \A p \in Server : hand[p] # None => hand[p].lease # g
    BY DEF Expire, IInv
  <1>2. /\ lease' \in [Gen -> {"none", "HELD", "QUARANTINED", "RELEASED", "EXPIRED"}]
        /\ \A p \in Server : hand[p] # None => lease'[hand[p].lease] # "QUARANTINED"
    BY <1>1, Fields DEF TypeOK, IInv, Serving
  <1>3. (\A p \in Server : Owning(p)') /\ AbandonedIsClosable'
    BY <1>1 DEF IInv, Owning, Preparing, AbandonedIsClosable
  <1> QED
    BY <1>1, <1>2, <1>3, RowStep DEF TypeOK

\* The runtime of a current execution ends, or blocks its task.
LEMMA RuntimeKeeps == ASSUME Sane, IInv, NEW p \in Server, ReportStopped(p) \/ RaiseBlocker(p) PROVE IInv'
  <1>1. /\ UNCHANGED <<up, attempt, att, kept, hand, launches, told, lease>> /\ TypeOK
        /\ hand[p] # None /\ hand[p].pc = "running" /\ Current(p)
        /\ \/ row' = [row EXCEPT !.stop = TRUE] /\ task' = task
           \/ row' = row /\ task' = "BLOCKED"
    BY DEF ReportStopped, RaiseBlocker, Running, IInv
  <1>2. /\ row' \in Row /\ row'.gen = row.gen /\ row'.by = row.by /\ row'.phase = row.phase
    BY <1>1 DEF TypeOK, Row
  <1>3. /\ hand[p].lease = row.gen /\ p \in up
        /\ \A q \in Server : hand[q] # None /\ q # p => hand[q].lease # row.gen
    BY <1>1, CurrentOwns
  <1>4. \A q \in Server : Owning(q)'
    BY <1>1, <1>2, <1>3 DEF IInv, Owning
  <1>5. ASSUME NEW k \in Key, kept[k] # None, kept[k].phase = "PREPARING", kept[k].gen = row.gen
        PROVE  \E q \in up : hand[q] # None /\ hand[q].key = k
    BY <1>1, <1>3, <1>5 DEF IInv, Bound
  <1>6. AbandonedIsClosable'
    BY <1>1, <1>2, <1>5 DEF AbandonedIsClosable
  <1> QED
    BY <1>1, <1>2, <1>4, <1>6, RowStep DEF IInv, Serving, TypeOK

\* Answering a key changes nothing but what was told of it.
LEMMA ReplayKeeps ==
  ASSUME Sane, IInv, NEW p \in Server, NEW k \in Key, ReplayFinished(p, k) \/ ReplayAuthorized(p, k)
  PROVE IInv'
  <1>1. /\ UNCHANGED <<up, task, attempt, att, row, lease, kept, hand, launches>> /\ k # NoKey
        /\ kept[k] # None /\ kept[k] \in Reservation /\ TypeOK
    BY DEF ReplayFinished, ReplayAuthorized, Known, stored, IInv, TypeOK, Sane
  <1>2. PICK a \in Answers :
          /\ told' = [told EXCEPT ![k] = @ \cup {a}]
          /\ \/ kept[k].phase = "FINISHED" /\ a = kept[k].answer
             \/ kept[k].phase = "AUTHORIZED" /\ a = att[kept[k].attempt] /\ a # "open"
    BY <1>1 DEF ReplayFinished, ReplayAuthorized, Tell, IInv, KeyOk, TypeOK, Reservation
  <1>3. TypeOK'
    BY <1>1, <1>2 DEF TypeOK
  <1>4. Ordered' /\ Bound' /\ AbandonedIsClosable'
    BY <1>1 DEF IInv, Ordered, Bound, NeverRelaunched, AbandonedIsClosable
  <1>5. \A j \in Key : KeyOk(j)'
    BY <1>1, <1>2 DEF IInv, TypeOK, KeyOk, Launched
  <1>6. \A q \in Server : Serving(q)' /\ Owning(q)'
    BY <1>1 DEF IInv, Serving, Owning, Refused, Preparing, Launched
  <1> QED
    BY <1>3, <1>4, <1>5, <1>6 DEF IInv

\* An execution that has not launched goes on, or fails.
LEMMA ExecutionStep ==
  ASSUME Sane, IInv, NEW p \in Server, hand[p] # None, hand'[p] # None,
         hand' \in [Server -> Execution \cup {None}], \A q \in Server : q # p => hand'[q] = hand[q],
         hand'[p].key = hand[p].key, hand'[p].lease = hand[p].lease, hand'[p].attempt = hand[p].attempt,
         hand[p].pc # "running", hand'[p].pc \notin {"running", "prepared"},
         hand'[p].gen = hand[p].lease, hand'[p].pc = "failed" => hand'[p].error \in Errors,
         UNCHANGED <<up, attempt, att, lease, kept, launches, told>>,
         row' \in Row, row'.gen = row.gen, row'.by = row.by, task' \in Terminal \cup {"WORKING", "BLOCKED"},
         (row' = row /\ task' = task) \/ row.gen = hand[p].lease,
         Owning(p)'
  PROVE IInv'
  <1>1. TypeOK'
    BY DEF IInv, TypeOK
  <1>2. Ordered' /\ Bound'
    BY DEF IInv, Ordered, Bound, NeverRelaunched
  <1>3. \A k \in Key : KeyOk(k)'
    BY DEF IInv, KeyOk, Launched
  <1>4. \A q \in Server : Serving(q)'
    BY DEF IInv, Serving, Refused, Launched
  <1>5. ASSUME NEW q \in Server, q # p PROVE Owning(q)'
    <2>1. Owning(q) /\ (hand[q] # None => hand[q].lease # hand[p].lease)
      BY <1>5 DEF IInv, Bound
    <2> QED
      BY <1>5, <2>1 DEF Owning, Preparing
  <1>6. ASSUME NEW k \in Key, kept[k] # None, kept[k].phase = "PREPARING", kept[k].gen = hand[p].lease
        PROVE  \E q \in up' : hand'[q] # None /\ hand'[q].key = k
    BY <1>6 DEF IInv, Bound, Serving
  <1>7. \A k \in Key : (\A q \in up' : hand'[q] = None \/ hand'[q].key # k) =>
                             \A q \in up : hand[q] = None \/ hand[q].key # k
    BY DEF IInv, TypeOK
  <1>8. AbandonedIsClosable'
    BY <1>6, <1>7 DEF IInv, AbandonedIsClosable
  <1> QED
    BY <1>1, <1>2, <1>3, <1>4, <1>5, <1>8 DEF IInv

\* It reads the row its reservation has made.
LEMMA ReadKeeps == ASSUME Sane, IInv, NEW p \in Server, ReadRow(p) PROVE IInv'
  <1> DEFINE h == hand[p]
             n == [h EXCEPT !.gen = row.gen, !.pc = "queued"]
  <1>1. /\ h # None /\ h.pc = "prepared" /\ hand' = [hand EXCEPT ![p] = n] /\ TypeOK
        /\ UNCHANGED <<up, task, attempt, att, row, lease, kept, launches, told>>
    BY DEF ReadRow, stored, IInv
  <1>2. h \in Execution /\ row.gen = h.lease
    BY <1>1, Fields DEF IInv, Owning
  <1>3. /\ n \in Execution /\ n.key = h.key /\ n.lease = h.lease /\ n.attempt = h.attempt
        /\ n.pc = "queued" /\ n.gen = h.lease
    BY <1>1, <1>2 DEF Execution, TypeOK, Row, Phases
  <1>4. hand'[p] = n /\ n # None /\ \A q \in Server : q # p => hand'[q] = hand[q]
    BY <1>1, <1>3 DEF TypeOK, Sane
  <1>5. hand' \in [Server -> Execution \cup {None}]
    BY <1>1, <1>3 DEF TypeOK
  <1>6. Owning(p)'
    BY <1>1, <1>2, <1>3, <1>4 DEF IInv, Owning, Preparing
  <1> QED
    BY <1>1, <1>3, <1>4, <1>5, <1>6, ExecutionStep DEF TypeOK

\* Admission runs the row, or stops it for a cancellation or the deadline.
LEMMA AdmitKeeps == ASSUME Sane, IInv, NEW p \in Server, Admit(p) PROVE IInv'
  <1> DEFINE h == hand[p]
             F(e) == [h EXCEPT !.pc = "failed", !.error = e]
  <1>1. /\ h # None /\ h.pc = "queued" /\ TypeOK /\ h.gen = h.lease
        /\ UNCHANGED <<up, attempt, att, lease, kept, launches, told>>
    BY DEF Admit, IInv, Serving
  <1>2. h \in Execution /\ Row # {} /\ row \in Row
    BY <1>1, Fields DEF TypeOK
  <1>3. ASSUME NEW n, n \in Execution, n.key = h.key, n.lease = h.lease, n.attempt = h.attempt,
               n.gen = h.gen, hand' = [hand EXCEPT ![p] = n]
        PROVE  /\ hand'[p] = n /\ n # None /\ \A q \in Server : q # p => hand'[q] = hand[q]
               /\ hand' \in [Server -> Execution \cup {None}]
    BY <1>3 DEF Sane, IInv, TypeOK
  <1>4. ASSUME NEW e \in Errors
        PROVE  /\ F(e) \in Execution /\ F(e).key = h.key /\ F(e).lease = h.lease
               /\ F(e).attempt = h.attempt /\ F(e).gen = h.gen /\ F(e).pc = "failed" /\ F(e).error = e
    BY <1>2 DEF Execution, Phases
  <1>5. CASE ~Current(p) /\ Failed(p, "obsolete") /\ UNCHANGED <<row, task>>
    <2>1. "obsolete" \in Errors /\ hand' = [hand EXCEPT ![p] = F("obsolete")] /\ row.gen # h.lease
      BY <1>1, <1>5 DEF Errors, Failed, Current
    <2> HIDE DEF F
    <2>2. Owning(p)'
      BY <1>3, <1>4, <1>5, <2>1 DEF Owning
    <2>3. /\ hand'[p] # None /\ hand'[p].key = h.key /\ hand'[p].lease = h.lease
          /\ hand'[p].attempt = h.attempt /\ hand'[p].gen = h.lease /\ hand'[p].pc = "failed"
          /\ hand'[p].error \in Errors /\ hand' \in [Server -> Execution \cup {None}]
          /\ \A q \in Server : q # p => hand'[q] = hand[q]
      BY <1>1, <1>3, <1>4, <2>1
    <2> QED
      BY <1>1, <1>5, <2>2, <2>3, ExecutionStep DEF TypeOK
  <1>6. ASSUME Current(p), row' = Stopped, NEW e \in Errors, Failed(p, e),
               task' \in Terminal \cup {"WORKING", "BLOCKED"}
        PROVE  IInv'
    <2>1. hand' = [hand EXCEPT ![p] = F(e)] /\ row.gen = h.lease /\ row.by = p
      BY <1>1, <1>6, CurrentOwns DEF Failed
    <2>2. /\ row' \in Row /\ row'.gen = row.gen /\ row'.by = row.by /\ row'.stop = TRUE
          /\ row'.phase = "STOPPED"
      BY <1>2, <1>6 DEF Stopped, Row
    <2> HIDE DEF F
    <2>3. Owning(p)'
      BY <1>3, <1>4, <2>1, <2>2 DEF Owning
    <2>4. /\ hand'[p] # None /\ hand'[p].key = h.key /\ hand'[p].lease = h.lease
          /\ hand'[p].attempt = h.attempt /\ hand'[p].gen = h.lease /\ hand'[p].pc = "failed"
          /\ hand'[p].error \in Errors /\ hand' \in [Server -> Execution \cup {None}]
          /\ \A q \in Server : q # p => hand'[q] = hand[q]
      BY <1>1, <1>3, <1>4, <2>1
    <2> QED
      BY <1>1, <1>6, <2>1, <2>2, <2>3, <2>4, ExecutionStep
  <1>7. CASE /\ Current(p) /\ ~row.cancel /\ row.phase \in {"QUEUED", "RUNNING"}
             /\ row' = [row EXCEPT !.phase = "RUNNING"]
             /\ hand' = [hand EXCEPT ![p].pc = "admitted"] /\ UNCHANGED task
    <2> DEFINE n == [h EXCEPT !.pc = "admitted"]
    <2>1. /\ n \in Execution /\ n.key = h.key /\ n.lease = h.lease /\ n.attempt = h.attempt
          /\ n.gen = h.gen /\ n.pc = "admitted" /\ hand' = [hand EXCEPT ![p] = n]
      BY <1>2, <1>7 DEF Execution, Phases
    <2>2. row.gen = h.lease /\ row.by = p /\ row.stop /\ Preparing(h.key)
      BY <1>1, <1>7, CurrentOwns DEF IInv, Owning
    <2>3. /\ row' \in Row /\ row'.gen = row.gen /\ row'.by = row.by /\ row'.stop = row.stop
          /\ row'.phase = "RUNNING"
      BY <1>2, <1>7 DEF Row
    <2> HIDE DEF n
    <2>4. Owning(p)'
      BY <1>1, <1>3, <2>1, <2>2, <2>3 DEF Owning, Preparing
    <2>5. /\ hand'[p] # None /\ hand'[p].key = h.key /\ hand'[p].lease = h.lease
          /\ hand'[p].attempt = h.attempt /\ hand'[p].gen = h.lease /\ hand'[p].pc = "admitted"
          /\ hand' \in [Server -> Execution \cup {None}]
          /\ \A q \in Server : q # p => hand'[q] = hand[q]
      BY <1>1, <1>3, <2>1
    <2> QED
      BY <1>1, <1>7, <2>2, <2>3, <2>4, <2>5, ExecutionStep DEF TypeOK
  <1>8. /\ "TASK_CANCELLED" \in Errors /\ "TIMEOUT" \in Errors
        /\ task \in Terminal \cup {"WORKING", "BLOCKED"} /\ "CANCELLED" \in Terminal
    BY <1>1 DEF Errors, TypeOK, Terminal
  <1> HIDE DEF F
  <1> QED
    BY <1>5, <1>6, <1>7, <1>8 DEF Admit

\* What storing a phase under a key changes: that, and nothing when there is no key.
LEMMA StoreFacts ==
  ASSUME Sane, TypeOK, NEW k \in Key \cup {NoKey}, k # NoKey => kept[k] # None,
         NEW phase \in {"PREPARING", "AUTHORIZED", "FINISHED"}, NEW a \in Answers \cup {None},
         Store(k, phase, a)
  PROVE  /\ kept' \in [Key -> Reservation \cup {None}]
         /\ \A j \in Key : j # k => kept'[j] = kept[j]
         /\ k # NoKey => /\ kept'[k] # None /\ kept'[k].gen = kept[k].gen
                         /\ kept'[k].attempt = kept[k].attempt
                         /\ kept'[k].phase = phase /\ kept'[k].answer = a
  <1>1. CASE k = NoKey
    BY <1>1 DEF Store, TypeOK, Sane
  <1>2. CASE k # NoKey
    <2> DEFINE n == [kept[k] EXCEPT !.phase = phase, !.answer = a]
    <2>1. kept[k] \in Reservation /\ k \in Key
      BY <1>2 DEF TypeOK
    <2>2. kept' = [kept EXCEPT ![k] = n]
      BY <1>2 DEF Store
    <2>3. /\ n \in Reservation /\ n.gen = kept[k].gen /\ n.attempt = kept[k].attempt
          /\ n.phase = phase /\ n.answer = a
      BY <2>1 DEF Reservation
    <2> HIDE DEF n
    <2> QED
      BY <1>2, <2>1, <2>2, <2>3 DEF TypeOK, Sane
  <1> QED
    BY <1>1, <1>2

\* What telling an answer changes.
LEMMA TellFacts ==
  ASSUME Sane, TypeOK, NEW k \in Key \cup {NoKey}, NEW a \in Answers, Tell(k, a)
  PROVE  /\ told' \in [Key -> SUBSET Answers]
         /\ \A j \in Key : told'[j] = IF j = k THEN told[j] \cup {a} ELSE told[j]
  BY DEF Tell, TypeOK, Sane

\* Two executions have different keys, if any.
LEMMA KeysDiffer ==
  ASSUME IInv, NEW p \in Server, NEW q \in Server, p # q, hand[p] # None, hand[q] # None,
         hand[p].key # NoKey
  PROVE  hand[q].key # hand[p].key
  <1>1. SUFFICES ASSUME hand[q].key = hand[p].key PROVE FALSE
    OBVIOUS
  <1>2. kept[hand[p].key].gen = hand[p].lease /\ kept[hand[q].key].gen = hand[q].lease
    BY <1>1 DEF IInv, Serving
  <1> QED
    BY <1>1, <1>2 DEF IInv, Bound

\* A step that ends one execution, and touches no other's.
LEMMA LeaveStep ==
  ASSUME Sane, IInv, NEW p \in Server, hand[p] # None, hand' = [hand EXCEPT ![p] = None],
         TypeOK', UNCHANGED <<attempt, launches>>, up' \in {up, up \ {p}},
         \A j \in Key : (kept'[j] = None <=> kept[j] = None) /\ kept'[j].gen = kept[j].gen,
         \A j \in Key : j # hand[p].key => kept'[j] = kept[j],
         \A g \in Gen : g # hand[p].lease => lease'[g] = lease[g],
         row'.gen = row.gen, row'.by = row.by,
         UNCHANGED <<row, task, att>> \/ row.gen = hand[p].lease,
         \A j \in Key : KeyOk(j)',
         hand[p].key # NoKey =>
            LET r == kept'[hand[p].key] IN
            \/ r.phase # "PREPARING" \/ r.gen # row'.gen \/ row'.phase = "STOPPED" \/ row'.by \notin up'
            \/ task' = "BLOCKED" /\ row'.phase = "RUNNING"
  PROVE IInv'
  <1>1. hand'[p] = None /\ (\A q \in Server : q # p => hand'[q] = hand[q]) /\ TypeOK
    BY DEF IInv, TypeOK
  <1>2. Ordered' /\ Bound'
    BY <1>1 DEF IInv, Ordered, Bound, NeverRelaunched
  <1>3. ASSUME NEW q \in Server, q # p, hand[q] # None
        PROVE  /\ hand[q].lease # hand[p].lease /\ hand[q].lease \in Gen
               /\ hand[q].key # NoKey => hand[q].key \in Key /\ kept'[hand[q].key] = kept[hand[q].key]
    <2>1. hand[q].lease # hand[p].lease
      BY <1>3 DEF IInv, Bound
    <2>2. hand[q].lease \in Gen /\ hand[q].key \in Key \cup {NoKey}
      BY <1>1, <1>3, Fields
    <2>3. hand[q].key # NoKey => hand[q].key # hand[p].key
      BY <1>3, KeysDiffer
    <2> QED
      BY <2>1, <2>2, <2>3
  <1>4. ASSUME NEW q \in Server PROVE Serving(q)' /\ Owning(q)'
    <2>1. CASE hand'[q] = None
      BY <2>1 DEF Serving, Owning
    <2>2. CASE hand'[q] # None
      <3>1. q # p /\ hand'[q] = hand[q] /\ hand[q] # None /\ Serving(q) /\ Owning(q)
        BY <1>1, <2>2 DEF IInv
      <3>2. Serving(q)'
        BY <1>3, <3>1 DEF Serving, Refused, Launched
      <3>3. Owning(q)'
        BY <1>3, <3>1 DEF Owning, Preparing
      <3> QED
        BY <3>2, <3>3
    <2> QED
      BY <2>1, <2>2
  <1>5. ASSUME NEW k \in Key, kept'[k] # None, kept'[k].phase = "PREPARING",
               \A q \in up' : hand'[q] = None \/ hand'[q].key # k
        PROVE  \/ kept'[k].gen # row'.gen \/ row'.phase = "STOPPED" \/ row'.by \notin up'
               \/ task' = "BLOCKED" /\ row'.phase = "RUNNING"
    <2>1. CASE k = hand[p].key
      BY <2>1, <1>5 DEF Sane
    <2>2. CASE k # hand[p].key
      <3>1. kept'[k] = kept[k] /\ \A q \in up : hand[q] = None \/ hand[q].key # k
        BY <1>1, <1>5, <2>2 DEF TypeOK
      <3>2. kept[k].gen # hand[p].lease
        BY <1>5, <2>2, <3>1 DEF IInv, Bound
      <3> QED
        BY <1>5, <3>1, <3>2 DEF IInv, AbandonedIsClosable
    <2> QED
      BY <2>1, <2>2
  <1>6. AbandonedIsClosable'
    BY <1>5 DEF AbandonedIsClosable
  <1> QED
    BY <1>2, <1>4, <1>6 DEF IInv

\* A server dies, and its execution with it.
LEMMA DieKeeps == ASSUME Sane, IInv, NEW p \in Server, Die(p) PROVE IInv'
  <1>1. /\ p \in up /\ up' = up \ {p} /\ hand' = [hand EXCEPT ![p] = None] /\ TypeOK
        /\ UNCHANGED <<task, attempt, att, row, lease, kept, launches, told>>
    BY DEF Die, stored, IInv
  <1>2. CASE hand[p] = None
    <2>1. hand' = hand
      BY <1>1, <1>2 DEF TypeOK
    <2>2. TypeOK' /\ Ordered' /\ Bound' /\ \A k \in Key : KeyOk(k)'
      BY <1>1, <2>1 DEF IInv, TypeOK, Ordered, NeverRelaunched, Bound, KeyOk, Launched
    <2>3. \A q \in Server : Serving(q)' /\ Owning(q)'
      BY <1>1, <1>2, <2>1 DEF IInv, Serving, Owning, Refused, Preparing, Launched
    <2>4. AbandonedIsClosable'
      BY <1>1, <1>2, <2>1 DEF IInv, AbandonedIsClosable
    <2> QED
      BY <2>2, <2>3, <2>4 DEF IInv
  <1>3. CASE hand[p] # None
    <2>1. TypeOK' /\ up' \in {up, up \ {p}}
      BY <1>1 DEF TypeOK
    <2>2. \A k \in Key : KeyOk(k)'
      BY <1>1 DEF IInv, KeyOk, Launched
    <2>3. hand[p].key # NoKey => kept[hand[p].key].gen = hand[p].lease
      BY <1>3 DEF IInv, Serving
    <2>4. row.gen = hand[p].lease => row.by \notin up'
      BY <1>1, <1>3 DEF IInv, Owning
    <2> QED
      BY <1>1, <1>3, <2>1, <2>2, <2>3, <2>4, LeaveStep
  <1> QED
    BY <1>2, <1>3

\* A final transaction throws: only the row says what became of the runtime.
LEMMA CommitThrowsKeeps ==
  ASSUME Sane, IInv, NEW p \in Server, NEW stopped \in BOOLEAN, CommitThrows(p, stopped) PROVE IInv'
  <1>1. /\ hand[p] # None /\ hand[p].pc = "running" /\ Current(p) /\ TypeOK
        /\ hand' = [hand EXCEPT ![p] = None] /\ hand[p].lease = row.gen
        /\ UNCHANGED <<up, task, attempt, att, lease, kept, launches, told>>
    BY CurrentOwns DEF CommitThrows, Running, IInv
  <1>2. row' \in Row /\ row'.gen = row.gen /\ row'.by = row.by
    BY <1>1 DEF CommitThrows, TypeOK, Row
  <1>3. TypeOK'
    BY <1>1, <1>2 DEF TypeOK
  <1>4. \A k \in Key : KeyOk(k)'
    BY <1>1, <1>2 DEF IInv, KeyOk, Launched
  <1>5. hand[p].key # NoKey => kept[hand[p].key].phase = "AUTHORIZED"
    BY <1>1 DEF IInv, Serving
  <1> QED
    BY <1>1, <1>2, <1>3, <1>4, <1>5, LeaveStep

\* A failed execution cleans up after itself, or leaves a reservation that can be closed.
LEMMA AbandonKeeps == ASSUME Sane, IInv, NEW p \in Server, Abandon(p) PROVE IInv'
  <1> DEFINE h == hand[p]
  <1>1. /\ h # None /\ h.pc = "failed" /\ TypeOK /\ h.error \in Errors
        /\ hand' = [hand EXCEPT ![p] = None] /\ UNCHANGED <<up, attempt, att, launches>>
    BY DEF Abandon, IInv, Serving
  <1>2. /\ h.key \in Key \cup {NoKey} /\ h.lease \in Gen /\ h.error \in Answers
        /\ h.error \notin LaunchCodes
    BY <1>1, Fields DEF Answers, Errors, LaunchCodes
  <1>3. /\ h.gen = h.lease /\ lease[h.lease] # "QUARANTINED"
        /\ h.key # NoKey => /\ h.key \in Key /\ kept[h.key] # None /\ kept[h.key].gen = h.lease
                            /\ Refused(h.key) /\ ~Launched(h.key)
    BY <1>1, <1>2 DEF IInv, Serving
  <1>4. CASE Current(p) /\ row.stop /\ task # "BLOCKED" /\ lease[h.lease] # "QUARANTINED"
    <2>1. /\ row' = Stopped /\ lease' = SetLease(h.lease, "RELEASED")
          /\ task' = IF task \in Terminal THEN task ELSE "BLOCKED"
          /\ Store(h.key, "FINISHED", h.error) /\ Tell(h.key, h.error) /\ row.gen = h.lease
      BY <1>1, <1>3, <1>4 DEF Abandon, Current
    <2>2. /\ kept' \in [Key -> Reservation \cup {None}]
          /\ \A j \in Key : j # h.key => kept'[j] = kept[j]
          /\ h.key # NoKey => /\ kept'[h.key] # None /\ kept'[h.key].gen = kept[h.key].gen
                              /\ kept'[h.key].attempt = kept[h.key].attempt
                              /\ kept'[h.key].phase = "FINISHED" /\ kept'[h.key].answer = h.error
      BY <1>1, <1>2, <1>3, <2>1, StoreFacts
    <2>3. /\ told' \in [Key -> SUBSET Answers]
          /\ \A j \in Key : told'[j] = IF j = h.key THEN told[j] \cup {h.error} ELSE told[j]
      BY <1>1, <1>2, <2>1, TellFacts
    <2>4. row' \in Row /\ row'.gen = row.gen /\ row'.by = row.by /\ row'.phase = "STOPPED"
      BY <1>1, <2>1 DEF Stopped, Row, TypeOK
    <2>5. /\ lease' \in [Gen -> {"none", "HELD", "QUARANTINED", "RELEASED", "EXPIRED"}]
          /\ \A g \in Gen : g # h.lease => lease'[g] = lease[g]
      BY <1>1, <2>1 DEF SetLease, Held, TypeOK
    <2>6. TypeOK'
      BY <1>1, <2>1, <2>2, <2>3, <2>4, <2>5 DEF TypeOK
    <2>7. ASSUME NEW j \in Key PROVE KeyOk(j)'
      <3>1. CASE j # h.key
        BY <1>1, <2>2, <2>3, <2>4, <3>1 DEF IInv, KeyOk, Launched
      <3>2. CASE j = h.key
        <4>1. j # NoKey /\ told[j] \cap LaunchCodes = {}
          BY <1>3, <3>2 DEF Sane, IInv, KeyOk, Refused
        <4>2. told'[j] \cap LaunchCodes = {} /\ kept'[j] # None /\ kept'[j].phase = "FINISHED"
          BY <1>2, <2>2, <2>3, <3>2, <4>1
        <4>3. kept'[j].answer = h.error /\ kept'[j].gen <= row'.gen
          BY <1>3, <2>1, <2>2, <2>4, <3>2, <4>1 DEF IInv, KeyOk
        <4> QED
          BY <1>2, <4>2, <4>3 DEF KeyOk
      <3> QED
        BY <3>1, <3>2
    <2>8. \A j \in Key : (kept'[j] = None <=> kept[j] = None) /\ kept'[j].gen = kept[j].gen
      BY <1>3, <2>2 DEF Sane
    <2> QED
      BY <1>1, <2>1, <2>2, <2>4, <2>5, <2>6, <2>7, <2>8, LeaveStep
  <1>5. CASE ~(Current(p) /\ row.stop /\ task # "BLOCKED" /\ lease[h.lease] # "QUARANTINED")
    <2>1. UNCHANGED <<row, lease, task, kept, told>>
      BY <1>5 DEF Abandon
    <2>2. TypeOK'
      BY <1>1, <2>1 DEF TypeOK
    <2>3. \A j \in Key : KeyOk(j)'
      BY <1>1, <2>1 DEF IInv, KeyOk, Launched
    <2>4. row.gen = h.lease => /\ row.stop /\ row.phase \in {"RUNNING", "STOPPED"} /\ Current(p)
      BY <1>1, <1>3 DEF IInv, Owning, Current
    <2>5. row.gen = h.lease => row.phase = "STOPPED" \/ (task = "BLOCKED" /\ row.phase = "RUNNING")
      BY <1>3, <1>5, <2>4
    <2> QED
      BY <1>1, <1>3, <2>1, <2>2, <2>3, <2>5, LeaveStep
  <1> QED
    BY <1>4, <1>5

\* A recovered attempt settles: its outcome is what its key answers from then on.
LEMMA SettleKeeps ==
  ASSUME Sane, IInv, NEW p \in Server, Running(p), Current(p),
         NEW a \in LaunchCodes \cup {"TASK_CANCELLED", "ADAPTER_FAILURE"},
         NEW state \in Terminal \cup {"WORKING", "BLOCKED"},
         NEW r \in Row, r.gen = row.gen, r.by = row.by,
         NEW l \in {"RELEASED", "QUARANTINED"}, Settle(p, a, state, r, l)
  PROVE IInv'
  <1> DEFINE h == hand[p]
  <1>1. /\ h # None /\ h.pc = "running" /\ TypeOK /\ hand' = [hand EXCEPT ![p] = None]
        /\ UNCHANGED <<up, attempt, launches>> /\ task' = state /\ row' = r
        /\ lease' = SetLease(h.lease, l) /\ att' = [att EXCEPT ![h.attempt] = a]
        /\ Store(h.key, "FINISHED", a) /\ Tell(h.key, a)
    BY DEF Settle, Running, IInv
  <1>2. /\ h.key \in Key \cup {NoKey} /\ h.lease \in Gen /\ h.attempt \in 0..MaxGen
        /\ a \in Answers
    BY <1>1, Fields DEF Answers, Errors
  <1>3. /\ row.gen = h.lease /\ att[h.attempt] = "open"
        /\ <<h.key, h.attempt, h.lease>> \in launches
        /\ h.key # NoKey => /\ h.key \in Key /\ kept[h.key] # None /\ kept[h.key].gen = h.lease
                            /\ kept[h.key].attempt = h.attempt /\ kept[h.key].phase = "AUTHORIZED"
    BY <1>1, <1>2, CurrentOwns DEF IInv, Serving, Owning
  <1>4. /\ kept' \in [Key -> Reservation \cup {None}]
        /\ \A j \in Key : j # h.key => kept'[j] = kept[j]
        /\ h.key # NoKey => /\ kept'[h.key] # None /\ kept'[h.key].gen = kept[h.key].gen
                            /\ kept'[h.key].attempt = kept[h.key].attempt
                            /\ kept'[h.key].phase = "FINISHED" /\ kept'[h.key].answer = a
    BY <1>1, <1>2, <1>3, StoreFacts
  <1>5. /\ told' \in [Key -> SUBSET Answers]
        /\ \A j \in Key : told'[j] = IF j = h.key THEN told[j] \cup {a} ELSE told[j]
    BY <1>1, <1>2, TellFacts
  <1>6. /\ lease' \in [Gen -> {"none", "HELD", "QUARANTINED", "RELEASED", "EXPIRED"}]
        /\ \A g \in Gen : g # h.lease => lease'[g] = lease[g]
    BY <1>1 DEF SetLease, Held, TypeOK
  <1>7. /\ att' \in [0..MaxGen -> Answers \cup {"open"}]
        /\ \A n \in 0..MaxGen : n # h.attempt => att'[n] = att[n]
    BY <1>1, <1>2 DEF TypeOK
  <1>8. TypeOK'
    BY <1>1, <1>4, <1>5, <1>6, <1>7 DEF TypeOK
  <1>9. ASSUME NEW j \in Key PROVE KeyOk(j)'
    <2>1. CASE j # h.key
      <3>1. kept'[j] = kept[j] /\ told'[j] = told[j] /\ KeyOk(j) /\ row'.gen = row.gen
        BY <1>1, <1>4, <1>5, <2>1 DEF IInv
      <3>2. kept[j] # None /\ kept[j].phase = "AUTHORIZED" => att'[kept[j].attempt] = att[kept[j].attempt]
        <4>1. SUFFICES ASSUME kept[j] # None, kept[j].phase = "AUTHORIZED"
                       PROVE  kept[j].attempt # h.attempt /\ kept[j].attempt \in 0..MaxGen
          BY <1>7
        <4>2. <<j, kept[j].attempt, kept[j].gen>> \in launches
          BY <3>1, <4>1 DEF KeyOk
        <4>3. kept[j] \in Reservation
          BY <1>1, <4>1 DEF TypeOK
        <4> QED
          BY <1>3, <2>1, <4>2, <4>3 DEF IInv, Ordered, NeverRelaunched, Reservation
      <3> QED
        BY <1>1, <3>1, <3>2 DEF KeyOk, Launched
    <2>2. CASE j = h.key
      <3>1. j # NoKey /\ told[j] = {}
        BY <1>3, <2>2 DEF Sane, IInv, KeyOk
      <3>2. /\ kept'[j] # None /\ kept'[j].phase = "FINISHED" /\ kept'[j].answer = a
            /\ kept'[j].gen <= row'.gen /\ told'[j] = {a}
        BY <1>1, <1>3, <1>4, <1>5, <2>2, <3>1 DEF IInv, KeyOk
      <3>3. Launched(j)'
        BY <1>1, <1>3, <2>2 DEF Launched
      <3> QED
        BY <1>2, <3>2, <3>3 DEF KeyOk
    <2> QED
      BY <2>1, <2>2
  <1>10. \A j \in Key : (kept'[j] = None <=> kept[j] = None) /\ kept'[j].gen = kept[j].gen
    BY <1>3, <1>4 DEF Sane
  <1> QED
    BY <1>1, <1>3, <1>4, <1>6, <1>8, <1>9, <1>10, LeaveStep

\* The three ends of a recovered attempt are of this kind.
LEMMA EndKeeps ==
  ASSUME Sane, IInv, NEW p \in Server,
         Fail(p) \/ Lose(p) \/ \E status \in {"COMPLETE", "PARTIAL", "FAILED"} : Deliver(p, status)
  PROVE IInv'
  <1>1. row \in Row
    BY DEF IInv, TypeOK
  <1>2. Stopped \in Row /\ Stopped.gen = row.gen /\ Stopped.by = row.by
    BY <1>1 DEF Stopped, Row
  <1>3. CASE Fail(p)
    <2> DEFINE a == IF row.cancel THEN "TASK_CANCELLED" ELSE "ADAPTER_FAILURE"
               s == IF row.cancel THEN "CANCELLED" ELSE "BLOCKED"
    <2>1. /\ a \in LaunchCodes \cup {"TASK_CANCELLED", "ADAPTER_FAILURE"}
          /\ s \in Terminal \cup {"WORKING", "BLOCKED"}
      BY DEF Terminal
    <2>2. Running(p) /\ Current(p) /\ Settle(p, a, s, Stopped, "RELEASED")
      BY <1>3 DEF Fail
    <2> HIDE DEF a, s
    <2> QED
      BY <1>2, <2>1, <2>2, SettleKeeps
  <1>4. CASE Lose(p)
    <2> DEFINE r == [row EXCEPT !.phase = "QUARANTINED", !.stop = FALSE]
    <2>1. r \in Row /\ r.gen = row.gen /\ r.by = row.by
      BY <1>1 DEF Row
    <2>2. Running(p) /\ Current(p) /\ Settle(p, "RUNTIME_STOP_UNCONFIRMED", "BLOCKED", r, "QUARANTINED")
      BY <1>4 DEF Lose
    <2> HIDE DEF r
    <2>3. "RUNTIME_STOP_UNCONFIRMED" \in LaunchCodes
      BY DEF LaunchCodes
    <2> QED
      BY <2>1, <2>2, <2>3, SettleKeeps
  <1>5. ASSUME NEW status \in {"COMPLETE", "PARTIAL", "FAILED"}, Deliver(p, status) PROVE IInv'
    <2> DEFINE s == CASE status = "COMPLETE" -> "DONE" [] status = "PARTIAL" -> "BLOCKED" [] OTHER -> "FAILED"
    <2>1. status \in LaunchCodes /\ s \in Terminal \cup {"WORKING", "BLOCKED"}
      BY DEF LaunchCodes, Terminal
    <2>2. Running(p) /\ Current(p) /\ Settle(p, status, s, Stopped, "RELEASED")
      BY <1>5 DEF Deliver
    <2> HIDE DEF s
    <2> QED
      BY <1>2, <2>1, <2>2, SettleKeeps
  <1> QED
    BY <1>3, <1>4, <1>5

\* The launch is refused: nothing but the execution changes.
LEMMA RefuseKeeps ==
  ASSUME Sane, IInv, NEW p \in Server, hand[p] # None, hand[p].pc = "admitted", NEW e \in Errors,
         Failed(p, e), UNCHANGED <<stored, launches, up, told>>
  PROVE  IInv'
  <1> DEFINE h == hand[p]
             n == [h EXCEPT !.pc = "failed", !.error = e]
  <1>1. /\ TypeOK /\ h \in Execution /\ h.gen = h.lease /\ hand' = [hand EXCEPT ![p] = n]
        /\ UNCHANGED <<task, attempt, att, row, lease, kept>>
    BY Fields DEF IInv, Serving, Failed, stored
  <1>2. /\ n \in Execution /\ n.key = h.key /\ n.lease = h.lease /\ n.attempt = h.attempt
        /\ n.gen = h.gen /\ n.pc = "failed" /\ n.error = e
    BY <1>1 DEF Execution, Phases
  <1> HIDE DEF n
  <1>3. /\ hand'[p] = n /\ n # None /\ \A q \in Server : q # p => hand'[q] = hand[q]
        /\ hand' \in [Server -> Execution \cup {None}]
    BY <1>1, <1>2 DEF TypeOK, Sane
  <1>4. Owning(p)'
    BY <1>1, <1>2, <1>3 DEF IInv, Owning
  <1>5. /\ hand'[p].key = h.key /\ hand'[p].lease = h.lease /\ hand'[p].attempt = h.attempt
        /\ hand'[p].gen = h.lease /\ hand'[p].pc = "failed" /\ hand'[p].error \in Errors
        /\ hand'[p] # None
    BY <1>1, <1>2, <1>3
  <1> QED
    BY <1>1, <1>3, <1>4, <1>5, ExecutionStep DEF TypeOK

\* The launch closes the interrupted attempt and starts the next one: the first of its key, and the
\* first of its attempt.
LEMMA LaunchKeeps ==
  ASSUME Sane, IInv, NEW p \in Server, hand[p] # None, hand[p].pc = "admitted", Authorize(p),
         Current(p), hand[p].attempt = attempt + 1,
         att' = [att EXCEPT ![attempt] = IF @ = "open" THEN "interrupted" ELSE @,
                            ![hand[p].attempt] = "open"],
         task' = "WORKING", attempt' = hand[p].attempt, row' = [row EXCEPT !.stop = FALSE],
         Store(hand[p].key, "AUTHORIZED", None), hand' = [hand EXCEPT ![p].pc = "running"],
         launches' = launches \cup {<<hand[p].key, hand[p].attempt, hand[p].lease>>},
         UNCHANGED <<lease, up, told>>
  PROVE  IInv'
  <1> DEFINE h == hand[p]
             n == [h EXCEPT !.pc = "running"]
  <1>1. /\ TypeOK /\ h \in Execution /\ h.gen = h.lease /\ hand' = [hand EXCEPT ![p] = n]
        /\ h.key \in Key \cup {NoKey} /\ h.lease \in Gen /\ h.attempt \in 0..MaxGen
        /\ attempt \in Nat /\ attempt \in 0..MaxGen
    <2>1. TypeOK /\ attempt \in Nat /\ attempt \in 0..MaxGen
      BY DEF IInv, Sane, TypeOK
    <2>2. hand' = [hand EXCEPT ![p] = n]
      OBVIOUS
    <2>3. h.gen = h.lease
      BY DEF IInv, Serving
    <2> QED
      BY <2>1, <2>2, <2>3, Fields
  <1>2. /\ n \in Execution /\ n.key = h.key /\ n.lease = h.lease /\ n.attempt = h.attempt
        /\ n.gen = h.gen /\ n.pc = "running"
    BY <1>1 DEF Execution, Phases
  <1> HIDE DEF n
  <1>3. /\ hand'[p] = n /\ n # None /\ (\A q \in Server : q # p => hand'[q] = hand[q])
        /\ hand' \in [Server -> Execution \cup {None}]
    BY <1>1, <1>2 DEF TypeOK, Sane
  <1>4. /\ row.gen = h.lease /\ row.by = p /\ p \in up /\ h.attempt <= h.lease
        /\ lease[h.lease] # "QUARANTINED"
        /\ h.key # NoKey => /\ h.key \in Key /\ kept[h.key] # None /\ kept[h.key].gen = h.lease
                            /\ kept[h.key].attempt = h.attempt /\ kept[h.key].phase = "PREPARING"
                            /\ ~Launched(h.key) /\ told[h.key] = {}
    BY <1>1, CurrentOwns DEF IInv, Serving, Owning, Preparing, KeyOk
  <1>5. /\ kept' \in [Key -> Reservation \cup {None}]
        /\ \A j \in Key : j # h.key => kept'[j] = kept[j]
        /\ h.key # NoKey => /\ kept'[h.key] # None /\ kept'[h.key].gen = kept[h.key].gen
                            /\ kept'[h.key].attempt = kept[h.key].attempt
                            /\ kept'[h.key].phase = "AUTHORIZED" /\ kept'[h.key].answer = None
    BY <1>1, <1>4, StoreFacts
  <1>6. /\ att' \in [0..MaxGen -> Answers \cup {"open"}] /\ att'[h.attempt] = "open"
        /\ \A m \in 0..attempt : att'[m] = att[m] \/ (m = attempt /\ att[m] = "open")
    <2> DEFINE o == IF att[attempt] = "open" THEN "interrupted" ELSE att[attempt]
    <2>1. /\ o \in Answers \cup {"open"} /\ o \in {att[attempt], "interrupted"}
          /\ att[attempt] # "open" => o = att[attempt]
      BY <1>1 DEF TypeOK, Answers, LaunchCodes
    <2>2. att' = [[att EXCEPT ![attempt] = o] EXCEPT ![h.attempt] = "open"]
      OBVIOUS
    <2>3. h.attempt \notin 0..attempt
      BY <1>1
    <2>4. 0..attempt \subseteq 0..MaxGen
      BY <1>1 DEF Sane
    <2> HIDE DEF o
    <2>5. att' \in [0..MaxGen -> Answers \cup {"open"}] /\ att'[h.attempt] = "open"
      BY <1>1, <2>1, <2>2 DEF TypeOK
    <2>6. ASSUME NEW m \in 0..attempt PROVE att'[m] = att[m] \/ (m = attempt /\ att[m] = "open")
      BY <1>1, <2>1, <2>2, <2>3, <2>4, <2>6 DEF TypeOK
    <2> QED
      BY <2>5, <2>6
  <1>7. /\ row' \in Row /\ row'.gen = row.gen /\ row'.by = row.by
        /\ row'.phase = row.phase
    BY <1>1 DEF TypeOK, Row
  <1>8. TypeOK'
    <2>1. launches' \subseteq (Key \cup {NoKey}) \X (0..MaxGen) \X Gen
      BY <1>1 DEF TypeOK
    <2> QED
      BY <1>1, <1>3, <1>5, <1>6, <1>7, <2>1 DEF TypeOK
  <1>9. Ordered'
    <2>1. ASSUME NEW x \in launches PROVE x[2] <= attempt /\ x[2] \in Nat /\ (h.key # NoKey => x[1] # h.key)
      BY <1>1, <1>4, <2>1 DEF IInv, Ordered, Launched, TypeOK
    <2>2. attempt' <= row'.gen
      BY <1>1, <1>4, <1>7 DEF TypeOK, Row, Gen
    <2>3. \A x \in launches' : x[2] <= attempt'
      BY <1>1, <2>1
    <2>4. NeverRelaunched'
      BY <1>1, <2>1 DEF IInv, Ordered, NeverRelaunched
    <2> QED
      BY <2>2, <2>3, <2>4 DEF Ordered
  <1>10. \A j \in Key : /\ kept'[j] = None <=> kept[j] = None
                        /\ kept'[j].gen = kept[j].gen /\ kept'[j].attempt = kept[j].attempt
    BY <1>4, <1>5 DEF Sane
  <1>11. Bound'
    BY <1>2, <1>3, <1>10 DEF IInv, Bound
  <1>12. ASSUME NEW j \in Key, j # h.key PROVE Launched(j)' <=> Launched(j)
    BY <1>12 DEF Launched
  <1>13. ASSUME NEW j \in Key PROVE KeyOk(j)'
    <2>1. CASE j # h.key
      <3>1. kept'[j] = kept[j] /\ told'[j] = told[j] /\ KeyOk(j) /\ row'.gen = row.gen
        BY <1>5, <1>7, <2>1 DEF IInv
      <3>2. ASSUME kept[j] # None, kept[j].phase = "AUTHORIZED"
            PROVE  /\ <<j, kept[j].attempt, kept[j].gen>> \in launches'
                   /\ told[j] \subseteq {att'[kept[j].attempt]}
                   /\ att'[kept[j].attempt] = "open" => told[j] = {}
        <4>1. <<j, kept[j].attempt, kept[j].gen>> \in launches /\ kept[j] \in Reservation
          BY <1>1, <3>1, <3>2 DEF KeyOk, TypeOK
        <4>2. kept[j].attempt \in 0..attempt
          BY <1>1, <4>1 DEF IInv, Ordered, Reservation
        <4>3. told[j] \subseteq {att[kept[j].attempt]} /\ (att[kept[j].attempt] = "open" => told[j] = {})
          BY <3>1, <3>2 DEF KeyOk
        <4> QED
          BY <1>6, <4>1, <4>2, <4>3
      <3> QED
        BY <1>12, <2>1, <3>1, <3>2 DEF KeyOk
    <2>2. CASE j = h.key
      <3>1. /\ j # NoKey /\ told'[j] = {} /\ kept'[j] # None /\ kept'[j].phase = "AUTHORIZED"
            /\ kept'[j].attempt = h.attempt /\ kept'[j].gen = h.lease
        BY <1>4, <1>5, <2>2 DEF Sane
      <3>2. kept'[j].gen <= row'.gen
        BY <1>1, <1>4, <1>7, <3>1 DEF Gen
      <3> QED
        BY <2>2, <3>1, <3>2 DEF KeyOk
    <2> QED
      BY <2>1, <2>2
  <1>14. ASSUME NEW q \in Server, q # p PROVE Serving(q)' /\ Owning(q)'
    <2>1. hand'[q] = hand[q] /\ Serving(q) /\ Owning(q)
      BY <1>3, <1>14 DEF IInv
    <2>2. hand[q] # None =>
            /\ hand[q].lease # h.lease
            /\ hand[q].key # NoKey => /\ hand[q].key \in Key /\ hand[q].key # h.key
                                      /\ kept'[hand[q].key] = kept[hand[q].key]
                                      /\ Launched(hand[q].key)' <=> Launched(hand[q].key)
      <3>1. SUFFICES ASSUME hand[q] # None PROVE
              /\ hand[q].lease # h.lease
              /\ hand[q].key # NoKey => hand[q].key \in Key /\ hand[q].key # h.key
        BY <1>5, <1>12
      <3>2. hand[q].lease # h.lease
        BY <1>14, <3>1 DEF IInv, Bound
      <3>3. hand[q].key \in Key \cup {NoKey}
        BY <1>1, <3>1, Fields
      <3>4. hand[q].key # NoKey => hand[q].key # h.key
        BY <1>14, <3>1, KeysDiffer
      <3> QED
        BY <3>2, <3>3, <3>4
    <2>3. Serving(q)'
      BY <1>7, <2>1, <2>2 DEF Serving, Refused
    <2>4. Owning(q)'
      BY <1>4, <1>7, <2>1, <2>2 DEF Owning
    <2> QED
      BY <2>3, <2>4
  <1>15. Serving(p)'
    BY <1>1, <1>2, <1>3, <1>4, <1>5, <1>7 DEF Serving, Gen
  <1>16. Owning(p)'
    BY <1>2, <1>3, <1>4, <1>6, <1>7 DEF Owning
  <1>17. AbandonedIsClosable'
    <2>1. ASSUME NEW k \in Key, kept'[k] # None, kept'[k].phase = "PREPARING",
                 \A q \in up' : hand'[q] = None \/ hand'[q].key # k
          PROVE  kept'[k].gen # row'.gen
      <3>1. k # h.key /\ kept[k] # None
        BY <1>5, <1>10, <2>1 DEF Sane
      <3> QED
        BY <1>4, <1>7, <1>10, <3>1 DEF IInv, Bound
    <2> QED
      BY <2>1 DEF AbandonedIsClosable
  <1> QED
    BY <1>8, <1>9, <1>11, <1>13, <1>14, <1>15, <1>16, <1>17 DEF IInv

\* The transaction before the launch refuses or launches.
LEMMA AuthorizeKeeps == ASSUME Sane, IInv, NEW p \in Server, Authorize(p) PROVE IInv'
  <1>1. hand[p] # None /\ hand[p].pc = "admitted" /\ UNCHANGED <<up, told>>
    BY DEF Authorize
  <1> DEFINE e == IF Current(p) /\ row.cancel THEN "TASK_CANCELLED" ELSE "refused"
  <1>2. CASE Failed(p, e) /\ UNCHANGED <<stored, launches>>
    <2>1. e \in Errors
      BY DEF Errors
    <2> HIDE DEF e
    <2> QED
      BY <1>1, <1>2, <2>1, RefuseKeeps
  <1>3. CASE ~(Failed(p, e) /\ UNCHANGED <<stored, launches>>)
    BY <1>1, <1>3, LaunchKeeps DEF Authorize
  <1> QED
    BY <1>2, <1>3

\* A reservation of a generation of its own: nobody executes or keeps one of that number.
LEMMA PrepareKeeps ==
  ASSUME Sane, IInv, NEW p \in Server, NEW k \in Key \cup {NoKey}, Prepare(p, k) PROVE IInv'
  <1> DEFINE g == row.gen + 1
             r == [gen |-> g, phase |-> "QUEUED", stop |-> TRUE, cancel |-> FALSE, by |-> p]
             h == [key |-> k, gen |-> 0, lease |-> g, attempt |-> attempt + 1,
                   pc |-> "prepared", error |-> None]
             s == [kind |-> Kind(p), attempt |-> attempt + 1, gen |-> g,
                   phase |-> "PREPARING", answer |-> None]
  <1>1. /\ p \in up /\ hand[p] = None /\ g \in Gen /\ TypeOK /\ (k # NoKey => kept[k] = None)
        /\ row' = r /\ lease' = [lease EXCEPT ![g] = "HELD"]
        /\ kept' = IF k = NoKey THEN kept ELSE [kept EXCEPT ![k] = s]
        /\ hand' = [hand EXCEPT ![p] = h]
        /\ UNCHANGED <<up, task, attempt, att, launches, told>>
    BY DEF Prepare, Asks, IInv
  <1>2. row.phase = "STOPPED" /\ task # "CANCELLED" /\ task \in {"WORKING", "BLOCKED", "FAILED"}
    BY DEF Prepare, Recoverable
  <1>3. row.gen \in Nat /\ attempt \in Nat /\ MaxGen \in Nat /\ attempt <= row.gen /\ g <= MaxGen
    BY <1>1 DEF IInv, Sane, TypeOK, Row, Ordered, Gen
  <1>4. r \in Row /\ r.gen = g /\ r.by = p /\ r.stop = TRUE /\ r.cancel = FALSE /\ r.phase = "QUEUED"
    BY <1>3 DEF Row
  <1>5. /\ h \in Execution /\ h.key = k /\ h.lease = g /\ h.attempt = attempt + 1
        /\ h.pc = "prepared" /\ h # None
    BY <1>1, <1>3 DEF Execution, Phases, Sane
  <1>6. /\ s \in Reservation /\ s.attempt = attempt + 1 /\ s.gen = g /\ s.phase = "PREPARING"
        /\ s # None
    BY <1>1, <1>3 DEF Reservation, Kind, Sane
  <1> HIDE DEF r, h, s
  <1>7. hand'[p] = h /\ (\A q \in Server : q # p => hand'[q] = hand[q])
    BY <1>1 DEF TypeOK
  <1>8. \A j \in Key : kept'[j] = IF j = k THEN s ELSE kept[j]
    BY <1>1 DEF TypeOK, Sane
  <1>9. /\ \A q \in Server :
              hand[q] # None => hand[q].lease # g /\ hand[q].lease <= row.gen /\ hand[q].lease \in Gen
        /\ \A j \in Key : kept[j] # None => kept[j].gen # g /\ kept[j].gen <= row.gen /\ kept[j].gen \in Nat
    <2>1. ASSUME NEW q \in Server, hand[q] # None
          PROVE  hand[q].lease # g /\ hand[q].lease <= row.gen /\ hand[q].lease \in Gen
      <3>1. hand[q].lease \in Gen /\ hand[q].lease <= row.gen
        BY <1>1, <2>1, Fields DEF IInv, Serving
      <3> QED
        BY <1>3, <3>1 DEF Gen
    <2>2. ASSUME NEW j \in Key, kept[j] # None
          PROVE  kept[j].gen # g /\ kept[j].gen <= row.gen /\ kept[j].gen \in Nat
      <3>1. kept[j].gen \in Gen /\ kept[j].gen <= row.gen
        BY <1>1, <2>2 DEF IInv, KeyOk, TypeOK, Reservation
      <3> QED
        BY <1>3, <3>1 DEF Gen
    <2> QED
      BY <2>1, <2>2
  <1>10. TypeOK'
    <2>1. kept' \in [Key -> Reservation \cup {None}] /\ hand' \in [Server -> Execution \cup {None}]
      BY <1>1, <1>5, <1>6 DEF TypeOK
    <2>2. lease' \in [Gen -> {"none", "HELD", "QUARANTINED", "RELEASED", "EXPIRED"}]
      BY <1>1 DEF TypeOK
    <2> QED
      BY <1>1, <1>4, <2>1, <2>2 DEF TypeOK
  <1>11. Ordered'
    BY <1>1, <1>3, <1>4 DEF IInv, Ordered, NeverRelaunched
  <1>12. Bound'
    <2>1. ASSUME NEW q \in Server, NEW t \in Server, hand'[q] # None, hand'[t] # None,
                 hand'[q].lease = hand'[t].lease
          PROVE  q = t
      BY <1>5, <1>7, <1>9, <2>1 DEF IInv, Bound
    <2>2. ASSUME NEW q \in Server, NEW j \in Key, hand'[q] # None, kept'[j] # None,
                 kept'[j].gen = hand'[q].lease
          PROVE  hand'[q].key = j
      BY <1>5, <1>6, <1>7, <1>8, <1>9, <2>2 DEF IInv, Bound
    <2> QED
      BY <2>1, <2>2 DEF Bound
  <1>13. ASSUME NEW j \in Key PROVE KeyOk(j)'
    <2>1. CASE j = k
      <3>1. told[j] = {} /\ ~Launched(j)
        BY <1>1, <2>1 DEF Sane, IInv, KeyOk
      <3> QED
        BY <1>1, <1>3, <1>4, <1>6, <1>8, <2>1, <3>1 DEF KeyOk, Launched
    <2>2. CASE j # k
      <3>1. kept'[j] = kept[j] /\ KeyOk(j) /\ row'.gen = row.gen + 1
        BY <1>1, <1>4, <1>8, <2>2 DEF IInv
      <3>2. kept'[j] # None => kept'[j].gen <= row'.gen
        BY <1>3, <1>9, <3>1
      <3> QED
        BY <1>1, <3>1, <3>2 DEF KeyOk, Launched
    <2> QED
      BY <2>1, <2>2
  <1>14. ASSUME NEW q \in Server, q # p PROVE Serving(q)' /\ Owning(q)'
    <2>1. CASE hand[q] = None
      BY <1>7, <1>14, <2>1 DEF Serving, Owning
    <2>2. CASE hand[q] # None
      <3>1. /\ hand'[q] = hand[q] /\ Serving(q) /\ Owning(q) /\ hand[q].lease # g
            /\ hand[q].lease <= row'.gen /\ lease'[hand[q].lease] = lease[hand[q].lease]
            /\ row'.gen # hand[q].lease
        BY <1>1, <1>3, <1>4, <1>7, <1>9, <1>14, <2>2 DEF IInv, TypeOK, Gen
      <3>2. hand[q].pc # "prepared"
        BY <1>2, <2>2, <3>1 DEF Owning, TypeOK, Sane, IInv
      <3>3. hand[q].key # NoKey => hand[q].key \in Key /\ kept'[hand[q].key] = kept[hand[q].key]
        BY <1>1, <1>8, <2>2, <3>1, Fields DEF Serving
      <3>4. Serving(q)'
        BY <1>1, <3>1, <3>3 DEF Serving, Refused, Launched
      <3>5. Owning(q)'
        BY <3>1, <3>2 DEF Owning
      <3> QED
        BY <3>4, <3>5
    <2> QED
      BY <2>1, <2>2
  <1>15. Serving(p)'
    <2>1. k # NoKey => k \in Key /\ ~Launched(k) /\ kept'[k] = s
      BY <1>1, <1>8 DEF IInv, KeyOk
    <2>2. lease'[g] = "HELD"
      BY <1>1 DEF TypeOK
    <2> QED
      BY <1>1, <1>3, <1>4, <1>5, <1>6, <1>7, <2>1, <2>2 DEF Serving, Refused, Launched
  <1>16. Owning(p)'
    BY <1>1, <1>4, <1>5, <1>6, <1>7, <1>8 DEF Owning, Preparing
  <1>17. AbandonedIsClosable'
    <2>1. ASSUME NEW j \in Key, kept'[j] # None, \A q \in up' : hand'[q] = None \/ hand'[q].key # j
          PROVE  kept'[j].gen # row'.gen
      <3>1. j # k
        BY <1>1, <1>5, <1>7, <2>1
      <3> QED
        BY <1>1, <1>4, <1>8, <1>9, <2>1, <3>1
    <2> QED
      BY <2>1 DEF AbandonedIsClosable
  <1> QED
    BY <1>10, <1>11, <1>12, <1>13, <1>14, <1>15, <1>16, <1>17 DEF IInv

\* A repeated request finds a reservation in preparation: it is closed only when nobody can launch
\* it any more.
LEMMA ReplayPreparingKeeps ==
  ASSUME Sane, IInv, NEW p \in Server, NEW k \in Key, ReplayPreparing(p, k) PROVE IInv'
  <1> DEFINE c == kept[k].gen
             code == IF task = "CANCELLED" THEN "TASK_CANCELLED" ELSE "ADAPTER_FAILURE"
             abandoned == c # Reconciled.row.gen \/ (Reconciled.row.phase = "STOPPED" /\ Reconciled.row.stop)
  <1>1. /\ TypeOK /\ k # NoKey /\ kept[k] # None /\ kept[k] \in Reservation /\ kept[k].phase = "PREPARING"
        /\ c \in Gen /\ row' = Reconciled.row /\ UNCHANGED <<up, task, attempt, att, hand, launches>>
    BY DEF ReplayPreparing, Known, IInv, TypeOK, Reservation, Sane
  <1>2. /\ row' \in Row /\ row'.gen = row.gen /\ row'.by = row.by
        /\ row'.phase \in {row.phase, "STOPPED", "QUARANTINED"}
        /\ Reconciled.lease \in [Gen -> {"none", "HELD", "QUARANTINED", "RELEASED", "EXPIRED"}]
        /\ \A g \in Gen : g # row.gen => Reconciled.lease[g] = lease[g]
        /\ ~DeadRow => row' = row /\ Reconciled.lease = lease
        /\ DeadRow => row'.phase \in {"STOPPED", "QUARANTINED"} /\ row.by \notin up
    BY <1>1, ReconciledFacts
  <1>3. \A q \in Server : hand[q] # None /\ row.gen = hand[q].lease => row' = row /\ ~DeadRow
    BY <1>2, DeadBelongs
  <1>4. ASSUME NEW q \in Server, hand[q] # None
        PROVE  hand[q].lease \in Gen /\ Reconciled.lease[hand[q].lease] # "QUARANTINED"
    BY <1>1, <1>2, <1>3, <1>4, Fields DEF IInv, Serving
  <1>5. CASE ~abandoned
    <2>1. lease' = Reconciled.lease /\ UNCHANGED <<kept, told>>
      BY <1>5 DEF ReplayPreparing
    <2>2. \A q \in Server : Owning(q)'
      BY <1>1, <1>2, <1>3, <2>1 DEF IInv, Owning, Preparing
    <2>3. AbandonedIsClosable'
      BY <1>1, <1>2, <2>1 DEF IInv, AbandonedIsClosable
    <2> QED
      BY <1>1, <1>2, <1>4, <2>1, <2>2, <2>3, RowStep DEF TypeOK
  <1>6. CASE abandoned
    <2>1. /\ lease' = IF Reconciled.lease[c] = "HELD" THEN [Reconciled.lease EXCEPT ![c] = "RELEASED"]
                      ELSE Reconciled.lease
          /\ Store(k, "FINISHED", code) /\ Tell(k, code)
      BY <1>6 DEF ReplayPreparing
    <2>2. code \in Answers /\ code \notin LaunchCodes
      BY DEF Answers, Errors, LaunchCodes
    <2> HIDE DEF code
    <2>3. /\ kept' \in [Key -> Reservation \cup {None}]
          /\ \A j \in Key : j # k => kept'[j] = kept[j]
          /\ kept'[k] # None /\ kept'[k].gen = kept[k].gen /\ kept'[k].attempt = kept[k].attempt
          /\ kept'[k].phase = "FINISHED" /\ kept'[k].answer = code
      BY <1>1, <2>1, <2>2, StoreFacts
    <2>4. /\ told' \in [Key -> SUBSET Answers]
          /\ \A j \in Key : told'[j] = IF j = k THEN told[j] \cup {code} ELSE told[j]
      BY <1>1, <2>1, <2>2, TellFacts
    <2>5. /\ lease' \in [Gen -> {"none", "HELD", "QUARANTINED", "RELEASED", "EXPIRED"}]
          /\ \A g \in Gen : lease'[g] \in {Reconciled.lease[g], "RELEASED"}
      BY <1>1, <1>2, <2>1
    <2>6. TypeOK'
      BY <1>1, <1>2, <2>3, <2>4, <2>5 DEF TypeOK
    <2>7. Ordered' /\ Bound'
      BY <1>1, <1>2, <2>3 DEF IInv, Ordered, NeverRelaunched, Bound
    <2>8. ASSUME NEW j \in Key PROVE KeyOk(j)'
      <3>1. CASE j = k
        <4>1. told[k] = {} /\ kept[k].gen <= row.gen
          BY <1>1 DEF IInv, KeyOk
        <4> QED
          BY <1>2, <2>2, <2>3, <2>4, <3>1, <4>1 DEF KeyOk
      <3>2. CASE j # k
        BY <1>1, <1>2, <2>3, <2>4, <3>2 DEF IInv, KeyOk, Launched
      <3> QED
        BY <3>1, <3>2
    <2>9. ASSUME NEW q \in Server PROVE Serving(q)' /\ Owning(q)'
      <3>1. CASE hand[q] = None
        BY <1>1, <3>1 DEF Serving, Owning
      <3>2. CASE hand[q] # None
        <4>1. Serving(q) /\ Owning(q) /\ hand'[q] = hand[q] /\ hand[q].key \in Key \cup {NoKey}
          BY <1>1, <3>2, Fields DEF IInv
        <4>2. lease'[hand[q].lease] # "QUARANTINED"
          BY <1>4, <2>5, <3>2
        <4>3. hand[q].key = k => /\ hand[q].lease = c /\ hand[q].pc # "running" /\ ~Launched(k)
          BY <1>1, <3>2, <4>1 DEF Serving
        <4>4. Serving(q)'
          BY <1>1, <1>2, <2>2, <2>3, <4>1, <4>2, <4>3 DEF Serving, Refused, Launched
        <4>5. row'.gen = hand[q].lease => row' = row
          BY <1>2, <1>3, <3>2
        <4>6. row'.gen = hand[q].lease /\ hand[q].key = k => row.phase = "STOPPED"
          BY <1>1, <1>6, <4>3, <4>5
        <4>7. Owning(q)'
          BY <1>1, <1>2, <2>3, <3>2, <4>1, <4>3, <4>5, <4>6 DEF Owning, Preparing
        <4> QED
          BY <4>4, <4>7
      <3> QED
        BY <3>1, <3>2
    <2>10. AbandonedIsClosable'
      BY <1>1, <1>2, <2>3 DEF IInv, AbandonedIsClosable
    <2> QED
      BY <2>6, <2>7, <2>8, <2>9, <2>10 DEF IInv
  <1> QED
    BY <1>5, <1>6
-----------------------------------------------------------------------------
\* Every step of the recovery requests keeps the invariant.
LEMMA NextKeeps == ASSUME Sane, IInv, [Next]_recoveryVars PROVE IInv'
  <1>1. CASE UNCHANGED recoveryVars
    <2>1. /\ UNCHANGED <<up, task, attempt, att, row, lease, kept, hand, launches, told>>
      BY <1>1 DEF recoveryVars, stored
    <2>2. TypeOK' /\ Ordered' /\ Bound' /\ AbandonedIsClosable'
      BY <2>1 DEF IInv, TypeOK, Ordered, NeverRelaunched, Bound, AbandonedIsClosable
    <2>3. \A k \in Key : KeyOk(k)'
      BY <2>1 DEF IInv, KeyOk, Launched
    <2>4. \A q \in Server : Serving(q)' /\ Owning(q)'
      BY <2>1 DEF IInv, Serving, Owning, Refused, Preparing, Launched
    <2> QED
      BY <2>2, <2>3, <2>4 DEF IInv
  <1>2. ASSUME NEW p \in Server, ServerStep(p) PROVE IInv'
    <2>1. CASE \E k \in Key \cup {NoKey} : Prepare(p, k)
      BY <2>1, PrepareKeeps
    <2>2. CASE \E stopped \in BOOLEAN : CommitThrows(p, stopped)
      BY <2>2, CommitThrowsKeeps
    <2>3. CASE \E k \in Key : ReplayFinished(p, k) \/ ReplayPreparing(p, k) \/ ReplayAuthorized(p, k)
      BY <2>3, ReplayKeeps, ReplayPreparingKeeps
    <2> QED
      BY <1>2, <2>1, <2>2, <2>3, ReadKeeps, AdmitKeeps, AuthorizeKeeps, AbandonKeeps, RuntimeKeeps,
         EndKeeps, DieKeeps DEF ServerStep
  <1> QED
    BY <1>1, <1>2, ReconcileKeeps, CancelKeeps, ExpireKeeps DEF Next

\* The invariant holds the three promises.
LEMMA Promises == ASSUME IInv PROVE NeverRelaunched /\ OneVerdict /\ AbandonedIsClosable
  <1>1. ASSUME NEW k \in Key
        PROVE  /\ told[k] \cap LaunchCodes # {} => \E x \in launches : x[1] = k
               /\ \A a, b \in told[k] : a \in LaunchCodes => a = b
    <2>1. kept[k] = None \/ kept[k].phase \in {"PREPARING", "AUTHORIZED", "FINISHED"}
      BY DEF IInv, TypeOK, Reservation
    <2>2. CASE kept[k] = None \/ kept[k].phase = "PREPARING"
      BY <2>2 DEF IInv, KeyOk
    <2>3. CASE kept[k] # None /\ kept[k].phase = "AUTHORIZED"
      <3>1. <<k, kept[k].attempt, kept[k].gen>> \in launches /\ told[k] \subseteq {att[kept[k].attempt]}
        BY <2>3 DEF IInv, KeyOk
      <3> QED
        BY <3>1
    <2>4. CASE kept[k] # None /\ kept[k].phase = "FINISHED"
      <3>1. IF kept[k].answer \in LaunchCodes
            THEN (\E x \in launches : x[1] = k) /\ told[k] \subseteq {kept[k].answer}
            ELSE told[k] \cap LaunchCodes = {}
        BY <2>4 DEF IInv, KeyOk, Launched
      <3>2. CASE kept[k].answer \in LaunchCodes
        BY <3>1, <3>2
      <3>3. CASE kept[k].answer \notin LaunchCodes
        BY <3>1, <3>3
      <3> QED
        BY <3>2, <3>3
    <2> QED
      BY <2>1, <2>2, <2>3, <2>4
  <1> QED
    BY <1>1 DEF IInv, Ordered, OneVerdict

\* The invariant holds of every behaviour.
THEOREM RequestsInvariance == ASSUME Sane PROVE Spec => []IInv
  <1>1. Init => IInv
    BY InitRequests
  <1>2. IInv /\ [Next]_recoveryVars => IInv'
    BY NextKeeps
  <1> QED
    BY <1>1, <1>2, PTL DEF Spec

\* A key starts one runtime, and an attempt is started once (docs/recovery.md:44).
THEOREM NeverRelaunchedAlways == ASSUME Sane PROVE Spec => []NeverRelaunched
  BY Promises, RequestsInvariance, PTL

\* All callers of a key are told one verdict on what was launched, and none when nothing was.
THEOREM OneVerdictAlways == ASSUME Sane PROVE Spec => []OneVerdict
  BY Promises, RequestsInvariance, PTL

\* A reservation that nobody executes can be closed by whoever asks again (docs/recovery.md:43).
THEOREM AbandonedIsClosableAlways == ASSUME Sane PROVE Spec => []AbandonedIsClosable
  BY Promises, RequestsInvariance, PTL
=============================================================================
