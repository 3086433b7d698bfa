------------------------ MODULE DelegationKeysProofs ------------------------
(***************************************************************************)
(* Theorems about DelegationKeys: whatever the number of calls, servers    *)
(* and attempts, one key has one runtime at a time and one outcome, and    *)
(* its slot and scope come back.  The reason is that one call at most owns *)
(* the operation (Owned): it is executed by a living server whose active   *)
(* delegation is that call, and only a dead server is taken over, while    *)
(* nothing was authorized.                                                 *)
(***************************************************************************)
EXTENDS DelegationKeys, FiniteSetTheorems, TLAPS

Owning == {"queue", "admission", "prepare", "launch", "running", "commit", "failed"}
Queueing == {"admission", "prepare", "launch", "running"}
Launching == {"launch", "running", "commit"}
Occupied == {"RUNNING", "QUARANTINED"}

Contracts == {Contract[c] : c \in Calls} \cup {None}
Operation == [phase : {"none", "PREPARING", "AUTHORIZED", "FINISHED", "UNCERTAIN"},
              executor : Servers \cup {None}, contract : Contracts, outcome : {None, "ok", "error"}]
Row == [gen : Nat, phase : {"QUEUED", "RUNNING", "QUARANTINED", "STOPPED"},
        stop : BOOLEAN, cancel : BOOLEAN, executor : Servers \cup {None}]

Types ==
    /\ up \subseteq Servers
    /\ operation \in Operation /\ row \in Row
    /\ active \in [Servers -> Calls \cup {None}]
    /\ pc \in [Calls -> Owning \cup {"idle", "shares", "waits", "answered", "dead"}]
    /\ gen \in [Calls -> Nat] /\ tries \in [Calls -> Nat]
    /\ ended \in [Calls -> {"none", "ok", "error", "uncertain", "refused"}]
    /\ answer \in [Calls -> {"none", "refused", "ok", "error", "uncertain", "in progress"}]
    /\ mishaps \subseteq {"reaper", "store"}

\* Who owns the operation, and that a living executor has such a call.
Owned ==
    /\ \A c \in Calls : pc[c] \in Owning =>
          /\ At[c] \in up /\ active[At[c]] = c /\ operation.executor = At[c]
          /\ operation.outcome = None /\ operation.phase \in {"PREPARING", "AUTHORIZED"}
    /\ operation.executor \in up /\ operation.outcome = None => active[operation.executor] # None

\* Before the first call there is nothing; before the first launch no lease and no missing evidence.
Unlaunched ==
    /\ operation.phase = "none" =>
          operation = NoOperation /\ row = NoRow /\ lease = "none" /\ task = "none"
    /\ operation.phase = "PREPARING" =>
          row.stop /\ lease = "none" /\ row.phase # "QUARANTINED"
    /\ row.phase = "STOPPED" => row.stop
    /\ row.phase = "QUEUED" => row.stop /\ Clear

\* A runtime at work is the one of the row, which occupies a slot and has no stop evidence.
LiveRow ==
    /\ live \subseteq {row.gen}
    /\ live # {} => ~row.stop /\ row.phase \in Occupied

\* The row and the lease as the steps of the owner leave them.
RowOf(c) == row.gen = gen[c] /\ row.executor = At[c]
Staged ==
    \A c \in Calls :
        /\ pc[c] \in {"queue", "failed"} =>
              IF row.phase = "STOPPED" THEN Clear ELSE row.executor = At[c]
        /\ pc[c] \in Queueing \cup {"commit"} => RowOf(c)
        /\ pc[c] \in {"admission", "prepare"} => row.stop /\ Clear
        /\ pc[c] \in {"prepare", "launch", "running"} => row.phase = "RUNNING"
        /\ pc[c] = "launch" => ~row.stop
        /\ pc[c] \in Launching => /\ operation.phase = "AUTHORIZED"
                                  /\ lease = "QUARANTINED" => "reaper" \in mishaps
        /\ pc[c] = "commit" => /\ row.phase \in Occupied
                               /\ ended[c] \in {"ok", "error", "uncertain"}
                               /\ ended[c] = "uncertain" <=> ~row.stop

\* What SlotComesBack asks once there is an outcome holds when the last attempt has failed.
Free ==
    row.stop => \/ row.phase = "STOPPED" /\ Clear
                \/ task = "VERIFYING" /\ row.cancel
                \/ "reaper" \in mishaps /\ lease = "QUARANTINED"
                \/ "store" \in mishaps
FreeWhenFailed == \A c \in Calls : pc[c] \in {"queue", "failed"} => Free

IInv == /\ Types /\ Owned /\ Unlaunched /\ LiveRow /\ Staged
        /\ FreeWhenFailed /\ SlotComesBack /\ AnswersAgree
-----------------------------------------------------------------------------
\* One call at most owns the operation.
LEMMA OneOwner ==
  ASSUME Owned, NEW c \in Calls, NEW d \in Calls, pc[c] \in Owning, pc[d] \in Owning
  PROVE  c = d
  BY DEF Owned

\* While the row has stop evidence nobody is at work.
LEMMA Idle == ASSUME LiveRow, row.stop \/ row.phase \notin Occupied PROVE live = {}
  BY DEF LiveRow

\* At first there is nothing.
LEMMA InitKeys == ASSUME Sane, Init PROVE IInv
  <1>1. Types
    BY DEF Init, Types, Sane, Operation, Row, NoOperation, NoRow, Contracts, Owning
  <1>2. Owned /\ Unlaunched /\ LiveRow /\ Staged
    BY DEF Init, Owned, Unlaunched, LiveRow, Staged, Sane, NoOperation, NoRow, Owning, Queueing,
           Launching, Clear
  <1>3. FreeWhenFailed /\ SlotComesBack /\ AnswersAgree
    BY DEF Init, FreeWhenFailed, SlotComesBack, AnswersAgree, NoOperation
  <1>4. QED
    BY <1>1, <1>2, <1>3 DEF IInv
-----------------------------------------------------------------------------
(* Calls that do not own the operation.                                    *)

\* A call that finds another contract, an outcome, or an executor only takes its place.
LEMMA JoinKeeps ==
  ASSUME Sane, IInv, NEW c \in Calls, NEW l, NEW a, Goto(c, l),
         l \in {"answered", "shares", "waits"}, pc[c] \in {"idle", "waits"},
         answer' = [answer EXCEPT ![c] = a] \/ answer' = answer,
         a \in {"refused", "uncertain", "in progress"} \/ (a = operation.outcome /\ a # None),
         UNCHANGED <<up, rows, live, active, gen, tries, ended, mishaps>>
  PROVE  IInv'
  <1> USE DEF IInv, Goto, rows
  <1>1. Types'
    <2>1. a \in {"refused", "ok", "error", "uncertain", "in progress"}
      <3>1. operation.outcome \in {None, "ok", "error"}
        BY DEF Types, Operation
      <3>2. QED
        BY <3>1
    <2>2. answer' \in [Calls -> {"none", "refused", "ok", "error", "uncertain", "in progress"}]
      BY <2>1 DEF Types
    <2>3. pc' \in [Calls -> Owning \cup {"idle", "shares", "waits", "answered", "dead"}]
      BY DEF Types
    <2>4. QED
      BY <2>2, <2>3 DEF Types
  <1>2. \A d \in Calls : pc'[d] \in Owning => pc[d] \in Owning /\ pc'[d] = pc[d]
    BY DEF Types, Owning
  <1>3. Owned' /\ Staged' /\ FreeWhenFailed'
    BY <1>2 DEF Owned, Staged, FreeWhenFailed, Free, RowOf, Owning, Queueing, Launching, Clear
  <1>4. Unlaunched' /\ LiveRow' /\ SlotComesBack'
    BY DEF Unlaunched, LiveRow, SlotComesBack, Clear
  <1>5. AnswersAgree'
    BY DEF AnswersAgree, Types
  <1>6. QED
    BY <1>1, <1>3, <1>4, <1>5

\* A key that is free is reserved.
LEMMA ReserveKeeps ==
  ASSUME Sane, IInv, NEW c \in Calls, pc[c] = "idle", At[c] \in up, operation.phase = "none",
         operation' = [phase |-> "PREPARING", executor |-> At[c], contract |-> Contract[c],
                       outcome |-> None],
         task' = "PENDING", active' = [active EXCEPT ![At[c]] = c], Goto(c, "queue"),
         UNCHANGED <<row, lease, answer, up, live, gen, tries, ended, mishaps>>
  PROVE  IInv'
  <1> USE DEF IInv, Goto
  <1>1. Types'
    <2>1. operation' \in Operation
      BY DEF Types, Sane, Operation, Contracts
    <2>2. active' \in [Servers -> Calls \cup {None}] /\
          pc' \in [Calls -> Owning \cup {"idle", "shares", "waits", "answered", "dead"}]
      BY DEF Types, Sane, Owning
    <2>3. QED
      BY <2>1, <2>2 DEF Types
  <1>2. \A d \in Calls : pc[d] \notin Owning
    BY DEF Owned
  <1>3. row = NoRow /\ lease = "none" /\ operation.outcome = None
    BY DEF Unlaunched, NoOperation
  <1>4. \A d \in Calls : pc'[d] \in Owning => d = c /\ pc'[d] = "queue"
    BY <1>2 DEF Types, Owning
  <1>5. Owned'
    BY <1>4, Zenon DEF Types, Sane, Owned
  <1>6. Unlaunched' /\ LiveRow'
    BY <1>3 DEF Unlaunched, LiveRow, NoRow
  <1>7. Staged' /\ FreeWhenFailed'
    BY <1>3, <1>4 DEF Staged, FreeWhenFailed, Free, Owning, Queueing, Launching, NoRow, Clear
  <1>8. SlotComesBack' /\ AnswersAgree'
    BY <1>3 DEF SlotComesBack, AnswersAgree, Sane
  <1>9. QED
    BY <1>1, <1>5, <1>6, <1>7, <1>8

\* A key whose executor died before anything was authorized is taken over.
LEMMA TakeOverKeeps ==
  ASSUME Sane, IInv, NEW c \in Calls, pc[c] = "idle", At[c] \in up, operation.outcome = None,
         operation.phase = "PREPARING", operation.executor \notin up,
         row' = IF row.phase = "QUEUED" \/ (row.phase = "RUNNING" /\ row.stop)
                THEN [row EXCEPT !.phase = "STOPPED"] ELSE row,
         operation' = [operation EXCEPT !.executor = At[c]],
         active' = [active EXCEPT ![At[c]] = c], Goto(c, "queue"),
         UNCHANGED <<task, lease, answer, up, live, gen, tries, ended, mishaps>>
  PROVE  IInv'
  <1> USE DEF IInv, Goto
  <1>1. row.stop /\ lease = "none" /\ row.phase \in {"QUEUED", "RUNNING", "STOPPED"}
    BY DEF Types, Row, Unlaunched
  <1>2. row' \in Row /\ row'.phase = "STOPPED" /\ row'.stop
    BY <1>1 DEF Types, Row
  <1>3. operation' \in Operation /\ operation'.executor = At[c] /\ operation'.phase = "PREPARING"
        /\ operation'.outcome = None
    BY DEF Types, Operation, Sane
  <1>4. Types'
    <2>1. active' \in [Servers -> Calls \cup {None}] /\
          pc' \in [Calls -> Owning \cup {"idle", "shares", "waits", "answered", "dead"}]
      BY DEF Types, Sane, Owning
    <2>2. QED
      BY <1>2, <1>3, <2>1 DEF Types
  <1>5. \A d \in Calls : pc'[d] \in Owning => d = c /\ pc'[d] = "queue"
    BY DEF Types, Owned
  <1>6. Owned'
    BY <1>3, <1>5, Zenon DEF Types, Sane, Owned
  <1>7. live = {} /\ live' = {}
    BY <1>1, Idle
  <1>8. Unlaunched' /\ LiveRow'
    BY <1>1, <1>2, <1>3, <1>7 DEF Unlaunched, LiveRow
  <1>9. Staged' /\ FreeWhenFailed'
    BY <1>1, <1>2, <1>5 DEF Staged, FreeWhenFailed, Free, Owning, Queueing, Launching, Clear
  <1>10. SlotComesBack' /\ AnswersAgree'
    BY <1>3 DEF SlotComesBack, AnswersAgree, Sane
  <1>11. QED
    BY <1>4, <1>6, <1>8, <1>9, <1>10

\* A key whose executor died after an authorization is given up.
LEMMA GiveUpKeeps ==
  ASSUME Sane, IInv, NEW c \in Calls, pc[c] = "idle", operation.phase # "none",
         operation.outcome = None,
         operation.executor \notin up, operation.phase # "PREPARING",
         row' = IF row.gen > 0 /\ ~row.stop THEN [row EXCEPT !.phase = "QUARANTINED"] ELSE row,
         lease' = IF row.gen > 0 /\ ~row.stop THEN "QUARANTINED" ELSE lease,
         operation' = [operation EXCEPT !.phase = "UNCERTAIN"], Goto(c, "waits"),
         UNCHANGED <<active, answer, up, live, gen, tries, ended, mishaps>>
  PROVE  IInv'
  <1> USE DEF IInv, Goto
  <1>1. row' \in Row /\ row'.gen = row.gen /\ row'.stop = row.stop
        /\ row'.phase \in {row.phase, "QUARANTINED"}
        /\ (row'.phase = "STOPPED" => row.phase = "STOPPED")
        /\ (row.stop => row' = row /\ lease' = lease)
    BY DEF Types, Row
  <1>2. operation' \in Operation /\ operation'.executor = operation.executor
        /\ operation'.phase = "UNCERTAIN" /\ operation'.outcome = None
    BY DEF Types, Operation
  <1>3. Types'
    <2>1. pc' \in [Calls -> Owning \cup {"idle", "shares", "waits", "answered", "dead"}]
      BY DEF Types
    <2>2. QED
      BY <1>1, <1>2, <2>1 DEF Types
  <1>4. \A d \in Calls : pc'[d] \notin Owning
    BY DEF Types, Owned, Owning
  <1>5. Owned' /\ Staged' /\ FreeWhenFailed'
    BY <1>2, <1>4 DEF Owned, Staged, FreeWhenFailed, Owning, Queueing, Launching
  <1>6. Unlaunched' /\ LiveRow'
    BY <1>1, <1>2 DEF Unlaunched, LiveRow, Occupied, Clear
  <1>7. SlotComesBack' /\ AnswersAgree'
    BY <1>2 DEF SlotComesBack, AnswersAgree, Sane
  <1>8. QED
    BY <1>3, <1>5, <1>6, <1>7

\* A repeated delegation.
LEMMA DelegateKeeps == ASSUME Sane, IInv, NEW c \in Calls, Delegate(c) PROVE IInv'
  <1> DEFINE Known == operation.phase # "none" /\ operation.outcome = None
  <1>1. UNCHANGED <<up, live, gen, tries, ended, mishaps>> /\ pc[c] = "idle" /\ At[c] \in up
    BY DEF Delegate
  <1>2. CASE /\ operation.phase = "none"
             /\ operation' = [phase |-> "PREPARING", executor |-> At[c], contract |-> Contract[c],
                              outcome |-> None]
             /\ task' = "PENDING" /\ active' = [active EXCEPT ![At[c]] = c] /\ Goto(c, "queue")
             /\ UNCHANGED <<row, lease, answer>>
    BY <1>1, <1>2, ReserveKeeps
  <1>3. CASE /\ Goto(c, "answered") /\ answer' = [answer EXCEPT ![c] = "refused"]
             /\ UNCHANGED <<rows, active>>
    BY <1>1, <1>3, JoinKeeps
  <1>4. CASE /\ operation.outcome # None
             /\ Goto(c, "answered") /\ answer' = [answer EXCEPT ![c] = operation.outcome]
             /\ UNCHANGED <<rows, active>>
    BY <1>1, <1>4, JoinKeeps
  <1>5. CASE /\ Known /\ operation.executor = At[c]
             /\ IF active[At[c]] # None THEN Goto(c, "shares") /\ UNCHANGED active
                ELSE active' = [active EXCEPT ![At[c]] = c] /\ Goto(c, "queue")
             /\ UNCHANGED <<rows, answer>>
    <2>1. active[At[c]] # None
      BY <1>1, <1>5 DEF IInv, Owned
    <2>2. QED
      BY <1>1, <1>5, <2>1, JoinKeeps
  <1>6. CASE /\ Goto(c, IF active[At[c]] # None THEN "shares" ELSE "waits")
             /\ UNCHANGED <<rows, active, answer>>
    BY <1>1, <1>6, JoinKeeps
  <1>7. CASE /\ Known /\ TakenOver(operation.executor, operation.phase)
             /\ row' = IF row.phase = "QUEUED" \/ (row.phase = "RUNNING" /\ row.stop)
                       THEN [row EXCEPT !.phase = "STOPPED"] ELSE row
             /\ operation' = [operation EXCEPT !.executor = At[c]]
             /\ active' = [active EXCEPT ![At[c]] = c] /\ Goto(c, "queue")
             /\ UNCHANGED <<task, lease, answer>>
    BY <1>1, <1>7, TakeOverKeeps DEF TakenOver
  <1>8. CASE /\ Known /\ operation.executor \notin up /\ operation.phase # "PREPARING"
             /\ row' = IF row.gen > 0 /\ ~row.stop THEN [row EXCEPT !.phase = "QUARANTINED"] ELSE row
             /\ lease' = IF row.gen > 0 /\ ~row.stop THEN "QUARANTINED" ELSE lease
             /\ operation' = [operation EXCEPT !.phase = "UNCERTAIN"]
             /\ Goto(c, "waits") /\ UNCHANGED <<active, answer>>
    BY <1>1, <1>8, GiveUpKeeps
  <1>9. QED
    BY <1>2, <1>3, <1>4, <1>5, <1>6, <1>7, <1>8 DEF Delegate, TakenOver

\* A call that waits is answered with the outcome, if there is one.
LEMMA WaitKeeps == ASSUME Sane, IInv, NEW c \in Calls, Wait(c) PROVE IInv'
  <1> DEFINE a == IF operation.outcome # None THEN operation.outcome
                  ELSE IF operation.phase = "UNCERTAIN" THEN "uncertain" ELSE "in progress"
  <1>1. answer' = [answer EXCEPT ![c] = a] /\ Goto(c, "answered") /\ pc[c] = "waits"
        /\ UNCHANGED <<up, rows, live, active, gen, tries, ended, mishaps>>
    BY DEF Wait
  <1>2. a \in {"refused", "uncertain", "in progress"} \/ (a = operation.outcome /\ a # None)
    OBVIOUS
  <1> HIDE DEF a
  <1>3. QED
    BY <1>1, <1>2, JoinKeeps
-----------------------------------------------------------------------------
(* The attempts of the owner.                                              *)

\* A step of the owner that leaves the operation as it is keeps what is said of owners, of
\* answers and of keys that were not launched, if it does so of the row.
LEMMA OwnerStep ==
  ASSUME Sane, IInv, NEW c \in Calls, NEW l, l \in Owning, pc[c] \in Owning, Goto(c, l),
         UNCHANGED <<up, operation, active, answer>>,
         row' \in Row, tries' \in [Calls -> Nat], gen' \in [Calls -> Nat],
         ended' \in [Calls -> {"none", "ok", "error", "uncertain", "refused"}],
         operation.phase = "PREPARING" =>
            row'.stop /\ lease' = "none" /\ row'.phase # "QUARANTINED",
         row'.phase = "STOPPED" => row'.stop,
         row'.phase = "QUEUED" => row'.stop /\ Clear',
         mishaps' \subseteq {"reaper", "store"}
  PROVE  /\ Types' /\ Owned' /\ Unlaunched' /\ AnswersAgree' /\ SlotComesBack'
         /\ \A d \in Calls : pc'[d] \in Owning => d = c
         /\ pc'[c] = l
  <1> USE DEF IInv, Goto
  <1>1. pc' \in [Calls -> Owning \cup {"idle", "shares", "waits", "answered", "dead"}]
    BY DEF Types
  <1>2. Types'
    BY <1>1 DEF Types
  <1>3. pc'[c] = l /\ \A d \in Calls : pc'[d] \in Owning => d = c
    BY OneOwner DEF Types
  <1>4. /\ At[c] \in up /\ active[At[c]] = c /\ operation.executor = At[c]
        /\ operation.outcome = None /\ operation.phase \in {"PREPARING", "AUTHORIZED"}
    BY DEF Owned
  <1>5. Owned'
    BY <1>3, <1>4 DEF Owned
  <1>6. Unlaunched'
    BY <1>4 DEF Unlaunched
  <1>7. AnswersAgree' /\ SlotComesBack'
    BY <1>4 DEF AnswersAgree, SlotComesBack
  <1>8. QED
    BY <1>2, <1>3, <1>5, <1>6, <1>7

\* The facts of an owner.
LEMMA OwnerFacts ==
  ASSUME IInv, NEW c \in Calls, pc[c] \in Owning
  PROVE  /\ At[c] \in up /\ active[At[c]] = c /\ operation.executor = At[c]
         /\ operation.outcome = None /\ operation.phase \in {"PREPARING", "AUTHORIZED"}
         /\ row \in Row /\ row.gen \in Nat /\ operation \in Operation
         /\ gen \in [Calls -> Nat] /\ tries \in [Calls -> Nat]
         /\ ended \in [Calls -> {"none", "ok", "error", "uncertain", "refused"}]
         /\ (operation.phase = "PREPARING" => row.stop /\ lease = "none" /\ row.phase # "QUARANTINED")
         /\ (row.phase = "STOPPED" => row.stop)
         /\ (row.phase = "QUEUED" => row.stop /\ Clear)
         /\ mishaps \subseteq {"reaper", "store"}
  BY DEF IInv, Owned, Unlaunched, Types, Row

\* Stopping an execution that has its evidence leaves a free row.
LEMMA StopFacts ==
  ASSUME row \in Row
  PROVE  Stop \in Row /\ Stop.stop /\ Stop.phase = "STOPPED" /\ Stop.gen = row.gen
         /\ Stop.executor = row.executor /\ Stop.cancel = row.cancel
  BY DEF Stop, Row

\* The owner starts an attempt with a new row, or fails before it has one.
LEMMA QueueKeeps == ASSUME Sane, IInv, NEW c \in Calls, Queue(c) PROVE IInv'
  <1>1. pc[c] = "queue" /\ pc[c] \in Owning /\ Free /\ row \in Row /\ UNCHANGED mishaps
    BY OwnerFacts DEF Queue, IInv, FreeWhenFailed, Owning
  <1>2. row.phase = "STOPPED" => row.stop /\ Clear /\ live = {}
    BY <1>1, Idle DEF IInv, Staged, Unlaunched
  <1>3. CASE Failed(c) /\ UNCHANGED <<rows, gen>>
    <2>1. UNCHANGED <<up, operation, active, answer, row, lease, tries, gen, ended, live, task>>
      BY <1>3 DEF Queue, rows
    <2>2. /\ Types' /\ Owned' /\ Unlaunched' /\ AnswersAgree' /\ SlotComesBack'
          /\ \A d \in Calls : pc'[d] \in Owning => d = c
          /\ pc'[c] = "failed"
      BY <1>1, <1>3, <2>1, OwnerFacts, OwnerStep DEF Failed, Owning, Clear
    <2>3. LiveRow' /\ Staged' /\ FreeWhenFailed'
      BY <1>1, <2>1, <2>2
         DEF IInv, LiveRow, Staged, FreeWhenFailed, Free, Owning, Queueing, Launching, Clear
    <2>4. QED
      BY <2>2, <2>3 DEF IInv
  <1>4. CASE /\ row.phase = "STOPPED"
             /\ row' = [gen |-> row.gen + 1, phase |-> "QUEUED", stop |-> TRUE, cancel |-> FALSE,
                        executor |-> At[c]]
             /\ gen' = [gen EXCEPT ![c] = row.gen + 1]
             /\ Goto(c, "admission") /\ UNCHANGED <<operation, lease>>
    <2>1. UNCHANGED <<up, operation, active, answer, lease, tries, ended, live, mishaps>>
      BY <1>1, <1>4 DEF Queue
    <2>2. row' \in Row /\ gen' \in [Calls -> Nat] /\ gen'[c] = row.gen + 1
      BY <1>1, <1>4, OwnerFacts DEF Row, Sane
    <2>3. /\ Types' /\ Owned' /\ Unlaunched' /\ AnswersAgree' /\ SlotComesBack'
          /\ \A d \in Calls : pc'[d] \in Owning => d = c
          /\ pc'[c] = "admission"
      BY <1>1, <1>2, <1>4, <2>1, <2>2, OwnerFacts, OwnerStep DEF Owning, Clear
    <2>4. LiveRow' /\ Staged' /\ FreeWhenFailed'
      BY <1>1, <1>2, <1>4, <2>1, <2>2, <2>3
         DEF LiveRow, Staged, FreeWhenFailed, Owning, Queueing, Launching, RowOf, Clear
    <2>5. QED
      BY <2>3, <2>4 DEF IInv
  <1>5. QED
    BY <1>3, <1>4 DEF Queue

\* The queue admits the entry, or gives it up.
LEMMA AdmitKeeps == ASSUME Sane, IInv, NEW c \in Calls, Admit(c) PROVE IInv'
  <1>1. pc[c] = "admission" /\ pc[c] \in Owning /\ Clear /\ row.stop /\ RowOf(c)
    BY DEF Admit, IInv, Staged, Owning, Queueing
  <1>2. live = {}
    BY <1>1, Idle DEF IInv
  <1>3. UNCHANGED <<up, operation, lease, live, active, gen, tries, ended, answer, mishaps>>
    BY DEF Admit
  <1>4. CASE row' = Stop /\ Failed(c)
    <2>1. /\ Types' /\ Owned' /\ Unlaunched' /\ AnswersAgree' /\ SlotComesBack'
          /\ \A d \in Calls : pc'[d] \in Owning => d = c
          /\ pc'[c] = "failed"
      BY <1>1, <1>3, <1>4, OwnerFacts, OwnerStep, StopFacts DEF Failed, Owning, Clear
    <2>2. LiveRow' /\ Staged' /\ FreeWhenFailed'
      BY <1>1, <1>2, <1>3, <1>4, <2>1, OwnerFacts, StopFacts
         DEF LiveRow, Staged, FreeWhenFailed, Free, Owning, Queueing, Launching, Clear
    <2>3. QED
      BY <2>1, <2>2 DEF IInv
  <1>5. CASE row' = [row EXCEPT !.phase = "RUNNING"] /\ Goto(c, "prepare")
    <2>1. /\ row' \in Row /\ row'.gen = row.gen /\ row'.stop /\ row'.phase = "RUNNING"
          /\ row'.executor = row.executor
      BY <1>1, <1>5, OwnerFacts DEF Row
    <2>2. /\ Types' /\ Owned' /\ Unlaunched' /\ AnswersAgree' /\ SlotComesBack'
          /\ \A d \in Calls : pc'[d] \in Owning => d = c
          /\ pc'[c] = "prepare"
      BY <1>1, <1>3, <1>5, <2>1, OwnerFacts, OwnerStep DEF Owning, Clear
    <2>3. LiveRow' /\ Staged' /\ FreeWhenFailed'
      BY <1>1, <1>2, <1>3, <2>1, <2>2
         DEF LiveRow, Staged, FreeWhenFailed, Owning, Queueing, Launching, RowOf, Clear
    <2>4. QED
      BY <2>2, <2>3 DEF IInv
  <1>6. QED
    BY <1>1, <1>4, <1>5 DEF Admit, Current, RowOf

\* Preparing an attempt withdraws the evidence and authorizes its launch, or stops the row.
LEMMA PrepareKeeps == ASSUME Sane, IInv, NEW c \in Calls, Prepare(c) PROVE IInv'
  <1>1. /\ pc[c] = "prepare" /\ pc[c] \in Owning /\ Clear /\ row.stop /\ RowOf(c)
        /\ row.phase = "RUNNING"
    BY DEF Prepare, IInv, Staged, Owning, Queueing
  <1>2. live = {}
    BY <1>1, Idle DEF IInv
  <1>3. UNCHANGED <<up, live, active, gen, tries, ended, answer, mishaps>>
    BY DEF Prepare
  <1>4. CASE /\ lease' = "HELD" /\ row' = [row EXCEPT !.stop = FALSE]
             /\ operation' = Authorize /\ Goto(c, "launch")
    <2>1. /\ row' \in Row /\ row'.gen = row.gen /\ ~row'.stop /\ row'.phase = "RUNNING"
          /\ row'.executor = row.executor
      BY <1>1, <1>4, OwnerFacts DEF Row
    <2>2. /\ operation' \in Operation /\ operation'.phase = "AUTHORIZED"
          /\ operation'.executor = At[c] /\ operation'.outcome = None
      BY <1>1, <1>4, OwnerFacts DEF Authorize, Operation
    <2>3. pc' \in [Calls -> Owning \cup {"idle", "shares", "waits", "answered", "dead"}]
          /\ pc'[c] = "launch"
      BY <1>4 DEF IInv, Types, Goto, Owning
    <2>4. \A d \in Calls : pc'[d] \in Owning => d = c
      BY <1>1, <1>4, OneOwner DEF IInv, Types, Goto
    <2>5. Types'
      BY <1>3, <2>1, <2>2, <2>3 DEF IInv, Types
    <2>6. Owned'
      BY <1>1, <1>3, <2>2, <2>4, OwnerFacts DEF Owned, Sane
    <2>7. Unlaunched' /\ LiveRow'
      BY <1>2, <1>3, <2>1, <2>2 DEF Unlaunched, LiveRow, Clear
    <2>8. Staged' /\ FreeWhenFailed'
      BY <1>1, <1>3, <1>4, <2>1, <2>2, <2>3, <2>4
         DEF Staged, FreeWhenFailed, Owning, Queueing, Launching, RowOf, Clear
    <2>9. SlotComesBack' /\ AnswersAgree'
      BY <1>1, <1>3, <2>2, OwnerFacts DEF IInv, SlotComesBack, AnswersAgree
    <2>10. QED
      BY <2>5, <2>6, <2>7, <2>8, <2>9 DEF IInv
  <1>5. CASE row' = Stop /\ Failed(c) /\ UNCHANGED <<operation, lease>>
    <2>1. /\ Types' /\ Owned' /\ Unlaunched' /\ AnswersAgree' /\ SlotComesBack'
          /\ \A d \in Calls : pc'[d] \in Owning => d = c
          /\ pc'[c] = "failed"
      BY <1>1, <1>3, <1>5, OwnerFacts, OwnerStep, StopFacts DEF Failed, Owning, Clear
    <2>2. LiveRow' /\ Staged' /\ FreeWhenFailed'
      BY <1>1, <1>2, <1>3, <1>5, <2>1, OwnerFacts, StopFacts
         DEF LiveRow, Staged, FreeWhenFailed, Free, Owning, Queueing, Launching, Clear
    <2>3. QED
      BY <2>1, <2>2 DEF IInv
  <1>6. QED
    BY <1>1, <1>4, <1>5 DEF Prepare, Current, RowOf

\* The launch makes the runtime of the row live.
LEMMA LaunchKeeps == ASSUME Sane, IInv, NEW c \in Calls, Launch(c) PROVE IInv'
  <1>1. /\ pc[c] = "launch" /\ pc[c] \in Owning /\ ~row.stop /\ RowOf(c)
        /\ row.phase = "RUNNING" /\ operation.phase = "AUTHORIZED"
         /\ (lease = "QUARANTINED" => "reaper" \in mishaps)
    BY DEF Launch, IInv, Staged, Owning, Queueing, Launching
  <1>2. UNCHANGED <<up, operation, task, row, lease, active, gen, tries, ended, answer, mishaps>>
    BY DEF Launch, rows
  <1>3. /\ Types' /\ Owned' /\ Unlaunched' /\ AnswersAgree' /\ SlotComesBack'
        /\ \A d \in Calls : pc'[d] \in Owning => d = c
        /\ pc'[c] = "running"
    BY <1>1, <1>2, OwnerFacts, OwnerStep DEF Launch, Owning, Clear
  <1>4. LiveRow'
    BY <1>1, <1>2 DEF Launch, IInv, LiveRow, RowOf, Occupied
  <1>5. Staged' /\ FreeWhenFailed'
    BY <1>1, <1>2, <1>3 DEF Staged, FreeWhenFailed, Owning, Queueing, Launching, RowOf
  <1>6. QED
    BY <1>3, <1>4, <1>5 DEF IInv

\* The end of a runtime, and what its worker says of the task.
LEMMA WorldKeeps ==
  ASSUME Sane, IInv, (\E g \in live : RuntimeEnds(g)) \/ (\E c \in Calls : Milestone(c))
  PROVE  IInv'
  <1>1. UNCHANGED <<up, operation, row, lease, active, pc, gen, tries, ended, answer, mishaps>>
        /\ live' \subseteq live
    BY DEF RuntimeEnds, Milestone, rows
  <1>2. Types' /\ Owned' /\ LiveRow' /\ Staged' /\ AnswersAgree'
    BY <1>1 DEF IInv, Types, Owned, LiveRow, Staged, AnswersAgree, RowOf, Clear
  <1>3. CASE task' = task
    BY <1>1, <1>2, <1>3 DEF IInv, Unlaunched, FreeWhenFailed, Free, SlotComesBack, Clear
  <1>4. ASSUME NEW c \in Calls, Milestone(c)
        PROVE  Unlaunched' /\ FreeWhenFailed' /\ SlotComesBack'
    <2>1. pc[c] \in Owning /\ pc[c] = "running"
      BY <1>4 DEF Milestone, Owning
    <2>2. operation.outcome = None /\ operation.phase \in {"PREPARING", "AUTHORIZED"}
      BY <2>1, OwnerFacts
    <2>3. \A d \in Calls : pc[d] \notin {"queue", "failed"}
      <3> SUFFICES ASSUME NEW d \in Calls, pc[d] \in {"queue", "failed"} PROVE FALSE
        OBVIOUS
      <3>1. d = c
        BY <2>1, OneOwner DEF IInv, Owning
      <3>2. QED
        BY <2>1, <3>1
    <2>4. QED
      BY <1>1, <2>2, <2>3 DEF IInv, Unlaunched, FreeWhenFailed, SlotComesBack, Clear
  <1>5. QED
    BY <1>2, <1>3, <1>4 DEF IInv, RuntimeEnds, rows

\* The stop report of the adapter.
LEMMA ReportKeeps == ASSUME Sane, IInv, NEW c \in Calls, ReportStopped(c) PROVE IInv'
  <1>1. /\ pc[c] = "running" /\ pc[c] \in Owning /\ RowOf(c) /\ gen[c] \notin live
        /\ row.phase = "RUNNING" /\ operation.phase = "AUTHORIZED"
    BY DEF ReportStopped, IInv, Staged, Owning, Queueing, Launching
  <1>2. UNCHANGED <<up, operation, task, lease, live, active, pc, gen, tries, ended, answer, mishaps>>
    BY DEF ReportStopped
  <1>3. /\ row' \in Row /\ row'.gen = row.gen /\ row'.stop /\ row'.phase = "RUNNING"
        /\ row'.executor = row.executor
    BY <1>1, OwnerFacts DEF ReportStopped, Row
  <1>4. /\ operation.outcome = None /\ \A d \in Calls : pc[d] \in Owning => d = c
    BY <1>1, OwnerFacts, OneOwner DEF IInv
  <1>5. Types' /\ Owned' /\ Unlaunched' /\ AnswersAgree' /\ SlotComesBack'
    BY <1>1, <1>2, <1>3, <1>4 DEF IInv, Types, Owned, Unlaunched, AnswersAgree, SlotComesBack, Clear
  <1>6. live = {}
    BY <1>1 DEF IInv, LiveRow, RowOf
  <1>7. LiveRow' /\ Staged' /\ FreeWhenFailed'
    BY <1>1, <1>2, <1>3, <1>4, <1>6
       DEF IInv, LiveRow, Staged, FreeWhenFailed, Owning, Queueing, Launching, RowOf
  <1>8. QED
    BY <1>5, <1>7 DEF IInv

\* The invocation settles.
LEMMA EndedKeeps == ASSUME Sane, IInv, NEW c \in Calls, Ended(c) PROVE IInv'
  <1>1. /\ pc[c] = "running" /\ pc[c] \in Owning /\ RowOf(c)
        /\ row.phase = "RUNNING" /\ operation.phase = "AUTHORIZED"
        /\ (lease = "QUARANTINED" => "reaper" \in mishaps)
    BY DEF Ended, IInv, Staged, Owning, Queueing, Launching
  <1>2. UNCHANGED <<up, operation, task, lease, live, active, gen, tries, answer, mishaps>>
    BY DEF Ended
  <1>3. PICK result \in {"ok", "error"}, stopped \in StopEvidence(c) :
          /\ row' = [row EXCEPT !.stop = stopped, !.phase = IF stopped THEN "RUNNING" ELSE "QUARANTINED"]
          /\ ended' = [ended EXCEPT ![c] = IF ~stopped THEN "uncertain" ELSE result]
          /\ Goto(c, "commit")
    BY <1>1 DEF Ended, Current, RowOf
  <1>4. stopped \in BOOLEAN /\ (stopped => gen[c] \notin live)
    BY DEF StopEvidence
  <1>5. /\ row' \in Row /\ row'.gen = row.gen /\ row'.stop = stopped /\ row'.phase \in Occupied
        /\ row'.executor = row.executor
    BY <1>1, <1>3, <1>4, OwnerFacts DEF Row, Occupied
  <1>6. /\ ended' \in [Calls -> {"none", "ok", "error", "uncertain", "refused"}]
        /\ ended'[c] \in {"ok", "error", "uncertain"} /\ (ended'[c] = "uncertain" <=> ~stopped)
    BY <1>1, <1>3, <1>4, OwnerFacts
  <1>7. /\ Types' /\ Owned' /\ Unlaunched' /\ AnswersAgree' /\ SlotComesBack'
        /\ \A d \in Calls : pc'[d] \in Owning => d = c
        /\ pc'[c] = "commit"
    BY <1>1, <1>2, <1>3, <1>5, <1>6, OwnerFacts, OwnerStep DEF Owning, Occupied
  <1>8. LiveRow'
    BY <1>1, <1>2, <1>4, <1>5 DEF IInv, LiveRow, RowOf
  <1>9. Staged' /\ FreeWhenFailed'
    BY <1>1, <1>2, <1>5, <1>6, <1>7
       DEF Staged, FreeWhenFailed, Owning, Queueing, Launching, RowOf
  <1>10. QED
    BY <1>7, <1>8, <1>9 DEF IInv

\* An outcome settles the owner and those that share its promise; nobody owns the operation then.
LEMMA SettleKeeps ==
  ASSUME Sane, IInv, NEW c \in Calls, pc[c] \in Owning, NEW a \in {"ok", "error"}, Settle(c, a),
         operation' = [operation EXCEPT !.phase = "FINISHED", !.outcome = a],
         row' \in Row, row'.phase = "STOPPED" => row'.stop, row'.phase = "QUEUED" => row'.stop /\ Clear',
         Free', LiveRow', up' = up, mishaps' = mishaps
  PROVE  IInv'
  <1> DEFINE S == {c} \cup {d \in Calls : pc[d] = "shares" /\ At[d] = At[c]}
  <1>1. /\ pc' = [d \in Calls |-> IF d \in S THEN "answered" ELSE pc[d]]
        /\ answer' = [d \in Calls |-> IF d \in S THEN a ELSE answer[d]]
        /\ gen' = [gen EXCEPT ![c] = 0] /\ tries' = [tries EXCEPT ![c] = 0]
        /\ ended' = [ended EXCEPT ![c] = "none"] /\ active' = [active EXCEPT ![At[c]] = None]
    BY DEF Settle
  <1>2. /\ operation' \in Operation /\ operation'.phase = "FINISHED" /\ operation'.outcome = a
        /\ operation'.executor = At[c] /\ a # None
    BY OwnerFacts DEF Operation, Sane
  <1>3. Types'
    <2>1. pc' \in [Calls -> Owning \cup {"idle", "shares", "waits", "answered", "dead"}]
      BY <1>1 DEF IInv, Types
    <2>2. answer' \in [Calls -> {"none", "refused", "ok", "error", "uncertain", "in progress"}]
      BY <1>1 DEF IInv, Types
    <2>3. QED
      BY <1>1, <1>2, <2>1, <2>2 DEF IInv, Types, Sane
  <1>4. \A d \in Calls : pc'[d] \notin Owning
    BY <1>1, OneOwner DEF IInv, Owning
  <1>5. Owned' /\ Staged' /\ FreeWhenFailed'
    BY <1>2, <1>4 DEF Owned, Staged, FreeWhenFailed, Owning, Queueing, Launching
  <1>6. Unlaunched' /\ SlotComesBack'
    BY <1>2 DEF Unlaunched, SlotComesBack, Free, Clear
  <1>7. AnswersAgree'
    <2>1. \A d \in Calls : answer[d] \notin {"ok", "error"}
      BY OwnerFacts DEF IInv, AnswersAgree, Sane
    <2>2. QED
      BY <1>1, <1>2, <2>1 DEF AnswersAgree
  <1>8. QED
    BY <1>3, <1>5, <1>6, <1>7 DEF IInv

\* The final transaction of an invocation records its verdict, or throws.
LEMMA CommitKeeps == ASSUME Sane, IInv, NEW c \in Calls, Commit(c) PROVE IInv'
  <1>1. /\ pc[c] = "commit" /\ pc[c] \in Owning /\ RowOf(c) /\ operation.phase = "AUTHORIZED"
        /\ row.phase \in Occupied
        /\ ended[c] \in {"ok", "error", "uncertain"} /\ (ended[c] = "uncertain" <=> ~row.stop)
        /\ (lease = "QUARANTINED" => "reaper" \in mishaps)
    BY DEF Commit, IInv, Staged, Owning, Queueing, Launching
  <1>2. up' = up /\ live' = live /\ mishaps' = mishaps
    BY DEF Commit
  <1>3. CASE /\ ended[c] = "ok" /\ LeaseAllows(c) /\ row' = Stop /\ lease' = Released
             /\ operation' = Recorded /\ Settle(c, "ok")
    <2>1. live' = {}
      BY <1>1, <1>2, <1>3, Idle DEF IInv
    <2>2. LiveRow' /\ Free' /\ row' \in Row /\ row'.phase = "STOPPED" /\ row'.stop
      BY <1>1, <1>3, <2>1, OwnerFacts, StopFacts DEF LiveRow, Free, Clear, Released, LeaseAllows
    <2>3. operation' = [operation EXCEPT !.phase = "FINISHED", !.outcome = "ok"]
      BY <1>3 DEF Recorded
    <2>4. QED
      BY <1>1, <1>2, <1>3, <2>2, <2>3, SettleKeeps
  <1>4. CASE /\ LeaseAllows(c) /\ row' = IF ended[c] = "uncertain" THEN row ELSE Stop
             /\ lease' = IF ended[c] = "uncertain" THEN "QUARANTINED" ELSE Released
             /\ Failed(c) /\ UNCHANGED <<operation, active, gen, tries, ended, answer>>
    <2>1. /\ row' \in Row /\ row'.gen = row.gen /\ row'.executor = At[c]
          /\ row'.phase \in {"RUNNING", "QUARANTINED", "STOPPED"}
          /\ IF ended[c] = "uncertain" THEN ~row'.stop /\ row'.phase # "STOPPED"
             ELSE row'.phase = "STOPPED" /\ row'.stop /\ Clear'
      BY <1>1, <1>4, OwnerFacts, StopFacts
         DEF Clear, Released, LeaseAllows, RowOf, Occupied, IInv, Unlaunched
    <2>2. /\ Types' /\ Owned' /\ Unlaunched' /\ AnswersAgree' /\ SlotComesBack'
          /\ \A d \in Calls : pc'[d] \in Owning => d = c
          /\ pc'[c] = "failed"
      BY <1>1, <1>2, <1>4, <2>1, OwnerFacts, OwnerStep DEF Failed, Owning
    <2>3. LiveRow'
      <3>1. CASE ended[c] = "uncertain"
        BY <1>2, <1>4, <3>1 DEF IInv, LiveRow
      <3>2. CASE ended[c] # "uncertain"
        BY <1>1, <1>2, <3>2, Idle DEF IInv, LiveRow
      <3>3. QED
        BY <3>1, <3>2
    <2>4. Free'
      BY <2>1 DEF Free
    <2>5. Staged' /\ FreeWhenFailed'
      BY <2>1, <2>2, <2>4 DEF Staged, FreeWhenFailed, Owning, Queueing, Launching
    <2>6. QED
      BY <2>2, <2>3, <2>5 DEF IInv
  <1>5. CASE /\ ~Legal(Verdict(c)) \/ ~LeaseAllows(c)
             /\ Failed(c) /\ ended' = [ended EXCEPT ![c] = "refused"]
             /\ UNCHANGED <<rows, active, gen, tries, answer>>
    <2>1. Free
      BY <1>1, <1>5 DEF Legal, Verdict, Terminal, Free, LeaseAllows
    <2>2. UNCHANGED <<operation, row, lease, task>>
      BY <1>5 DEF rows
    <2>3. /\ Types' /\ Owned' /\ Unlaunched' /\ AnswersAgree' /\ SlotComesBack'
          /\ \A d \in Calls : pc'[d] \in Owning => d = c
          /\ pc'[c] = "failed"
      BY <1>1, <1>2, <1>5, <2>2, OwnerFacts, OwnerStep DEF Failed, Owning, Clear
    <2>4. LiveRow' /\ FreeWhenFailed'
      BY <1>2, <2>1, <2>2, <2>3
         DEF IInv, LiveRow, FreeWhenFailed, Free, Owning, Clear
    <2>5. Staged'
      BY <1>1, <2>2, <2>3 DEF Staged, Owning, Queueing, Launching, RowOf, Occupied
    <2>6. QED
      BY <2>3, <2>4, <2>5 DEF IInv
  <1>6. QED
    BY <1>1, <1>3, <1>4, <1>5 DEF Commit, Current, RowOf

\* A transaction of the attempt that the store refuses leaves everything as it is.
LEMMA StoreFailsKeeps == ASSUME Sane, IInv, NEW c \in Calls, StoreFails(c) PROVE IInv'
  <1>1. /\ pc[c] \in {"admission", "prepare", "running", "commit"} /\ pc[c] \in Owning
        /\ row.executor = At[c] /\ (row.phase = "STOPPED" => Clear)
    BY DEF StoreFails, IInv, Staged, Owning, Queueing, RowOf, Occupied
  <1>2. /\ UNCHANGED <<up, operation, task, row, lease, live, active, gen, tries, ended, answer>>
        /\ mishaps' = mishaps \cup {"store"} /\ Failed(c)
    BY DEF StoreFails, rows
  <1>3. /\ Types' /\ Owned' /\ Unlaunched' /\ AnswersAgree' /\ SlotComesBack'
        /\ \A d \in Calls : pc'[d] \in Owning => d = c
        /\ pc'[c] = "failed"
    BY <1>1, <1>2, OwnerFacts, OwnerStep DEF Failed, Owning, Clear
  <1>4. LiveRow' /\ Staged' /\ FreeWhenFailed'
    BY <1>1, <1>2, <1>3
       DEF IInv, LiveRow, Staged, FreeWhenFailed, Free, Owning, Queueing, Launching, Clear
  <1>5. QED
    BY <1>3, <1>4 DEF IInv

\* A failed attempt with stop evidence is followed by another.
LEMMA RetryKeeps == ASSUME Sane, IInv, NEW c \in Calls, Retry(c) PROVE IInv'
  <1>1. pc[c] = "failed" /\ pc[c] \in Owning /\ row.stop /\ ~row.cancel /\ Free
        /\ IF row.phase = "STOPPED" THEN Clear ELSE row.executor = At[c]
    BY DEF Retry, CanRetry, IInv, Staged, FreeWhenFailed, Owning
  <1>2. UNCHANGED <<up, operation, row, lease, live, active, gen, answer, mishaps>>
        /\ Goto(c, "queue")
    BY DEF Retry
  <1>3. /\ tries' \in [Calls -> Nat]
        /\ ended' \in [Calls -> {"none", "ok", "error", "uncertain", "refused"}]
    BY <1>1, OwnerFacts DEF Retry
  <1>4. /\ Types' /\ Owned' /\ Unlaunched' /\ AnswersAgree' /\ SlotComesBack'
        /\ \A d \in Calls : pc'[d] \in Owning => d = c
        /\ pc'[c] = "queue"
    BY <1>1, <1>2, <1>3, OwnerFacts, OwnerStep DEF Owning, Clear
  <1>5. LiveRow' /\ Staged' /\ FreeWhenFailed'
    BY <1>1, <1>2, <1>4
       DEF IInv, LiveRow, Staged, FreeWhenFailed, Free, Owning, Queueing, Launching, Clear
  <1>6. QED
    BY <1>4, <1>5 DEF IInv

\* The owner writes the outcome of its delegation.
LEMMA FinishKeeps == ASSUME Sane, IInv, NEW c \in Calls, Finish(c) PROVE IInv'
  <1>1. /\ pc[c] = "failed" /\ pc[c] \in Owning /\ Free
        /\ UNCHANGED <<up, task, row, lease, live, mishaps>>
    BY DEF Finish, IInv, FreeWhenFailed, Owning
  <1>2. operation.outcome = None /\ operation.executor = At[c]
    BY <1>1, OwnerFacts
  <1>3. /\ operation' = [operation EXCEPT !.phase = "FINISHED", !.outcome = "error"]
        /\ Settle(c, "error")
    BY <1>2 DEF Finish
  <1>4. Free' /\ LiveRow' /\ row' \in Row /\ (row'.phase = "STOPPED" => row'.stop)
        /\ (row'.phase = "QUEUED" => row'.stop /\ Clear')
    BY <1>1, OwnerFacts DEF Free, LiveRow, IInv, Clear
  <1>5. QED
    BY <1>1, <1>3, <1>4, SettleKeeps
-----------------------------------------------------------------------------
(* Other steps.                                                            *)

\* A cancellation of the task.
LEMMA CancelKeeps == ASSUME Sane, IInv, Cancel PROVE IInv'
  <1>1. UNCHANGED <<up, operation, live, active, pc, gen, tries, ended, answer, mishaps>>
        /\ task \notin {"none", "PENDING"} /\ row \in Row
    BY DEF Cancel, IInv, Types
  <1>2. operation.phase # "none"
    BY <1>1 DEF IInv, Unlaunched
  <1>3. CASE /\ row.phase \in {"QUEUED", "STOPPED"} /\ task # "VERIFYING"
             /\ row' = [Stop EXCEPT !.cancel = @ \/ row.phase = "QUEUED"]
             /\ lease' = Released
    <2>1. /\ row' \in Row /\ row'.stop /\ row'.phase = "STOPPED" /\ row'.gen = row.gen
          /\ row'.executor = row.executor
          /\ (Clear => Clear') /\ (lease' = "QUARANTINED" <=> lease = "QUARANTINED")
          /\ lease' # "HELD" /\ row.stop
          /\ (operation.phase = "PREPARING" => lease' = "none")
      BY <1>1, <1>3 DEF Stop, Row, IInv, Unlaunched, Released, Clear
    <2>2. live = {}
      BY <1>3, Idle DEF IInv, Occupied
    <2>3. Types' /\ Owned' /\ AnswersAgree'
      BY <1>1, <2>1 DEF IInv, Types, Owned, AnswersAgree
    <2>4. Unlaunched' /\ LiveRow' /\ FreeWhenFailed' /\ SlotComesBack'
      BY <1>1, <1>2, <1>3, <2>1, <2>2
         DEF IInv, Unlaunched, Staged, LiveRow, FreeWhenFailed, Free, SlotComesBack, Clear
    <2>5. Staged'
      BY <1>1, <1>3, <2>1 DEF IInv, Unlaunched, Staged, RowOf, Occupied, Queueing, Launching
    <2>6. QED
      BY <2>3, <2>4, <2>5 DEF IInv
  <1>4. CASE /\ row.phase \in Occupied /\ row' = [row EXCEPT !.cancel = TRUE]
             /\ UNCHANGED <<lease, task>>
    <2>1. /\ row' \in Row /\ row'.stop = row.stop /\ row'.phase = row.phase /\ row'.gen = row.gen
          /\ row'.executor = row.executor /\ row'.cancel
      BY <1>1, <1>4 DEF Row
    <2>2. Types' /\ Owned' /\ AnswersAgree'
      BY <1>1, <2>1 DEF IInv, Types, Owned, AnswersAgree
    <2>3. Unlaunched' /\ LiveRow' /\ FreeWhenFailed' /\ SlotComesBack'
      BY <1>1, <1>2, <1>4, <2>1
         DEF IInv, Unlaunched, LiveRow, FreeWhenFailed, Free, SlotComesBack, Clear
    <2>4. Staged'
      BY <1>1, <1>4, <2>1 DEF IInv, Staged, RowOf, Clear
    <2>5. QED
      BY <2>2, <2>3, <2>4 DEF IInv
  <1>5. QED
    BY <1>3, <1>4 DEF Cancel, Occupied

\* The row of a dead executor is stopped when it has stop evidence, and quarantined otherwise.
LEMMA ReconcileKeeps == ASSUME Sane, IInv, Reconcile PROVE IInv'
  <1>1. UNCHANGED <<up, operation, task, live, active, pc, gen, tries, ended, answer, mishaps>>
        /\ row.executor \in Servers \ up /\ row.phase \in {"QUEUED", "RUNNING"} /\ row \in Row
    BY DEF Reconcile, IInv, Types
  <1>2. operation.phase # "none"
    BY <1>1 DEF IInv, Unlaunched, NoRow, Sane
  <1>3. \A c \in Calls : pc[c] \notin Owning
    BY <1>1 DEF IInv, Staged, RowOf, Owned, Owning, Queueing
  <1>5. Owned' /\ AnswersAgree' /\ Staged'
    BY <1>1, <1>3 DEF IInv, Owned, AnswersAgree, Staged, Owning, Queueing, Launching
  <1>6. CASE row.stop /\ row' = Stop /\ lease' = Released
    <2>1. /\ row' \in Row /\ row'.stop /\ row'.phase = "STOPPED" /\ (lease # "QUARANTINED" => Clear')
          /\ (lease = "QUARANTINED" => lease' = lease) /\ row'.cancel = row.cancel
          /\ row'.gen = row.gen /\ (operation.phase = "PREPARING" => lease' = "none")
      BY <1>1, <1>6, StopFacts DEF IInv, Unlaunched, Released, Clear
    <2>2. live = {}
      BY <1>6, Idle DEF IInv
    <2>3. Types'
      BY <1>1, <2>1 DEF IInv, Types
    <2>4. Unlaunched' /\ LiveRow' /\ FreeWhenFailed' /\ SlotComesBack'
      BY <1>1, <1>2, <1>3, <1>6, <2>1, <2>2
         DEF IInv, Unlaunched, LiveRow, FreeWhenFailed, SlotComesBack, Owning, Clear
    <2>5. QED
      BY <1>5, <2>3, <2>4 DEF IInv
  <1>7. CASE ~row.stop /\ row' = [row EXCEPT !.phase = "QUARANTINED"]
    <2>1. /\ row' \in Row /\ ~row'.stop /\ row'.phase = "QUARANTINED" /\ row'.gen = row.gen
      BY <1>1, <1>7 DEF Row
    <2>2. operation.phase # "PREPARING"
      BY <1>7 DEF IInv, Unlaunched
    <2>3. Types'
      BY <1>1, <2>1 DEF IInv, Types
    <2>4. Unlaunched' /\ LiveRow' /\ FreeWhenFailed' /\ SlotComesBack'
      BY <1>1, <1>2, <1>3, <2>1, <2>2
         DEF IInv, Unlaunched, LiveRow, FreeWhenFailed, SlotComesBack, Occupied, Owning
    <2>5. QED
      BY <1>5, <2>3, <2>4 DEF IInv
  <1>8. QED
    BY <1>6, <1>7 DEF Reconcile

\* A server that starts takes the lease for expired, or fences its scope.
LEMMA ReapKeeps == ASSUME Sane, IInv, Reap PROVE IInv'
  <1>1. /\ lease = "HELD" /\ lease' = IF row.stop THEN "EXPIRED" ELSE "QUARANTINED"
        /\ mishaps' = IF row.stop THEN mishaps ELSE mishaps \cup {"reaper"}
        /\ UNCHANGED <<up, operation, task, row, live, active, pc, gen, tries, ended, answer>>
    BY DEF Reap
  <1>2. Types' /\ Owned' /\ LiveRow' /\ AnswersAgree'
    BY <1>1 DEF IInv, Types, Owned, LiveRow, AnswersAgree
  <1>3. Unlaunched' /\ Staged'
    BY <1>1 DEF IInv, Unlaunched, Staged, RowOf, Clear
  <1>4. FreeWhenFailed' /\ SlotComesBack'
    BY <1>1 DEF IInv, FreeWhenFailed, Free, SlotComesBack, Clear
  <1>5. QED
    BY <1>2, <1>3, <1>4 DEF IInv

\* Stop evidence that comes late frees row and scope together.
LEMMA LateStopKeeps == ASSUME Sane, IInv, LateStop PROVE IInv'
  <1>1. /\ row.phase = "QUARANTINED" /\ row.gen \notin live /\ ~row.stop /\ row \in Row
        /\ \A c \in Calls : pc[c] # "commit"
        /\ row' = Stop /\ lease' = IF Clear THEN lease ELSE "RELEASED"
        /\ UNCHANGED <<up, operation, task, live, active, pc, gen, tries, ended, answer, mishaps>>
    BY DEF LateStop, IInv, Types
  <1>2. /\ row' \in Row /\ row'.stop /\ row'.phase = "STOPPED" /\ row'.gen = row.gen
        /\ row'.executor = row.executor /\ Clear' /\ live = {}
    BY <1>1, StopFacts DEF Clear, IInv, LiveRow
  <1>3. operation.phase \notin {"none", "PREPARING"}
    BY <1>1 DEF IInv, Unlaunched, NoRow
  <1>4. Types' /\ Owned' /\ Unlaunched' /\ LiveRow' /\ AnswersAgree'
    BY <1>1, <1>2, <1>3 DEF IInv, Types, Owned, Unlaunched, LiveRow, AnswersAgree
  <1>5. Staged' /\ FreeWhenFailed' /\ SlotComesBack'
    BY <1>1, <1>2
       DEF IInv, Staged, RowOf, FreeWhenFailed, Free, SlotComesBack, Queueing, Launching, Clear
  <1>6. QED
    BY <1>4, <1>5 DEF IInv

\* A server dies, with the calls it holds; rows and runtimes stay.
LEMMA CrashKeeps == ASSUME Sane, IInv, NEW s \in Servers, Crash(s) PROVE IInv'
  <1>1. /\ s \in up /\ up' = up \ {s} /\ pc' = [c \in Calls |-> IF At[c] = s THEN "dead" ELSE pc[c]]
        /\ active' = [active EXCEPT ![s] = None]
        /\ gen' = [c \in Calls |-> IF At[c] = s THEN 0 ELSE gen[c]]
        /\ tries' = [c \in Calls |-> IF At[c] = s THEN 0 ELSE tries[c]]
        /\ ended' = [c \in Calls |-> IF At[c] = s THEN "none" ELSE ended[c]]
        /\ UNCHANGED <<operation, task, row, lease, live, answer, mishaps>>
    BY DEF Crash, rows
  <1>2. Types'
    BY <1>1 DEF IInv, Types
  <1>3. \A c \in Calls : pc'[c] \in Owning =>
           pc'[c] = pc[c] /\ At[c] # s /\ gen'[c] = gen[c] /\ ended'[c] = ended[c]
    BY <1>1 DEF Owning
  <1>4. Owned'
    <2>1. \A r \in Servers : r # s => active'[r] = active[r]
      BY <1>1 DEF IInv, Types
    <2>2. \A c \in Calls : pc'[c] \in Owning =>
             /\ At[c] \in up' /\ active'[At[c]] = c /\ operation'.executor = At[c]
             /\ operation'.outcome = None /\ operation'.phase \in {"PREPARING", "AUTHORIZED"}
      BY <1>1, <1>3, <2>1 DEF IInv, Owned, Sane
    <2>3. operation'.executor \in up' /\ operation'.outcome = None =>
             active'[operation'.executor] # None
      <3>1. up \subseteq Servers
        BY DEF IInv, Types
      <3>2. operation.executor \in up /\ operation.outcome = None => active[operation.executor] # None
        BY DEF IInv, Owned
      <3>3. up' = up \ {s} /\ operation' = operation
        BY <1>1
      <3> QED
        BY <2>1, <3>1, <3>2, <3>3
    <2>4. QED
      BY <2>2, <2>3 DEF Owned
  <1>5. Staged' /\ FreeWhenFailed'
    BY <1>1, <1>3 DEF IInv, Staged, FreeWhenFailed, Free, RowOf, Owning, Queueing, Launching, Clear
  <1>6. Unlaunched' /\ LiveRow' /\ SlotComesBack' /\ AnswersAgree'
    BY <1>1 DEF IInv, Unlaunched, LiveRow, SlotComesBack, AnswersAgree, Clear
  <1>7. QED
    BY <1>2, <1>4, <1>5, <1>6 DEF IInv
-----------------------------------------------------------------------------
(* The theorems.                                                           *)

\* Every step keeps the invariant.
LEMMA NextKeeps == ASSUME Sane, IInv, [Next]_delegationVars PROVE IInv'
  <1>1. CASE UNCHANGED delegationVars
    BY <1>1 DEF delegationVars, rows, IInv, Types, Owned, Unlaunched, LiveRow, Staged, RowOf,
                FreeWhenFailed, Free, SlotComesBack, AnswersAgree, Clear
  <1>2. ASSUME NEW c \in Calls, Attempt(c) PROVE IInv'
    BY <1>2, QueueKeeps, AdmitKeeps, PrepareKeeps, LaunchKeeps, EndedKeeps, CommitKeeps,
       RetryKeeps, FinishKeeps DEF Attempt
  <1>3. ASSUME NEW c \in Calls, Delegate(c) \/ Wait(c) \/ Milestone(c) \/ ReportStopped(c)
                               \/ StoreFails(c)
        PROVE  IInv'
    BY <1>3, DelegateKeeps, WaitKeeps, WorldKeeps, ReportKeeps, StoreFailsKeeps
  <1>4. ASSUME NEW g \in live, RuntimeEnds(g) PROVE IInv'
    BY <1>4, WorldKeeps
  <1>5. ASSUME NEW s \in Servers, Crash(s) PROVE IInv'
    BY <1>5, CrashKeeps
  <1>6. CASE Cancel \/ Reconcile \/ Reap \/ LateStop
    BY <1>6, CancelKeeps, ReconcileKeeps, ReapKeeps, LateStopKeeps
  <1>7. QED
    BY <1>1, <1>2, <1>3, <1>4, <1>5, <1>6 DEF Next

\* Every reachable state satisfies the invariant.
THEOREM KeysInvariance == ASSUME Sane PROVE Spec => []IInv
  <1>1. Init => IInv
    BY InitKeys
  <1>2. IInv /\ [Next]_delegationVars => IInv'
    BY NextKeeps
  <1>3. QED
    BY <1>1, <1>2, PTL DEF Spec

\* What the invariant promises.
LEMMA Promises == ASSUME IInv PROVE OneRuntimePerKey /\ AnswersAgree /\ SlotComesBack
  <1>1. live \subseteq {row.gen}
    BY DEF IInv, LiveRow
  <1>2. IsFiniteSet({row.gen}) /\ Cardinality({row.gen}) = 1
    BY FS_Singleton
  <1>3. Cardinality(live) <= 1
    BY <1>1, <1>2, FS_Subset
  <1>4. operation.phase = "PREPARING" => live = {}
    BY Idle DEF IInv, Unlaunched
  <1>5. QED
    BY <1>3, <1>4 DEF IInv, OneRuntimePerKey

\* A delegation key is at work once, and never for an operation that may be run again, whichever
\* servers repeat it, take it over or die (delegation-operation.ts:38-100, orchestrator.ts:225).
THEOREM OneRuntimeAlways == ASSUME Sane PROVE Spec => []OneRuntimePerKey
  BY Promises, KeysInvariance, PTL

\* Whoever is told an outcome under a key is told the one that is recorded
\* (DelegationOperationService.wait and finish).
THEOREM AnswersAgreeAlways == ASSUME Sane PROVE Spec => []AnswersAgree
  BY Promises, KeysInvariance, PTL

\* Slot and scope of a finished delegation whose runtime has provably stopped are free, but for a
\* cancellation accepted while the task is VERIFYING, a lease that the reaper quarantined under the
\* running row, and a failed store (orchestrator.ts:440-560, lease-manager.ts:225-285).
THEOREM SlotComesBackAlways == ASSUME Sane PROVE Spec => []SlotComesBack
  BY Promises, KeysInvariance, PTL
=============================================================================
