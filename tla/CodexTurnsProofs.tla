-------------------------- MODULE CodexTurnsProofs --------------------------
(***************************************************************************)
(* Theorems about CodexTurns: whatever the number of calls, threads and    *)
(* processes, the client says "stopped" only of a turn that is not at      *)
(* work, and a thread has one turn at work.  The reason is that a thread   *)
(* belongs to one call (callbacks): a turn that is at work, or whose end   *)
(* was not yet used, still holds its thread (Holding), so that the         *)
(* notification of an end cannot be taken for the end of another turn.     *)
(***************************************************************************)
EXTENDS CodexTurns, TLAPS

\* The labels of a call before its turn is launched, while it holds a thread,
\* and while the thread is known to run its very turn.
Early == {"idle", "connect", "config", "catalog", "thread", "handle", "refused", "reporting"}
Known == {"waiting", "interrupting", "stopResolved", "stopExpired", "answered"}
Held  == Known \cup {"reporting", "starting", "caught"}
Labels == Early \cup Held \cup {"closing", "done"}

Types ==
    /\ activeTurns \in [Threads -> Calls \cup {None, Null}]
    /\ callbacks \in [Threads -> Calls \cup {None}]
    /\ unconfirmedThreads \subseteq Threads
    /\ sure \subseteq Calls /\ completedTurns \subseteq Calls /\ retiredTurns \subseteq Calls
    /\ turnWaiters \subseteq Calls
    /\ pc \in [Calls -> Labels]
    /\ report \in [Calls -> {"none", "running", "stopped", "unconfirmed"}]
    /\ outcome \in [Calls -> {"none", "ok", "stopped", "unconfirmed"}]
    /\ turnAt \in [Calls -> {"none", "sent", "running", "ended", "lost"}]

\* A call that has not launched its turn has said nothing yet.
Unlaunched ==
    \A c \in Calls : pc[c] \in Early =>
        turnAt[c] = "none" /\ c \notin sure /\ report[c] = "none" /\ outcome[c] = "none"

\* What counts as evidence of an end is recorded of ended turns only, and once it is known the call
\* waits for nothing.
Evidence ==
    /\ \A c \in sure \cup completedTurns \cup retiredTurns : turnAt[c] = "ended"
    /\ \A c \in Calls : pc[c] \in {"answered", "stopResolved"} => turnAt[c] = "ended"
    /\ \A c \in sure : pc[c] \in {"answered", "caught", "closing", "done"}
    /\ \A c \in turnWaiters : pc[c] = "waiting"
    /\ usageTimers \subseteq turnWaiters \cap completedTurns

\* The turn a thread is said to run is the one of the call it belongs to, and the server took it.
Threading ==
    \A t \in Threads :
        /\ activeTurns[t] \in {None, Null, callbacks[t]}
        /\ activeTurns[t] = None <=> callbacks[t] = None
        /\ \A c \in Calls : activeTurns[t] = c => turnAt[c] \in {"running", "ended"}

\* Who holds its thread, who knows that it runs its turn, and that a turn at work is one of them.
Holds(c) == callbacks[ThreadOf[c]] = c
Holding ==
    \A c \in Calls :
        /\ pc[c] \in Held => Holds(c)
        /\ pc[c] \in Known \/ (c \in sure /\ pc[c] # "done") => activeTurns[ThreadOf[c]] = c
        /\ turnAt[c] \in {"sent", "running", "ended"} => Holds(c) \/ c \in retiredTurns

\* An unconfirmed thread belongs to a call that was given up.
GivenUp ==
    \A t \in unconfirmedThreads :
        /\ activeTurns[t] # None
        /\ \A c \in Calls : callbacks[t] = c => pc[c] \in {"closing", "done"} /\ c \notin sure

\* The books of a turn.  While a call may still be answered with its usage, what is counted is what
\* was sent, one call at a time; an answer takes it, or is of an operational call that has none.
Usage    == [last : Nat, total : Nat]
Counting == Early \cup {"starting", "waiting"}
SumsUp(c) == spent[c].last = spent[c].total /\ (c \in Strict => spent[c].total > 0)
Booked ==
    /\ emitted \in [Calls -> Nat] /\ usageByTurn \in [Calls -> Usage] /\ spent \in [Calls -> Usage]
    /\ \A c \in Calls : pc[c] \in Counting =>
          usageByTurn[c] = [last |-> emitted[c], total |-> emitted[c]] /\ spent[c] = NoUsage
    /\ \A c \in Calls : pc[c] = "answered" \/ outcome[c] = "ok" => SumsUp(c)
    /\ \A c \in Calls : outcome[c] # "none" => pc[c] = "done"
    /\ usageTimers \cap Strict = {}
    /\ \A c \in retiredTurns : pc[c] \in {"closing", "done"}

IInv == /\ Types /\ Unlaunched /\ Evidence /\ Threading /\ Holding /\ GivenUp
        /\ StopReportHonest /\ OutcomeHonest
-----------------------------------------------------------------------------
\* At first nothing is launched and no thread is taken.
LEMMA InitTurns == Init => IInv
  <1> USE CodexAssumption DEF Sane
  <1> QED
    BY DEF Init, IInv, Types, Unlaunched, Evidence, Threading, Holding, Holds, GivenUp,
           StopReportHonest, OutcomeHonest, Launched, Early, Known, Held, Labels

\* How a call may move on while threads, reports and outcomes stay: it prepares its turn, is
\* answered, rejected or out of time; evidence is used only of a turn that has ended.
Moves(l, m, ended) ==
    \/ m = l
    \/ l \in Early /\ m \in Early /\ m # "reporting"
    \/ l \in {"starting", "waiting"} /\ m = "caught"
    \/ l = "interrupting" /\ m = "stopExpired"
    \/ l = "waiting" /\ m = "answered" /\ ended
Serves(a, b) == b = a \/ (a = "sent" /\ b \in {"lost", "running"}) \/ (a = "running" /\ b = "ended")

\* Such a move keeps the invariant.
LEMMA MoveKeeps ==
  ASSUME IInv, pc' \in [Calls -> Labels], turnAt' \in [Calls -> {"none", "sent", "running", "ended", "lost"}],
         \A c \in Calls : Moves(pc[c], pc'[c], c \in completedTurns),
         \A c \in Calls : Serves(turnAt[c], turnAt'[c]),
         sure' \subseteq sure \cup {c \in completedTurns : pc[c] = "waiting"}, sure \subseteq sure',
         \A c \in sure' \ sure : pc'[c] \in {"answered", "caught"},
         turnWaiters' \subseteq turnWaiters, \A c \in turnWaiters' : pc'[c] = "waiting",
         completedTurns' \subseteq completedTurns, usageTimers' \subseteq turnWaiters' \cap completedTurns',
         UNCHANGED <<threadVars, retiredTurns, report, outcome>>
  PROVE IInv'
  <1> USE CodexAssumption DEF Sane, IInv, threadVars
  <1>1. Types'
    BY DEF Types
  <1>2. Unlaunched'
    BY DEF Types, Unlaunched, Moves, Serves, Early
  <1>3. Evidence'
    BY DEF Types, Evidence, Moves, Serves, Early
  <1>4. Threading'
    BY DEF Threading, Serves
  <1>5. Holding'
    BY DEF Types, Unlaunched, Evidence, Holding, Holds, Moves, Serves, Early, Held, Known, Labels
  <1>6. GivenUp'
    BY DEF Types, GivenUp, Moves, Early
  <1>7. StopReportHonest' /\ OutcomeHonest'
    BY DEF Types, StopReportHonest, OutcomeHonest, Launched, Serves
  <1> QED
    BY <1>1, <1>2, <1>3, <1>4, <1>5, <1>6, <1>7

-----------------------------------------------------------------------------
(* Steps that only move calls on.                                          *)

\* What becomes of the awaited promises when everything is rejected is such a move.
LEMMA RejectKeeps ==
  ASSUME IInv, RejectAll, turnAt' \in [Calls -> {"none", "sent", "running", "ended", "lost"}],
         \A c \in Calls : Serves(turnAt[c], turnAt'[c]), UNCHANGED threadVars
  PROVE IInv'
  <1>1. pc' \in [Calls -> Labels] /\ \A c \in Calls : pc'[c] = AfterReject(pc[c])
    BY DEF RejectAll, AfterReject, IInv, Types, Labels, Early, Known, Held
  <1>2. \A c \in Calls : Moves(pc[c], pc'[c], c \in completedTurns)
    BY <1>1 DEF AfterReject, Moves, Early
  <1>3. /\ turnWaiters' = {} /\ usageTimers' \subseteq {} /\ completedTurns' \subseteq completedTurns
        /\ UNCHANGED <<sure, retiredTurns, report, outcome>>
    BY DEF RejectAll, Forget, IInv, Evidence
  <1>4. QED
    BY <1>1, <1>2, <1>3, MoveKeeps

\* Opening, losing and closing the connection.
LEMMA ConnectionKeeps ==
  ASSUME IInv, Connected \/ ConnectFails \/ CatalogRead \/ Close \/ MalformedFrame
               \/ \E g \in 1..MaxSpawn : ChildClosed(g)
  PROVE IInv'
  <1>1. CASE Connected \/ ConnectFails \/ CatalogRead
    <2>1. pc' \in [Calls -> Labels] /\ \A c \in Calls : Moves(pc[c], pc'[c], c \in completedTurns)
      BY <1>1 DEF Connected, ConnectFails, CatalogRead, Sent, Moves, IInv, Types, Labels, Early, Known, Held
    <2>2. /\ UNCHANGED <<threadVars, turnVars, sure, report, outcome, turnAt>>
          /\ turnAt \in [Calls -> {"none", "sent", "running", "ended", "lost"}]
      BY <1>1 DEF Connected, ConnectFails, CatalogRead, turnVars, serverVars, IInv, Types
    <2>3. /\ \A c \in turnWaiters : pc'[c] = "waiting"
          /\ usageTimers \subseteq turnWaiters \cap completedTurns
      BY <1>1 DEF IInv, Evidence, Types, Connected, ConnectFails, CatalogRead
    <2>4. QED
      BY <2>1, <2>2, <2>3, MoveKeeps DEF turnVars, Serves
  <1>2. CASE Close \/ MalformedFrame
    BY <1>2, RejectKeeps DEF Close, MalformedFrame, serverVars, Serves, IInv, Types
  <1>3. ASSUME NEW g \in 1..MaxSpawn, ChildClosed(g) PROVE IInv'
    <2>1. /\ turnAt' \in [Calls -> {"none", "sent", "running", "ended", "lost"}]
          /\ \A c \in Calls : Serves(turnAt[c], turnAt'[c])
          /\ UNCHANGED threadVars
      BY <1>3 DEF ChildClosed, Serves, IInv, Types
    <2>2. CASE closed
      <3>1. UNCHANGED <<callVars, turnVars>>
        BY <1>3, <2>2 DEF ChildClosed
      <3>2. QED
        BY <2>1, <3>1, MoveKeeps DEF callVars, turnVars, IInv, Types, Evidence, Moves
    <2>3. CASE ~closed
      BY <1>3, <2>1, <2>3, RejectKeeps DEF ChildClosed
    <2>4. QED
      BY <2>2, <2>3
  <1>4. QED
    BY <1>1, <1>2, <1>3

\* Preparing a turn, timers, an abort, and the server's own steps.
Ordinary(c) ==
    \/ Connect(c) \/ ConfigRead(c) \/ ThreadReady(c) \/ PickModel(c) \/ PrepareFails(c)
    \/ TurnRpcTimeout(c) \/ WaitTimeout(c) \/ UsageTimer(c) \/ StopTimer(c) \/ Abort(c)
    \/ ServerTakes(c) \/ ServerRefuses(c) \/ ServerEnds(c)

\* They keep the invariant: the thread of the turn stays reserved.
LEMMA OrdinaryKeeps == ASSUME IInv, NEW c \in Calls, Ordinary(c) PROVE IInv'
  <1>1. /\ UNCHANGED <<threadVars, retiredTurns, report, outcome>>
        /\ \A d \in Calls : Serves(turnAt[d], turnAt'[d])
        /\ turnAt' \in [Calls -> {"none", "sent", "running", "ended", "lost"}]
    <2>1. CASE ServerTakes(c) \/ ServerRefuses(c) \/ ServerEnds(c)
      BY <2>1 DEF ServerTakes, ServerRefuses, ServerEnds, turnVars, callVars, Serves, IInv, Types
    <2>2. CASE Connect(c) \/ ConfigRead(c) \/ ThreadReady(c) \/ PickModel(c) \/ PrepareFails(c)
               \/ TurnRpcTimeout(c) \/ WaitTimeout(c) \/ UsageTimer(c) \/ StopTimer(c) \/ Abort(c)
      BY <2>2 DEF Connect, ConfigRead, ThreadReady, PickModel, PrepareFails, TurnRpcTimeout,
                  WaitTimeout, UsageTimer, StopTimer, Abort, turnVars, serverVars, Serves, IInv, Types
    <2>3. QED
      BY <2>1, <2>2 DEF Ordinary
  <1>2. /\ pc' \in [Calls -> Labels]
        /\ \A d \in Calls : d # c => pc'[d] = pc[d]
        /\ Moves(pc[c], pc'[c], c \in completedTurns)
    <2>1. CASE Connect(c) \/ ConfigRead(c) \/ ThreadReady(c) \/ PickModel(c) \/ PrepareFails(c)
      BY <2>1 DEF Connect, ConfigRead, ThreadReady, PickModel, PrepareFails, Resolved, Sent, Goto,
                  Moves, IInv, Types, Labels, Early, Known, Held
    <2>2. CASE UsageTimer(c)
      BY <2>2 DEF UsageTimer, Goto, Moves, IInv, Types, Evidence, Labels, Early, Known, Held
    <2>3. CASE TurnRpcTimeout(c) \/ WaitTimeout(c) \/ StopTimer(c) \/ Abort(c) \/ ServerRefuses(c)
      BY <2>3 DEF TurnRpcTimeout, WaitTimeout, StopTimer, Abort, ServerRefuses, Goto,
                  Moves, IInv, Types, Labels, Early, Known, Held
    <2>4. CASE ServerTakes(c) \/ ServerEnds(c)
      BY <2>4 DEF ServerTakes, ServerEnds, callVars, Moves, IInv, Types
    <2>5. QED
      BY <2>1, <2>2, <2>3, <2>4 DEF Ordinary
  <1>3. /\ sure' \subseteq sure \cup {d \in completedTurns : pc[d] = "waiting"} /\ sure \subseteq sure'
        /\ \A d \in sure' \ sure : pc'[d] \in {"answered", "caught"}
        /\ completedTurns' \subseteq completedTurns
        /\ turnWaiters' \subseteq turnWaiters /\ \A d \in turnWaiters' : pc'[d] = "waiting"
        /\ usageTimers' \subseteq turnWaiters' \cap completedTurns'
    <2>1. CASE WaitTimeout(c) \/ UsageTimer(c)
      BY <1>2, <2>1 DEF WaitTimeout, UsageTimer, Forget, Goto, IInv, Types, Evidence
    <2>2. CASE Abort(c)
      BY <1>2, <2>2 DEF Abort, Forget, Goto, IInv, Types, Evidence
    <2>3. CASE Connect(c) \/ ConfigRead(c) \/ ThreadReady(c) \/ PickModel(c) \/ PrepareFails(c)
               \/ TurnRpcTimeout(c) \/ StopTimer(c)
      <3>1. /\ UNCHANGED <<sure, completedTurns, turnWaiters, usageTimers>>
            /\ pc[c] # "waiting" \/ pc' = pc
        BY <2>3 DEF Connect, ConfigRead, ThreadReady, PickModel, PrepareFails, TurnRpcTimeout,
                    StopTimer, Goto, turnVars, IInv, Types
      <3>2. QED
        BY <1>2, <3>1 DEF IInv, Types, Evidence
    <2>4. CASE ServerTakes(c) \/ ServerRefuses(c) \/ ServerEnds(c)
      <3>1. UNCHANGED <<sure, completedTurns, turnWaiters, usageTimers>> /\ (pc[c] = "starting" \/ pc' = pc)
        BY <2>4 DEF ServerTakes, ServerRefuses, ServerEnds, turnVars, callVars, Goto, IInv, Types
      <3>2. QED
        BY <1>2, <3>1 DEF IInv, Types, Evidence
    <2>5. QED
      BY <2>1, <2>2, <2>3, <2>4 DEF Ordinary
  <1>4. QED
    BY <1>1, <1>2, <1>3, MoveKeeps DEF Moves
-----------------------------------------------------------------------------
(* The steps of a turn.                                                    *)

\* A call that did not launch a turn says so.
LEMMA RefuseKeeps == ASSUME IInv, NEW c \in Calls, Refuse(c) PROVE IInv'
  <1>1. /\ pc' = [pc EXCEPT ![c] = "done"] /\ pc[c] = "refused"
        /\ turnAt[c] = "none" /\ c \notin sure
        /\ UNCHANGED <<threadVars, turnVars, sure, turnAt>>
        /\ \E k \in {"stopped", "unconfirmed"} :
              report' = [report EXCEPT ![c] = k] /\ outcome' = [outcome EXCEPT ![c] = k]
    BY DEF Refuse, Goto, Say, serverVars, IInv, Unlaunched, Early
  <1>2. Types' /\ Unlaunched'
    BY <1>1 DEF IInv, Types, Unlaunched, Labels, Early, turnVars, threadVars
  <1>3. Evidence'
    BY <1>1 DEF IInv, Types, Evidence, turnVars
  <1>4. Threading' /\ Holding' /\ GivenUp'
    BY <1>1 DEF IInv, Types, Threading, Holding, Holds, GivenUp, Held, Known, turnVars, threadVars
  <1>5. StopReportHonest' /\ OutcomeHonest'
    BY <1>1 DEF IInv, Types, StopReportHonest, OutcomeHonest, Launched
  <1> QED
    BY <1>2, <1>3, <1>4, <1>5 DEF IInv

\* A call takes a free thread, or is refused.
LEMMA EnterKeeps == ASSUME IInv, NEW c \in Calls, EnterTurn(c) PROVE IInv'
  <1> USE CodexAssumption DEF Sane
  <1> DEFINE t == ThreadOf[c]
  <1>1. /\ pc[c] = "handle" /\ turnAt[c] = "none" /\ c \notin sure /\ outcome[c] = "none" /\ t \in Threads
        /\ UNCHANGED <<turnVars, sure, turnAt, report, unconfirmedThreads>>
    BY DEF EnterTurn, serverVars, IInv, Unlaunched, Early
  <1>2. CASE c \in aborted \/ activeTurns[t] # None
    <2>1. /\ pc' = [pc EXCEPT ![c] = "done"] /\ UNCHANGED <<activeTurns, callbacks>>
          /\ \E k \in {"stopped", "unconfirmed"} : outcome' = [outcome EXCEPT ![c] = k]
      BY <1>2 DEF EnterTurn, Goto
    <2>2. Types' /\ Unlaunched' /\ Evidence'
      BY <1>1, <2>1 DEF IInv, Types, Unlaunched, Evidence, Labels, Early, turnVars
    <2>3. Threading' /\ Holding' /\ GivenUp'
      BY <1>1, <2>1 DEF IInv, Types, Threading, Holding, Holds, GivenUp, Held, Known, turnVars
    <2>4. StopReportHonest' /\ OutcomeHonest'
      BY <1>1, <2>1 DEF IInv, Types, StopReportHonest, OutcomeHonest, Launched
    <2> QED
      BY <2>2, <2>3, <2>4 DEF IInv
  <1>3. CASE ~(c \in aborted \/ activeTurns[t] # None)
    <2>1. /\ pc' = [pc EXCEPT ![c] = "reporting"] /\ UNCHANGED outcome
          /\ activeTurns' = [activeTurns EXCEPT ![t] = Null]
          /\ callbacks' = [callbacks EXCEPT ![t] = c]
      BY <1>3 DEF EnterTurn, Goto
    <2>2. callbacks[t] = None /\ t \notin unconfirmedThreads
      BY <1>1, <1>3 DEF IInv, Threading, GivenUp
    <2>3. Types' /\ Unlaunched' /\ Evidence'
      BY <1>1, <2>1 DEF IInv, Types, Unlaunched, Evidence, Labels, Early, Held, turnVars
    <2>4. Threading'
      BY <1>1, <2>1 DEF IInv, Types, Threading
    <2>5. Holding'
      BY <1>1, <2>1, <2>2 DEF IInv, Types, Holding, Holds, Threading, Held, Known, turnVars
    <2>6. GivenUp'
      BY <1>1, <2>1, <2>2 DEF IInv, Types, GivenUp
    <2>7. StopReportHonest' /\ OutcomeHonest'
      BY <1>1, <2>1 DEF IInv, Types, StopReportHonest, OutcomeHonest, Launched
    <2> QED
      BY <2>3, <2>4, <2>5, <2>6, <2>7 DEF IInv
  <1> QED
    BY <1>2, <1>3

\* The turn is launched, or its launch is given up.
LEMMA LaunchKeeps == ASSUME IInv, NEW c \in Calls, LaunchTurn(c) PROVE IInv'
  <1> USE CodexAssumption DEF Sane
  <1>1. /\ pc[c] = "reporting" /\ turnAt[c] = "none" /\ c \notin sure
        /\ outcome[c] = "none" /\ report[c] = "none" /\ Holds(c)
        /\ UNCHANGED <<threadVars, turnVars, sure, outcome>>
        /\ report' = report \/ report' = [report EXCEPT ![c] = "running"]
        /\ \E l \in {"starting", "caught"} : pc' = [pc EXCEPT ![c] = l]
        /\ turnAt' = turnAt \/ turnAt' = [turnAt EXCEPT ![c] = "sent"]
    BY DEF LaunchTurn, Goto, Say, Sent, IInv, Unlaunched, Early, Holding, Held
  <1>2. Types' /\ Unlaunched' /\ Evidence'
    BY <1>1 DEF IInv, Types, Unlaunched, Evidence, Labels, Early, Held, turnVars, threadVars
  <1>3. Threading' /\ Holding'
    BY <1>1 DEF IInv, Types, Threading, Holding, Holds, Held, Known, turnVars, threadVars
  <1>4. GivenUp'
    BY <1>1 DEF IInv, Types, GivenUp, Holds, threadVars
  <1>5. StopReportHonest' /\ OutcomeHonest'
    BY <1>1 DEF IInv, Types, StopReportHonest, OutcomeHonest, Launched
  <1> QED
    BY <1>2, <1>3, <1>4, <1>5 DEF IInv

\* The wait for an end goes on, or finds the evidence.
LEMMA FinishFacts ==
  ASSUME IInv, NEW c \in Calls, NEW completed, NEW usage, Finish(c, completed, usage),
         completed \subseteq completedTurns \cup {c}
  PROVE  /\ \E l \in {"caught", "answered", "waiting"} :
               /\ pc' = [pc EXCEPT ![c] = l]
               /\ l = "answered" => c \in completed
               /\ sure' = sure \cup (IF l = "caught" THEN {c} ELSE {})
               /\ l = "caught" => c \in completed
               /\ turnWaiters' = IF l = "waiting" THEN turnWaiters \cup {c} ELSE turnWaiters \ {c}
               /\ \/ usageTimers' = usageTimers \ {c} /\ l # "waiting"
                  \/ usageTimers' = usageTimers /\ l = "waiting"
                  \/ usageTimers' = usageTimers \cup {c} /\ c \in completed /\ l = "waiting"
               /\ completedTurns' = IF l = "waiting" THEN completed ELSE completed \ {c}
  <1> DEFINE v == Verdict(c, completed, usage)
  <1>1. v \in {"wait", "fail", "finish", "grace"}
    BY DEF Verdict
  <1>2. v \in {"fail", "finish", "grace"} => c \in completed
    BY DEF Verdict
  <1> HIDE DEF v
  <1>3. CASE v = "fail"
    <2>1. /\ pc' = [pc EXCEPT ![c] = "caught"] /\ sure' = sure \cup {c}
          /\ turnWaiters' = turnWaiters \ {c} /\ usageTimers' = usageTimers \ {c}
          /\ completedTurns' = completed \ {c}
      BY <1>3 DEF Finish, Goto, v
    <2> QED
      BY <1>2, <1>3, <2>1
  <1>4. CASE v = "finish"
    <2>1. /\ pc' = [pc EXCEPT ![c] = "answered"] /\ sure' = sure
          /\ turnWaiters' = turnWaiters \ {c} /\ usageTimers' = usageTimers \ {c}
          /\ completedTurns' = completed \ {c}
      BY <1>4 DEF Finish, Goto, v
    <2> QED
      BY <1>2, <1>4, <2>1
  <1>5. CASE v \notin {"fail", "finish"}
    BY <1>1, <1>2, <1>5 DEF Finish, Goto, v
  <1> QED
    BY <1>3, <1>4, <1>5

\* It may go on in a call that waits for the turn its thread is said to run.
LEMMA FinishKeeps ==
  ASSUME IInv, NEW c \in Calls, NEW completed, NEW usage, Finish(c, completed, usage),
         pc[c] \in {"starting", "waiting"}, turnAt[c] \in {"running", "ended"},
         completed \in {completedTurns, completedTurns \cup {c}},
         c \in completed => turnAt[c] = "ended",
         activeTurns' = [activeTurns EXCEPT ![ThreadOf[c]] = c],
         report' = report \/ (report' = [report EXCEPT ![c] = "stopped"] /\ turnAt[c] = "ended"),
         UNCHANGED <<callbacks, unconfirmedThreads, retiredTurns, turnAt, outcome>>
  PROVE IInv'
  <1> USE CodexAssumption DEF Sane
  <1> DEFINE t == ThreadOf[c]
  <1>1. PICK l \in {"caught", "answered", "waiting"} :
           /\ pc' = [pc EXCEPT ![c] = l]
           /\ l = "answered" => c \in completed
           /\ l = "caught" => c \in completed
           /\ sure' = sure \cup (IF l = "caught" THEN {c} ELSE {})
           /\ turnWaiters' = IF l = "waiting" THEN turnWaiters \cup {c} ELSE turnWaiters \ {c}
           /\ \/ usageTimers' = usageTimers \ {c} /\ l # "waiting"
              \/ usageTimers' = usageTimers /\ l = "waiting"
              \/ usageTimers' = usageTimers \cup {c} /\ c \in completed /\ l = "waiting"
           /\ completedTurns' = IF l = "waiting" THEN completed ELSE completed \ {c}
    BY FinishFacts
  <1>3. t \in Threads /\ callbacks[t] = c
    BY DEF IInv, Holding, Holds, Held, Known
  <1>4. Types' /\ Unlaunched'
    BY <1>1, <1>3 DEF IInv, Types, Unlaunched, Labels, Early, Held, Known
  <1>2. usageTimers' \subseteq turnWaiters' \cap completedTurns'
    BY <1>1 DEF IInv, Evidence
  <1>5. Evidence'
    <2>1. /\ pc' \in [Calls -> Labels] /\ \A d \in Calls : d # c => pc'[d] = pc[d]
          /\ pc'[c] = l
      BY <1>1, <1>4 DEF IInv, Types
    <2>2. \A d \in sure' \cup completedTurns' \cup retiredTurns' : turnAt[d] = "ended"
      BY <1>1 DEF IInv, Evidence
    <2>3. \A d \in Calls : pc'[d] \in {"answered", "stopResolved"} => turnAt[d] = "ended"
      BY <1>1, <2>1 DEF IInv, Evidence
    <2>4. /\ \A d \in turnWaiters' : pc'[d] = "waiting"
          /\ \A d \in sure' : pc'[d] \in {"answered", "caught", "closing", "done"}
      BY <1>1, <2>1 DEF IInv, Types, Evidence
    <2> QED
      BY <1>2, <2>2, <2>3, <2>4 DEF Evidence
  <1>6. Threading'
    <2>1. activeTurns'[t] = c /\ \A u \in Threads : u # t => activeTurns'[u] = activeTurns[u]
      BY <1>3 DEF IInv, Types
    <2> QED
      BY <1>3, <2>1 DEF IInv, Threading
  <1>7. Holding'
    <2>1. /\ pc' \in [Calls -> Labels] /\ \A d \in Calls : d # c => pc'[d] = pc[d]
          /\ pc'[c] = l
      BY <1>1, <1>4 DEF IInv, Types
    <2>2. /\ activeTurns'[t] = c /\ \A u \in Threads : u # t => activeTurns'[u] = activeTurns[u]
      BY <1>3 DEF IInv, Types
    <2>3. \A d \in Calls : activeTurns[ThreadOf[d]] = d => activeTurns'[ThreadOf[d]] = d
      BY <1>3, <2>2 DEF IInv, Threading
    <2>4. \A d \in sure' : d \in sure \/ d = c
      BY <1>1
    <2>5. \A d \in Calls : pc'[d] \in Held => Holds(d)'
      BY <1>3, <2>1 DEF IInv, Holding, Holds
    <2>6. \A d \in Calls : pc'[d] \in Known \/ (d \in sure' /\ pc'[d] # "done") =>
                               activeTurns'[ThreadOf[d]] = d
      BY <2>1, <2>2, <2>3, <2>4 DEF IInv, Holding
    <2>7. \A d \in Calls : turnAt'[d] \in {"sent", "running", "ended"} =>
                               Holds(d)' \/ d \in retiredTurns'
      BY DEF IInv, Holding, Holds
    <2> QED
      BY <2>5, <2>6, <2>7 DEF Holding
  <1>8. GivenUp'
    BY <1>1, <1>3 DEF IInv, Types, GivenUp
  <1>9. StopReportHonest' /\ OutcomeHonest'
    BY DEF IInv, Types, StopReportHonest, OutcomeHonest, Launched
  <1> QED
    BY <1>4, <1>5, <1>6, <1>7, <1>8, <1>9 DEF IInv

\* A thread is freed by the call it belongs to, whose turn has ended.
LEMMA ReleaseKeeps ==
  ASSUME IInv, NEW c \in Calls, Release(c), activeTurns[ThreadOf[c]] = c, turnAt[c] = "ended",
         pc[c] \in {"answered", "closing", "done"},
         pc' = [pc EXCEPT ![c] = "done"] \/ (pc' = pc /\ pc[c] # "answered" /\ c \notin sure),
         report' = report \/ report' = [report EXCEPT ![c] = "stopped"],
         outcome' = outcome \/ \E k \in {"ok", "stopped"} : outcome' = [outcome EXCEPT ![c] = k],
         UNCHANGED <<sure, turnAt>>
  PROVE IInv'
  <1> USE CodexAssumption DEF Sane
  <1> DEFINE t == ThreadOf[c]
  <1>1. t \in Threads /\ callbacks[t] = c
    BY DEF IInv, Threading
  <1>2. /\ activeTurns' = [activeTurns EXCEPT ![t] = None]
        /\ callbacks' = [callbacks EXCEPT ![t] = None]
        /\ unconfirmedThreads' = unconfirmedThreads \ {t}
        /\ retiredTurns' = retiredTurns \cup {c}
        /\ turnWaiters' = turnWaiters \ {c} /\ usageTimers' = usageTimers \ {c}
        /\ completedTurns' = completedTurns \ {c}
    BY DEF Release, Forget
  <1>3. Types' /\ Unlaunched'
    BY <1>1, <1>2 DEF IInv, Types, Unlaunched, Labels, Early, Held, Known
  <1>4. Evidence'
    BY <1>1, <1>2 DEF IInv, Types, Evidence
  <1>5. Threading'
    BY <1>1, <1>2 DEF IInv, Types, Threading
  <1>6. Holding'
    BY <1>1, <1>2 DEF IInv, Types, Holding, Holds, Held, Known
  <1>7. GivenUp'
    BY <1>1, <1>2 DEF IInv, Types, GivenUp
  <1>8. StopReportHonest' /\ OutcomeHonest'
    BY DEF IInv, Types, StopReportHonest, OutcomeHonest, Launched
  <1> QED
    BY <1>3, <1>4, <1>5, <1>6, <1>7, <1>8 DEF IInv

\* The response to turn/start, and an update of the usage.
LEMMA WaitKeeps == ASSUME IInv, NEW c \in Calls, TurnAccepted(c) \/ UsageUpdated(c) PROVE IInv'
  <1>1. CASE TurnAccepted(c)
    <2>1. c \in completedTurns => turnAt[c] = "ended"
      BY DEF IInv, Evidence
    <2> QED
      BY <1>1, <2>1, FinishKeeps DEF TurnAccepted, serverVars
  <1>2. CASE UsageUpdated(c)
    <2>1. PICK total \in {emitted[c], emitted[c] + 1} \cap (1..MaxTotal) :
            IF c \in retiredTurns
            THEN UNCHANGED <<turnVars, callVars>>
            ELSE /\ IF c \in turnWaiters
                    THEN Finish(c, completedTurns, Accumulate(usageByTurn[c], total))
                    ELSE UNCHANGED <<completedTurns, turnWaiters, usageTimers, pc, sure, spent>>
                 /\ UNCHANGED <<stopWaiters, retiredTurns, aborted, report, outcome>>
      BY <1>2 DEF UsageUpdated
    <2>2. UNCHANGED <<threadVars, turnAt>>
      BY <1>2 DEF UsageUpdated
    <2>3. CASE c \notin retiredTurns /\ c \in turnWaiters
      <3>1. /\ pc[c] = "waiting" /\ (c \in completedTurns => turnAt[c] = "ended")
            /\ activeTurns' = [activeTurns EXCEPT ![ThreadOf[c]] = c]
        BY <2>2, <2>3 DEF threadVars, IInv, Types, Evidence, Holding, Known
      <3>2. turnAt[c] \in {"running", "ended"}
        BY <3>1, CodexAssumption DEF Sane, IInv, Holding, Known, Threading
      <3> QED
        BY <2>1, <2>2, <2>3, <3>1, <3>2, FinishKeeps DEF threadVars
    <2>4. CASE c \in retiredTurns \/ c \notin turnWaiters
      <3>1. UNCHANGED <<completedTurns, turnWaiters, usageTimers, retiredTurns, pc, sure, report, outcome>>
        BY <2>1, <2>4 DEF turnVars, callVars
      <3> QED
        BY <2>2, <3>1, MoveKeeps DEF IInv, Types, Evidence, Moves, Serves
    <2> QED
      BY <2>3, <2>4
  <1> QED
    BY <1>1, <1>2

\* The catch of a call: its stop is known, asked for, or given up.
LEMMA CatchKeeps == ASSUME IInv, NEW c \in Calls, Catch(c) PROVE IInv'
  <1> USE CodexAssumption DEF Sane
  <1> DEFINE t == ThreadOf[c]
  <1>1. /\ pc[c] = "caught" /\ t \in Threads /\ callbacks[t] = c /\ activeTurns[t] # None
        /\ UNCHANGED <<activeTurns, callbacks, completedTurns, turnWaiters, usageTimers,
                       retiredTurns, outcome, turnAt>>
    BY DEF Catch, serverVars, IInv, Holding, Holds, Held, Threading
  <1>2. CASE /\ c \in sure \/ (activeTurns[t] = c /\ c \in completedTurns)
             /\ sure' = sure \cup {c} /\ report' = [report EXCEPT ![c] = "stopped"]
             /\ pc' = [pc EXCEPT ![c] = "closing"] /\ UNCHANGED unconfirmedThreads
    <2>1. activeTurns[t] = c /\ turnAt[c] = "ended"
      BY <1>1, <1>2 DEF IInv, Holding, Evidence
    <2>2. Types' /\ Unlaunched' /\ Evidence' /\ Threading'
      BY <1>1, <1>2, <2>1 DEF IInv, Types, Unlaunched, Evidence, Threading, Labels, Early, Held, Known
    <2>3. Holding'
      BY <1>1, <1>2, <2>1 DEF IInv, Types, Holding, Holds, Held, Known
    <2>4. GivenUp'
      BY <1>1, <1>2, <2>1 DEF IInv, Types, GivenUp
    <2>5. StopReportHonest' /\ OutcomeHonest'
      BY <1>1, <1>2, <2>1 DEF IInv, Types, StopReportHonest, OutcomeHonest, Launched
    <2> QED
      BY <2>2, <2>3, <2>4, <2>5 DEF IInv
  <1>3. CASE /\ c \notin sure /\ activeTurns[t] = c
             /\ pc' = [pc EXCEPT ![c] = "interrupting"]
             /\ UNCHANGED <<sure, report, unconfirmedThreads>>
    <2>1. Types' /\ Unlaunched' /\ Evidence' /\ Threading'
      BY <1>1, <1>3 DEF IInv, Types, Unlaunched, Evidence, Threading, Labels, Early, Held, Known
    <2>2. Holding' /\ GivenUp'
      BY <1>1, <1>3 DEF IInv, Types, Holding, Holds, GivenUp, Held, Known
    <2>3. StopReportHonest' /\ OutcomeHonest'
      BY <1>1, <1>3 DEF IInv, StopReportHonest, OutcomeHonest, Launched
    <2> QED
      BY <2>1, <2>2, <2>3 DEF IInv
  <1>4. CASE /\ c \notin sure /\ unconfirmedThreads' = unconfirmedThreads \cup {t}
             /\ report' = [report EXCEPT ![c] = "unconfirmed"]
             /\ pc' = [pc EXCEPT ![c] = "closing"] /\ UNCHANGED sure
    <2>1. Types' /\ Unlaunched' /\ Evidence' /\ Threading'
      BY <1>1, <1>4 DEF IInv, Types, Unlaunched, Evidence, Threading, Labels, Early, Held, Known
    <2>2. Holding' /\ GivenUp'
      BY <1>1, <1>4 DEF IInv, Types, Holding, Holds, GivenUp, Held, Known
    <2>3. StopReportHonest' /\ OutcomeHonest'
      BY <1>1, <1>4 DEF IInv, Types, StopReportHonest, OutcomeHonest, Launched
    <2> QED
      BY <2>1, <2>2, <2>3 DEF IInv
  <1> QED
    BY <1>2, <1>3, <1>4 DEF Catch, Goto, Say

\* The turn was interrupted: it ended in time, or is given up.
LEMMA InterruptedKeeps == ASSUME IInv, NEW c \in Calls, Interrupted(c) PROVE IInv'
  <1> USE CodexAssumption DEF Sane
  <1> DEFINE t == ThreadOf[c]
  <1>1. /\ pc[c] \in {"stopResolved", "stopExpired"} /\ pc' = [pc EXCEPT ![c] = "closing"]
        /\ t \in Threads /\ callbacks[t] = c /\ activeTurns[t] = c
        /\ UNCHANGED <<activeTurns, callbacks, turnVars, outcome, turnAt>>
    BY DEF Interrupted, Goto, serverVars, IInv, Holding, Holds, Held, Known
  <1>2. CASE pc[c] = "stopResolved"
    <2>1. /\ sure' = sure \cup {c} /\ report' = [report EXCEPT ![c] = "stopped"]
          /\ UNCHANGED unconfirmedThreads /\ turnAt[c] = "ended"
      BY <1>2 DEF Interrupted, Say, IInv, Evidence
    <2>2. Types' /\ Unlaunched' /\ Evidence' /\ Threading'
      BY <1>1, <2>1 DEF IInv, Types, Unlaunched, Evidence, Threading, Labels, Early, Held, Known, turnVars
    <2>3. Holding' /\ GivenUp'
      BY <1>1, <2>1 DEF IInv, Types, Holding, Holds, GivenUp, Held, Known, turnVars
    <2>4. StopReportHonest' /\ OutcomeHonest'
      BY <1>1, <2>1 DEF IInv, Types, StopReportHonest, OutcomeHonest, Launched
    <2> QED
      BY <2>2, <2>3, <2>4 DEF IInv
  <1>3. CASE pc[c] = "stopExpired"
    <2>1. /\ unconfirmedThreads' = unconfirmedThreads \cup {t} /\ UNCHANGED sure
          /\ report' = [report EXCEPT ![c] = "unconfirmed"]
      BY <1>3 DEF Interrupted, Say
    <2>2. Types' /\ Unlaunched' /\ Evidence' /\ Threading'
      BY <1>1, <2>1 DEF IInv, Types, Unlaunched, Evidence, Threading, Labels, Early, Held, Known, turnVars
    <2>3. Holding' /\ GivenUp'
      BY <1>1, <1>3, <2>1 DEF IInv, Types, Evidence, Holding, Holds, GivenUp, Held, Known, turnVars
    <2>4. StopReportHonest' /\ OutcomeHonest'
      BY <1>1, <2>1 DEF IInv, Types, StopReportHonest, OutcomeHonest, Launched
    <2> QED
      BY <2>2, <2>3, <2>4 DEF IInv
  <1> QED
    BY <1>1, <1>2, <1>3

\* The call is answered, or was answered without a message.
LEMMA AnswerKeeps == ASSUME IInv, NEW c \in Calls, Answer(c) PROVE IInv'
  <1> USE CodexAssumption DEF Sane
  <1>1. /\ pc[c] = "answered" /\ turnAt[c] = "ended" /\ UNCHANGED <<report, turnAt>>
        /\ activeTurns[ThreadOf[c]] = c /\ callbacks[ThreadOf[c]] = c
    BY DEF Answer, serverVars, IInv, Evidence, Holding, Holds, Held, Known
  <1>2. CASE /\ Release(c) /\ outcome' = [outcome EXCEPT ![c] = "ok"]
             /\ pc' = [pc EXCEPT ![c] = "done"] /\ UNCHANGED sure
    BY <1>1, <1>2, ReleaseKeeps
  <1>3. CASE /\ sure' = sure \cup {c} /\ pc' = [pc EXCEPT ![c] = "caught"]
             /\ UNCHANGED <<outcome, threadVars, completedTurns, turnWaiters, usageTimers, retiredTurns>>
    <2>1. Types' /\ Unlaunched' /\ Evidence' /\ Threading'
      BY <1>1, <1>3 DEF IInv, Types, Unlaunched, Evidence, Threading, Labels, Early, Held, Known, threadVars
    <2>2. Holding' /\ GivenUp'
      BY <1>1, <1>3 DEF IInv, Types, Holding, Holds, GivenUp, Held, Known, threadVars
    <2>3. StopReportHonest' /\ OutcomeHonest'
      BY <1>1, <1>3 DEF IInv, StopReportHonest, OutcomeHonest, Launched
    <2> QED
      BY <2>1, <2>2, <2>3 DEF IInv
  <1> QED
    BY <1>2, <1>3 DEF Answer, Goto

\* A call that failed ends with what it knows of the stop.
LEMMA FailKeeps == ASSUME IInv, NEW c \in Calls, FailTurn(c) PROVE IInv'
  <1>1. /\ pc[c] = "closing" /\ pc' = [pc EXCEPT ![c] = "done"]
        /\ UNCHANGED <<sure, report, turnAt>>
    BY DEF FailTurn, Goto, serverVars
  <1>2. CASE c \in sure
    <2>1. Release(c) /\ outcome' = [outcome EXCEPT ![c] = "stopped"]
      BY <1>2 DEF FailTurn
    <2>2. turnAt[c] = "ended" /\ activeTurns[ThreadOf[c]] = c
      BY <1>1, <1>2 DEF IInv, Evidence, Holding
    <2> QED
      BY <1>1, <2>1, <2>2, ReleaseKeeps
  <1>3. CASE c \notin sure
    <2>1. /\ UNCHANGED <<threadVars, completedTurns, turnWaiters, usageTimers, retiredTurns>>
          /\ outcome' = [outcome EXCEPT ![c] = "unconfirmed"]
      BY <1>3 DEF FailTurn
    <2>2. Types' /\ Unlaunched' /\ Evidence' /\ Threading'
      BY <1>1, <1>3, <2>1 DEF IInv, Types, Unlaunched, Evidence, Threading, Labels, Early, threadVars
    <2>3. Holding' /\ GivenUp'
      BY <1>1, <1>3, <2>1 DEF IInv, Types, Holding, Holds, GivenUp, Held, Known, threadVars
    <2>4. StopReportHonest' /\ OutcomeHonest'
      BY <1>1, <2>1 DEF IInv, Types, StopReportHonest, OutcomeHonest, Launched
    <2> QED
      BY <2>2, <2>3, <2>4 DEF IInv
  <1> QED
    BY <1>2, <1>3

\* turn/started gives a thread its turn, if the thread waits for one.
LEMMA StartedKeeps == ASSUME IInv, NEW c \in Calls, TurnStarted(c) PROVE IInv'
  <1> USE CodexAssumption DEF Sane
  <1> DEFINE t == ThreadOf[c]
  <1>1. /\ turnAt[c] \in {"running", "ended"}
        /\ UNCHANGED <<callbacks, unconfirmedThreads, completedTurns, turnWaiters, usageTimers,
                       retiredTurns, sure, pc, report, outcome, turnAt>>
    BY DEF TurnStarted, callVars
  <1>2. CASE UNCHANGED activeTurns
    BY <1>1, <1>2, MoveKeeps DEF threadVars, IInv, Types, Evidence, Moves, Serves
  <1>3. CASE /\ c \notin retiredTurns /\ activeTurns[t] \in {Null, c}
             /\ activeTurns' = [activeTurns EXCEPT ![t] = c]
    <2>1. t \in Threads /\ callbacks[t] = c
      BY <1>1, <1>3 DEF IInv, Holding, Holds
    <2>2. activeTurns'[t] = c /\ \A u \in Threads : u # t => activeTurns'[u] = activeTurns[u]
      BY <1>3, <2>1 DEF IInv, Types
    <2>3. Types' /\ Unlaunched' /\ Evidence'
      BY <1>1, <1>3 DEF IInv, Types, Unlaunched, Evidence
    <2>4. Threading'
      BY <1>1, <2>1, <2>2 DEF IInv, Threading
    <2>5. Holding' /\ GivenUp'
      <3>1. \A d \in Calls : activeTurns[ThreadOf[d]] = d => activeTurns'[ThreadOf[d]] = d
        BY <2>1, <2>2 DEF IInv, Threading
      <3>2. Holding'
        BY <1>1, <3>1 DEF IInv, Holding, Holds
      <3>3. GivenUp'
        BY <1>1, <2>1, <2>2 DEF IInv, Types, GivenUp
      <3> QED
        BY <3>2, <3>3
    <2>6. StopReportHonest' /\ OutcomeHonest'
      BY <1>1 DEF IInv, StopReportHonest, OutcomeHonest, Launched
    <2> QED
      BY <2>3, <2>4, <2>5, <2>6 DEF IInv
  <1> QED
    BY <1>2, <1>3 DEF TurnStarted

\* The end of a turn reports the call its thread belongs to, frees a thread that was given up, and
\* is evidence for whoever waits.
LEMMA CompletedKeeps == ASSUME IInv, NEW c \in Calls, TurnCompleted(c) PROVE IInv'
  <1> USE CodexAssumption DEF Sane
  <1> DEFINE t == ThreadOf[c]
             current == c \notin retiredTurns /\ activeTurns[t] = c
  <1>1. turnAt[c] = "ended" /\ t \in Threads /\ UNCHANGED <<outcome, turnAt>>
    BY DEF TurnCompleted
  <1>2. report' = report \/ report' = [report EXCEPT ![c] = "stopped"]
    <2>1. report' = [d \in Calls |-> IF current /\ callbacks[t] = d THEN "stopped" ELSE report[d]]
      BY DEF TurnCompleted
    <2>2. current => callbacks[t] = c
      BY <1>1 DEF IInv, Threading
    <2>3. report \in [Calls -> {"none", "running", "stopped", "unconfirmed"}]
      BY DEF IInv, Types
    <2> HIDE DEF current
    <2>4. CASE current
      <3>1. report' = [d \in Calls |-> IF d = c THEN "stopped" ELSE report[d]]
        BY <2>1, <2>2, <2>4
      <3> QED
        BY <2>3, <3>1
    <2>5. CASE ~current
      <3>1. report' = [d \in Calls |-> report[d]]
        BY <2>1, <2>5
      <3> QED
        BY <2>3, <3>1
    <2> QED
      BY <2>4, <2>5
  <1>3. CASE c \in retiredTurns
    <2>1. UNCHANGED <<threadVars, turnVars, pc, sure>> /\ UNCHANGED report
      <3>1. report' = [d \in Calls |-> report[d]]
        BY <1>3 DEF TurnCompleted
      <3> QED
        BY <1>3, <3>1 DEF TurnCompleted, IInv, Types
    <2> QED
      BY <1>1, <2>1, MoveKeeps DEF turnVars, IInv, Types, Evidence, Moves, Serves
  <1>4. CASE current /\ t \in unconfirmedThreads
    <2>1. Release(c) /\ UNCHANGED <<pc, sure>>
      BY <1>4 DEF TurnCompleted
    <2>2. pc[c] \in {"closing", "done"} /\ c \notin sure
      BY <1>1, <1>4 DEF IInv, Threading, GivenUp
    <2> QED
      BY <1>1, <1>2, <1>4, <2>1, <2>2, ReleaseKeeps
  <1>5. CASE c \notin retiredTurns /\ ~(current /\ t \in unconfirmedThreads)
    <2>1. /\ IF c \in turnWaiters
             THEN Finish(c, completedTurns \cup {c}, usageByTurn[c])
             ELSE /\ completedTurns' = completedTurns \cup {c}
                  /\ pc' = [pc EXCEPT ![c] = IF pc[c] = "interrupting" THEN "stopResolved" ELSE pc[c]]
                  /\ UNCHANGED <<turnWaiters, usageTimers, sure>>
          /\ UNCHANGED <<threadVars, retiredTurns>>
      BY <1>5 DEF TurnCompleted, Goto
    <2>2. CASE c \in turnWaiters
      <3>1. pc[c] = "waiting" /\ activeTurns' = [activeTurns EXCEPT ![t] = c]
        BY <2>1, <2>2 DEF threadVars, IInv, Types, Evidence, Holding, Known
      <3> QED
        BY <1>1, <1>2, <2>1, <2>2, <3>1, FinishKeeps DEF threadVars
    <2>3. CASE c \notin turnWaiters
      <3>1. Types' /\ Unlaunched' /\ Evidence' /\ Threading'
        BY <1>1, <1>2, <2>1, <2>3 DEF IInv, Types, Unlaunched, Evidence, Threading, Labels, Early,
                                      Held, Known, threadVars
      <3>2. Holding' /\ GivenUp'
        BY <1>1, <2>1, <2>3 DEF IInv, Types, Holding, Holds, GivenUp, Held, Known, threadVars
      <3>3. StopReportHonest' /\ OutcomeHonest'
        BY <1>1, <1>2 DEF IInv, Types, StopReportHonest, OutcomeHonest, Launched
      <3> QED
        BY <3>1, <3>2, <3>3 DEF IInv
    <2> QED
      BY <2>2, <2>3
  <1> QED
    BY <1>3, <1>4, <1>5
-----------------------------------------------------------------------------
\* Every step keeps the invariant.
LEMMA NextKeeps == ASSUME IInv, [Next]_vars PROVE IInv'
  <1>1. CASE UNCHANGED vars
    BY <1>1 DEF vars, connVars, threadVars, turnVars, callVars, serverVars, IInv, Types, Unlaunched,
                Evidence, Threading, Holding, Holds, GivenUp, StopReportHonest, OutcomeHonest, Launched
  <1>2. ASSUME NEW c \in Calls, Step(c) PROVE IInv'
    <2>1. CASE Ordinary(c)
      BY <2>1, OrdinaryKeeps
    <2>2. CASE EnterTurn(c) \/ LaunchTurn(c) \/ TurnAccepted(c) \/ UsageUpdated(c)
               \/ TurnStarted(c) \/ TurnCompleted(c)
      BY <2>2, EnterKeeps, LaunchKeeps, WaitKeeps, StartedKeeps, CompletedKeeps
    <2>3. CASE Refuse(c) \/ Catch(c) \/ Interrupted(c) \/ Answer(c) \/ FailTurn(c)
      BY <2>3, RefuseKeeps, CatchKeeps, InterruptedKeeps, AnswerKeeps, FailKeeps
    <2> QED
      BY <1>2, <2>1, <2>2, <2>3 DEF Step, Continue, Timer, Ordinary
  <1> QED
    BY <1>1, <1>2, ConnectionKeeps DEF Next

\* Every reachable state satisfies the invariant.
THEOREM TurnsInvariance == Spec => []IInv
  <1>1. Init => IInv
    BY InitTurns
  <1>2. IInv /\ [Next]_vars => IInv'
    BY NextKeeps
  <1> QED
    BY <1>1, <1>2, PTL DEF Spec

\* The stop report of a turn is honest, whatever was aborted, timed out, lost or reconnected
\* (runTurn and onNotification: codex-app-server-client.ts:451-573 and 906-999).
THEOREM StopReportsHonest == Spec => []StopReportHonest
  <1>1. IInv => StopReportHonest
    BY DEF IInv
  <1> QED
    BY <1>1, TurnsInvariance, PTL

\* So is the outcome a call ends with.
THEOREM OutcomesHonest == Spec => []OutcomeHonest
  <1>1. IInv => OutcomeHonest
    BY DEF IInv
  <1> QED
    BY <1>1, TurnsInvariance, PTL

\* A thread has one turn at work: two that are at work would both hold it.
THEOREM OneOpenTurnAlways == Spec => []OneOpenTurn
  <1>1. IInv => OneOpenTurn
    BY DEF IInv, Evidence, Holding, Holds, OneOpenTurn, Launched
  <1> QED
    BY <1>1, TurnsInvariance, PTL
-----------------------------------------------------------------------------
(* The tokens of a turn.                                                   *)

\* At first nothing is counted.
LEMMA InitBooks == Init => Booked
  BY DEF Init, Booked, Usage, NoUsage, Counting, Early, SumsUp

\* A step that counts nothing: a call that is still counted was counted alike, and what is answered
\* was answered, or is an operational call that has waited long enough.
LEMMA BooksStand ==
  ASSUME IInv, Booked, pc' \in [Calls -> Labels], UNCHANGED <<spent, emitted>>,
         usageTimers' \subseteq usageTimers, usageByTurn' \in [Calls -> Usage],
         \A c \in Calls : pc'[c] \in Counting => pc[c] \in Counting /\ usageByTurn'[c] = usageByTurn[c],
         \A c \in Calls : pc'[c] = "answered" => pc[c] = "answered" \/ (pc[c] = "waiting" /\ c \notin Strict),
         \A c \in Calls : outcome'[c] = outcome[c] \/ (pc'[c] = "done" /\ (outcome'[c] = "ok" => pc[c] = "answered")),
         \A c \in Calls : (pc[c] = "done" => pc'[c] = "done") /\ (pc[c] = "closing" => pc'[c] \in {"closing", "done"}),
         \A c \in retiredTurns' \ retiredTurns : pc'[c] \in {"closing", "done"}
  PROVE Booked'
  <1>1. \A c \in Calls : pc'[c] \in Counting =>
          usageByTurn'[c] = [last |-> emitted'[c], total |-> emitted'[c]] /\ spent'[c] = NoUsage
    BY DEF Booked
  <1>2. \A c \in Calls : pc'[c] = "answered" \/ outcome'[c] = "ok" => SumsUp(c)'
    <2> SUFFICES ASSUME NEW c \in Calls, pc'[c] = "answered" \/ outcome'[c] = "ok" PROVE SumsUp(c)'
      OBVIOUS
    <2>1. CASE pc[c] = "answered" \/ outcome[c] = "ok"
      BY <2>1 DEF Booked, SumsUp
    <2>2. CASE pc[c] = "waiting" /\ c \notin Strict
      <3>1. spent[c] = NoUsage
        BY <2>2 DEF Booked, Counting
      <3> QED
        BY <2>2, <3>1 DEF SumsUp, NoUsage
    <2> QED
      BY <2>1, <2>2
  <1>3. \A c \in Calls : outcome'[c] # "none" => pc'[c] = "done"
    BY DEF Booked
  <1>4. \A c \in retiredTurns' : pc'[c] \in {"closing", "done"}
    BY DEF Booked, IInv, Types
  <1>5. usageTimers' \cap Strict = {}
    BY DEF Booked
  <1> QED
    BY <1>1, <1>2, <1>3, <1>4, <1>5 DEF Booked

\* What is forgotten is not counted any more.
LEMMA ForgetBooks ==
  ASSUME Booked, NEW S, Forget(S)
  PROVE  /\ usageByTurn' \in [Calls -> Usage] /\ usageTimers' \subseteq usageTimers
         /\ \A c \in Calls : c \notin S => usageByTurn'[c] = usageByTurn[c]
  BY DEF Forget, Booked, Usage, NoUsage

\* Everything is rejected.
LEMMA RejectBooks ==
  ASSUME IInv, Booked, RejectAll, UNCHANGED emitted PROVE Booked'
  <1>1. pc' \in [Calls -> Labels] /\ \A c \in Calls : pc'[c] = AfterReject(pc[c])
    BY DEF RejectAll, AfterReject, IInv, Types, Labels, Early, Known, Held
  <1>2. /\ usageByTurn' \in [Calls -> Usage] /\ usageTimers' \subseteq usageTimers
        /\ \A c \in Calls : c \notin turnWaiters => usageByTurn'[c] = usageByTurn[c]
    BY ForgetBooks DEF RejectAll
  <1>3. \A c \in Calls : pc'[c] \in Counting => pc[c] \in Counting /\ c \notin turnWaiters
    BY <1>1 DEF AfterReject, Counting, Early, IInv, Evidence
  <1>4. \A c \in Calls : /\ pc'[c] = "answered" => pc[c] = "answered"
                         /\ pc[c] = "done" => pc'[c] = "done"
                         /\ pc[c] = "closing" => pc'[c] = "closing"
    BY <1>1 DEF AfterReject
  <1>5. UNCHANGED <<spent, outcome, retiredTurns>>
    BY DEF RejectAll
  <1> QED
    BY <1>1, <1>2, <1>3, <1>4, <1>5, BooksStand

\* Opening, losing and closing the connection.
LEMMA ConnectionBooks ==
  ASSUME IInv, Booked, Connected \/ ConnectFails \/ CatalogRead \/ Close \/ MalformedFrame
                       \/ \E g \in 1..MaxSpawn : ChildClosed(g)
  PROVE Booked'
  <1>1. CASE Connected \/ ConnectFails \/ CatalogRead
    <2>1. /\ pc' \in [Calls -> Labels]
          /\ \A c \in Calls : \/ pc'[c] = pc[c]
                              \/ pc[c] \in {"connect", "catalog"} /\ pc'[c] \in {"handle", "config", "thread", "refused"}
      BY <1>1 DEF Connected, ConnectFails, CatalogRead, Sent, IInv, Types, Labels, Early, Known, Held
    <2>2. UNCHANGED <<spent, emitted, usageTimers, usageByTurn, outcome, retiredTurns>>
      BY <1>1 DEF Connected, ConnectFails, CatalogRead, turnVars, serverVars
    <2>3. usageByTurn \in [Calls -> Usage]
      BY DEF Booked
    <2>4. \A c \in Calls : pc'[c] \in Counting => pc[c] \in Counting
      BY <2>1 DEF Counting, Early
    <2>5. \A c \in Calls : /\ pc'[c] = "answered" => pc[c] = "answered"
                           /\ pc[c] = "done" => pc'[c] = "done"
                           /\ pc[c] = "closing" => pc'[c] = "closing"
      BY <2>1
    <2> QED
      BY <2>1, <2>2, <2>3, <2>4, <2>5, BooksStand
  <1>2. CASE Close \/ MalformedFrame
    BY <1>2, RejectBooks DEF Close, MalformedFrame, serverVars
  <1>3. ASSUME NEW g \in 1..MaxSpawn, ChildClosed(g) PROVE Booked'
    <2>1. UNCHANGED emitted
      BY <1>3 DEF ChildClosed
    <2>2. CASE closed
      BY <1>3, <2>1, <2>2 DEF ChildClosed, callVars, turnVars, Booked, SumsUp
    <2>3. CASE ~closed
      BY <1>3, <2>1, <2>3, RejectBooks DEF ChildClosed
    <2> QED
      BY <2>2, <2>3
  <1> QED
    BY <1>1, <1>2, <1>3

\* Preparing a turn, timers, an abort, and the server's own steps.
LEMMA OrdinaryBooks == ASSUME IInv, Booked, NEW c \in Calls, Ordinary(c) PROVE Booked'
  <1>1. /\ UNCHANGED <<spent, emitted, outcome, retiredTurns>>
    BY DEF Ordinary, Connect, ConfigRead, ThreadReady, PickModel, PrepareFails, TurnRpcTimeout,
           WaitTimeout, UsageTimer, StopTimer, Abort, ServerTakes, ServerRefuses, ServerEnds,
           turnVars, callVars, serverVars
  <1>2. CASE Connect(c) \/ ConfigRead(c) \/ ThreadReady(c) \/ PickModel(c) \/ PrepareFails(c)
    <2>1. \E l \in Early : /\ pc' = [pc EXCEPT ![c] = l] /\ pc[c] \in Early
                           /\ UNCHANGED <<usageTimers, usageByTurn>>
      BY <1>2 DEF Connect, ConfigRead, ThreadReady, PickModel, PrepareFails, Resolved, Sent, Goto,
                  turnVars, Early
    <2> QED
      BY <1>1, <2>1, BooksStand DEF Early, Labels, Counting, Booked, IInv, Types
  <1>3. CASE WaitTimeout(c) \/ UsageTimer(c) \/ Abort(c)
    <2>1. PICK l \in Labels : /\ pc' = [pc EXCEPT ![c] = l]
                              /\ l \in {"answered", "caught", "refused"} \/ l = pc[c]
                              /\ l = "answered" => pc[c] = "waiting" /\ c \notin Strict
                              /\ l = pc[c] => l # "waiting"
                              /\ l = "refused" => pc[c] \in Early
                              /\ pc[c] # "done" /\ (pc[c] = "closing" => l = "closing")
      <3>1. CASE WaitTimeout(c)
        <4>1. pc[c] = "waiting" /\ ((Goto(c, "answered") /\ c \notin Strict) \/ Goto(c, "caught"))
          BY <3>1 DEF WaitTimeout
        <4> QED
          BY <4>1 DEF Goto, Labels, Known, Held
      <3>2. CASE UsageTimer(c)
        BY <3>2 DEF UsageTimer, Goto, IInv, Types, Evidence, Booked, Labels, Known, Held
      <3>3. CASE Abort(c)
        BY <3>3 DEF Abort, Goto, Quiet, Due, IInv, Types, Labels, Early, Held
      <3> QED
        BY <1>3, <3>1, <3>2, <3>3
    <2>2. /\ usageByTurn' \in [Calls -> Usage] /\ usageTimers' \subseteq usageTimers
          /\ \A d \in Calls : d # c \/ l = pc[c] => usageByTurn'[d] = usageByTurn[d]
          /\ l = "refused" => UNCHANGED usageByTurn
      <3>1. CASE Forget({c}) /\ l \in {"answered", "caught"} /\ pc[c] = "waiting"
        BY <3>1, ForgetBooks
      <3>2. CASE UNCHANGED <<usageByTurn, usageTimers>>
        BY <3>2 DEF Booked
      <3>3. \/ Forget({c}) /\ pc[c] = "waiting" /\ pc'[c] \in {"answered", "caught"}
            \/ UNCHANGED <<usageByTurn, usageTimers>>
        BY <1>3 DEF WaitTimeout, UsageTimer, Abort, Goto, IInv, Types, Evidence
      <3>4. pc'[c] = l
        BY <2>1 DEF IInv, Types
      <3> QED
        BY <3>1, <3>2, <3>3, <3>4
    <2> QED
      BY <1>1, <2>1, <2>2, BooksStand DEF Early, Counting, IInv, Types
  <1>4. CASE TurnRpcTimeout(c) \/ StopTimer(c) \/ ServerRefuses(c) \/ ServerTakes(c) \/ ServerEnds(c)
    <2>1. /\ UNCHANGED <<usageByTurn, usageTimers>>
          /\ pc' = pc \/ (pc' = [pc EXCEPT ![c] = "caught"] /\ pc[c] = "starting")
                      \/ (pc' = [pc EXCEPT ![c] = "stopExpired"] /\ pc[c] = "interrupting")
      BY <1>4 DEF TurnRpcTimeout, StopTimer, ServerRefuses, ServerTakes, ServerEnds, Goto, turnVars, callVars,
                  IInv, Types
    <2> QED
      BY <1>1, <2>1, BooksStand DEF Early, Held, Known, Labels, Counting, Booked, IInv, Types
  <1> QED
    BY <1>2, <1>3, <1>4 DEF Ordinary

\* A call is refused, takes its thread, launches its turn, or catches an error.
LEMMA PlainBooks ==
  ASSUME IInv, Booked, NEW c \in Calls,
         Refuse(c) \/ EnterTurn(c) \/ LaunchTurn(c) \/ Catch(c) \/ Interrupted(c) \/ TurnStarted(c)
  PROVE  Booked'
  <1>1. UNCHANGED <<spent, emitted, usageByTurn, usageTimers, retiredTurns>>
    BY DEF Refuse, EnterTurn, LaunchTurn, Catch, Interrupted, TurnStarted, turnVars, callVars, serverVars
  <1>2. CASE Refuse(c) \/ EnterTurn(c) \/ LaunchTurn(c)
    <2>1. \E l \in {"done", "reporting", "starting", "caught"} :
            /\ pc[c] \in Early /\ pc' = [pc EXCEPT ![c] = l]
            /\ outcome' = outcome \/ (l = "done" /\ \E k \in {"stopped", "unconfirmed"} : outcome' = [outcome EXCEPT ![c] = k])
      BY <1>2 DEF Refuse, EnterTurn, LaunchTurn, Goto, Sent, Early
    <2> QED
      BY <1>1, <2>1, BooksStand DEF Early, Held, Labels, Counting, Booked, IInv, Types
  <1>3. CASE Catch(c) \/ Interrupted(c)
    <2>1. \E l \in {"closing", "interrupting"} :
            /\ pc[c] \in {"caught", "stopResolved", "stopExpired"} /\ pc' = [pc EXCEPT ![c] = l]
            /\ outcome' = outcome
      BY <1>3 DEF Catch, Interrupted, Goto
    <2> QED
      BY <1>1, <2>1, BooksStand DEF Early, Held, Known, Labels, Counting, Booked, IInv, Types
  <1>4. CASE TurnStarted(c)
    <2>1. UNCHANGED <<pc, outcome>>
      BY <1>4 DEF TurnStarted, callVars
    <2> QED
      BY <1>1, <2>1, BooksStand DEF Booked, IInv, Types
  <1> QED
    BY <1>2, <1>3, <1>4

\* A call that settles may free its thread, and its books are closed.
LEMMA SettleBooks == ASSUME IInv, Booked, NEW c \in Calls, Answer(c) \/ FailTurn(c) PROVE Booked'
  <1>1. UNCHANGED <<spent, emitted>> /\ pc[c] \in {"answered", "closing"}
    BY DEF Answer, FailTurn, serverVars
  <1>2. /\ usageByTurn' \in [Calls -> Usage] /\ usageTimers' \subseteq usageTimers
        /\ \A d \in Calls : d # c => usageByTurn'[d] = usageByTurn[d]
        /\ retiredTurns' \subseteq retiredTurns \cup {c}
    <2>1. \/ Forget({c}) /\ retiredTurns' = retiredTurns \cup {c}
          \/ UNCHANGED <<usageByTurn, usageTimers, retiredTurns>>
      BY DEF Answer, FailTurn, Release
    <2> QED
      BY <2>1, ForgetBooks DEF Booked
  <1>3. \/ /\ pc' = [pc EXCEPT ![c] = "done"]
           /\ \E k \in {"ok", "stopped", "unconfirmed"} :
                 outcome' = [outcome EXCEPT ![c] = k] /\ (k = "ok" => pc[c] = "answered")
        \/ /\ pc' = [pc EXCEPT ![c] = "caught"] /\ outcome' = outcome /\ pc[c] = "answered"
           /\ retiredTurns' = retiredTurns
    BY DEF Answer, FailTurn, Goto
  <1> QED
    BY <1>1, <1>2, <1>3, BooksStand DEF Early, Held, Labels, Counting, IInv, Types

\* What maybeFinishTurn does with books that are right.
LEMMA FinishBooks ==
  ASSUME IInv, Booked, NEW c \in Calls, NEW completed, NEW usage, Finish(c, completed, usage),
         pc[c] \in {"starting", "waiting"}, emitted' \in [Calls -> Nat],
         usage = [last |-> emitted'[c], total |-> emitted'[c]],
         \A d \in Calls : d # c => emitted'[d] = emitted[d],
         UNCHANGED <<outcome, retiredTurns>>
  PROVE  Booked'
  <1> DEFINE v == Verdict(c, completed, usage)
  <1>1. v = "finish" => usage.total > 0
    BY DEF Verdict
  <1>2. v = "grace" => c \notin Strict
    BY DEF Verdict
  <1>3. /\ usage \in Usage /\ usage.last = usage.total /\ NoUsage \in Usage
        /\ c \notin retiredTurns /\ outcome[c] = "none"
    BY DEF Usage, NoUsage, Booked
  <1> HIDE DEF v
  <1>4. CASE v \in {"fail", "finish"}
    <2>1. /\ usageTimers' = usageTimers \ {c}
          /\ usageByTurn' = [usageByTurn EXCEPT ![c] = NoUsage]
          /\ pc' = [pc EXCEPT ![c] = IF v = "fail" THEN "caught" ELSE "answered"]
          /\ spent' = [spent EXCEPT ![c] = IF v = "finish" THEN usage ELSE @]
      BY <1>4 DEF Finish, Goto, v
    <2>2. /\ usageByTurn' \in [Calls -> Usage] /\ spent' \in [Calls -> Usage]
          /\ \A d \in Calls : d # c => /\ pc'[d] = pc[d] /\ spent'[d] = spent[d]
                                       /\ usageByTurn'[d] = usageByTurn[d] /\ emitted'[d] = emitted[d]
          /\ pc'[c] \in {"caught", "answered"}
          /\ pc'[c] = "answered" => spent'[c] = usage /\ usage.total > 0
      BY <1>1, <1>3, <1>4, <2>1 DEF Booked, IInv, Types
    <2>3. \A d \in Calls : pc'[d] \in Counting =>
            usageByTurn'[d] = [last |-> emitted'[d], total |-> emitted'[d]] /\ spent'[d] = NoUsage
      BY <2>2 DEF Booked, Counting, Early
    <2>4. \A d \in Calls : pc'[d] = "answered" \/ outcome'[d] = "ok" => SumsUp(d)'
      BY <1>3, <2>2 DEF Booked, SumsUp
    <2>5. /\ \A d \in Calls : outcome'[d] # "none" => pc'[d] = "done"
          /\ \A d \in retiredTurns' : pc'[d] \in {"closing", "done"}
          /\ usageTimers' \cap Strict = {}
      BY <1>3, <2>1, <2>2 DEF Booked, IInv, Types
    <2> QED
      BY <2>2, <2>3, <2>4, <2>5 DEF Booked
  <1>5. CASE v \notin {"fail", "finish"}
    <2>1. /\ usageTimers' = (IF v = "grace" THEN usageTimers \cup {c} ELSE usageTimers)
          /\ usageByTurn' = [usageByTurn EXCEPT ![c] = usage]
          /\ pc' = [pc EXCEPT ![c] = "waiting"] /\ spent' = spent
      BY <1>5 DEF Finish, Goto, v
    <2>2. /\ usageByTurn' \in [Calls -> Usage]
          /\ \A d \in Calls : d # c => /\ pc'[d] = pc[d]
                                       /\ usageByTurn'[d] = usageByTurn[d] /\ emitted'[d] = emitted[d]
          /\ pc'[c] = "waiting" /\ usageByTurn'[c] = usage
      BY <1>3, <2>1 DEF Booked, IInv, Types
    <2>3. \A d \in Calls : pc'[d] \in Counting =>
            usageByTurn'[d] = [last |-> emitted'[d], total |-> emitted'[d]] /\ spent'[d] = NoUsage
      BY <2>1, <2>2 DEF Booked, Counting, Early
    <2>4. \A d \in Calls : pc'[d] = "answered" \/ outcome'[d] = "ok" => SumsUp(d)'
      BY <1>3, <2>1, <2>2 DEF Booked, SumsUp
    <2>5. /\ \A d \in Calls : outcome'[d] # "none" => pc'[d] = "done"
          /\ \A d \in retiredTurns' : pc'[d] \in {"closing", "done"}
          /\ usageTimers' \cap Strict = {}
      BY <1>2, <1>3, <2>1, <2>2 DEF Booked, IInv, Types
    <2> QED
      BY <2>1, <2>2, <2>3, <2>4, <2>5 DEF Booked
  <1> QED
    BY <1>4, <1>5

\* The response to turn/start, an update of the usage, and the end of a turn.
LEMMA CountBooks ==
  ASSUME IInv, Booked, NEW c \in Calls, TurnAccepted(c) \/ UsageUpdated(c) \/ TurnCompleted(c)
  PROVE  Booked'
  <1>1. CASE TurnAccepted(c)
    <2>1. /\ pc[c] = "starting" /\ Finish(c, completedTurns, usageByTurn[c])
          /\ UNCHANGED <<emitted, outcome, retiredTurns>>
      BY <1>1 DEF TurnAccepted, serverVars
    <2> QED
      BY <2>1, FinishBooks DEF Booked, Counting
  <1>2. CASE UsageUpdated(c)
    <2>1. PICK total \in {emitted[c], emitted[c] + 1} \cap (1..MaxTotal) :
            /\ emitted' = [emitted EXCEPT ![c] = total]
            /\ IF c \in retiredTurns
               THEN UNCHANGED <<turnVars, callVars>>
               ELSE /\ IF c \in turnWaiters
                       THEN Finish(c, completedTurns, Accumulate(usageByTurn[c], total))
                       ELSE /\ usageByTurn' = [usageByTurn EXCEPT ![c] = Accumulate(usageByTurn[c], total)]
                            /\ UNCHANGED <<completedTurns, turnWaiters, usageTimers, pc, sure, spent>>
                    /\ UNCHANGED <<stopWaiters, retiredTurns, aborted, report, outcome>>
      BY <1>2 DEF UsageUpdated
    <2> DEFINE u == Accumulate(usageByTurn[c], total)
    <2>2. /\ total \in Nat /\ emitted' \in [Calls -> Nat] /\ emitted'[c] = total
          /\ \A d \in Calls : d # c => emitted'[d] = emitted[d]
      BY <2>1 DEF Booked
    <2>3. u \in Usage
      BY <2>2 DEF Accumulate, Usage, Booked
    <2>4. pc[c] \in Counting => u = [last |-> total, total |-> total]
      BY <2>1, <2>2 DEF Accumulate, Booked
    <2> HIDE DEF u
    <2>5. CASE c \notin retiredTurns /\ c \in turnWaiters
      <3>1. pc[c] = "waiting"
        BY <2>5 DEF IInv, Evidence
      <3>2. u = [last |-> emitted'[c], total |-> emitted'[c]]
        BY <2>2, <2>4, <3>1 DEF Counting
      <3>3. Finish(c, completedTurns, u) /\ UNCHANGED <<outcome, retiredTurns>>
        BY <2>1, <2>5 DEF u
      <3> QED
        BY <2>2, <3>1, <3>2, <3>3, FinishBooks
    <2>6. CASE c \in retiredTurns
      <3>1. UNCHANGED <<usageByTurn, usageTimers, retiredTurns, pc, spent, outcome>>
        BY <2>1, <2>6 DEF turnVars, callVars
      <3>2. pc[c] \notin Counting
        BY <2>6 DEF Booked, Counting, Early
      <3> QED
        BY <2>2, <3>1, <3>2 DEF Booked, SumsUp
    <2>7. CASE c \notin retiredTurns /\ c \notin turnWaiters
      <3>1. /\ usageByTurn' = [usageByTurn EXCEPT ![c] = u]
            /\ UNCHANGED <<usageTimers, retiredTurns, pc, spent, outcome>>
        BY <2>1, <2>7 DEF u
      <3>2. usageByTurn' \in [Calls -> Usage]
        BY <2>3, <3>1 DEF Booked
      <3>3. \A d \in Calls : pc'[d] \in Counting =>
              usageByTurn'[d] = [last |-> emitted'[d], total |-> emitted'[d]] /\ spent'[d] = NoUsage
        BY <2>2, <2>4, <3>1 DEF Booked
      <3> QED
        BY <2>2, <3>1, <3>2, <3>3 DEF Booked, SumsUp
    <2> QED
      BY <2>5, <2>6, <2>7
  <1>3. CASE TurnCompleted(c)
    <2>1. UNCHANGED <<emitted, outcome>>
      BY <1>3 DEF TurnCompleted
    <2>2. CASE c \in turnWaiters /\ Finish(c, completedTurns \cup {c}, usageByTurn[c]) /\ UNCHANGED retiredTurns
      <3>1. pc[c] = "waiting"
        BY <2>2 DEF IInv, Evidence
      <3> QED
        BY <2>1, <2>2, <3>1, FinishBooks DEF Booked, Counting
    <2>3. CASE /\ Release(c) /\ activeTurns[ThreadOf[c]] = c /\ ThreadOf[c] \in unconfirmedThreads
               /\ UNCHANGED <<pc, sure, spent>>
      <3>1. pc[c] \in {"closing", "done"}
        BY <2>3, CodexAssumption DEF Sane, IInv, Types, Threading, GivenUp
      <3>2. /\ usageByTurn' \in [Calls -> Usage] /\ usageTimers' \subseteq usageTimers
            /\ \A d \in Calls : d # c => usageByTurn'[d] = usageByTurn[d]
            /\ retiredTurns' = retiredTurns \cup {c}
        BY <2>3, ForgetBooks DEF Release
      <3> QED
        BY <2>1, <2>3, <3>1, <3>2, BooksStand DEF Counting, Early, IInv, Types
    <2>4. CASE /\ UNCHANGED <<usageByTurn, usageTimers, retiredTurns, spent>>
               /\ pc' = pc \/ (pc[c] = "interrupting" /\ pc' = [pc EXCEPT ![c] = "stopResolved"])
      BY <2>1, <2>4, BooksStand DEF Booked, Counting, Early, Known, Held, Labels, IInv, Types
    <2> QED
      BY <1>3, <2>2, <2>3, <2>4 DEF TurnCompleted, threadVars, turnVars, Goto, IInv, Types
  <1> QED
    BY <1>1, <1>2, <1>3

\* Every step keeps the books.
LEMMA StepBooks == ASSUME IInv, Booked, [Next]_vars PROVE Booked'
  <1>1. CASE UNCHANGED vars
    BY <1>1 DEF vars, turnVars, callVars, serverVars, Booked, SumsUp
  <1>2. ASSUME NEW c \in Calls, Step(c) PROVE Booked'
    BY <1>2, OrdinaryBooks, PlainBooks, SettleBooks, CountBooks DEF Step, Continue, Timer, Ordinary
  <1> QED
    BY <1>1, <1>2, ConnectionBooks DEF Next

\* Books that are right promise that the tokens of an answered turn add up.
LEMMA BooksAddUp == ASSUME Booked PROVE UsageAddsUp
  BY DEF Booked, SumsUp, UsageAddsUp

\* The tokens of an answered turn are the sum of its model calls, in whatever order usage, completion
\* and the response to turn/start arrive (maybeFinishTurn and onNotification:
\* codex-app-server-client.ts:906-999).
THEOREM UsageAddsUpAlways == Spec => []UsageAddsUp
  <1>1. Init => Booked
    BY InitBooks
  <1>2. IInv /\ Booked /\ [Next]_vars => Booked'
    BY StepBooks
  <1>3. Booked => UsageAddsUp
    BY BooksAddUp
  <1> QED
    BY <1>1, <1>2, <1>3, TurnsInvariance, PTL DEF Spec
=============================================================================
