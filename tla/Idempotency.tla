---------------------------- MODULE Idempotency ----------------------------
(***************************************************************************)
(* runIdempotent (idempotency.ts): a mutation called under a key is looked *)
(* up outside any transaction, and again inside the one that applies it.   *)
(* Each call is served by a process of its own; the caller that got no     *)
(* answer sends the same call again.                                       *)
(***************************************************************************)
CONSTANTS
    Calls,
    KeyOf,        \* the idempotency key of a call
    RequestOf     \* its operation and the hash of its request

VARIABLES
    rows,         \* the table idempotency: recorded key -> the call it was recorded for
    applied,      \* the calls whose mutation is in the database
    pc,
    answer        \* what was returned: the response of a call, or an error

idempotencyVars == <<rows, applied, pc, answer>>

Recorded(c) == KeyOf[c] \in DOMAIN rows
Winner(c) == rows[KeyOf[c]]

Response(c) == [kind |-> "response", of |-> c]
Failed(what) == [kind |-> what]

Init ==
    /\ rows = [k \in {} |-> k]
    /\ applied = {}
    /\ pc = [c \in Calls |-> "idle"]
    /\ answer = [c \in Calls |-> Failed("none")]

Return(c, a) == pc' = [pc EXCEPT ![c] = "done"] /\ answer' = [answer EXCEPT ![c] = a]

\* A recorded call answers for this one if it asked for the same thing.
Replay(c) ==
    /\ Recorded(c)
    /\ Return(c, IF RequestOf[Winner(c)] = RequestOf[c] THEN Response(Winner(c)) ELSE Failed("mismatch"))
    /\ UNCHANGED <<rows, applied>>

Lookup(c) ==
    /\ pc[c] = "idle"
    /\ \/ Replay(c)
       \/ /\ ~Recorded(c)
          /\ pc' = [pc EXCEPT ![c] = "missed"] /\ UNCHANGED <<rows, applied, answer>>

\* The mutation and its record are one transaction.
Apply(c) ==
    /\ rows' = [k \in DOMAIN rows \cup {KeyOf[c]} |-> IF k = KeyOf[c] THEN c ELSE rows[k]]
    /\ applied' = applied \cup {c}
    /\ Return(c, Response(c))

\* The mutation throws: the transaction is rolled back and nothing is recorded.
Throws(c) == Return(c, Failed("error")) /\ UNCHANGED <<rows, applied>>

\* Seeded bug: the key is not read again inside the transaction.
CommitUnread(c) == pc[c] = "missed" /\ (Apply(c) \/ Throws(c))
Commit(c) ==
    /\ pc[c] = "missed"
    /\ Replay(c) \/ (~Recorded(c) /\ (Apply(c) \/ Throws(c)))

\* The process dies before or after the commit, or its answer is lost: the call is repeated.
Repeat(c) ==
    /\ pc[c] \in {"missed", "done"}
    /\ pc' = [pc EXCEPT ![c] = "idle"] /\ answer' = [answer EXCEPT ![c] = Failed("none")]
    /\ UNCHANGED <<rows, applied>>

Next == \E c \in Calls : Lookup(c) \/ Commit(c) \/ Repeat(c)
Spec == Init /\ [][Next]_idempotencyVars
-----------------------------------------------------------------------------
(* Properties.                                                             *)

Answers == {Response(c) : c \in Calls} \cup {Failed(w) : w \in {"none", "mismatch", "error"}}
TypeOK ==
    /\ DOMAIN rows \subseteq {KeyOf[c] : c \in Calls} /\ \A k \in DOMAIN rows : rows[k] \in Calls
    /\ applied \subseteq Calls
    /\ pc \in [Calls -> {"idle", "missed", "done"}]
    /\ answer \in [Calls -> Answers]

\* A key is applied at most once, however many callers race under it, crash between
\* the lookup and the commit, or repeat a call whose answer was lost.
AppliedOnce == \A c, d \in applied : KeyOf[c] = KeyOf[d] => c = d

\* A response is one of this very request, and of a mutation that is in the database.
AnswersTrue ==
    \A c, d \in Calls : answer[c] = Response(d) =>
        d \in applied /\ KeyOf[d] = KeyOf[c] /\ RequestOf[d] = RequestOf[c]
=============================================================================
