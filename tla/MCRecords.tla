------------------------------ MODULE MCRecords ------------------------------
(***************************************************************************)
(* A small instance of each component of Records for TLC.                  *)
(***************************************************************************)
EXTENDS Records, TLC

CONSTANTS a1, a2, s1, s2, x, w1, w2, m

\* Two agents that write notes, two sessions of an agent and two servers of another are alike.
Alike == Permutations({a1, a2}) \cup Permutations({s1, s2}) \cup Permutations({w1, w2})

\* Two keys, the notes of one too large for a page.
NoteKeys == 1..2

\* The servers of a worker and one of its manager; the proper child of the manager, and one
\* that the manager's parent task was given.
ServerAgents == w1 :> "worker" @@ w2 :> "worker" @@ m :> "manager"
Child == [owner |-> "worker", creator |-> "manager", parentOwner |-> "manager", adjacent |-> TRUE,
          delegation |-> <<"manager", "worker">>]
GrandChild == [Child EXCEPT !.creator = "worker", !.delegation = None]
Families == {Child, GrandChild}

\* Two tasks over the same files, one of which needs the other.
SessionAgents == s1 :> "claude" @@ s2 :> "claude" @@ x :> "codex"
SameFiles == Task \X Task
InTurn == "t1" :> {} @@ "t2" :> {"t1"}

\* A child and two pids more.
ThreePids == 1..3

\* Three calls of one key, one of which asks for something else, and a call of another key.
CallKeys == "c1" :> "k1" @@ "c2" :> "k1" @@ "c3" :> "k1" @@ "c4" :> "k2"
CallRequests == "c1" :> "a" @@ "c2" :> "a" @@ "c3" :> "b" @@ "c4" :> "a"
=============================================================================
