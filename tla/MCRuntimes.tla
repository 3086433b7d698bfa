------------------------------ MODULE MCRuntimes ------------------------------
(***************************************************************************)
(* A small instance of each component of Runtimes for TLC.                 *)
(***************************************************************************)
EXTENDS Runtimes, TLC

\* A strict call on a new thread.
OneThread == "c1" :> "thread"

\* Two invocations, each of a task of its own.
TwoTasks == "i1" :> "t1" @@ "i2" :> "t2"

\* The first two calls are one request sent twice; the third resumes a thread.
Tasked == "c1" :> "t1" @@ "c2" :> "t1" @@ "c3" :> "t2"
Body == "c1" :> "a" @@ "c2" :> "a" @@ "c3" :> "b"

\* A reply that may have to be continued, and two calls that open a session.
Kinds == "r1" :> "reply" @@ "s1" :> "start" @@ "s2" :> "start"
TwoConns == 1..2

\* A request and its repetitions, here and at another server, where its key is also misused.
Placed == "c1" :> "s1" @@ "c2" :> "s1" @@ "c3" :> "s2" @@ "c4" :> "s2"
Contracts == "c1" :> "a" @@ "c2" :> "a" @@ "c3" :> "a" @@ "c4" :> "b"
=============================================================================
