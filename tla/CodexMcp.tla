------------------------------ MODULE CodexMcp ------------------------------
(***************************************************************************)
(* The long-lived client of `codex mcp-server` (codex-mcp-client.ts): one  *)
(* server process shared by all calls, opened by the first, dropped when a *)
(* call fails on it and opened again by the next; a reply whose session    *)
(* that server has forgotten is continued by `codex exec resume` in a      *)
(* child of its own.  Server, child and MCP SDK are external.              *)
(***************************************************************************)
EXTENDS Naturals

CONSTANTS Calls, KindOf,        \* "probe", "start" or "reply"
          Conns,                \* bound on server processes: 1..n
          None

VARIABLES closed, state, connecting,
          conn,                 \* "none", "opening", "open", "dead", "failing", "closing" or "gone"
          at, on, opener,       \* where a call is, its connection, whether it opens it
          miss,                 \* calls whose session the server has forgotten
          child, timedOut,      \* child: "none", "live", "killed" or "gone"
          outcome,
          closing, pending      \* the progress of close() and what it waits for

mcpVars == <<closed, state, connecting, conn, at, on, opener, miss, child, timedOut, outcome, closing, pending>>

Init ==
    /\ closed = FALSE /\ state = None /\ connecting = None
    /\ conn = [k \in Conns |-> "none"]
    /\ at = [c \in Calls |-> "idle"] /\ on = [c \in Calls |-> None] /\ opener = {} /\ miss = {}
    /\ child = [c \in Calls |-> "none"] /\ timedOut = {} /\ outcome = [c \in Calls |-> "none"]
    /\ closing = "no" /\ pending = None

Alive == {"opening", "open"}
Settled(c, o) == at' = [at EXCEPT ![c] = "settled"] /\ outcome' = [outcome EXCEPT ![c] = o]
Connected(c)  == IF KindOf[c] = "probe" THEN "settled" ELSE "requesting"
-----------------------------------------------------------------------------
(* The connection.                                                         *)

\* ensureConnected, entered by every call.
Begin(c) ==
    /\ at[c] = "idle"
    /\ CASE closed -> Settled(c, "refused") /\ UNCHANGED <<on, opener, connecting, conn>>
         [] ~closed /\ state # None ->
              /\ at' = [at EXCEPT ![c] = Connected(c)] /\ on' = [on EXCEPT ![c] = state]
              /\ UNCHANGED <<opener, connecting, conn, outcome>>
         [] ~closed /\ state = None /\ connecting # None ->
              /\ at' = [at EXCEPT ![c] = "connecting"] /\ on' = [on EXCEPT ![c] = connecting]
              /\ UNCHANGED <<opener, connecting, conn, outcome>>
         [] OTHER ->
              \E k \in Conns :
                /\ conn[k] = "none" /\ \A j \in Conns : j < k => conn[j] # "none"
                /\ conn' = [conn EXCEPT ![k] = "opening"] /\ connecting' = k
                /\ at' = [at EXCEPT ![c] = "connecting"] /\ on' = [on EXCEPT ![c] = k]
                /\ opener' = opener \cup {c}
                /\ UNCHANGED outcome
    /\ UNCHANGED <<closed, state, miss, child, timedOut, closing, pending>>

Waiting(k) == {c \in Calls : at[c] = "connecting" /\ on[c] = k}

\* The tools are listed.  The opener closes a connection that close() has overtaken.
Opens(k) ==
    /\ connecting = k /\ conn[k] = "opening" /\ connecting' = None
    /\ state' = IF closed THEN state ELSE k
    /\ conn' = [conn EXCEPT ![k] = IF closed THEN "closing" ELSE "open"]
    /\ at' = [c \in Calls |-> IF c \notin Waiting(k) THEN at[c]
                              ELSE IF closed /\ c \in opener THEN "invalidating" ELSE Connected(c)]
    /\ UNCHANGED <<closed, on, opener, miss, child, timedOut, outcome, closing, pending>>

\* connect or listTools fails or times out: the client is closed, then all who wait are told.
OpenFails(k) ==
    /\ conn[k] = "opening" \/ (conn[k] = "dead" /\ connecting = k)
    /\ conn' = [conn EXCEPT ![k] = "failing"]
    /\ UNCHANGED <<closed, state, connecting, at, on, opener, miss, child, timedOut, outcome, closing, pending>>

Refused(k) ==
    /\ conn[k] = "failing" /\ conn' = [conn EXCEPT ![k] = "gone"]
    /\ connecting' = None
    /\ at' = [c \in Calls |-> IF c \in Waiting(k) THEN "settled" ELSE at[c]]
    /\ outcome' = [c \in Calls |-> IF c \in Waiting(k) THEN "failed" ELSE outcome[c]]
    /\ UNCHANGED <<closed, state, on, opener, miss, child, timedOut, closing, pending>>

\* The server process ends by itself: nothing tells the client until the next call.
ServerDies(k) ==
    /\ conn[k] \in Alive /\ conn' = [conn EXCEPT ![k] = "dead"]
    /\ UNCHANGED <<closed, state, connecting, at, on, opener, miss, child, timedOut, outcome, closing, pending>>

\* client.close() returns, having killed the process if need be.
Gone(k) ==
    /\ conn[k] = "closing" /\ conn' = [conn EXCEPT ![k] = "gone"]
    /\ UNCHANGED <<closed, state, connecting, at, on, opener, miss, child, timedOut, outcome, closing, pending>>
-----------------------------------------------------------------------------
(* A call on its connection.                                               *)

Answered(c) ==
    /\ at[c] = "requesting" /\ conn[on[c]] \in {"open", "closing"}
    /\ Settled(c, "ok")
    /\ UNCHANGED <<closed, state, connecting, conn, on, opener, miss, child, timedOut, closing, pending>>

\* A deadline or abort, or a server that lacks the tool: the connection is kept.
TimesOut(c) ==
    /\ at[c] = "requesting" /\ \E o \in {"timeout", "failed"} : Settled(c, o)
    /\ UNCHANGED <<closed, state, connecting, conn, on, opener, miss, child, timedOut, closing, pending>>

\* invalidateConnection: only if it is still the current one.
Invalidate(c) ==
    IF state = on[c]
    THEN /\ state' = None /\ conn' = [conn EXCEPT ![on[c]] = "closing"]
         /\ at' = [at EXCEPT ![c] = "invalidating"]
    ELSE at' = [at EXCEPT ![c] = "unwinding"] /\ UNCHANGED <<state, conn>>

\* An error, an answer that lacks its thread, or a forgotten session; or the connection is lost.
Fails(c) ==
    /\ at[c] = "requesting" /\ Invalidate(c)
    /\ \/ KindOf[c] = "reply" /\ conn[on[c]] \in {"open", "closing"} /\ miss' = miss \cup {c}
       \/ UNCHANGED miss
    /\ UNCHANGED <<closed, connecting, on, opener, child, timedOut, outcome, closing, pending>>

\* Who closes a connection waits for it.
Unwound(c) == at[c] = "unwinding" \/ (at[c] = "invalidating" /\ conn[on[c]] = "gone")

CallFails(c) ==
    /\ Unwound(c) /\ c \notin miss /\ Settled(c, "failed")
    /\ UNCHANGED <<closed, state, connecting, conn, on, opener, miss, child, timedOut, closing, pending>>

\* Seeded bug: the child is spawned without a look at closed.
ResumeAnyway(c) ==
    /\ Unwound(c) /\ c \in miss
    /\ at' = [at EXCEPT ![c] = "resuming"] /\ child' = [child EXCEPT ![c] = "live"] /\ UNCHANGED outcome
    /\ UNCHANGED <<closed, state, connecting, conn, on, opener, miss, timedOut, closing, pending>>

\* resumePersisted: refused once closed, or aborted before it starts.
Resume(c) ==
    /\ Unwound(c) /\ c \in miss
    /\ \/ ~closed /\ at' = [at EXCEPT ![c] = "resuming"] /\ child' = [child EXCEPT ![c] = "live"] /\ UNCHANGED outcome
       \/ closed /\ Settled(c, "failed") /\ UNCHANGED child
       \/ ~closed /\ Settled(c, "timeout") /\ UNCHANGED child
    /\ UNCHANGED <<closed, state, connecting, conn, on, opener, miss, timedOut, closing, pending>>

\* Seeded bug: the deadline notes the time-out and leaves the child running.
ResumeDeadlineNoted(c) ==
    /\ child[c] = "live" /\ c \notin timedOut
    /\ timedOut' = timedOut \cup {c} /\ UNCHANGED child
    /\ UNCHANGED <<closed, state, connecting, conn, at, on, opener, miss, outcome, closing, pending>>

ResumeDeadline(c) ==
    /\ child[c] = "live" /\ child' = [child EXCEPT ![c] = "killed"] /\ timedOut' = timedOut \cup {c}
    /\ UNCHANGED <<closed, state, connecting, conn, at, on, opener, miss, outcome, closing, pending>>

ChildCloses(c) ==
    /\ child' = [child EXCEPT ![c] = "gone"]
    /\ \/ child[c] = "live" /\ \E o \in {"ok", "failed"} : Settled(c, o)
       \/ child[c] = "killed" /\ Settled(c, IF c \in timedOut THEN "timeout" ELSE "failed")
    /\ UNCHANGED <<closed, state, connecting, conn, on, opener, miss, timedOut, closing, pending>>
-----------------------------------------------------------------------------
(* close(): children killed, the connection awaited and closed, then the   *)
(* resumptions that were under way.                                        *)

Close ==
    /\ closing = "no" /\ closed' = TRUE
    /\ child' = [c \in Calls |-> IF child[c] = "live" THEN "killed" ELSE child[c]]
    /\ pending' = connecting /\ closing' = "connecting"
    /\ UNCHANGED <<state, connecting, conn, at, on, opener, miss, timedOut, outcome>>

CloseConnection ==
    /\ closing = "connecting" /\ (pending = None \/ connecting # pending)
    /\ pending' = state /\ state' = None /\ closing' = "closing"
    /\ conn' = [k \in Conns |-> IF k = state THEN "closing" ELSE conn[k]]
    /\ UNCHANGED <<closed, connecting, at, on, opener, miss, child, timedOut, outcome>>

CloseEnds ==
    /\ closing = "closing" /\ (pending \in Conns => conn[pending] = "gone")
    /\ \A c \in Calls : child[c] \notin {"live", "killed"}
    /\ closing' = "closed"
    /\ UNCHANGED <<closed, state, connecting, conn, at, on, opener, miss, child, timedOut, outcome, pending>>

Settles(c) == Answered(c) \/ TimesOut(c) \/ Fails(c)

Next ==
    \/ \E c \in Calls : \/ Begin(c) \/ Settles(c) \/ CallFails(c)
                        \/ Resume(c) \/ ResumeDeadline(c) \/ ChildCloses(c)
    \/ \E k \in Conns : Opens(k) \/ OpenFails(k) \/ Refused(k) \/ ServerDies(k) \/ Gone(k)
    \/ Close \/ CloseConnection \/ CloseEnds

Spec == Init /\ [][Next]_mcpVars

\* Requests, connects and resumptions have deadlines; a killed child ends; closing a client returns.
Proceeds(c) == \/ Settles(c) \/ CallFails(c) \/ Resume(c) \/ ResumeDeadline(c)
               \/ child[c] = "killed" /\ ChildCloses(c)
Resolves(k) == Opens(k) \/ OpenFails(k) \/ Refused(k) \/ Gone(k)
Fairness ==
    /\ (\A c \in Calls : WF_mcpVars(Proceeds(c))) /\ (\A k \in Conns : WF_mcpVars(Resolves(k)))
    /\ WF_mcpVars(CloseConnection \/ CloseEnds)
-----------------------------------------------------------------------------
(* Properties.                                                             *)

\* None is no connection.
Sane == None \notin Conns

\* Every server process that is up, or coming up, is the one that close() will find: calls that fail
\* late on an earlier connection, after another has been opened, do not make the client forget it (1).
\* When close() has returned no child runs, and none is started by a call that was still unwinding;
\* a server left behind is one whose own closing is under way (2).
CloseLeavesNoRuntime ==
    /\ \A k \in Conns : conn[k] \in Alive => k \in {state, connecting}
    /\ closing = "closed" => /\ \A c \in Calls : child[c] \in {"none", "gone"}
                             /\ \A k \in Conns : conn[k] \notin Alive

\* Nothing is owed to anyone: every call and every close() has come to its end.
AtRest == (\A c \in Calls : at[c] \in {"idle", "settled"}) /\ closing \in {"no", "closed"}
=============================================================================
