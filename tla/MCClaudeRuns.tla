---------------------------- MODULE MCClaudeRuns ----------------------------
EXTENDS ClaudeRuns, TLC

CONSTANTS i1, i2, i3, t1, t2

\* Two invocations of one task and one of another compete for the slots.
MCTaskOf == (i1 :> t1) @@ (i2 :> t1) @@ (i3 :> t2)
MCPair == (i1 :> t1) @@ (i2 :> t2)
=============================================================================
