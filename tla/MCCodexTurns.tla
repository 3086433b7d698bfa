---------------------------- MODULE MCCodexTurns ----------------------------
EXTENDS CodexTurns, TLC

CONSTANTS c1, c2, c3, thread1, thread2

MCThreadOf == (c1 :> thread1) @@ (c2 :> thread1)
MCOne == c1 :> thread1
=============================================================================
