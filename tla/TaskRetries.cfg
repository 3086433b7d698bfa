SPECIFICATION Spec
CONSTANTS
    t1 = t1
    t2 = t2
    t3 = t3
    codex = codex
    claude = claude
    lint = lint
    None = None
    Delegate <- ToCodex
    Task = {t1}
    Agent = {codex, claude}
    Check = {}
    Delegated = {t1}
    Retries = 1
    MaxAttempt = 1
CHECK_DEADLOCK FALSE
PROPERTY VerdictsStand
PROPERTY CancelledOnEvidence
