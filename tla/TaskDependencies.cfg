SPECIFICATION Spec
CONSTANTS
    t1 = t1
    t2 = t2
    t3 = t3
    codex = codex
    claude = claude
    lint = lint
    None = None
    Delegate <- ToCodex
    Task = {t1, t2, t3}
    Agent = {codex}
    Check = {}
    Delegated = {}
    Retries = 0
    MaxAttempt = 0
SYMMETRY TasksAlike
CHECK_DEADLOCK FALSE
INVARIANT NoDependencyDeadlock
