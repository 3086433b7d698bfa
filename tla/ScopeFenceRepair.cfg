SPECIFICATION Spec
CONSTANTS
    t1 = t1
    t2 = t2
    t3 = t3
    codex = codex
    claude = claude
    s1 = s1
    s2 = s2
    l1 = l1
    l2 = l2
    l3 = l3
    sa = sa
    sb = sb
    sc = sc
    None = None
    Task = {t1, t2}
    Agent = {codex, claude}
    Server = {s1, s2}
    Lease = {l1, l2}
    Scope = {sa, sb}
    AgentOf <- PairAgentOf
    ScopeOf <- PairScopeOf
    Overlap <- PairOverlap
    RepairAgents = {codex}
    Manual <- Nothing
    MaxConcurrency = {1}
    QueueLimit = 64
    MaxGen = 2
SYMMETRY Symmetric
CHECK_DEADLOCK FALSE
INVARIANT WritersDisjoint
