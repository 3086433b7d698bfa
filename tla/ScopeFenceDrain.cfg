SPECIFICATION FairSpec
CONSTANTS
    t1 = t1
    t2 = t2
    t3 = t3
    codex = codex
    claude = claude
    s1 = s1
    s2 = s2
    l1 = l1
    l2 = l2
    l3 = l3
    sa = sa
    sb = sb
    sc = sc
    None = None
    Task = {t1, t2}
    Agent = {codex}
    Server = {s1, s2}
    Lease = {}
    Scope = {sc}
    AgentOf <- SlotAgentOf
    ScopeOf <- SlotScopeOf
    Overlap <- Nothing
    RepairAgents <- Nothing
    Manual <- Nothing
    MaxConcurrency = {1}
    QueueLimit = 2
    MaxGen = 3
PROPERTY QueueDrains
PROPERTY NoOvertaking
CHECK_DEADLOCK FALSE
