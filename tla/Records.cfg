SPECIFICATION Spec
CONSTANTS
    None = None
    NoKey = NoKey
    a1 = a1
    a2 = a2
    s1 = s1
    s2 = s2
    x = x
    w1 = w1
    w2 = w2
    m = m
    Agents = {a1, a2}
    Keys <- NoteKeys
    Big = {2}
    Limit = 2
    MaxEvents = 3
    Server = {w1, w2, m}
    AgentOf <- ServerAgents
    Lineages <- Families
    RecoveryKey = {"a"}
    MaxGen = 2
    Handle = {"h1", "h2", "key"}
    Unsafe = {"key"}
    MaxAttempt = 1
    Session = {s1, s2, x}
    SessionAgent <- SessionAgents
    Task = {"t1", "t2"}
    Overlap <- SameFiles
    Needs <- InTurn
    MaxLeases = 2
    Pids <- ThreePids
    Root = 1
    MaxBorn = 4
    TidyTools = TRUE
    Calls = {"c1", "c2", "c3", "c4"}
    KeyOf <- CallKeys
    RequestOf <- CallRequests
SYMMETRY Alike
INVARIANTS
    NothingLost
    PagesComplete
    NeverRelaunched
    OneVerdict
    AbandonedIsClosable
    ReceiptsTrue
    StartedIsKept
    StopProofSound
    AnswersTrue
PROPERTY EndedForGood
CHECK_DEADLOCK FALSE
