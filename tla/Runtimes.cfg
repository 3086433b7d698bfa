SPECIFICATION Spec
CONSTANTS
    None = None
    Null = Null
    TurnCalls = {"c1"}
    Threads = {"thread"}
    Starts = {"c1"}
    StrictCalls = {"c1"}
    ThreadOf <- OneThread
    MaxSpawn = 2
    MaxTotal = 3
    Invs = {"i1", "i2"}
    RunTasks = {"t1", "t2"}
    RunTaskOf <- TwoTasks
    RunLimit = 1
    RunPending = 1
    Frames = 1
    Calls = {"c1", "c2", "c3"}
    Tasks = {"t1", "t2"}
    TaskOf <- Tasked
    KeyOf <- Body
    BodyOf <- Body
    Resumes = {"c3"}
    Strict = {}
    Silent = {"c3"}
    Confirming = TRUE
    Limit = 1
    MaxPending = 1
    MaxEntries = 1
    Repairs = 1
    McpCalls = {"r1", "s1", "s2"}
    KindOf <- Kinds
    Conns <- TwoConns
    KeyCalls = {"c1", "c2", "c3", "c4"}
    Servers = {"s1", "s2"}
    At <- Placed
    Contract <- Contracts
    MaxAttempts = 2
    MaxRuns = 2
    MaxEvents = 2
    MaxMoves = 2
    Unheard = FALSE
INVARIANTS
    UsageAddsUp
    StopReportHonest
    OneExecution
    SlotComesBack
    CloseLeavesNoRuntime
    OneRuntimePerKey
    AnswersAgree
    PinnedIsShown
PROPERTY EverythingSettles
CHECK_DEADLOCK FALSE
