CONSTANTS
    c1 = c1
    c2 = c2
    c3 = c3
    thread1 = thread1
    thread2 = thread2
    None = None
    Null = Null
    Calls = {c1, c2}
    Threads = {thread1}
    Starts = {c1}
    Strict = {c1}
    MaxSpawn = 2
    MaxTotal = 1
    ThreadOf <- MCThreadOf
SPECIFICATION Spec
INVARIANTS StopReportHonest OutcomeHonest OneOpenTurn
CHECK_DEADLOCK FALSE
