CONSTANTS
    i1 = i1
    i2 = i2
    i3 = i3
    t1 = t1
    t2 = t2
    None = None
    Invs = {i1, i2, i3}
    Tasks = {t1, t2}
    TaskOf <- MCTaskOf
    Limit = 1
    MaxPending = 1
    Frames = 1
SPECIFICATION Spec
INVARIANTS SlotsConserved StopReportHonest OneRuntimePerTask OutcomeMatchesRun
    DisposeLeavesNothing
CHECK_DEADLOCK FALSE
