CONSTANTS
    c1 = c1
    c2 = c2
    c3 = c3
    c4 = c4
    c5 = c5
    Junk = Junk
    EMPTY = EMPTY
    Pids <- MC_Pids
    NumChildren <- MC_NumChildren
    InitPid <- PidZeroed
SPECIFICATION Spec
INVARIANT
    WorkersBounded
CHECK_DEADLOCK FALSE
