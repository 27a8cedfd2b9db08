CONSTANTS
    p1 = p1
    p2 = p2
    p3 = p3
    None = None
    Procs <- MC_Procs
    BlockCount <- MC_BlockCount
SPECIFICATION Spec
PROPERTY
    LockEventuallyAcquired
CHECK_DEADLOCK FALSE
