CONSTANTS
    SysEntry <- TableRecvmsg
    NumSyscalls <- CountRecvmsg
    Hole = Hole
    Modes = {"smart"}
    Jobs <- JobsRecvmsg
    MaxTests <- MC_MaxTests
    MaxArgs = 4
    InitDidJump <- DidJumpClear
    EntryAlloc = {TRUE}
SPECIFICATION Spec
INVARIANTS
    NoLeakBetweenTests
CHECK_DEADLOCK FALSE
