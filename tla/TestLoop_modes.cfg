CONSTANTS
    SysEntry <- TableCreat
    NumSyscalls <- CountCreat
    Hole = Hole
    Modes <- MC_Modes
    Jobs <- JobsCreat
    MaxTests <- MC_MaxTests
    MaxArgs = 2
    InitDidJump <- DidJumpClear
    EntryAlloc = {TRUE, FALSE}
SPECIFICATION Spec
INVARIANTS
    TypeOK
    NoStrayFree
    OutcomeHandledOnce
CHECK_DEADLOCK FALSE
