CONSTANTS
    Bytes <- MC_Bytes
    MaxSize <- MC_MaxSize
    MaxCrashes = 1
    NoReturn = NoReturn
SPECIFICATION Spec
INVARIANTS
    CopyDurable
CHECK_DEADLOCK FALSE
