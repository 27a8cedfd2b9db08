CONSTANTS
    MaxDescs <- MC_MaxDescs
    ON = ON
    OFF = OFF
    Hole = Hole
    NULL = NULL
    Garbage = Garbage
SPECIFICATION Spec
INVARIANT LookupMatchesEnabled
CHECK_DEADLOCK FALSE
