CONSTANTS
    MaxDescs <- MC_MaxDescs
    ON = ON
    OFF = OFF
    Hole = Hole
    NULL = NULL
    Garbage = Garbage
SPECIFICATION Spec
INVARIANTS
    TypeOK
    CountMatchesEnabled
CHECK_DEADLOCK FALSE
