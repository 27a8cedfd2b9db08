CONSTANTS
    a = a
    b = b
    h = h
    t = t
    n = n
    Files <- MC_Files
    Hidden <- MC_Hidden
    Ext <- MC_Ext
    Present = TRUE
    MaxChanges <- MC_MaxChanges
SPECIFICATION Spec
INVARIANT PluginSlotsInBounds
CHECK_DEADLOCK FALSE
