\* A save, and two changes by somebody else, of which the second undoes the first.
CONSTANTS
    Instances = {i1}  Ids = {theme}  Values = {v1, v2}
    Absent = Absent  Missing = Missing  Broken = Broken  None = None
    Owner <- SoleOwner
    InitDisks = {Missing}
    OmitsEmpty = FALSE
    MaxSaves = 1
    MaxPending = 2
    MaxExternal = 2
SPECIFICATION CSpec
INVARIANT UndoApplied
CHECK_DEADLOCK FALSE
