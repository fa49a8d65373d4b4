\* The first start: config.toml does not exist.  More saves than OwnWrites
\* remembers, and two changes by somebody else.
CONSTANTS
    Instances = {i1}  Ids = {theme}  Values = {v1, v2}
    Absent = Absent  Missing = Missing  Broken = Broken  None = None
    Owner <- SoleOwner
    InitDisks = {Missing}
    OmitsEmpty = FALSE
    MaxSaves = 3
    MaxPending = 2
    MaxExternal = 2
SPECIFICATION CSpec
INVARIANTS OwnWritesExact SettingsFollow
CHECK_DEADLOCK FALSE
