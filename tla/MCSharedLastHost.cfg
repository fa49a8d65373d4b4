\* The last host is deleted while the other instance adds one: hosts.toml leaves
\* the empty list out.
CONSTANTS
    Parts = {"files"}
    Instances = {"i1", "i2"}  Ids = {"a", "b"}  Values = {1}
    Absent = Absent  Missing = Missing  Broken = Broken  None = None
    Owner <- TwoEditors  InitDisks <- OneHost
    OmitsEmpty = TRUE
    MaxSaves = 2
    Tunnels = {1}  Kinds <- AnyKind  Bind <- OneAddress
    Refuses = TRUE  Asks = TRUE
    MaxRuns = 2  MaxForwards = 2  MaxConns = 2
INIT MCInit
NEXT MCNext
PROPERTY OthersUntouched
CHECK_DEADLOCK FALSE
