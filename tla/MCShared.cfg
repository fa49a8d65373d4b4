\* Two instances on one hosts.toml, with two saves each, and a tunnel of any kind
\* started twice, under fairness.
CONSTANTS
    Parts = {"files", "tunnels"}
    Instances = {"i1", "i2"}  Ids = {"a", "b", "kept"}  Values = {1, 2}
    Absent = Absent  Missing = Missing  Broken = Broken  None = None
    Owner <- Editors  InitDisks <- ThreeHosts
    OmitsEmpty = TRUE
    MaxSaves = 2
    Tunnels = {1}  Kinds <- AnyKind  Bind <- OneAddress
    Refuses = TRUE  Asks = TRUE
    MaxRuns = 2  MaxForwards = 2  MaxConns = 2
SPECIFICATION FairMCSpec
INVARIANTS SettledIsSaved TunnelsTrue
PROPERTIES OthersUntouched EveryEditSettles ComesUp
\* Edits may stop.
CHECK_DEADLOCK FALSE
