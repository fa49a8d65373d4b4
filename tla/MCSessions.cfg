\* What is behind a pane (local shell, SSH, telnet, serial, mosh) and the
\* terminal's engine and view, under fairness.
CONSTANTS
    Parts = {"view", "pty", "ssh", "mosh", "serial", "telnet", "keys", "auth", "hosts"}
    Titles = {"t1", "t2"}  Sizes = {1, 2}  FirstSize = 1
    QueueMax = 3  PendingMax = 3  MaxOut = 2  MaxOps = 2
    Scenes <- MCScenes
    Instances = {"here"}  Ids = {"mine", "theirs"}  Values = {1}  OmitsEmpty = FALSE
    Owner <- MineAndTheirs  InitDisks <- BothThere
    MaxSaves = 2  Slots = {1, 2}  MaxExternal = 1
    None = None  Unset = Unset  Absent = Absent  Missing = Missing  Broken = Broken
SPECIFICATION FairMCSpec
INVARIANTS BackendAgrees SecretsChecked ViewSound HostsTrue
PROPERTIES KeepsContract ClosedEnds ViewCatchesUp HostsFollow
\* A session that ended, or that nobody uses, stops.
CHECK_DEADLOCK FALSE
