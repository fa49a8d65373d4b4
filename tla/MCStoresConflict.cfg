\* A scan finds other conflicts while the dialog shows one.
CONSTANTS
    Parts = {"folder"}
    None = None  Absent = Absent  Broken = Broken  Git = Git
    NoValue = NoValue  Lost = Lost
    Passwords = {"p1", "p2"}  Contents = {"none", "one"}  Empty = "none"
    MaxVaults = 3  Keyring = Keyring  NoFile = NoFile  Idle = Idle
INIT MCInit
NEXT MCNext
INVARIANT ResolvesWhatWasShown
CHECK_DEADLOCK FALSE
