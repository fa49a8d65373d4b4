\* What is kept on disk: files replaced and merged, the vault (three of them one
\* after the other, two passwords), the keychain, its service, the settings
\* folder and the settings file.
CONSTANTS
    Parts = {"vault", "replace", "merge", "keychain", "service", "folder", "settings"}
    None = None  Absent = Absent  Broken = Broken  Git = Git
    NoValue = NoValue  Lost = Lost
    Passwords = {"p1", "p2"}  Contents = {"none", "one"}  Empty = "none"
    MaxVaults = 3  Keyring = Keyring  NoFile = NoFile  Idle = Idle
INIT MCInit
NEXT MCNext
INVARIANTS KeyKept HolderTold SecretsKept
           ReplacesAtomically MergeRight ServiceSound FolderKeepsAll SettingsKept
PROPERTIES SecretsStay UnreadableKept
\* Every part stops when its bounds are reached.
CHECK_DEADLOCK FALSE
