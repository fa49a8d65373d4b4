\* The shell around the terminals: layouts, workspaces, hosts, quick connect,
\* profiles, themes and snippets.
CONSTANTS
    Parts = {"layout", "workspaces", "tree", "quick", "profiles", "themes", "snippets"}
    None = None  Unset = Unset  Missing = Missing  Absent = Absent  Broken = Broken
    NotFinite = NotFinite
    GivenNames = {1, 2}  Contents = {c1, c2}  Candidates <- TwoIds  LastSession = "last"  MaxAsks = 3
INIT MCInit
NEXT MCNext
SYMMETRY Symmetry
INVARIANTS LayoutSound LastWordWins HostTreeSound QuickConnectSound ProfilesSettle
           ThemesSound SnippetsSound
\* Every part stops when its bounds are reached.
CHECK_DEADLOCK FALSE
