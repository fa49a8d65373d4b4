\* A recording that is paused and resumed.
CONSTANTS
    Parts = {"recording"}
    None = None  Partial = Partial  Unsupported = Unsupported
INIT MCInit
NEXT MCNext
INVARIANT PauseIsNotPlayed
CHECK_DEADLOCK FALSE
