\* What a pane shows of the other side: files, desktops, monitors, recordings,
\* and the terminal's input.
CONSTANTS
    Parts = {"browser", "edit", "list", "desktop", "screen", "monitor", "recording", "codec", "input"}
    None = None  Partial = Partial  Unsupported = Unsupported
INIT MCInit
NEXT MCNext
INVARIANTS SftpShown DesktopSound MonitorSound RecordingSound InputSound
\* Every part stops when its bounds are reached.
CHECK_DEADLOCK FALSE
