\* A file copied under a new name, paused and resumed.
SPECIFICATION Spec
CONSTANTS
  Jobs = {j1}
  Files = {f1, f2}
  JobOf <- OneJob
  Size = 2
  Found <- PartAndOld
  Absent = Absent
  None = None
  Requests <- OneCopy
  Answers = {"rename"}
  MaxParallel = 2
  MaxControls = 1
  MaxFailures = 0
  MaxRetries = 0
INVARIANT ChoiceRespected
CHECK_DEADLOCK FALSE
