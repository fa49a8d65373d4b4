\* A job of two files, one there in part, one in the way of another.
\* "newer" leads to what "overwrite" and "skip" do.
SPECIFICATION Spec
CONSTANTS
  Jobs = {j1}
  Files = {f1, f2}
  JobOf <- OneJob
  Size = 2
  Found <- PartAndOld
  Absent = Absent
  None = None
  Requests <- AnyMove
  Answers = {"newer", "resume", "rename"}
  MaxParallel = 2
  MaxControls = 2
  MaxFailures = 1
  MaxRetries = 1
INVARIANTS JobsSound PermitsExact NeverStuck
CHECK_DEADLOCK FALSE
