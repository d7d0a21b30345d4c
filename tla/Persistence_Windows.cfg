CONSTANTS
  Cells = {a, b}
  SaveInterval = 2
  Burst = 2
  RenameReplaces = FALSE
  MaxEdits = 2
  MaxCrashes = 0
  MaxFailures = 0
SPECIFICATION Spec
INVARIANT SaveIsGuaranteed
CHECK_DEADLOCK FALSE
