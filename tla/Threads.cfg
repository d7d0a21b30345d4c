CONSTANTS
  Workers = {w1, w2, w3}
  NoWorker = none
  MaxJobs = 3
  SyncTicks = 3
  MaxDue = 2
  MaxCommands = 3
SPECIFICATION ThreadsSpec
INVARIANTS
  WorkFindsAWorker
  NoJobDropped
  ReportedIsDone
PROPERTIES
  EveryJobRuns
  StopIsHeeded
CHECK_DEADLOCK FALSE
