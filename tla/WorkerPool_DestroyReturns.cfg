SPECIFICATION FairSpec
CONSTANTS
  Workers = {w1, w2}
  NoWorker = none
  MaxJobs = 1
PROPERTIES
  DestroyReturns
CHECK_DEADLOCK FALSE
