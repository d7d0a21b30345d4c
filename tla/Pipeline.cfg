CONSTANTS
  Chunks <- MCChunks
  Neighbors <- MCNeighbors
  Workers = {w1, w2}
  Edits <- MCEdits
  Home <- MCHome
  Borders <- MCBorders
  SubmitLimit = 2
  UploadLimit = 1
  MaxSpills = 1
  Freed = freed
  NoChunk = none
  Settings <- MCSettings
SPECIFICATION FairSpec
INVARIANTS
  JobsMatchStates
  EditsReachMeshes
PROPERTIES
  NothingDangles
  SafeWrite
  ColumnsBecomeReady
CHECK_DEADLOCK FALSE
