CONSTANTS
  Chunks <- MCChunks
  Neighbors <- MCNeighbors
  Workers = {w1, w2}
  Edits <- MCEdits
  Home <- MCHome
  Borders <- MCBorders
  SubmitLimit = 2
  UploadLimit = 1
  MaxSpills = 1
  Freed = freed
  NoChunk = none
  Settings <- MCRemote
SPECIFICATION Spec
INVARIANTS
  EvictionIsDeferred
CHECK_DEADLOCK FALSE
