CONSTANTS
  Cells = {a, b}
  SaveInterval = 2
  Burst = 2
  RenameReplaces = TRUE
  MaxEdits = 2
  MaxCrashes = 2
  MaxFailures = 1
  ListMax = 3
  MaxPlayed = 4
  MaxLosses = 1
SPECIFICATION StorageSpec
INVARIANTS
  FileIsSaved
  SavedSurvives
  UnsavedIsYoung
  StopKeepsAll
  NewWorldIsNew
  EditsKeepTheirTerrain
PROPERTIES
  ImplementsStore
CHECK_DEADLOCK FALSE
