CONSTANTS
  Columns <- MCColumns
  Places <- MCPlaces
  Radius = 1
  ServerRadius = 0
  Margin = 1
  Budget = 1
  PendingLimit = 1
  Oversized = {4}
  EditedColumns = {2}
  MaxEdits = 2
  MaxMoves = 2
  MaxFaults = 1
  Height = 2
SPECIFICATION BlocksSpec
INVARIANTS
  
  StreamedIsThere
  NothingHangs

  
CHECK_DEADLOCK FALSE
