CONSTANTS
  Clients = {c1, c2}
  NoClient = none
  MaxClients = 2
  MaxId = 3
  NoSnapshot = nosnapshot
  MaxLate = 1
  MaxPassed = 2
SPECIFICATION FairSpec
PROPERTIES
  RosterConverges
  InitialArrives
  SlotsAreFreed
CHECK_DEADLOCK FALSE
