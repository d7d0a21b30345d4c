CONSTANTS
  Clients = {c1, c2, c3}
  NoClient = none
  MaxClients = 2
  MaxId = 3
  NoSnapshot = nosnapshot
  MaxLate = 1
  MaxPassed = 1
SPECIFICATION Spec
INVARIANTS
  SlotsDistinct
  DepartedIsAnnounced
SYMMETRY Symmetry
CHECK_DEADLOCK FALSE
