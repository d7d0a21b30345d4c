CONSTANTS
  Half = 6
  Window = 3
  AckWidth = 2
  ShiftWidth = 2
  MaxLag = 4
  MaxSends = 4
  MaxAcks = 1
SPECIFICATION FairSpec
PROPERTIES
  EventuallyHanded
  RetransmissionEnds
CHECK_DEADLOCK FALSE
