CONSTANTS
  Half = 4
  Window = 4
  AckWidth = 2
  ShiftWidth = 2
  MaxLag = 4
  MaxSends = 9
  MaxAcks = 1
  ReasmSlots = 2
  MsgIds = 3
  FragMax = 2
  MaxColumns = 5
  MaxLost = 1
SPECIFICATION ChannelSpec
INVARIANTS
  UndeliveredIsHeld
  BitsExact
  ColumnsAreWhole
  ArrivedIsComplete
PROPERTIES
  NoFalseAck
  ImplementsDelivery
  ConfirmationStands
CHECK_DEADLOCK FALSE
