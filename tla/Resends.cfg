CONSTANTS
  MsgSize = 3
  MaxCalls = 1
  MaxPieces = 3

SPECIFICATION FairSpec
PROPERTY Resends
CHECK_DEADLOCK FALSE
