CONSTANTS
  MsgSize = 3
  MaxCalls = 2
  MaxPieces = 6

SPECIFICATION FairSpec
INVARIANT TypeOK
PROPERTY ImplementsReceipt
PROPERTY JoinEndsOnMatch
CHECK_DEADLOCK FALSE
