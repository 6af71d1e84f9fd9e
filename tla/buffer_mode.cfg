CONSTANTS
  NumPch = 2
  NumRank = 1
  NumBg = 2
  NumBank = 1
  Row <- MCRow
  Column <- MCColumn
  RequestTypes <- BufferModeTypes
  Traffic <- BufferModeTraffic
  Timing <- MCTiming
  MaxRequests = 2
  MaxSize = 1
  PriorityMaxSize = 2
  WrLow = 2
  WrHigh = 8
  RefreshOn = TRUE
SPECIFICATION Spec
INVARIANTS
  SingleRowOpen
  LockStep
