CONSTANTS
  NumPch = 2
  NumRank = 1
  NumBg = 1
  NumBank = 1
  Row <- MCRow
  Column <- MCColumn
  RequestTypes <- BankModeTypes
  Traffic <- BankModeTraffic
  Timing <- MCTiming
  MaxRequests = 3
  MaxSize = 2
  PriorityMaxSize = 2
  WrLow = 2
  WrHigh = 8
  RefreshOn = TRUE
SPECIFICATION FairSpec
INVARIANTS
  SingleRowOpen
  BarrierOrder
  RefreshKeepsUp
PROPERTIES
  Drains
  ServiceSpec
