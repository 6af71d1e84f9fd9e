CONSTANTS
  NumPch = 1
  NumRank = 1
  NumBg = 3
  NumBank = 1
  Row <- MCRow
  Column <- MCColumn
  RequestTypes <- LoadStoreTypes
  Traffic <- LoadStoreTraffic
  Timing <- LoadStoreTiming
  MaxRequests = 3
  MaxSize = 2
  PriorityMaxSize = 2
  WrLow = 2
  WrHigh = 8
  RefreshOn = TRUE
SPECIFICATION FairSpec
INVARIANTS
  TypeOK
  NoneLost
  ActiveOnePerBank
PROPERTIES
  RoomToOpen
  Drains
  ServiceSpec
