CONSTANTS
  NumChannel = 2
  Count <- MCCount
  TxBytes = 2
  Mapper = "HBM3-PIM"
  Traces <- MCTraces
  Period = 3
SPECIFICATION FairSpec
INVARIANTS
  Complete
  SentAsMeant
PROPERTIES
  ChannelService
  Terminates
\* The simulation ends when the trace has been served.
CHECK_DEADLOCK FALSE
