CONSTANTS
  Quantum <- MCQuantum
  GpuConfig <- MCGpu
  CpuConfig <- MCCpu
  Simulated <- MCSimulated
  Models <- MCModels
  GpuCounts = {1, 4}
  PimConfigs <- MCPims
  Calls <- MCCalls
  Logged <- MCLogged
  NoModel = NoModel
  MaxOps = 3
SPECIFICATION Spec
INVARIANTS
  TypeOK
  Consistent
  TimesAddUp
  EnergiesAddUp
  PipelineShortens
  FlopsOfWholeModel
  CapacityOfLayers
PROPERTIES
  AnswersFromConfiguration
\* The operations of a behaviour are bounded.
CHECK_DEADLOCK FALSE
