\* A sound volume and no shutdown: what the monitor owes the operator.
SPECIFICATION FairSpec
CONSTANTS
  StartLimit = 1
  StartWindow = 1
  MaxRuns = 2
  MaxFaults = 0
  MayStop = FALSE
  GenerateReport = TRUE
  PollSeconds = 1
  MaxMonitorSeconds = 3
  IdleTtlSeconds = 3
  LowSamplesToStop = 2
PROPERTIES
  RunsEnd
  RunsReported
