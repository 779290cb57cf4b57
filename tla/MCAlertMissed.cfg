\* An alert arrives while the monitor it should extend is stopping.
SPECIFICATION Spec
CONSTANTS
  StartLimit = 1
  StartWindow = 1
  MaxRuns = 1
  MaxFaults = 0
  MayStop = FALSE
  GenerateReport = TRUE
  PollSeconds = 1
  MaxMonitorSeconds = 4
  IdleTtlSeconds = 4
  LowSamplesToStop = 2
PROPERTY
  AlertsResetRecovery
