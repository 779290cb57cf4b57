\* The volume stops accepting writes while a monitor is in its stop sequence.
SPECIFICATION Spec
CONSTANTS
  StartLimit = 1
  StartWindow = 1
  MaxRuns = 1
  MaxFaults = 1
  MayStop = FALSE
  GenerateReport = TRUE
  PollSeconds = 1
  MaxMonitorSeconds = 2
  IdleTtlSeconds = 2
  LowSamplesToStop = 2
INVARIANT
  ReportAlwaysScheduled
