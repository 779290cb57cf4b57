\* One firewall, two capture directories: alerts, floods, and any two among
\* a failing volume, a SIGTERM and a death of the process, at any moment.
SPECIFICATION Spec
CONSTANTS
  StartLimit = 1
  StartWindow = 0
  MaxRuns = 2
  MaxFaults = 2
  MayStop = TRUE
  GenerateReport = TRUE
  PollSeconds = 1
  MaxMonitorSeconds = 2
  IdleTtlSeconds = 2
  LowSamplesToStop = 2
INVARIANTS
  TypeOK
  OneMonitor
  NoForeignEvidence
  ContextOnce
PROPERTIES
  StopMarkerIsLast
  RecoveryEarned
  ImplementsLifecycle
