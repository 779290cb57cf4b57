CONSTANTS
  Sessions = {1, 2}
  Sources = {11, 12}
  RetrySeconds = 2
  MaxSessionLookups = 1
  SourceLimit = 1
  MaxBatches = 3
  MaxOddities = 2
  Rankings <- MCRankings
  Queues <- MCQueues

SPECIFICATION Spec
CHECK_DEADLOCK FALSE

INVARIANTS
  EnrichmentTypeOK
  CandidatesAreThoseListed
  LookupsAreSpaced
  UnseenWaitOnlyForUnseen
  RatesAreOfOneSession
  GrowthIsOfThisRun
