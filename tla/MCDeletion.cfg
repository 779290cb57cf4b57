\* Two runs of one firewall, two requests, a failed statement or removal,
\* and two among reloads, probes and deaths of the process.
SPECIFICATION FairDeletionSpec
CONSTANTS
  Runs = {1, 2}
  MaxRequests = 2
  MaxUpheavals = 2
  MaxFailures = 1
INVARIANTS
  DeletionTypeOK
  RunRequestsKept
PROPERTIES
  CurrentRunIsSpared
  RunRequestsServed
