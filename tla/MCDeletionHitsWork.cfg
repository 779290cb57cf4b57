\* Everything is asked to be deleted while runs come and go.
SPECIFICATION DeletionSpec
CONSTANTS
  Runs = {1, 2}
  MaxRequests = 1
  MaxUpheavals = 0
  MaxFailures = 0
INVARIANT
  WorkInProgressKept
