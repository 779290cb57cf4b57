SPECIFICATION FairChecksSpec
CONSTANTS
  Devices = {1, 2}
  MaxRelease = 2
  Thresholds = {0, 300}
  Default = 0
  OldDefault = 600
  MaxSaves = 2
  MaxEvents = 2
INVARIANTS
  ChecksTypeOK
  TrustedMapsAreCurrent
  UndisturbedAnswersAreCurrent
PROPERTIES
  RequestsAreServed
  DueChecksHappen
CHECK_DEADLOCK FALSE
