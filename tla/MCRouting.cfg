SPECIFICATION ManagedSpec
CONSTANTS
  serialA = serialA
  Targets = {fw1, fw2, fw3}
  Sources = {relay1, relay2}
  Serials = {serialA}
  NoSerial = NoSerial
  Profiles <- MCProfiles
  Initial <- MCInitial
  Settings = {calm}
  MaxMessages = 2
  MaxFaults = 1
  MaxSaves = 2
INVARIANTS
  ManagedTypeOK
  OneProbePerQueue
  RoutedOnce
  FanOutWithinAllowlist
  ReloadDisturbsNothing
  LoadedSerialsHaveOneOwner
SYMMETRY Symmetry
PROPERTIES
  ImplementsAlertRouting
