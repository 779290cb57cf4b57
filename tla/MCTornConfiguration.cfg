SPECIFICATION ManagedSpec
CONSTANTS
  serialA = serialA
  Targets = {fw1, fw2, fw3}
  Sources = {relay1, relay2}
  Serials = {serialA}
  NoSerial = NoSerial
  Profiles <- MCProfiles
  Initial <- MCInitial
  Settings = {calm, eager}
  MaxMessages = 1
  MaxFaults = 1
  MaxSaves = 2
INVARIANT LoadedIsStored
SYMMETRY Symmetry
