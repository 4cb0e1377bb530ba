SPECIFICATION Spec
CONSTANTS
  Platform = {"windows"}
  Profiles <- AllProfiles
  Adapters <- TwoAdapters
  UsersDns <- TheirDns
  Roaming = {}
  Config <- PinOrNot
  Faults = {"show"}
  MaxFaults = 0
INVARIANT NeverOurOwnBlock
