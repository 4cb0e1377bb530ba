SPECIFICATION Spec
CONSTANTS
  Platform = {"windows", "macos"}
  Profiles <- TwoProfiles
  Adapters <- TwoAdapters
  UsersDns <- TheirDns
  Roaming = {"ethernet"}
  Config <- Plain
  Faults = {"netsh", "pfctl", "read", "probe", "full", "unlink", "tor", "key", "crash", "reboot"}
  MaxFaults = 2
INVARIANT IInv NeverLockedOut WayBack EnforcedWhileConnected DisconnectGivesBack FailedFirstConnectGivesBack
