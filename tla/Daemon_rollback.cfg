SPECIFICATION Spec
CONSTANTS
  alice = alice
  bob = bob
  NoUid = NoUid
  NoOne = NoOne
  Thread = {t1, t2}
  Cli = {}
  Config <- RoutingV6
  FirstConfig <- AliceV6
  ManageTorrc = TRUE
  Faults = {"append", "torrc", "note", "lock", "stop", "reboot"}
INVARIANT IInv FailedFirstConnectLeavesNothing NoStaleRules
