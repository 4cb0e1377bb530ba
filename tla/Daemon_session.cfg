SPECIFICATION FairSpec
CONSTANTS
  alice = alice
  bob = bob
  NoUid = NoUid
  NoOne = NoOne
  Thread = {t1, t2}
  Cli = {}
  Config <- TwoUsers
  FirstConfig <- Nobody
  ManageTorrc = TRUE
  Faults = {"append", "delete", "ip6", "probe", "raise", "save", "torrc", "lease", "crash", "reboot"}
INVARIANT IInv PinnedOnlyWhileArmed
PROPERTY ImplementsSession LockComesFree
