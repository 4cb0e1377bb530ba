SPECIFICATION Spec
CONSTANTS
  alice = alice
  bob = bob
  NoUid = NoUid
  NoOne = NoOne
  Thread = {t1}
  Cli = {}
  Config <- Toggling
  FirstConfig <- AliceV4
  ManageTorrc = FALSE
  Faults = {}
INVARIANT NoStrandedUser
