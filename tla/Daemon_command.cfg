SPECIFICATION Spec
CONSTANTS
  alice = alice
  bob = bob
  NoUid = NoUid
  NoOne = NoOne
  Thread = {t1}
  Cli = {c1}
  Config <- UsersV4
  FirstConfig <- AliceV4
  ManageTorrc = FALSE
  Faults = {"append", "raise", "crash", "blind"}
INVARIANT NoStrandedUser
