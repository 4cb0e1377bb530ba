SPECIFICATION Spec
CONSTANTS
  home = home
  cafe = cafe
  office = office
  Resolver <- Leases
  Faults = {"crash", "raise", "stuck", "mutable", "full", "unlink", "bytes", "missing",
            "race"}
INVARIANT IInv PinnedHasBackup RestoreUnpins OnlyThePinIsImmutable
