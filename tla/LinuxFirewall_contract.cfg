SPECIFICATION Spec
CONSTANTS
  Config <- OneUser
  Port <- Ports
  Foreign <- NoRules
  Others <- NoChains
  Faults = {"append", "delete", "die", "reboot"}
  MaxFaults = 1
INVARIANT StatusTruthful
PROPERTY ImplementsFirewall
