SPECIFICATION FairWriterSpec
CONSTANTS
  Config <- Toggled
  Port <- Ports
  Foreign <- Theirs
  Others <- TheirChains
  Faults = {"append", "delete", "check", "die", "reboot"}
  MaxFaults = 2
INVARIANT IInv FailedApplyRestores ApplyKeepsEarlierRules ArmedFailsClosed RemoveTakesEverything GuiReachable ForeignRulesUntouched
PROPERTY CallsEnd
