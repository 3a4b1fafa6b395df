SPECIFICATION Spec
CONSTANTS
  Providers = {"provider"}
  Functions = {}
  Aux = {}
  Versions = {"v1"}
  Specs <- MCOneVersion
  Configs <- MCFull
  NoConfig = NoConfig
  LegacyUpgrade = TRUE
  MaxEdits = 2
  MaxFaults = 0
INVARIANTS NoOrphans
CHECK_DEADLOCK FALSE
