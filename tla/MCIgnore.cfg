SPECIFICATION Spec
CONSTANTS
  Providers = {}
  Functions = {}
  Aux = {}
  Versions = {"v1"}
  Specs <- MCOneVersion
  Configs <- MCFull
  NoConfig = NoConfig
  LegacyUpgrade = FALSE
  MaxEdits = 3
  MaxFaults = 0
PROPERTIES IgnoreIsKept
CHECK_DEADLOCK FALSE
