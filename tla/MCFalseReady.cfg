SPECIFICATION Spec
CONSTANTS
  Providers = {}
  Functions = {}
  Aux = {}
  Versions = {"v1"}
  Specs <- MCOneVersion
  Configs <- MCFull
  NoConfig = NoConfig
  LegacyUpgrade = FALSE
  MaxEdits = 2
  MaxFaults = 1
PROPERTIES ReadyMeansInstalled
CHECK_DEADLOCK FALSE
