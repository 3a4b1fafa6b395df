SPECIFICATION FairSpec
CONSTANTS
  Providers = {"provider"}
  Functions = {}
  Aux = {}
  Versions = {"v1"}
  Specs <- MCOneVersion
  Configs <- MCFull
  NoConfig = NoConfig
  LegacyUpgrade = FALSE
  MaxEdits = 2
  MaxFaults = 0
PROPERTIES BecomesReady
CHECK_DEADLOCK FALSE
