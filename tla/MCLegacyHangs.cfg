SPECIFICATION FairSpec
CONSTANTS
  Providers = {"provider"}
  Functions = {}
  Aux = {}
  Versions = {"v1"}
  Specs <- MCOneVersion
  Configs <- MCFull
  NoConfig = NoConfig
  LegacyUpgrade = TRUE
  MaxEdits = 1
  MaxFaults = 0
PROPERTIES LegacyDeletionCompletes
CHECK_DEADLOCK FALSE
