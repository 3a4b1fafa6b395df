SPECIFICATION FairSpec
CONSTANTS
  Providers = {"provider"}
  Functions = {}
  Aux = {}
  Versions = {"v1"}
  Specs <- MCOneVersion
  Configs <- MCConfigs
  NoConfig = NoConfig
  LegacyUpgrade = FALSE
  MaxEdits = 3
  MaxFaults = 0
PROPERTIES DeletionNeedsNoOffer
CHECK_DEADLOCK FALSE
