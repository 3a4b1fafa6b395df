SPECIFICATION Spec
CONSTANTS
  Providers = {"provider"}
  Functions = {}
  Aux = {}
  Versions = {"v1", "v2"}
  Specs <- MCUpgrades
  Configs <- MCFull
  NoConfig = NoConfig
  LegacyUpgrade = FALSE
  MaxEdits = 2
  MaxFaults = 0
PROPERTIES ReadyIsCurrent
CHECK_DEADLOCK FALSE
