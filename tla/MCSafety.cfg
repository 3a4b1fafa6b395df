SPECIFICATION Spec
CONSTANTS
  Providers = {"provider"}
  Functions = {"function"}
  Aux = {"secret"}
  Versions = {"v1", "v2"}
  Specs <- MCSpecs
  Configs <- MCAll
  NoConfig = NoConfig
  LegacyUpgrade = FALSE
  MaxEdits = 4
  MaxFaults = 1
INVARIANTS TypeOK NoOrphans CrossplaneServesPackages AccessOutlivesComponents NeverForgotten
PROPERTIES NoLostEdit ReadyIsEarned KeepsThePromise DeletionOnlyRemoves LeavesAlone
CHECK_DEADLOCK FALSE
