SPECIFICATION FairSpec
CONSTANTS
  Providers = {"provider"}
  Functions = {}
  Aux = {"secret"}
  Versions = {"v1", "v2"}
  Specs <- MCSpecs
  Configs <- MCOffered
  NoConfig = NoConfig
  LegacyUpgrade = TRUE
  MaxEdits = 3
  MaxFaults = 1
INVARIANTS Coherent
PROPERTIES GuardIsReleasedLast GuardIsForGood DeletionCompletes Converges StatusSettles
CHECK_DEADLOCK FALSE
