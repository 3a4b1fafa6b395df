SPECIFICATION FairSpec
CONSTANTS
  Instances = {i1, i2}
  Secrets = {s1}
  Capacity = 1
  Parts <- MCParts
  MaxChanges = 1
  MaxFaults = 1
INVARIANTS TypeOK NothingMissed NeverForgotten
PROPERTIES NeverBackwards KeepsAttention EventuallySeen
CHECK_DEADLOCK FALSE
