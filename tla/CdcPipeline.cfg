SPECIFICATION FairSpec
CONSTANTS
  Keys = {k1, k2}
  Values = {v1, v2}
  None = None
  BlockSize = 2
  SlotKeep = 1
  MayLoseSlot = FALSE
  MaxWal = 3
  MaxRestarts = 1
INVARIANTS
  TypeOK
  DrainedIsEqual
PROPERTIES
  ImplementsReplica
  Converges
CHECK_DEADLOCK FALSE
