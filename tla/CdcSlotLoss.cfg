SPECIFICATION Spec
CONSTANTS
  Keys = {k1, k2}
  Values = {v1, v2}
  None = None
  BlockSize = 2
  SlotKeep = 0
  MayLoseSlot = TRUE
  MaxWal = 3
  MaxRestarts = 2
INVARIANTS
  RecordsHonest
  CommittedIsStored
  SurvivorsAreEqual
PROPERTIES
  NeverBackwards
SYMMETRY Symmetry
CHECK_DEADLOCK FALSE
