SPECIFICATION FairSpec
CONSTANTS
  Symbols = {ETHUSDT}
  DayLength = 2
  LookbackDays = 2
  Tolerance = 0
  Retries = 1
  MaxTime = 5
  MaxChanges = 3
INVARIANTS
  TypeOK
PROPERTIES
  AlarmsAreReal
  GreenMeansWhole
  LossIsReported
  AllClear
