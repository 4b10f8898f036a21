SPECIFICATION FairSpec
CONSTANTS
  SymbolOrder <- MCSymbolOrder
  Configured = "binance"
  Budget = 2
  BackfillBudgets = {}
  FallbackAfter = 2
  FirstClosed = 1
  MaxMinute = 3
  ApiModes = {TRUE, FALSE}
  DbModes = {TRUE, FALSE}
  MayDrop = FALSE
  MayPurge = FALSE
INVARIANTS
  FallbackConsistent
PROPERTIES
  FreshnessRecovers
  StopIsHonoured
