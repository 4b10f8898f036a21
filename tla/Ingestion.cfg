SPECIFICATION Spec
CONSTANTS
  SymbolOrder <- MCOneSymbol
  Configured = "binance"
  Budget = 2
  BackfillBudgets = {1, 2}
  FallbackAfter = 2
  FirstClosed = 1
  MaxMinute = 3
  ApiModes = {TRUE, FALSE}
  DbModes = {TRUE, FALSE}
  MayDrop = TRUE
  MayPurge = TRUE
INVARIANTS
  TypeOK
  NoFormingBar
  HolesExplained
PROPERTIES
  ReplayIsLoud
