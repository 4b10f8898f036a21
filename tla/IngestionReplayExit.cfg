SPECIFICATION Spec
CONSTANTS
  SymbolOrder <- MCOneSymbol
  Configured = "binance"
  Budget = 2
  BackfillBudgets = {}
  FallbackAfter = 2
  FirstClosed = 1
  MaxMinute = 3
  ApiModes = {FALSE}
  DbModes = {TRUE}
  MayDrop = FALSE
  MayPurge = FALSE
PROPERTIES
  FallbackEndsOnLiveSuccess
