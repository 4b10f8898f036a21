SPECIFICATION Spec
CONSTANTS
  btc = btc
  bar1 = bar1
  bar2 = bar2
  None = None
  Symbols <- Series
  Bars <- TwoBars
  MaxMinute = 5
  Bucket = 2
  Day = 4
  Lookback = 2
  DayLookback = 4
  Warmup = 4
  Frame = 2
  MaxChanges = 3
  AsOfs <- TwoRates
PROPERTY
  PricesSurviveRebuild
