SPECIFICATION FairSpec
CONSTANTS
  MaxMinute = 2
  NumHosts = 3
  MaxRetries = 2
  Limit = 2
  Behind = 2
INVARIANTS
  TypeOK
  EveryHostTried
PROPERTIES
  ImplementsSource
  FetchEnds
