SPECIFICATION Spec
CONSTANTS
  MaxMinute = 0
  NumHosts = 3
  MaxRetries = 4
  Limit = 2
  Behind = 0
INVARIANT
  AllHostsFailed
