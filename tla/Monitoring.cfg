SPECIFICATION FairSpec
INVARIANTS
  TypeOK
  FreshOrFlagged
PROPERTIES
  
  AlertsEnd
  ConnectorIsRegistered
