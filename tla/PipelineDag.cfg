SPECIFICATION FairSpec
CONSTANTS
  MaxRuns = 2
  Retries = 1
INVARIANTS
  TypeOK
  GreenMeansRebuilt
  RecordedMeansRebuilt
  FailuresArePublished
PROPERTY
  RunsEnd
CHECK_DEADLOCK FALSE
