SPECIFICATION FairSpec
CONSTANTS
  Runs = {1}
  Attempts = {1, 2}
  RunOf <- OneRun
  Requests <- AnyRequest
  Settings <- AnySettings
  MaxCalls = 2
INVARIANTS
  NeverReplayed
  NothingAfterAGap
  StaleDriveStops
  
PROPERTIES
  OnlyTheHolderWrites
  ExecuteEnds
CHECK_DEADLOCK FALSE
