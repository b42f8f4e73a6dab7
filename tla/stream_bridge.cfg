SPECIFICATION FairSpec
CONSTANTS
  MaxEvents = 4
INVARIANTS
  NothingLost
  FewLateEntries
PROPERTIES
  TellsTheDrive
  DriveReachesItsStop
  StreamEnds
CHECK_DEADLOCK FALSE
