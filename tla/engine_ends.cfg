SPECIFICATION FairSpec
CONSTANTS
  MaxPlan = 3
  Plans <- EndingPlans
  ExtensionTypes <- Growth
  Options <- EndingOptions
  Limits <- EndingLimits
INVARIANTS
  NeverSilent
  CompletedMeansDone
  UserStopHeld
PROPERTIES
  DriveEnds
CHECK_DEADLOCK FALSE
