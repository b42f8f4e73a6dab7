SPECIFICATION Spec
CONSTANTS
  MaxPlan = 2
  Plans <- RecoveryPlans
  ExtensionTypes <- Growth
  Options <- RecoveryOptions
  Limits <- RecoveryLimits
INVARIANTS
  TypeOK
  EntryJustified
  EntryWarranted
  StopsOnlyForWork
  EntryAtMostOnce
  AuthoritativeOutcome
  ReportsAreOwed
  StreamComplete
  EndIsReported
PROPERTIES
  KeepsPromise
  PassesMakeProgress
CHECK_DEADLOCK FALSE
