SPECIFICATION Spec
CONSTANTS
  MaxPlan = 1
  Plans <- OneCall
  ExtensionTypes <- None
  Options <- PlainOptions
  Limits <- StopLimits
INVARIANTS
  UserStopFinal
CHECK_DEADLOCK FALSE
