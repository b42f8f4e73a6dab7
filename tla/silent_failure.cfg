SPECIFICATION Spec
CONSTANTS
  MaxPlan = 1
  Plans <- OneCall
  ExtensionTypes <- None
  Options <- PlainOptions
  Limits <- SilentLimits
INVARIANTS
  NeverSilent
CHECK_DEADLOCK FALSE
