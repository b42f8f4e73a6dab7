SPECIFICATION Spec
CONSTANTS
  MaxPlan = 1
  Plans <- OneFlaggedCall
  ExtensionTypes <- None
  Options <- PlainOptions
  Limits <- TrailLimits
INVARIANTS
  TrailShowsWhy
CHECK_DEADLOCK FALSE
