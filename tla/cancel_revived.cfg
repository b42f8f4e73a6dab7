SPECIFICATION FairSpec
CONSTANTS
  MaxPlan = 1
  Plans <- OneCall
  ExtensionTypes <- None
  Options <- PlainOptions
  Limits <- StopLimits
PROPERTIES
  CancelledIsTerminal
CHECK_DEADLOCK FALSE
