SPECIFICATION Spec
CONSTANTS
  Types <- MCTypes
  Policies <- MCPolicies
  Lists <- MCLists
  Budgets = {0, 1}
INVARIANTS
  RemoteNeverLooser

  
CHECK_DEADLOCK FALSE
