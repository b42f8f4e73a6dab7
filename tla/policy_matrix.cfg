SPECIFICATION Spec
CONSTANTS
  Types <- AllTypes
  Policies <- AllPolicies
  GrantLists <- MCGrantLists
  Preapprovals <- MCPreapprovals
INVARIANTS
  GateMatchesRules
  
  NormalizingKeepsConsent
PROPERTIES
  TighteningNeverLoosens
CHECK_DEADLOCK FALSE
