SPECIFICATION Spec
CONSTANTS
  MAX_STEPS = 2
  UnknownTypes = {"unheard_of"}
  GrantLists <- EveryGrantList
  RawPlans <- MCRawPlans
  MaxTries = 1
INVARIANTS
  RepairOnlyWidens
  AcceptedIsWhatWasWritten
  OffersOnlyRunnable
CHECK_DEADLOCK FALSE
