SPECIFICATION TunSpec
CONSTANTS
  AutoQUICTimeout = 1
  MaxElapsed = 2
INVARIANT WithinBudget
CHECK_DEADLOCK FALSE
