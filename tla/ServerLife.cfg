SPECIFICATION Spec
CONSTANTS
  Callers = {owner}
  Requests = {q1}
  maxDecoyBody = 1
INVARIANT TypeOK
INVARIANT StartAllOrNothing
INVARIANT CloseComplete
INVARIANT ResponseWhole
PROPERTY EverythingEnds
CHECK_DEADLOCK FALSE
