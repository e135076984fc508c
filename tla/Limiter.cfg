SPECIFICATION Spec
CONSTANTS
  Requests = {r1, r2, r3}
  IPs = {a, b}
  MaxConcurrent = 2
  PerIPBurst = 2
  PerIPWindow = 3
  MaxTrackedIPs = 1
  MaxTime = 4
SYMMETRY Symmetric
INVARIANT TypeOK
INVARIANT RateBound
PROPERTY ImplementsSlots
PROPERTY NoDoubleRefill
