SPECIFICATION Spec
CONSTANTS
  Runs = {r1, r2, r3}
  Names = {n1, n2}
  MaxPowerLosses = 1
INVARIANT NeverTorn
INVARIANT TempsRemoved
INVARIANT PinStable
CHECK_DEADLOCK FALSE
