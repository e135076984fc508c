SPECIFICATION Spec
CONSTANTS
  Requests = {r1, r2, r3}
  IPs <- MCIPs
  MaxConcurrent = 1
INVARIANT TypeOK
INVARIANT TargetsVetted
PROPERTY ImplementsSlots
PROPERTY AlwaysAnswered
PROPERTY TunnelEnds
CHECK_DEADLOCK FALSE
