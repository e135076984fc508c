SPECIFICATION Spec
CONSTANTS
  Sessions = {s1}
  MaxSessions = 1
  MaxPackets = 1
INVARIANT SlotsBoundSockets
INVARIANT AssociationHonest
PROPERTY SessionEnds
PROPERTY ReadReturns
CHECK_DEADLOCK FALSE
