SPECIFICATION TunSpec
CONSTANTS
  AutoQUICTimeout = 1
  MaxElapsed = 2
INVARIANT TypeOK
INVARIANT OneHonestReply
INVARIANT NothingLeaked
INVARIANT LazyTCP
PROPERTY Answered
PROPERTY TornDown
PROPERTY OrphanReturns
CHECK_DEADLOCK FALSE
