SPECIFICATION Spec
CONSTANTS
  Opener = client
  Other = server
  MaxPadding = 1
  InitialFrames = 1
  InitialMax = 1
  MaxFrame = 2
  Capacity = 2
  OpenerBytes = 3
  OtherBytes = 1
INVARIANT KeepAliveWhenIdle
CHECK_DEADLOCK FALSE
