SPECIFICATION Spec
CONSTANTS
  Packets <- MCTwoPackets
  Size <- MCSize
  Readers = {r1, r2}
  EncoderMax = 4
  DecoderMax = 3
  PayloadSize = 2
  MaxCount = 3
  MaxAssemblies = 2
  AssemblyTTL = 1
  MaxSeq = 3
  Stray <- MCStray
  Duplicates = TRUE
  MaxTime = 2
VIEW DecoderView
CONSTRAINT FewDelivered
INVARIANT Integrity
INVARIANT DecoderBounded
CHECK_DEADLOCK FALSE
