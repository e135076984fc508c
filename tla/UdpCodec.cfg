SPECIFICATION Spec
CONSTANTS
  Packets <- MCPackets
  Size <- MCSize
  Readers = {r1, r2}
  EncoderMax = 4
  DecoderMax = 4
  PayloadSize = 2
  MaxCount = 2
  MaxAssemblies = 1
  AssemblyTTL = 1
  MaxSeq = 1
  Stray <- NoFrames
  Duplicates = FALSE
  MaxTime = 2
INVARIANT NoSilentDrop
PROPERTY ImplementsService
CHECK_DEADLOCK FALSE
