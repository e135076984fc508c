SPECIFICATION Spec
CONSTANTS
  Handlers = {h1, h2}
  Nonces = {n1, n2, n3}
  Names = {a}
  AllKeys = {k1, k2}
  Keys = {k1}
  maxSkew = 1
  Second = 2
  capacity = 2
  ClientTimes <- MCClientTimes
  Offsets <- MCOffsets
  MaxTime = 6
SYMMETRY Symmetric
INVARIANT TypeOK
INVARIANT CacheBounded
INVARIANT NoReplay
INVARIANT OnlyAcceptedCached
CHECK_DEADLOCK FALSE
