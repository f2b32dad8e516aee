SPECIFICATION MemcacheSpec
CONSTANTS
  p1 = p1
  p2 = p2
  early = early
  late = late
  Proc <- MCProc
  Nonces <- MCNonces
  Stamp <- MCStamp
  Skew = 2
  Pad = 3
  Ahead = 1
  MaxStall = 1
  MaxTime = 8
INVARIANTS
  AtMostOnce
PROPERTY MemcacheImplementsNonceStore
CHECK_DEADLOCK FALSE
