SPECIFICATION MemcacheSpec
CONSTANTS
  p1 = p1
  p2 = p2
  early = early
  late = late
  Proc <- MCProc
  Nonces <- MCNonces
  Stamp <- MCStamp
  Skew = 2
  Pad = 2
  Ahead = 2
  MaxStall = 0
  MaxTime = 8
INVARIANT AtMostOnce
CHECK_DEADLOCK FALSE
