SPECIFICATION FileFairSpec
CONSTANTS
  p1 = p1
  p2 = p2
  early = early
  late = late
  Proc <- MCProc
  Nonces <- MCNonces
  Stamp <- MCStamp
  Cleaner = p1
  Skew = 1
  MaxStall = 1
  MaxTime = 5
INVARIANT
  RememberedWhileCurrent
PROPERTIES
  OnceWhileCurrent
  FileImplementsNonceStore
  OutdatedReclaimed
