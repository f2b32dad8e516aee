SPECIFICATION Spec
CONSTANTS
  p1 = p1
  p2 = p2
  a1 = a1
  a2 = a2
  b = b
  h1 = h1
  h2 = h2
  Proc <- MCProc
  Assocs <- MCAssocs
  Handles <- MCHandles
  Handle <- MCHandle
  Kinds <- MCKinds
  Bare = Bare
  None = None
  Lifetime = 2
  MaxTime = 2
SYMMETRY MCSymmetry
CHECK_DEADLOCK FALSE
INVARIANTS
  HonestAnswer
  NewestReturned
  RemovedGone
  LastOffered
PROPERTIES
  ImplementsAssocStore
