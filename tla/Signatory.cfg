SPECIFICATION Spec
CONSTANTS
  w1 = w1
  w2 = w2
  h1 = h1
  h2 = h2
  Worker <- MCWorker
  Handles <- MCHandles
  Foreign = {}
  None = None
  Lifetime = 1
  Hides = {FALSE, TRUE}
  MaxTime = 2
SYMMETRY Symmetry
INVARIANTS
  ConfirmedWasDumb
  ReportedStaysDead
  FirstCheckSucceeds
  ConfirmedTwiceOnlyByRace
  
