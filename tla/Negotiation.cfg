SPECIFICATION FairSpec
CONSTANTS
  None = None
  Settings <- MCSettings
INVARIANTS
  PairAgreed
  FirstChoiceHonoured
  SessionAsAsked
PROPERTY Terminates
