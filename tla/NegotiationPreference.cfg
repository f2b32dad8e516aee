SPECIFICATION FairSpec
CONSTANTS
  None = None
  Settings <- MCSettings
INVARIANT PreferenceAgreed
