SPECIFICATION Spec
CONSTANTS
  alice = alice
  bob = bob
  Names <- MCNames
  Local <- MCLocal
  Realms <- MCRealms
  ReturnTos <- MCReturnTos
  Apps <- MCApps
  Foreign <- MCForeign
  Select = Select
  Blank = Blank
  None = None
  MaxHops = 1
CHECK_DEADLOCK FALSE
INVARIANTS
  UnderstoodAsMeant
  FailureHasCause
  RealmRespected
  SetupAsksTheSame
  IdentifierAsRequested
