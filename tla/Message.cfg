SPECIFICATION Spec
CONSTANTS
  v = v
  None = None
  NULL_NAMESPACE = NULL_NAMESPACE
  BARE_NS = BARE_NS
  OpenID1NS = "1.0"
  OpenID11NS = "1.1"
  OpenID2NS = "2.0"
  SREG = "sreg"
  SREG_URI = "sreg-uri"
  ProtocolFields = {"ns", "mode"}
  MaxExt = 2
  Namespace <- MCNamespace
  Aliases <- MCAliases
  Registered <- MCRegistered
  Ext <- MCExt
  Queries <- MCQueries
  UsedNamespaces <- MCUsedNamespaces
  UsedAliases <- MCUsedAliases
  Keys <- MCKeys
  Values <- MCValues
CHECK_DEADLOCK FALSE
INVARIANTS
  Bidirectional
  EveryArgHasKey
  PassedOn
  ClashNeedsUndeclared
PROPERTIES
  AliasesStay
