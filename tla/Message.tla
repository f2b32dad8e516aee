------------------------------ MODULE Message ------------------------------
(***************************************************************************)
(* OpenID::Message and its NamespaceMap: the arguments of an OpenID        *)
(* message under namespace URIs, and the aliases the URIs go by on the     *)
(* wire.  A message is made by Message.new or from_post_args, extended by  *)
(* the caller and by extensions, and written by to_post_args.              *)
(*                                                                         *)
(* A wire key is the sequence of its dot-separated segments, so that       *)
(* split(".", 2) is Head and Tail: "openid.ext0.foo" is                    *)
(* <<"openid", "ext0", "foo">>.  An argument's key within its namespace is *)
(* such a sequence too.  A call that raises leaves the message alone and   *)
(* is no step.                                                             *)
(*                                                                         *)
(* Bounds: MaxExt is the last number the search for a free ext<i> tries.   *)
(***************************************************************************)
EXTENDS Integers, Sequences, FiniteSets

CONSTANTS
  Namespace,                          \* namespace URIs
  OpenID1NS, OpenID11NS, OpenID2NS,
  NULL_NAMESPACE,                     \* the alias of the OpenID namespace
  BARE_NS,                            \* holds what is not prefixed by "openid."
  SREG, SREG_URI,                     \* the URI "sreg", and the one it stands for
  Aliases,                            \* segments that may serve as aliases
  ProtocolFields,                     \* OPENID_PROTOCOL_FIELDS
  Registered,                         \* @@registered_aliases, alias to URI
  Ext,                                \* Ext[i]: the alias "ext<i>"
  MaxExt,
  Queries,                            \* what from_post_args is given
  UsedNamespaces, UsedAliases,        \* what callers and extensions add
  Keys, Values,                       \* what set_arg is given
  None

OpenID1Namespaces == {OpenID1NS, OpenID11NS}
AllowedNamespaces == OpenID1Namespaces \union {OpenID2NS}

ASSUME MessageAssumption ==
  /\ AllowedNamespaces \subseteq Namespace
  /\ OpenID2NS \notin OpenID1Namespaces
  /\ None \notin Namespace
  /\ BARE_NS \notin Namespace
  /\ NULL_NAMESPACE \notin Aliases \union ProtocolFields
  /\ DOMAIN Registered \subseteq Aliases \ ProtocolFields
  /\ \A a \in DOMAIN Registered : Registered[a] \in Namespace \ AllowedNamespaces
  /\ UsedNamespaces \subseteq Namespace
  /\ UsedAliases \subseteq Aliases
  /\ SREG_URI \in Namespace \ AllowedNamespaces
  /\ SREG \notin AllowedNamespaces \union {SREG_URI, BARE_NS, None}
  /\ MaxExt \in Nat
  /\ Ext \in [0..MaxExt -> Aliases \ (ProtocolFields \union DOMAIN Registered)]

VARIABLES
  alias_to_namespace,
  namespace_to_alias,
  implicit_namespaces,
  openid_ns,          \* @openid_ns_uri, or None
  args,               \* args[<<namespace, key>>]
  query               \* the query it was made from and still says, or None

vars == <<alias_to_namespace, namespace_to_alias, implicit_namespaces, openid_ns, args, query>>
mapVars == <<alias_to_namespace, namespace_to_alias, implicit_namespaces>>

With(f, x, y) == [z \in DOMAIN f \union {x} |-> IF z = x THEN y ELSE f[z]]

Inverts(f, g) ==
  /\ \A x \in DOMAIN f : f[x] \in DOMAIN g /\ g[f[x]] = x
  /\ \A y \in DOMAIN g : g[y] \in DOMAIN f /\ f[g[y]] = y

\* _fix_ns
FixNs(namespace) == IF namespace = SREG THEN SREG_URI ELSE namespace

\* Mutants: add_alias forgets one of its two checks.
MayAliasTaken(ns, a) ==
  /\ a \notin ProtocolFields
  /\ ns \in DOMAIN namespace_to_alias => namespace_to_alias[ns] = a

MayAliasTwice(ns, a) ==
  /\ a \notin ProtocolFields
  /\ a \in DOMAIN alias_to_namespace => alias_to_namespace[a] = ns

(***************************************************************************)
(* NamespaceMap#add_alias and #add.                                        *)
(***************************************************************************)
MayAlias(ns, a) ==
  /\ a \notin ProtocolFields
  /\ a \in DOMAIN alias_to_namespace => alias_to_namespace[a] = ns
  /\ ns \in DOMAIN namespace_to_alias => namespace_to_alias[ns] = a

MapAlias(ns, a, implicit) ==
  /\ MayAlias(ns, a)
  /\ alias_to_namespace' = With(alias_to_namespace, a, ns)
  /\ namespace_to_alias' = With(namespace_to_alias, ns, a)
  /\ implicit_namespaces' =
       IF implicit THEN implicit_namespaces \union {ns} ELSE implicit_namespaces

\* An alias of its own stays; otherwise the first ext<i> that is free.
AddNamespace(ns) ==
  \/ /\ ns \in DOMAIN namespace_to_alias
     /\ UNCHANGED mapVars
  \/ /\ ns \notin DOMAIN namespace_to_alias
     /\ \E i \in 0..MaxExt :
          /\ \A j \in 0..(i - 1) : ~MayAlias(ns, Ext[j])
          /\ MapAlias(ns, Ext[i], FALSE)

(***************************************************************************)
(* Message.from_post_args: where each pair of the query goes, and what     *)
(* aliases there are in the end.                                           *)
(***************************************************************************)
NsKey == <<"openid", "ns">>
IsOpenID(k) == Len(k) > 1 /\ k[1] = "openid"
Declarations(q) == {k \in DOMAIN q : IsOpenID(k) /\ k[2] = "ns" /\ Len(k) > 2}
ArgKeys(q) == DOMAIN q \ (Declarations(q) \union {NsKey})

QueryNS(q) == IF NsKey \in DOMAIN q THEN q[NsKey] ELSE OpenID1NS
Explicit(q) == {k[3] : k \in Declarations(q)}

\* _get_default_namespace, for the aliases in use that nothing declares.
Default(q) ==
  {a \in DOMAIN Registered \ Explicit(q) :
     /\ QueryNS(q) \in OpenID1Namespaces
     /\ \E k \in ArgKeys(q) : IsOpenID(k) /\ Len(k) > 2 /\ k[2] = a}

AliasMap(q) ==
  [a \in Explicit(q) \union Default(q) \union {NULL_NAMESPACE} |->
     IF a = NULL_NAMESPACE THEN QueryNS(q)
     ELSE IF a \in Explicit(q) THEN q[<<"openid", "ns", a>>] ELSE Registered[a]]

\* The arguments of a namespace declared as "sreg": set_arg moves them to
\* SREG_URI, and gives that an alias of its own if it has none.
Renamed(q) ==
  {k \in ArgKeys(q) :
     IsOpenID(k) /\ Len(k) > 2 /\ k[2] \in DOMAIN AliasMap(q) /\ AliasMap(q)[k[2]] = SREG}

NeedsAlias(q) ==
  Renamed(q) # {} /\ \A a \in DOMAIN AliasMap(q) : AliasMap(q)[a] # SREG_URI

FreeExts(q) ==
  {i \in 0..MaxExt : /\ Ext[i] \notin DOMAIN AliasMap(q)
                     /\ \A j \in 0..(i - 1) : Ext[j] \in DOMAIN AliasMap(q)}

ParsedMap(q) ==
  IF NeedsAlias(q)
    THEN With(AliasMap(q), Ext[CHOOSE i \in FreeExts(q) : TRUE], SREG_URI)
    ELSE AliasMap(q)

\* Everything add_alias and set_openid_namespace refuse makes it raise.
Parses(q) ==
  LET m == AliasMap(q) IN
  /\ NeedsAlias(q) => FreeExts(q) # {}
  /\ QueryNS(q) \in AllowedNamespaces
  /\ \A k \in Declarations(q) : Len(k) = 3 /\ k[3] \notin ProtocolFields
  /\ \A a, b \in DOMAIN m : m[a] = m[b] => a = b

\* What a message that parses declares is an alias of a namespace.
ASSUME QueriesAssumption ==
  \A q \in Queries : Parses(q) =>
    \A a \in Explicit(q) : a \in Aliases /\ q[<<"openid", "ns", a>>] \in Namespace

\* Keys come in segments, which an alias is and the null alias, a symbol, is not.
\* BARE_NS is for arguments without the prefix "openid.", and gets no other.
ASSUME KeysAssumption ==
  /\ Aliases \subseteq STRING
  /\ NULL_NAMESPACE \notin STRING
  /\ \A q \in Queries : DOMAIN q \subseteq Seq(STRING) \ {<<>>}
  /\ Keys \subseteq Seq(STRING) \ {<<>>}
  /\ \A k \in Keys : ~IsOpenID(k)

\* Mutant: the undeclared alias is dropped from the key.
PlaceUnprefixed(q, m, k) ==
  IF ~IsOpenID(k) THEN <<BARE_NS, k>>
  ELSE IF Len(k) > 2 /\ k[2] \in DOMAIN m
         THEN <<FixNs(m[k[2]]), Tail(Tail(k))>>
         ELSE <<QueryNS(q), <<k[Len(k)]>>>>

\* Where a pair goes when its alias is looked up in m.
Place(q, m, k) ==
  IF ~IsOpenID(k) THEN <<BARE_NS, k>>
  ELSE IF Len(k) > 2 /\ k[2] \in DOMAIN m
         THEN <<FixNs(m[k[2]]), Tail(Tail(k))>>
         ELSE <<QueryNS(q), Tail(k)>>

\* The orders in which the pairs may come: those in which none raises
\* because SREG_URI has got its alias before its default one was used.
Orders(q) ==
  {order \in [ArgKeys(q) -> 1..Cardinality(ArgKeys(q))] :
     /\ \A k, l \in ArgKeys(q) : order[k] = order[l] => k = l
     /\ \A a \in Default(q), l \in Renamed(q) : Registered[a] = SREG_URI =>
          \E k \in ArgKeys(q) : IsOpenID(k) /\ Len(k) > 2 /\ k[2] = a /\ order[k] < order[l]}

\* A pair that comes after the first renamed one finds the new alias too.
PlaceIn(q, order, k) ==
  Place(q, IF \E l \in Renamed(q) : order[l] < order[k] THEN ParsedMap(q) ELSE AliasMap(q), k)

\* Of several pairs that go to the same place the last one stays.
Placed(q, order) ==
  [x \in {PlaceIn(q, order, k) : k \in ArgKeys(q)} |->
     q[CHOOSE k \in ArgKeys(q) :
         /\ PlaceIn(q, order, k) = x
         /\ \A l \in ArgKeys(q) : PlaceIn(q, order, l) = x => order[l] <= order[k]]]

FromPostArgs(q) ==
  /\ Parses(q)
  /\ alias_to_namespace = ParsedMap(q)
  /\ namespace_to_alias =
       [ns \in {ParsedMap(q)[a] : a \in DOMAIN ParsedMap(q)} |->
          CHOOSE a \in DOMAIN ParsedMap(q) : ParsedMap(q)[a] = ns]
  /\ implicit_namespaces =
       {Registered[a] : a \in Default(q)} \union
       (IF NsKey \in DOMAIN q THEN {} ELSE {OpenID1NS})
  /\ openid_ns = QueryNS(q)
  /\ \E order \in Orders(q) : args = Placed(q, order)
  /\ query = q

\* Message.new, with or without a namespace.
New(ns) ==
  LET given == {n \in {ns} : n # None} IN
  /\ alias_to_namespace = [a \in {NULL_NAMESPACE : n \in given} |-> ns]
  /\ namespace_to_alias = [n \in given |-> NULL_NAMESPACE]
  /\ implicit_namespaces = given \intersect OpenID1Namespaces
  /\ openid_ns = ns
  /\ args = [x \in {} |-> None]
  /\ query = None

Init ==
  \/ \E ns \in AllowedNamespaces \union {None} : New(ns)
  \/ \E q \in Queries : FromPostArgs(q)

(***************************************************************************)
(* What callers and extensions do to a message.                            *)
(***************************************************************************)
SetOpenIDNamespace(ns, implicit) ==
  /\ MapAlias(ns, NULL_NAMESPACE, implicit)
  /\ openid_ns' = ns
  /\ query' = None
  /\ UNCHANGED args

AddAlias(ns, a, implicit) ==
  /\ MapAlias(ns, a, implicit)
  /\ query' = None
  /\ UNCHANGED <<openid_ns, args>>

\* Mutant: the namespace gets no alias.
SetArgNoAlias(namespace, key, value) ==
  /\ args' = With(args, <<FixNs(namespace), key>>, value)
  /\ UNCHANGED mapVars
  /\ query' = None
  /\ UNCHANGED openid_ns

\* The pair is stored first, then the namespace gets its alias.
SetArg(namespace, key, value) ==
  LET ns == FixNs(namespace) IN
  /\ args' = With(args, <<ns, key>>, value)
  /\ IF ns = BARE_NS THEN UNCHANGED mapVars ELSE AddNamespace(ns)
  /\ query' = None
  /\ UNCHANGED openid_ns

DelArg(x) ==
  /\ x \in DOMAIN args
  /\ args' = [y \in DOMAIN args \ {x} |-> args[y]]
  /\ query' = None
  /\ UNCHANGED <<alias_to_namespace, namespace_to_alias, implicit_namespaces, openid_ns>>

Next ==
  \/ \E ns \in AllowedNamespaces, b \in BOOLEAN : SetOpenIDNamespace(ns, b)
  \/ \E ns \in UsedNamespaces, a \in UsedAliases, b \in BOOLEAN : AddAlias(ns, a, b)
  \/ \E ns \in (UsedNamespaces \union {openid_ns, BARE_NS}) \ {None}, key \in Keys, v \in Values :
       SetArg(ns, key, v)
  \/ \E x \in DOMAIN args : DelArg(x)

Spec == Init /\ [][Next]_vars

(***************************************************************************)
(* to_post_args, as the pairs it writes one after the other.               *)
(***************************************************************************)
\* get_key
WireKey(x) ==
  IF x[1] = BARE_NS THEN x[2]
  ELSE IF namespace_to_alias[x[1]] = NULL_NAMESPACE THEN <<"openid">> \o x[2]
  ELSE <<"openid", namespace_to_alias[x[1]]>> \o x[2]

DeclarationKey(ns) ==
  IF namespace_to_alias[ns] = NULL_NAMESPACE THEN NsKey
  ELSE Append(NsKey, namespace_to_alias[ns])

ToPostArgs ==
  {<<DeclarationKey(ns), ns>> : ns \in DOMAIN namespace_to_alias \ implicit_namespaces}
  \union {<<WireKey(x), args[x]>> : x \in DOMAIN args}

-----------------------------------------------------------------------------
TypeOK ==
  /\ DOMAIN alias_to_namespace \subseteq Aliases \union {NULL_NAMESPACE}
  /\ DOMAIN namespace_to_alias \subseteq Namespace
  /\ implicit_namespaces \subseteq DOMAIN namespace_to_alias
  /\ openid_ns \in AllowedNamespaces \union {None}
  /\ \A x \in DOMAIN args : x[1] \in Namespace \union {BARE_NS}

\* The two hashes of NamespaceMap ("a bidirectional map", message.rb) stay
\* each other's inverse, whatever is added and in whatever order.
Bidirectional == Inverts(alias_to_namespace, namespace_to_alias)

\* An argument always has a wire key: the namespace of every argument that
\* is not bare has an alias, which is no protocol field, and the OpenID
\* namespace has the null alias.
EveryArgHasKey ==
  /\ \A x \in DOMAIN args : x[1] = BARE_NS \/ x[1] \in DOMAIN namespace_to_alias
  /\ \A ns \in DOMAIN namespace_to_alias : namespace_to_alias[ns] \notin ProtocolFields
  /\ openid_ns # None <=> NULL_NAMESPACE \in DOMAIN alias_to_namespace
  /\ openid_ns # None => alias_to_namespace[NULL_NAMESPACE] = openid_ns

\* An alias that was given is never taken away or given to another URI.
AliasesStay ==
  [][/\ \A a \in DOMAIN alias_to_namespace :
          a \in DOMAIN alias_to_namespace' /\ alias_to_namespace'[a] = alias_to_namespace[a]
     /\ \A ns \in DOMAIN namespace_to_alias :
          ns \in DOMAIN namespace_to_alias' /\ namespace_to_alias'[ns] = namespace_to_alias[ns]]_vars

\* A message that was received and not changed is passed on as it came:
\* to_post_args gives back the very query, unless it has arguments in a
\* namespace declared as "sreg", which _fix_ns moves to the URI of sreg.
PassedOn ==
  query # None /\ Renamed(query) = {} => ToPostArgs = {<<k, query[k]>> : k \in DOMAIN query}

\* Two arguments share a wire key only if one of them came in under an
\* alias nobody had declared, which was given to a namespace later (by
\* from_post_args itself, perhaps, when it made up one for SREG_URI).
ClashNeedsUndeclared ==
  \A x, y \in DOMAIN args : x # y /\ WireKey(x) = WireKey(y) =>
    \E u \in {x, y} : u[1] = openid_ns /\ Len(u[2]) > 1 /\ u[2][1] \in DOMAIN alias_to_namespace
=============================================================================
