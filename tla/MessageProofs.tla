--------------------------- MODULE MessageProofs ---------------------------
(***************************************************************************)
(* Proofs about Message, for every set of namespaces, aliases and queries, *)
(* and whatever callers and extensions do to a message.                    *)
(*                                                                         *)
(* IInv is inductive: Bidirectional and EveryArgHasKey carry each other    *)
(* from step to step, and nothing else is needed.  Every operation         *)
(* touches the two hashes through MapAlias or not at all, so the lemmas    *)
(* about MapAlias do the work.  AsReceived, what a message passed on still *)
(* is, and ArgsFormed, of what form the arguments' keys are, are invariants*)
(* on their own.                                                           *)
(***************************************************************************)
EXTENDS Message, SequenceTheorems, TLAPS

IInv == Bidirectional /\ EveryArgHasKey

\* No key or URI loses what the two hashes say of it.
Stays ==
  /\ \A a \in DOMAIN alias_to_namespace :
        a \in DOMAIN alias_to_namespace' /\ alias_to_namespace'[a] = alias_to_namespace[a]
  /\ \A ns \in DOMAIN namespace_to_alias :
        ns \in DOMAIN namespace_to_alias' /\ namespace_to_alias'[ns] = namespace_to_alias[ns]

-----------------------------------------------------------------------------
(* add_alias *)

\* Adding a pair that add_alias allows to two inverse hashes leaves them
\* inverse (NamespaceMap#add_alias).
LEMMA WithInverts ==
  ASSUME NEW f, NEW g, NEW a, NEW ns,
         Inverts(f, g),
         a \in DOMAIN f => f[a] = ns,
         ns \in DOMAIN g => g[ns] = a
  PROVE  Inverts(With(f, a, ns), With(g, ns, a))
<1> DEFINE ff == With(f, a, ns)
           gg == With(g, ns, a)
<1>1. /\ DOMAIN ff = DOMAIN f \union {a}
      /\ DOMAIN gg = DOMAIN g \union {ns}
  BY DEF With
<1>2. /\ ff[a] = ns
      /\ gg[ns] = a
  BY DEF With
<1>3. ASSUME NEW x \in DOMAIN ff PROVE ff[x] \in DOMAIN gg /\ gg[ff[x]] = x
  <2>1. CASE x = a
    BY <2>1, <1>1, <1>2
  <2>2. CASE x # a
    <3>1. x \in DOMAIN f /\ ff[x] = f[x]
      BY <2>2, <1>1 DEF With
    <3>2. f[x] \in DOMAIN g /\ g[f[x]] = x
      BY <3>1 DEF Inverts
    <3>3. f[x] # ns
      BY <3>2, <2>2
    <3> QED BY <3>1, <3>2, <3>3, <1>1 DEF With
  <2> QED BY <2>1, <2>2
<1>4. ASSUME NEW y \in DOMAIN gg PROVE gg[y] \in DOMAIN ff /\ ff[gg[y]] = y
  <2>1. CASE y = ns
    BY <2>1, <1>1, <1>2
  <2>2. CASE y # ns
    <3>1. y \in DOMAIN g /\ gg[y] = g[y]
      BY <2>2, <1>1 DEF With
    <3>2. g[y] \in DOMAIN f /\ f[g[y]] = y
      BY <3>1 DEF Inverts
    <3>3. g[y] # a
      BY <3>2, <2>2
    <3> QED BY <3>1, <3>2, <3>3, <1>1 DEF With
  <2> QED BY <2>1, <2>2
<1> HIDE DEF ff, gg
<1>5. Inverts(ff, gg)
  BY <1>3, <1>4 DEF Inverts
<1> QED BY <1>5 DEF ff, gg

\* What add_alias does to the two hashes.
LEMMA MapAliasFacts ==
  ASSUME NEW ns, NEW a, NEW implicit, MapAlias(ns, a, implicit)
  PROVE  /\ a \notin ProtocolFields
         /\ DOMAIN alias_to_namespace' = DOMAIN alias_to_namespace \union {a}
         /\ DOMAIN namespace_to_alias' = DOMAIN namespace_to_alias \union {ns}
         /\ alias_to_namespace'[a] = ns
         /\ namespace_to_alias'[ns] = a
         /\ Stays
         /\ Bidirectional => Bidirectional'
<1>1. a \notin ProtocolFields
  BY DEF MapAlias, MayAlias
<1>2. /\ DOMAIN alias_to_namespace' = DOMAIN alias_to_namespace \union {a}
      /\ DOMAIN namespace_to_alias' = DOMAIN namespace_to_alias \union {ns}
      /\ alias_to_namespace'[a] = ns
      /\ namespace_to_alias'[ns] = a
  BY DEF MapAlias, With
<1>3. Stays
  BY <1>2 DEF MapAlias, MayAlias, With, Stays
<1>4. ASSUME Bidirectional PROVE Bidirectional'
  BY <1>4, WithInverts DEF MapAlias, MayAlias, Bidirectional
<1> QED BY <1>1, <1>2, <1>3, <1>4

\* A message's OpenID namespace and its null alias name each other, and no
\* alias is a protocol field: the part of EveryArgHasKey about the hashes.
KeysSound ==
  /\ \A ns \in DOMAIN namespace_to_alias : namespace_to_alias[ns] \notin ProtocolFields
  /\ openid_ns # None <=> NULL_NAMESPACE \in DOMAIN alias_to_namespace
  /\ openid_ns # None => alias_to_namespace[NULL_NAMESPACE] = openid_ns

\* An alias that is not the null one, given while the OpenID namespace
\* stays, keeps the hashes sound (add_alias, add).
LEMMA OtherAlias ==
  ASSUME NEW ns, NEW a \in Aliases, NEW implicit, MapAlias(ns, a, implicit),
         IInv, UNCHANGED openid_ns
  PROVE  Bidirectional' /\ KeysSound' /\ Stays
<1>1. a # NULL_NAMESPACE
  BY MessageAssumption
<1>2. Bidirectional' /\ Stays
  BY MapAliasFacts DEF IInv
<1>3. \A n \in DOMAIN namespace_to_alias' : namespace_to_alias'[n] \notin ProtocolFields
  <2>1. /\ a \notin ProtocolFields
        /\ DOMAIN namespace_to_alias' = DOMAIN namespace_to_alias \union {ns}
        /\ namespace_to_alias'[ns] = a
    BY MapAliasFacts
  <2> QED BY <2>1, <1>2 DEF IInv, EveryArgHasKey, Stays
<1>4. NULL_NAMESPACE \in DOMAIN alias_to_namespace' <=> NULL_NAMESPACE \in DOMAIN alias_to_namespace
  <2>1. DOMAIN alias_to_namespace' = DOMAIN alias_to_namespace \union {a}
    BY MapAliasFacts
  <2> QED BY <2>1, <1>1
<1>5. openid_ns # None => alias_to_namespace'[NULL_NAMESPACE] = openid_ns
  BY <1>2 DEF IInv, EveryArgHasKey, Stays
<1>6. openid_ns' # None <=> NULL_NAMESPACE \in DOMAIN alias_to_namespace'
  BY <1>4 DEF IInv, EveryArgHasKey
<1> QED BY <1>2, <1>3, <1>5, <1>6 DEF KeysSound

\* NamespaceMap#add gives the namespace an alias and spoils nothing.
LEMMA AddNamespaceFacts ==
  ASSUME NEW ns, AddNamespace(ns), IInv, UNCHANGED openid_ns
  PROVE  ns \in DOMAIN namespace_to_alias' /\ Bidirectional' /\ KeysSound' /\ Stays
<1>1. CASE ns \in DOMAIN namespace_to_alias /\ UNCHANGED mapVars
  BY <1>1 DEF mapVars, IInv, Bidirectional, EveryArgHasKey, KeysSound, Stays
<1>2. CASE \E i \in 0..MaxExt : MapAlias(ns, Ext[i], FALSE)
  <2>1. PICK i \in 0..MaxExt : MapAlias(ns, Ext[i], FALSE)
    BY <1>2
  <2>2. Ext[i] \in Aliases
    BY MessageAssumption
  <2>3. Bidirectional' /\ KeysSound' /\ Stays
    BY <2>1, <2>2, OtherAlias
  <2>4. DOMAIN namespace_to_alias' = DOMAIN namespace_to_alias \union {ns}
    BY <2>1, MapAliasFacts
  <2> QED BY <2>3, <2>4
<1> QED BY <1>1, <1>2 DEF AddNamespace

-----------------------------------------------------------------------------
(* The initial messages *)

\* Message.new.
LEMMA NewSound ==
  ASSUME NEW ns \in AllowedNamespaces \union {None}, New(ns)
  PROVE  IInv
<1>1. CASE ns = None
  <2>1. alias_to_namespace = [a \in {} |-> ns] /\ namespace_to_alias = [n \in {} |-> NULL_NAMESPACE]
    <3>1. {n \in {ns} : n # None} = {}
      BY <1>1
    <3>2. {NULL_NAMESPACE : n \in {}} = {}
      OBVIOUS
    <3> QED BY <3>1, <3>2 DEF New
  <2> QED BY <1>1, <2>1 DEF New, IInv, Bidirectional, Inverts, EveryArgHasKey
<1>2. CASE ns # None
  <2>1. {n \in {ns} : n # None} = {ns} /\ {NULL_NAMESPACE : n \in {ns}} = {NULL_NAMESPACE}
    BY <1>2
  <2>2. /\ alias_to_namespace = [a \in {NULL_NAMESPACE} |-> ns]
        /\ namespace_to_alias = [n \in {ns} |-> NULL_NAMESPACE]
    BY <2>1 DEF New
  <2> QED BY <1>2, <2>2, MessageAssumption DEF New, IInv, Bidirectional, Inverts, EveryArgHasKey
<1> QED BY <1>1, <1>2

\* The aliases from_post_args leaves: those of the query, and one for
\* SREG_URI if an argument moved there and it had none.
LEMMA ParsedMapFacts ==
  ASSUME NEW q, Parses(q)
  PROVE  /\ DOMAIN AliasMap(q) \subseteq DOMAIN ParsedMap(q)
         /\ \A a \in DOMAIN AliasMap(q) : ParsedMap(q)[a] = AliasMap(q)[a]
         /\ \A a \in DOMAIN ParsedMap(q) \ DOMAIN AliasMap(q) :
               a \in Aliases \ ProtocolFields /\ ParsedMap(q)[a] = SREG_URI
         /\ \A a, b \in DOMAIN ParsedMap(q) : ParsedMap(q)[a] = ParsedMap(q)[b] => a = b
         /\ Renamed(q) = {} => ParsedMap(q) = AliasMap(q)
         /\ Renamed(q) # {} => \E a \in DOMAIN ParsedMap(q) : ParsedMap(q)[a] = SREG_URI
<1> DEFINE m == AliasMap(q)
           p == ParsedMap(q)
           e == Ext[CHOOSE i \in FreeExts(q) : TRUE]
<1>1. \A a, b \in DOMAIN m : m[a] = m[b] => a = b
  BY DEF Parses
<1>2. CASE ~NeedsAlias(q)
  <2>1. p = m
    BY <1>2 DEF ParsedMap
  <2> HIDE DEF m, p
  <2> QED BY <1>1, <1>2, <2>1 DEF NeedsAlias, m, p
<1>3. CASE NeedsAlias(q)
  <2>1. p = With(m, e, SREG_URI)
    BY <1>3 DEF ParsedMap
  <2>2. e \in Aliases \ ProtocolFields /\ e \notin DOMAIN m
    <3>1. FreeExts(q) # {}
      BY <1>3 DEF Parses
    <3>2. PICK i \in FreeExts(q) : e = Ext[i]
      BY <3>1
    <3> QED BY <3>2, MessageAssumption DEF FreeExts
  <2>3. Renamed(q) # {} /\ \A a \in DOMAIN m : m[a] # SREG_URI
    BY <1>3 DEF NeedsAlias
  <2> HIDE DEF m, p, e
  <2>4. /\ DOMAIN p = DOMAIN m \union {e} /\ p[e] = SREG_URI
        /\ \A a \in DOMAIN m : p[a] = m[a]
    BY <2>1, <2>2 DEF With
  <2>5. \A a, b \in DOMAIN p : p[a] = p[b] => a = b
    BY <1>1, <2>3, <2>4
  <2>6. \A a \in DOMAIN p \ DOMAIN m : a \in Aliases \ ProtocolFields /\ p[a] = SREG_URI
    BY <2>2, <2>4
  <2> QED BY <2>3, <2>4, <2>5, <2>6 DEF m, p
<1> QED BY <1>2, <1>3

\* Where from_post_args puts an argument: bare, in a namespace that has an
\* alias, or in the OpenID namespace.
LEMMA PlacedWhere ==
  ASSUME NEW q, Parses(q), NEW order \in Orders(q), NEW k \in ArgKeys(q)
  PROVE  \/ ~IsOpenID(k) /\ PlaceIn(q, order, k) = <<BARE_NS, k>>
         \/ /\ IsOpenID(k) /\ Len(k) > 2
            /\ \E a \in DOMAIN ParsedMap(q) :
                 PlaceIn(q, order, k) = <<ParsedMap(q)[a], Tail(Tail(k))>>
         \/ IsOpenID(k) /\ PlaceIn(q, order, k) = <<QueryNS(q), Tail(k)>>
<1> DEFINE m == IF \E l \in Renamed(q) : order[l] < order[k] THEN ParsedMap(q) ELSE AliasMap(q)
<1>1. PlaceIn(q, order, k) = Place(q, m, k)
  BY DEF PlaceIn
<1>2. m \in {ParsedMap(q), AliasMap(q)}
  OBVIOUS
<1> HIDE DEF m
<1>3. ASSUME IsOpenID(k), Len(k) > 2, k[2] \in DOMAIN m
      PROVE  \E a \in DOMAIN ParsedMap(q) : FixNs(m[k[2]]) = ParsedMap(q)[a]
  <2>1. k[2] \in DOMAIN ParsedMap(q) /\ m[k[2]] = ParsedMap(q)[k[2]]
    BY <1>2, <1>3, ParsedMapFacts
  <2>2. CASE m[k[2]] # SREG
    BY <2>1, <2>2 DEF FixNs
  <2>3. CASE m[k[2]] = SREG
    <3>1. k[2] \in DOMAIN AliasMap(q) /\ AliasMap(q)[k[2]] = SREG
      BY <2>1, <2>3, ParsedMapFacts, MessageAssumption
    <3>2. k \in Renamed(q)
      BY <1>3, <3>1 DEF Renamed
    <3> QED BY <2>3, <3>2, ParsedMapFacts DEF FixNs
  <2> QED BY <2>2, <2>3
<1> QED BY <1>1, <1>3 DEF Place

\* Message.from_post_args.
LEMMA ParsedSound ==
  ASSUME NEW q, FromPostArgs(q)
  PROVE  IInv
<1> DEFINE m == ParsedMap(q)
           r == {m[a] : a \in DOMAIN m}
           g == [ns \in r |-> CHOOSE a \in DOMAIN m : m[a] = ns]
<1>0. Parses(q)
  BY DEF FromPostArgs
<1>1. alias_to_namespace = m /\ namespace_to_alias = g /\ openid_ns = QueryNS(q)
  BY DEF FromPostArgs
<1>2. \A a, b \in DOMAIN m : m[a] = m[b] => a = b
  BY <1>0, ParsedMapFacts
<1>3. /\ NULL_NAMESPACE \in DOMAIN m /\ m[NULL_NAMESPACE] = QueryNS(q)
      /\ \A a \in DOMAIN m : \/ a \in Explicit(q) \union Default(q) \union {NULL_NAMESPACE}
                            \/ a \notin ProtocolFields
  <2>1. /\ DOMAIN AliasMap(q) = Explicit(q) \union Default(q) \union {NULL_NAMESPACE}
        /\ AliasMap(q)[NULL_NAMESPACE] = QueryNS(q)
    BY DEF AliasMap
  <2> QED BY <1>0, <2>1, ParsedMapFacts
<1>4. QueryNS(q) \in AllowedNamespaces
  BY DEF FromPostArgs, Parses
<1>5. \A a \in DOMAIN m : a \notin ProtocolFields
  <2>1. \A a \in Explicit(q) : a \notin ProtocolFields
    BY DEF FromPostArgs, Parses, Explicit
  <2>2. \A a \in Default(q) : a \notin ProtocolFields
    BY MessageAssumption DEF Default
  <2> QED BY <2>1, <2>2, <1>3, MessageAssumption
<1>6. \A x \in DOMAIN args : x[1] = BARE_NS \/ x[1] \in r
  <2> SUFFICES ASSUME NEW order \in Orders(q), NEW k \in ArgKeys(q)
               PROVE  PlaceIn(q, order, k)[1] = BARE_NS \/ PlaceIn(q, order, k)[1] \in r
    BY DEF FromPostArgs, Placed
  <2>1. QueryNS(q) \in r
    BY <1>3
  <2> QED BY <1>0, <2>1, PlacedWhere
<1> HIDE DEF m
<1>7. \A ns \in r : g[ns] \in DOMAIN m /\ m[g[ns]] = ns
  OBVIOUS
<1>8. Inverts(m, g)
  BY <1>2, <1>7 DEF Inverts
<1>9. QueryNS(q) # None
  BY <1>4, MessageAssumption
<1> QED BY <1>1, <1>3, <1>5, <1>6, <1>7, <1>8, <1>9 DEF IInv, Bidirectional, EveryArgHasKey

LEMMA InitSound == Init => IInv
  BY NewSound, ParsedSound DEF Init

-----------------------------------------------------------------------------
(* The steps *)

\* One step keeps the invariant, and no alias is lost by it.
LEMMA StepSound ==
  ASSUME IInv, [Next]_vars
  PROVE  IInv' /\ Stays
<1>1. ASSUME NEW ns \in AllowedNamespaces, NEW b \in BOOLEAN, SetOpenIDNamespace(ns, b)
      PROVE  IInv' /\ Stays
  <2>1. MapAlias(ns, NULL_NAMESPACE, b)
    BY <1>1 DEF SetOpenIDNamespace
  <2>2. Bidirectional' /\ Stays
    BY <2>1, MapAliasFacts DEF IInv
  <2>3. ns # None
    BY MessageAssumption
  <2>4. /\ NULL_NAMESPACE \notin ProtocolFields
        /\ DOMAIN alias_to_namespace' = DOMAIN alias_to_namespace \union {NULL_NAMESPACE}
        /\ DOMAIN namespace_to_alias' = DOMAIN namespace_to_alias \union {ns}
        /\ alias_to_namespace'[NULL_NAMESPACE] = ns
        /\ namespace_to_alias'[ns] = NULL_NAMESPACE
    BY <2>1, MapAliasFacts
  <2>5. /\ NULL_NAMESPACE \in DOMAIN alias_to_namespace'
        /\ alias_to_namespace'[NULL_NAMESPACE] = openid_ns'
        /\ openid_ns' # None
    BY <1>1, <2>4, <2>3 DEF SetOpenIDNamespace
  <2>6. \A n \in DOMAIN namespace_to_alias' : namespace_to_alias'[n] \notin ProtocolFields
    BY <2>4, <2>2 DEF IInv, EveryArgHasKey, Stays
  <2>7. \A x \in DOMAIN args' : x[1] = BARE_NS \/ x[1] \in DOMAIN namespace_to_alias'
    BY <1>1, <2>2 DEF SetOpenIDNamespace, IInv, EveryArgHasKey, Stays
  <2> QED BY <2>2, <2>5, <2>6, <2>7 DEF IInv, EveryArgHasKey
<1>2. ASSUME NEW ns \in UsedNamespaces, NEW a \in UsedAliases, NEW b \in BOOLEAN, AddAlias(ns, a, b)
      PROVE  IInv' /\ Stays
  <2>1. a \in Aliases
    BY MessageAssumption
  <2>2. Bidirectional' /\ KeysSound' /\ Stays
    BY <1>2, <2>1, OtherAlias DEF AddAlias
  <2>3. \A x \in DOMAIN args' : x[1] = BARE_NS \/ x[1] \in DOMAIN namespace_to_alias'
    BY <1>2, <2>2 DEF AddAlias, IInv, EveryArgHasKey, Stays
  <2> QED BY <2>2, <2>3 DEF IInv, EveryArgHasKey, KeysSound
<1>3. ASSUME NEW namespace, NEW key, NEW v, SetArg(namespace, key, v)
      PROVE  IInv' /\ Stays
  <2> DEFINE ns == FixNs(namespace)
  <2>1. DOMAIN args' = DOMAIN args \union {<<ns, key>>}
    BY <1>3 DEF SetArg, With
  <2>2. Bidirectional' /\ KeysSound' /\ Stays
    <3>1. CASE ns = BARE_NS
      BY <3>1, <1>3 DEF SetArg, mapVars, IInv, Bidirectional, EveryArgHasKey, KeysSound, Stays
    <3>2. CASE ns # BARE_NS
      BY <3>2, <1>3, AddNamespaceFacts DEF SetArg
    <3> QED BY <3>1, <3>2
  <2>3. ns = BARE_NS \/ ns \in DOMAIN namespace_to_alias'
    BY <1>3, AddNamespaceFacts DEF SetArg
  <2>4. \A x \in DOMAIN args' : x[1] = BARE_NS \/ x[1] \in DOMAIN namespace_to_alias'
    BY <2>1, <2>2, <2>3 DEF IInv, EveryArgHasKey, Stays
  <2> QED BY <2>2, <2>4 DEF IInv, EveryArgHasKey, KeysSound
<1>4. ASSUME NEW x \in DOMAIN args, DelArg(x)
      PROVE  IInv' /\ Stays
  BY <1>4 DEF DelArg, IInv, Bidirectional, EveryArgHasKey, Stays
<1>5. CASE UNCHANGED vars
  BY <1>5 DEF vars, IInv, Bidirectional, EveryArgHasKey, Stays
<1> QED BY <1>1, <1>2, <1>3, <1>4, <1>5 DEF Next

-----------------------------------------------------------------------------
(* Types *)

\* Adding an alias to the maps keeps them typed.
LEMMA MapAliasTyped ==
  ASSUME TypeOK, NEW ns \in Namespace, NEW a \in Aliases \union {NULL_NAMESPACE},
         NEW implicit, MapAlias(ns, a, implicit)
  PROVE  /\ DOMAIN alias_to_namespace' \subseteq Aliases \union {NULL_NAMESPACE}
         /\ DOMAIN namespace_to_alias' \subseteq Namespace
         /\ implicit_namespaces' \subseteq DOMAIN namespace_to_alias'
<1>1. /\ DOMAIN alias_to_namespace' = DOMAIN alias_to_namespace \union {a}
      /\ DOMAIN namespace_to_alias' = DOMAIN namespace_to_alias \union {ns}
  BY DEF MapAlias, With
<1>2. implicit_namespaces' \subseteq implicit_namespaces \union {ns}
  BY DEF MapAlias
<1> QED BY <1>1, <1>2 DEF TypeOK

\* A new message and a parsed one are typed.
LEMMA InitTyped == Init => TypeOK
<1>1. ASSUME NEW ns \in AllowedNamespaces \union {None}, New(ns) PROVE TypeOK
  <2> DEFINE given == {n \in {ns} : n # None}
  <2>1. /\ DOMAIN alias_to_namespace \subseteq {NULL_NAMESPACE}
        /\ DOMAIN namespace_to_alias = given
        /\ implicit_namespaces \subseteq given
        /\ openid_ns = ns
        /\ DOMAIN args = {}
    BY <1>1 DEF New
  <2>2. given \subseteq Namespace
    BY MessageAssumption
  <2> QED BY <2>1, <2>2 DEF TypeOK
<1>2. ASSUME NEW q \in Queries, FromPostArgs(q) PROVE TypeOK
  <2> DEFINE m == ParsedMap(q)
             r == {m[a] : a \in DOMAIN m}
  <2>0. Parses(q)
    BY <1>2 DEF FromPostArgs
  <2>1. /\ Default(q) \union {NULL_NAMESPACE} \subseteq DOMAIN m
        /\ m[NULL_NAMESPACE] = QueryNS(q)
        /\ \A a \in DOMAIN m : a # NULL_NAMESPACE =>
             \/ a \in Explicit(q) /\ m[a] = q[<<"openid", "ns", a>>]
             \/ a \in Default(q) /\ m[a] = Registered[a]
             \/ a \in Aliases /\ m[a] = SREG_URI
        /\ \A a \in Default(q) : a # NULL_NAMESPACE /\ a \notin Explicit(q) => m[a] = Registered[a]
    <3>1. /\ DOMAIN AliasMap(q) = Explicit(q) \union Default(q) \union {NULL_NAMESPACE}
          /\ AliasMap(q)[NULL_NAMESPACE] = QueryNS(q)
          /\ \A a \in DOMAIN AliasMap(q) \ {NULL_NAMESPACE} :
               AliasMap(q)[a] = IF a \in Explicit(q) THEN q[<<"openid", "ns", a>>] ELSE Registered[a]
      BY DEF AliasMap
    <3> QED BY <2>0, <3>1, ParsedMapFacts
  <2>2. QueryNS(q) \in AllowedNamespaces /\ QueryNS(q) \in Namespace
    BY <1>2, MessageAssumption DEF FromPostArgs, Parses
  <2>3. \A a \in Explicit(q) : a \in Aliases /\ q[<<"openid", "ns", a>>] \in Namespace
    BY <1>2, QueriesAssumption DEF FromPostArgs
  <2>4. \A a \in Default(q) : /\ a \in Aliases /\ a # NULL_NAMESPACE /\ a \notin Explicit(q)
                              /\ Registered[a] \in Namespace
    BY MessageAssumption DEF Default
  <2>5. /\ alias_to_namespace = m
        /\ DOMAIN namespace_to_alias = r
        /\ implicit_namespaces = {Registered[a] : a \in Default(q)} \union
                                 (IF NsKey \in DOMAIN q THEN {} ELSE {OpenID1NS})
        /\ openid_ns = QueryNS(q)
        /\ \E order \in Orders(q) : DOMAIN args = {PlaceIn(q, order, k) : k \in ArgKeys(q)}
    BY <1>2 DEF FromPostArgs, Placed
  <2>6. \A k \in ArgKeys(q), order \in Orders(q) : PlaceIn(q, order, k)[1] = BARE_NS \/ PlaceIn(q, order, k)[1] \in r
    BY <2>0, <2>1, PlacedWhere
  <2>7. NsKey \notin DOMAIN q => QueryNS(q) = OpenID1NS
    BY DEF QueryNS
  <2> HIDE DEF m
  <2>8. DOMAIN m \subseteq Aliases \union {NULL_NAMESPACE}
    BY <2>1, <2>3, <2>4
  <2>9. r \subseteq Namespace
    BY <2>1, <2>2, <2>3, <2>4, MessageAssumption
  <2>10. implicit_namespaces \subseteq r
    <3>1. \A a \in Default(q) : Registered[a] = m[a] /\ a \in DOMAIN m
      BY <2>1, <2>4
    <3>2. QueryNS(q) \in r
      BY <2>1
    <3> QED BY <2>5, <2>7, <3>1, <3>2
  <2>11. \A x \in DOMAIN args : x[1] \in Namespace \union {BARE_NS}
    BY <2>5, <2>6, <2>9
  <2> QED BY <2>2, <2>5, <2>8, <2>9, <2>10, <2>11 DEF TypeOK
<1> QED BY <1>1, <1>2 DEF Init

\* One step keeps a message typed.
LEMMA StepTyped ==
  ASSUME TypeOK, [Next]_vars
  PROVE  TypeOK'
<1> USE DEF TypeOK
<1>1. ASSUME NEW ns \in AllowedNamespaces, NEW b \in BOOLEAN, SetOpenIDNamespace(ns, b)
      PROVE  TypeOK'
  <2>1. ns \in Namespace
    BY MessageAssumption
  <2> QED BY <1>1, <2>1, MapAliasTyped DEF SetOpenIDNamespace
<1>2. ASSUME NEW ns \in UsedNamespaces, NEW a \in UsedAliases, NEW b \in BOOLEAN, AddAlias(ns, a, b)
      PROVE  TypeOK'
  <2>1. ns \in Namespace /\ a \in Aliases
    BY MessageAssumption
  <2> QED BY <1>2, <2>1, MapAliasTyped DEF AddAlias
<1>3. ASSUME NEW namespace \in (UsedNamespaces \union {openid_ns, BARE_NS}) \ {None}, NEW key, NEW v,
             SetArg(namespace, key, v)
      PROVE  TypeOK'
  <2> DEFINE ns == FixNs(namespace)
  <2>1. ns \in Namespace \union {BARE_NS}
    BY MessageAssumption DEF FixNs
  <2>2. \A x \in DOMAIN args' : x[1] \in Namespace \union {BARE_NS}
    <3>1. DOMAIN args' = DOMAIN args \union {<<ns, key>>}
      BY <1>3 DEF SetArg, With
    <3> QED BY <2>1, <3>1
  <2>3. openid_ns' = openid_ns
    BY <1>3 DEF SetArg
  <2>4. CASE UNCHANGED mapVars
    BY <2>2, <2>3, <2>4 DEF mapVars
  <2>5. ASSUME ns # BARE_NS, NEW i \in 0..MaxExt, MapAlias(ns, Ext[i], FALSE) PROVE TypeOK'
    <3>1. ns \in Namespace /\ Ext[i] \in Aliases
      BY <2>1, <2>5, MessageAssumption
    <3> QED BY <2>2, <2>3, <2>5, <3>1, MapAliasTyped
  <2> QED BY <1>3, <2>4, <2>5 DEF SetArg, AddNamespace
<1>4. ASSUME NEW x \in DOMAIN args, DelArg(x)
      PROVE  TypeOK'
  BY <1>4 DEF DelArg
<1>5. CASE UNCHANGED vars
  BY <1>5 DEF vars
<1> QED BY <1>1, <1>2, <1>3, <1>4, <1>5 DEF Next

-----------------------------------------------------------------------------
(* Wire keys and their segments *)

\* What split takes off a key, get_key puts on again.
LEMMA SplitOne ==
  ASSUME NEW S, NEW k \in Seq(S), Len(k) > 1
  PROVE  /\ k[1] \in S
         /\ Tail(k) \in Seq(S) \ {<<>>}
         /\ k = <<k[1]>> \o Tail(k)
<1>1. k # <<>> /\ Len(k) \in Nat
  OBVIOUS
<1>2. Tail(k) \in Seq(S) /\ Len(Tail(k)) = Len(k) - 1
  BY <1>1, HeadTailProperties
<1>3. Tail(k) # <<>>
  <2> DEFINE t == Tail(k)
  <2>1. Len(t) = Len(k) - 1
    BY <1>2
  <2> HIDE DEF t
  <2>2. Len(t) # 0
    BY <1>1, <2>1
  <2>3. t # <<>>
    BY <2>2
  <2> QED BY <2>3 DEF t
<1> QED BY <1>2, <1>3

LEMMA Third ==
  ASSUME NEW S, NEW a \in S, NEW b \in S, NEW c \in S
  PROVE  Append(<<a, b>>, c) = <<a, b, c>>
<1> DEFINE s == <<a, b>>
           t == <<a, b, c>>
<1>1. s \in Seq(S) /\ t \in Seq(S)
  OBVIOUS
<1>2. Len(s) = 2 /\ Len(t) = 3 /\ s[1] = a /\ s[2] = b /\ t[1] = a /\ t[2] = b /\ t[3] = c
  OBVIOUS
<1> HIDE DEF s, t
<1> DEFINE u == Append(s, c)
<1>3. /\ u \in Seq(S) /\ Len(u) = Len(s) + 1 /\ u[Len(s) + 1] = c
      /\ \A i \in 1..Len(s) : u[i] = s[i]
  BY <1>1, AppendProperties
<1> HIDE DEF u
<1>4. Len(u) = 3 /\ \A i \in 1..3 : u[i] = t[i]
  BY <1>2, <1>3
<1>5. u = t
  BY <1>1, <1>2, <1>3, <1>4, SeqEqual
<1> QED BY <1>5 DEF s, t, u

LEMMA Triple ==
  ASSUME NEW S, NEW k \in Seq(S), Len(k) = 3
  PROVE  k = <<k[1], k[2], k[3]>> /\ k[3] \in S
<1>1. k = <<k[1], k[2], k[3]>>
  OBVIOUS
<1>2. 3 \in 1..Len(k)
  OBVIOUS
<1>3. k[3] \in S
  BY <1>2, ElementOfSeq
<1> QED BY <1>1, <1>3

LEMMA SplitTwo ==
  ASSUME NEW S, NEW k \in Seq(S), Len(k) > 2
  PROVE  /\ k[1] \in S /\ k[2] \in S
         /\ Tail(Tail(k)) \in Seq(S) \ {<<>>}
         /\ k = <<k[1], k[2]>> \o Tail(Tail(k))
<1> DEFINE t == Tail(k)
           tt == Tail(t)
           p == <<k[1], k[2]>>
           u == p \o tt
<1>1. k # <<>> /\ Len(k) \in Nat /\ k[1] \in S /\ k[2] \in S
  OBVIOUS
<1>2. t \in Seq(S) /\ Len(t) = Len(k) - 1 /\ \A i \in 1..Len(t) : t[i] = k[i + 1]
  BY <1>1, HeadTailProperties
<1>3. p \in Seq(S) /\ Len(p) = 2 /\ p[1] = k[1] /\ p[2] = k[2]
  BY <1>1
<1> HIDE DEF t, p
<1>4. Len(t) > 1 /\ tt \in Seq(S) \ {<<>>}
  <2>1. Len(t) > 1
    BY <1>1, <1>2
  <2>2. Tail(t) \in Seq(S) \ {<<>>}
    BY <1>2, <2>1, SplitOne
  <2> QED BY <2>1, <2>2
<1>5. Len(tt) = Len(t) - 1 /\ \A i \in 1..Len(tt) : tt[i] = t[i + 1]
  BY <1>2, <1>4, HeadTailProperties
<1> HIDE DEF tt
<1>6. Len(tt) = Len(k) - 2 /\ \A i \in 1..Len(tt) : tt[i] = k[i + 2]
  BY <1>1, <1>2, <1>5
<1>7. /\ u \in Seq(S) /\ Len(u) = Len(p) + Len(tt)
      /\ \A i \in 1..Len(p) + Len(tt) : u[i] = IF i <= Len(p) THEN p[i] ELSE tt[i - Len(p)]
  BY <1>3, <1>4, ConcatProperties
<1> HIDE DEF u
<1>8. Len(u) = Len(k)
  BY <1>1, <1>3, <1>6, <1>7
<1>9. ASSUME NEW i \in 1..Len(k) PROVE u[i] = k[i]
  <2>1. CASE i \in {1, 2}
    BY <1>1, <1>3, <1>6, <1>7, <2>1
  <2>2. CASE i \notin {1, 2}
    <3>1. i - 2 \in 1..Len(tt) /\ (i - 2) + 2 = i /\ ~(i <= 2)
      BY <1>1, <1>6, <2>2
    <3> QED BY <1>1, <1>3, <1>6, <1>7, <3>1
  <2> QED BY <2>1, <2>2
<1>10. u = k
  BY <1>7, <1>8, <1>9, SeqEqual
<1> QED BY <1>1, <1>4, <1>10 DEF t, tt, p, u

\* The key an alias is declared under (to_args).
LEMMA DeclaredUnder ==
  ASSUME NEW a
  PROVE  Append(NsKey, a) = <<"openid", "ns", a>>
<1> DEFINE S == {"openid", "ns", a}
<1>1. "openid" \in S /\ "ns" \in S /\ a \in S
  OBVIOUS
<1> HIDE DEF S
<1>2. Append(<<"openid", "ns">>, a) = <<"openid", "ns", a>>
  BY <1>1, Third, Zenon
<1> QED BY <1>2 DEF NsKey

-----------------------------------------------------------------------------
(* A message passed on *)

\* As long as query stands, the message is what from_post_args made of it.
AsReceived == query # None => query \in Queries /\ FromPostArgs(query)

\* What the maps of a message that was just received say, when nothing was
\* renamed.
LEMMA ReceivedMaps ==
  ASSUME NEW q \in Queries, FromPostArgs(q), Renamed(q) = {}, IInv, TypeOK
  PROVE  /\ DOMAIN alias_to_namespace = Explicit(q) \union Default(q) \union {NULL_NAMESPACE}
         /\ alias_to_namespace = AliasMap(q)
         /\ alias_to_namespace[NULL_NAMESPACE] = QueryNS(q)
         /\ \A a \in Explicit(q) : /\ a \in STRING
                                  /\ <<"openid", "ns", a>> \in Declarations(q)
                                  /\ alias_to_namespace[a] = q[<<"openid", "ns", a>>]
         /\ \A a \in Default(q) : a \notin Explicit(q) /\ alias_to_namespace[a] = Registered[a]
         /\ implicit_namespaces = {Registered[a] : a \in Default(q)} \union
                                  (IF NsKey \in DOMAIN q THEN {} ELSE {OpenID1NS})
<1> DEFINE m == AliasMap(q)
<1>1. /\ alias_to_namespace = m
      /\ implicit_namespaces = {Registered[a] : a \in Default(q)} \union
                                (IF NsKey \in DOMAIN q THEN {} ELSE {OpenID1NS})
  BY ParsedMapFacts DEF FromPostArgs
<1>2. /\ DOMAIN m = Explicit(q) \union Default(q) \union {NULL_NAMESPACE}
      /\ m[NULL_NAMESPACE] = QueryNS(q)
      /\ \A a \in Explicit(q) : a # NULL_NAMESPACE => m[a] = q[<<"openid", "ns", a>>]
      /\ \A a \in Default(q) : a # NULL_NAMESPACE /\ a \notin Explicit(q) => m[a] = Registered[a]
  BY DEF AliasMap
<1>3. ASSUME NEW k \in Declarations(q)
      PROVE  k[3] \in STRING /\ k[3] # NULL_NAMESPACE /\ k = <<"openid", "ns", k[3]>>
  <2>1. k \in Seq(STRING)
    BY KeysAssumption DEF Declarations
  <2>2. Len(k) = 3
    BY DEF FromPostArgs, Parses
  <2>3. k[3] \in STRING /\ k = <<k[1], k[2], k[3]>>
    BY <2>1, <2>2, Triple
  <2>4. k[1] = "openid" /\ k[2] = "ns"
    BY DEF Declarations, IsOpenID
  <2> QED BY <2>3, <2>4, KeysAssumption
<1>4. \A a \in Explicit(q) : a \in STRING /\ a # NULL_NAMESPACE /\ <<"openid", "ns", a>> \in Declarations(q)
  BY <1>3 DEF Explicit
<1>5. \A a \in Default(q) : a \notin Explicit(q) /\ a # NULL_NAMESPACE
  BY MessageAssumption DEF Default
<1> HIDE DEF m
<1>6. \A a \in Explicit(q) : m[a] = q[<<"openid", "ns", a>>]
  BY <1>2, <1>4
<1>7. \A a \in Default(q) : m[a] = Registered[a]
  BY <1>2, <1>5
<1>8. alias_to_namespace = AliasMap(q)
  BY <1>1 DEF m
<1> QED BY <1>1, <1>2, <1>4, <1>5, <1>6, <1>7, <1>8

\* get_key writes the key an argument came in under (Message#get_key).
LEMMA WireKeyRejoins ==
  ASSUME NEW q \in Queries, FromPostArgs(q), Renamed(q) = {}, IInv, TypeOK, NEW k \in ArgKeys(q)
  PROVE  WireKey(Place(q, AliasMap(q), k)) = k
<1>1. k \in Seq(STRING)
  BY KeysAssumption DEF ArgKeys
<1>2. /\ DOMAIN alias_to_namespace = DOMAIN AliasMap(q)
      /\ alias_to_namespace = AliasMap(q)
      /\ alias_to_namespace[NULL_NAMESPACE] = QueryNS(q)
      /\ NULL_NAMESPACE \in DOMAIN alias_to_namespace
  BY ReceivedMaps
<1>3. \A a \in DOMAIN alias_to_namespace :
        /\ alias_to_namespace[a] \in DOMAIN namespace_to_alias
        /\ namespace_to_alias[alias_to_namespace[a]] = a
        /\ alias_to_namespace[a] # BARE_NS
  BY MessageAssumption DEF IInv, Bidirectional, Inverts, TypeOK
<1>4. CASE ~IsOpenID(k)
  BY <1>4 DEF Place, WireKey
<1>5. CASE IsOpenID(k) /\ Len(k) > 2 /\ k[2] \in DOMAIN AliasMap(q)
  <2>1. /\ k[2] \in STRING /\ k[2] # NULL_NAMESPACE /\ k[1] = "openid"
        /\ k = <<k[1], k[2]>> \o Tail(Tail(k))
    BY <1>1, <1>5, SplitTwo, KeysAssumption DEF IsOpenID
  <2> DEFINE x == Place(q, AliasMap(q), k)
  <2>2. x = <<alias_to_namespace[k[2]], Tail(Tail(k))>>
    <3>1. AliasMap(q)[k[2]] # SREG
      BY <1>5 DEF Renamed
    <3> QED BY <1>2, <1>5, <3>1 DEF Place, FixNs
  <2>3. x[1] = alias_to_namespace[k[2]] /\ x[2] = Tail(Tail(k))
    BY <2>2
  <2> HIDE DEF x
  <2>4. x[1] # BARE_NS /\ namespace_to_alias[x[1]] = k[2]
    BY <1>2, <1>3, <1>5, <2>3
  <2>5. WireKey(x) = <<"openid", k[2]>> \o Tail(Tail(k))
    BY <2>1, <2>3, <2>4 DEF WireKey
  <2> QED BY <2>1, <2>5 DEF x
<1>6. CASE IsOpenID(k) /\ ~(Len(k) > 2 /\ k[2] \in DOMAIN AliasMap(q))
  <2>1. k[1] = "openid" /\ k = <<k[1]>> \o Tail(k)
    BY <1>1, <1>6, SplitOne DEF IsOpenID
  <2> DEFINE x == Place(q, AliasMap(q), k)
  <2>2. x = <<QueryNS(q), Tail(k)>>
    BY <1>6 DEF Place
  <2>3. x[1] = QueryNS(q) /\ x[2] = Tail(k)
    BY <2>2
  <2> HIDE DEF x
  <2>4. x[1] # BARE_NS /\ namespace_to_alias[x[1]] = NULL_NAMESPACE
    BY <1>2, <1>3, <2>3
  <2>5. WireKey(x) = <<"openid">> \o Tail(k)
    BY <2>3, <2>4 DEF WireKey
  <2> QED BY <2>1, <2>5 DEF x
<1> QED BY <1>4, <1>5, <1>6

\* The arguments are written as they came, and so are the declarations.
LEMMA ArgsAsReceived ==
  ASSUME NEW q \in Queries, FromPostArgs(q), Renamed(q) = {}, IInv, TypeOK
  PROVE  {<<WireKey(x), args[x]>> : x \in DOMAIN args} = {<<k, q[k]>> : k \in ArgKeys(q)}
<1>1. PICK order \in Orders(q) : args = Placed(q, order)
  BY DEF FromPostArgs
<1> DEFINE At(k) == PlaceIn(q, order, k)
<1>2. \A k \in ArgKeys(q) : WireKey(At(k)) = k
  <2>1. \A k \in ArgKeys(q) : At(k) = Place(q, AliasMap(q), k)
    BY DEF PlaceIn
  <2> QED BY <2>1, WireKeyRejoins
<1>3. args = [x \in {At(k) : k \in ArgKeys(q)} |->
               q[CHOOSE k \in ArgKeys(q) :
                   At(k) = x /\ \A l \in ArgKeys(q) : At(l) = x => order[l] <= order[k]]]
  BY <1>1 DEF Placed
<1>4. ASSUME NEW k \in ArgKeys(q) PROVE order[k] <= order[k]
  <2>1. order[k] \in 1..Cardinality(ArgKeys(q))
    BY DEF Orders
  <2> QED BY <2>1
<1> HIDE DEF At
<1>5. DOMAIN args = {At(k) : k \in ArgKeys(q)}
  BY <1>3
<1>6. ASSUME NEW k \in ArgKeys(q) PROVE args[At(k)] = q[k]
  <2> DEFINE Last(c) == At(c) = At(k) /\ \A l \in ArgKeys(q) : At(l) = At(k) => order[l] <= order[c]
             c == CHOOSE d \in ArgKeys(q) : Last(d)
  <2>1. \A l \in ArgKeys(q) : At(l) = At(k) => l = k
    <3> SUFFICES ASSUME NEW l \in ArgKeys(q), At(l) = At(k) PROVE l = k
      OBVIOUS
    <3>1. WireKey(At(l)) = l /\ WireKey(At(k)) = k
      BY <1>2
    <3> QED BY <3>1
  <2>2. Last(k)
    BY <1>4, <2>1
  <2>3. args[At(k)] = q[c]
    BY <1>3
  <2>4. c \in ArgKeys(q) /\ At(c) = At(k)
    <3>1. c \in ArgKeys(q) /\ Last(c)
      BY <2>2
    <3> QED BY <3>1
  <2> HIDE DEF c
  <2>5. c = k
    BY <2>1, <2>4
  <2> QED BY <2>3, <2>5
<1> QED BY <1>2, <1>5, <1>6

LEMMA DeclarationsAsReceived ==
  ASSUME NEW q \in Queries, FromPostArgs(q), Renamed(q) = {}, IInv, TypeOK
  PROVE  {<<DeclarationKey(ns), ns>> : ns \in DOMAIN namespace_to_alias \ implicit_namespaces}
           = {<<k, q[k]>> : k \in DOMAIN q \ ArgKeys(q)}
<1> DEFINE D == DOMAIN namespace_to_alias \ implicit_namespaces
<1>1. /\ \A a \in DOMAIN alias_to_namespace :
            /\ alias_to_namespace[a] \in DOMAIN namespace_to_alias
            /\ namespace_to_alias[alias_to_namespace[a]] = a
      /\ \A ns \in DOMAIN namespace_to_alias :
            /\ namespace_to_alias[ns] \in DOMAIN alias_to_namespace
            /\ alias_to_namespace[namespace_to_alias[ns]] = ns
  BY DEF IInv, Bidirectional, Inverts
<1>2. \A k : k \in DOMAIN q \ ArgKeys(q) <=> k \in Declarations(q) \/ (k = NsKey /\ NsKey \in DOMAIN q)
  BY DEF ArgKeys, Declarations
<1>3. QueryNS(q) \in AllowedNamespaces
  BY DEF FromPostArgs, Parses
<1>4. \A a \in Default(q) : Registered[a] \notin AllowedNamespaces
  BY MessageAssumption DEF Default
<1>5. ASSUME NEW ns \in D
      PROVE  DeclarationKey(ns) \in DOMAIN q \ ArgKeys(q) /\ q[DeclarationKey(ns)] = ns
  <2> DEFINE a == namespace_to_alias[ns]
  <2>1. a \in DOMAIN alias_to_namespace /\ alias_to_namespace[a] = ns
    BY <1>1
  <2>2. CASE a = NULL_NAMESPACE
    <3>1. ns = QueryNS(q)
      BY <2>1, <2>2, ReceivedMaps
    <3>2. NsKey \in DOMAIN q
      BY <3>1, ReceivedMaps DEF QueryNS
    <3>3. DeclarationKey(ns) = NsKey
      BY <2>2 DEF DeclarationKey
    <3> QED BY <1>2, <3>1, <3>2, <3>3 DEF QueryNS
  <2>3. CASE a \in Explicit(q) /\ a # NULL_NAMESPACE
    <3>1. <<"openid", "ns", a>> \in Declarations(q) /\ ns = q[<<"openid", "ns", a>>] /\ a \in STRING
      BY <2>1, <2>3, ReceivedMaps
    <3>2. DeclarationKey(ns) = <<"openid", "ns", a>>
      BY <2>3, <3>1, DeclaredUnder DEF DeclarationKey, NsKey
    <3> QED BY <1>2, <3>1, <3>2
  <2>4. a \notin Default(q)
    <3>1. \A b \in Default(q) : alias_to_namespace[b] = Registered[b]
      BY ReceivedMaps
    <3>2. {Registered[b] : b \in Default(q)} \subseteq implicit_namespaces
      BY ReceivedMaps
    <3> QED BY <2>1, <3>1, <3>2
  <2>5. a \in Explicit(q) \union Default(q) \union {NULL_NAMESPACE}
    BY <2>1, ReceivedMaps
  <2> QED BY <2>2, <2>3, <2>4, <2>5
<1>6. ASSUME NEW k \in DOMAIN q \ ArgKeys(q)
      PROVE  q[k] \in D /\ DeclarationKey(q[k]) = k
  <2>1. CASE k = NsKey /\ NsKey \in DOMAIN q
    <3>1. q[k] = QueryNS(q)
      BY <2>1 DEF QueryNS
    <3>2. q[k] \in DOMAIN namespace_to_alias /\ namespace_to_alias[q[k]] = NULL_NAMESPACE
      <4>1. NULL_NAMESPACE \in DOMAIN alias_to_namespace /\ alias_to_namespace[NULL_NAMESPACE] = q[k]
        BY <3>1, ReceivedMaps
      <4> QED BY <1>1, <4>1
    <3>3. q[k] \notin implicit_namespaces
      <4>1. implicit_namespaces = {Registered[a] : a \in Default(q)}
        BY <2>1, ReceivedMaps
      <4> QED BY <1>3, <1>4, <3>1, <4>1
    <3> QED BY <2>1, <3>2, <3>3 DEF DeclarationKey
  <2>2. CASE k \in Declarations(q)
    <3> DEFINE a == k[3]
    <3>1. a \in Explicit(q)
      BY <2>2 DEF Explicit
    <3>2. k = <<"openid", "ns", a>>
      <4>1. k \in Seq(STRING)
        BY KeysAssumption
      <4>2. Len(k) = 3
        BY <2>2 DEF FromPostArgs, Parses
      <4>3. k = <<k[1], k[2], k[3]>>
        BY <4>1, <4>2, Triple
      <4> QED BY <2>2, <4>3 DEF Declarations, IsOpenID
    <3> HIDE DEF a
    <3>3. a \in STRING /\ a \in DOMAIN alias_to_namespace /\ alias_to_namespace[a] = q[k]
      BY <3>1, <3>2, ReceivedMaps
    <3>4. q[k] \in DOMAIN namespace_to_alias /\ namespace_to_alias[q[k]] = a /\ a # NULL_NAMESPACE
      BY <1>1, <3>3, KeysAssumption
    <3>5. q[k] \notin implicit_namespaces
      <4>1. ASSUME NEW b \in Default(q) PROVE q[k] # Registered[b]
        <5>1. b \in DOMAIN alias_to_namespace /\ alias_to_namespace[b] = Registered[b] /\ b \notin Explicit(q)
          BY ReceivedMaps
        <5> QED BY <1>1, <3>1, <3>4, <5>1
      <4>2. ASSUME NsKey \notin DOMAIN q PROVE q[k] # OpenID1NS
        <5>1. alias_to_namespace[NULL_NAMESPACE] = OpenID1NS /\ NULL_NAMESPACE \in DOMAIN alias_to_namespace
          BY <4>2, ReceivedMaps DEF QueryNS
        <5> QED BY <1>1, <3>4, <5>1
      <4>3. implicit_namespaces = {Registered[b] : b \in Default(q)} \union
                                  (IF NsKey \in DOMAIN q THEN {} ELSE {OpenID1NS})
        BY ReceivedMaps
      <4> QED BY <4>1, <4>2, <4>3
    <3>6. DeclarationKey(q[k]) = <<"openid", "ns", a>>
      BY <3>3, <3>4, DeclaredUnder DEF DeclarationKey, NsKey
    <3> QED BY <3>2, <3>4, <3>5, <3>6
  <2> QED BY <1>2, <2>1, <2>2
<1> QED BY <1>5, <1>6

LEMMA PassesOn ==
  ASSUME NEW q \in Queries, FromPostArgs(q), Renamed(q) = {}, IInv, TypeOK
  PROVE  ToPostArgs = {<<k, q[k]>> : k \in DOMAIN q}
<1>1. ArgKeys(q) \subseteq DOMAIN q
  BY DEF ArgKeys
<1> QED BY <1>1, ArgsAsReceived, DeclarationsAsReceived DEF ToPostArgs

\* Every operation lets go of the query, so that it is the received one.
LEMMA InitAsReceived == Init => AsReceived
<1>1. ASSUME NEW ns, New(ns) PROVE AsReceived
  BY <1>1 DEF New, AsReceived
<1>2. ASSUME NEW q \in Queries, FromPostArgs(q) PROVE AsReceived
  <2>1. query = q
    BY <1>2 DEF FromPostArgs
  <2> QED BY <1>2, <2>1 DEF AsReceived
<1> QED BY <1>1, <1>2 DEF Init

LEMMA StepAsReceived ==
  ASSUME AsReceived, [Next]_vars
  PROVE  AsReceived'
<1>1. CASE Next
  <2>1. query' = None
    BY <1>1 DEF Next, SetOpenIDNamespace, AddAlias, SetArg, DelArg
  <2> QED BY <2>1 DEF AsReceived
<1>2. CASE UNCHANGED vars
  BY <1>2 DEF vars, AsReceived, FromPostArgs
<1> QED BY <1>1, <1>2

-----------------------------------------------------------------------------
(* Two arguments under one wire key *)

ArgsFormed ==
  \A x \in DOMAIN args :
    /\ x = <<x[1], x[2]>>
    /\ x[2] \in Seq(STRING) \ {<<>>}
    /\ x[1] = BARE_NS => ~IsOpenID(x[2])

LEMMA InitFormed == Init => ArgsFormed
<1>1. ASSUME NEW ns, New(ns) PROVE ArgsFormed
  BY <1>1 DEF New, ArgsFormed
<1>2. ASSUME NEW q \in Queries, FromPostArgs(q), NEW x \in DOMAIN args
      PROVE  /\ x = <<x[1], x[2]>>
             /\ x[2] \in Seq(STRING) \ {<<>>}
             /\ x[1] = BARE_NS => ~IsOpenID(x[2])
  <2>0. Parses(q)
    BY <1>2 DEF FromPostArgs
  <2>1. PICK order \in Orders(q), k \in ArgKeys(q) : x = PlaceIn(q, order, k)
    BY <1>2 DEF FromPostArgs, Placed
  <2>2. k \in Seq(STRING) \ {<<>>}
    BY KeysAssumption DEF ArgKeys
  <2>3. CASE ~IsOpenID(k)
    BY <2>0, <2>1, <2>2, <2>3, PlacedWhere
  <2>4. CASE IsOpenID(k)
    <3>1. Tail(k) \in Seq(STRING) \ {<<>>}
      BY <2>2, <2>4, SplitOne DEF IsOpenID
    <3>2. Len(k) > 2 => Tail(Tail(k)) \in Seq(STRING) \ {<<>>}
      BY <2>2, SplitTwo
    <3>3. QueryNS(q) # BARE_NS /\ \A a \in DOMAIN ParsedMap(q) : ParsedMap(q)[a] # BARE_NS
      <4>1. QueryNS(q) \in Namespace
        BY <1>2, MessageAssumption DEF FromPostArgs, Parses
      <4>2. \A a \in Explicit(q) : q[<<"openid", "ns", a>>] \in Namespace
        BY <1>2, QueriesAssumption DEF FromPostArgs
      <4>3. \A a \in Default(q) : Registered[a] \in Namespace
        BY MessageAssumption DEF Default
      <4>4. \A a \in DOMAIN AliasMap(q) : AliasMap(q)[a] \in Namespace
        BY <4>1, <4>2, <4>3 DEF AliasMap
      <4>5. \A a \in DOMAIN ParsedMap(q) : ParsedMap(q)[a] \in Namespace
        BY <2>0, <4>4, ParsedMapFacts, MessageAssumption
      <4> QED BY <4>1, <4>5, MessageAssumption
    <3>4. \/ x = <<QueryNS(q), Tail(k)>>
          \/ Len(k) > 2 /\ \E a \in DOMAIN ParsedMap(q) : x = <<ParsedMap(q)[a], Tail(Tail(k))>>
      BY <2>0, <2>1, <2>4, PlacedWhere
    <3>5. PICK n, key : /\ x = <<n, key>>
                        /\ key \in Seq(STRING) \ {<<>>}
                        /\ n # BARE_NS
      <4>1. CASE x = <<QueryNS(q), Tail(k)>>
        BY <3>1, <3>3, <4>1
      <4>2. CASE Len(k) > 2 /\ \E a \in DOMAIN ParsedMap(q) : x = <<ParsedMap(q)[a], Tail(Tail(k))>>
        BY <3>2, <3>3, <4>2
      <4> QED BY <3>4, <4>1, <4>2
    <3> QED BY <3>5
  <2> QED BY <2>3, <2>4
<1> QED BY <1>1, <1>2 DEF Init, ArgsFormed

LEMMA StepFormed ==
  ASSUME ArgsFormed, [Next]_vars
  PROVE  ArgsFormed'
<1>1. ASSUME NEW ns, NEW b, SetOpenIDNamespace(ns, b) \/ UNCHANGED vars PROVE ArgsFormed'
  BY <1>1 DEF SetOpenIDNamespace, vars, ArgsFormed
<1>2. ASSUME NEW ns, NEW a, NEW b, AddAlias(ns, a, b) PROVE ArgsFormed'
  BY <1>2 DEF AddAlias, ArgsFormed
<1>3. ASSUME NEW namespace, NEW key \in Keys, NEW v, SetArg(namespace, key, v) PROVE ArgsFormed'
  <2> DEFINE ns == FixNs(namespace)
  <2>1. DOMAIN args' = DOMAIN args \union {<<ns, key>>}
    BY <1>3 DEF SetArg, With
  <2>2. key \in Seq(STRING) \ {<<>>} /\ ~IsOpenID(key)
    BY KeysAssumption
  <2>3. <<ns, key>>[1] = ns /\ <<ns, key>>[2] = key
    OBVIOUS
  <2> QED BY <2>1, <2>2, <2>3 DEF ArgsFormed
<1>4. ASSUME NEW x, DelArg(x) PROVE ArgsFormed'
  BY <1>4 DEF DelArg, ArgsFormed
<1> QED BY <1>1, <1>2, <1>3, <1>4 DEF Next

\* What two equal wire keys say of their ends.
LEMMA SamePrefix ==
  ASSUME NEW S, NEW o \in S, NEW s \in Seq(S), NEW t \in Seq(S), <<o>> \o s = <<o>> \o t
  PROVE  s = t
OBVIOUS

LEMMA SameAlias ==
  ASSUME NEW S, NEW o \in S
  PROVE  \A a, b \in S, s, t \in Seq(S) : <<o, a>> \o s = <<o, b>> \o t => a = b /\ s = t
<1> SUFFICES ASSUME NEW a \in S, NEW b \in S, NEW s \in Seq(S), NEW t \in Seq(S),
                    <<o, a>> \o s = <<o, b>> \o t
             PROVE  a = b /\ s = t
  OBVIOUS
<1>1. a = b
  OBVIOUS
<1>2. <<o, a>> \in Seq(S)
  OBVIOUS
<1> QED BY <1>1, <1>2, ConcatSimplifications

LEMMA HiddenAlias ==
  ASSUME NEW S, NEW o \in S, NEW a \in S, NEW s \in Seq(S), NEW t \in Seq(S) \ {<<>>},
         <<o>> \o s = <<o, a>> \o t
  PROVE  Len(s) > 1 /\ s[1] = a
<1>1. s[1] = a
  OBVIOUS
<1>2. Len(<<o>> \o s) = 1 + Len(s) /\ Len(<<o, a>> \o t) = 2 + Len(t)
  OBVIOUS
<1>3. Len(t) \in Nat /\ Len(t) # 0 /\ Len(s) \in Nat
  OBVIOUS
<1> QED BY <1>1, <1>2, <1>3

LEMMA Prefixed ==
  ASSUME NEW S, NEW o \in S, NEW a \in S, NEW s \in Seq(S)
  PROVE  /\ s # <<>> => (<<o>> \o s)[1] = o /\ Len(<<o>> \o s) > 1
         /\ (<<o, a>> \o s)[1] = o /\ Len(<<o, a>> \o s) > 1
<1>1. (<<o>> \o s)[1] = o /\ (<<o, a>> \o s)[1] = o
  OBVIOUS
<1>2. Len(<<o>> \o s) = 1 + Len(s) /\ Len(<<o, a>> \o s) = 2 + Len(s)
  OBVIOUS
<1>3. Len(s) \in Nat /\ (s # <<>> => Len(s) # 0)
  OBVIOUS
<1> QED BY <1>1, <1>2, <1>3

LEMMA ClashExplained == IInv /\ TypeOK /\ ArgsFormed => ClashNeedsUndeclared
<1> SUFFICES ASSUME IInv, TypeOK, ArgsFormed,
                    NEW x \in DOMAIN args, NEW y \in DOMAIN args, x # y, WireKey(x) = WireKey(y)
             PROVE  \E u \in {x, y} : /\ u[1] = openid_ns
                                      /\ Len(u[2]) > 1
                                      /\ u[2][1] \in DOMAIN alias_to_namespace
  BY DEF ClashNeedsUndeclared
<1> DEFINE S == STRING \union {"openid"}
           Alias(z) == namespace_to_alias[z[1]]
           Bare(z) == z[1] = BARE_NS
           Null(z) == ~Bare(z) /\ Alias(z) = NULL_NAMESPACE
           Named(z) == ~Bare(z) /\ Alias(z) # NULL_NAMESPACE
<1>1. ASSUME NEW z \in DOMAIN args
      PROVE  /\ z[2] \in Seq(S) \ {<<>>}
             /\ z = <<z[1], z[2]>>
             /\ Bare(z) \/ Null(z) \/ Named(z)
             /\ ~Bare(z) => /\ Alias(z) \in DOMAIN alias_to_namespace
                            /\ alias_to_namespace[Alias(z)] = z[1]
             /\ Named(z) => Alias(z) \in S
             /\ Null(z) => z[1] = openid_ns
             /\ Bare(z) => WireKey(z) = z[2] /\ ~IsOpenID(z[2])
             /\ Null(z) => WireKey(z) = <<"openid">> \o z[2]
             /\ Named(z) => WireKey(z) = <<"openid", Alias(z)>> \o z[2]
  <2>1. z[2] \in Seq(STRING) \ {<<>>} /\ z = <<z[1], z[2]>> /\ (Bare(z) => ~IsOpenID(z[2]))
    BY DEF ArgsFormed
  <2>2. STRING \subseteq S
    OBVIOUS
  <2>3. z[2] \in Seq(S) \ {<<>>}
    BY <2>1, <2>2, SeqMonotonic
  <2>4. ~Bare(z) => /\ Alias(z) \in DOMAIN alias_to_namespace
                    /\ alias_to_namespace[Alias(z)] = z[1]
    BY DEF IInv, EveryArgHasKey, Bidirectional, Inverts
  <2>5. Named(z) => Alias(z) \in S
    BY <2>4, KeysAssumption DEF TypeOK
  <2>6. Null(z) => z[1] = openid_ns
    BY <2>4 DEF IInv, EveryArgHasKey
  <2>7. /\ Bare(z) => WireKey(z) = z[2]
        /\ Null(z) => WireKey(z) = <<"openid">> \o z[2]
        /\ Named(z) => WireKey(z) = <<"openid", Alias(z)>> \o z[2]
    BY DEF WireKey
  <2> QED BY <2>1, <2>3, <2>4, <2>5, <2>6, <2>7
<1>2. "openid" \in S
  OBVIOUS
<1> HIDE DEF S, Alias
<1>3. ASSUME NEW z \in DOMAIN args, ~Bare(z) PROVE IsOpenID(WireKey(z))
  <2>1. CASE Null(z)
    <3>1. z[2] \in Seq(S) \ {<<>>} /\ WireKey(z) = <<"openid">> \o z[2]
      BY <1>1, <2>1
    <3>2. (<<"openid">> \o z[2])[1] = "openid" /\ Len(<<"openid">> \o z[2]) > 1
      BY <1>2, <3>1, Prefixed
    <3> QED BY <3>1, <3>2 DEF IsOpenID
  <2>2. CASE Named(z)
    <3>1. z[2] \in Seq(S) /\ Alias(z) \in S /\ WireKey(z) = <<"openid", Alias(z)>> \o z[2]
      BY <1>1, <2>2
    <3>2. (<<"openid", Alias(z)>> \o z[2])[1] = "openid" /\ Len(<<"openid", Alias(z)>> \o z[2]) > 1
      BY <1>2, <3>1, Prefixed
    <3> QED BY <3>1, <3>2 DEF IsOpenID
  <2> QED BY <1>1, <1>3, <2>1, <2>2
<1>4. x[1] # y[1] \/ x[2] # y[2]
  BY <1>1
<1>5. CASE Bare(x) \/ Bare(y)
  BY <1>1, <1>3, <1>4, <1>5
<1>6. CASE Null(x) /\ Null(y)
  <2>1. <<"openid">> \o x[2] = <<"openid">> \o y[2] /\ x[1] = y[1]
    BY <1>1, <1>6
  <2>2. x[2] \in Seq(S) /\ y[2] \in Seq(S)
    BY <1>1
  <2>3. x[2] = y[2]
    BY <1>2, <2>1, <2>2, SamePrefix
  <2> QED BY <1>4, <2>1, <2>3
<1>7. CASE Named(x) /\ Named(y)
  <2>1. <<"openid", Alias(x)>> \o x[2] = <<"openid", Alias(y)>> \o y[2]
    BY <1>1, <1>7
  <2>2. x[2] \in Seq(S) /\ y[2] \in Seq(S) /\ Alias(x) \in S /\ Alias(y) \in S
    BY <1>1, <1>7
  <2>3. Alias(x) = Alias(y) /\ x[2] = y[2]
    <3>1. PICK a \in S, b \in S, s \in Seq(S), t \in Seq(S) :
                 a = Alias(x) /\ b = Alias(y) /\ s = x[2] /\ t = y[2]
      BY <2>2
    <3>2. <<"openid", a>> \o s = <<"openid", b>> \o t
      BY <2>1, <3>1
    <3>3. a = b /\ s = t
      <4>1. \A c, d \in S, r, z \in Seq(S) : <<"openid", c>> \o r = <<"openid", d>> \o z => c = d /\ r = z
        BY <1>2, SameAlias, Zenon
      <4> QED BY <3>2, <4>1, Zenon
    <3> QED BY <3>1, <3>3
  <2>4. x[1] = y[1]
    BY <1>1, <1>7, <2>3
  <2> QED BY <1>4, <2>3, <2>4
<1>8. ASSUME NEW u \in {x, y}, NEW w \in {x, y}, Null(u), Named(w)
      PROVE  u[1] = openid_ns /\ Len(u[2]) > 1 /\ u[2][1] \in DOMAIN alias_to_namespace
  <2>0. u \in DOMAIN args /\ w \in DOMAIN args /\ WireKey(u) = WireKey(w)
    OBVIOUS
  <2>1. <<"openid">> \o u[2] = <<"openid", Alias(w)>> \o w[2]
    BY <1>1, <1>8, <2>0
  <2>2. /\ u[2] \in Seq(S) /\ w[2] \in Seq(S) \ {<<>>} /\ Alias(w) \in S
        /\ Alias(w) \in DOMAIN alias_to_namespace /\ u[1] = openid_ns
    BY <1>1, <1>8, <2>0
  <2>3. Len(u[2]) > 1 /\ u[2][1] = Alias(w)
    BY <1>2, <2>1, <2>2, HiddenAlias
  <2> QED BY <2>2, <2>3
<1> QED BY <1>1, <1>5, <1>6, <1>7, <1>8

-----------------------------------------------------------------------------
(* The theorems *)

\* Message and NamespaceMap hold namespaces and aliases where they should.
THEOREM MessageTypeCorrect == Spec => []TypeOK
  BY InitTyped, StepTyped, PTL DEF Spec

\* IInv holds in every reachable state (the two hashes of NamespaceMap and
\* the arguments of Message).
THEOREM Inductive == Spec => []IInv
  BY InitSound, StepSound, PTL DEF Spec

\* NamespaceMap is a bidirectional map in every reachable state.
THEOREM MessageBidirectional == Spec => []Bidirectional
<1>1. IInv => Bidirectional
  BY DEF IInv
<1> QED BY <1>1, Inductive, PTL

\* Every argument of a message has a wire key: to_post_args never meets a
\* namespace without an alias (Message#get_key).
THEOREM MessageKeys == Spec => []EveryArgHasKey
<1>1. IInv => EveryArgHasKey
  BY DEF IInv
<1> QED BY <1>1, Inductive, PTL

\* No alias is taken away or given to another namespace
\* (NamespaceMap#add_alias refuses both).
THEOREM MessageAliasesStay == Spec => AliasesStay
<1>1. IInv /\ [Next]_vars => [Stays]_vars
  BY StepSound
<1>2. Spec => [][Stays]_vars
  BY <1>1, Inductive, PTL DEF Spec
<1> QED BY <1>2 DEF AliasesStay, Stays

\* A message that was received and not changed is written as it came, declared
\* namespaces and undeclared prefixes alike (from_post_args, to_post_args),
\* if it has no arguments in a namespace declared as "sreg" (_fix_ns).
THEOREM MessagePassedOn == Spec => []PassedOn
<1>1. AsReceived /\ IInv /\ TypeOK => PassedOn
  BY PassesOn DEF AsReceived, PassedOn
<1>2. Spec => []AsReceived
  BY InitAsReceived, StepAsReceived, PTL DEF Spec
<1> QED BY <1>1, <1>2, Inductive, MessageTypeCorrect, PTL

\* to_post_args never writes two arguments under one key, unless one of them
\* came in under an undeclared prefix that was later made an alias.
THEOREM MessageClashes == Spec => []ClashNeedsUndeclared
<1>1. Spec => []ArgsFormed
  BY InitFormed, StepFormed, PTL DEF Spec
<1> QED BY <1>1, ClashExplained, Inductive, MessageTypeCorrect, PTL
=============================================================================
