------------------------ MODULE DiscoverySessionProofs ------------------------
(***************************************************************************)
(* For any threads, identifiers and discovery results, the services that   *)
(* begin has handed out and those left are the discovered list, in order,  *)
(* and none that is left is thrown away by a begin.                        *)
(*                                                                         *)
(* With the documents of the web behind it, a session's rotation of the    *)
(* services is one that DiscoveryManager allows, and so keeps both         *)
(* promises.  And for any documents, of any number of services and URIs:   *)
(* the services handed out are the right ones (RightService), in the order *)
(* PreferredFirst states, and begin gives up only when there are           *)
(* none (NothingOverlooked), or ParameterHides them.  That takes           *)
(*  - what FlattenSeq computes, by induction on the number of sequences,   *)
(*    and so what Where and SortBy, the two ways to arrange a list, do;    *)
(*  - from them, what discovery makes of elements, links and a whole site; *)
(*  - SInv, which ties the session to the discovery its list came from.    *)
(***************************************************************************)
EXTENDS DiscoverySession, FiniteSetTheorems, WellFoundedInduction, TLAPS

\* A list that is not empty is its head and its tail.
LEMMA HeadAndTail ==
  ASSUME NEW S, NEW s \in Seq(S), s # <<>>
  PROVE  /\ Head(s) \in S
         /\ Tail(s) \in Seq(S)
         /\ <<Head(s)>> \o Tail(s) = s
OBVIOUS

\* What was handed out moves from the front of one list to the end of the other.
LEMMA Shifted ==
  ASSUME NEW S, NEW h \in Seq(S), NEW s \in Seq(S), s # <<>>
  PROVE  Append(h, Head(s)) \o Tail(s) = h \o s
OBVIOUS

LEMMA ManagerForType ==
  ASSUME TypeOK, NEW u \in URLs, ManagerFor(u) # None
  PROVE  /\ ManagerFor(u) = manager
         /\ manager # None
         /\ manager \in Manager
BY DEF ManagerFor, TypeOK

\* A record is not None: the assumption on None.
LEMMA NoneIsNoManager == None \notin Manager /\ None \notin Service
BY DiscoveryManagerAssumption DEF Manager

\* The manager that discovery makes, after next has shifted it once.
LEMMA NewManagerType ==
  ASSUME NEW u \in URLs, NEW found \in Found[u], found.services # <<>>
  PROVE  /\ found.services \in Seq(Service)
         /\ [NewManager(u, found) EXCEPT !.services = Tail(@),
               !.current = Head(NewManager(u, found).services)] \in Manager
<1>1. found \in [url : URLs, services : Seq(Service)]
  BY DiscoveryManagerAssumption
<1>2. Head(found.services) \in Service /\ Tail(found.services) \in Seq(Service)
  BY <1>1, HeadAndTail
<1> QED BY <1>1, <1>2 DEF NewManager, Manager

\* A begin hands out the next service of the manager that is there.
LEMMA BeginTypes ==
  ASSUME TypeOK, NEW w \in Worker, NEW u \in URLs, Begin(w, u)
  PROVE  TypeOK'
<1>1. url' \in [Worker -> URLs] /\ begins' \in 0..MaxBegins
  BY DiscoveryManagerAssumption DEF Begin, TypeOK
<1>2. CASE /\ ManagerFor(u) # None
           /\ ManagerFor(u).services # <<>>
           /\ HandOut(ManagerFor(u), u)
           /\ handed' = Append(handed, Head(ManagerFor(u).services))
           /\ UNCHANGED <<pc, listed>>
  <2>1. manager \in Manager /\ ManagerFor(u) = manager
    BY <1>2, ManagerForType
  <2>2. Head(manager.services) \in Service /\ Tail(manager.services) \in Seq(Service)
    <3>1. manager.services \in Seq(Service) /\ manager.services # <<>>
      BY <1>2, <2>1 DEF Manager
    <3> QED BY <3>1, HeadAndTail
  <2>3. manager' \in Manager
    BY <1>2, <2>1, <2>2 DEF HandOut, Manager
  <2>4. answer' \in Answer
    BY <1>2, <2>1, <2>2 DEF HandOut, Answered, Answer
  <2>5. handed' \in Seq(Service)
    BY <1>2, <2>1, <2>2 DEF TypeOK
  <2> QED BY <1>1, <1>2, <2>3, <2>4, <2>5 DEF TypeOK
<1>3. CASE /\ IF ManagerFor(u) = None THEN UNCHANGED manager
                ELSE ManagerFor(u).services = <<>> /\ manager' = None
           /\ pc' = [pc EXCEPT ![w] = "discover"]
           /\ UNCHANGED <<listed, handed, answer>>
  BY <1>1, <1>3 DEF TypeOK
<1> QED BY <1>2, <1>3 DEF Begin

\* What discovery yields makes a new manager, or an answer without service.
LEMMA DiscoveredTypes ==
  ASSUME TypeOK, NEW w \in Worker, NEW found \in Found[url[w]], Discovered(w, found)
  PROVE  TypeOK'
<1>1. url[w] \in URLs
  BY DEF TypeOK
<1>2. pc' \in [Worker -> {"idle", "discover"}] /\ UNCHANGED <<url, begins>>
  BY DEF Discovered, TypeOK
<1>3. CASE found.services # <<>> /\ HandOut(NewManager(url[w], found), url[w])
           /\ listed' = found.services /\ handed' = <<Head(found.services)>>
  <2>1. found.services \in Seq(Service) /\ manager' \in Manager
    BY <1>1, <1>3, NewManagerType DEF HandOut
  <2>2. Head(found.services) \in Service
    BY <1>3, <2>1, HeadAndTail
  <2>3. answer' \in Answer
    BY <1>1, <1>3, <2>2 DEF HandOut, Answered, Answer, NewManager
  <2> QED BY <1>2, <1>3, <2>1, <2>2, <2>3 DEF TypeOK
<1>4. CASE /\ \E is \in {"raise", "failure"} : Answered(url[w], is, None)
           /\ UNCHANGED <<manager, listed, handed>>
  BY <1>1, <1>2, <1>4 DEF TypeOK, Answered, Answer
<1> QED BY <1>3, <1>4 DEF Discovered

\* The state is well typed, whatever threads, identifiers and lists there are.
THEOREM TypeCorrect == Spec => []TypeOK
<1>1. Init => TypeOK
  BY DiscoveryManagerAssumption DEF Init, TypeOK
<1>2. TypeOK /\ [Next]_vars => TypeOK'
  <2> SUFFICES ASSUME TypeOK, [Next]_vars PROVE TypeOK'
    OBVIOUS
  <2>1. ASSUME NEW w \in Worker, NEW u \in URLs, Begin(w, u) PROVE TypeOK'
    BY <2>1, BeginTypes
  <2>2. ASSUME NEW w \in Worker, NEW found \in Found[url[w]], Discovered(w, found)
        PROVE  TypeOK'
    BY <2>2, DiscoveredTypes
  <2>3. ASSUME NEW w \in Worker, DiscoveryFails(w) PROVE TypeOK'
    <3>1. url[w] \in URLs
      BY DEF TypeOK
    <3> QED BY <2>3, <3>1 DEF DiscoveryFails, Answered, Answer, TypeOK
  <2>4. CASE Cleanup
    BY <2>4 DEF Cleanup, TypeOK
  <2>5. CASE UNCHANGED vars
    BY <2>5 DEF vars, TypeOK
  <2> QED BY <2>1, <2>2, <2>3, <2>4, <2>5 DEF Next
<1> QED BY <1>1, <1>2, PTL DEF Spec

\* What begin has handed out and what the manager still holds make up the
\* discovered list, whatever the threads do.
THEOREM ManagerHandsInOrder == Spec => []HandedInOrder
<1>1. Init => HandedInOrder
  BY DEF Init, HandedInOrder
<1>2. TypeOK /\ HandedInOrder /\ [Next]_vars => HandedInOrder'
  <2> SUFFICES ASSUME TypeOK, HandedInOrder, [Next]_vars PROVE HandedInOrder'
    OBVIOUS
  <2>1. ASSUME NEW w \in Worker, NEW u \in URLs, Begin(w, u) PROVE HandedInOrder'
    <3>1. CASE /\ ManagerFor(u) # None
               /\ ManagerFor(u).services # <<>>
               /\ HandOut(ManagerFor(u), u)
               /\ handed' = Append(handed, Head(ManagerFor(u).services))
               /\ UNCHANGED <<pc, listed>>
      <4>1. manager \in Manager /\ ManagerFor(u) = manager /\ manager # None
        BY <3>1, ManagerForType
      <4>2. manager.services \in Seq(Service) /\ handed \in Seq(Service)
        BY <4>1 DEF Manager, TypeOK
      <4>3. manager'.services = Tail(manager.services)
        BY <3>1, <4>1 DEF HandOut, Manager
      <4>4. handed' \o manager'.services = handed \o manager.services
        BY <3>1, <4>1, <4>2, <4>3, Shifted
      <4> QED BY <3>1, <4>1, <4>4 DEF HandedInOrder
    <3>2. CASE /\ IF ManagerFor(u) = None THEN UNCHANGED manager
                    ELSE ManagerFor(u).services = <<>> /\ manager' = None
               /\ UNCHANGED <<listed, handed, answer>>
      BY <3>2 DEF HandedInOrder
    <3> QED BY <2>1, <3>1, <3>2 DEF Begin
  <2>2. ASSUME NEW w \in Worker, NEW found \in Found[url[w]], Discovered(w, found)
        PROVE  HandedInOrder'
    <3>1. CASE found.services # <<>> /\ HandOut(NewManager(url[w], found), url[w])
               /\ listed' = found.services /\ handed' = <<Head(found.services)>>
      <4>1. found.services \in Seq(Service)
        BY <3>1, NewManagerType DEF TypeOK
      <4>2. manager'.services = Tail(found.services)
        BY <3>1 DEF HandOut, NewManager
      <4> QED BY <3>1, <4>1, <4>2, HeadAndTail DEF HandedInOrder
    <3>2. CASE UNCHANGED <<manager, listed, handed>>
      BY <3>2 DEF HandedInOrder
    <3> QED BY <2>2, <3>1, <3>2 DEF Discovered
  <2>3. ASSUME NEW w \in Worker, DiscoveryFails(w) PROVE HandedInOrder'
    BY <2>3 DEF DiscoveryFails, HandedInOrder
  <2>4. CASE Cleanup
    BY <2>4 DEF Cleanup, HandedInOrder
  <2>5. CASE UNCHANGED vars
    BY <2>5 DEF vars, HandedInOrder
  <2> QED BY <2>1, <2>2, <2>3, <2>4, <2>5 DEF Next
<1> QED BY <1>1, <1>2, TypeCorrect, PTL DEF Spec

\* As long as services are left, a begin for their identifier takes the next
\* one or ends in an exception that leaves the manager alone.
THEOREM ManagerKeepsUntried == Spec => UntriedKept
<1>1. TypeOK /\ [Next]_vars => [UntriedKeptStep]_vars
  <2> SUFFICES ASSUME TypeOK, Next, NEW v \in URLs, ManagerFor(v) # None,
                      ManagerFor(v).services # <<>>, answer' # answer, answer'.for = v
               PROVE  \/ answer'.is # "service" /\ UNCHANGED <<manager, handed>>
                      \/ /\ answer'.service = Head(ManagerFor(v).services)
                         /\ manager' # None
                         /\ manager'.services = Tail(ManagerFor(v).services)
    BY DEF UntriedKeptStep
  <2>0. manager \in Manager /\ ManagerFor(v) = manager /\ manager # None
    BY ManagerForType
  <2>1. ASSUME NEW w \in Worker, NEW u \in URLs, Begin(w, u)
        PROVE  /\ answer'.service = Head(ManagerFor(v).services)
               /\ manager' # None
               /\ manager'.services = Tail(ManagerFor(v).services)
    <3>1. ManagerFor(u) # None /\ HandOut(ManagerFor(u), u)
      BY <2>1 DEF Begin
    <3>2. ManagerFor(u) = manager
      BY <3>1, ManagerForType
    <3>3. manager' \in Manager
      <4>1. Head(manager.services) \in Service /\ Tail(manager.services) \in Seq(Service)
        <5>1. manager.services \in Seq(Service) /\ manager.services # <<>>
          BY <2>0 DEF Manager
        <5> QED BY <5>1, HeadAndTail
      <4> QED BY <3>1, <3>2, <2>0, <4>1 DEF HandOut, Manager
    <3> QED BY <3>1, <3>2, <3>3, <2>0, NoneIsNoManager DEF HandOut, Answered, Manager
  <2>2. ASSUME NEW w \in Worker, NEW found \in Found[url[w]], Discovered(w, found)
        PROVE  answer'.is # "service" /\ UNCHANGED <<manager, handed>>
    <3>1. answer'.for = url[w]
      BY <2>2 DEF Discovered, HandOut, Answered
    <3>2. ManagerFor(url[w]) # None
      BY <3>1
    <3> QED BY <2>2, <3>2 DEF Discovered, Answered
  <2>3. ASSUME NEW w \in Worker, DiscoveryFails(w)
        PROVE  answer'.is # "service" /\ UNCHANGED <<manager, handed>>
    BY <2>3 DEF DiscoveryFails, Answered
  <2>4. ~Cleanup
    BY DEF Cleanup
  <2> QED BY <2>1, <2>2, <2>3, <2>4 DEF Next
<1> QED BY <1>1, TypeCorrect, PTL DEF Spec, UntriedKept

-----------------------------------------------------------------------------

\* Every step of the session is a step of the manager, or leaves it alone.
LEMMA SessionStep ==
  ASSUME url \in [Worker -> URLs], [SessionNext]_sessionVars
  PROVE  [Next]_vars
<1>1. ASSUME NEW w \in Worker, NEW u \in URLs, SessionBegin(w, u) PROVE Next
  BY <1>1 DEF SessionBegin, Next
<1>2. ASSUME NEW w \in Worker, NEW site \in Sites[url[w]], Resolve(w, site)
      PROVE  Next
  <2>1. Discover(site) \in Found[url[w]]
    BY <1>2, SitesAssumption DEF Resolve
  <2> QED BY <1>2, <2>1 DEF Resolve, Next
<1>3. ASSUME NEW w \in Worker, NEW site \in Sites[url[w]], ResolveFails(w, site) PROVE Next
  BY <1>3 DEF ResolveFails, Next
<1>4. CASE SessionCleanup
  BY <1>4 DEF SessionCleanup, Next
<1>5. CASE UNCHANGED sessionVars
  BY <1>5 DEF sessionVars, vars
<1> QED BY <1>1, <1>2, <1>3, <1>4, <1>5 DEF SessionNext

\* The identifiers of the begins on their way.
URLsOK == url \in [Worker -> URLs]

\* A session behaves as its manager may.
THEOREM SessionImplementsManager == SessionSpec => Spec
<1>1. SessionInit => Init /\ URLsOK
  BY DEF SessionInit, Init, URLsOK
<1>2. URLsOK /\ [SessionNext]_sessionVars => [Next]_vars
  BY SessionStep DEF URLsOK
<1>3. URLsOK /\ [Next]_vars => URLsOK'
  BY DEF Next, vars, Begin, Discovered, DiscoveryFails, Cleanup, URLsOK
<1> QED BY <1>1, <1>2, <1>3, PTL DEF SessionSpec, Spec

\* Whatever documents discovery finds, the services are handed out in the
\* order of the discovered list.
THEOREM SessionHandsInOrder == SessionSpec => []HandedInOrder
BY SessionImplementsManager, ManagerHandsInOrder, PTL

\* Whatever documents discovery finds, a begin takes the next service that is
\* left, or ends in an exception that leaves the manager alone.
THEOREM SessionKeepsUntried == SessionSpec => UntriedKept
BY SessionImplementsManager, ManagerKeepsUntried, PTL

-----------------------------------------------------------------------------
(* Sequences of sequences.                                                 *)

\* A set of naturals has a least member.
LEMMA Least ==
  ASSUME NEW T \in SUBSET Nat, T # {}
  PROVE  \E x \in T : \A y \in T : x <= y
<1> DEFINE Less == {p \in Nat \X Nat : p[1] < p[2]}
<1>1. OpToRel(<, Nat) = Less
  BY Zenon DEF OpToRel
<1>2. IsWellFoundedOn(Less, Nat)
  BY <1>1, NatLessThanWellFounded, Zenon
<1>3. PICK x \in T : \A y \in T : ~(<<y, x>> \in Less)
  BY <1>2, WFMin
<1>4. ASSUME NEW y \in T PROVE x <= y
  <2>1. ~(<<y, x>> \in Less)
    BY <1>3
  <2>2. <<y, x>> \in Nat \X Nat /\ <<y, x>>[1] = y /\ <<y, x>>[2] = x
    OBVIOUS
  <2>3. ~(y < x)
    BY <2>1, <2>2
  <2> QED BY <2>3
<1> QED BY <1>4

\* A set that holds 0, and the successor of each of its members, holds all.
LEMMA Induction ==
  ASSUME NEW S, 0 \in S, \A n \in Nat : n \in S => n + 1 \in S
  PROVE  \A n \in Nat : n \in S
<1> SUFFICES ASSUME Nat \ S # {} PROVE FALSE
  OBVIOUS
<1>1. PICK x \in Nat \ S : \A y \in Nat \ S : x <= y
  BY Least
<1>2. x # 0 /\ x - 1 \in Nat /\ ~(x <= x - 1)
  OBVIOUS
<1>3. x - 1 \in S
  BY <1>1, <1>2
<1> QED BY <1>2, <1>3

\* f[i] is the concatenation of the first i sequences, for i up to n.
Flattens(f, seqs, n) == f = [i \in 1..n |-> IF i = 1 THEN seqs[i] ELSE f[i-1] \o seqs[i]]

\* There are such functions: the recursion of FlattenSeq is well-founded.
LEMMA FlattensExists ==
  ASSUME NEW seqs
  PROVE  \A n \in Nat : \E f : Flattens(f, seqs, n)
<1> DEFINE S == {n \in Nat : \E f : Flattens(f, seqs, n)}
<1>1. 0 \in S
  <2> DEFINE f == [i \in 1..0 |-> seqs[i]]
  <2>1. f = [i \in 1..0 |-> IF i = 1 THEN seqs[i] ELSE f[i-1] \o seqs[i]]
    OBVIOUS
  <2> QED BY <2>1 DEF Flattens
<1>2. ASSUME NEW n \in Nat, n \in S PROVE n + 1 \in S
  <2>1. PICK f : Flattens(f, seqs, n)
    BY <1>2
  <2> DEFINE g == [i \in 1..n+1 |-> IF i <= n THEN f[i]
                                    ELSE IF i = 1 THEN seqs[i] ELSE f[i-1] \o seqs[i]]
  <2>2. ASSUME NEW i \in 1..n+1
        PROVE  g[i] = IF i = 1 THEN seqs[i] ELSE g[i-1] \o seqs[i]
    <3>1. CASE i <= n
      <4>0. i \in 1..n
        BY <3>1
      <4>1. f[i] = IF i = 1 THEN seqs[i] ELSE f[i-1] \o seqs[i]
        BY <2>1, <4>0, Zenon DEF Flattens
      <4>2. i # 1 => i - 1 \in 1..n+1 /\ i - 1 <= n
        BY <3>1
      <4>3. i # 1 => g[i-1] = f[i-1]
        BY <4>2
      <4> QED BY <3>1, <4>1, <4>3
    <3>2. CASE ~(i <= n)
      <4>1. i # 1 => i - 1 \in 1..n+1 /\ i - 1 <= n
        BY <3>2
      <4>2. i # 1 => g[i-1] = f[i-1]
        BY <4>1
      <4> QED BY <3>2, <4>2
    <3> QED BY <3>1, <3>2
  <2>3. Flattens(g, seqs, n + 1)
    <3> HIDE DEF g
    <3>1. g = [i \in 1..n+1 |-> g[i]]
      BY DEF g
    <3>2. [i \in 1..n+1 |-> g[i]] = [i \in 1..n+1 |-> IF i = 1 THEN seqs[i] ELSE g[i-1] \o seqs[i]]
      BY <2>2
    <3> QED BY <3>1, <3>2 DEF Flattens
  <2> QED BY <2>3
<1> HIDE DEF S
<1>3. \A n \in Nat : n \in S
  BY <1>1, <1>2, Induction
<1> QED BY <1>3 DEF S

\* What FlattenSeq computes, step by step.
LEMMA FlattenSteps ==
  ASSUME NEW seqs, Len(seqs) \in Nat, Len(seqs) # 0
  PROVE  \E f : /\ FlattenSeq(seqs) = f[Len(seqs)]
                /\ f[1] = seqs[1]
                /\ \A i \in 1..Len(seqs) : i # 1 => f[i] = f[i-1] \o seqs[i]
<1> DEFINE f == CHOOSE g : Flattens(g, seqs, Len(seqs))
<1>1. FlattenSeq(seqs) = f[Len(seqs)]
  BY DEF FlattenSeq, Flattens
<1>2. Flattens(f, seqs, Len(seqs))
  BY FlattensExists
<1> HIDE DEF f
<1>3. f = [i \in 1..Len(seqs) |-> IF i = 1 THEN seqs[i] ELSE f[i-1] \o seqs[i]]
  BY <1>2 DEF Flattens
<1>4. ASSUME NEW i \in 1..Len(seqs)
      PROVE  f[i] = IF i = 1 THEN seqs[i] ELSE f[i-1] \o seqs[i]
  BY <1>3, Zenon
<1>5. 1 \in 1..Len(seqs)
  OBVIOUS
<1>6. f[1] = seqs[1]
  BY <1>4, <1>5
<1>7. \A i \in 1..Len(seqs) : i # 1 => f[i] = f[i-1] \o seqs[i]
  BY <1>4
<1> QED BY <1>1, <1>6, <1>7

\* A place (n, k) is before another, (o, l).
Before(n, k, o, l) == n < o \/ (n = o /\ k < l)

\* x occurs before y in the first m sequences.
InOrder(x, y, seqs, m) ==
  \E n, o \in 1..m : \E k \in DOMAIN seqs[n], l \in DOMAIN seqs[o] :
    x = seqs[n][k] /\ y = seqs[o][l] /\ Before(n, k, o, l)

\* t holds the members of the first m sequences, in their order.
Flat(t, seqs, m) ==
  /\ \A n \in 1..m : \A k \in DOMAIN seqs[n] : \E i \in DOMAIN t : t[i] = seqs[n][k]
  /\ \A i \in DOMAIN t : \E n \in 1..m : \E k \in DOMAIN seqs[n] : t[i] = seqs[n][k]
  /\ \A i, j \in DOMAIN t : i < j => InOrder(t[i], t[j], seqs, m)

\* The first sequence, on its own.
LEMMA FlatOne ==
  ASSUME NEW S, NEW seqs \in Seq(Seq(S)), seqs # <<>>
  PROVE  Flat(seqs[1], seqs, 1)
<1>1. seqs[1] \in Seq(S) /\ 1..1 = {1}
  OBVIOUS
<1>2. DOMAIN seqs[1] \subseteq Int
  BY <1>1
<1>3. ASSUME NEW i \in DOMAIN seqs[1], NEW j \in DOMAIN seqs[1], i < j
      PROVE  InOrder(seqs[1][i], seqs[1][j], seqs, 1)
  <2>1. Before(1, i, 1, j)
    BY <1>2, <1>3 DEF Before
  <2> QED BY <1>1, <2>1 DEF InOrder
<1> QED BY <1>1, <1>3 DEF Flat

\* One more sequence at the end.
LEMMA FlatNext ==
  ASSUME NEW S, NEW seqs \in Seq(Seq(S)), NEW m \in Nat, m + 1 \in 1..Len(seqs),
         NEW t \in Seq(S), Flat(t, seqs, m)
  PROVE  Flat(t \o seqs[m+1], seqs, m + 1)
<1> DEFINE u == seqs[m+1]
           r == t \o u
<1>0. u \in Seq(S)
  OBVIOUS
<1> HIDE DEF u
<1>1. /\ r \in Seq(S)
      /\ DOMAIN r = 1..(Len(t) + Len(u)) /\ DOMAIN t = 1..Len(t) /\ DOMAIN u = 1..Len(u)
      /\ Len(t) \in Nat /\ Len(u) \in Nat
  BY <1>0
<1>2. \A i \in DOMAIN t : i \in DOMAIN r /\ r[i] = t[i]
  BY <1>0, <1>1
<1>3. \A k \in DOMAIN u : Len(t) + k \in DOMAIN r /\ r[Len(t) + k] = u[k]
  BY <1>0, <1>1
<1>4. \A i \in DOMAIN r : i \notin DOMAIN t => i - Len(t) \in DOMAIN u /\ r[i] = u[i - Len(t)]
  BY <1>0, <1>1
<1>5. 1..(m+1) = 1..m \union {m+1} /\ m + 1 \notin 1..m
  OBVIOUS
<1> HIDE DEF r
<1>6. ASSUME NEW n \in 1..(m+1), NEW k \in DOMAIN seqs[n]
      PROVE  \E i \in DOMAIN r : r[i] = seqs[n][k]
  <2>1. CASE n \in 1..m
    BY <1>2, <2>1 DEF Flat
  <2>2. CASE n = m + 1
    BY <1>3, <2>2 DEF u
  <2> QED BY <1>5, <2>1, <2>2
<1>7. ASSUME NEW i \in DOMAIN r
      PROVE  \E n \in 1..(m+1) : \E k \in DOMAIN seqs[n] : r[i] = seqs[n][k]
  <2>1. CASE i \in DOMAIN t
    <3>1. PICK n \in 1..m : \E k \in DOMAIN seqs[n] : t[i] = seqs[n][k]
      BY <2>1 DEF Flat
    <3>2. r[i] = t[i] /\ n \in 1..(m+1)
      BY <1>2, <1>5, <2>1
    <3> QED BY <3>1, <3>2
  <2>2. CASE i \notin DOMAIN t
    <3>1. i - Len(t) \in DOMAIN seqs[m+1] /\ r[i] = seqs[m+1][i - Len(t)]
      BY <1>4, <2>2 DEF u
    <3> QED BY <1>5, <3>1
  <2> QED BY <2>1, <2>2
<1>8. ASSUME NEW i \in DOMAIN r, NEW j \in DOMAIN r, i < j
      PROVE  InOrder(r[i], r[j], seqs, m + 1)
  <2>1. CASE i \in DOMAIN t /\ j \in DOMAIN t
    <3>1. InOrder(t[i], t[j], seqs, m)
      BY <1>8, <2>1 DEF Flat
    <3>2. InOrder(t[i], t[j], seqs, m + 1)
      BY <1>5, <3>1 DEF InOrder
    <3> QED BY <1>2, <2>1, <3>2
  <2>2. CASE i \in DOMAIN t /\ j \notin DOMAIN t
    <3>1. PICK n \in 1..m : \E k \in DOMAIN seqs[n] : t[i] = seqs[n][k]
      BY <2>2 DEF Flat
    <3>2. PICK k \in DOMAIN seqs[n] : t[i] = seqs[n][k]
      BY <3>1
    <3>3. j - Len(t) \in DOMAIN seqs[m+1] /\ r[j] = seqs[m+1][j - Len(t)]
      BY <1>4, <2>2 DEF u
    <3>4. r[i] = t[i] /\ n \in 1..(m+1) /\ m + 1 \in 1..(m+1) /\ n < m + 1
      BY <1>2, <1>5, <2>2
    <3> DEFINE l == j - Len(t)
    <3> HIDE DEF l
    <3>5. l \in DOMAIN seqs[m+1] /\ r[i] = seqs[n][k] /\ r[j] = seqs[m+1][l]
      BY <3>2, <3>3, <3>4 DEF l
    <3>6. \E p \in DOMAIN seqs[m+1] :
            r[i] = seqs[n][k] /\ r[j] = seqs[m+1][p] /\ Before(n, k, m + 1, p)
      BY <3>4, <3>5 DEF Before
    <3> QED BY <3>4, <3>6, Zenon DEF InOrder
  <2>3. CASE i \notin DOMAIN t /\ j \notin DOMAIN t
    <3>1. i - Len(t) \in DOMAIN seqs[m+1] /\ r[i] = seqs[m+1][i - Len(t)]
      BY <1>4, <2>3 DEF u
    <3>2. j - Len(t) \in DOMAIN seqs[m+1] /\ r[j] = seqs[m+1][j - Len(t)]
      BY <1>4, <2>3 DEF u
    <3>3. Before(m + 1, i - Len(t), m + 1, j - Len(t)) /\ m + 1 \in 1..(m+1)
      BY <1>1, <1>8 DEF Before
    <3> QED BY <3>1, <3>2, <3>3 DEF InOrder
  <2>4. ~(i \notin DOMAIN t /\ j \in DOMAIN t)
    BY <1>1, <1>8
  <2> QED BY <2>1, <2>2, <2>3, <2>4
<1>9. Flat(r, seqs, m + 1)
  BY <1>6, <1>7, <1>8 DEF Flat
<1> QED BY <1>9 DEF r, u

\* Flattening keeps the members, and their order.
LEMMA Flattened ==
  ASSUME NEW S, NEW seqs \in Seq(Seq(S))
  PROVE  FlattenSeq(seqs) \in Seq(S) /\ Flat(FlattenSeq(seqs), seqs, Len(seqs))
<1>1. CASE seqs = <<>>
  <2>1. FlattenSeq(seqs) = <<>>
    BY <1>1 DEF FlattenSeq
  <2>2. Len(seqs) = 0 /\ DOMAIN FlattenSeq(seqs) = {} /\ 1..0 = {}
    BY <1>1, <2>1
  <2> QED BY <2>1, <2>2 DEF Flat
<1>2. CASE seqs # <<>>
  <2>1. Len(seqs) \in Nat /\ Len(seqs) # 0
    BY <1>2
  <2>2. PICK f : /\ FlattenSeq(seqs) = f[Len(seqs)]
                 /\ f[1] = seqs[1]
                 /\ \A i \in 1..Len(seqs) : i # 1 => f[i] = f[i-1] \o seqs[i]
    BY <2>1, FlattenSteps
  <2> DEFINE T == {n \in Nat : n + 1 \in 1..Len(seqs) =>
                                 f[n+1] \in Seq(S) /\ Flat(f[n+1], seqs, n + 1)}
  <2>3. 0 \in T
    BY <1>2, <2>2, FlatOne
  <2>4. ASSUME NEW n \in Nat, n \in T PROVE n + 1 \in T
    <3> SUFFICES ASSUME n + 2 \in 1..Len(seqs)
                 PROVE  f[n+2] \in Seq(S) /\ Flat(f[n+2], seqs, n + 2)
      OBVIOUS
    <3>1. n + 1 \in 1..Len(seqs)
      BY <2>1
    <3>2. f[n+1] \in Seq(S) /\ Flat(f[n+1], seqs, n + 1)
      BY <2>4, <3>1
    <3>3. f[n+2] = f[n+1] \o seqs[n+2]
      <4>1. n + 2 # 1 /\ (n + 2) - 1 = n + 1
        OBVIOUS
      <4> QED BY <2>2, <4>1
    <3>4. seqs[n+2] \in Seq(S)
      OBVIOUS
    <3>5. Flat(f[n+1] \o seqs[(n+1)+1], seqs, (n + 1) + 1)
      BY <3>2, FlatNext
    <3> QED BY <3>2, <3>3, <3>4, <3>5
  <2> HIDE DEF T
  <2>5. \A n \in Nat : n \in T
    BY <2>3, <2>4, Induction
  <2>6. Len(seqs) - 1 \in T
    BY <2>1, <2>5
  <2>7. f[Len(seqs)] \in Seq(S) /\ Flat(f[Len(seqs)], seqs, Len(seqs))
    BY <2>1, <2>6 DEF T
  <2> QED BY <2>2, <2>7
<1> QED BY <1>1, <1>2

-----------------------------------------------------------------------------
(* Picking from a list, and sorting it.                                    *)

\* t holds members of the sequence s, in its order.
Picks(t, s, places) ==
  /\ \A p \in places : \E i \in DOMAIN t : t[i] = s[p]
  /\ \A i \in DOMAIN t : \E p \in places : t[i] = s[p]
  /\ \A i, j \in DOMAIN t : i < j =>
       \E p, q \in places : p < q /\ t[i] = s[p] /\ t[j] = s[q]

\* The members at some places, in their order.
LEMMA WherePicks ==
  ASSUME NEW S, NEW s \in Seq(S), NEW places \in SUBSET DOMAIN s
  PROVE  Where(s, places) \in Seq(S) /\ Picks(Where(s, places), s, places)
<1> DEFINE one(i) == IF i \in places THEN <<s[i]>> ELSE <<>>
           seqs == [i \in DOMAIN s |-> one(i)]
           t == FlattenSeq(seqs)
<1>1. DOMAIN s = 1..Len(s) /\ Len(s) \in Nat /\ \A i \in DOMAIN s : s[i] \in S
  OBVIOUS
<1>2. \A i \in DOMAIN s : one(i) \in Seq(S)
  BY <1>1
<1>3. \A i \in DOMAIN s : DOMAIN one(i) = IF i \in places THEN {1} ELSE {}
  OBVIOUS
<1>4. \A i \in places : i \in DOMAIN s /\ one(i)[1] = s[i]
  OBVIOUS
<1> HIDE DEF one
<1>5. seqs \in Seq(Seq(S)) /\ DOMAIN seqs = 1..Len(s) /\ Len(seqs) = Len(s)
  BY <1>1, <1>2
<1>6. \A i \in DOMAIN s : seqs[i] = one(i)
  OBVIOUS
<1> HIDE DEF seqs
<1>7. t \in Seq(S) /\ Flat(t, seqs, Len(s))
  BY <1>5, Flattened
<1> HIDE DEF t
<1>8. \A p \in places : \E i \in DOMAIN t : t[i] = s[p]
  <2> TAKE p \in places
  <2>1. p \in 1..Len(s) /\ 1 \in DOMAIN seqs[p] /\ seqs[p][1] = s[p]
    BY <1>1, <1>3, <1>4, <1>6
  <2> QED BY <1>7, <2>1 DEF Flat
<1>9. \A i \in 1..Len(s) : \A k \in DOMAIN seqs[i] : i \in places /\ k = 1 /\ seqs[i][k] = s[i]
  BY <1>1, <1>3, <1>4, <1>6
<1>10. ASSUME NEW i \in DOMAIN t PROVE \E p \in places : t[i] = s[p]
  <2>1. PICK n \in 1..Len(s) : \E k \in DOMAIN seqs[n] : t[i] = seqs[n][k]
    BY <1>7 DEF Flat
  <2> QED BY <1>9, <2>1
<1>11. ASSUME NEW i \in DOMAIN t, NEW j \in DOMAIN t, i < j
       PROVE  \E p, q \in places : p < q /\ t[i] = s[p] /\ t[j] = s[q]
  <2>0. InOrder(t[i], t[j], seqs, Len(s))
    BY <1>7, <1>11 DEF Flat
  <2>1. PICK n \in 1..Len(s), o \in 1..Len(s) : \E k \in DOMAIN seqs[n], l \in DOMAIN seqs[o] :
          t[i] = seqs[n][k] /\ t[j] = seqs[o][l] /\ Before(n, k, o, l)
    BY <2>0 DEF InOrder
  <2>2. PICK k \in DOMAIN seqs[n], l \in DOMAIN seqs[o] :
          t[i] = seqs[n][k] /\ t[j] = seqs[o][l] /\ Before(n, k, o, l)
    BY <2>1
  <2>3. n \in places /\ k = 1 /\ t[i] = s[n] /\ o \in places /\ l = 1 /\ t[j] = s[o]
    BY <1>9, <2>2
  <2>4. n < o
    BY <2>2, <2>3 DEF Before
  <2> QED BY <2>3, <2>4
<1> QED BY <1>7, <1>8, <1>10, <1>11 DEF Where, Picks, t, seqs, one

\* t holds the members of s by rank, and those of one rank as in s.
Sorted(t, s, rank) ==
  /\ \A p \in DOMAIN s : \E i \in DOMAIN t : t[i] = s[p]
  /\ \A i \in DOMAIN t : \E p \in DOMAIN s : t[i] = s[p]
  /\ \A i, j \in DOMAIN t : i < j =>
       \E p, q \in DOMAIN s : t[i] = s[p] /\ t[j] = s[q] /\ Before(rank[p], p, rank[q], q)

\* Sorting by ranks sorts, loses nothing and is stable.
LEMMA SortBySorts ==
  ASSUME NEW S, NEW s \in Seq(S), NEW ranks \in Nat, NEW rank, \A p \in DOMAIN s : rank[p] \in 1..ranks
  PROVE  SortBy(s, rank, ranks) \in Seq(S) /\ Sorted(SortBy(s, rank, ranks), s, rank)
<1> DEFINE places(r) == {p \in DOMAIN s : rank[p] = r}
           seqs == [r \in 1..ranks |-> Where(s, places(r))]
           t == FlattenSeq(seqs)
<1>1. \A r \in 1..ranks : places(r) \in SUBSET DOMAIN s
  OBVIOUS
<1>2. \A r \in 1..ranks : Where(s, places(r)) \in Seq(S) /\ Picks(Where(s, places(r)), s, places(r))
  BY <1>1, WherePicks
<1>3. seqs \in Seq(Seq(S)) /\ Len(seqs) = ranks
  BY <1>2
<1>4. \A r \in 1..ranks : Picks(seqs[r], s, places(r))
  BY <1>2
<1>5. t \in Seq(S) /\ Flat(t, seqs, ranks)
  BY <1>3, Flattened
<1>6. \A p \in DOMAIN s : p \in places(rank[p]) /\ rank[p] \in 1..ranks
  OBVIOUS
<1>7. \A r \in 1..ranks : \A p \in places(r) : p \in DOMAIN s /\ rank[p] = r
  OBVIOUS
<1> SUFFICES Sorted(t, s, rank)
  BY <1>5 DEF SortBy
<1> HIDE DEF places, seqs, t
<1>8. ASSUME NEW p \in DOMAIN s PROVE \E i \in DOMAIN t : t[i] = s[p]
  <2>1. PICK k \in DOMAIN seqs[rank[p]] : seqs[rank[p]][k] = s[p]
    BY <1>4, <1>6 DEF Picks
  <2> QED BY <1>5, <1>6, <2>1 DEF Flat
<1>9. ASSUME NEW i \in DOMAIN t PROVE \E p \in DOMAIN s : t[i] = s[p]
  <2>1. PICK r \in 1..ranks : \E k \in DOMAIN seqs[r] : t[i] = seqs[r][k]
    BY <1>5 DEF Flat
  <2> QED BY <1>4, <1>7, <2>1 DEF Picks
<1>10. ASSUME NEW i \in DOMAIN t, NEW j \in DOMAIN t, i < j
       PROVE  \E p, q \in DOMAIN s : t[i] = s[p] /\ t[j] = s[q] /\ Before(rank[p], p, rank[q], q)
  <2>0. InOrder(t[i], t[j], seqs, ranks)
    BY <1>5, <1>10 DEF Flat
  <2>1. PICK n \in 1..ranks, o \in 1..ranks : \E k \in DOMAIN seqs[n], l \in DOMAIN seqs[o] :
          t[i] = seqs[n][k] /\ t[j] = seqs[o][l] /\ Before(n, k, o, l)
    BY <2>0 DEF InOrder
  <2>2. PICK k \in DOMAIN seqs[n], l \in DOMAIN seqs[o] :
          t[i] = seqs[n][k] /\ t[j] = seqs[o][l] /\ Before(n, k, o, l)
    BY <2>1
  <2>3. CASE n = o
    <3>1. k < l
      BY <2>2, <2>3 DEF Before
    <3>2. PICK p \in places(n), q \in places(n) : p < q /\ seqs[n][k] = s[p] /\ seqs[n][l] = s[q]
      BY <1>4, <2>3, <3>1 DEF Picks
    <3>3. p \in DOMAIN s /\ q \in DOMAIN s /\ rank[p] = n /\ rank[q] = n
      BY <1>7
    <3>4. Before(rank[p], p, rank[q], q)
      BY <3>2, <3>3 DEF Before
    <3> QED BY <2>2, <2>3, <3>2, <3>3, <3>4
  <2>4. CASE n # o
    <3>1. n < o
      BY <2>2, <2>4 DEF Before
    <3>2. PICK p \in places(n) : seqs[n][k] = s[p]
      BY <1>4 DEF Picks
    <3>3. PICK q \in places(o) : seqs[o][l] = s[q]
      BY <1>4 DEF Picks
    <3>4. p \in DOMAIN s /\ q \in DOMAIN s /\ rank[p] = n /\ rank[q] = o
      BY <1>7
    <3>5. Before(rank[p], p, rank[q], q)
      BY <3>1, <3>4 DEF Before
    <3> QED BY <2>2, <3>2, <3>3, <3>4, <3>5
  <2> QED BY <2>3, <2>4
<1> QED BY <1>8, <1>9, <1>10 DEF Sorted

-----------------------------------------------------------------------------
(* The order of services and of URIs.                                      *)

\* The types, the literal ones among them.
Type == STRING \union {OPENID_IDP_2_0_TYPE, OPENID_2_0_TYPE, OPENID_1_1_TYPE, OPENID_1_0_TYPE}

\* The index of the first match, or the one after the last.
LEMMA BestMatchingRange ==
  ASSUME NEW T, NEW preferred \in Seq(T), NEW service
  PROVE  BestMatching(service, preferred) \in 1..(Len(preferred) + 1)
<1> DEFINE matching == {i \in DOMAIN preferred : preferred[i] \in service.types}
<1>1. CASE matching = {}
  BY <1>1 DEF BestMatching
<1>2. CASE matching # {}
  <2>1. matching \in SUBSET Nat
    OBVIOUS
  <2>2. \E x \in matching : \A y \in matching : x <= y
    BY <1>2, <2>1, Least
  <2>3. Min(matching) \in matching
    BY <2>2 DEF Min
  <2> QED BY <1>2, <2>3 DEF BestMatching
<1> QED BY <1>1, <1>2

\* The OP identifier services are those of rank 1.
LEMMA BestIsOP ==
  ASSUME NEW service
  PROVE  BestMatching(service, <<OPENID_IDP_2_0_TYPE>>) = IF IsOPIdentifier(service) THEN 1 ELSE 2
<1> DEFINE preferred == <<OPENID_IDP_2_0_TYPE>>
           matching == {i \in DOMAIN preferred : preferred[i] \in service.types}
<1>1. matching = IF IsOPIdentifier(service) THEN {1} ELSE {}
  BY DEF IsOPIdentifier
<1>2. Min({1}) = 1
  BY DEF Min
<1> QED BY <1>1, <1>2 DEF BestMatching

\* arrange_by_type sorts by the best match.
LEMMA ArrangeSorts ==
  ASSUME NEW S, NEW list \in Seq(S), NEW T, NEW preferred \in Seq(T)
  PROVE  /\ Arrange(list, preferred) \in Seq(S)
         /\ Sorted(Arrange(list, preferred), list,
                   [i \in DOMAIN list |-> BestMatching(list[i], preferred)])
<1>1. \A i \in DOMAIN list :
        [n \in DOMAIN list |-> BestMatching(list[n], preferred)][i] \in 1..(Len(preferred) + 1)
  BY BestMatchingRange
<1>2. Len(preferred) + 1 \in Nat
  OBVIOUS
<1> QED BY <1>1, <1>2, SortBySorts DEF Arrange

\* A sorted list is empty only if the list is.
LEMMA SortedEmpty ==
  ASSUME NEW S, NEW t \in Seq(S), NEW s \in Seq(S), NEW rank, Sorted(t, s, rank)
  PROVE  t = <<>> <=> s = <<>>
<1>1. (DOMAIN t = {}) <=> (DOMAIN s = {})
  BY DEF Sorted
<1> QED BY <1>1

\* What the services are sorted by.
OPRank(list) == [i \in DOMAIN list |-> IF IsOPIdentifier(list[i]) THEN 1 ELSE 2]

\* The services of an OP identifier come first, and the order within the
\* others is kept.
LEMMA OPFirst ==
  ASSUME NEW S, NEW list \in Seq(S)
  PROVE  /\ GetOPOrUserServices(list) \in Seq(S)
         /\ Sorted(GetOPOrUserServices(list), list, OPRank(list))
<1> DEFINE op == Arrange(list, <<OPENID_IDP_2_0_TYPE>>)
           user == Arrange(list, OPENID_TYPE_URIS)
<1>1. <<OPENID_IDP_2_0_TYPE>> \in Seq(Type) /\ OPENID_TYPE_URIS \in Seq(Type)
  BY DEF OPENID_TYPE_URIS, Type
<1>2. [i \in DOMAIN list |-> BestMatching(list[i], <<OPENID_IDP_2_0_TYPE>>)] = OPRank(list)
  BY BestIsOP DEF OPRank
<1>3. op \in Seq(S) /\ Sorted(op, list, OPRank(list))
  BY <1>1, <1>2, ArrangeSorts
<1>4. user \in Seq(S) /\ \E rank : Sorted(user, list, rank)
  BY <1>1, ArrangeSorts
<1>5. op = <<>> => user = op
  BY <1>3, <1>4, SortedEmpty
<1> HIDE DEF op, user
<1>6. GetOPOrUserServices(list) = op
  BY <1>5 DEF GetOPOrUserServices, op, user
<1> QED BY <1>3, <1>6

URI == [url : STRING, priority : Int]

PriorityRank(uris) ==
  [i \in DOMAIN uris |->
     1 + Cardinality({j \in DOMAIN uris : uris[j].priority < uris[i].priority})]

\* The rank of a URI tells its priority number.
LEMMA PriorityRanks ==
  ASSUME NEW uris \in Seq(URI)
  PROVE  /\ \A i \in DOMAIN uris : PriorityRank(uris)[i] \in 1..Len(uris)
         /\ \A i, j \in DOMAIN uris : PriorityRank(uris)[i] <= PriorityRank(uris)[j]
              => uris[i].priority <= uris[j].priority
<1> DEFINE below(i) == {j \in DOMAIN uris : uris[j].priority < uris[i].priority}
<1>1. DOMAIN uris = 1..Len(uris) /\ Len(uris) \in Nat
      /\ \A i \in DOMAIN uris : uris[i].priority \in Int
  <2>1. \A i \in DOMAIN uris : uris[i] \in URI
    OBVIOUS
  <2>2. \A uri \in URI : uri.priority \in Int
    BY DEF URI
  <2> QED BY <2>1, <2>2
<1>2. IsFiniteSet(DOMAIN uris) /\ Cardinality(DOMAIN uris) = Len(uris)
  <2>1. IsFiniteSet(1..Len(uris)) /\ Cardinality(1..Len(uris)) = IF 1 > Len(uris) THEN 0 ELSE Len(uris)-1+1
    BY <1>1, FS_Interval
  <2> QED BY <1>1, <2>1
<1>3. \A i \in DOMAIN uris : below(i) \in SUBSET DOMAIN uris /\ i \notin below(i)
  BY <1>1
<1>4. \A i \in DOMAIN uris : \A j \in below(i) : j \in DOMAIN uris /\ below(j) \in SUBSET below(i)
  BY <1>1
<1>5. \A i \in DOMAIN uris : PriorityRank(uris)[i] = 1 + Cardinality(below(i))
  BY DEF PriorityRank
<1>6. \A i, j \in DOMAIN uris : ~(uris[i].priority <= uris[j].priority) => j \in below(i)
  BY <1>1
<1> HIDE DEF below
<1>7. ASSUME NEW i \in DOMAIN uris
      PROVE  IsFiniteSet(below(i)) /\ Cardinality(below(i)) \in Nat /\ Cardinality(below(i)) < Len(uris)
  <2>1. IsFiniteSet(below(i)) /\ Cardinality(below(i)) <= Len(uris) /\ Cardinality(below(i)) # Len(uris)
    BY <1>2, <1>3, FS_Subset
  <2>2. Cardinality(below(i)) \in Nat
    BY <2>1, FS_CardinalityType
  <2> QED BY <1>1, <2>1, <2>2
<1>8. ASSUME NEW i \in DOMAIN uris, NEW j \in DOMAIN uris, ~(uris[i].priority <= uris[j].priority)
      PROVE  Cardinality(below(j)) < Cardinality(below(i))
  <2>1. j \in below(i) /\ below(j) \in SUBSET below(i) /\ below(j) # below(i)
    BY <1>3, <1>4, <1>6, <1>8
  <2>2. Cardinality(below(j)) <= Cardinality(below(i)) /\ Cardinality(below(j)) # Cardinality(below(i))
    BY <1>7, <2>1, FS_Subset
  <2> QED BY <1>7, <2>2
<1>9. ASSUME NEW i \in DOMAIN uris PROVE PriorityRank(uris)[i] \in 1..Len(uris)
  BY <1>1, <1>5, <1>7
<1>10. ASSUME NEW i \in DOMAIN uris, NEW j \in DOMAIN uris,
              PriorityRank(uris)[i] <= PriorityRank(uris)[j]
       PROVE  uris[i].priority <= uris[j].priority
  <2>1. Cardinality(below(i)) <= Cardinality(below(j))
    BY <1>5, <1>7, <1>10
  <2> QED BY <1>7, <1>8, <2>1
<1> QED BY <1>9, <1>10

\* The URIs of an element are sorted by their priority.
LEMMA PrioSorted ==
  ASSUME NEW uris \in Seq(URI)
  PROVE  PrioSort(uris) \in Seq(URI) /\ Sorted(PrioSort(uris), uris, PriorityRank(uris))
<1>1. Len(uris) \in Nat
  OBVIOUS
<1>2. SortBy(uris, PriorityRank(uris), Len(uris)) = PrioSort(uris)
  BY DEF PrioSort, PriorityRank
<1> HIDE DEF PriorityRank
<1> QED BY <1>1, <1>2, PriorityRanks, SortBySorts

OpenIDType(e) == e.types \cap Range(OPENID_TYPE_URIS) # {}

\* The URIs of a Service element that become endpoints: its usable ones, by
\* their priority.
LEMMA URIsByPriority ==
  ASSUME NEW e \in ServiceElement
  PROVE  /\ UsableURIs(e) \in Seq(URI)
         /\ \A k \in DOMAIN UsableURIs(e) :
              /\ OpenIDType(e)
              /\ UsableURIs(e)[k] \in Range(e.uris) /\ UsableURIs(e)[k].url # Absent
         /\ OpenIDType(e) => \A uri \in Range(e.uris) : uri.url # Absent =>
              \E k \in DOMAIN UsableURIs(e) : UsableURIs(e)[k] = uri
         /\ \A k, l \in DOMAIN UsableURIs(e) : k < l =>
              UsableURIs(e)[k].priority <= UsableURIs(e)[l].priority
<1>1. e.uris \in Seq(URI)
  BY DEF ServiceElement, URI
<1>2. CASE ~OpenIDType(e)
  <2>1. UsableURIs(e) = <<>>
    BY <1>2 DEF UsableURIs, OpenIDType
  <2> QED BY <1>2, <2>1
<1>3. CASE OpenIDType(e)
  <2> DEFINE uris == e.uris
             sorted == PrioSort(uris)
             places == {n \in DOMAIN sorted : sorted[n].url # Absent}
             t == Where(sorted, places)
  <2>1. sorted \in Seq(URI) /\ Sorted(sorted, uris, PriorityRank(uris))
    BY <1>1, PrioSorted
  <2>2. UsableURIs(e) = t
    BY <1>3 DEF UsableURIs, OpenIDType
  <2>3. places \in SUBSET DOMAIN sorted
    OBVIOUS
  <2> HIDE DEF sorted
  <2>4. t \in Seq(URI) /\ Picks(t, sorted, places)
    BY <2>1, <2>3, WherePicks
  <2> HIDE DEF t
  <2>5. ASSUME NEW k \in DOMAIN t PROVE t[k] \in Range(uris) /\ t[k].url # Absent
    <3>1. PICK p \in places : t[k] = sorted[p]
      BY <2>4 DEF Picks
    <3>2. PICK m \in DOMAIN uris : sorted[p] = uris[m]
      BY <2>1, <2>3 DEF Sorted
    <3> QED BY <3>1, <3>2 DEF Range
  <2>6. ASSUME NEW uri \in Range(uris), uri.url # Absent PROVE \E k \in DOMAIN t : t[k] = uri
    <3>1. PICK m \in DOMAIN uris : uri = uris[m]
      BY DEF Range
    <3>2. PICK p \in DOMAIN sorted : sorted[p] = uris[m]
      BY <2>1 DEF Sorted
    <3>3. p \in places
      BY <2>6, <3>1, <3>2
    <3> QED BY <2>4, <3>1, <3>2, <3>3 DEF Picks
  <2>7. ASSUME NEW k \in DOMAIN t, NEW l \in DOMAIN t, k < l PROVE t[k].priority <= t[l].priority
    <3>1. PICK p \in places, q \in places : p < q /\ t[k] = sorted[p] /\ t[l] = sorted[q]
      BY <2>4, <2>7 DEF Picks
    <3>2. PICK m \in DOMAIN uris, n \in DOMAIN uris :
            /\ sorted[p] = uris[m] /\ sorted[q] = uris[n]
            /\ Before(PriorityRank(uris)[m], m, PriorityRank(uris)[n], n)
      BY <2>1, <3>1 DEF Sorted
    <3>3. PriorityRank(uris)[m] <= PriorityRank(uris)[n]
      <4>1. PriorityRank(uris)[m] \in Int /\ PriorityRank(uris)[n] \in Int
        BY <1>1, PriorityRanks
      <4> QED BY <3>2, <4>1 DEF Before
    <3>4. uris[m].priority <= uris[n].priority
      BY <1>1, <3>3, PriorityRanks
    <3> QED BY <3>1, <3>2, <3>4
  <2> QED BY <1>3, <2>2, <2>4, <2>5, <2>6, <2>7
<1> QED BY <1>2, <1>3

-----------------------------------------------------------------------------
(* What discovery makes of elements and of links.                          *)

ServiceEndpoint ==
  [types : SUBSET Type, server : STRING, claimed : STRING \union {Absent}, local : STRING \union {Absent}]

\* What parse_service makes of an element and one of its URIs.
LEMMA Parsed ==
  ASSUME NEW where \in STRING, NEW e \in ServiceElement, NEW uri \in URI
  PROVE  /\ ParseService(where, e, uri) \in ServiceEndpoint
         /\ ParseService(where, e, uri).server = uri.url
         /\ ParseService(where, e, uri).types = e.types
         /\ ParseService(where, e, uri).claimed = IF IsOPIdentifier(e) THEN Absent ELSE where
<1>1. LocalIDs(e) \in SUBSET STRING
  BY DEF LocalIDs, ServiceElement
<1>2. LocalIDs(e) # {} => (CHOOSE id \in LocalIDs(e) : TRUE) \in STRING
  BY <1>1
<1>3. uri.url \in STRING /\ e.types \in SUBSET Type
  BY DEF URI, ServiceElement, Type
<1> QED BY <1>2, <1>3 DEF ParseService, Endpoint, ServiceEndpoint

\* The endpoints of one element.
EndpointsOf(where, e) ==
  [k \in DOMAIN UsableURIs(e) |-> ParseService(where, e, UsableURIs(e)[k])]

\* Every endpoint comes of a usable URI of an element, and none is lost; they
\* are in the order of the elements and, of one element, of the URIs.
LEMMA EndpointsFlat ==
  ASSUME NEW where \in STRING, NEW elements \in Seq(ServiceElement)
  PROVE  /\ Endpoints(where, elements) \in Seq(ServiceEndpoint)
         /\ Flat(Endpoints(where, elements),
                 [n \in DOMAIN elements |-> EndpointsOf(where, elements[n])], Len(elements))
<1> DEFINE seqs == [n \in DOMAIN elements |-> EndpointsOf(where, elements[n])]
<1>1. ASSUME NEW n \in DOMAIN elements PROVE EndpointsOf(where, elements[n]) \in Seq(ServiceEndpoint)
  <2>1. elements[n] \in ServiceElement
    OBVIOUS
  <2>2. UsableURIs(elements[n]) \in Seq(URI)
    BY <2>1, URIsByPriority
  <2>3. \A k \in DOMAIN UsableURIs(elements[n]) :
          ParseService(where, elements[n], UsableURIs(elements[n])[k]) \in ServiceEndpoint
    <3> TAKE k \in DOMAIN UsableURIs(elements[n])
    <3>1. UsableURIs(elements[n])[k] \in URI
      BY <2>2
    <3> QED BY <2>1, <3>1, Parsed
  <2> DEFINE uris == UsableURIs(elements[n])
             f(k) == ParseService(where, elements[n], uris[k])
  <2> HIDE DEF uris, f
  <2>4. uris \in Seq(URI) /\ \A k \in DOMAIN uris : f(k) \in ServiceEndpoint
    BY <2>2, <2>3 DEF uris, f
  <2>5. [k \in DOMAIN uris |-> f(k)] \in Seq(ServiceEndpoint)
    BY <2>4
  <2> QED BY <2>5 DEF EndpointsOf, uris, f
<1>2. seqs \in Seq(Seq(ServiceEndpoint)) /\ Len(seqs) = Len(elements)
  <2> DEFINE f(n) == EndpointsOf(where, elements[n])
  <2>1. \A n \in DOMAIN elements : f(n) \in Seq(ServiceEndpoint)
    BY <1>1
  <2> HIDE DEF f
  <2>2. /\ [n \in DOMAIN elements |-> f(n)] \in Seq(Seq(ServiceEndpoint))
        /\ Len([n \in DOMAIN elements |-> f(n)]) = Len(elements)
    BY <2>1
  <2> QED BY <2>2 DEF f
<1>3. Endpoints(where, elements) = FlattenSeq(seqs)
  BY DEF Endpoints, EndpointsOf
<1> HIDE DEF seqs
<1> QED BY <1>2, <1>3, Flattened DEF seqs

\* An endpoint and the element and URI it is of.
LEMMA EndpointOrigin ==
  ASSUME NEW where \in STRING, NEW elements \in Seq(ServiceElement),
         NEW n \in 1..Len(elements), NEW k \in DOMAIN EndpointsOf(where, elements[n])
  PROVE  LET s == EndpointsOf(where, elements[n])[k] IN
         /\ elements[n] \in ServiceElement
         /\ OpenIDType(elements[n])
         /\ k \in DOMAIN UsableURIs(elements[n])
         /\ UsableURIs(elements[n])[k] \in URI
         /\ UsableURIs(elements[n])[k] \in Range(elements[n].uris)
         /\ UsableURIs(elements[n])[k].url # Absent
         /\ s \in ServiceEndpoint
         /\ s.server = UsableURIs(elements[n])[k].url
         /\ s.types = elements[n].types
         /\ s.claimed = IF IsOPIdentifier(s) THEN Absent ELSE where
<1> DEFINE e == elements[n]
           uri == UsableURIs(e)[k]
<1>1. e \in ServiceElement /\ k \in DOMAIN UsableURIs(e)
  BY DEF EndpointsOf
<1>2. uri \in URI /\ OpenIDType(e) /\ uri \in Range(e.uris) /\ uri.url # Absent
  BY <1>1, URIsByPriority
<1>3. EndpointsOf(where, e)[k] = ParseService(where, e, uri)
  BY <1>1 DEF EndpointsOf
<1> QED BY <1>1, <1>2, <1>3, Parsed DEF IsOPIdentifier

ClaimsAt(service, where) ==
  service.claimed = IF IsOPIdentifier(service) THEN Absent ELSE where

\* What the elements offer, and what they claim.
LEMMA EndpointsClaim ==
  ASSUME NEW where \in STRING, NEW elements \in Seq(ServiceElement)
  PROVE  /\ \A s \in Range(Endpoints(where, elements)) : ClaimsAt(s, where)
         /\ Endpoints(where, elements) = <<>> =>
              \A e \in Range(elements) : OpenIDType(e) => \A uri \in Range(e.uris) : uri.url = Absent
<1> DEFINE t == Endpoints(where, elements)
           seqs == [n \in DOMAIN elements |-> EndpointsOf(where, elements[n])]
<1>1. t \in Seq(ServiceEndpoint) /\ Flat(t, seqs, Len(elements))
  BY EndpointsFlat
<1>2. \A n \in 1..Len(elements) : seqs[n] = EndpointsOf(where, elements[n])
  <2>1. DOMAIN elements = 1..Len(elements)
    OBVIOUS
  <2> QED BY <2>1
<1> HIDE DEF t, seqs
<1>3. ASSUME NEW i \in DOMAIN t PROVE ClaimsAt(t[i], where)
  <2>1. PICK n \in 1..Len(elements) : \E k \in DOMAIN seqs[n] : t[i] = seqs[n][k]
    BY <1>1 DEF Flat
  <2>2. PICK k \in DOMAIN EndpointsOf(where, elements[n]) :
          t[i] = EndpointsOf(where, elements[n])[k]
    BY <1>2, <2>1
  <2>3. ClaimsAt(EndpointsOf(where, elements[n])[k], where)
    BY EndpointOrigin DEF ClaimsAt
  <2> QED BY <2>2, <2>3
<1>4. ASSUME t = <<>>, NEW e \in Range(elements), OpenIDType(e), NEW uri \in Range(e.uris),
             uri.url # Absent
      PROVE  FALSE
  <2>1. PICK n \in 1..Len(elements) : e = elements[n]
    BY DEF Range
  <2>2. e \in ServiceElement
    BY <2>1
  <2>3. PICK k \in DOMAIN UsableURIs(e) : UsableURIs(e)[k] = uri
    BY <1>4, <2>2, URIsByPriority
  <2>4. k \in DOMAIN seqs[n]
    BY <1>2, <2>1, <2>3 DEF EndpointsOf
  <2>5. DOMAIN t # {}
    BY <1>1, <2>4 DEF Flat
  <2> QED BY <1>4, <2>5
<1> QED BY <1>3, <1>4 DEF Range, t

\* The links of a page: whatever there is, claimed for the page's own URL.
Links == [provider : STRING, localID : STRING, server : STRING, delegate : STRING]

LEMMA LinksClaim ==
  ASSUME NEW where \in STRING, NEW links \in Links
  PROVE  /\ FromHTML(where, links) \in Seq(ServiceEndpoint)
         /\ \A s \in Range(FromHTML(where, links)) : ClaimsAt(s, where) /\ ~IsOPIdentifier(s)
         /\ FromHTML(where, links) = <<>> => {links.provider, links.server} = {Absent}
<1> DEFINE a == Endpoint({OPENID_2_0_TYPE}, links.provider, where, links.localID)
           b == Endpoint({OPENID_1_1_TYPE}, links.server, where, links.delegate)
           services == <<a, b>>
           places == {n \in {1, 2} : services[n].server # Absent}
           t == Where(services, places)
<1>1. a \in ServiceEndpoint /\ b \in ServiceEndpoint
  BY DEF Endpoint, ServiceEndpoint, Links, Type
<1>2. services \in Seq(ServiceEndpoint) /\ places \in SUBSET DOMAIN services
  BY <1>1
<1>3. /\ a.claimed = where /\ ~IsOPIdentifier(a) /\ a.server = links.provider
      /\ b.claimed = where /\ ~IsOPIdentifier(b) /\ b.server = links.server
  BY DEF Endpoint, IsOPIdentifier, OPENID_2_0_TYPE, OPENID_1_1_TYPE, OPENID_IDP_2_0_TYPE
<1> HIDE DEF a, b
<1>4. /\ \A p \in places : services[p] \in {a, b}
      /\ (a.server # Absent => 1 \in places) /\ (b.server # Absent => 2 \in places)
  OBVIOUS
<1> HIDE DEF places, services
<1>5. t \in Seq(ServiceEndpoint) /\ Picks(t, services, places)
  BY <1>2, WherePicks
<1> HIDE DEF t
<1>6. \A i \in DOMAIN t : t[i] \in {a, b}
  BY <1>4, <1>5 DEF Picks
<1>7. t = <<>> => places = {}
  BY <1>5 DEF Picks
<1>8. FromHTML(where, links) = t
  BY DEF FromHTML, t, places, services, a, b
<1> QED BY <1>3, <1>4, <1>5, <1>6, <1>7, <1>8 DEF ClaimsAt, Range

-----------------------------------------------------------------------------
(* What discovery makes of a site.                                         *)

\* What is known of a URL's responses.
LEMMA URLSiteTypes ==
  ASSUME NEW site \in URLSite
  PROVE  /\ ~IsXRI(site)
         /\ site.accept \in Response /\ site.plain \in Response /\ Document(site) \in Response
BY DEF URLSite, IsXRI, Document

\* What is known of a response.
LEMMA ResponseTypes ==
  ASSUME NEW r \in Response
  PROVE  r.final \in STRING /\ r.elements \in Seq(ServiceElement) /\ r.links \in Links
BY DEF Response, Links

\* What is known of a resolver's answer.
LEMMA XRITypes ==
  ASSUME NEW a \in XRIAnswer
  PROVE  IsXRI(a) /\ a.iname \in STRING /\ a.canonical \in STRING /\ a.elements \in Seq(ServiceElement)
BY DEF XRIAnswer, IsXRI

\* The elements of a document that can be read are what counts.
LEMMA YadisTypes ==
  ASSUME NEW site \in URLSite
  PROVE  /\ Elements(site) \in Seq(ServiceElement)
         /\ YadisServices(site) = Endpoints(site.accept.final, Elements(site))
<1>1. ~IsXRI(site) /\ Document(site).elements \in Seq(ServiceElement)
  BY URLSiteTypes, ResponseTypes
<1>2. Endpoints(site.accept.final, <<>>) = <<>>
  BY DEF Endpoints, FlattenSeq
<1> QED BY <1>1, <1>2 DEF Elements, YadisServices, FromXRDS

\* What arranging keeps.
LEMMA ArrangedMembers ==
  ASSUME NEW S, NEW list \in Seq(S)
  PROVE  /\ \A s \in Range(GetOPOrUserServices(list)) : s \in Range(list)
         /\ GetOPOrUserServices(list) = <<>> => list = <<>>
<1>1. /\ GetOPOrUserServices(list) \in Seq(S)
      /\ Sorted(GetOPOrUserServices(list), list, OPRank(list))
  BY OPFirst
<1> QED BY <1>1, SortedEmpty DEF Sorted, Range

\* The services of a URL are claimed for the URL that its redirects ended in.
LEMMA URLClaims ==
  ASSUME NEW site \in URLSite
  PROVE  \A s \in Range(DiscoverURL(site).services) : ClaimsAt(s, DiscoverURL(site).url)
<1>1. /\ site.accept.final \in STRING /\ site.plain.final \in STRING
      /\ site.plain.links \in Links /\ Document(site).links \in Links
  BY URLSiteTypes, ResponseTypes
<1>2. Elements(site) \in Seq(ServiceElement)
      /\ YadisServices(site) = Endpoints(site.accept.final, Elements(site))
  BY YadisTypes
<1>3. CASE Refetched(site)
  BY <1>1, <1>3, LinksClaim DEF DiscoverURL
<1>4. CASE ~Refetched(site) /\ YadisServices(site) # <<>>
  <2>1. DiscoverURL(site) = [url |-> site.accept.final, services |-> GetOPOrUserServices(YadisServices(site))]
    BY <1>4 DEF DiscoverURL
  <2>2. /\ YadisServices(site) \in Seq(ServiceEndpoint)
        /\ \A s \in Range(YadisServices(site)) : ClaimsAt(s, site.accept.final)
    BY <1>1, <1>2, EndpointsFlat, EndpointsClaim
  <2> QED BY <2>1, <2>2, ArrangedMembers
<1>5. CASE ~Refetched(site) /\ YadisServices(site) = <<>>
  <2> DEFINE html == FromHTML(site.accept.final, Document(site).links)
  <2>1. DiscoverURL(site) = [url |-> site.accept.final, services |-> GetOPOrUserServices(html)]
    BY <1>5 DEF DiscoverURL
  <2>2. html \in Seq(ServiceEndpoint) /\ \A s \in Range(html) : ClaimsAt(s, site.accept.final)
    BY <1>1, LinksClaim
  <2> QED BY <2>1, <2>2, ArrangedMembers
<1> QED BY <1>3, <1>4, <1>5

\* Endpoints of a resolver's answer, claimed for the canonical ID.
Canonical(answered) ==
  LET found == Endpoints(answered.iname, answered.elements) IN
  [n \in DOMAIN found |-> [found[n] EXCEPT !.claimed = answered.canonical]]

\* Each of them claims it.
LEMMA CanonicalClaims ==
  ASSUME NEW a \in XRIAnswer
  PROVE  /\ Canonical(a) \in Seq(ServiceEndpoint)
         /\ \A s \in Range(Canonical(a)) : s.claimed = a.canonical
<1> DEFINE found == Endpoints(a.iname, a.elements)
<1>1. found \in Seq(ServiceEndpoint)
  BY XRITypes, EndpointsFlat
<1>2. a.canonical \in STRING
  BY XRITypes
<1> HIDE DEF found
<1>3. \A n \in DOMAIN found : found[n] \in ServiceEndpoint
  BY <1>1
<1>4. \A s \in ServiceEndpoint :
        /\ [s EXCEPT !.claimed = a.canonical] \in ServiceEndpoint
        /\ [s EXCEPT !.claimed = a.canonical].claimed = a.canonical
  BY <1>2 DEF ServiceEndpoint
<1>5. Canonical(a) = [n \in DOMAIN found |-> [found[n] EXCEPT !.claimed = a.canonical]]
  BY DEF Canonical, found
<1>6. \A n \in DOMAIN found : [found[n] EXCEPT !.claimed = a.canonical] \in ServiceEndpoint
  BY <1>3, <1>4
<1>7. Canonical(a) \in Seq(ServiceEndpoint)
  BY <1>1, <1>5, <1>6
<1>8. ASSUME NEW n \in DOMAIN Canonical(a) PROVE Canonical(a)[n].claimed = a.canonical
  <2>1. n \in DOMAIN found /\ Canonical(a)[n] = [found[n] EXCEPT !.claimed = a.canonical]
    BY <1>5
  <2>2. found[n] \in ServiceEndpoint
    BY <1>3, <2>1
  <2> QED BY <1>4, <2>1, <2>2
<1> QED BY <1>7, <1>8 DEF Range

\* The services of an XRI are claimed for its canonical ID.
LEMMA XRIClaims ==
  ASSUME NEW a \in XRIAnswer
  PROVE  \A s \in Range(DiscoverXRI(a).services) : s.claimed = a.canonical
<1> DEFINE list == IF a.ok /\ a.canonical # Absent THEN Canonical(a) ELSE <<>>
<1>1. DiscoverXRI(a).services = GetOPOrUserServices(list)
  BY DEF DiscoverXRI, Canonical
<1>2. list \in Seq(ServiceEndpoint) /\ \A s \in Range(list) : s.claimed = a.canonical
  <2>1. \A s \in Range(<<>>) : s.claimed = a.canonical
    BY DEF Range
  <2>2. <<>> \in Seq(ServiceEndpoint)
    OBVIOUS
  <2> QED BY <2>1, <2>2, CanonicalClaims
<1> HIDE DEF list
<1> QED BY <1>1, <1>2, ArrangedMembers

\* What a discovered service lets the user claim.
LEMMA Claims ==
  ASSUME NEW site \in URLSite \union XRIAnswer, NEW s \in Range(Discover(site).services)
  PROVE  IF IsXRI(site) THEN s.claimed = site.canonical ELSE ClaimsAt(s, Discover(site).url)
<1>1. CASE site \in URLSite
  BY <1>1, URLSiteTypes, URLClaims DEF Discover
<1>2. CASE site \in XRIAnswer
  BY <1>2, XRITypes, XRIClaims DEF Discover
<1> QED BY <1>1, <1>2

\* Discovery that finds nothing overlooks nothing, but behind a parameter.
LEMMA NothingFound ==
  ASSUME NEW site \in URLSite \union XRIAnswer, ~DiscoveryFailure(site), Discover(site).services = <<>>
  PROVE  ~Offers(site) \/ ParameterHides(site)
<1>1. CASE site \in URLSite
  <2>0. /\ ~IsXRI(site)
        /\ site.accept.final \in STRING /\ site.plain.final \in STRING
        /\ site.plain.links \in Links /\ Document(site).links \in Links
        /\ DiscoverURL(site).services = <<>> /\ ~URLFails(site)
    BY <1>1, URLSiteTypes, ResponseTypes DEF Discover, DiscoveryFailure
  <2>1. /\ Elements(site) \in Seq(ServiceElement)
        /\ YadisServices(site) = Endpoints(site.accept.final, Elements(site))
        /\ YadisServices(site) \in Seq(ServiceEndpoint)
    BY <1>1, <2>0, YadisTypes, EndpointsFlat
  <2>2. YadisServices(site) = <<>>
    <3>1. CASE ~Refetched(site) /\ YadisServices(site) # <<>>
      <4>1. GetOPOrUserServices(YadisServices(site)) = <<>>
        BY <2>0, <3>1 DEF DiscoverURL
      <4> QED BY <2>1, <4>1, ArrangedMembers
    <3> QED BY <3>1 DEF Refetched
  <2>3. \A e \in Range(Elements(site)) : ~Usable(e)
    BY <2>0, <2>1, <2>2, EndpointsClaim DEF Usable, OpenIDType
  <2>4. CASE Refetched(site)
    <3>1. site.plain.ok /\ FromHTML(site.plain.final, site.plain.links) = <<>>
      BY <2>0, <2>4 DEF URLFails, DiscoverURL
    <3>2. ~HasLink(site.plain)
      BY <2>0, <3>1, LinksClaim DEF HasLink
    <3>3. HTMLPage(site) = site.plain
      BY <2>4 DEF Refetched, IsXRDS, UsedYadisLocation, WhereIsYadis, Document, HTMLPage
    <3> QED BY <2>0, <2>3, <3>2, <3>3 DEF Offers
  <2>5. CASE ~Refetched(site)
    <3> DEFINE html == FromHTML(site.accept.final, Document(site).links)
    <3>1. GetOPOrUserServices(html) = <<>>
      BY <2>0, <2>2, <2>5 DEF DiscoverURL
    <3>2. html \in Seq(ServiceEndpoint)
      BY <2>0, LinksClaim
    <3>3. html = <<>>
      BY <3>1, <3>2, ArrangedMembers
    <3>4. Document(site) = site.accept
      BY <2>2, <2>5 DEF Refetched, IsXRDS, Document
    <3>5. ~HasLink(site.accept)
      BY <2>0, <3>3, <3>4, LinksClaim DEF HasLink
    <3>6. site.accept.type = "xrds;" \/ HTMLPage(site) = site.accept
      BY <2>2, <2>5, <3>4 DEF Refetched, IsXRDS, UsedYadisLocation, WhereIsYadis, HTMLPage
    <3> QED BY <2>0, <2>3, <3>5, <3>6 DEF Offers, ParameterHides
  <2> QED BY <2>4, <2>5
<1>2. CASE site \in XRIAnswer
  <2>1. /\ IsXRI(site) /\ site.iname \in STRING /\ site.elements \in Seq(ServiceElement)
        /\ Elements(site) = site.elements /\ DiscoverXRI(site).services = <<>>
    BY <1>2, XRITypes DEF Discover, Elements
  <2>2. CASE site.ok /\ site.canonical # Absent
    <3>1. GetOPOrUserServices(Canonical(site)) = <<>>
      BY <2>1, <2>2 DEF DiscoverXRI, Canonical
    <3>2. Canonical(site) = <<>>
      BY <1>2, <3>1, CanonicalClaims, ArrangedMembers
    <3>3. Endpoints(site.iname, site.elements) = <<>>
      <4>1. Endpoints(site.iname, site.elements) \in Seq(ServiceEndpoint)
        BY <2>1, EndpointsFlat
      <4>2. DOMAIN Endpoints(site.iname, site.elements) = DOMAIN Canonical(site)
        BY DEF Canonical
      <4> QED BY <3>2, <4>1, <4>2
    <3>4. \A e \in Range(site.elements) : ~Usable(e)
      BY <2>1, <3>3, EndpointsClaim DEF Usable, OpenIDType
    <3> QED BY <2>1, <3>4 DEF Offers
  <2>3. CASE ~(site.ok /\ site.canonical # Absent)
    BY <2>1, <2>3 DEF Offers
  <2> QED BY <2>2, <2>3
<1> QED BY <1>1, <1>2

-----------------------------------------------------------------------------
(* The session, and where its list came from.                              *)

\* The listed services are what was discovered for u.
ListedFor(u) ==
  /\ source \in Sites[u]
  /\ listed = Discover(source).services

\* A manager is that of an identifier, and of the URL found for it.
ManagerKnown ==
  manager # None => \E u \in URLs :
    ListedFor(u) /\ manager.starting = u /\ manager.yadis = Discover(source).url

ListKnown == listed # <<>> => \E u \in URLs : ListedFor(u)

\* A service is one of those listed, for the identifier at hand or one that
\* redirects to it.
ServiceKnown ==
  answer # None /\ answer.is = "service" =>
    /\ answer.service \in Range(listed)
    /\ \E u \in URLs : ListedFor(u) /\ answer.for \in {u, Discover(source).url}

\* A failure is that of the last discovery, which found nothing.
FailureKnown ==
  answer # None /\ answer.is = "failure" =>
    DiscoveryFailure(asked) \/ (\E u \in URLs : asked \in Sites[u] /\ Discover(asked).services = <<>>)

\* The inductive invariant of the session.
SInv == TypeOK /\ HandedInOrder /\ ManagerKnown /\ ListKnown /\ ServiceKnown /\ FailureKnown

\* The assumption: a discovered list is one of the identifier's.
LEMMA DiscoveredIsFound ==
  ASSUME NEW u \in URLs, NEW site \in Sites[u], ~DiscoveryFailure(site)
  PROVE  /\ Discover(site) \in Found[u]
         /\ Discover(site).services \in Seq(Service)
         /\ site \in URLSite \union XRIAnswer
<1>1. Discover(site) \in Found[u] /\ site \in URLSite \union XRIAnswer
  BY SitesAssumption
<1>2. Discover(site) \in [url : URLs, services : Seq(Service)]
  BY <1>1, DiscoveryManagerAssumption
<1> QED BY <1>1, <1>2

\* What is left to hand out is listed.
LEMMA HeadListed ==
  ASSUME NEW S, NEW h \in Seq(S), NEW s \in Seq(S), s # <<>>
  PROVE  Head(s) \in Range(h \o s)
<1>1. Len(h) + 1 \in DOMAIN (h \o s) /\ (h \o s)[Len(h) + 1] = Head(s)
  OBVIOUS
<1> QED BY <1>1 DEF Range

\* A begin hands out what is listed, or goes to discover.
LEMMA SessionBeginKeeps ==
  ASSUME SInv, NEW w \in Worker, NEW u \in URLs, SessionBegin(w, u)
  PROVE  ManagerKnown' /\ ListKnown' /\ ServiceKnown' /\ FailureKnown'
<1>0. UNCHANGED <<asked, source, listed>>
  BY DEF SessionBegin, Begin
<1>1. CASE /\ ManagerFor(u) # None
           /\ ManagerFor(u).services # <<>>
           /\ HandOut(ManagerFor(u), u)
  <2>1. manager \in Manager /\ ManagerFor(u) = manager /\ manager # None
        /\ u \in {manager.starting, manager.yadis}
    BY <1>1, ManagerForType DEF SInv, ManagerFor
  <2>2. PICK v \in URLs : ListedFor(v) /\ manager.starting = v /\ manager.yadis = Discover(source).url
    BY <2>1 DEF SInv, ManagerKnown
  <2>3. manager'.starting = v /\ manager'.yadis = Discover(source).url
    BY <1>1, <2>1, <2>2 DEF HandOut, Manager
  <2>4. answer'.service = Head(manager.services) /\ answer'.for = u /\ answer'.is = "service"
    BY <1>1, <2>1 DEF HandOut, Answered
  <2>5. Head(manager.services) \in Range(listed)
    <3>1. handed \in Seq(Service) /\ manager.services \in Seq(Service) /\ manager.services # <<>>
      BY <1>1, <2>1 DEF SInv, TypeOK, Manager
    <3>2. handed \o manager.services = listed
      BY <2>1 DEF SInv, HandedInOrder
    <3> QED BY <3>1, <3>2, HeadListed
  <2>6. ListedFor(v)'
    BY <1>0, <2>2 DEF ListedFor
  <2> QED BY <1>0, <2>1, <2>2, <2>3, <2>4, <2>5, <2>6
          DEF ManagerKnown, ListKnown, ServiceKnown, FailureKnown
<1>2. CASE /\ IF ManagerFor(u) = None THEN UNCHANGED manager
                ELSE ManagerFor(u).services = <<>> /\ manager' = None
           /\ UNCHANGED answer
  BY <1>0, <1>2 DEF SInv, ManagerKnown, ListKnown, ServiceKnown, FailureKnown, ListedFor
<1> QED BY <1>1, <1>2 DEF SessionBegin, Begin

\* A discovery that succeeds.
LEMMA ResolveKeeps ==
  ASSUME SInv, NEW w \in Worker, NEW site \in Sites[url[w]], Resolve(w, site)
  PROVE  ManagerKnown' /\ ListKnown' /\ ServiceKnown' /\ FailureKnown'
<1>1. PICK u \in URLs : u = url[w]
  BY DEF SInv, TypeOK
<1> DEFINE found == Discover(site)
<1>2. site \in Sites[u] /\ found \in Found[u] /\ found.services \in Seq(Service)
  BY <1>1, DiscoveredIsFound DEF Resolve
<1>3. Discovered(w, found) /\ asked' = site
      /\ source' = IF answer'.is = "service" THEN site ELSE source
  BY DEF Resolve
<1>4. CASE /\ found.services # <<>>
           /\ HandOut(NewManager(u, found), u)
           /\ listed' = found.services
  <2>1. manager'.starting = u /\ manager'.yadis = found.url
    BY <1>4 DEF HandOut, NewManager
  <2>2. answer'.service = Head(found.services) /\ answer'.for = u /\ answer'.is = "service"
    BY <1>4 DEF HandOut, Answered, NewManager
  <2>3. ListedFor(u)' /\ source' = site
    BY <1>2, <1>3, <1>4, <2>2 DEF ListedFor
  <2>4. Head(found.services) \in Range(listed')
    <3>1. 1 \in DOMAIN found.services /\ Head(found.services) = found.services[1]
      BY <1>2, <1>4
    <3> QED BY <1>4, <3>1 DEF Range
  <2> HIDE DEF found
  <2>5. found = Discover(site)
    BY DEF found
  <2> QED BY <1>1, <2>1, <2>2, <2>3, <2>4, <2>5
          DEF ManagerKnown, ListKnown, ServiceKnown, FailureKnown
<1>5. CASE Answered(u, "raise", None) /\ UNCHANGED <<manager, listed, handed>>
  <2>1. UNCHANGED source /\ answer'.is = "raise"
    BY <1>3, <1>5 DEF Answered
  <2> QED BY <1>5, <2>1
          DEF SInv, ManagerKnown, ListKnown, ServiceKnown, FailureKnown, ListedFor
<1>6. CASE /\ found.services = <<>>
           /\ Answered(u, "failure", None) /\ UNCHANGED <<manager, listed, handed>>
  <2>1. UNCHANGED source /\ answer'.is = "failure"
    BY <1>3, <1>6 DEF Answered
  <2>2. ManagerKnown' /\ ListKnown' /\ ServiceKnown'
    BY <1>6, <2>1 DEF SInv, ManagerKnown, ListKnown, ServiceKnown, ListedFor
  <2>3. FailureKnown'
    BY <1>2, <1>3, <1>6 DEF FailureKnown
  <2> QED BY <2>2, <2>3
<1> QED BY <1>1, <1>3, <1>4, <1>5, <1>6 DEF Discovered

\* A discovery that fails.
LEMMA ResolveFailsKeeps ==
  ASSUME SInv, NEW w \in Worker, NEW site \in Sites[url[w]], ResolveFails(w, site)
  PROVE  ManagerKnown' /\ ListKnown' /\ ServiceKnown' /\ FailureKnown'
<1>1. /\ UNCHANGED <<manager, listed, source>> /\ answer'.is = "failure"
      /\ asked' = site /\ DiscoveryFailure(site)
  BY DEF ResolveFails, DiscoveryFails, Answered
<1> QED BY <1>1 DEF SInv, ManagerKnown, ListKnown, ServiceKnown, FailureKnown, ListedFor

\* Where the services of a session, and its failures, come from.
THEOREM SessionKnown == SessionSpec => []SInv
<1> DEFINE Known == ManagerKnown /\ ListKnown /\ ServiceKnown /\ FailureKnown
<1>1. SessionInit => Known
  BY DEF SessionInit, Init, ManagerKnown, ListKnown, ServiceKnown, FailureKnown
<1>2. TypeOK /\ HandedInOrder /\ Known /\ [SessionNext]_sessionVars => Known'
  <2> SUFFICES ASSUME TypeOK, HandedInOrder, Known, [SessionNext]_sessionVars PROVE Known'
    OBVIOUS
  <2>0. SInv
    BY DEF SInv
  <2>1. ASSUME NEW w \in Worker, NEW u \in URLs, SessionBegin(w, u) PROVE Known'
    BY <2>0, <2>1, SessionBeginKeeps
  <2>2. ASSUME NEW w \in Worker, NEW site \in Sites[url[w]], Resolve(w, site) PROVE Known'
    BY <2>0, <2>2, ResolveKeeps
  <2>3. ASSUME NEW w \in Worker, NEW site \in Sites[url[w]], ResolveFails(w, site) PROVE Known'
    BY <2>0, <2>3, ResolveFailsKeeps
  <2>4. CASE SessionCleanup
    BY <2>4 DEF SessionCleanup, Cleanup, ManagerKnown, ListKnown, ServiceKnown, FailureKnown, ListedFor
  <2>5. CASE UNCHANGED sessionVars
    BY <2>5 DEF sessionVars, ManagerKnown, ListKnown, ServiceKnown, FailureKnown, ListedFor
  <2> QED BY <2>1, <2>2, <2>3, <2>4, <2>5 DEF SessionNext
<1>3. SInv <=> TypeOK /\ HandedInOrder /\ Known
  BY DEF SInv
<1> HIDE DEF Known
<1>4. SessionSpec => []TypeOK
  BY SessionImplementsManager, TypeCorrect, PTL
<1> QED BY <1>1, <1>2, <1>3, <1>4, SessionHandsInOrder, PTL DEF SessionSpec

\* Whatever documents the web holds, a service that begin hands out was
\* discovered for its identifier and claims the URL at the end of the
\* redirects, or the canonical ID.
THEOREM SessionRightService == SessionSpec => []RightService
<1>1. SInv => RightService
  <2> SUFFICES ASSUME SInv, answer # None, answer.is = "service"
               PROVE  /\ \E u \in URLs : source \in Sites[u] /\ answer.for \in {u, Discover(source).url}
                      /\ IF IsXRI(source) THEN answer.service.claimed = source.canonical
                                          ELSE ClaimsAt(answer.service, Discover(source).url)
    BY DEF RightService, ClaimsAt
  <2>1. PICK u \in URLs : ListedFor(u) /\ answer.for \in {u, Discover(source).url}
    BY DEF SInv, ServiceKnown
  <2>2. source \in Sites[u] /\ answer.service \in Range(Discover(source).services)
    BY <2>1 DEF SInv, ServiceKnown, ListedFor
  <2>3. source \in URLSite \union XRIAnswer
    BY <2>2, SitesAssumption
  <2> QED BY <2>1, <2>2, <2>3, Claims
<1> QED BY <1>1, SessionKnown, PTL

\* Whatever documents the web holds, a begin that gives up has overlooked
\* no usable service, and no link of the page either unless the identifier
\* answered with an XRDS document whose content type has a parameter.
THEOREM SessionOverlooksNothing == SessionSpec => []NothingOverlooked
<1>1. SInv => NothingOverlooked
  <2> SUFFICES ASSUME SInv, answer # None, answer.is = "failure", ~DiscoveryFailure(asked)
               PROVE  ~Offers(asked) \/ ParameterHides(asked)
    BY DEF NothingOverlooked
  <2>1. PICK u \in URLs : asked \in Sites[u] /\ Discover(asked).services = <<>>
    BY DEF SInv, FailureKnown
  <2> QED BY <2>1, SitesAssumption, NothingFound
<1> QED BY <1>1, SessionKnown, PTL

-----------------------------------------------------------------------------
(* The order of preference.                                                *)

\* A list in the order of preference, given the elements it is made of.
Preferred(t, elements) ==
  \A i, j \in DOMAIN t : i < j =>
    /\ IsOPIdentifier(t[j]) => IsOPIdentifier(t[i])
    /\ \A e \in Range(elements) : \A a, b \in Range(e.uris) :
         /\ Usable(e)
         /\ NamedOnce(elements, a.url) /\ NamedOnce(elements, b.url)
         /\ t[i].server = a.url /\ t[j].server = b.url
         => a.priority <= b.priority

\* The nth element's kth endpoint is that of the mth element's URI a.
OfURI(where, elements, n, k, m, a) ==
  /\ n = m
  /\ UsableURIs(elements[n])[k] = a
  /\ EndpointsOf(where, elements[n])[k].types = elements[m].types

\* The URL of a service tells the element and the URI, if it occurs once.
LEMMA NamedOrigin ==
  ASSUME NEW where \in STRING, NEW elements \in Seq(ServiceElement),
         NEW n \in 1..Len(elements), NEW k \in DOMAIN EndpointsOf(where, elements[n]),
         NEW m \in 1..Len(elements), NEW a \in Range(elements[m].uris),
         NamedOnce(elements, a.url),
         EndpointsOf(where, elements[n])[k].server = a.url
  PROVE  OfURI(where, elements, n, k, m, a)
<1>1. /\ UsableURIs(elements[n])[k] \in Range(elements[n].uris)
      /\ UsableURIs(elements[n])[k].url = a.url
      /\ EndpointsOf(where, elements[n])[k].types = elements[n].types
  BY EndpointOrigin
<1>2. PICK x \in DOMAIN elements[n].uris : UsableURIs(elements[n])[k] = elements[n].uris[x]
  BY <1>1 DEF Range
<1>3. PICK y \in DOMAIN elements[m].uris : a = elements[m].uris[y]
  BY DEF Range
<1>4. n \in DOMAIN elements /\ m \in DOMAIN elements
  OBVIOUS
<1>5. elements[n].uris[x].url = a.url /\ elements[m].uris[y].url = a.url
  BY <1>1, <1>2, <1>3
<1>6. n = m /\ x = y
  BY <1>4, <1>5 DEF NamedOnce
<1> QED BY <1>1, <1>2, <1>3, <1>6 DEF OfURI

\* Of two endpoints of one element, the first has the lower priority number.
LEMMA EndpointsPreferred ==
  ASSUME NEW where \in STRING, NEW elements \in Seq(ServiceElement),
         NEW e \in Range(elements), NEW a \in Range(e.uris), NEW b \in Range(e.uris),
         NamedOnce(elements, a.url), NamedOnce(elements, b.url)
  PROVE  LET t == Endpoints(where, elements) IN
         /\ \A p \in DOMAIN t : t[p].server \in {a.url, b.url} => t[p].types = e.types
         /\ \A p, q \in DOMAIN t : p < q /\ t[p].server = a.url /\ t[q].server = b.url
              => a.priority <= b.priority
<1> DEFINE t == Endpoints(where, elements)
           seqs == [n \in DOMAIN elements |-> EndpointsOf(where, elements[n])]
<1>1. Flat(t, seqs, Len(elements))
  BY EndpointsFlat
<1>2. \A n \in 1..Len(elements) : seqs[n] = EndpointsOf(where, elements[n])
  <2>1. DOMAIN elements = 1..Len(elements)
    OBVIOUS
  <2> QED BY <2>1
<1>3. PICK m \in 1..Len(elements) : e = elements[m]
  BY DEF Range
<1>4. ASSUME NEW c \in {a, b}, NEW n \in 1..Len(elements),
             NEW k \in DOMAIN EndpointsOf(where, elements[n]),
             EndpointsOf(where, elements[n])[k].server = c.url
      PROVE  /\ n = m
             /\ UsableURIs(e)[k] = c
             /\ EndpointsOf(where, elements[n])[k].types = e.types
  <2>1. c \in Range(elements[m].uris) /\ NamedOnce(elements, c.url)
    BY <1>3
  <2>2. OfURI(where, elements, n, k, m, c)
    BY <1>4, <2>1, NamedOrigin
  <2> QED BY <1>3, <2>2 DEF OfURI
<1> HIDE DEF t, seqs
<1>5. ASSUME NEW p \in DOMAIN t, t[p].server \in {a.url, b.url} PROVE t[p].types = e.types
  <2>1. PICK n \in 1..Len(elements) : \E k \in DOMAIN seqs[n] : t[p] = seqs[n][k]
    BY <1>1 DEF Flat
  <2>2. PICK k \in DOMAIN EndpointsOf(where, elements[n]) :
          t[p] = EndpointsOf(where, elements[n])[k]
    BY <1>2, <2>1
  <2>3. PICK c \in {a, b} : t[p].server = c.url
    BY <1>5
  <2> QED BY <1>4, <2>2, <2>3
<1>6. ASSUME NEW p \in DOMAIN t, NEW q \in DOMAIN t, p < q,
             t[p].server = a.url, t[q].server = b.url
      PROVE  a.priority <= b.priority
  <2>0. InOrder(t[p], t[q], seqs, Len(elements))
    BY <1>1, <1>6 DEF Flat
  <2>1. PICK n \in 1..Len(elements), o \in 1..Len(elements) :
          \E k \in DOMAIN seqs[n], l \in DOMAIN seqs[o] :
            t[p] = seqs[n][k] /\ t[q] = seqs[o][l] /\ Before(n, k, o, l)
    BY <2>0 DEF InOrder
  <2>2. PICK k \in DOMAIN EndpointsOf(where, elements[n]),
             l \in DOMAIN EndpointsOf(where, elements[o]) :
          /\ t[p] = EndpointsOf(where, elements[n])[k]
          /\ t[q] = EndpointsOf(where, elements[o])[l]
          /\ Before(n, k, o, l)
    BY <1>2, <2>1
  <2>3. n = m /\ UsableURIs(e)[k] = a
    BY <1>4, <1>6, <2>2
  <2>4. o = m /\ UsableURIs(e)[l] = b
    BY <1>4, <1>6, <2>2
  <2>5. k < l
    BY <2>2, <2>3, <2>4 DEF Before
  <2>6. e \in ServiceElement /\ k \in DOMAIN UsableURIs(e) /\ l \in DOMAIN UsableURIs(e)
    BY <1>3, <2>3, <2>4 DEF EndpointsOf
  <2> QED BY <2>3, <2>4, <2>5, <2>6, URIsByPriority
<1> QED BY <1>5, <1>6 DEF t

\* Arranging puts the services of an OP identifier first and keeps the order
\* otherwise.
LEMMA ArrangedOrder ==
  ASSUME NEW S, NEW list \in Seq(S), NEW i \in DOMAIN GetOPOrUserServices(list),
         NEW j \in DOMAIN GetOPOrUserServices(list), i < j
  PROVE  \E p, q \in DOMAIN list :
           /\ GetOPOrUserServices(list)[i] = list[p] /\ GetOPOrUserServices(list)[j] = list[q]
           /\ IsOPIdentifier(list[q]) => IsOPIdentifier(list[p])
           /\ (IsOPIdentifier(list[p]) <=> IsOPIdentifier(list[q])) => p < q
<1>1. PICK p \in DOMAIN list, q \in DOMAIN list :
        /\ GetOPOrUserServices(list)[i] = list[p] /\ GetOPOrUserServices(list)[j] = list[q]
        /\ Before(OPRank(list)[p], p, OPRank(list)[q], q)
  BY OPFirst DEF Sorted
<1>2. /\ OPRank(list)[p] = IF IsOPIdentifier(list[p]) THEN 1 ELSE 2
      /\ OPRank(list)[q] = IF IsOPIdentifier(list[q]) THEN 1 ELSE 2
  BY DEF OPRank
<1>3. /\ IsOPIdentifier(list[q]) => IsOPIdentifier(list[p])
      /\ (IsOPIdentifier(list[p]) <=> IsOPIdentifier(list[q])) => p < q
  BY <1>1, <1>2 DEF Before
<1> QED BY <1>1, <1>3

\* The arranged endpoints of the elements are in the order of preference.
LEMMA ArrangedPreferred ==
  ASSUME NEW where \in STRING, NEW elements \in Seq(ServiceElement),
         NEW list \in Seq(ServiceEndpoint),
         DOMAIN list = DOMAIN Endpoints(where, elements),
         \A n \in DOMAIN list : /\ list[n].server = Endpoints(where, elements)[n].server
                                /\ list[n].types = Endpoints(where, elements)[n].types
  PROVE  Preferred(GetOPOrUserServices(list), elements)
<1> DEFINE t == GetOPOrUserServices(list)
<1> HIDE DEF t
<1> SUFFICES ASSUME NEW i \in DOMAIN t, NEW j \in DOMAIN t, i < j
             PROVE  /\ IsOPIdentifier(t[j]) => IsOPIdentifier(t[i])
                    /\ \A e \in Range(elements) : \A a, b \in Range(e.uris) :
                         /\ Usable(e)
                         /\ NamedOnce(elements, a.url) /\ NamedOnce(elements, b.url)
                         /\ t[i].server = a.url /\ t[j].server = b.url
                         => a.priority <= b.priority
  BY DEF Preferred, t
<1>1. PICK p \in DOMAIN list, q \in DOMAIN list :
        /\ t[i] = list[p] /\ t[j] = list[q]
        /\ IsOPIdentifier(list[q]) => IsOPIdentifier(list[p])
        /\ (IsOPIdentifier(list[p]) <=> IsOPIdentifier(list[q])) => p < q
  BY ArrangedOrder DEF t
<1>2. ASSUME NEW e \in Range(elements), NEW a \in Range(e.uris), NEW b \in Range(e.uris),
             NamedOnce(elements, a.url), NamedOnce(elements, b.url),
             t[i].server = a.url, t[j].server = b.url
      PROVE  a.priority <= b.priority
  <2>1. list[p].types = e.types /\ list[q].types = e.types
    BY <1>1, <1>2, EndpointsPreferred
  <2>2. p < q
    BY <1>1, <2>1 DEF IsOPIdentifier
  <2> QED BY <1>1, <1>2, <2>2, EndpointsPreferred
<1> QED BY <1>1, <1>2

\* Without a usable element there is no order of the URIs to keep.
LEMMA HTMLPreferred ==
  ASSUME NEW elements, \A e \in Range(elements) : ~Usable(e),
         NEW t, \A s \in Range(t) : ~IsOPIdentifier(s)
  PROVE  Preferred(t, elements)
BY DEF Preferred, Range

\* What discovery finds is in the order of preference.
LEMMA DiscoveredPreferred ==
  ASSUME NEW site \in URLSite \union XRIAnswer
  PROVE  Preferred(Discover(site).services, Elements(site))
<1>1. CASE site \in URLSite
  <2>0. /\ ~IsXRI(site)
        /\ site.accept.final \in STRING /\ site.plain.final \in STRING
        /\ site.plain.links \in Links /\ Document(site).links \in Links
        /\ Discover(site) = DiscoverURL(site)
    BY <1>1, URLSiteTypes, ResponseTypes DEF Discover
  <2>1. /\ Elements(site) \in Seq(ServiceElement)
        /\ YadisServices(site) = Endpoints(site.accept.final, Elements(site))
        /\ YadisServices(site) \in Seq(ServiceEndpoint)
    BY <1>1, <2>0, YadisTypes, EndpointsFlat
  <2>2. CASE YadisServices(site) # <<>>
    <3>1. Discover(site).services = GetOPOrUserServices(YadisServices(site))
      BY <2>0, <2>2 DEF DiscoverURL, Refetched
    <3> QED BY <2>0, <2>1, <3>1, ArrangedPreferred
  <2>3. CASE YadisServices(site) = <<>>
    <3>1. \A e \in Range(Elements(site)) : ~Usable(e)
      BY <2>0, <2>1, <2>3, EndpointsClaim DEF Usable, OpenIDType
    <3>2. \A s \in Range(Discover(site).services) : ~IsOPIdentifier(s)
      <4>1. CASE Refetched(site)
        <5>1. Discover(site).services = FromHTML(site.plain.final, site.plain.links)
          BY <2>0, <4>1 DEF DiscoverURL
        <5> QED BY <2>0, <5>1, LinksClaim
      <4>2. CASE ~Refetched(site)
        <5> DEFINE html == FromHTML(site.accept.final, Document(site).links)
        <5>1. Discover(site).services = GetOPOrUserServices(html)
          BY <2>0, <2>3, <4>2 DEF DiscoverURL
        <5>2. html \in Seq(ServiceEndpoint) /\ \A s \in Range(html) : ~IsOPIdentifier(s)
          BY <2>0, LinksClaim
        <5> QED BY <5>1, <5>2, ArrangedMembers
      <4> QED BY <4>1, <4>2
    <3> QED BY <3>1, <3>2, HTMLPreferred
  <2> QED BY <2>2, <2>3
<1>2. CASE site \in XRIAnswer
  <2>1. /\ IsXRI(site) /\ site.iname \in STRING /\ site.elements \in Seq(ServiceElement)
        /\ Elements(site) = site.elements /\ Discover(site) = DiscoverXRI(site)
    BY <1>2, XRITypes DEF Discover, Elements
  <2>2. CASE site.ok /\ site.canonical # Absent
    <3> DEFINE found == Endpoints(site.iname, site.elements)
    <3>1. Discover(site).services = GetOPOrUserServices(Canonical(site))
      BY <2>1, <2>2 DEF DiscoverXRI, Canonical
    <3>2. Canonical(site) \in Seq(ServiceEndpoint) /\ found \in Seq(ServiceEndpoint)
      BY <1>2, <2>1, CanonicalClaims, EndpointsFlat
    <3>3. Canonical(site) = [n \in DOMAIN found |-> [found[n] EXCEPT !.claimed = site.canonical]]
      BY DEF Canonical
    <3> HIDE DEF found
    <3>4. \A s \in ServiceEndpoint : /\ [s EXCEPT !.claimed = site.canonical].server = s.server
                                     /\ [s EXCEPT !.claimed = site.canonical].types = s.types
      BY DEF ServiceEndpoint
    <3>5. \A n \in DOMAIN found : found[n] \in ServiceEndpoint
      BY <3>2
    <3>6. /\ DOMAIN Canonical(site) = DOMAIN found
          /\ \A n \in DOMAIN Canonical(site) : /\ Canonical(site)[n].server = found[n].server
                                               /\ Canonical(site)[n].types = found[n].types
      BY <3>3, <3>4, <3>5
    <3> QED BY <2>1, <3>1, <3>2, <3>6, ArrangedPreferred DEF found
  <2>3. CASE ~(site.ok /\ site.canonical # Absent)
    <3>1. Discover(site).services = GetOPOrUserServices(<<>>)
      BY <2>1, <2>3 DEF DiscoverXRI
    <3>2. <<>> \in Seq(ServiceEndpoint) /\ DOMAIN <<>> = {}
      OBVIOUS
    <3>3. Range(GetOPOrUserServices(<<>>)) = {}
      BY <3>2, ArrangedMembers DEF Range
    <3>4. DOMAIN GetOPOrUserServices(<<>>) = {}
      BY <3>3 DEF Range
    <3> QED BY <3>1, <3>4 DEF Preferred
  <2> QED BY <2>2, <2>3
<1> QED BY <1>1, <1>2

\* Whatever documents the web holds, the services are tried in the order of
\* preference.
THEOREM SessionPreferredFirst == SessionSpec => []PreferredFirst
<1>1. SInv => PreferredFirst
  <2> SUFFICES ASSUME SInv, NEW i \in DOMAIN listed
               PROVE  Preferred(listed, Elements(source))
    BY DEF PreferredFirst, Preferred
  <2>1. listed # <<>>
    OBVIOUS
  <2>2. PICK u \in URLs : ListedFor(u)
    BY <2>1 DEF SInv, ListKnown
  <2> QED BY <2>2, SitesAssumption, DiscoveredPreferred DEF ListedFor
<1> QED BY <1>1, SessionKnown, PTL
=============================================================================
