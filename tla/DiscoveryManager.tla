-------------------------- MODULE DiscoveryManager --------------------------
(***************************************************************************)
(* OpenID::Consumer::DiscoveryManager: the services discovered for an      *)
(* identifier are kept in the user's session, so that every begin for it   *)
(* hands out the next one and a user whose first OP is down gets to the    *)
(* second.                                                                 *)
(*                                                                         *)
(* Requests of one session run concurrently and share its one slot for a   *)
(* DiscoveredServices object, the manager.  A request is atomic but for    *)
(* discovery, which waits for the network with the slot unlocked.          *)
(*                                                                         *)
(* Bounds: MaxBegins limits the calls of begin.                            *)
(***************************************************************************)
EXTENDS Integers, Sequences

CONSTANTS
  Worker,     \* the threads that serve requests of the session
  URLs,       \* identifiers
  Service,    \* service endpoints
  Found,      \* Found[u]: what discovery on u may yield, a URL and services
  None,
  MaxBegins

ASSUME DiscoveryManagerAssumption ==
  /\ None \notin Service
  /\ None \notin [starting : URLs, yadis : URLs, services : Seq(Service), current : Service]
  /\ \A u \in URLs : Found[u] \subseteq [url : URLs, services : Seq(Service)]
  /\ MaxBegins \in Nat

VARIABLES
  manager,  \* the manager in the session, or None
  pc,       \* pc[w]: "idle" or "discover"
  url,      \* url[w]: the identifier w's begin is for
  begins,   \* how many begins were called
  listed,   \* the list the manager was created with
  handed,   \* the services it has handed out
  answer    \* the last answer: what begin(for) returned or raised

vars == <<manager, pc, url, begins, listed, handed, answer>>

\* DiscoveredServices.new(starting_url, yadis_url, services)
NewManager(u, found) ==
  [starting |-> u, yadis |-> found.url, services |-> found.services, current |-> None]

\* Mutant: whatever manager there is will do.
ManagerForAny(u) == manager

\* get_manager: the manager in the session, if it is for u.
ManagerFor(u) ==
  IF manager # None /\ u \in {manager.starting, manager.yadis} THEN manager ELSE None

Answered(u, is, service) == answer' = [for |-> u, is |-> is, service |-> service]

\* Mutant: next does not shift the list.
HandOutUnshifted(m, u) ==
  /\ manager' = [m EXCEPT !.current = Head(m.services)]
  /\ Answered(u, "service", Head(m.services))

\* manager.next, store(manager), return the service.
HandOut(m, u) ==
  /\ manager' = [m EXCEPT !.services = Tail(@), !.current = Head(m.services)]
  /\ Answered(u, "service", Head(m.services))

Init ==
  /\ manager = None
  /\ pc = [w \in Worker |-> "idle"]
  /\ url \in [Worker -> URLs]
  /\ begins = 0
  /\ listed = <<>>
  /\ handed = <<>>
  /\ answer = None

(***************************************************************************)
(* get_next_service, up to the answer or to the network.                   *)
(***************************************************************************)
Begin(w, u) ==
  LET m == ManagerFor(u) IN
  /\ pc[w] = "idle"
  /\ begins < MaxBegins
  /\ begins' = begins + 1
  /\ url' = [url EXCEPT ![w] = u]
  /\ \/ /\ m # None
        /\ m.services # <<>>
        /\ HandOut(m, u)
        /\ handed' = Append(handed, Head(m.services))
        /\ UNCHANGED <<pc, listed>>
     \/ \* An exhausted manager is destroyed; another URL's stays for now.
        /\ IF m = None THEN UNCHANGED manager
                       ELSE m.services = <<>> /\ manager' = None
        /\ pc' = [pc EXCEPT ![w] = "discover"]
        /\ UNCHANGED <<listed, handed, answer>>

\* Mutant: create_manager does not look for a manager that is there.
DiscoveredOverwrites(w, found) ==
  LET u == url[w] IN
  /\ pc[w] = "discover"
  /\ pc' = [pc EXCEPT ![w] = "idle"]
  /\ found.services # <<>>
  /\ HandOut(NewManager(u, found), u)
  /\ listed' = found.services
  /\ handed' = <<Head(found.services)>>
  /\ UNCHANGED <<url, begins>>

\* The block has yielded a list: create_manager, next, store.
Discovered(w, found) ==
  LET u == url[w] IN
  /\ pc[w] = "discover"
  /\ pc' = [pc EXCEPT ![w] = "idle"]
  /\ \/ \* "There is already a manager": an exception out of begin.
        /\ ManagerFor(u) # None
        /\ Answered(u, "raise", None)
        /\ UNCHANGED <<manager, listed, handed>>
     \/ \* DiscoveryFailure
        /\ ManagerFor(u) = None
        /\ found.services = <<>>
        /\ Answered(u, "failure", None)
        /\ UNCHANGED <<manager, listed, handed>>
     \/ /\ ManagerFor(u) = None
        /\ found.services # <<>>
        /\ HandOut(NewManager(u, found), u)
        /\ listed' = found.services
        /\ handed' = <<Head(found.services)>>
  /\ UNCHANGED <<url, begins>>

\* The block has raised: the fetch failed or the document did not parse.
DiscoveryFails(w) ==
  /\ pc[w] = "discover"
  /\ pc' = [pc EXCEPT ![w] = "idle"]
  /\ Answered(url[w], "failure", None)
  /\ UNCHANGED <<manager, url, begins, listed, handed>>

\* cleanup(true), when complete ends with SUCCESS or CANCEL.
Cleanup ==
  /\ manager # None
  /\ manager' = None
  /\ UNCHANGED <<pc, url, begins, listed, handed, answer>>

Next ==
  \/ \E w \in Worker, u \in URLs : Begin(w, u)
  \/ \E w \in Worker : \E found \in Found[url[w]] : Discovered(w, found)
  \/ \E w \in Worker : DiscoveryFails(w)
  \/ Cleanup

Spec == Init /\ [][Next]_vars

-----------------------------------------------------------------------------
Manager == [starting : URLs, yadis : URLs, services : Seq(Service), current : Service]

Answer == [for : URLs, is : {"service", "failure", "raise"}, service : Service \cup {None}]

TypeOK ==
  /\ manager \in Manager \cup {None}
  /\ pc \in [Worker -> {"idle", "discover"}]
  /\ url \in [Worker -> URLs]
  /\ begins \in 0..MaxBegins
  /\ listed \in Seq(Service)
  /\ handed \in Seq(Service)
  /\ answer \in Answer \cup {None}

\* As long as a manager lives, what begin has handed out and what is left
\* make up the discovered list, in its order: nothing skipped or repeated,
\* whatever the tabs do.
HandedInOrder == manager # None => handed \o manager.services = listed

\* Services of an identifier that were not tried yet are not thrown away: a
\* begin for it takes the next one, or leaves the manager as it is (when it
\* ends in an exception), but never discovers and starts over.
UntriedKeptStep ==
  \A u \in URLs :
    LET m == ManagerFor(u) IN
    (m # None /\ m.services # <<>> /\ answer' # answer /\ answer'.for = u) =>
      \/ answer'.is # "service" /\ UNCHANGED <<manager, handed>>
      \/ /\ answer'.service = Head(m.services)
         /\ manager' # None
         /\ manager'.services = Tail(m.services)

UntriedKept == [][UntriedKeptStep]_vars
=============================================================================
