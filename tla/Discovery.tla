------------------------------ MODULE Discovery ------------------------------
(***************************************************************************)
(* OpenID.discover: what the documents behind an identifier make of it.    *)
(*                                                                         *)
(* For a URL there are up to three fetches: the identifier itself, asking  *)
(* for XRDS; the Yadis document it points at; and the identifier again,    *)
(* not asking for XRDS, when the first two yielded nothing.  Each may get  *)
(* another answer, and another redirect.  For an XRI there is the proxy    *)
(* resolver's answer.                                                      *)
(*                                                                         *)
(* A response is a record:                                                 *)
(*   ok        status 200 or 206                                           *)
(*   final     the URL after redirects                                     *)
(*   type      "xrds", "xrds;" (with a parameter) or "html"                *)
(*   location  what the X-XRDS-Location header or meta tag says, or Absent *)
(*   parses    whether the body is an XRDS document                        *)
(*   elements  its Service elements, in document order                     *)
(*   links     the OpenID link tags of the body read as HTML               *)
(* A Service element has types, uris (with their priorities, 0 where there *)
(* is none), and the values of its Delegate and LocalID tags.  The URIs of *)
(* an element have different priorities: Ruby's sort leaves the order of   *)
(* equal ones open.                                                        *)
(***************************************************************************)
EXTENDS Integers, Sequences, SequencesExt

Absent == "absent"

ServiceElement ==
  [types : SUBSET STRING, uris : Seq([url : STRING, priority : Int]),
   localIDs : SUBSET STRING, delegates : SUBSET STRING]

Response ==
  [ok : BOOLEAN, final : STRING, type : STRING, location : STRING, parses : BOOLEAN,
   elements : Seq(ServiceElement),
   links : [provider : STRING, localID : STRING, server : STRING, delegate : STRING]]

\* What may be behind a URL: the responses to the three fetches; and behind an
\* XRI: the resolver's answer.
URLSite == [accept : Response, yadis : Response, plain : Response]
XRIAnswer == [iname : STRING, ok : BOOLEAN, canonical : STRING, elements : Seq(ServiceElement)]

OPENID_IDP_2_0_TYPE == "server/2.0"
OPENID_2_0_TYPE == "signon/2.0"
OPENID_1_1_TYPE == "signon/1.1"
OPENID_1_0_TYPE == "signon/1.0"

OPENID_TYPE_URIS ==
  <<OPENID_IDP_2_0_TYPE, OPENID_2_0_TYPE, OPENID_1_1_TYPE, OPENID_1_0_TYPE>>

Endpoint(types, server, claimed, local) ==
  [types |-> types, server |-> server, claimed |-> claimed, local |-> local]

IsOPIdentifier(service) == OPENID_IDP_2_0_TYPE \in service.types

-----------------------------------------------------------------------------
(* The order of the services.                                              *)

\* The index of the first matching type, or something higher.
BestMatching(service, preferred) ==
  LET matching == {i \in DOMAIN preferred : preferred[i] \in service.types} IN
  IF matching = {} THEN Len(preferred) + 1 ELSE Min(matching)

\* The members of list at these places.
Where(list, places) ==
  FlattenSeq([i \in DOMAIN list |-> IF i \in places THEN <<list[i]>> ELSE <<>>])

\* list sorted by the rank of each place; of one rank, as they were.
SortBy(list, rank, ranks) ==
  FlattenSeq([r \in 1..ranks |-> Where(list, {i \in DOMAIN list : rank[i] = r})])

\* Mutant: a comparison the wrong way round.
ArrangeBackwards(list, preferred) ==
  SortBy(list, [i \in DOMAIN list |-> Len(preferred) + 2 - BestMatching(list[i], preferred)],
         Len(preferred) + 1)

\* arrange_by_type: sorted by the best match, then by the place in the list.
Arrange(list, preferred) ==
  SortBy(list, [i \in DOMAIN list |-> BestMatching(list[i], preferred)], Len(preferred) + 1)

\* Arranging keeps every service, so the first list is empty only if the
\* second one is.
GetOPOrUserServices(list) ==
  LET op == Arrange(list, <<OPENID_IDP_2_0_TYPE>>)
      user == Arrange(list, OPENID_TYPE_URIS)
  IN IF op # <<>> THEN op ELSE user

-----------------------------------------------------------------------------
(* XRDS documents and HTML pages.                                          *)

\* Sorted by priority number; a URI's rank comes from those below it.
PrioSort(uris) ==
  SortBy(uris,
         [i \in DOMAIN uris |->
            1 + Cardinality({j \in DOMAIN uris : uris[j].priority < uris[i].priority})],
         Len(uris))

\* find_op_local_identifier: the tags that count, given the types.
LocalIDs(element) ==
  (IF {OPENID_1_1_TYPE, OPENID_1_0_TYPE} \cap element.types # {}
     THEN element.delegates ELSE {})
    \cup (IF OPENID_2_0_TYPE \in element.types THEN element.localIDs ELSE {})

\* expand_service, and the type URIs and URI from_basic_service_endpoint
\* wants: one endpoint per URI.
UsableURIs(element) ==
  IF element.types \cap Range(OPENID_TYPE_URIS) = {}
    THEN <<>>
    ELSE LET uris == PrioSort(element.uris) IN
         Where(uris, {n \in DOMAIN uris : uris[n].url # Absent})

\* parse_service raises DiscoveryFailure: the local identifiers disagree.
Ambiguous(element) ==
  /\ UsableURIs(element) # <<>>
  /\ ~IsOPIdentifier(element)
  /\ \E a, b \in LocalIDs(element) : a # b

\* parse_service: an OP identifier endpoint has no claimed identifier.
ParseService(url, element, uri) ==
  IF IsOPIdentifier(element)
    THEN Endpoint(element.types, uri.url, Absent, Absent)
    ELSE Endpoint(element.types, uri.url, url,
                  IF LocalIDs(element) = {} THEN Absent
                                            ELSE CHOOSE id \in LocalIDs(element) : TRUE)

Endpoints(url, elements) ==
  FlattenSeq([e \in DOMAIN elements |->
    LET uris == UsableURIs(elements[e]) IN
    [n \in DOMAIN uris |-> ParseService(url, elements[e], uris[n])]])

\* What does not parse counts as a document without services.
FromXRDS(url, doc) == IF doc.parses THEN Endpoints(url, doc.elements) ELSE <<>>

FromHTML(url, links) ==
  LET services == <<Endpoint({OPENID_2_0_TYPE}, links.provider, url, links.localID),
                    Endpoint({OPENID_1_1_TYPE}, links.server, url, links.delegate)>>
  IN  Where(services, {n \in {1, 2} : services[n].server # Absent})

-----------------------------------------------------------------------------
(* Discovery of a URL.                                                     *)

WhereIsYadis(site) ==
  IF site.accept.type \in {"xrds", "xrds;"} THEN site.accept.final
                                            ELSE site.accept.location

\* DiscoveryResult#used_yadis_location?, true when there is no location.
UsedYadisLocation(site) == WhereIsYadis(site) # site.accept.final

\* The response whose body counts.
Document(site) ==
  IF WhereIsYadis(site) # Absent /\ UsedYadisLocation(site)
    THEN site.yadis ELSE site.accept

IsXRDS(site) == UsedYadisLocation(site) \/ Document(site).type = "xrds"

YadisServices(site) == FromXRDS(site.accept.final, Document(site))

\* Mutant: no second look at the page when XRDS was promised.
RefetchedNever(site) == FALSE

\* discover_no_yadis
Refetched(site) == YadisServices(site) = <<>> /\ IsXRDS(site)

\* DiscoveryFailure: a fetch without an answer, or local identifiers that
\* disagree.
URLFails(site) ==
  \/ ~site.accept.ok
  \/ ~Document(site).ok
  \/ Document(site).parses /\ \E e \in Range(Document(site).elements) : Ambiguous(e)
  \/ Refetched(site) /\ ~site.plain.ok

\* discover_uri and discover_yadis: the identifier and its services.  URLs
\* are normalized ones: normalize_url, which discover_uri applies to the URL
\* it returns and not to those in the endpoints, leaves them as they are.
DiscoverURL(site) ==
  IF Refetched(site)
    THEN [url |-> site.plain.final,
          services |-> FromHTML(site.plain.final, site.plain.links)]
    ELSE [url |-> site.accept.final,
          services |-> GetOPOrUserServices(
            IF YadisServices(site) # <<>>
              THEN YadisServices(site)
              ELSE FromHTML(site.accept.final, Document(site).links))]

-----------------------------------------------------------------------------
(* Discovery of an XRI.                                                    *)

XRIFails(answer) ==
  /\ answer.ok
  /\ answer.canonical # Absent
  /\ \E e \in Range(answer.elements) : Ambiguous(e)

\* Without a canonical ID, or an answer, there are no services; with one it
\* is the claimed identifier of every endpoint.
DiscoverXRI(answer) ==
  LET found == Endpoints(answer.iname, answer.elements) IN
  [url |-> answer.iname,
   services |-> GetOPOrUserServices(
     IF answer.ok /\ answer.canonical # Absent
       THEN [n \in DOMAIN found |-> [found[n] EXCEPT !.claimed = answer.canonical]]
       ELSE <<>>)]

-----------------------------------------------------------------------------
IsXRI(site) == "iname" \in DOMAIN site

DiscoveryFailure(site) == IF IsXRI(site) THEN XRIFails(site) ELSE URLFails(site)

Discover(site) == IF IsXRI(site) THEN DiscoverXRI(site) ELSE DiscoverURL(site)
=============================================================================
