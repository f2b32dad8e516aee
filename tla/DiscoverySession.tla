--------------------------- MODULE DiscoverySession ---------------------------
(***************************************************************************)
(* A session's begins (DiscoveryManager) with what discovery makes of the  *)
(* documents it finds (Discovery): Consumer#discover is the block that     *)
(* Consumer#begin gives to get_next_service.  Every discovery may find the *)
(* web in another state.                                                   *)
(***************************************************************************)
EXTENDS DiscoveryManager, Discovery

CONSTANT Sites   \* Sites[u]: what may be found behind u

ASSUME SitesAssumption ==
  \A u \in URLs :
    /\ Sites[u] \subseteq URLSite \union XRIAnswer
    /\ Found[u] = {Discover(site) : site \in {s \in Sites[u] : ~DiscoveryFailure(s)}}

VARIABLES
  asked,   \* what the last discovery found
  source   \* what the discovery found that the listed services came from

sessionVars == <<manager, pc, url, begins, listed, handed, answer, asked, source>>

SessionInit ==
  /\ Init
  /\ asked = None
  /\ source = None

SessionBegin(w, u) == Begin(w, u) /\ UNCHANGED <<asked, source>>

\* The block returns: with a list, or with a DiscoveryFailure.
Resolve(w, site) ==
  /\ ~DiscoveryFailure(site)
  /\ Discovered(w, Discover(site))
  /\ asked' = site
  /\ source' = IF answer'.is = "service" THEN site ELSE source

ResolveFails(w, site) ==
  /\ DiscoveryFailure(site)
  /\ DiscoveryFails(w)
  /\ asked' = site
  /\ UNCHANGED source

SessionCleanup == Cleanup /\ UNCHANGED <<asked, source>>

SessionNext ==
  \/ \E w \in Worker, u \in URLs : SessionBegin(w, u)
  \/ \E w \in Worker : \E site \in Sites[url[w]] : Resolve(w, site)
  \/ \E w \in Worker : \E site \in Sites[url[w]] : ResolveFails(w, site)
  \/ SessionCleanup

SessionSpec == SessionInit /\ [][SessionNext]_sessionVars

-----------------------------------------------------------------------------
\* A service with an OpenID type and a URI.
Usable(e) == e.types \cap Range(OPENID_TYPE_URIS) # {} /\ \E uri \in Range(e.uris) : uri.url # Absent

\* The Service elements that count.
Elements(site) ==
  IF IsXRI(site) THEN site.elements
                 ELSE IF Document(site).parses THEN Document(site).elements ELSE <<>>

\* No other Service element, and no other URI of this one, has this URL.
NamedOnce(elements, server) ==
  \A d, e \in DOMAIN elements : \A a \in DOMAIN elements[d].uris, b \in DOMAIN elements[e].uris :
    elements[d].uris[a].url = server /\ elements[e].uris[b].url = server => d = e /\ a = b

\* The services of an OP identifier are tried before any other, and of the
\* URIs of one service the one with the lower priority number first (if it
\* can be told which service a URL is of).  Between types of users' services
\* no order is promised here: get_op_or_user_services arranges them by type
\* too, but returns that list only when there are no services at all.
PreferredFirst ==
  \A i, j \in DOMAIN listed : i < j =>
    /\ IsOPIdentifier(listed[j]) => IsOPIdentifier(listed[i])
    /\ \A e \in Range(Elements(source)) : \A a, b \in Range(e.uris) :
         /\ Usable(e)
         /\ NamedOnce(Elements(source), a.url) /\ NamedOnce(Elements(source), b.url)
         /\ listed[i].server = a.url /\ listed[j].server = b.url
         => a.priority <= b.priority

HasLink(response) == {response.links.provider, response.links.server} # {Absent}

\* The page behind the identifier, for one who does not ask for XRDS.  Asked
\* for XRDS, the server may have sent the page all the same; then, if the
\* page says it is its own Yadis document, it is not asked for again.
HTMLPage(site) ==
  IF site.accept.type \notin {"xrds", "xrds;"} /\ site.accept.location = site.accept.final
    THEN site.accept ELSE site.plain

\* What the documents offer an RP: a usable service, or else a link of the
\* page to a provider.
Offers(site) ==
  IF IsXRI(site)
    THEN site.ok /\ site.canonical # Absent /\ \E e \in Range(Elements(site)) : Usable(e)
    ELSE \/ \E e \in Range(Elements(site)) : Usable(e)
         \/ HasLink(HTMLPage(site))

\* The one document that hides the page's links: the identifier answers with
\* an XRDS document whose content type has a parameter.  where_is_yadis?
\* takes it for one, is_xrds compares the whole content type and does not, so
\* the document itself is read as HTML and the page is never asked for.
ParameterHides(site) ==
  ~IsXRI(site) /\ site.accept.type = "xrds;" /\ ~HasLink(site.accept)

\* begin gives up only if a fetch failed, a service names two local
\* identifiers, or neither the XRDS document nor the page offers a service:
\* an unusable or unreadable XRDS document does not hide the page's links,
\* save the one of ParameterHides.
NothingOverlooked ==
  answer # None /\ answer.is = "failure" =>
    \/ DiscoveryFailure(asked)
    \/ ~Offers(asked)
    \/ ParameterHides(asked)

\* Wherever a service is handed out, it was discovered for the identifier at
\* hand or for one that redirects to it, and the identifier it lets the user
\* claim is where the redirects ended (the canonical ID of an XRI), never
\* the URL that was typed in or that of the XRDS document.
RightService ==
  answer # None /\ answer.is = "service" =>
    /\ \E u \in URLs : /\ source \in Sites[u]
                       /\ answer.for \in {u, Discover(source).url}
    /\ IF IsXRI(source)
         THEN answer.service.claimed = source.canonical
         ELSE IF IsOPIdentifier(answer.service)
                THEN answer.service.claimed = Absent
                ELSE answer.service.claimed = Discover(source).url
=============================================================================
