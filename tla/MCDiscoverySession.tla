------------------------- MODULE MCDiscoverySession -------------------------
(* Three identifiers: alias redirects to home, =name is an XRI.  home may   *)
(* serve XRDS itself, point at a document, at itself, or be plain HTML; its *)
(* documents hold services of every kind, none, or conflicting ones.        *)
EXTENDS DiscoverySession, TLC

CONSTANTS w1, w2

TwoWorkers == {w1, w2}
MCURLs == {"alias", "home", "=name"}

NoLinks == [provider |-> Absent, localID |-> Absent, server |-> Absent, delegate |-> Absent]
Links == [NoLinks EXCEPT !.provider = "op1", !.server = "op2", !.delegate = "me"]

Uri(u, p) == [url |-> u, priority |-> p]
Element(types, uris, localIDs, delegates) ==
  [types |-> types, uris |-> uris, localIDs |-> localIDs, delegates |-> delegates]

SignOn == Element({OPENID_2_0_TYPE, OPENID_1_1_TYPE, "sreg"},
                  <<Uri("op2", 20), Uri("op1", 10), Uri(Absent, 5)>>, {"me"}, {"me"})
Server == Element({OPENID_IDP_2_0_TYPE}, <<Uri("op3", 0)>>, {}, {})
Conflict == Element({OPENID_2_0_TYPE, OPENID_1_0_TYPE}, <<Uri("op1", 0)>>, {"me"}, {"you"})
Elsewhere == Element({"other"}, <<Uri("op4", 0)>>, {}, {})
NoURI == Element({OPENID_2_0_TYPE}, <<>>, {"me"}, {})

Page(final, type, location, parses, elements, links) ==
  [ok |-> TRUE, final |-> final, type |-> type, location |-> location,
   parses |-> parses, elements |-> elements, links |-> links]
Html(location, links) == Page("home", "html", location, FALSE, <<>>, links)
Xrds(final, type, elements) == Page(final, type, Absent, TRUE, elements, NoLinks)
Gone == [Html(Absent, NoLinks) EXCEPT !.ok = FALSE]

Site(accept, yadis, plain) == [accept |-> accept, yadis |-> yadis, plain |-> plain]

Pages == {Html(Absent, NoLinks), Html(Absent, Links)}
Documents == {Xrds("doc", "xrds", <<SignOn, Server>>), Xrds("doc", "xrds;", <<Elsewhere, SignOn>>),
              Xrds("doc", "html", <<NoURI>>), Xrds("doc", "xrds", <<Server, Conflict>>),
              Page("doc", "html", Absent, FALSE, <<>>, Links), Gone}

HomeSites ==
  {Site(page, Gone, plain) : page \in Pages, plain \in Pages \cup {Gone}}
    \cup {Site(Html("doc", Links), doc, Html(Absent, Links)) : doc \in Documents}
    \cup {Site(Html("home", links), Gone, Gone) : links \in {NoLinks, Links}}
    \cup {Site(Xrds("home", type, elements), Gone, Html(Absent, Links)) :
            type \in {"xrds", "xrds;"}, elements \in {<<Server, SignOn>>, <<Elsewhere>>}}
AliasSites == {Site(Html("doc", NoLinks), Xrds("doc", "xrds", <<SignOn, Server>>), Gone),
               Site(Gone, Gone, Gone)}
NameSites == {[iname |-> "=name", ok |-> ok, canonical |-> canonical, elements |-> <<SignOn, Server>>] :
                ok \in BOOLEAN, canonical \in {"=!1", Absent}}

MCSites == "alias" :> AliasSites @@ "home" :> HomeSites @@ "=name" :> NameSites
MCFound == [u \in MCURLs |->
  {Discover(site) : site \in {s \in MCSites[u] : ~DiscoveryFailure(s)}}]
MCService == UNION {Range(found.services) : found \in UNION Range(MCFound)}
=============================================================================
