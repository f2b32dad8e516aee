----------------------------- MODULE MCCheckID -----------------------------
(* Two users, one of whom uses an identifier of a site of her own that is  *)
(* delegated to the other name.  Realms and URLs differ in every part the  *)
(* comparison looks at.                                                    *)
EXTENDS CheckID

CONSTANTS alice, bob

MCNames == {alice, bob}
MCLocal == [n \in MCNames |-> bob]

URL(host, segs, query) ==
  [proto |-> "https", host |-> host, port |-> 443, segs |-> segs, query |-> query,
   frag |-> FALSE]

Site == <<"rp", "com">>
Sub == <<"www", "rp", "com">>
a == <<"a">>
ab == <<"a", "b">>
slash == <<>>

MCReturnTos ==
  {URL(Site, <<slash>>, <<>>), URL(Site, <<a>>, <<>>), URL(Site, <<ab>>, <<>>),
   URL(Site, <<a, slash>>, <<>>), URL(Site, <<a, ab>>, <<>>),
   URL(Site, <<a>>, <<a>>), URL(Site, <<a>>, <<ab>>), URL(Site, <<a>>, <<a, a>>),
   URL(Site, <<a>>, <<a, slash>>), URL(Site, <<a>>, <<slash, slash>>),
   URL(<<"", "com">>, <<a>>, <<>>),
   URL(Sub, <<a>>, <<>>), URL(<<"com">>, <<a>>, <<>>),
   [URL(Site, <<a>>, <<>>) EXCEPT !.frag = TRUE],
   [URL(Site, <<a>>, <<>>) EXCEPT !.port = 8443],
   [URL(Site, <<a>>, <<>>) EXCEPT !.proto = "http"]}

MCRealms ==
  MCReturnTos \union
  {URL(<<"*">> \o Site, <<slash>>, <<>>), URL(<<"*">> \o Site, <<a>>, <<>>),
   URL(<<"*">>, <<slash>>, <<>>), URL(<<"*">>, <<a>>, <<>>),
   [URL(<<"*">>, <<slash>>, <<>>) EXCEPT !.port = 8443],
   URL(<<"*", "">> \o Site, <<slash>>, <<>>)}

Good == URL(Site, <<a>>, <<>>)

\* Every request of the library with one pair of URLs, and a plain request
\* with every pair.
MCApps ==
  {x \in App : /\ x.select => x.ver = 2 /\ x.cid = None
               /\ ~x.select => x.cid # None
               /\ x.returnTo = Good /\ x.realm = Good}
  \union
  {x \in App : ~x.select /\ x.cid = alice /\ ~x.anonymous /\ x.immediate /\ ~x.handle}

MCForeign ==
  [mode : {"checkid_setup", "checkid_immediate", "other"}, ver : {1, 2},
   identity : {None, alice, Select}, claimed : {None, alice, Select},
   root : {None, Good, URL(Site, <<ab>>, <<>>)}, returnTo : {None, Good},
   handle : BOOLEAN]
=============================================================================
