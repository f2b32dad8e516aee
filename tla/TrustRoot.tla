----------------------------- MODULE TrustRoot -----------------------------
(***************************************************************************)
(* OpenID::TrustRoot: which return_to URLs a realm (in OpenID 1: a trust   *)
(* root) covers.  A URL comes normalised, as URINorm makes it: a record of *)
(* scheme, host labels, port, path segments, query arguments and whether   *)
(* it has a fragment.  The label "*" is the wildcard; a lone one is taken  *)
(* to be written "http://*/", without a port.  Segments and arguments are  *)
(* sequences of characters, because the code compares paths as text:       *)
(* PathText is what it compares.                                           *)
(***************************************************************************)
EXTENDS Integers, SequencesExt

\* The parts, each after its delimiter.
Joined(first, next, parts) ==
  FlattenSeq([i \in DOMAIN parts |-> <<IF i = 1 THEN first ELSE next>> \o parts[i]])

\* proto://host:port/segs[1]/segs[2]...?query[1]&query[2]...#...
PathText(url) ==
  Joined("/", "/", url.segs) \o Joined("?", "&", url.query)
    \o (IF url.frag THEN <<"#">> ELSE <<>>)

DefaultPort(proto) == IF proto = "http" THEN 80 ELSE 443

\* TrustRoot.parse: {} if the text is no trust root.  A wildcard is the first
\* label and is cut off; "http://*/" matches every host.
Parse(url) ==
  LET lone == /\ url.host = <<"*">>
              /\ PathText(url) = <<"/">>
              /\ url.port = DefaultPort(url.proto)
      wild == Head(url.host) = "*" /\ (Len(url.host) > 1 \/ lone)
      host == IF wild THEN Tail(url.host) ELSE url.host
  IN  IF \/ host # <<>> /\ Head(host) = ""
         \/ url.frag
         \/ url.proto \notin {"http", "https"}
      THEN {}
      ELSE {[proto |-> url.proto, wild |-> wild, host |-> host, port |-> url.port,
             path |-> PathText(url)]}

HostMatches(root, url) ==
  /\ \A i \in DOMAIN url.host : url.host[i] # "*"
  /\ IF root.wild THEN IsSuffix(root.host, url.host) ELSE url.host = root.host

\* Mutant: where the two paths part does not matter.
PathMatchesPrefix(root, path) == IsPrefix(root.path, path)

\* The path of the realm, or a longer one that goes on at a boundary.
PathMatches(root, path) ==
  LET allowed == IF \E i \in DOMAIN root.path : root.path[i] = "?" THEN {"&"} ELSE {"?", "/"}
  IN  \/ path = root.path
      \/ /\ IsStrictPrefix(root.path, path)
         /\ Last(root.path) \in allowed \/ path[Len(root.path) + 1] \in allowed

\* TrustRoot#validate_url
ValidateURL(root, url) ==
  /\ url.proto = root.proto
  /\ url.port = root.port
  /\ HostMatches(root, url)
  /\ PathMatches(root, PathText(url))

-----------------------------------------------------------------------------
\* The reference: what "under the realm" means of a URL and its parts.  An
\* empty last part stands for whatever follows.
Under(parts, of) ==
  IF Last(parts) = <<>> THEN IsStrictPrefix(Front(parts), of) ELSE IsPrefix(parts, of)

UnderPath(realm, url) ==
  IF realm.query = <<>>
    THEN Under(realm.segs, url.segs)
    ELSE url.segs = realm.segs /\ Under(realm.query, url.query)

\* A wildcard stands for labels in front of others; alone, it does so only if
\* nothing else limits the realm.
Wildcard(realm) ==
  /\ Head(realm.host) = "*"
  /\ \/ Tail(realm.host) # <<>>
     \/ /\ realm.segs = << <<>> >> /\ realm.query = <<>>
        /\ realm.port = DefaultPort(realm.proto)

Covers(realm, url) ==
  /\ realm.proto = url.proto
  /\ realm.port = url.port
  /\ "*" \notin Range(url.host)
  /\ IF Wildcard(realm) THEN IsSuffix(Tail(realm.host), url.host)
                        ELSE realm.host = url.host
  /\ UnderPath(realm, url)

\* What is no realm at all, nor a return_to: a host that starts with a dot,
\* with a fragment, or of another scheme.
Readable(url) ==
  /\ ~url.frag
  /\ url.proto \in {"http", "https"}
  /\ Head(url.host) # ""
  /\ Len(url.host) > 1 /\ Head(url.host) = "*" => Head(Tail(url.host)) # ""
=============================================================================
