----------------------------- MODULE MCMessage -----------------------------
(* Seven wire keys an RP or an OP may receive, in every combination, and a  *)
(* program that goes on to use the sreg extension and one of its own.      *)
EXTENDS Message, TLC

CONSTANTS v

MCNamespace == {"1.0", "1.1", "2.0", "sreg", "sreg-uri", "x-uri"}
MCRegistered == "sreg" :> "sreg-uri"
MCAliases == {"sreg", "ext0", "ext1", "ext2", "mode"}
MCExt == 0 :> "ext0" @@ 1 :> "ext1" @@ 2 :> "ext2"
MCUsedNamespaces == {"sreg", "sreg-uri", "x-uri"}
MCUsedAliases == {"sreg", "ext0", "mode"}

NSKeys == {<<"openid", "ns">>, <<"openid", "ns", "ext0">>, <<"openid", "ns", "sreg">>}
PlainKeys == {<<"openid", "mode">>, <<"openid", "sreg", "foo">>,
              <<"openid", "ext0", "foo">>, <<"x">>}

MCQueries ==
  UNION {{[k \in n \union p |-> IF k \in n THEN f[k] ELSE v] : f \in [n -> MCNamespace]} :
           n \in SUBSET NSKeys, p \in SUBSET PlainKeys}
MCKeys == {<<"foo">>}
MCValues == {v}
=============================================================================
