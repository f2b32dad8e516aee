------------------------- MODULE MCNegotiation -------------------------
(* Every two lists of at most two allowed pairs, the empty one included,   *)
(* with an OP of this library; and two presets of the library at an RP     *)
(* whose OP may reply with anything.                                       *)
EXTENDS Negotiation

Lists == {<<>>} \union {<<p>> : p \in Pairs}
           \union {<<p, q>> : p \in Pairs, q \in Pairs}

Default == << <<"HMAC-SHA1", "DH-SHA1">>, <<"HMAC-SHA1", "no-encryption">>,
              <<"HMAC-SHA256", "DH-SHA256">>, <<"HMAC-SHA256", "no-encryption">> >>
Encrypted == << <<"HMAC-SHA1", "DH-SHA1">>, <<"HMAC-SHA256", "DH-SHA256">> >>
Setting(rp, op, lib) == [rp |-> rp, op |-> op, library |-> lib]

MCSettings ==
  {Setting(rp, op, TRUE) : rp \in Lists, op \in Lists}
    \union {Setting(rp, <<>>, FALSE) : rp \in {Default, Encrypted}}
=============================================================================
