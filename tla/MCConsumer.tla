---------------------------- MODULE MCConsumer ----------------------------
(* Two tabs, two OPs: c1 is at opA in OpenID 2, c2 at opB in either        *)
(* version, and opB agrees to associations.  opA asserts c2 in the name of *)
(* opB, and no identifier in its own, and unasked that c1 is at opB, which *)
(* discovery does not confirm; opB asserts c2, in OpenID 2 unasked.        *)
EXTENDS Consumer, TLC

CONSTANTS w1, w2, opA, opB, c1, c2, q1, q2, r1, r2

E(ver, cid, op) == [ver |-> ver, cid |-> cid, op |-> op]

MCWorker == {w1, w2}
MCOPs == {opA, opB}
MCClaimed == {c1, c2}
MCServices == c1 :> {E(2, c1, opA)} @@ c2 :> {E(1, c2, opB), E(2, c2, opB)}
MCChoices == {E(2, None, opA), E(1, c2, opB)}
M(ver, signer, op, cid) == [ver |-> ver, signer |-> signer, op |-> op, cid |-> cid]
MCAnswers == {M(2, opA, opB, c2), M(2, opA, opA, None), M(1, opB, opB, c2)}
MCUnsolicited == {M(2, opA, opB, c1), M(2, opB, opB, c2)}
MCSharers == {opB}
MCRequests == {q1, q2}
MCResponses == {r1, r2}
Symmetry == Permutations(MCWorker) \union Permutations(MCRequests) \union Permutations(MCResponses)
=============================================================================
