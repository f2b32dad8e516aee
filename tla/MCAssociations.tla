--------------------------- MODULE MCAssociations ---------------------------
(* Two processes and three associations, two of which the OP gave the same *)
(* handle, so that the second one takes the place of the first.            *)
EXTENDS Associations, TLC

CONSTANTS p1, p2, a1, a2, b, h1, h2

MCProc == {p1, p2}
MCAssocs == {a1, a2, b}
MCHandles == {h1, h2}
MCHandle == a1 :> h1 @@ a2 :> h1 @@ b :> h2
MCKinds == {"file", "memcache", "memory"}
MCSymmetry == Permutations(MCProc)
=============================================================================
