---------------------------- MODULE MCSignatory ----------------------------
(* Two handles: a shared association and its fallback, or two dumb ones.   *)
EXTENDS Signatory, TLC

CONSTANTS w1, w2, h1, h2

MCWorker == {w1, w2}
MCHandles == {h1, h2}
Symmetry == Permutations(MCWorker) \union Permutations(MCHandles)
=============================================================================
