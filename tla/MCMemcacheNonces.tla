-------------------------- MODULE MCMemcacheNonces --------------------------
(* Two processes and two nonces, the later one of a server whose clock may *)
(* run ahead.                                                              *)
EXTENDS MemcacheNonces, TLC

CONSTANTS p1, p2, early, late

MCProc == {p1, p2}
MCNonces == {early, late}
MCStamp == early :> 0 @@ late :> 3
=============================================================================
