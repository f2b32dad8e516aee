---------------------------- MODULE MCFileNonces ----------------------------
(* Two processes and two nonces, one stamped ahead of the clock, so that   *)
(* each becomes current and outdated at a time of its own.                 *)
EXTENDS FileNonces, TLC

CONSTANTS p1, p2, early, late

MCProc == {p1, p2}
MCNonces == {early, late}
MCStamp == early :> 0 @@ late :> 2
=============================================================================
