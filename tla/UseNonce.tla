------------------------------ MODULE UseNonce ------------------------------
(***************************************************************************)
(* What the stores' use_nonce have in common: processes of one site that   *)
(* check the timestamp of a nonce against the clock and then, some steps   *)
(* later, put it on record.  FileNonces and MemcacheNonces extend this     *)
(* module by their records and by the steps of their calls.                *)
(*                                                                         *)
(* Bounds: MaxTime stops the clock; MaxStall is the number of clock        *)
(* seconds that may pass while a process is inside use_nonce.              *)
(***************************************************************************)
EXTENDS Integers

CONSTANTS
  Proc, Nonces,
  Stamp,    \* Stamp[n]: the timestamp of n, in seconds
  Skew,     \* Nonce.skew
  MaxStall, MaxTime

ASSUME UseNonceAssumption ==
  /\ Stamp \in [Nonces -> Int]
  /\ Skew \in Nat
  /\ MaxStall \in Nat
  /\ MaxTime \in Nat

VARIABLES
  now,      \* Time.now.to_i
  pc,       \* pc[p]: where process p is
  arg,      \* arg[p]: the nonce of p's use_nonce call
  since,    \* since[p]: the clock p checked the timestamp against
  accepts   \* accepts[n]: how often use_nonce has put n on record

\* The guard of use_nonce.
Current(n, t) == /\ Stamp[n] - t <= Skew
                 /\ t - Stamp[n] <= Skew

\* use_nonce returns true at most once for a nonce ("Return false if the
\* nonce has already been used", store/interface.rb).
AtMostOnce == \A n \in Nonces : accepts[n] <= 1
=============================================================================
