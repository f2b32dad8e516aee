----------------------------- MODULE NonceStore -----------------------------
(***************************************************************************)
(* What OpenID::Store::Interface promises of use_nonce, whatever the       *)
(* store: a nonce is accepted once, and only while its timestamp lies      *)
(* within Nonce.skew seconds of the clock.  A refusal changes nothing, so  *)
(* it is a stuttering step here.  A store that forgets the nonces whose    *)
(* time is over keeps the promise as long as it lasts.                     *)
(*                                                                         *)
(* A nonce stands for the triple (server_url, timestamp, salt) the store   *)
(* is keyed by; Stamp gives its timestamp.                                 *)
(***************************************************************************)
EXTENDS Integers

CONSTANTS
  Nonces,   \* the nonces that may be presented
  Stamp,    \* Stamp[n]: the timestamp of n, in seconds
  Skew,     \* Nonce.skew
  Slack,    \* seconds a decision may lag behind the clock it was based on
  Forgets   \* does the store forget what is no longer current?

VARIABLES
  now,      \* the clock, Time.now.to_i
  accepts   \* accepts[n]: how often use_nonce has decided to accept n

vars == <<now, accepts>>

Init ==
  /\ now \in Nat
  /\ accepts = [n \in Nonces |-> 0]

\* Return true: n has not been used before and its timestamp is current.
Accept(n) ==
  /\ accepts[n] = 0 \/ (Forgets /\ now - Stamp[n] > Skew)
  /\ Stamp[n] - now <= Skew
  /\ now - Stamp[n] <= Skew + Slack
  /\ accepts' = [accepts EXCEPT ![n] = @ + 1]
  /\ UNCHANGED now

Tick ==
  /\ now' = now + 1
  /\ UNCHANGED accepts

Next == Tick \/ \E n \in Nonces : Accept(n)

Spec == Init /\ [][Next]_vars
=============================================================================
