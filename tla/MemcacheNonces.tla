--------------------------- MODULE MemcacheNonces ---------------------------
(***************************************************************************)
(* use_nonce of OpenID::Store::Memcache: processes of one site share a     *)
(* memcached, where a used nonce is an entry added with an expiry time.    *)
(*                                                                         *)
(* use_nonce reads the clock to check the timestamp, reads it again to     *)
(* compute the expiry time, then sends "add", which memcached executes     *)
(* atomically.  There is no cleanup: memcached drops what has expired.     *)
(* memcached itself is external; it is assumed to keep an entry until the  *)
(* entry expires, by the clock "now".                                      *)
(*                                                                         *)
(* AtMostOnce rests on Ahead + MaxStall < Pad: nonces may be accepted      *)
(* ahead of the clock, while the entry lives for Skew + Pad seconds from   *)
(* the moment of acceptance.                                               *)
(***************************************************************************)
EXTENDS UseNonce

CONSTANTS
  Pad,      \* the 5 seconds use_nonce adds to Nonce.skew
  Ahead     \* how far the clock that stamps nonces may run ahead of ours

ASSUME MemcacheNoncesAssumption ==
  /\ Pad \in Nat
  /\ Ahead \in Nat

VARIABLES
  until,    \* until[n]: when the entry of n expires; 0 if never added
  expiry    \* expiry[p]: the expiry time p has computed

memcacheVars == <<now, until, pc, arg, since, expiry, accepts>>

\* A nonce exists only once its server has stamped it.
Issued(n) == Stamp[n] - now <= Ahead

\* memcached still holds n.
Held(n) == now < until[n]

MemcacheTypeOK ==
  /\ now \in 0..MaxTime
  /\ until \in [Nonces -> Nat]
  /\ pc \in [Proc -> {"idle", "expiry", "add"}]
  /\ arg \in [Proc -> Nonces]
  /\ since \in [Proc -> 0..MaxTime]
  /\ expiry \in [Proc -> Nat]
  /\ accepts \in [Nonces -> Nat]

MemcacheInit ==
  /\ now = 0
  /\ until = [n \in Nonces |-> 0]
  /\ pc = [p \in Proc |-> "idle"]
  /\ arg \in [Proc -> Nonces]
  /\ since = [p \in Proc |-> 0]
  /\ expiry = [p \in Proc |-> 0]
  /\ accepts = [n \in Nonces |-> 0]

MemcacheCheckTimestamp(p, n) ==
  /\ pc[p] = "idle"
  /\ Issued(n)
  /\ Current(n, now)
  /\ pc' = [pc EXCEPT ![p] = "expiry"]
  /\ arg' = [arg EXCEPT ![p] = n]
  /\ since' = [since EXCEPT ![p] = now]
  /\ UNCHANGED <<now, until, expiry, accepts>>

\* Mutant: the entry lives for Nonce.skew only.
ComputeExpiryNoPad(p) ==
  /\ pc[p] = "expiry"
  /\ pc' = [pc EXCEPT ![p] = "add"]
  /\ expiry' = [expiry EXCEPT ![p] = now + Skew]
  /\ UNCHANGED <<now, until, arg, since, accepts>>

\* expiry(Nonce.skew + 5)
ComputeExpiry(p) ==
  /\ pc[p] = "expiry"
  /\ pc' = [pc EXCEPT ![p] = "add"]
  /\ expiry' = [expiry EXCEPT ![p] = now + Skew + Pad]
  /\ UNCHANGED <<now, until, arg, since, accepts>>

\* Mutant: "set" instead of "add".
AddSets(p) ==
  /\ pc[p] = "add"
  /\ pc' = [pc EXCEPT ![p] = "idle"]
  /\ until' = [until EXCEPT ![arg[p]] = expiry[p]]
  /\ accepts' = [accepts EXCEPT ![arg[p]] = @ + 1]
  /\ UNCHANGED <<now, arg, since, expiry>>

\* @cache_client.add: stores the entry unless memcached still holds it.
Add(p) ==
  /\ pc[p] = "add"
  /\ pc' = [pc EXCEPT ![p] = "idle"]
  /\ IF Held(arg[p])
       THEN UNCHANGED <<until, accepts>>
       ELSE /\ until' = [until EXCEPT ![arg[p]] = expiry[p]]
            /\ accepts' = [accepts EXCEPT ![arg[p]] = @ + 1]
  /\ UNCHANGED <<now, arg, since, expiry>>

MemcacheCrash(p) ==
  /\ pc[p] # "idle"
  /\ pc' = [pc EXCEPT ![p] = "idle"]
  /\ UNCHANGED <<now, until, arg, since, expiry, accepts>>

MemcacheTick ==
  /\ now < MaxTime
  /\ \A p \in Proc : pc[p] # "idle" => now < since[p] + MaxStall
  /\ now' = now + 1
  /\ UNCHANGED <<until, pc, arg, since, expiry, accepts>>

MemcacheNext ==
  \/ MemcacheTick
  \/ \E p \in Proc :
       \/ \E n \in Nonces : MemcacheCheckTimestamp(p, n)
       \/ ComputeExpiry(p)
       \/ Add(p)
       \/ MemcacheCrash(p)

MemcacheSpec == MemcacheInit /\ [][MemcacheNext]_memcacheVars

-----------------------------------------------------------------------------
\* The promise of the interface, under the refinement mapping that keeps
\* the clock and the acceptances and hides everything else.  This store
\* keeps it beyond the time of a nonce: it forgets none a call can present.
MemcachePromise == INSTANCE NonceStore WITH Slack <- MaxStall, Forgets <- FALSE
MemcacheImplementsNonceStore == MemcachePromise!Spec

\* memcached holds every accepted nonce for as long as a call that passes,
\* or has passed, the timestamp check can still reach "add".
HeldWhileCurrent ==
  \A n \in Nonces :
    /\ accepts[n] > 0 /\ Current(n, now) => Held(n)
    /\ \A p \in Proc : accepts[n] > 0 /\ pc[p] # "idle" /\ arg[p] = n => Held(n)
=============================================================================
