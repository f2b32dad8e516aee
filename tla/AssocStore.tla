----------------------------- MODULE AssocStore -----------------------------
(***************************************************************************)
(* What store/interface.rb promises of the associations of one server URL: *)
(* an association that was stored is held under its handle until somebody  *)
(* removes that handle, until another association takes its place, or      *)
(* until it has expired ("allowed to GC expired associations when found"); *)
(* and get_association answers with it, or with nil if it has expired.     *)
(*                                                                         *)
(* Not every store keeps the last half-sentence: hides says whether this   *)
(* one does.  And the promise is about handles that name one association:  *)
(* when an OP gives a handle out again, the second may be dropped for the  *)
(* first one's age.                                                        *)
(***************************************************************************)
EXTENDS Integers

CONSTANTS
  Assocs, Handles,
  Handle,    \* Handle[a]: the handle of association a
  Lifetime,  \* seconds from issued to expiry
  None

VARIABLES
  now,
  issued,    \* issued[a]: when a was made, -1 before that
  held,      \* held[h]: the association under handle h, or None
  given,     \* given[h]: what get_association answers for h, asked now
  storing,   \* the associations that a store_association is at
  asked,     \* the handles that a remove_association is at
  hides      \* whether get_association hides what has expired

vars == <<now, issued, held, given, storing, asked, hides>>

Expired(a, t) == t >= issued[a] + Lifetime

\* The answers, for whoever asks.
Answers ==
  [h \in Handles |->
     IF hides /\ held[h] # None /\ Expired(held[h], now) THEN None ELSE held[h]]

\* At time t the store may drop what it holds under h: an association of that
\* handle has expired (the one held or another), or is about to be stored.
MayDrop(h, t) ==
  \E a \in Assocs : /\ Handle[a] = h
                    /\ a \in storing \/ (issued[a] # -1 /\ Expired(a, t))

DropsOnly(t) ==
  \A h \in Handles :
    held'[h] = held[h] \/ (held'[h] = None /\ MayDrop(h, t))

Init ==
  /\ now = 0
  /\ issued = [a \in Assocs |-> -1]
  /\ held = [h \in Handles |-> None]
  /\ given = held
  /\ storing = {}
  /\ asked = {}
  /\ hides \in BOOLEAN

\* An association is made and about to be stored.
Make(a) ==
  /\ issued[a] = -1
  /\ issued' = [issued EXCEPT ![a] = now]
  /\ storing' = storing \union {a}
  /\ UNCHANGED <<now, held, asked>>

Store(a) ==
  /\ a \in storing
  /\ held' = [held EXCEPT ![Handle[a]] = a]
  /\ storing' = storing \ {a}
  /\ UNCHANGED <<now, issued, asked>>

\* Calls of remove_association begin, and calls end or die undone.
Call ==
  /\ asked' \in SUBSET Handles
  /\ storing' \in SUBSET storing
  /\ UNCHANGED <<now, issued, held>>

Remove(h) ==
  /\ h \in asked
  /\ held' = [held EXCEPT ![h] = None]
  /\ asked' \in SUBSET asked
  /\ UNCHANGED <<now, issued, storing>>

Forget ==
  /\ DropsOnly(now)
  /\ UNCHANGED <<now, issued, storing, asked>>

Tick ==
  /\ now' = now + 1
  /\ DropsOnly(now')
  /\ UNCHANGED <<issued, storing, asked>>

Next ==
  /\ \/ Tick
     \/ Call
     \/ Forget
     \/ \E a \in Assocs : Make(a) \/ Store(a)
     \/ \E h \in Handles : Remove(h)
  /\ given' = Answers'
  /\ UNCHANGED hides

Spec == Init /\ [][Next]_vars
=============================================================================
