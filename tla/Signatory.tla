----------------------------- MODULE Signatory -----------------------------
(***************************************************************************)
(* The OP's secrets: OpenID::Server::Signatory and the requests that reach *)
(* it (associate, signing a checkid answer, check_authentication), served  *)
(* by concurrent workers that share one association store.                 *)
(*                                                                         *)
(* The store keeps two namespaces, "normal" for associations shared with a *)
(* relying party and "dumb" for those the OP keeps to itself.  One call of *)
(* the store is one atomic step here; a request is several such steps, and *)
(* a worker may die between them.                                          *)
(*                                                                         *)
(* A handle stands for its association: handles are never reused.  A       *)
(* response is the pair of the handle it is signed with and the handle it  *)
(* declares invalid; its fields and the signature itself are abstracted to *)
(* intact, whether what the copy that comes back lists as signed is        *)
(* unaltered.                                                              *)
(*                                                                         *)
(* Bounds: the number of Handles and MaxTime.                              *)
(***************************************************************************)
EXTENDS Integers

CONSTANTS
  Worker,
  Handles,        \* the handles create_association may draw
  Foreign,        \* handles relying parties cite and this store never held
  None,           \* nil
  Lifetime,       \* secret_lifetime
  Hides,          \* the kinds of store, see hides
  MaxTime

ASSUME SignatoryAssumption ==
  /\ Foreign \intersect Handles = {}
  /\ None \notin Handles \union Foreign
  /\ Lifetime \in Nat \ {0}
  /\ Hides \subseteq BOOLEAN
  /\ MaxTime \in Nat

Kinds == {"normal", "dumb"}
Cited == Handles \union Foreign

VARIABLES
  hides,      \* does the store itself drop what has expired on a get?
  now,        \* Time.now.to_i
  store,      \* store[k]: the handles the store holds under key k
  made,       \* made[k]: the handles ever created under key k
  issued,     \* issued[h]: when it was made
  job,        \* job[w]: the request w is serving
  responses,  \* the signed responses sent
  checked,    \* the handles some check_authentication looked up
  raced,      \* those looked up again before a check that verified burnt them
  answered,   \* the handles some check_authentication answered about
  reported,   \* the handles of ours declared invalid, in responses or answers
  confirmed   \* confirmed[h]: how often is_valid:true was answered for h

assocVars == <<hides, store, made, issued>>
sentVars == <<responses, checked, raced, answered, reported, confirmed>>
vars == <<hides, now, store, made, issued, job,
          responses, checked, raced, answered, reported, confirmed>>

(***************************************************************************)
(* A request being served: where the worker is (pc), the handles in the    *)
(* request (h, ih), whether the last lookup returned a usable association  *)
(* (found), is_valid (valid), and, as history, whether this is a check of  *)
(* an unaltered response and the first of its handle (first), and whether  *)
(* h had not been declared invalid when it was looked up or made for       *)
(* signing (unreported).  At "sign", h is the handle that signs and ih the *)
(* one declared invalid.                                                   *)
(***************************************************************************)
PCs == {"idle", "decide", "invalidate", "fallback", "sign",
        "purge", "burn", "lookup", "purgeCited", "answer"}
Job == [pc : PCs, h : Cited \union {None}, ih : Cited \union {None},
        found : BOOLEAN, valid : BOOLEAN, first : BOOLEAN, unreported : BOOLEAN]
Response == [by : Handles, ih : Cited \union {None}]

Idle == [pc |-> "idle", h |-> None, ih |-> None,
         found |-> FALSE, valid |-> FALSE, first |-> FALSE, unreported |-> FALSE]

\* The handles a relying party may have seen.
Known == made["normal"] \union made["dumb"] \union Foreign

Goto(w, l) == job' = [job EXCEPT ![w].pc = l]
Done(w) == job' = [job EXCEPT ![w] = Idle]

\* expires_in <= 0
Expired(h) == now >= issued[h] + Lifetime

Held(k, h) == h \in store[k]

\* What @store.get_association returns something for.
Returned(k, h) == Held(k, h) /\ ~(hides /\ Expired(h))

Remove(k, h) == store' = [store EXCEPT ![k] = @ \ {h}]

\* @store.get_association: a store that hides what has expired deletes it.
Get(k, h) ==
  IF Held(k, h) /\ hides /\ Expired(h)
    THEN Remove(k, h)
    ELSE UNCHANGED store

\* create_association: a fresh handle, stored under key k.
CreateAssociation(k, h) ==
  /\ h \notin made["normal"] \union made["dumb"]
  /\ store' = [store EXCEPT ![k] = @ \union {h}]
  /\ made' = [made EXCEPT ![k] = @ \union {h}]
  /\ issued' = [issued EXCEPT ![h] = now]
  /\ UNCHANGED hides

Init ==
  /\ hides \in Hides
  /\ now = 0
  /\ store = [k \in Kinds |-> {}]
  /\ made = [k \in Kinds |-> {}]
  /\ issued = [h \in Handles |-> 0]
  /\ job = [w \in Worker |-> Idle]
  /\ responses = {}
  /\ checked = {}
  /\ raced = {}
  /\ answered = {}
  /\ reported = {}
  /\ confirmed = [h \in Handles |-> 0]

(***************************************************************************)
(* associate: Server#openid_associate for a type the negotiator allows (see *)
(* Negotiation; the type itself is abstracted here).                       *)
(***************************************************************************)
Associate(h) ==
  /\ CreateAssociation("normal", h)
  /\ UNCHANGED <<now, job>>
  /\ UNCHANGED sentVars

(***************************************************************************)
(* Signatory#sign.  The relying party cited handle h, or none.  Time may   *)
(* pass, and other workers run, between the decision which association     *)
(* signs and the response that is signed with it; from there to the wire   *)
(* the worker looks at nothing shared.                                     *)
(***************************************************************************)
Sending(h, ih) ==
  [Idle EXCEPT !.pc = "sign", !.h = h, !.ih = ih, !.unreported = TRUE]

SignDumb(w, h) ==
  /\ job[w].pc = "idle"
  /\ CreateAssociation("dumb", h)
  /\ job' = [job EXCEPT ![w] = Sending(h, None)]
  /\ UNCHANGED now
  /\ UNCHANGED sentVars

\* get_association(assoc_handle, false, false)
SignLookup(w, h) ==
  /\ job[w].pc = "idle"
  /\ h \in Known
  /\ job' = [job EXCEPT ![w] =
       [Idle EXCEPT !.pc = "decide", !.h = h, !.found = Returned("normal", h),
                    !.unreported = h \notin reported]]
  /\ Get("normal", h)
  /\ UNCHANGED <<hides, now, made, issued>>
  /\ UNCHANGED sentVars

SignDecide(w) ==
  LET h == job[w].h IN
  /\ job[w].pc = "decide"
  /\ job' = [job EXCEPT ![w].found = FALSE,
                        ![w].pc = IF ~job[w].found THEN "fallback"
                                  ELSE IF Expired(h) THEN "invalidate" ELSE "sign"]
  /\ UNCHANGED now
  /\ UNCHANGED assocVars
  /\ UNCHANGED sentVars

\* The clean-up that the disabled expiration check did not do.
SignInvalidate(w) ==
  /\ job[w].pc = "invalidate"
  /\ Goto(w, "fallback")
  /\ Remove("normal", job[w].h)
  /\ UNCHANGED <<hides, now, made, issued>>
  /\ UNCHANGED sentVars

\* create_association(true, assoc_type)
SignFallback(w, h) ==
  /\ job[w].pc = "fallback"
  /\ CreateAssociation("dumb", h)
  /\ job' = [job EXCEPT ![w] = Sending(h, job[w].h)]
  /\ UNCHANGED now
  /\ UNCHANGED sentVars

\* assoc.sign_message, and the encoded response leaves.
SignMessage(w) ==
  LET ih == job[w].ih IN
  /\ job[w].pc = "sign"
  /\ Done(w)
  /\ responses' = responses \union {[by |-> job[w].h, ih |-> ih]}
  /\ reported' = reported \union ({ih} \intersect Handles)
  /\ UNCHANGED <<now, checked, raced, answered, confirmed>>
  /\ UNCHANGED assocVars

(***************************************************************************)
(* CheckAuthRequest#answer, for a copy of a response that was sent.  The   *)
(* copy may name any invalidate_handle: sign_message lists the field as    *)
(* signed only if the response had one.                                    *)
(***************************************************************************)
MayCite(r, intact) ==
  {r.ih} \union (IF intact /\ r.ih # None THEN {} ELSE Known)

\* v has verified a response signed with h and not yet burnt h.
Verified(v, h) == job[v].pc = "burn" /\ job[v].h = h /\ job[v].valid

\* Mutants: verify takes a shared secret too, or expires one too early.
CheckVerifyAnyKey(w, r, ih, intact) ==
  LET h == r.by IN
  /\ job[w].pc = "idle"
  /\ r \in responses
  /\ ih \in MayCite(r, intact)
  /\ job' = [job EXCEPT ![w] =
       [pc |-> "burn", h |-> h, ih |-> ih, found |-> FALSE,
        valid |-> (Held("dumb", h) \/ Held("normal", h)) /\ ~Expired(h) /\ intact,
        first |-> intact /\ h \notin checked, unreported |-> FALSE]]
  /\ checked' = checked \union {h}
  /\ raced' = raced \union {k \in {h} : \E v \in Worker : Verified(v, k)}
  /\ UNCHANGED <<hides, now, store, made, issued>>
  /\ UNCHANGED <<responses, answered, reported, confirmed>>

CheckVerifyEarly(w, r, ih, intact) ==
  LET h == r.by
      expired == now + 1 >= issued[h] + Lifetime
  IN
  /\ job[w].pc = "idle"
  /\ r \in responses
  /\ ih \in MayCite(r, intact)
  /\ job' = [job EXCEPT ![w] =
       [pc |-> IF Held("dumb", h) /\ expired THEN "purge" ELSE "burn",
        h |-> h, ih |-> ih, found |-> FALSE,
        valid |-> Held("dumb", h) /\ ~expired /\ intact,
        first |-> intact /\ h \notin checked, unreported |-> FALSE]]
  /\ checked' = checked \union {h}
  /\ raced' = raced \union {k \in {h} : \E v \in Worker : Verified(v, k)}
  /\ UNCHANGED <<hides, now, store, made, issued>>
  /\ UNCHANGED <<responses, answered, reported, confirmed>>

\* Signatory#verify up to its first store call, and the comparison after it.
CheckVerify(w, r, ih, intact) ==
  LET h == r.by IN
  /\ job[w].pc = "idle"
  /\ r \in responses
  /\ ih \in MayCite(r, intact)
  /\ job' = [job EXCEPT ![w] =
       [pc |-> IF Returned("dumb", h) /\ Expired(h) THEN "purge" ELSE "burn",
        h |-> h, ih |-> ih, found |-> FALSE,
        valid |-> Held("dumb", h) /\ ~Expired(h) /\ intact,
        first |-> intact /\ h \notin checked, unreported |-> FALSE]]
  /\ Get("dumb", h)
  /\ checked' = checked \union {h}
  /\ raced' = raced \union {k \in {h} : \E v \in Worker : Verified(v, k)}
  /\ UNCHANGED <<hides, now, made, issued>>
  /\ UNCHANGED <<responses, answered, reported, confirmed>>

\* get_association with check_expiration removes what it found expired.
CheckPurge(w) ==
  /\ job[w].pc = "purge"
  /\ Goto(w, "burn")
  /\ Remove("dumb", job[w].h)
  /\ UNCHANGED <<hides, now, made, issued>>
  /\ UNCHANGED sentVars

\* Mutant: invalidate is called without the dumb flag.
CheckBurnShared(w) ==
  /\ job[w].pc = "burn"
  /\ Goto(w, IF job[w].ih = None THEN "answer" ELSE "lookup")
  /\ Remove("normal", job[w].h)
  /\ UNCHANGED <<hides, now, made, issued>>
  /\ UNCHANGED sentVars

\* signatory.invalidate(@assoc_handle, true)
CheckBurn(w) ==
  /\ job[w].pc = "burn"
  /\ Goto(w, IF job[w].ih = None THEN "answer" ELSE "lookup")
  /\ Remove("dumb", job[w].h)
  /\ UNCHANGED <<hides, now, made, issued>>
  /\ UNCHANGED sentVars

\* Mutant: the cited handle is looked up among the dumb ones.
CheckLookupDumb(w) ==
  LET ih == job[w].ih IN
  /\ job[w].pc = "lookup"
  /\ job' = [job EXCEPT ![w].found = Held("dumb", ih) /\ ~Expired(ih), ![w].pc = "answer"]
  /\ UNCHANGED <<hides, now, store, made, issued>>
  /\ UNCHANGED sentVars

\* signatory.get_association(@invalidate_handle, false)
CheckLookup(w) ==
  LET ih == job[w].ih IN
  /\ job[w].pc = "lookup"
  /\ job' = [job EXCEPT
       ![w].found = Held("normal", ih) /\ ~Expired(ih),
       ![w].pc = IF Returned("normal", ih) /\ Expired(ih)
                   THEN "purgeCited" ELSE "answer"]
  /\ Get("normal", ih)
  /\ UNCHANGED <<hides, now, made, issued>>
  /\ UNCHANGED sentVars

CheckPurgeCited(w) ==
  /\ job[w].pc = "purgeCited"
  /\ Goto(w, "answer")
  /\ Remove("normal", job[w].ih)
  /\ UNCHANGED <<hides, now, made, issued>>
  /\ UNCHANGED sentVars

CheckAnswer(w) ==
  LET h == job[w].h
      ih == job[w].ih
  IN
  /\ job[w].pc = "answer"
  /\ Done(w)
  /\ answered' = answered \union {h}
  /\ confirmed' = [confirmed EXCEPT ![h] = IF job[w].valid THEN @ + 1 ELSE @]
  /\ reported' = reported \union
                   (IF job[w].found THEN {} ELSE {ih} \intersect Handles)
  /\ UNCHANGED <<now, responses, checked, raced>>
  /\ UNCHANGED assocVars

(***************************************************************************)
(* A worker dies, and time passes.                                         *)
(***************************************************************************)
Crash(w) ==
  /\ job[w].pc # "idle"
  /\ Done(w)
  /\ UNCHANGED now
  /\ UNCHANGED assocVars
  /\ UNCHANGED sentVars

Tick ==
  /\ now < MaxTime
  /\ now' = now + 1
  /\ UNCHANGED job
  /\ UNCHANGED assocVars
  /\ UNCHANGED sentVars

Sign(w) ==
  \/ \E h \in Handles : SignDumb(w, h) \/ SignFallback(w, h)
  \/ \E h \in Cited : SignLookup(w, h)
  \/ SignDecide(w)
  \/ SignInvalidate(w)
  \/ SignMessage(w)

Check(w) ==
  \/ \E r \in Response, ih \in Cited \union {None}, intact \in BOOLEAN :
       CheckVerify(w, r, ih, intact)
  \/ CheckPurge(w)
  \/ CheckBurn(w)
  \/ CheckLookup(w)
  \/ CheckPurgeCited(w)
  \/ CheckAnswer(w)

Next ==
  \/ Tick
  \/ \E h \in Handles : Associate(h)
  \/ \E w \in Worker : Sign(w) \/ Check(w) \/ Crash(w)

Spec == Init /\ [][Next]_vars

-----------------------------------------------------------------------------
TypeOK ==
  /\ now \in Nat
  /\ store \in [Kinds -> SUBSET Handles]
  /\ made \in [Kinds -> SUBSET Handles]
  /\ hides \in BOOLEAN
  /\ issued \in [Handles -> Nat]
  /\ job \in [Worker -> Job]
  /\ responses \subseteq Response
  /\ checked \subseteq Handles
  /\ raced \subseteq Handles
  /\ answered \subseteq Handles
  /\ reported \subseteq Handles
  /\ confirmed \in [Handles -> Nat]

\* Once a check_authentication about h was answered, whatever the answer,
\* the secret of h is gone: no later check of h can succeed.
BurntAfterAnswer == answered \intersect store["dumb"] = {}

\* check_authentication vouches only for what was signed in dumb mode: a
\* secret the relying party shares proves nothing about who signed.
ConfirmedWasDumb ==
  \A h \in Handles : confirmed[h] > 0 =>
    /\ h \in made["dumb"]
    /\ \E r \in responses : r.by = h

\* A handle declared invalid, in a signed response or in the answer to a
\* check_authentication, never again names a live shared association: the
\* relying party that drops it on this word loses nothing.
ReportedStaysDead ==
  \A h \in reported : ~(Held("normal", h) /\ ~Expired(h))

\* The first check of an unaltered response whose secret has not expired is
\* on its way to is_valid:true: nothing burns a handle before its check.
FirstCheckSucceeds ==
  \A w \in Worker :
    /\ job[w].first
    /\ job[w].h \in made["dumb"]
    /\ ~Expired(job[w].h)
    => job[w].valid

\* A handle declared invalid signs no more, not even for a worker that read
\* the association before: what a worker signs with had not been declared
\* invalid when its request looked it up.  (In a request that had, time or
\* another worker may overtake the signature.)
ReportedSignsNoMore ==
  \A w \in Worker : job[w].pc = "sign" => job[w].unreported

\* is_valid:true is answered twice for a handle only if a second check of
\* it was begun between the first one's verify and its invalidate.
ConfirmedTwiceOnlyByRace == \A h \in Handles \ raced : confirmed[h] <= 1
=============================================================================
