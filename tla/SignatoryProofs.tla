-------------------------- MODULE SignatoryProofs --------------------------
(***************************************************************************)
(* Proofs about Signatory, for any number of workers, handles and lengths  *)
(* of time, and for either kind of store.                                  *)
(*                                                                         *)
(* The argument has two halves.  Monotone says what no step can undo: the  *)
(* clock, the handles made and the responses sent only grow, a handle that *)
(* was made is never stored again once it was removed.  The parts of IInv  *)
(* say what each worker knows between two calls of the store; Monotone     *)
(* keeps them true of the workers that a step leaves alone.                *)
(***************************************************************************)
EXTENDS Signatory, TLAPS

Made == made["normal"] \union made["dumb"]
CheckPCs == {"purge", "burn", "lookup", "purgeCited", "answer"}

\* h is no shared association that could sign.
Dead(h) == ~(Held("normal", h) /\ ~Expired(h))

\* The dead handles among those made here and those of another server.
Gone == {h \in Made \union Foreign : Dead(h)}

HandlesMade ==
  /\ \A k \in Kinds : store[k] \subseteq made[k]
  /\ answered \subseteq Made
  /\ \A r \in responses : r.by \in Made /\ r.ih \in Made \union (Foreign \union {None})
  /\ \A w \in Worker :
       /\ job[w].pc \in {"decide", "invalidate", "fallback"} => job[w].h \in Made \union Foreign
       /\ job[w].pc = "decide" /\ job[w].found => job[w].h \in Made
       /\ job[w].pc = "decide" => job[w].ih = None
       /\ job[w].pc = "sign" => job[w].h \in Made /\ job[w].ih \in Made \union (Foreign \union {None})
       /\ job[w].pc \in CheckPCs =>
            job[w].h \in Made /\ job[w].ih \in Made \union (Foreign \union {None})

\* A check past its burn, and one that was answered, left no secret behind.
Burnt ==
  /\ \A w \in Worker : job[w].pc \in {"lookup", "purgeCited", "answer"} => ~Held("dumb", job[w].h)
  /\ BurntAfterAnswer

\* A worker about to report a handle has seen, or made, the end of it.
AboutToReport ==
  /\ reported \subseteq Gone
  /\ \A w \in Worker :
       /\ job[w].pc = "decide" /\ ~job[w].found => job[w].h \in Gone
       /\ job[w].pc = "fallback" => job[w].h \in Gone
       /\ job[w].pc = "sign" /\ job[w].ih # None => job[w].ih \in Gone
       /\ job[w].pc \in {"purgeCited", "answer"} /\ ~job[w].found /\ job[w].ih # None => job[w].ih \in Gone

\* A worker that found a handle already declared invalid sees it expired.
NotReported ==
  /\ \A w \in Worker :
       job[w].pc = "decide" /\ job[w].found /\ ~job[w].unreported => Expired(job[w].h)
  /\ ReportedSignsNoMore

\* What a check that found the signature valid rests on.
ValidIsVouched ==
  /\ \A w \in Worker : job[w].valid =>
       /\ job[w].pc \in CheckPCs \ {"purge"}
       /\ job[w].h \in made["dumb"]
       /\ \E r \in responses : r.by = job[w].h
  /\ ConfirmedWasDumb

Valid(w, h) == job[w].valid /\ job[w].h = h

\* Of a handle that was not raced for, one check at most is or was valid.
OneValid ==
  /\ \A h \in Handles : confirmed[h] > 0 => h \in answered
  /\ \A h \in Handles \ raced :
       /\ confirmed[h] <= 1
       /\ \A w \in Worker : Valid(w, h) => confirmed[h] = 0
       /\ \A v, w \in Worker : Valid(v, h) /\ Valid(w, h) => v = w

\* A dumb association leaves the store only by a check of it.
LeavesByCheck ==
  /\ made["dumb"] \subseteq store["dumb"] \union checked
  /\ \A w \in Worker : job[w].pc \in CheckPCs => job[w].h \in checked
  /\ \A w \in Worker : job[w].first => job[w].pc \in CheckPCs
  /\ FirstCheckSucceeds

IInv ==
  /\ TypeOK
  /\ HandlesMade
  /\ Burnt
  /\ AboutToReport
  /\ NotReported
  /\ ValidIsVouched
  /\ OneValid
  /\ LeavesByCheck

-----------------------------------------------------------------------------
(* Types *)

LEMMA InitType == Init => TypeOK
  BY SignatoryAssumption DEF Init, TypeOK, Idle, Job, PCs, Kinds

\* The job a worker ends up with is a job.
LEMMA IdleIsJob == Idle \in Job
  BY DEF Idle, Job, PCs

LEMMA SendingIsJob ==
  ASSUME NEW h \in Cited, NEW ih \in Cited \union {None}
  PROVE  /\ Sending(h, ih) \in Job
         /\ Sending(h, ih).pc = "sign" /\ Sending(h, ih).h = h /\ Sending(h, ih).ih = ih
         /\ Sending(h, ih).unreported /\ ~Sending(h, ih).valid /\ ~Sending(h, ih).first
  BY DEF Sending, Idle, Job, PCs

\* The store's calls yield a store of handles (create_association,
\* @store.get_association, @store.remove_association).
LEMMA StoreTypes ==
  ASSUME TypeOK, NEW k \in Kinds
  PROVE  /\ \A h \in Handles : CreateAssociation(k, h) =>
              /\ store' \in [Kinds -> SUBSET Handles]
              /\ made' \in [Kinds -> SUBSET Handles]
              /\ issued' \in [Handles -> Nat]
         /\ \A h : Remove(k, h) => store' \in [Kinds -> SUBSET Handles]
         /\ \A h : Get(k, h) => store' \in [Kinds -> SUBSET Handles]
<1> USE DEF TypeOK
<1>1. ASSUME NEW h \in Handles, CreateAssociation(k, h)
      PROVE  /\ store' \in [Kinds -> SUBSET Handles]
             /\ made' \in [Kinds -> SUBSET Handles]
             /\ issued' \in [Handles -> Nat]
  BY <1>1 DEF CreateAssociation
<1>2. ASSUME NEW h, Remove(k, h) PROVE store' \in [Kinds -> SUBSET Handles]
  BY <1>2 DEF Remove
<1>3. ASSUME NEW h, Get(k, h) PROVE store' \in [Kinds -> SUBSET Handles]
  BY <1>2, <1>3 DEF Get
<1> QED BY <1>1, <1>2, <1>3

\* Every step keeps the types; the handles in requests are known ones.
LEMMA NextType ==
  ASSUME TypeOK, HandlesMade, [Next]_vars
  PROVE  TypeOK'
<1> USE SignatoryAssumption
<1>0. "normal" \in Kinds /\ "dumb" \in Kinds /\ Made \subseteq Handles
  BY DEF Kinds, Made, TypeOK
<1>1. ASSUME NEW h \in Handles, Associate(h)
      PROVE  TypeOK'
  BY <1>0, <1>1, StoreTypes DEF Associate, sentVars, TypeOK, CreateAssociation
<1>2. ASSUME NEW w \in Worker, NEW h \in Handles, SignDumb(w, h)
      PROVE  TypeOK'
  <2>1. CreateAssociation("dumb", h) /\ hides' = hides
    BY <1>2 DEF SignDumb, CreateAssociation
  <2>2. Sending(h, None) \in Job
    BY SendingIsJob DEF Cited
  <2>3. job' \in [Worker -> Job]
    BY <1>2, <2>2 DEF SignDumb, TypeOK
  <2> QED BY <1>0, <1>2, <2>1, <2>3, StoreTypes DEF SignDumb, TypeOK, sentVars
<1>3. ASSUME NEW w \in Worker, NEW h \in Cited, SignLookup(w, h)
      PROVE  TypeOK'
  <2>1. Get("normal", h)
    BY <1>3 DEF SignLookup
  <2>2. [Idle EXCEPT !.pc = "decide", !.h = h, !.found = Returned("normal", h),
                    !.unreported = h \notin reported] \in Job
    <3>1. Returned("normal", h) \in BOOLEAN
      BY DEF Returned, Held
    <3> QED BY <3>1 DEF Idle, Job, PCs, Cited
  <2> QED BY <1>0, <1>3, <2>1, <2>2, StoreTypes DEF SignLookup, TypeOK, sentVars
<1>4. ASSUME NEW w \in Worker, SignDecide(w)
      PROVE  TypeOK'
  <2>1. job' \in [Worker -> Job]
    BY <1>4 DEF SignDecide, TypeOK, Job, PCs
  <2> QED BY <1>4, <2>1 DEF SignDecide, TypeOK, sentVars, assocVars
<1>5. ASSUME NEW w \in Worker, SignInvalidate(w)
      PROVE  TypeOK'
  <2>1. job' \in [Worker -> Job]
    BY <1>5 DEF SignInvalidate, Goto, TypeOK, Job, PCs
  <2> QED BY <1>0, <1>5, <2>1, StoreTypes DEF SignInvalidate, TypeOK, sentVars
<1>6. ASSUME NEW w \in Worker, NEW h \in Handles, SignFallback(w, h)
      PROVE  TypeOK'
  <2>1. CreateAssociation("dumb", h) /\ hides' = hides
    BY <1>6 DEF SignFallback, CreateAssociation
  <2>2. job[w].h \in Cited
    BY <1>0, <1>6 DEF SignFallback, HandlesMade, Cited
  <2>3. Sending(h, job[w].h) \in Job
    BY <2>2, SendingIsJob DEF Cited
  <2>4. job' \in [Worker -> Job]
    BY <1>6, <2>3 DEF SignFallback, TypeOK
  <2> QED BY <1>0, <1>6, <2>1, <2>4, StoreTypes DEF SignFallback, TypeOK, sentVars
<1>14. ASSUME NEW w \in Worker, SignMessage(w)
       PROVE  TypeOK'
  <2>1. job[w].h \in Handles /\ job[w].ih \in Cited \union {None}
    BY <1>0, <1>14 DEF SignMessage, HandlesMade, TypeOK, Job
  <2>2. job' \in [Worker -> Job]
    BY <1>14, IdleIsJob DEF SignMessage, Done, TypeOK
  <2>3. responses' \subseteq Response /\ reported' \subseteq Handles
    BY <1>14, <2>1 DEF SignMessage, TypeOK, Response
  <2> QED BY <1>14, <2>2, <2>3 DEF SignMessage, TypeOK, assocVars
<1>7. ASSUME NEW w \in Worker, NEW r \in Response, NEW ih \in Cited \union {None},
             NEW intact \in BOOLEAN, CheckVerify(w, r, ih, intact)
      PROVE  TypeOK'
  <2>1. r.by \in Handles
    BY DEF Response
  <2>2. job' \in [Worker -> Job]
    <3> DEFINE j == [pc |-> IF Returned("dumb", r.by) /\ Expired(r.by) THEN "purge" ELSE "burn",
                     h |-> r.by, ih |-> ih, found |-> FALSE,
                     valid |-> Held("dumb", r.by) /\ ~Expired(r.by) /\ intact,
                     first |-> intact /\ r.by \notin checked, unreported |-> FALSE]
    <3>1. j \in Job
      BY <2>1 DEF Job, PCs, Cited, Held
    <3>2. job' = [job EXCEPT ![w] = j]
      BY <1>7 DEF CheckVerify
    <3> HIDE DEF j
    <3> QED BY <3>1, <3>2 DEF TypeOK
  <2>3. raced' \subseteq Handles /\ checked' \subseteq Handles
    BY <1>7, <2>1 DEF CheckVerify, TypeOK
  <2>4. Get("dumb", r.by)
    BY <1>7 DEF CheckVerify
  <2> QED BY <1>0, <1>7, <2>2, <2>3, <2>4, StoreTypes DEF CheckVerify, TypeOK
<1>8. ASSUME NEW w \in Worker, CheckPurge(w) \/ CheckBurn(w) \/ CheckPurgeCited(w)
      PROVE  TypeOK'
  <2>1. job' \in [Worker -> Job]
    BY <1>8 DEF CheckPurge, CheckBurn, CheckPurgeCited, Goto, TypeOK, Job, PCs
  <2>2. store' \in [Kinds -> SUBSET Handles]
    BY <1>0, <1>8, StoreTypes DEF CheckPurge, CheckBurn, CheckPurgeCited
  <2> QED BY <1>8, <2>1, <2>2 DEF CheckPurge, CheckBurn, CheckPurgeCited, TypeOK, sentVars
<1>9. ASSUME NEW w \in Worker, CheckLookup(w)
      PROVE  TypeOK'
  <2>1. job' \in [Worker -> Job]
    BY <1>9 DEF CheckLookup, TypeOK, Job, PCs, Held
  <2>2. Get("normal", job[w].ih)
    BY <1>9 DEF CheckLookup
  <2> QED BY <1>0, <1>9, <2>1, <2>2, StoreTypes DEF CheckLookup, TypeOK, sentVars
<1>10. ASSUME NEW w \in Worker, CheckAnswer(w)
       PROVE  TypeOK'
  <2>1. job[w].h \in Handles /\ job[w].ih \in Cited \union {None}
    BY <1>0, <1>10 DEF CheckAnswer, HandlesMade, CheckPCs, TypeOK, Job
  <2>2. job' \in [Worker -> Job]
    BY <1>10, IdleIsJob DEF CheckAnswer, Done, TypeOK
  <2>3. confirmed' \in [Handles -> Nat]
    BY <1>10, <2>1 DEF CheckAnswer, TypeOK
  <2>4. answered' \subseteq Handles /\ reported' \subseteq Handles
    BY <1>10, <2>1 DEF CheckAnswer, TypeOK
  <2> QED BY <1>10, <2>2, <2>3, <2>4 DEF CheckAnswer, TypeOK, assocVars
<1>11. ASSUME NEW w \in Worker, Crash(w)
       PROVE  TypeOK'
  BY <1>11, IdleIsJob DEF Crash, Done, TypeOK, assocVars, sentVars
<1>12. CASE Tick
  BY <1>12 DEF Tick, TypeOK, assocVars, sentVars
<1>13. CASE UNCHANGED vars
  BY <1>13 DEF vars, TypeOK
<1> QED
  BY <1>1, <1>2, <1>3, <1>4, <1>5, <1>6, <1>7, <1>8, <1>9, <1>10, <1>11, <1>12, <1>13, <1>14
     DEF Next, Sign, Check

-----------------------------------------------------------------------------
(* What no step can undo *)

Monotone ==
  /\ now <= now'
  /\ Made \subseteq Made'
  /\ \A k \in Kinds : /\ made[k] \subseteq made'[k]
                      /\ made'[k] \intersect Made \subseteq made[k]
                      /\ store'[k] \intersect Made \subseteq store[k]
                      /\ store'[k] \subseteq store[k] \union (made'[k] \ Made)
  /\ \A h \in Made : issued'[h] = issued[h]
  /\ responses \subseteq responses'
  /\ checked \subseteq checked'
  /\ answered \subseteq answered'

\* A call of the store adds a handle that was never made, or takes one out.
LEMMA StoreMonotone ==
  ASSUME TypeOK, now <= now', responses \subseteq responses',
         checked \subseteq checked', answered \subseteq answered',
         \/ \E k \in Kinds, h \in Handles : CreateAssociation(k, h)
         \/ /\ UNCHANGED <<made, issued>>
            /\ \/ UNCHANGED store
               \/ \E k \in Kinds : (\E h : Remove(k, h)) \/ (\E h : Get(k, h))
  PROVE  Monotone
<1> USE DEF TypeOK, Made
<1>1. CASE \E k \in Kinds, h \in Handles : CreateAssociation(k, h)
  <2> PICK k \in Kinds, h \in Handles : CreateAssociation(k, h)
    BY <1>1
  <2>1. /\ h \notin Made
        /\ made' = [made EXCEPT ![k] = @ \union {h}]
        /\ store' = [store EXCEPT ![k] = @ \union {h}]
        /\ issued' = [issued EXCEPT ![h] = now]
    BY DEF CreateAssociation
  <2>2. \A l \in Kinds : /\ made[l] \subseteq made'[l]
                         /\ made'[l] \subseteq made[l] \union {h}
                         /\ store'[l] \subseteq store[l] \union {h}
                         /\ l # k => store'[l] = store[l]
    BY <2>1
  <2>3. h \in made'[k]
    BY <2>1
  <2>4. Made \subseteq Made'
    BY <2>2 DEF Kinds
  <2>5. \A g \in Made : issued'[g] = issued[g]
    BY <2>1
  <2> QED BY <2>1, <2>2, <2>3, <2>4, <2>5 DEF Monotone
<1>2. CASE UNCHANGED <<made, issued>> /\ UNCHANGED store
  BY <1>2 DEF Monotone
<1>3. CASE /\ UNCHANGED <<made, issued>>
           /\ \E k \in Kinds : (\E h : Remove(k, h)) \/ (\E h : Get(k, h))
  <2>1. \A k \in Kinds : store'[k] \subseteq store[k]
    BY <1>3 DEF Remove, Get
  <2> QED BY <1>3, <2>1 DEF Monotone
<1> QED BY <1>1, <1>2, <1>3

LEMMA StepMonotone ==
  ASSUME TypeOK, [Next]_vars
  PROVE  Monotone
<1> USE DEF Kinds
<1>0. now \in Nat /\ now <= now + 1
  BY DEF TypeOK
<1>1. ASSUME NEW h \in Handles, Associate(h)
      PROVE  Monotone
  BY <1>0, <1>1, StoreMonotone DEF Associate, sentVars
<1>2. ASSUME NEW w \in Worker, NEW h \in Handles, SignDumb(w, h) \/ SignFallback(w, h)
      PROVE  Monotone
  BY <1>0, <1>2, StoreMonotone DEF SignDumb, SignFallback, sentVars
<1>3. ASSUME NEW w \in Worker, NEW h \in Cited, SignLookup(w, h)
      PROVE  Monotone
  BY <1>0, <1>3, StoreMonotone DEF SignLookup, sentVars
<1>4. ASSUME NEW w \in Worker, SignDecide(w) \/ SignMessage(w)
      PROVE  Monotone
  BY <1>0, <1>4, StoreMonotone DEF SignDecide, SignMessage, sentVars, assocVars
<1>5. ASSUME NEW w \in Worker,
             SignInvalidate(w) \/ CheckPurge(w) \/ CheckBurn(w) \/ CheckPurgeCited(w)
      PROVE  Monotone
  BY <1>0, <1>5, StoreMonotone
     DEF SignInvalidate, CheckPurge, CheckBurn, CheckPurgeCited, sentVars
<1>6. ASSUME NEW w \in Worker, NEW r \in Response, NEW ih \in Cited \union {None},
             NEW intact \in BOOLEAN, CheckVerify(w, r, ih, intact)
      PROVE  Monotone
  BY <1>0, <1>6, StoreMonotone DEF CheckVerify
<1>7. ASSUME NEW w \in Worker, CheckLookup(w)
      PROVE  Monotone
  BY <1>0, <1>7, StoreMonotone DEF CheckLookup, sentVars
<1>8. ASSUME NEW w \in Worker, CheckAnswer(w) \/ Crash(w)
      PROVE  Monotone
  BY <1>0, <1>8, StoreMonotone DEF CheckAnswer, Crash, sentVars, assocVars
<1>9. CASE Tick \/ UNCHANGED vars
  BY <1>0, <1>9, StoreMonotone DEF Tick, vars, sentVars, assocVars
<1> QED BY <1>1, <1>2, <1>3, <1>4, <1>5, <1>6, <1>7, <1>8, <1>9 DEF Next, Sign, Check

\* What is gone stays gone.
LEMMA GoneStays ==
  ASSUME TypeOK, TypeOK', Monotone
  PROVE  Gone \subseteq Gone'
<1> USE SignatoryAssumption
<1> SUFFICES ASSUME NEW h, h \in Gone PROVE h \in Gone'
  OBVIOUS
<1>1. "normal" \in Kinds
  BY DEF Kinds
<1>2. CASE h \in Foreign
  BY <1>1, <1>2 DEF Gone, Dead, Held, TypeOK
<1>3. CASE h \in Made
  <2>1. h \in Made' /\ issued'[h] = issued[h]
    BY <1>3 DEF Monotone
  <2>2. h \in Handles
    BY <1>3 DEF Made, TypeOK, Kinds
  <2>3. Held("normal", h)' => Held("normal", h)
    BY <1>1, <1>3 DEF Held, Monotone
  <2>4. Expired(h) => Expired(h)'
    BY <2>1, <2>2 DEF Expired, Monotone, TypeOK
  <2> QED BY <2>1, <2>3, <2>4 DEF Gone, Dead
<1> QED BY <1>2, <1>3 DEF Gone

-----------------------------------------------------------------------------
(* The parts of the invariant, one after the other *)

\* The handles in requests, responses and answers were made before.
LEMMA HandlesMadeNext ==
  ASSUME IInv, TypeOK', Monotone, [Next]_vars
  PROVE  HandlesMade'
<1> USE SignatoryAssumption
<1> DEFINE JobMade(j) ==
      /\ j.pc \in {"decide", "invalidate", "fallback"} => j.h \in Made \union Foreign
      /\ j.pc = "decide" /\ j.found => j.h \in Made
      /\ j.pc = "decide" => j.ih = None
      /\ j.pc = "sign" => j.h \in Made /\ j.ih \in Made \union (Foreign \union {None})
      /\ j.pc \in CheckPCs => j.h \in Made /\ j.ih \in Made \union (Foreign \union {None})
<1>0. /\ TypeOK /\ HandlesMade /\ "normal" \in Kinds /\ "dumb" \in Kinds
      /\ \A w \in Worker : JobMade(job[w])
  BY DEF IInv, HandlesMade, Kinds
<1>1. Made \subseteq Made' /\ (None \notin Made) /\ (Foreign \intersect Made = {}) /\ Made' \subseteq Handles
  BY <1>0 DEF Monotone, Made, TypeOK
<1>2. \A k \in Kinds : store'[k] \subseteq made'[k]
  BY <1>0 DEF HandlesMade, Monotone
<1>3. JobMade(Idle)'
  BY DEF Idle, CheckPCs
<1>4. ASSUME \A w \in Worker : job'[w] = job[w] \/ JobMade(job[w])',
             \A r \in responses' : r.by \in Made' /\ r.ih \in Made' \union (Foreign \union {None}),
             answered' \subseteq Made'
      PROVE  HandlesMade'
  BY <1>0, <1>1, <1>2, <1>4 DEF HandlesMade
<1>5. /\ \A r \in responses : r.by \in Made' /\ r.ih \in Made' \union (Foreign \union {None})
      /\ answered \subseteq Made'
  BY <1>0, <1>1 DEF HandlesMade
<1>6. ASSUME NEW w \in Worker, NEW h \in Handles, SignDumb(w, h) \/ SignFallback(w, h)
      PROVE  HandlesMade'
  <2>1. h \in Made'
    BY <1>0, <1>6 DEF SignDumb, SignFallback, CreateAssociation, Made, TypeOK
  <2>2. PICK ih \in Made \union (Foreign \union {None}) : job' = [job EXCEPT ![w] = Sending(h, ih)]
    BY <1>0, <1>6 DEF SignDumb, SignFallback
  <2>3. job'[w].pc = "sign" /\ job'[w].h = h /\ job'[w].ih = ih
    BY <1>0, <2>2 DEF Sending, Idle, TypeOK
  <2>4. JobMade(job[w])'
    BY <1>1, <2>1, <2>3 DEF CheckPCs
  <2>5. \A v \in Worker \ {w} : job'[v] = job[v]
    BY <1>0, <2>2 DEF TypeOK
  <2> QED BY <1>4, <1>5, <1>6, <2>4, <2>5 DEF SignDumb, SignFallback, sentVars
<1>13. ASSUME NEW w \in Worker, SignMessage(w)
       PROVE  HandlesMade'
  <2>1. \A v \in Worker : job'[v] = job[v] \/ job'[v] = Idle
    BY <1>0, <1>13 DEF SignMessage, Done, TypeOK
  <2>2. \A r \in responses' : r.by \in Made' /\ r.ih \in Made' \union (Foreign \union {None})
    BY <1>0, <1>1, <1>5, <1>13 DEF SignMessage
  <2> QED BY <1>3, <1>4, <1>5, <1>13, <2>1, <2>2 DEF SignMessage
<1>7. ASSUME NEW w \in Worker, NEW h \in Cited, SignLookup(w, h)
      PROVE  HandlesMade'
  <2>1. Returned("normal", h) => h \in Made
    BY <1>0 DEF Returned, Held, HandlesMade, Made
  <2>2. JobMade(job[w])'
    <3>1. /\ job'[w].pc = "decide" /\ job'[w].h = h /\ job'[w].ih = None
          /\ job'[w].found = Returned("normal", h)
      BY <1>0, <1>7 DEF SignLookup, Idle, TypeOK
    <3>2. h \in Made \union Foreign
      BY <1>7 DEF SignLookup, Known, Made
    <3> QED BY <1>1, <2>1, <3>1, <3>2 DEF CheckPCs
  <2>3. \A v \in Worker \ {w} : job'[v] = job[v]
    BY <1>0, <1>7 DEF SignLookup, TypeOK
  <2> QED BY <1>4, <1>5, <1>7, <2>2, <2>3 DEF SignLookup, sentVars
<1>8. ASSUME NEW w \in Worker, SignDecide(w)
      PROVE  HandlesMade'
  <2>1. \A v \in Worker \ {w} : job'[v] = job[v]
    BY <1>0, <1>8 DEF SignDecide, TypeOK
  <2>2. /\ job'[w].h = job[w].h /\ job'[w].ih = job[w].ih
        /\ \/ job'[w].pc \in {"invalidate", "fallback"}
           \/ job'[w].pc = "sign" /\ job[w].found
    BY <1>0, <1>8 DEF SignDecide, TypeOK, Job
  <2>3. JobMade(job[w])'
    BY <1>0, <1>1, <1>8, <2>2 DEF SignDecide, CheckPCs
  <2> QED BY <1>4, <1>5, <1>8, <2>1, <2>3 DEF SignDecide, sentVars
<1>9. ASSUME NEW w \in Worker,
             SignInvalidate(w) \/ CheckPurge(w) \/ CheckBurn(w) \/ CheckPurgeCited(w) \/ CheckLookup(w)
      PROVE  HandlesMade'
  <2>1. \A v \in Worker \ {w} : job'[v] = job[v]
    BY <1>0, <1>9
       DEF SignInvalidate, CheckPurge, CheckBurn, CheckPurgeCited, CheckLookup, Goto, TypeOK
  <2>2. /\ job'[w].h = job[w].h /\ job'[w].ih = job[w].ih
        /\ \/ job[w].pc = "invalidate" /\ job'[w].pc = "fallback"
           \/ job[w].pc \in CheckPCs /\ job'[w].pc \in CheckPCs
    BY <1>0, <1>9
       DEF SignInvalidate, CheckPurge, CheckBurn, CheckPurgeCited, CheckLookup, Goto, CheckPCs, TypeOK, Job
  <2>3. JobMade(job[w])'
    BY <1>0, <1>1, <2>2 DEF CheckPCs
  <2> QED
    BY <1>4, <1>5, <1>9, <2>1, <2>3
       DEF SignInvalidate, CheckPurge, CheckBurn, CheckPurgeCited, CheckLookup, sentVars
<1>10. ASSUME NEW w \in Worker, NEW r \in Response, NEW ih \in Cited \union {None},
              NEW intact \in BOOLEAN, CheckVerify(w, r, ih, intact)
       PROVE  HandlesMade'
  <2>1. r.by \in Made /\ ih \in Made \union (Foreign \union {None})
    BY <1>0, <1>10 DEF CheckVerify, MayCite, Known, HandlesMade, Made
  <2>2. JobMade(job[w])'
    BY <1>0, <1>1, <1>10, <2>1 DEF CheckVerify, CheckPCs, TypeOK
  <2>3. \A v \in Worker \ {w} : job'[v] = job[v]
    BY <1>0, <1>10 DEF CheckVerify, TypeOK
  <2> QED BY <1>4, <1>5, <1>10, <2>2, <2>3 DEF CheckVerify
<1>11. ASSUME NEW w \in Worker, CheckAnswer(w) \/ Crash(w)
       PROVE  HandlesMade'
  <2>1. \A v \in Worker : job'[v] = job[v] \/ job'[v] = Idle
    BY <1>0, <1>11 DEF CheckAnswer, Crash, Done, TypeOK
  <2>2. answered' \subseteq Made'
    BY <1>0, <1>1, <1>5, <1>11 DEF CheckAnswer, Crash, CheckPCs, sentVars
  <2> QED BY <1>3, <1>4, <1>5, <1>11, <2>1, <2>2 DEF CheckAnswer, Crash, sentVars
<1>12. CASE (\E h \in Handles : Associate(h)) \/ Tick \/ UNCHANGED vars
  BY <1>4, <1>5, <1>12 DEF Associate, Tick, vars, sentVars
<1> QED
  BY <1>6, <1>7, <1>8, <1>9, <1>10, <1>11, <1>12, <1>13 DEF Next, Sign, Check

\* Past its burn, a check's handle is gone; an answered one, too.
LEMMA BurntNext ==
  ASSUME IInv, TypeOK', Monotone, [Next]_vars
  PROVE  Burnt'
<1> USE DEF Burnt, BurntAfterAnswer
<1> DEFINE Past == {"lookup", "purgeCited", "answer"}
<1>0. TypeOK /\ HandlesMade /\ Burnt /\ "normal" \in Kinds /\ "dumb" \in Kinds
  BY DEF IInv, Kinds
<1>1. \A h \in Made : ~Held("dumb", h) => ~Held("dumb", h)'
  BY <1>0 DEF Held, Monotone
<1>2. answered \subseteq Made /\ answered \intersect store'["dumb"] = {}
  BY <1>0, <1>1 DEF HandlesMade, Held
<1>3. ASSUME NEW v \in Worker, job[v].pc \in Past
      PROVE  job[v].h \notin store'["dumb"]
  BY <1>0, <1>1, <1>3 DEF HandlesMade, CheckPCs, Held
<1>4. ASSUME NEW w \in Worker, CheckBurn(w)
      PROVE  Burnt'
  <2>1. job[w].h \notin store'["dumb"] /\ job'[w].h = job[w].h
    BY <1>0, <1>4 DEF CheckBurn, Goto, Remove, TypeOK, Job
  <2>2. \A v \in Worker \ {w} : job'[v] = job[v]
    BY <1>0, <1>4 DEF CheckBurn, Goto, TypeOK, Job
  <2> QED BY <1>2, <1>3, <1>4, <2>1, <2>2 DEF CheckBurn, sentVars, Held
<1>5. ASSUME NEW w \in Worker, CheckLookup(w) \/ CheckPurgeCited(w)
      PROVE  Burnt'
  <2>1. job[w].pc \in Past /\ job'[w].h = job[w].h
    BY <1>0, <1>5 DEF CheckLookup, CheckPurgeCited, Goto, TypeOK, Job
  <2>2. \A v \in Worker \ {w} : job'[v] = job[v]
    BY <1>0, <1>5 DEF CheckLookup, CheckPurgeCited, Goto, TypeOK, Job
  <2> QED BY <1>2, <1>3, <1>5, <2>1, <2>2 DEF CheckLookup, CheckPurgeCited, sentVars, Held
<1>6. ASSUME NEW w \in Worker, CheckAnswer(w)
      PROVE  Burnt'
  <2>1. job[w].h \notin store'["dumb"]
    BY <1>3, <1>6 DEF CheckAnswer
  <2>2. answered' \intersect store'["dumb"] = {}
    BY <1>2, <1>6, <2>1 DEF CheckAnswer, Held
  <2>3. \A v \in Worker : job'[v] = job[v] \/ job'[v] = Idle
    BY <1>0, <1>6 DEF CheckAnswer, Done, TypeOK
  <2> QED BY <1>3, <2>2, <2>3 DEF Idle, Held
<1>7. ASSUME answered' = answered, \A v \in Worker : job'[v] = job[v] \/ job'[v].pc \notin Past
      PROVE  Burnt'
  BY <1>2, <1>3, <1>7 DEF Held
<1>8. CASE \E w \in Worker : \/ SignDecide(w) \/ SignInvalidate(w) \/ SignMessage(w)
                             \/ CheckPurge(w) \/ Crash(w)
  BY <1>0, <1>7, <1>8
     DEF SignDecide, SignInvalidate, SignMessage, CheckPurge, Crash, Goto, Done, Idle,
         TypeOK, Job, sentVars
<1>12. ASSUME NEW w \in Worker, NEW h \in Handles, SignDumb(w, h) \/ SignFallback(w, h)
       PROVE  Burnt'
  <2>1. \A v \in Worker : job'[v] = job[v] \/ job'[v].pc = "sign"
    BY <1>0, <1>12 DEF SignDumb, SignFallback, Sending, Idle, TypeOK
  <2> QED BY <1>7, <1>12, <2>1 DEF SignDumb, SignFallback, sentVars
<1>9. CASE \E w \in Worker, h \in Cited : SignLookup(w, h)
  BY <1>0, <1>7, <1>9 DEF SignLookup, Idle, TypeOK, sentVars
<1>10. CASE \E w \in Worker, r \in Response, ih \in Cited \union {None}, intact \in BOOLEAN :
              CheckVerify(w, r, ih, intact)
  BY <1>0, <1>7, <1>10 DEF CheckVerify, TypeOK
<1>11. CASE (\E h \in Handles : Associate(h)) \/ Tick \/ UNCHANGED vars
  BY <1>7, <1>11 DEF Associate, Tick, vars, sentVars
<1> QED BY <1>4, <1>5, <1>6, <1>8, <1>9, <1>10, <1>11, <1>12 DEF Next, Sign, Check

\* What is reported, or about to be, is gone.
LEMMA AboutToReportNext ==
  ASSUME IInv, TypeOK', Monotone, [Next]_vars
  PROVE  AboutToReport'
<1> USE SignatoryAssumption
<1> DEFINE JobReports(j) ==
      /\ j.pc = "decide" /\ ~j.found => j.h \in Gone
      /\ j.pc = "fallback" => j.h \in Gone
      /\ j.pc = "sign" /\ j.ih # None => j.ih \in Gone
      /\ j.pc \in {"purgeCited", "answer"} /\ ~j.found /\ j.ih # None => j.ih \in Gone
<1>0. /\ TypeOK /\ HandlesMade /\ "normal" \in Kinds /\ "dumb" \in Kinds
      /\ reported \subseteq Gone
      /\ \A w \in Worker : JobReports(job[w])
  BY DEF IInv, AboutToReport, Kinds
<1>1. Gone \subseteq Gone' /\ None \notin Gone
  BY <1>0, GoneStays DEF Gone, Made, TypeOK
<1>2. ASSUME \A w \in Worker : job'[w] = job[w] \/ JobReports(job[w])', reported' \subseteq Gone'
      PROVE  AboutToReport'
  BY <1>0, <1>1, <1>2 DEF AboutToReport
<1>3. JobReports(Idle)'
  BY DEF Idle
<1>4. ASSUME NEW w \in Worker, NEW h \in Cited, SignLookup(w, h)
      PROVE  AboutToReport'
  <2>1. ~Returned("normal", h) => h \in Gone
    BY <1>4 DEF SignLookup, Known, Returned, Gone, Dead, Made
  <2>2. JobReports(job[w])'
    BY <1>0, <1>1, <1>4, <2>1 DEF SignLookup, Idle, TypeOK
  <2>3. \A v \in Worker \ {w} : job'[v] = job[v]
    BY <1>0, <1>4 DEF SignLookup, TypeOK
  <2> QED BY <1>0, <1>1, <1>2, <1>4, <2>2, <2>3 DEF SignLookup, sentVars
<1>5. ASSUME NEW w \in Worker, SignDecide(w)
      PROVE  AboutToReport'
  <2>1. \A v \in Worker \ {w} : job'[v] = job[v]
    BY <1>0, <1>5 DEF SignDecide, TypeOK
  <2>2. /\ job'[w].h = job[w].h /\ job'[w].ih = job[w].ih /\ job[w].pc = "decide"
        /\ \/ job'[w].pc \in {"invalidate", "sign"}
           \/ job'[w].pc = "fallback" /\ ~job[w].found
    BY <1>0, <1>5 DEF SignDecide, TypeOK, Job
  <2>3. job[w].ih = None
    BY <1>0, <2>2 DEF HandlesMade
  <2>4. JobReports(job[w])'
    BY <1>0, <1>1, <2>2, <2>3
  <2> QED BY <1>0, <1>1, <1>2, <1>5, <2>1, <2>4 DEF SignDecide, sentVars
<1>6. ASSUME NEW w \in Worker, SignInvalidate(w)
      PROVE  AboutToReport'
  <2>1. \A v \in Worker \ {w} : job'[v] = job[v]
    BY <1>0, <1>6 DEF SignInvalidate, Goto, TypeOK
  <2>2. job'[w].pc = "fallback" /\ job'[w].h = job[w].h
    BY <1>0, <1>6 DEF SignInvalidate, Goto, TypeOK, Job
  <2>3. job[w].h \in Gone'
    <3>1. job[w].h \in Made' \union Foreign
      BY <1>0, <1>6 DEF SignInvalidate, HandlesMade, Monotone
    <3>2. job[w].h \notin store'["normal"]
      BY <1>0, <1>6 DEF SignInvalidate, Remove, TypeOK
    <3> QED BY <3>1, <3>2 DEF Gone, Dead, Held
  <2>4. JobReports(job[w])'
    BY <2>2, <2>3
  <2> QED BY <1>0, <1>1, <1>2, <1>6, <2>1, <2>4 DEF SignInvalidate, sentVars
<1>7. ASSUME NEW w \in Worker, NEW h \in Handles, SignDumb(w, h) \/ SignFallback(w, h)
      PROVE  AboutToReport'
  <2>1. PICK ih \in Gone \union {None} : job' = [job EXCEPT ![w] = Sending(h, ih)]
    BY <1>0, <1>7 DEF SignDumb, SignFallback
  <2>2. job'[w].pc = "sign" /\ job'[w].ih = ih
    BY <1>0, <2>1 DEF Sending, Idle, TypeOK
  <2>3. JobReports(job[w])'
    BY <1>1, <2>2
  <2>4. \A v \in Worker \ {w} : job'[v] = job[v]
    BY <1>0, <2>1 DEF TypeOK
  <2> QED BY <1>0, <1>1, <1>2, <1>7, <2>3, <2>4 DEF SignDumb, SignFallback, sentVars
<1>8. ASSUME NEW w \in Worker, SignMessage(w)
      PROVE  AboutToReport'
  <2>1. \A v \in Worker : job'[v] = job[v] \/ job'[v] = Idle
    BY <1>0, <1>8 DEF SignMessage, Done, TypeOK
  <2>2. reported' \subseteq Gone'
    BY <1>0, <1>1, <1>8 DEF SignMessage, TypeOK
  <2> QED BY <1>2, <1>3, <2>1, <2>2
<1>9. ASSUME NEW w \in Worker, CheckLookup(w)
      PROVE  AboutToReport'
  <2>1. \A v \in Worker \ {w} : job'[v] = job[v]
    BY <1>0, <1>9 DEF CheckLookup, TypeOK
  <2>2. /\ job'[w].ih = job[w].ih /\ job'[w].pc \in {"purgeCited", "answer"}
        /\ job'[w].found = (Held("normal", job[w].ih) /\ ~Expired(job[w].ih))
    BY <1>0, <1>9 DEF CheckLookup, TypeOK, Job
  <2>3. ~job'[w].found /\ job[w].ih # None => job[w].ih \in Gone
    BY <1>0, <1>9, <2>2 DEF CheckLookup, HandlesMade, CheckPCs, Gone, Dead
  <2>4. JobReports(job[w])'
    BY <1>1, <2>2, <2>3
  <2> QED BY <1>0, <1>1, <1>2, <1>9, <2>1, <2>4 DEF CheckLookup, sentVars
<1>10. ASSUME NEW w \in Worker, CheckPurgeCited(w)
       PROVE  AboutToReport'
  <2>1. \A v \in Worker \ {w} : job'[v] = job[v]
    BY <1>0, <1>10 DEF CheckPurgeCited, Goto, TypeOK
  <2>2. /\ job'[w].ih = job[w].ih /\ job'[w].pc = "answer"
        /\ job'[w].found = job[w].found
    BY <1>0, <1>10 DEF CheckPurgeCited, Goto, TypeOK, Job
  <2>3. JobReports(job[w])'
    BY <1>0, <1>1, <1>10, <2>2 DEF CheckPurgeCited
  <2> QED BY <1>0, <1>1, <1>2, <1>10, <2>1, <2>3 DEF CheckPurgeCited, sentVars
<1>11. ASSUME NEW w \in Worker, CheckAnswer(w)
       PROVE  AboutToReport'
  <2>1. \A v \in Worker : job'[v] = job[v] \/ job'[v] = Idle
    BY <1>0, <1>11 DEF CheckAnswer, Done, TypeOK
  <2>2. reported' \subseteq Gone'
    BY <1>0, <1>1, <1>11 DEF CheckAnswer
  <2> QED BY <1>2, <1>3, <2>1, <2>2
<1>12. ASSUME NEW w \in Worker, CheckPurge(w) \/ CheckBurn(w)
       PROVE  AboutToReport'
  <2>1. \A v \in Worker \ {w} : job'[v] = job[v]
    BY <1>0, <1>12 DEF CheckPurge, CheckBurn, Goto, TypeOK
  <2>2. /\ job'[w].ih = job[w].ih
        /\ job'[w].pc \in {"burn", "lookup"} \/ (job'[w].pc = "answer" /\ job[w].ih = None)
    BY <1>0, <1>12 DEF CheckPurge, CheckBurn, Goto, TypeOK, Job
  <2>3. JobReports(job[w])'
    BY <2>2
  <2> QED BY <1>0, <1>1, <1>2, <1>12, <2>1, <2>3 DEF CheckPurge, CheckBurn, sentVars
<1>13. ASSUME NEW w \in Worker, NEW r \in Response, NEW ih \in Cited \union {None},
              NEW intact \in BOOLEAN, CheckVerify(w, r, ih, intact)
       PROVE  AboutToReport'
  <2>1. \A v \in Worker \ {w} : job'[v] = job[v]
    BY <1>0, <1>13 DEF CheckVerify, TypeOK
  <2>2. job'[w].pc \in {"purge", "burn"}
    BY <1>0, <1>13 DEF CheckVerify, TypeOK
  <2>3. JobReports(job[w])'
    BY <2>2
  <2> QED BY <1>0, <1>1, <1>2, <1>13, <2>1, <2>3 DEF CheckVerify
<1>14. ASSUME NEW w \in Worker, Crash(w)
       PROVE  AboutToReport'
  BY <1>0, <1>1, <1>2, <1>3, <1>14 DEF Crash, Done, TypeOK, sentVars
<1>15. CASE (\E h \in Handles : Associate(h)) \/ Tick \/ UNCHANGED vars
  BY <1>0, <1>1, <1>2, <1>15 DEF Associate, Tick, vars, sentVars
<1> QED
  BY <1>4, <1>5, <1>6, <1>7, <1>8, <1>9, <1>10, <1>11, <1>12, <1>13, <1>14, <1>15 DEF Next, Sign, Check

\* How a job comes to sign: by the look-up of a shared association, which
\* noted whether that had been declared invalid, or with one of its own.
LEMMA SignJobs ==
  ASSUME TypeOK, [Next]_vars, NEW w \in Worker
  PROVE  \/ job'[w] = job[w]
         \/ job'[w].pc \notin {"decide", "sign"}
         \/ job'[w].pc = "sign" /\ job'[w].unreported
         \/ /\ job[w].pc = "decide" /\ job[w].found /\ ~Expired(job[w].h)
            /\ job'[w].pc = "sign" /\ job'[w].unreported = job[w].unreported
         \/ \E h \in Known :
              /\ job'[w].pc = "decide" /\ job'[w].h = h /\ UNCHANGED <<now, issued>>
              /\ job'[w].found = Returned("normal", h)
              /\ job'[w].unreported = (h \notin reported)
<1> USE DEF TypeOK
<1>1. ASSUME NEW v \in Worker, NEW h \in Handles, SignDumb(v, h) \/ SignFallback(v, h)
      PROVE  job'[w] = job[w] \/ (job'[w].pc = "sign" /\ job'[w].unreported)
  BY <1>1 DEF SignDumb, SignFallback, Sending, Idle
<1>2. ASSUME NEW v \in Worker, SignMessage(v) \/ CheckAnswer(v) \/ Crash(v)
      PROVE  job'[w] = job[w] \/ job'[w].pc = "idle"
  BY <1>2 DEF SignMessage, CheckAnswer, Crash, Done, Idle
<1>3. ASSUME NEW v \in Worker, NEW h \in Cited, SignLookup(v, h)
      PROVE  \/ job'[w] = job[w]
             \/ /\ job'[w].pc = "decide" /\ job'[w].h = h /\ UNCHANGED <<now, issued>>
                /\ job'[w].found = Returned("normal", h)
                /\ job'[w].unreported = (h \notin reported)
                /\ h \in Known
  BY <1>3 DEF SignLookup, Idle
<1>4. ASSUME NEW v \in Worker, SignDecide(v)
      PROVE  \/ job'[w] = job[w]
             \/ job'[w].pc \in {"fallback", "invalidate"}
             \/ /\ job[w].pc = "decide" /\ job[w].found /\ ~Expired(job[w].h)
                /\ job'[w].pc = "sign" /\ job'[w].unreported = job[w].unreported
  BY <1>4 DEF SignDecide, Job
<1>5. ASSUME NEW v \in Worker, SignInvalidate(v) \/ CheckPurge(v) \/ CheckBurn(v) \/ CheckLookup(v) \/ CheckPurgeCited(v)
      PROVE  job'[w] = job[w] \/ job'[w].pc \notin {"decide", "sign"}
  BY <1>5 DEF SignInvalidate, CheckPurge, CheckBurn, CheckLookup, CheckPurgeCited, Goto, Job
<1>6. ASSUME NEW v \in Worker, NEW r \in Response, NEW ih \in Cited \union {None}, NEW intact \in BOOLEAN,
             CheckVerify(v, r, ih, intact)
      PROVE  job'[w] = job[w] \/ job'[w].pc \in {"purge", "burn"}
  BY <1>6 DEF CheckVerify
<1>7. CASE (\E h \in Handles : Associate(h)) \/ Tick \/ UNCHANGED vars
  BY <1>7 DEF Associate, Tick, vars
<1> QED BY <1>1, <1>2, <1>3, <1>4, <1>5, <1>6, <1>7 DEF Next, Sign, Check

\* What signs was not declared invalid when it was looked up.
LEMMA NotReportedNext ==
  ASSUME IInv, TypeOK', Monotone, [Next]_vars
  PROVE  NotReported'
<1> USE SignatoryAssumption
<1>0. TypeOK /\ HandlesMade /\ NotReported /\ reported \subseteq Gone
  BY DEF IInv, AboutToReport
<1>1. ASSUME NEW w \in Worker, job'[w].pc = "decide", job'[w].found, ~job'[w].unreported
      PROVE  Expired(job[w].h)'
  <2>1. CASE job'[w] = job[w]
    <3>1. Expired(job[w].h) /\ job[w].h \in Made /\ job[w].h \in Handles
      BY <1>0, <1>1, <2>1 DEF NotReported, HandlesMade, Made, TypeOK, Kinds
    <3> QED BY <1>0, <2>1, <3>1 DEF Expired, Monotone, TypeOK
  <2>2. ASSUME NEW h \in Known, job'[w].h = h, UNCHANGED <<now, issued>>,
               Returned("normal", h), h \in reported
        PROVE  Expired(job[w].h)'
    <3>1. Expired(h)
      BY <1>0, <2>2 DEF Gone, Dead, Returned
    <3> QED BY <2>2, <3>1 DEF Expired
  <2> QED BY <1>0, <1>1, <2>1, <2>2, SignJobs
<1>2. ASSUME NEW w \in Worker, job'[w].pc = "sign"
      PROVE  job'[w].unreported
  <2>1. CASE job'[w] = job[w]
    BY <1>0, <1>2, <2>1 DEF NotReported, ReportedSignsNoMore
  <2>2. CASE /\ job[w].pc = "decide" /\ job[w].found /\ ~Expired(job[w].h)
             /\ job'[w].unreported = job[w].unreported
    BY <1>0, <2>2 DEF NotReported, TypeOK, Job
  <2> QED BY <1>0, <1>2, <2>1, <2>2, SignJobs
<1> QED BY <1>1, <1>2 DEF NotReported, ReportedSignsNoMore

\* A step leaves every job but one alone, and that one goes on, ends, or is
\* a new request: what it does to is_valid.
LEMMA ValidJobs ==
  ASSUME TypeOK, ValidIsVouched, [Next]_vars, NEW w \in Worker
  PROVE  \/ job'[w] = job[w]
         \/ ~job'[w].valid
         \/ /\ job[w].valid /\ job'[w].valid /\ job'[w].h = job[w].h
            /\ job'[w].pc \in CheckPCs \ {"purge"}
         \/ /\ job[w].pc = "idle" /\ job'[w].pc = "burn"
            /\ \E r \in responses : r.by = job'[w].h
            /\ Held("dumb", job'[w].h)
            /\ raced' = raced \union {k \in {job'[w].h} : \E v \in Worker : Verified(v, k)}
            /\ \A v \in Worker \ {w} : job'[v] = job[v]
            /\ UNCHANGED <<confirmed, answered>>
<1> DEFINE Goal ==
      \/ job'[w] = job[w]
      \/ ~job'[w].valid
      \/ /\ job[w].valid /\ job'[w].valid /\ job'[w].h = job[w].h
         /\ job'[w].pc \in CheckPCs \ {"purge"}
<1> USE DEF TypeOK
<1>1. CASE \E v \in Worker : SignMessage(v) \/ CheckAnswer(v) \/ Crash(v)
  <2>1. job'[w] = job[w] \/ job'[w] = Idle
    BY <1>1 DEF SignMessage, CheckAnswer, Crash, Done
  <2> QED BY <2>1 DEF Idle
<1>7. CASE \E v \in Worker, h \in Handles : SignDumb(v, h) \/ SignFallback(v, h)
  <2>1. job'[w] = job[w] \/ ~job'[w].valid
    BY <1>7 DEF SignDumb, SignFallback, Sending, Idle
  <2> QED BY <2>1
<1>2. CASE \E v \in Worker, h \in Cited : SignLookup(v, h)
  <2>1. Goal
    BY <1>2 DEF SignLookup, Idle
  <2> QED BY <2>1
<1>3. CASE \E v \in Worker : SignDecide(v) \/ SignInvalidate(v) \/ CheckPurge(v)
  <2>1. PICK v \in Worker : SignDecide(v) \/ SignInvalidate(v) \/ CheckPurge(v)
    BY <1>3
  <2>2. ~job[v].valid
    BY <2>1 DEF SignDecide, SignInvalidate, CheckPurge, ValidIsVouched, CheckPCs
  <2>3. Goal
    BY <2>1, <2>2 DEF SignDecide, SignInvalidate, CheckPurge, Goto, Job
  <2> QED BY <2>3
<1>4. CASE \E v \in Worker : CheckBurn(v) \/ CheckLookup(v) \/ CheckPurgeCited(v)
  <2>1. PICK v \in Worker : CheckBurn(v) \/ CheckLookup(v) \/ CheckPurgeCited(v)
    BY <1>4
  <2>2. CASE v # w
    BY <2>1, <2>2 DEF CheckBurn, CheckLookup, CheckPurgeCited, Goto
  <2>3. CASE v = w
    <3>1. /\ job'[w].valid = job[w].valid /\ job'[w].h = job[w].h
          /\ job'[w].pc \in CheckPCs \ {"purge"}
      BY <2>1, <2>3 DEF CheckBurn, CheckLookup, CheckPurgeCited, Goto, CheckPCs, Job
    <3> QED BY <3>1
  <2> QED BY <2>2, <2>3
<1>5. CASE \E v \in Worker, r \in Response, ih \in Cited \union {None}, intact \in BOOLEAN :
             CheckVerify(v, r, ih, intact)
  <2>1. PICK v \in Worker, r \in Response, ih \in Cited \union {None}, intact \in BOOLEAN :
             CheckVerify(v, r, ih, intact)
    BY <1>5
  <2>2. CASE v # w
    BY <2>1, <2>2 DEF CheckVerify
  <2>3. CASE v = w
    <3>1. /\ job[w].pc = "idle" /\ r \in responses /\ job'[w].h = r.by
          /\ job'[w].pc = IF Returned("dumb", r.by) /\ Expired(r.by) THEN "purge" ELSE "burn"
          /\ job'[w].valid = (Held("dumb", r.by) /\ ~Expired(r.by) /\ intact)
      BY <2>1, <2>3 DEF CheckVerify
    <3>2. /\ raced' = raced \union {k \in {job'[w].h} : \E u \in Worker : Verified(u, k)}
          /\ UNCHANGED <<confirmed, answered>>
      BY <2>1, <3>1 DEF CheckVerify
    <3>3. \A u \in Worker \ {w} : job'[u] = job[u]
      BY <2>1, <2>3 DEF CheckVerify
    <3> QED BY <3>1, <3>2, <3>3
  <2> QED BY <2>2, <2>3
<1>6. CASE (\E h \in Handles : Associate(h)) \/ Tick \/ UNCHANGED vars
  BY <1>6 DEF Associate, Tick, vars
<1> QED BY <1>1, <1>2, <1>3, <1>4, <1>5, <1>6, <1>7 DEF Next, Sign, Check

\* What confirmed holds changes by an answer alone, and raced only grows.
LEMMA ConfirmedBy ==
  ASSUME [Next]_vars
  PROVE  /\ \/ confirmed' = confirmed /\ answered' = answered
            \/ \E w \in Worker : CheckAnswer(w)
         /\ raced \subseteq raced'
<1> DEFINE Same == confirmed' = confirmed /\ answered' = answered /\ raced \subseteq raced'
<1>1. ASSUME NEW w \in Worker, Sign(w) PROVE Same
  <2>1. ASSUME NEW h \in Handles, SignDumb(w, h) \/ SignFallback(w, h) PROVE Same
    BY <2>1 DEF SignDumb, SignFallback, sentVars
  <2>2. ASSUME NEW h \in Cited, SignLookup(w, h) PROVE Same
    BY <2>2 DEF SignLookup, sentVars
  <2>3. SignDecide(w) \/ SignMessage(w) => Same
    BY DEF SignDecide, SignMessage, sentVars
  <2>4. SignInvalidate(w) => Same
    BY DEF SignInvalidate, sentVars
  <2> HIDE DEF Same
  <2> QED BY <1>1, <2>1, <2>2, <2>3, <2>4 DEF Sign
<1>2. ASSUME NEW w \in Worker, Check(w) PROVE Same \/ CheckAnswer(w)
  <2>1. ASSUME NEW r \in Response, NEW ih \in Cited \union {None}, NEW intact \in BOOLEAN,
               CheckVerify(w, r, ih, intact)
        PROVE  Same
    BY <2>1 DEF CheckVerify
  <2>2. CheckPurge(w) \/ CheckBurn(w) => Same
    BY DEF CheckPurge, CheckBurn, sentVars
  <2>3. CheckLookup(w) \/ CheckPurgeCited(w) => Same
    BY DEF CheckLookup, CheckPurgeCited, sentVars
  <2> HIDE DEF Same
  <2> QED BY <1>2, <2>1, <2>2, <2>3 DEF Check
<1>3. ASSUME NEW w \in Worker, Crash(w) PROVE Same
  BY <1>3 DEF Crash, sentVars
<1>4. ASSUME NEW h \in Handles, Associate(h) PROVE Same
  BY <1>4 DEF Associate, sentVars
<1>5. Tick \/ UNCHANGED vars => Same
  BY DEF Tick, sentVars, vars
<1>6. ASSUME NEW w \in Worker, CheckAnswer(w) PROVE raced' = raced
  BY <1>6 DEF CheckAnswer
<1> HIDE DEF Same
<1>7. Same \/ \E w \in Worker : CheckAnswer(w)
  BY <1>1, <1>2, <1>3, <1>4, <1>5 DEF Next
<1> QED BY <1>6, <1>7 DEF Same

\* A valid check is of a dumb association that signed a response.
LEMMA ValidIsVouchedNext ==
  ASSUME IInv, TypeOK', Monotone, [Next]_vars
  PROVE  ValidIsVouched'
<1>0. TypeOK /\ HandlesMade /\ ValidIsVouched /\ "dumb" \in Kinds
  BY DEF IInv, Kinds
<1>1. made["dumb"] \subseteq made'["dumb"] /\ responses \subseteq responses' /\ store["dumb"] \subseteq made["dumb"]
  BY <1>0 DEF Monotone, HandlesMade
<1>2. ASSUME NEW w \in Worker, job'[w].valid
      PROVE  /\ job'[w].pc \in CheckPCs \ {"purge"}
             /\ job'[w].h \in made'["dumb"]
             /\ \E r \in responses' : r.by = job'[w].h
  <2>1. CASE job'[w] = job[w]
    BY <1>0, <1>1, <1>2, <2>1 DEF ValidIsVouched
  <2>2. CASE job[w].valid /\ job'[w].h = job[w].h /\ job'[w].pc \in CheckPCs \ {"purge"}
    BY <1>0, <1>1, <2>2 DEF ValidIsVouched
  <2>3. CASE /\ job'[w].pc = "burn" /\ Held("dumb", job'[w].h)
             /\ \E r \in responses : r.by = job'[w].h
    BY <1>1, <2>3 DEF Held, CheckPCs
  <2> QED BY <1>0, <1>2, <2>1, <2>2, <2>3, ValidJobs
<1>3. ConfirmedWasDumb'
  <2>1. ASSUME NEW h \in Handles, confirmed'[h] > 0
        PROVE  \/ confirmed[h] > 0
               \/ \E w \in Worker : job[w].valid /\ job[w].h = h
    <3>1. CASE confirmed' = confirmed
      BY <2>1, <3>1
    <3>2. ASSUME NEW w \in Worker, CheckAnswer(w)
          PROVE  confirmed[h] > 0 \/ (job[w].valid /\ job[w].h = h)
      BY <1>0, <2>1, <3>2 DEF CheckAnswer, TypeOK
    <3> QED BY <3>1, <3>2, ConfirmedBy
  <2> QED BY <1>0, <1>1, <2>1 DEF ConfirmedWasDumb, ValidIsVouched
<1> QED BY <1>2, <1>3 DEF ValidIsVouched

\* Of a handle that was not raced for, a second check finds nothing: the
\* first one has burnt it, for Held and a later pc exclude each other.
LEMMA OneValidNext ==
  ASSUME IInv, TypeOK', Monotone, [Next]_vars
  PROVE  OneValid'
<1>0. TypeOK /\ HandlesMade /\ Burnt /\ ValidIsVouched /\ OneValid
  BY DEF IInv
<1>1. raced \subseteq raced'
  BY ConfirmedBy
<1>2. ASSUME NEW u \in Worker, CheckAnswer(u)
      PROVE  OneValid'
  <2>1. job' = [job EXCEPT ![u] = Idle] /\ raced' = raced
    BY <1>2 DEF CheckAnswer, Done
  <2>2. \A v \in Worker, h \in Handles : Valid(v, h)' => v # u /\ Valid(v, h)
    BY <1>0, <2>1 DEF Valid, TypeOK, Idle
  <2>3. \A h \in Handles : confirmed'[h] = IF Valid(u, h) THEN confirmed[h] + 1 ELSE confirmed[h]
    BY <1>0, <1>2 DEF CheckAnswer, Valid, TypeOK
  <2>4. \A h \in Handles : confirmed'[h] > 0 => h \in answered'
    BY <1>0, <1>2, <2>3 DEF CheckAnswer, OneValid, Valid
  <2>5. ASSUME NEW h \in Handles \ raced'
        PROVE  /\ confirmed'[h] <= 1
               /\ \A w \in Worker : Valid(w, h)' => confirmed'[h] = 0
               /\ \A v, w \in Worker : Valid(v, h)' /\ Valid(w, h)' => v = w
    <3>1. /\ confirmed[h] <= 1
          /\ \A w \in Worker : Valid(w, h) => confirmed[h] = 0
          /\ \A v, w \in Worker : Valid(v, h) /\ Valid(w, h) => v = w
      BY <1>0, <2>1, <2>5 DEF OneValid
    <3> QED BY <2>2, <2>3, <3>1
  <2> QED BY <2>4, <2>5 DEF OneValid
<1>3. CASE confirmed' = confirmed /\ answered' = answered
  <2>1. \A h \in Handles : confirmed'[h] > 0 => h \in answered'
    BY <1>0, <1>3 DEF OneValid
  <2>2. ASSUME NEW h \in Handles \ raced'
        PROVE  /\ confirmed[h] <= 1
               /\ \A w \in Worker : Valid(w, h)' => confirmed[h] = 0
               /\ \A v, w \in Worker : Valid(v, h)' /\ Valid(w, h)' => v = w
    <3>1. /\ confirmed[h] <= 1
          /\ \A w \in Worker : Valid(w, h) => confirmed[h] = 0
          /\ \A v, w \in Worker : Valid(v, h) /\ Valid(w, h) => v = w
      BY <1>0, <1>1 DEF OneValid
    <3>2. CASE \A w \in Worker : Valid(w, h)' => Valid(w, h)
      BY <3>1, <3>2
    <3>3. ASSUME NEW u \in Worker, Valid(u, h)', ~Valid(u, h)
          PROVE  confirmed[h] = 0 /\ \A v \in Worker : Valid(v, h)' => v = u
      <4>1. /\ Held("dumb", h)
            /\ \A v \in Worker : Verified(v, h) => h \in raced'
            /\ \A v \in Worker \ {u} : job'[v] = job[v]
        BY <1>0, <3>3, ValidJobs DEF Valid
      <4>2. confirmed[h] = 0
        BY <1>0, <4>1 DEF Burnt, BurntAfterAnswer, Held, OneValid, TypeOK
      <4>3. ASSUME NEW v \in Worker, Valid(v, h)
            PROVE  FALSE
        <5>1. job[v].pc = "burn"
          BY <1>0, <4>1, <4>3 DEF Valid, ValidIsVouched, Burnt, CheckPCs
        <5> QED BY <2>2, <4>1, <4>3, <5>1 DEF Valid, Verified
      <4>4. \A v \in Worker : Valid(v, h)' => v = u
        BY <4>1, <4>3 DEF Valid
      <4> QED BY <4>2, <4>4
    <3> QED BY <3>1, <3>2, <3>3
  <2> QED BY <1>3, <2>1, <2>2 DEF OneValid
<1> QED BY <1>2, <1>3, ConfirmedBy

\* Every check is noted when it begins; how it stands with "first".
LEMMA ChecksNoted ==
  ASSUME TypeOK, LeavesByCheck, checked \subseteq checked', [Next]_vars, NEW w \in Worker
  PROVE  \/ job'[w] = job[w]
         \/ job'[w].pc \notin CheckPCs /\ ~job'[w].first
         \/ /\ job[w].pc \in CheckPCs /\ job'[w].pc \in CheckPCs
            /\ job'[w].h = job[w].h
            /\ job'[w].first = job[w].first /\ job'[w].valid = job[w].valid
         \/ /\ job'[w].pc \in CheckPCs /\ job'[w].h \in checked'
            /\ job'[w].first =>
                 /\ job'[w].h \notin checked
                 /\ job'[w].valid = (Held("dumb", job'[w].h) /\ ~Expired(job'[w].h))
            /\ UNCHANGED <<made, issued, now>>
<1> USE DEF TypeOK
<1>1. CASE \E v \in Worker : SignMessage(v) \/ CheckAnswer(v) \/ Crash(v)
  <2>1. job'[w] = job[w] \/ job'[w] = Idle
    BY <1>1 DEF SignMessage, CheckAnswer, Crash, Done
  <2> QED BY <2>1 DEF Idle, CheckPCs
<1>7. CASE \E v \in Worker, h \in Handles : SignDumb(v, h) \/ SignFallback(v, h)
  <2>1. job'[w] = job[w] \/ (job'[w].pc = "sign" /\ ~job'[w].first)
    BY <1>7 DEF SignDumb, SignFallback, Sending, Idle
  <2> QED BY <2>1 DEF CheckPCs
<1>2. CASE \E v \in Worker, h \in Cited : SignLookup(v, h)
  <2>1. job'[w] = job[w] \/ (job'[w].pc = "decide" /\ ~job'[w].first)
    BY <1>2 DEF SignLookup, Idle
  <2> QED BY <2>1 DEF CheckPCs
<1>3. CASE \E v \in Worker : SignDecide(v) \/ SignInvalidate(v)
  <2>1. PICK v \in Worker : SignDecide(v) \/ SignInvalidate(v)
    BY <1>3
  <2>2. ~job[v].first
    BY <2>1 DEF SignDecide, SignInvalidate, LeavesByCheck, CheckPCs
  <2>3. job'[w] = job[w] \/ (job'[w].pc \notin CheckPCs /\ ~job'[w].first)
    BY <2>1, <2>2 DEF SignDecide, SignInvalidate, Goto, Job, CheckPCs
  <2> QED BY <2>3
<1>4. CASE \E v \in Worker : CheckPurge(v) \/ CheckBurn(v) \/ CheckLookup(v) \/ CheckPurgeCited(v)
  <2>1. PICK v \in Worker : CheckPurge(v) \/ CheckBurn(v) \/ CheckLookup(v) \/ CheckPurgeCited(v)
    BY <1>4
  <2>2. CASE v # w
    BY <2>1, <2>2 DEF CheckPurge, CheckBurn, CheckLookup, CheckPurgeCited, Goto
  <2>3. CASE v = w
    <3>1. /\ job[w].pc \in CheckPCs /\ job'[w].pc \in CheckPCs
          /\ job'[w].h = job[w].h
          /\ job'[w].first = job[w].first /\ job'[w].valid = job[w].valid
      BY <2>1, <2>3 DEF CheckPurge, CheckBurn, CheckLookup, CheckPurgeCited, Goto, CheckPCs, Job
    <3> QED BY <3>1
  <2> QED BY <2>2, <2>3
<1>5. CASE \E v \in Worker, r \in Response, ih \in Cited \union {None}, intact \in BOOLEAN :
             CheckVerify(v, r, ih, intact)
  <2>1. PICK v \in Worker, r \in Response, ih \in Cited \union {None}, intact \in BOOLEAN :
             CheckVerify(v, r, ih, intact)
    BY <1>5
  <2>2. CASE v # w
    BY <2>1, <2>2 DEF CheckVerify
  <2>3. CASE v = w
    <3>1. /\ job'[w].h = r.by /\ job'[w].pc \in {"purge", "burn"}
          /\ job'[w].first => intact /\ r.by \notin checked
          /\ job'[w].valid = (Held("dumb", r.by) /\ ~Expired(r.by) /\ intact)
      BY <2>1, <2>3 DEF CheckVerify
    <3>2. r.by \in checked' /\ UNCHANGED <<made, issued, now>>
      BY <2>1 DEF CheckVerify
    <3> QED BY <3>1, <3>2 DEF CheckPCs
  <2> QED BY <2>2, <2>3
<1>6. CASE (\E h \in Handles : Associate(h)) \/ Tick \/ UNCHANGED vars
  BY <1>6 DEF Associate, Tick, vars
<1> QED BY <1>1, <1>2, <1>3, <1>4, <1>5, <1>6, <1>7 DEF Next, Sign, Check

\* A dumb association leaves the store in a check of it and nowhere else.
LEMMA DumbLeaves ==
  ASSUME TypeOK, LeavesByCheck, checked \subseteq checked', [Next]_vars
  PROVE  made'["dumb"] \subseteq store'["dumb"] \union checked'
<1> USE DEF TypeOK, LeavesByCheck
<1>0. "dumb" \in Kinds /\ "normal" \in Kinds
  BY DEF Kinds
<1>1. ASSUME store["dumb"] \subseteq store'["dumb"] \union checked', made' = made
      PROVE  made'["dumb"] \subseteq store'["dumb"] \union checked'
  BY <1>1
<1>2. CASE \E k \in Kinds, h \in Handles : CreateAssociation(k, h)
  BY <1>0, <1>2 DEF CreateAssociation
<1>3. ASSUME NEW w \in Worker, CheckPurge(w) \/ CheckBurn(w)
      PROVE  made'["dumb"] \subseteq store'["dumb"] \union checked'
  <2>1. job[w].h \in checked'
    BY <1>3 DEF CheckPurge, CheckBurn, CheckPCs
  <2> QED BY <1>0, <1>1, <1>3, <2>1 DEF CheckPurge, CheckBurn, Remove
<1>4. ASSUME NEW w \in Worker, NEW r \in Response, NEW ih \in Cited \union {None},
             NEW intact \in BOOLEAN, CheckVerify(w, r, ih, intact)
      PROVE  made'["dumb"] \subseteq store'["dumb"] \union checked'
  BY <1>0, <1>1, <1>4 DEF CheckVerify, Get, Remove
<1>5. ASSUME NEW w \in Worker, SignInvalidate(w) \/ CheckPurgeCited(w) \/ CheckLookup(w)
      PROVE  made'["dumb"] \subseteq store'["dumb"] \union checked'
  BY <1>0, <1>1, <1>5 DEF SignInvalidate, CheckPurgeCited, CheckLookup, Get, Remove
<1>6. ASSUME NEW w \in Worker, NEW h \in Cited, SignLookup(w, h)
      PROVE  made'["dumb"] \subseteq store'["dumb"] \union checked'
  BY <1>0, <1>1, <1>6 DEF SignLookup, Get, Remove
<1>7. CASE \E w \in Worker : SignDecide(w) \/ SignMessage(w) \/ CheckAnswer(w) \/ Crash(w)
  BY <1>1, <1>7 DEF SignDecide, SignMessage, CheckAnswer, Crash, assocVars
<1>8. CASE Tick \/ UNCHANGED vars
  BY <1>1, <1>8 DEF Tick, vars, assocVars
<1>9. CASE \E h \in Handles : Associate(h)
  BY <1>0, <1>2, <1>9 DEF Associate
<1>10. ASSUME NEW w \in Worker, NEW h \in Handles, SignDumb(w, h) \/ SignFallback(w, h)
       PROVE  made'["dumb"] \subseteq store'["dumb"] \union checked'
  BY <1>0, <1>2, <1>10 DEF SignDumb, SignFallback
<1> HIDE DEF TypeOK, LeavesByCheck
<1> QED BY <1>3, <1>4, <1>5, <1>6, <1>7, <1>8, <1>9, <1>10 DEF Next, Sign, Check

\* The first check of a handle finds its secret.
LEMMA LeavesByCheckNext ==
  ASSUME IInv, TypeOK', Monotone, [Next]_vars
  PROVE  LeavesByCheck'
<1>0. TypeOK /\ HandlesMade /\ LeavesByCheck /\ checked \subseteq checked' /\ "dumb" \in Kinds
  BY DEF IInv, Monotone, Kinds
<1>1. made'["dumb"] \subseteq store'["dumb"] \union checked'
  BY <1>0, DumbLeaves
<1>2. ASSUME NEW w \in Worker
      PROVE  /\ job'[w].pc \in CheckPCs => job'[w].h \in checked'
             /\ job'[w].first => job'[w].pc \in CheckPCs
  BY <1>0, ChecksNoted DEF LeavesByCheck
<1>3. ASSUME NEW w \in Worker, job'[w].first, job'[w].h \in made'["dumb"],
             ~(now' >= issued'[job'[w].h] + Lifetime)
      PROVE  job'[w].valid
  <2>1. CASE job[w].first /\ job'[w].h = job[w].h /\ job'[w].valid = job[w].valid
    <3>1. job[w].h \in Made
      BY <1>0, <2>1 DEF LeavesByCheck, HandlesMade
    <3>2. job[w].h \in made["dumb"] /\ issued'[job[w].h] = issued[job[w].h] /\ job[w].h \in Handles
      BY <1>0, <1>3, <2>1, <3>1 DEF Monotone, TypeOK
    <3>3. ~Expired(job[w].h)
      BY <1>0, <1>3, <2>1, <3>2, SignatoryAssumption DEF Monotone, TypeOK, Expired
    <3> QED BY <1>0, <1>3, <2>1, <3>2, <3>3 DEF LeavesByCheck, FirstCheckSucceeds
  <2>2. CASE /\ job'[w].h \notin checked
             /\ job'[w].valid = (Held("dumb", job'[w].h) /\ ~Expired(job'[w].h))
             /\ UNCHANGED <<made, issued, now>>
    <3>1. job'[w].h \in store["dumb"]
      <4>1. job'[w].h \in made["dumb"] /\ job'[w].h \notin checked
        BY <1>3, <2>2
      <4> QED BY <1>0, <4>1 DEF LeavesByCheck
    <3>2. job'[w].h \in made["dumb"] /\ ~Expired(job'[w].h)
      BY <1>3, <2>2 DEF Expired
    <3> QED BY <1>3, <2>2, <3>1, <3>2 DEF Held
  <2> QED BY <1>0, <1>3, <2>1, <2>2, ChecksNoted
<1>4. FirstCheckSucceeds'
  BY <1>3 DEF FirstCheckSucceeds, Expired
<1> QED BY <1>1, <1>2, <1>4 DEF LeavesByCheck

-----------------------------------------------------------------------------
(* The theorems *)

LEMMA InitInv == Init => IInv
<1> SUFFICES ASSUME Init PROVE IInv
  OBVIOUS
<1>1. TypeOK
  BY InitType
<1>2. \A w \in Worker : job[w] = Idle
  BY DEF Init
<1>3. /\ \A w \in Worker : job[w].pc = "idle" /\ ~job[w].valid /\ ~job[w].first
      /\ store = [k \in Kinds |-> {}] /\ made = [k \in Kinds |-> {}]
      /\ responses = {} /\ answered = {} /\ reported = {}
      /\ confirmed = [h \in Handles |-> 0]
      /\ "normal" \in Kinds /\ "dumb" \in Kinds
  BY <1>2 DEF Init, Idle, Kinds
<1>4. HandlesMade
  BY <1>3 DEF HandlesMade, CheckPCs
<1>5. Burnt
  BY <1>3 DEF Burnt, BurntAfterAnswer
<1>6. AboutToReport
  BY <1>3 DEF AboutToReport
<1>10. NotReported
  BY <1>3 DEF NotReported, ReportedSignsNoMore
<1>7. ValidIsVouched
  BY <1>3 DEF ValidIsVouched, ConfirmedWasDumb
<1>8. OneValid
  BY <1>3 DEF OneValid, Valid
<1>9. LeavesByCheck
  BY <1>3 DEF LeavesByCheck, FirstCheckSucceeds, CheckPCs
<1> QED BY <1>1, <1>4, <1>5, <1>6, <1>7, <1>8, <1>9, <1>10 DEF IInv

LEMMA NextInv ==
  ASSUME IInv, [Next]_vars
  PROVE  IInv'
<1>1. TypeOK' /\ Monotone
  BY NextType, StepMonotone DEF IInv
<1> QED
  BY <1>1, HandlesMadeNext, BurntNext, AboutToReportNext, NotReportedNext, ValidIsVouchedNext, OneValidNext,
     LeavesByCheckNext DEF IInv

\* IInv is an invariant of the OP's secrets.
THEOREM Inductive == Spec => []IInv
<1>1. IInv /\ [Next]_vars => IInv'
  BY NextInv
<1> QED BY InitInv, <1>1, PTL DEF Spec

\* The state of Signatory and of the requests it serves is well typed.
THEOREM TypeCorrect == Spec => []TypeOK
<1>1. IInv => TypeOK
  BY DEF IInv
<1> QED BY <1>1, Inductive, PTL

\* CheckAuthRequest#answer burns what it answers about.
THEOREM SignatoryBurns == Spec => []BurntAfterAnswer
<1>1. IInv => BurntAfterAnswer
  BY DEF IInv, Burnt
<1> QED BY <1>1, Inductive, PTL

\* Signatory#verify vouches for dumb associations only.
THEOREM SignatoryVouches == Spec => []ConfirmedWasDumb
<1>1. IInv => ConfirmedWasDumb
  BY DEF IInv, ValidIsVouched
<1> QED BY <1>1, Inductive, PTL

\* What sign or answer reports as invalidate_handle stays dead.
THEOREM SignatoryReports == Spec => []ReportedStaysDead
<1>1. IInv => ReportedStaysDead
  BY DEF IInv, AboutToReport, Gone, Dead, ReportedStaysDead
<1> QED BY <1>1, Inductive, PTL

\* The first check of an unaltered, unexpired response succeeds.
THEOREM SignatoryFirstCheck == Spec => []FirstCheckSucceeds
<1>1. IInv => FirstCheckSucceeds
  BY DEF IInv, LeavesByCheck
<1> QED BY <1>1, Inductive, PTL

\* is_valid:true twice takes a check that begins between another check's
\* verify and its invalidate.
THEOREM SignatoryConfirms == Spec => []ConfirmedTwiceOnlyByRace
<1>1. IInv => ConfirmedTwiceOnlyByRace
  BY DEF IInv, OneValid, ConfirmedTwiceOnlyByRace
<1> QED BY <1>1, Inductive, PTL

\* A handle declared invalid signs no more, in any request that looks it up
\* from then on.
THEOREM SignatorySignsNoMore == Spec => []ReportedSignsNoMore
<1>1. IInv => ReportedSignsNoMore
  BY DEF IInv, NotReported
<1> QED BY <1>1, Inductive, PTL
=============================================================================
