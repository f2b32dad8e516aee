---------------------------- MODULE ConsumerProofs ----------------------------
(***************************************************************************)
(* For any tabs, OPs, identifiers and any number of requests and responses:*)
(* a response yields SUCCESS once on the word of one server, with a store  *)
(* that keeps nonces apart or without one; only on the word of a server    *)
(* that shares the key or has said is_valid:true; and only if discovery    *)
(* names the server that the response names.                               *)
(***************************************************************************)
EXTENDS Consumer, TLAPS

Completes == {"signature", "checkAuth", "nonce", "verify"}

\* The endpoints of requests, of the session and of all calls are those
\* begin came up with; the session's and those of complete were sent to.
EndpointsDiscovered ==
  /\ \A q \in Requests : request[q] # None => request[q].to \in Choices
  /\ slot # None => slot \in Choices /\ slot.op \in SentTo
  /\ \A w \in Worker : job[w].ep # None =>
       job[w].ep \in Choices /\ (job[w].pc \in Completes => job[w].ep.op \in SentTo)

\* A call of begin has a request to itself, which is not sent yet.
BeginsFresh ==
  \A w \in Worker : job[w].pc \in Begins =>
    /\ job[w].r \in Requests /\ request[job[w].r] = None
    /\ job[w].ep # None
    /\ \A v \in Worker : v # w => job[v].r # job[w].r

\* The nonce of a response is the OP's own, or one of the RP.
ResponsesFormed ==
  \A r \in Responses : response[r] # None =>
    response[r].nonce \in (IF response[r].ver = 1 THEN Requests ELSE {}) \union {r}

\* A call of complete is about a response that was made.
JobsAnswered ==
  \A w \in Worker : job[w].pc \in Completes =>
    job[w].r \in Responses /\ response[job[w].r] # None

\* Beyond the signature check, the word of the server asked counts.
Checked(w) == SignatureURL(w) \in OPs /\ Counts(Word(w))
JobsChecked == \A w \in Worker : job[w].pc \in {"nonce", "verify"} => Checked(w)

\* What stops a second SUCCESS on a word: without a store, the signer has
\* answered; with one, the nonce is there.
Guarded(p) ==
  \/ kind = "file"
  \/ kind = "memory" /\ response[p[1]].ver = 1
  \/ kind = "none" /\ p[2] = response[p[1]].signer
Key(p) == <<IF response[p[1]].ver = 1 THEN "" ELSE p[2], response[p[1]].nonce>>
Used(p) == IF kind = "none" THEN p[1] \in burnt ELSE Key(p) \in nonces
Same(p, s) == IF kind = "none" THEN p[1] = s[1] ELSE Key(p) = Key(s)
Claims(w) == /\ job[w].pc \in (IF kind = "none" THEN {"nonce", "verify"} ELSE {"verify"})
             /\ Guarded(Word(w))

ClaimsUsed == \A w \in Worker : Claims(w) => Used(Word(w))
ClaimsApart ==
  \A w, v \in Worker : w # v /\ Claims(w) /\ Claims(v) => ~Same(Word(w), Word(v))
AcceptsUsed ==
  \A p \in Words : accepts[p] > 0 /\ Guarded(p) =>
    Used(p) /\ \A w \in Worker : Claims(w) => ~Same(p, Word(w))
AcceptsApart ==
  \A p, s \in Words :
    p # s /\ accepts[p] > 0 /\ accepts[s] > 0 /\ Guarded(p) /\ Guarded(s) => ~Same(p, s)
AcceptsOnce == \A p \in Words : accepts[p] > 0 /\ Guarded(p) => accepts[p] = 1
AcceptsAnswered == \A p \in Words : accepts[p] > 0 => response[p[1]] # None

IInv ==
  /\ TypeOK
  /\ EndpointsDiscovered
  /\ BeginsFresh
  /\ ResponsesFormed
  /\ JobsAnswered
  /\ JobsChecked
  /\ AcceptsAnswered
  /\ NoncesVerified
  /\ DumbNeedsConfirmation
  /\ SuccessVouched
  /\ ClaimsUsed
  /\ ClaimsApart
  /\ AcceptsUsed
  /\ AcceptsApart
  /\ AcceptsOnce

-----------------------------------------------------------------------------
(* What moves the parts of the invariant, and what does not.               *)

\* What is said of a response depends on it and on what was confirmed.
LEMMA CountsKeeps ==
  ASSUME NEW p \in Words, confirmed \subseteq confirmed', response'[p[1]] = response[p[1]],
         Counts(p)
  PROVE  Counts(p)'
BY DEF Counts

LEMMA JobTypes ==
  ASSUME IInv, NEW w \in Worker, job[w].pc \in Completes
  PROVE  /\ job[w] \in Job
         /\ job[w].r \in Responses
         /\ response[job[w].r] # None
         /\ response[job[w].r] \in Assertion
         /\ job[w].ep \in Endpoint \union {None}
         /\ job[w].pc \notin Begins /\ job[w].pc # "idle"
         /\ SignatureURL(w) \in OPs \union {None}
<1>1. /\ job[w] \in Job
      /\ job[w].r \in Responses
      /\ response[job[w].r] # None
      /\ response[job[w].r] \in Assertion
      /\ job[w].ep \in Endpoint \union {None}
  BY DEF IInv, JobsAnswered, TypeOK, Job
<1> QED BY <1>1 DEF SignatureURL, Endpoint, Assertion, Completes, Begins

\* The history of SUCCESS and of nonces, when no response changes that they
\* are about.
LEMMA HistoryKeeps ==
  ASSUME IInv, confirmed \subseteq confirmed', SentTo \subseteq SentTo',
         \A r \in Responses : response[r] # None => response'[r] = response[r],
         UNCHANGED <<kind, nonces, accepts>>
  PROVE  /\ AcceptsAnswered' /\ NoncesVerified' /\ DumbNeedsConfirmation' /\ SuccessVouched'
         /\ \A p \in Words : accepts[p] > 0 => response'[p[1]] = response[p[1]]
<1>1. \A p \in Words : p[1] \in Responses /\ p[2] \in OPs
  BY DEF Words
<1>2. \A p \in Words : accepts[p] > 0 =>
        response[p[1]] # None /\ response'[p[1]] = response[p[1]]
  BY <1>1 DEF IInv, AcceptsAnswered
<1>3. AcceptsAnswered'
  BY <1>2 DEF AcceptsAnswered
<1>4. DumbNeedsConfirmation'
  BY <1>2, CountsKeeps DEF IInv, DumbNeedsConfirmation
<1>5. SuccessVouched'
  <2> SUFFICES ASSUME NEW p \in Words, accepts'[p] > 0
               PROVE  LET a == response'[p[1]] IN
                      /\ a.cid # None =>
                           \E e \in Services[a.cid] : e.ver = a.ver /\ (a.ver = 2 => e.op = a.op)
                      /\ p[2] \in SentTo' \/ (a.ver = 2 /\ p[2] = a.op)
    BY DEF SuccessVouched
  <2>1. accepts[p] > 0 /\ response'[p[1]] = response[p[1]]
    BY <1>2
  <2> QED BY <2>1 DEF IInv, SuccessVouched
<1>6. NoncesVerified'
  <2> SUFFICES ASSUME NEW n \in nonces
               PROVE  \E p \in Words :
                        LET a == response'[p[1]] IN
                        /\ a # None
                        /\ a.nonce = n[2]
                        /\ Counts(p)'
                        /\ \/ n[1] = IF a.ver = 1 THEN "" ELSE p[2]
                           \/ kind' = "memory" /\ a.ver = 2 /\ n[1] = None /\ p[2] = a.op
    BY DEF NoncesVerified
  <2>1. PICK p \in Words :
          LET a == response[p[1]] IN
          /\ a # None
          /\ a.nonce = n[2]
          /\ Counts(p)
          /\ \/ n[1] = IF a.ver = 1 THEN "" ELSE p[2]
             \/ kind = "memory" /\ a.ver = 2 /\ n[1] = None /\ p[2] = a.op
    BY DEF IInv, NoncesVerified
  <2>2. response'[p[1]] = response[p[1]]
    BY <1>1, <2>1
  <2>3. Counts(p)'
    BY <2>1, <2>2, CountsKeeps
  <2> QED BY <2>1, <2>2, <2>3
<1> QED BY <1>2, <1>3, <1>4, <1>5, <1>6

\* The claims, when none is new and what they rest on stays.
LEMMA ClaimsKeep ==
  ASSUME IInv, burnt \subseteq burnt',
         \A w \in Worker : Claims(w)' =>
           /\ Claims(w) /\ Word(w)' = Word(w)
           /\ response'[job[w].r] = response[job[w].r],
         \A p \in Words : accepts[p] > 0 => response'[p[1]] = response[p[1]],
         UNCHANGED <<kind, nonces, accepts>>
  PROVE  ClaimsUsed' /\ ClaimsApart' /\ AcceptsUsed' /\ AcceptsApart' /\ AcceptsOnce'
<1>1. ASSUME NEW p, response'[p[1]] = response[p[1]]
      PROVE  /\ Key(p)' = Key(p)
             /\ Guarded(p)' <=> Guarded(p)
             /\ Used(p) => Used(p)'
  BY <1>1 DEF Key, Guarded, Used
<1>2. \A p, s : /\ response'[p[1]] = response[p[1]]
                /\ response'[s[1]] = response[s[1]]
                => (Same(p, s)' <=> Same(p, s))
  BY DEF Same, Key
<1>3. ASSUME NEW w \in Worker, Claims(w)'
      PROVE  /\ Claims(w) /\ Word(w)' = Word(w)
             /\ response'[Word(w)[1]] = response[Word(w)[1]]
  BY <1>3 DEF Word
<1>4. ClaimsUsed'
  <2> SUFFICES ASSUME NEW w \in Worker, Claims(w)' PROVE Used(Word(w))'
    BY DEF ClaimsUsed
  <2>1. Used(Word(w))
    BY <1>3 DEF IInv, ClaimsUsed
  <2> DEFINE p == Word(w)
  <2> QED BY <1>3, <2>1 DEF Used, Key
<1>5. ClaimsApart'
  <2> SUFFICES ASSUME NEW w \in Worker, NEW v \in Worker, w # v, Claims(w)', Claims(v)'
               PROVE  ~Same(Word(w), Word(v))'
    BY DEF ClaimsApart
  <2>1. ~Same(Word(w), Word(v))
    BY <1>3 DEF IInv, ClaimsApart
  <2>2. /\ Word(w)' = Word(w) /\ response'[Word(w)[1]] = response[Word(w)[1]]
        /\ Word(v)' = Word(v) /\ response'[Word(v)[1]] = response[Word(v)[1]]
    BY <1>3
  <2>3. Key(Word(w))' = Key(Word(w)) /\ Key(Word(v))' = Key(Word(v))
    BY <2>2 DEF Key
  <2> QED BY <2>1, <2>2, <2>3 DEF Same
<1>6. AcceptsUsed'
  <2> SUFFICES ASSUME NEW p \in Words, accepts[p] > 0, Guarded(p)'
               PROVE  Used(p)' /\ \A w \in Worker : Claims(w)' => ~Same(p, Word(w))'
    BY DEF AcceptsUsed
  <2>1. Used(p) /\ \A w \in Worker : Claims(w) => ~Same(p, Word(w))
    BY <1>1 DEF IInv, AcceptsUsed
  <2>2. Used(p)'
    BY <1>1, <2>1
  <2>3. ASSUME NEW w \in Worker, Claims(w)' PROVE ~Same(p, Word(w))'
    BY <1>3, <2>1, <2>3 DEF Same, Key
  <2> QED BY <2>2, <2>3
<1>7. AcceptsApart' /\ AcceptsOnce'
  BY <1>1, <1>2 DEF IInv, AcceptsApart, AcceptsOnce
<1> QED BY <1>4, <1>5, <1>6, <1>7

\* A call that does not move has the same word.
LEMMA JobKeeps ==
  ASSUME NEW w \in Worker, job'[w] = job[w], response'[job[w].r] = response[job[w].r],
         confirmed \subseteq confirmed', kind' = kind, IInv, job[w].pc \in Completes
  PROVE  /\ SignatureURL(w)' = SignatureURL(w)
         /\ Word(w)' = Word(w)
         /\ Checked(w) => Checked(w)'
         /\ Claims(w)' => Claims(w)
<1>1. SignatureURL(w)' = SignatureURL(w)
  BY DEF SignatureURL
<1>2. Word(w)' = Word(w) /\ Word(w)[1] = job[w].r
  BY <1>1 DEF Word
<1>3. Checked(w) => Checked(w)'
  BY <1>1, <1>2, CountsKeeps, JobTypes DEF Checked, Counts
<1>4. Claims(w)' => Claims(w)
  BY <1>2 DEF Claims, Guarded
<1> QED BY <1>1, <1>2, <1>3, <1>4

\* A step of the clock, or one that clears the slot.
LEMMA ElsewhereKeeps ==
  ASSUME IInv, TypeOK', EndpointsDiscovered',
         UNCHANGED <<kind, request, response, burnt, confirmed, nonces, job, accepts>>
  PROVE  IInv'
<1>1. ResponsesFormed' /\ JobsAnswered' /\ BeginsFresh' /\ SentTo' = SentTo
  BY DEF IInv, ResponsesFormed, JobsAnswered, BeginsFresh, SentTo
<1>2. \A w \in Worker : job[w].pc \in Completes =>
        /\ Word(w)' = Word(w) /\ Checked(w) => Checked(w)'
        /\ Claims(w)' => Claims(w)
  BY JobKeeps
<1>3. JobsChecked'
  BY JobKeeps DEF IInv, JobsChecked, Completes
<1>4. /\ AcceptsAnswered' /\ NoncesVerified' /\ DumbNeedsConfirmation' /\ SuccessVouched'
      /\ \A p \in Words : accepts[p] > 0 => response'[p[1]] = response[p[1]]
  BY <1>1, HistoryKeeps
<1>5. \A w \in Worker : Claims(w)' =>
        Claims(w) /\ Word(w)' = Word(w) /\ response'[job[w].r] = response[job[w].r]
  BY JobKeeps DEF Claims, Completes
<1>6. ClaimsUsed' /\ ClaimsApart' /\ AcceptsUsed' /\ AcceptsApart' /\ AcceptsOnce'
  BY <1>4, <1>5, ClaimsKeep
<1> QED BY <1>1, <1>3, <1>4, <1>6 DEF IInv

\* An OP makes a new assertion: those that were made stay what they are.
LEMMA SignKeeps ==
  ASSUME IInv, NEW r \in Responses, NEW m \in Answers \union Unsolicited,
         NEW nonce \in (IF m.ver = 1 THEN Requests ELSE {}) \union {r},
         NEW shares \in BOOLEAN, Sign(r, m, nonce, shares)
  PROVE  IInv'
<1>1. PICK key \in {"dumb", "shared"} : response' = [response EXCEPT ![r] =
         [ver |-> m.ver, signer |-> m.signer, op |-> m.op, cid |-> m.cid,
          nonce |-> nonce, by |-> key]]
  BY DEF Sign
<1> DEFINE a == [ver |-> m.ver, signer |-> m.signer, op |-> m.op, cid |-> m.cid,
                 nonce |-> nonce, by |-> key]
<1>2. a \in Assertion /\ a.ver = m.ver /\ a.nonce = nonce
  <2>1. m \in Claim
    BY ConsumerAssumption
  <2> QED BY <2>1 DEF Claim, Assertion
<1> HIDE DEF a
<1>3. /\ response'[r] = a /\ response' = [response EXCEPT ![r] = a]
      /\ \A s \in Responses : s # r => response'[s] = response[s]
      /\ \A s \in Responses : response[s] # None => response'[s] = response[s]
  BY <1>1 DEF a, IInv, TypeOK, Sign
<1>4. UNCHANGED <<kind, slot, shared, made, request, burnt, confirmed, nonces, job, accepts>>
  BY DEF Sign, opVars, rpVars
<1>5. TypeOK'
  <2>1. response' \in [Responses -> Assertion \union {None}]
    BY <1>2, <1>3 DEF IInv, TypeOK
  <2> QED BY <1>4, <2>1 DEF IInv, TypeOK
<1>6. EndpointsDiscovered' /\ BeginsFresh' /\ SentTo' = SentTo
  BY <1>4 DEF IInv, EndpointsDiscovered, BeginsFresh, SentTo
<1>7. ResponsesFormed'
  BY <1>2, <1>3 DEF IInv, ResponsesFormed
<1>8. JobsAnswered'
  BY <1>2, <1>3, <1>4 DEF IInv, JobsAnswered
<1>9. \A w \in Worker : job[w].pc \in Completes => response'[job[w].r] = response[job[w].r]
  BY <1>3 DEF IInv, JobsAnswered
<1>10. JobsChecked'
  BY <1>4, <1>9, JobKeeps DEF IInv, JobsChecked, Completes
<1>11. /\ AcceptsAnswered' /\ NoncesVerified' /\ DumbNeedsConfirmation' /\ SuccessVouched'
       /\ \A p \in Words : accepts[p] > 0 => response'[p[1]] = response[p[1]]
  BY <1>3, <1>4, <1>6, HistoryKeeps
<1>12. \A w \in Worker : Claims(w)' =>
         Claims(w) /\ Word(w)' = Word(w) /\ response'[job[w].r] = response[job[w].r]
  BY <1>4, <1>9, JobKeeps DEF Claims, Completes
<1>13. ClaimsUsed' /\ ClaimsApart' /\ AcceptsUsed' /\ AcceptsApart' /\ AcceptsOnce'
  BY <1>4, <1>11, <1>12, ClaimsKeep
<1> QED BY <1>5, <1>6, <1>7, <1>8, <1>10, <1>11, <1>13 DEF IInv

\* A call that starts, ends without SUCCESS or waits lays no claim.
LEMMA NoClaimKeeps ==
  ASSUME IInv, TypeOK', EndpointsDiscovered', BeginsFresh', SentTo \subseteq SentTo',
         NEW w \in Worker, NEW j \in Job, job' = [job EXCEPT ![w] = j],
         j.pc \notin {"nonce", "verify"},
         j.pc \in Completes => j.r \in Responses /\ response[j.r] # None,
         burnt \subseteq burnt',
         UNCHANGED <<kind, response, confirmed, nonces, accepts>>
  PROVE  IInv'
<1>1. job'[w] = j /\ \A v \in Worker : v # w => job'[v] = job[v]
  BY DEF IInv, TypeOK
<1>2. ResponsesFormed' /\ JobsAnswered'
  BY <1>1 DEF IInv, ResponsesFormed, JobsAnswered
<1>3. JobsChecked'
  BY <1>1, JobKeeps DEF IInv, JobsChecked, Completes
<1>4. /\ AcceptsAnswered' /\ NoncesVerified' /\ DumbNeedsConfirmation' /\ SuccessVouched'
      /\ \A p \in Words : accepts[p] > 0 => response'[p[1]] = response[p[1]]
  BY HistoryKeeps
<1>5. \A v \in Worker : Claims(v)' => v # w /\ job[v].pc \in Completes
  BY <1>1 DEF Claims, Completes
<1>6. \A v \in Worker : Claims(v)' =>
        Claims(v) /\ Word(v)' = Word(v) /\ response'[job[v].r] = response[job[v].r]
  BY <1>1, <1>5, JobKeeps
<1>7. ClaimsUsed' /\ ClaimsApart' /\ AcceptsUsed' /\ AcceptsApart' /\ AcceptsOnce'
  BY <1>4, <1>6, ClaimsKeep
<1> QED BY <1>2, <1>3, <1>4, <1>7 DEF IInv

-----------------------------------------------------------------------------
(* complete: the steps that establish the invariant.                       *)

\* A call of complete leaves the requests and their endpoints alone.
LEMMA CompleteLeaves ==
  ASSUME IInv, NEW w \in Worker, NEW j \in Job, job' = [job EXCEPT ![w] = j],
         job[w].pc \notin Begins, j.pc \notin Begins,
         j.r = None \/ j.r \in Responses,
         j.ep # None => j.ep \in Choices /\ j.ep.op \in SentTo,
         slot' \in {slot, None}, UNCHANGED request
  PROVE  EndpointsDiscovered' /\ BeginsFresh' /\ SentTo' = SentTo
<1>1. job'[w] = j /\ \A v \in Worker : v # w => job'[v] = job[v]
  BY DEF IInv, TypeOK
<1>2. SentTo' = SentTo
  BY DEF SentTo
<1>3. EndpointsDiscovered'
  BY <1>1, <1>2 DEF IInv, EndpointsDiscovered
<1>4. \A q \in Requests : q \notin Responses /\ q # None
  BY ConsumerAssumption
<1>5. BeginsFresh'
  BY <1>1, <1>4 DEF IInv, BeginsFresh
<1> QED BY <1>2, <1>3, <1>5

LEMMA CompleteIdResKeeps ==
  ASSUME IInv, NEW w \in Worker, NEW r \in Responses, CompleteIdRes(w, r)
  PROVE  IInv'
<1> DEFINE j == [pc |-> "signature", r |-> r, ep |-> slot, assoc |-> FALSE]
<1>1. j \in Job
  BY DEF IInv, TypeOK, Job, PCs
<1>2. job' = [job EXCEPT ![w] = j] /\ response[r] # None /\ job[w].pc = "idle"
  BY DEF CompleteIdRes
<1>3. TypeOK'
  BY <1>1, <1>2 DEF CompleteIdRes, sentVars, opVars, rpVars, IInv, TypeOK
<1>4. j.ep # None => j.ep \in Choices /\ j.ep.op \in SentTo
  BY DEF IInv, EndpointsDiscovered
<1>5. EndpointsDiscovered' /\ BeginsFresh' /\ SentTo' = SentTo
  BY <1>1, <1>2, <1>4, CompleteLeaves DEF CompleteIdRes, sentVars, rpVars, Begins
<1> QED
  BY <1>1, <1>2, <1>3, <1>5, NoClaimKeeps DEF CompleteIdRes, sentVars, opVars, rpVars

\* A call that ends in a failure or an exception, whatever else it did.
LEMMA EndKeeps ==
  ASSUME IInv, NEW w \in Worker, job[w].pc \in Completes, Done(w), slot' \in {slot, None},
         shared' \in [OPs -> {"none", "live", "expired"}],
         burnt' \in {burnt, burnt \union {job[w].r}},
         UNCHANGED <<kind, request, response, made, confirmed, nonces, accepts>>
  PROVE  IInv'
<1>1. /\ Idle \in Job /\ Idle.pc = "idle" /\ Idle.ep = None /\ Idle.r = None
      /\ Idle.pc \notin Begins
  BY DEF Idle, Job, PCs, Begins
<1>2. job' = [job EXCEPT ![w] = Idle]
  BY DEF Done
<1>3. TypeOK'
  BY <1>1, <1>2, JobTypes DEF IInv, TypeOK
<1>4. EndpointsDiscovered' /\ BeginsFresh' /\ SentTo' = SentTo
  BY <1>1, <1>2, JobTypes, CompleteLeaves
<1> QED BY <1>1, <1>2, <1>3, <1>4, NoClaimKeeps DEF Completes

\* A call that goes on to the next part of id_res.
LEMMA GotoTypes ==
  ASSUME IInv, NEW w \in Worker, job[w].pc \in Completes, NEW l \in Completes,
         Goto(w, l), UNCHANGED <<request, slot>>
  PROVE  LET j == [pc |-> l, r |-> job[w].r, ep |-> job[w].ep, assoc |-> job[w].assoc] IN
         /\ j \in Job /\ job' = [job EXCEPT ![w] = j] /\ job'[w] = j
         /\ job'[w].pc = l /\ job'[w].r = job[w].r /\ job'[w].ep = job[w].ep
         /\ \A v \in Worker : v # w => job'[v] = job[v]
         /\ job' \in [Worker -> Job]
         /\ EndpointsDiscovered' /\ BeginsFresh' /\ SentTo' = SentTo
<1> DEFINE j == [pc |-> l, r |-> job[w].r, ep |-> job[w].ep, assoc |-> job[w].assoc]
<1>1. job[w] \in Job /\ job[w].r \in Responses
  BY JobTypes
<1>2. [job[w] EXCEPT !.pc = l] = j /\ j \in Job
  BY <1>1 DEF Job, PCs, Completes
<1>3. job' = [job EXCEPT ![w] = j]
  BY <1>2 DEF Goto
<1>4. j.ep # None => j.ep \in Choices /\ j.ep.op \in SentTo
  BY DEF IInv, EndpointsDiscovered
<1>5. j.pc \notin Begins /\ job[w].pc \notin Begins
  BY DEF Completes, Begins
<1>6. EndpointsDiscovered' /\ BeginsFresh' /\ SentTo' = SentTo
  BY <1>1, <1>2, <1>3, <1>4, <1>5, CompleteLeaves
<1>7. /\ job'[w] = j /\ job' \in [Worker -> Job]
      /\ \A v \in Worker : v # w => job'[v] = job[v]
  BY <1>2, <1>3 DEF IInv, TypeOK
<1> QED BY <1>2, <1>3, <1>6, <1>7

\* A call that passes the signature check: the word of its server counts,
\* and without a store the signer's counts for the first time.
LEMMA SignedKeeps ==
  ASSUME IInv, NEW w \in Worker, job[w].pc \in {"signature", "checkAuth"},
         Goto(w, "nonce"), TypeOK', SignatureURL(w) \in OPs, Counts(Word(w))',
         burnt \subseteq burnt',
         kind = "none" /\ SignatureURL(w) = response[job[w].r].signer =>
           job[w].r \notin burnt /\ job[w].r \in burnt',
         confirmed \subseteq confirmed',
         UNCHANGED <<kind, slot, request, response, nonces, accepts>>
  PROVE  IInv'
<1> DEFINE r == job[w].r
<1> DEFINE j == [pc |-> "nonce", r |-> r, ep |-> job[w].ep, assoc |-> job[w].assoc]
<1>0. "nonce" \in Completes /\ job[w].pc \in Completes /\ UNCHANGED <<request, slot>>
  BY DEF Completes
<1>a. /\ job'[w] = j /\ \A v \in Worker : v # w => job'[v] = job[v]
      /\ EndpointsDiscovered' /\ BeginsFresh' /\ SentTo' = SentTo
  BY <1>0, GotoTypes
<1>1. /\ job'[w].pc = "nonce" /\ job'[w].r = r /\ job'[w].ep = job[w].ep
      /\ \A v \in Worker : v # w => job'[v] = job[v]
      /\ EndpointsDiscovered' /\ BeginsFresh' /\ SentTo' = SentTo
  BY <1>a
<1>2. r \in Responses /\ response[r] # None
  BY JobTypes DEF Completes
<1>3. ResponsesFormed' /\ JobsAnswered'
  BY <1>1, <1>2 DEF IInv, ResponsesFormed, JobsAnswered
<1>4. SignatureURL(w)' = SignatureURL(w) /\ Word(w)' = Word(w) /\ Word(w)[1] = r
  BY <1>1 DEF SignatureURL, Word
<1>5. JobsChecked'
  <2>1. Checked(w)'
    BY <1>4 DEF Checked
  <2> QED BY <1>1, <2>1, JobKeeps DEF IInv, JobsChecked, Completes
<1>6. /\ AcceptsAnswered' /\ NoncesVerified' /\ DumbNeedsConfirmation' /\ SuccessVouched'
      /\ \A p \in Words : accepts[p] > 0 => response'[p[1]] = response[p[1]]
  BY <1>1, HistoryKeeps
<1>7. \A v \in Worker : v # w /\ Claims(v)' => Claims(v) /\ Word(v)' = Word(v)
  BY <1>1, JobKeeps DEF Claims, Completes
<1>8. Claims(w)' => kind = "none" /\ r \notin burnt /\ r \in burnt'
  BY <1>1, <1>4 DEF Claims, Guarded, Word
<1>9. ClaimsUsed' /\ ClaimsApart' /\ AcceptsUsed' /\ AcceptsApart' /\ AcceptsOnce'
  <2>1. CASE ~Claims(w)'
    <3>1. \A v \in Worker : Claims(v)' =>
            Claims(v) /\ Word(v)' = Word(v) /\ response'[job[v].r] = response[job[v].r]
      BY <1>7, <2>1
    <3> QED BY <1>6, <3>1, ClaimsKeep
  <2>2. CASE Claims(w)'
    <3>1. kind = "none" /\ r \notin burnt /\ r \in burnt'
      BY <1>8, <2>2
    <3>2. /\ \A v \in Worker : v # w /\ Claims(v)' => Word(v)[1] \in burnt
          /\ \A p \in Words : accepts[p] > 0 /\ Guarded(p)' => p[1] \in burnt
      BY <1>7, <3>1 DEF IInv, ClaimsUsed, AcceptsUsed, Used, Guarded
    <3>3. ClaimsUsed'
      BY <1>4, <1>7, <3>1, <3>2 DEF ClaimsUsed, Used
    <3>4. ClaimsApart'
      <4> SUFFICES ASSUME NEW u \in Worker, NEW v \in Worker, u # v, Claims(u)', Claims(v)'
                   PROVE  Word(u)'[1] # Word(v)'[1]
        BY <3>1 DEF ClaimsApart, Same
      <4>1. CASE u = w
        BY <1>4, <1>7, <3>1, <3>2, <4>1
      <4>2. CASE v = w
        BY <1>4, <1>7, <3>1, <3>2, <4>2
      <4>3. CASE u # w /\ v # w
        BY <1>7, <3>1, <4>3 DEF IInv, ClaimsApart, Same
      <4> QED BY <4>1, <4>2, <4>3
    <3>5. AcceptsUsed'
      <4> SUFFICES ASSUME NEW p \in Words, accepts[p] > 0, Guarded(p)'
                   PROVE  Used(p)' /\ \A v \in Worker : Claims(v)' => ~Same(p, Word(v))'
        BY DEF AcceptsUsed
      <4>1. Used(p)'
        BY <3>1, <3>2 DEF Used
      <4>2. ASSUME NEW v \in Worker, v # w, Claims(v)' PROVE ~Same(p, Word(v))'
        <5>1. Claims(v) /\ Word(v)' = Word(v) /\ Guarded(p)
          BY <1>7, <4>2 DEF Guarded
        <5> QED BY <3>1, <5>1 DEF IInv, AcceptsUsed, Same
      <4>3. ~Same(p, Word(w))'
        BY <1>4, <3>1, <3>2 DEF Same
      <4> QED BY <4>1, <4>2, <4>3
    <3>6. AcceptsApart' /\ AcceptsOnce'
      BY DEF IInv, AcceptsApart, AcceptsOnce, Guarded, Same, Key
    <3> QED BY <3>3, <3>4, <3>5, <3>6
  <2> QED BY <2>1, <2>2
<1> QED BY <1>1, <1>3, <1>5, <1>6, <1>9 DEF IInv

LEMMA CheckSignatureKeeps ==
  ASSUME IInv, NEW w \in Worker, CheckSignature(w)
  PROVE  IInv'
<1> DEFINE r == job[w].r
<1>0. job[w].pc = "signature" /\ job[w].pc \in Completes /\ "checkAuth" \in Completes
  BY DEF CheckSignature, Completes
<1>1. /\ r \in Responses /\ response[r] # None /\ response[r] \in Assertion
      /\ SignatureURL(w) \in OPs \union {None}
  BY <1>0, JobTypes
<1>2. UNCHANGED <<kind, request, response, shared, made, burnt, confirmed, nonces, accepts>>
  BY DEF CheckSignature, Fail, Raise, Answer, Proceed, sentVars, opVars
<1>3. CASE Fail(w) \/ Raise(w)
  BY <1>0, <1>2, <1>3, EndKeeps DEF Fail, Raise, Answer, IInv, TypeOK
<1>4. CASE Proceed(w, "checkAuth")
  <2> DEFINE j == [pc |-> "checkAuth", r |-> r, ep |-> job[w].ep, assoc |-> job[w].assoc]
  <2>1. Goto(w, "checkAuth") /\ UNCHANGED <<request, slot>>
    BY <1>4 DEF Proceed, sentVars
  <2>2. /\ j \in Job /\ job' = [job EXCEPT ![w] = j] /\ job' \in [Worker -> Job]
        /\ EndpointsDiscovered' /\ BeginsFresh' /\ SentTo' = SentTo
    BY <1>0, <2>1, GotoTypes
  <2>3. TypeOK'
    BY <1>2, <2>1, <2>2 DEF IInv, TypeOK
  <2> QED BY <1>1, <1>2, <2>2, <2>3, NoClaimKeeps
<1>5. CASE AssocFor(w) = "live" /\ Proceed(w, "nonce")
  <2>1. Goto(w, "nonce") /\ UNCHANGED <<request, slot>> /\ "nonce" \in Completes
    BY <1>5 DEF Proceed, sentVars, Completes
  <2>2. job' \in [Worker -> Job]
    BY <1>0, <2>1, GotoTypes
  <2>3. TypeOK'
    BY <1>2, <2>1, <2>2 DEF IInv, TypeOK
  <2>4. kind # "none" /\ response[r].by = "shared" /\ SignatureURL(w) = response[r].signer
    BY <1>5 DEF AssocFor
  <2>5. SignatureURL(w) \in OPs
    BY <1>1, <2>4 DEF Assertion
  <2>6. Counts(Word(w))'
    <3>1. job'[w].r = r /\ job'[w].ep = job[w].ep
      BY <1>0, <2>1, GotoTypes
    <3>2. SignatureURL(w)' = SignatureURL(w)
      BY <1>2, <3>1 DEF SignatureURL
    <3> QED BY <1>2, <2>4, <3>1, <3>2 DEF Counts, Word
  <2> QED BY <1>0, <1>2, <2>1, <2>3, <2>4, <2>5, <2>6, SignedKeeps
<1> QED BY <1>3, <1>4, <1>5 DEF CheckSignature

LEMMA CheckAuthLostKeeps ==
  ASSUME IInv, NEW w \in Worker, CheckAuthLost(w)
  PROVE  IInv'
BY EndKeeps DEF CheckAuthLost, Fail, Answer, sentVars, Completes, IInv, TypeOK

LEMMA CheckAuthKeeps ==
  ASSUME IInv, NEW w \in Worker, CheckAuth(w)
  PROVE  IInv'
<1> DEFINE r == job[w].r
           url == SignatureURL(w)
<1>0. job[w].pc = "checkAuth" /\ job[w].pc \in Completes
  BY DEF CheckAuth, Completes
<1>1. r \in Responses /\ url \in OPs
  BY <1>0, JobTypes DEF CheckAuth
<1>2. /\ shared' \in [OPs -> {"none", "live", "expired"}]
      /\ burnt' = IF url = response[r].signer THEN burnt \union {r} ELSE burnt
      /\ UNCHANGED <<kind, request, response, made, nonces, accepts>>
  BY <1>1 DEF CheckAuth, Invalidates, Burns, Fail, Answer, Proceed, sentVars, IInv, TypeOK
<1>3. CASE Fail(w) /\ UNCHANGED confirmed
  BY <1>0, <1>1, <1>2, <1>3, EndKeeps DEF Fail, Answer
<1>4. CASE /\ Says(w, TRUE)
           /\ Proceed(w, "nonce")
           /\ confirmed' = confirmed \union {<<r, url>>}
  <2>1. Goto(w, "nonce") /\ UNCHANGED <<request, slot, accepts>> /\ "nonce" \in Completes
    BY <1>4 DEF Proceed, sentVars, Completes
  <2>2. job' \in [Worker -> Job] /\ job'[w].r = r /\ job'[w].ep = job[w].ep
    BY <1>0, <2>1, GotoTypes
  <2>3. <<r, url>> \in Words
    BY <1>1 DEF Words
  <2>4. TypeOK'
    BY <1>1, <1>2, <1>4, <2>1, <2>2, <2>3 DEF IInv, TypeOK
  <2>5. SignatureURL(w)' = url
    BY <1>2, <2>2 DEF SignatureURL
  <2>6. Counts(Word(w))'
    BY <1>4, <2>2, <2>5 DEF Counts, Word
  <2>7. url = response[r].signer => r \notin burnt /\ r \in burnt'
    BY <1>2, <1>4 DEF Says
  <2>8. burnt \subseteq burnt' /\ confirmed \subseteq confirmed'
    BY <1>2, <1>4
  <2> QED BY <1>0, <1>1, <1>2, <2>1, <2>4, <2>6, <2>7, <2>8, SignedKeeps
<1> QED BY <1>3, <1>4 DEF CheckAuth

\* The URL a nonce is filed under is the one its key is made of.
LEMMA NonceKey ==
  ASSUME IInv, NEW w \in Worker, job[w].pc = "nonce", Guarded(Word(w)),
         kind = "memory" \/ (kind = "file" /\ NonceURL(w) # None)
  PROVE  <<NonceURL(w), response[job[w].r].nonce>> = Key(Word(w))
<1>1. response[job[w].r] \in Assertion
  BY JobTypes DEF Completes
<1>2. Word(w)[1] = job[w].r /\ Word(w)[2] = SignatureURL(w)
  BY DEF Word
<1>3. CASE response[job[w].r].ver = 1
  BY <1>2, <1>3 DEF NonceURL, Key
<1>4. CASE response[job[w].r].ver # 1
  <2>1. kind = "file" /\ job[w].ep # None
    BY <1>2, <1>4 DEF Guarded, NonceURL
  <2> QED BY <1>2, <1>4, <2>1 DEF NonceURL, SignatureURL, Key
<1> QED BY <1>3, <1>4

LEMMA CheckNonceKeeps ==
  ASSUME IInv, NEW w \in Worker, CheckNonce(w)
  PROVE  IInv'
<1> DEFINE r == job[w].r
           a == response[job[w].r]
           used == <<NonceURL(w), a.nonce>>
<1>0. job[w].pc = "nonce" /\ job[w].pc \in Completes /\ "verify" \in Completes
  BY DEF CheckNonce, Completes
<1>1. r \in Responses /\ a # None /\ a \in Assertion /\ job[w].ep \in Endpoint \union {None}
  BY <1>0, JobTypes
<1>2. UNCHANGED <<kind, request, response, shared, made, burnt, confirmed, accepts>>
  BY DEF CheckNonce, Fail, Raise, Answer, Proceed, sentVars, opVars
<1>3. CASE (Fail(w) \/ Raise(w)) /\ UNCHANGED nonces
  BY <1>0, <1>2, <1>3, EndKeeps DEF Fail, Raise, Answer, IInv, TypeOK
<1>4. CASE /\ Proceed(w, "verify")
           /\ \/ kind = "none" /\ UNCHANGED nonces
              \/ /\ kind = "memory" \/ (kind = "file" /\ NonceURL(w) # None)
                 /\ used \notin nonces /\ nonces' = nonces \union {used}
  <2>1. Goto(w, "verify") /\ UNCHANGED <<request, slot>>
    BY <1>4 DEF Proceed, sentVars
  <2>2. /\ job' \in [Worker -> Job]
        /\ job'[w].pc = "verify" /\ job'[w].r = r /\ job'[w].ep = job[w].ep
        /\ \A v \in Worker : v # w => job'[v] = job[v]
        /\ EndpointsDiscovered' /\ BeginsFresh' /\ SentTo' = SentTo
    BY <1>0, <2>1, GotoTypes
  <2>3. NonceURL(w) \in OPs \union {"", None}
    BY <1>1 DEF NonceURL, Endpoint
  <2>4. TypeOK'
    <3>1. used \in (OPs \union {"", None}) \X (Requests \union Responses)
      BY <1>1, <2>3 DEF Assertion
    <3>2. nonces' \subseteq (OPs \union {"", None}) \X (Requests \union Responses)
      BY <1>4, <3>1 DEF IInv, TypeOK
    <3> QED BY <1>2, <2>1, <2>2, <3>2 DEF IInv, TypeOK
  <2>5. ResponsesFormed' /\ JobsAnswered'
    BY <1>1, <1>2, <2>2 DEF IInv, ResponsesFormed, JobsAnswered
  <2>6. /\ SignatureURL(w)' = SignatureURL(w) /\ Word(w)' = Word(w)
        /\ Word(w)[1] = r /\ Word(w)[2] = SignatureURL(w)
    BY <1>2, <2>2 DEF SignatureURL, Word
  <2>7. Checked(w) /\ Checked(w)'
    <3>1. Checked(w)
      BY <1>0 DEF IInv, JobsChecked
    <3>2. Counts(Word(w))'
      BY <1>2, <2>6, <3>1 DEF Checked, Counts
    <3> QED BY <2>6, <3>1, <3>2 DEF Checked
  <2>8. JobsChecked'
    BY <1>2, <2>2, <2>7, JobKeeps DEF IInv, JobsChecked, Completes
  <2>9. \A v \in Worker : v # w /\ Claims(v)' =>
          Claims(v) /\ Word(v)' = Word(v) /\ response'[job[v].r] = response[job[v].r]
    BY <1>2, <2>2, JobKeeps DEF Claims, Completes
  <2>10. Word(w) \in Words
    BY <1>1, <2>6, <2>7 DEF Word, Words, Checked
  <2>11. AcceptsAnswered' /\ DumbNeedsConfirmation' /\ SuccessVouched'
    BY <1>2, <2>2 DEF IInv, AcceptsAnswered, DumbNeedsConfirmation, Counts, SuccessVouched
  <2>12. NoncesVerified'
    <3>1. /\ a # None /\ a.nonce = used[2] /\ Counts(Word(w))
          /\ \/ used[1] = IF a.ver = 1 THEN "" ELSE SignatureURL(w)
             \/ a.ver = 2 /\ used[1] = None /\ SignatureURL(w) = a.op
      BY <1>1, <2>7 DEF Checked, NonceURL, SignatureURL, Assertion
    <3>2. NoncesVerified /\ \A p \in Words : Counts(p)' <=> Counts(p)
      BY <1>2 DEF IInv, Counts
    <3>3. CASE UNCHANGED nonces
      BY <1>2, <3>2, <3>3 DEF NoncesVerified
    <3>4. CASE /\ kind = "memory" \/ (kind = "file" /\ NonceURL(w) # None)
               /\ nonces' = nonces \union {used}
      <4>1. \A n \in nonces' : n \in nonces \/ n = used
        BY <3>4
      <4>2. ASSUME NEW n, n = used
            PROVE  \E p \in Words :
                     LET b == response[p[1]] IN
                     /\ b # None /\ b.nonce = n[2] /\ Counts(p)
                     /\ \/ n[1] = IF b.ver = 1 THEN "" ELSE p[2]
                        \/ kind = "memory" /\ b.ver = 2 /\ n[1] = None /\ p[2] = b.op
        <5>1. response[Word(w)[1]] = a
          BY <2>6
        <5>2. kind = "memory" \/ used[1] # None
          BY <3>4
        <5> QED BY <2>6, <2>10, <3>1, <4>2, <5>1, <5>2
      <4> QED BY <1>2, <3>2, <4>1, <4>2 DEF NoncesVerified
    <3> QED BY <1>4, <3>3, <3>4
  <2>13. CASE kind = "none"
    <3>1. Claims(w)' => Claims(w)
      BY <1>0, <1>2, <2>2, <2>6, <2>13 DEF Claims, Guarded
    <3>2. /\ \A v \in Worker : Claims(v)' =>
               Claims(v) /\ Word(v)' = Word(v) /\ response'[job[v].r] = response[job[v].r]
          /\ \A p \in Words : accepts[p] > 0 => response'[p[1]] = response[p[1]]
      BY <1>2, <2>6, <2>9, <3>1
    <3>3. ClaimsUsed' /\ ClaimsApart' /\ AcceptsUsed' /\ AcceptsApart' /\ AcceptsOnce'
      BY <1>2, <1>4, <2>13, <3>2, ClaimsKeep
    <3> QED BY <2>2, <2>4, <2>5, <2>8, <2>11, <2>12, <3>3 DEF IInv
  <2>14. CASE kind # "none"
    <3>1. used \notin nonces /\ used \in nonces' /\ nonces \subseteq nonces'
      BY <1>4, <2>14
    <3>2. Claims(w)' => Guarded(Word(w))
      BY <1>2, <2>6 DEF Claims, Guarded
    <3>3. Claims(w)' => Key(Word(w)) = used
      BY <1>0, <1>4, <2>14, <3>2, NonceKey
    <3>4. \A v \in Worker : Claims(v)' => Key(Word(v))' = Key(Word(v)) /\ Word(v)' = Word(v)
      BY <1>2, <2>6, <2>9 DEF Key
    <3>5. \A v \in Worker : v # w /\ Claims(v)' => Key(Word(v)) \in nonces
      BY <2>9, <2>14 DEF IInv, ClaimsUsed, Used
    <3>6. \A p \in Words : accepts[p] > 0 /\ Guarded(p) => Key(p) \in nonces
      BY <2>14 DEF IInv, AcceptsUsed, Used
    <3>7. /\ kind' = kind /\ accepts' = accepts
          /\ \A p \in Words : Key(p)' = Key(p) /\ (Guarded(p)' <=> Guarded(p))
      BY <1>2 DEF Key, Guarded
    <3>8. ClaimsUsed'
      BY <2>14, <3>1, <3>3, <3>4, <3>5, <3>7 DEF ClaimsUsed, Used
    <3>9. ClaimsApart'
      <4> SUFFICES ASSUME NEW u \in Worker, NEW v \in Worker, u # v, Claims(u)', Claims(v)'
                   PROVE  Key(Word(u)) # Key(Word(v))
        BY <2>14, <3>4, <3>7 DEF ClaimsApart, Same
      <4>1. CASE u = w \/ v = w
        BY <3>1, <3>3, <3>5, <4>1
      <4>2. CASE u # w /\ v # w
        BY <2>9, <2>14, <4>2 DEF IInv, ClaimsApart, Same
      <4> QED BY <4>1, <4>2
    <3>10. AcceptsUsed'
      <4> SUFFICES ASSUME NEW p \in Words, accepts[p] > 0, Guarded(p)
                   PROVE  /\ Key(p) \in nonces'
                          /\ \A v \in Worker : Claims(v)' => Key(p) # Key(Word(v))
        BY <2>14, <3>4, <3>7 DEF AcceptsUsed, Used, Same
      <4>1. ASSUME NEW v \in Worker, Claims(v)', v # w PROVE Key(p) # Key(Word(v))
        BY <2>9, <2>14, <4>1 DEF IInv, AcceptsUsed, Same
      <4> QED BY <3>1, <3>3, <3>6, <4>1
    <3>11. AcceptsApart' /\ AcceptsOnce'
      BY <2>14, <3>7 DEF IInv, AcceptsApart, AcceptsOnce, Same
    <3> QED BY <2>2, <2>4, <2>5, <2>8, <2>11, <2>12, <3>8, <3>9, <3>10, <3>11 DEF IInv
  <2> QED BY <2>13, <2>14
<1> QED BY <1>3, <1>4 DEF CheckNonce

\* What matched, in the session or in discovery, was discovered.
LEMMA MatchDiscovered ==
  ASSUME IInv, NEW w \in Worker, VerifyDiscovery(w), ~Fail(w)
  PROVE  /\ Succeed(w)
         /\ LET a == response[job[w].r] IN
            a.cid # None =>
              \E e \in Services[a.cid] : e.ver = a.ver /\ (a.ver = 2 => e.op = a.op)
<1> DEFINE a == response[job[w].r]
           ep == job[w].ep
<1>1. Succeed(w)
  BY DEF VerifyDiscovery
<1>2. CASE a.cid = None
  BY <1>1, <1>2
<1>3. CASE ep # None /\ Matches(ep, a) /\ a.cid # None
  <2>1. ep \in Services[a.cid]
    BY <1>3, ConsumerAssumption DEF Matches, IInv, EndpointsDiscovered
  <2> QED BY <1>1, <1>3, <2>1 DEF Matches
<1>4. CASE \E e \in Services[a.cid] : Matches(e, a)
  BY <1>1, <1>4 DEF Matches
<1> QED BY <1>2, <1>3, <1>4 DEF VerifyDiscovery

LEMMA VerifyDiscoveryKeeps ==
  ASSUME IInv, NEW w \in Worker, VerifyDiscovery(w)
  PROVE  IInv'
<1> DEFINE r == job[w].r
           p == Word(w)
<1>0. job[w].pc = "verify" /\ job[w].pc \in Completes
  BY DEF VerifyDiscovery, Completes
<1>1. /\ r \in Responses /\ response[r] # None /\ response[r] \in Assertion
      /\ job[w].pc \notin Begins
  BY <1>0, JobTypes
<1>2. /\ UNCHANGED <<kind, request, response, shared, made, burnt, confirmed, nonces>>
      /\ slot' = None
  BY DEF VerifyDiscovery, Fail, Succeed, Answer, sentVars, opVars
<1>3. CASE Fail(w)
  BY <1>0, <1>2, <1>3, EndKeeps DEF Fail, Answer, IInv, TypeOK
<1>4. CASE ~Fail(w)
  <2>1. /\ SignatureURL(w) \in OPs /\ Counts(p)
        /\ p[1] = r /\ p[2] = SignatureURL(w) /\ p \in Words
    <3>1. SignatureURL(w) \in OPs /\ Counts(p)
      BY <1>0 DEF IInv, JobsChecked, Checked
    <3> QED BY <1>1, <3>1 DEF Word, Words
  <2>2. /\ job' = [job EXCEPT ![w] = Idle] /\ job'[w] = Idle /\ Idle \in Job
        /\ \A v \in Worker : v # w => job'[v] = job[v]
        /\ job' \in [Worker -> Job]
    <3>1. job' = [job EXCEPT ![w] = Idle]
      BY <1>4, MatchDiscovered DEF Succeed, Answer, Done
    <3>2. Idle \in Job
      BY DEF Idle, Job, PCs
    <3> QED BY <3>1, <3>2 DEF IInv, TypeOK
  <2>3. /\ accepts'[p] = IF accepts[p] = 0 THEN 1 ELSE 2
        /\ \A s \in Words : s # p => accepts'[s] = accepts[s]
        /\ accepts' \in [Words -> 0 .. Often]
    <3>1. accepts' = [accepts EXCEPT ![p] = IF accepts[p] = 0 THEN 1 ELSE 2]
      BY <1>4, MatchDiscovered DEF Succeed, Often
    <3>2. p \in Words /\ accepts \in [Words -> 0 .. 2]
      BY <2>1 DEF IInv, TypeOK, Often
    <3> HIDE DEF p
    <3> QED BY <3>1, <3>2 DEF Often
  <2>4. TypeOK'
    BY <1>2, <2>2, <2>3 DEF IInv, TypeOK
  <2>5. EndpointsDiscovered' /\ BeginsFresh' /\ SentTo' = SentTo
    BY <1>1, <1>2, <2>2, CompleteLeaves DEF Idle, Begins
  <2>6. ResponsesFormed' /\ JobsAnswered'
    BY <1>2, <2>2 DEF IInv, ResponsesFormed, JobsAnswered, Idle, Completes
  <2>7. JobsChecked'
    BY <1>2, <2>2, JobKeeps DEF IInv, JobsChecked, Idle, Completes
  <2>8. AcceptsAnswered'
    BY <1>1, <1>2, <2>1, <2>3 DEF IInv, AcceptsAnswered
  <2>9. NoncesVerified' /\ (\A s \in Words : Counts(s)' <=> Counts(s))
    BY <1>2 DEF IInv, NoncesVerified, Counts
  <2>10. DumbNeedsConfirmation'
    BY <2>1, <2>3, <2>9 DEF IInv, DumbNeedsConfirmation
  <2>11. SuccessVouched'
    <3> SUFFICES ASSUME NEW s \in Words, accepts'[s] > 0
                 PROVE  LET a == response[s[1]] IN
                        /\ a.cid # None =>
                             \E e \in Services[a.cid] :
                               e.ver = a.ver /\ (a.ver = 2 => e.op = a.op)
                        /\ s[2] \in SentTo \/ (a.ver = 2 /\ s[2] = a.op)
      BY <1>2, <2>5 DEF SuccessVouched
    <3>1. CASE s # p
      BY <2>3, <3>1 DEF IInv, SuccessVouched
    <3>2. CASE s = p
      <4>1. SignatureURL(w) \in SentTo
              \/ (response[r].ver = 2 /\ SignatureURL(w) = response[r].op)
        BY <1>0, <2>1, ConsumerAssumption DEF SignatureURL, IInv, EndpointsDiscovered
      <4> QED BY <1>4, <2>1, <3>2, <4>1, MatchDiscovered
    <3> QED BY <3>1, <3>2
  <2>12. \A v \in Worker : Claims(v)' =>
           /\ v # w /\ Claims(v) /\ Word(v)' = Word(v)
           /\ response'[job[v].r] = response[job[v].r]
    BY <1>2, <2>2, JobKeeps DEF Claims, Idle, Completes
  <2>13. \A s \in Words : /\ Guarded(s)' <=> Guarded(s)
                          /\ Used(s)' <=> Used(s)
    BY <1>2 DEF Guarded, Used, Key
  <2>14. \A s, t : Same(s, t)' <=> Same(s, t)
    BY <1>2 DEF Same, Key
  <2>15. Guarded(p) => Claims(w)
    BY <1>0 DEF Claims
  <2>16. ClaimsUsed'
    BY <1>2, <2>12 DEF IInv, ClaimsUsed, Used, Key
  <2>17. ASSUME NEW v \in Worker, NEW u \in Worker, v # u, Claims(v)', Claims(u)'
         PROVE  ~Same(Word(v), Word(u))'
    <3>1. Claims(v) /\ Claims(u) /\ Word(v)' = Word(v) /\ Word(u)' = Word(u)
      BY <2>12, <2>17
    <3>2. ~Same(Word(v), Word(u))
      BY <2>17, <3>1 DEF IInv, ClaimsApart
    <3>3. Key(Word(v))' = Key(Word(v)) /\ Key(Word(u))' = Key(Word(u))
      BY <1>2, <3>1 DEF Key
    <3> QED BY <1>2, <3>1, <3>2, <3>3 DEF Same
  <2>18. ClaimsApart'
    BY <2>17 DEF ClaimsApart
  <2>19. \A s \in Words : s # p /\ accepts'[s] > 0 => accepts[s] > 0
    BY <2>3
  <2>20. AcceptsUsed'
    <3> SUFFICES ASSUME NEW s \in Words, accepts'[s] > 0, Guarded(s)
                 PROVE  Used(s) /\ \A v \in Worker : Claims(v)' => ~Same(s, Word(v))'
      BY <2>13 DEF AcceptsUsed
    <3>1. Used(s) /\ \A v \in Worker : v # w /\ Claims(v) => ~Same(s, Word(v))
      <4>1. CASE s # p
        BY <2>19, <4>1 DEF IInv, AcceptsUsed
      <4>2. CASE s = p
        BY <2>15, <4>2 DEF IInv, ClaimsUsed, ClaimsApart
      <4> QED BY <4>1, <4>2
    <3>2. ASSUME NEW v \in Worker, Claims(v)' PROVE ~Same(s, Word(v))'
      BY <1>2, <2>12, <3>1, <3>2 DEF Same, Key
    <3> QED BY <3>1, <3>2
  <2>21. \A s \in Words : Guarded(p) /\ Guarded(s) /\ accepts[s] > 0 => ~Same(s, p)
    BY <2>15 DEF IInv, AcceptsUsed
  <2>22. AcceptsApart'
    <3> SUFFICES ASSUME NEW s \in Words, NEW t \in Words, s # t, accepts'[s] > 0,
                        accepts'[t] > 0, Guarded(s), Guarded(t)
                 PROVE  ~Same(s, t)
      BY <2>13, <2>14 DEF AcceptsApart
    <3>1. \A x, y : Same(x, y) => Same(y, x)
      BY DEF Same
    <3>2. CASE s # p /\ t # p
      BY <2>19, <3>2 DEF IInv, AcceptsApart
    <3>3. CASE s = p \/ t = p
      BY <2>19, <2>21, <3>1, <3>3
    <3> QED BY <3>2, <3>3
  <2>23. AcceptsOnce'
    <3>1. Same(p, p) /\ accepts[p] \in 0 .. 2
      BY <2>1 DEF Same, IInv, TypeOK, Often
    <3>2. Guarded(p) => accepts[p] = 0
      BY <2>1, <2>21, <3>1
    <3> QED BY <2>3, <2>13, <3>2 DEF IInv, AcceptsOnce
  <2> QED BY <2>4, <2>5, <2>6, <2>7, <2>8, <2>9, <2>10, <2>11, <2>16, <2>18, <2>20, <2>22,
             <2>23 DEF IInv
<1> QED BY <1>3, <1>4

-----------------------------------------------------------------------------
(* The other steps.                                                        *)

\* A call of begin starts, waits or ends.
LEMMA BeginKeeps ==
  ASSUME IInv, NEW w \in Worker, Begin(w)
  PROVE  IInv'
<1>1. CASE \E q \in Requests, e \in Choices : BeginLookup(w, q, e)
  <2>1. PICK q \in Requests, e \in Choices : BeginLookup(w, q, e)
    BY <1>1
  <2>2. PICK l \in {"send", "negotiate"}, found \in BOOLEAN :
          job' = [job EXCEPT ![w] = [pc |-> l, r |-> q, ep |-> e, assoc |-> found]]
    BY <2>1 DEF BeginLookup
  <2> DEFINE j == [pc |-> l, r |-> q, ep |-> e, assoc |-> found]
  <2>3. /\ UNCHANGED <<kind, slot, shared, made, request, response, burnt, confirmed, nonces,
                       accepts>>
        /\ request[q] = None /\ \A v \in Worker : job[v].r # q
    BY <2>1 DEF BeginLookup, sentVars, opVars, rpVars
  <2>4. j \in Job /\ j.ep # None /\ j.pc \notin Completes \union {"nonce", "verify"}
    BY ConsumerAssumption DEF Job, PCs, Begins, Completes, Endpoint
  <2>5. job'[w] = j /\ (\A v \in Worker : v # w => job'[v] = job[v]) /\ job' \in [Worker -> Job]
    BY <2>2, <2>4 DEF IInv, TypeOK
  <2>6. TypeOK'
    BY <2>3, <2>5 DEF IInv, TypeOK
  <2>7. SentTo' = SentTo
    BY <2>3 DEF SentTo
  <2>8. EndpointsDiscovered' /\ BeginsFresh'
    BY <2>3, <2>4, <2>5, <2>7 DEF IInv, EndpointsDiscovered, BeginsFresh
  <2> QED BY <2>2, <2>3, <2>4, <2>6, <2>7, <2>8, NoClaimKeeps
<1>2. CASE job[w].pc \in Begins
  <2> DEFINE q == job[w].r
             e == job[w].ep
  <2>1. /\ q \in Requests /\ request[q] = None /\ e \in Choices /\ e \in Endpoint
        /\ e.op \in OPs /\ job[w] \in Job /\ e # None
    <3>1. e \in Choices /\ q \in Requests /\ request[q] = None /\ job[w] \in Job /\ e # None
      BY <1>2 DEF IInv, BeginsFresh, EndpointsDiscovered, TypeOK
    <3> QED BY <3>1, ConsumerAssumption DEF Endpoint
  <2>2. CASE Negotiate(w) \/ StoreAssociation(w)
    <3>1. /\ UNCHANGED <<kind, slot, request, response, burnt, confirmed, nonces, accepts>>
          /\ shared' \in [OPs -> {"none", "live", "expired"}] /\ made' \subseteq OPs
      BY <2>1, <2>2
         DEF Negotiate, StoreAssociation, sentVars, opVars, rpVars, IInv, TypeOK
    <3>2. PICK j \in Job :
            /\ job' = [job EXCEPT ![w] = j]
            /\ j = Idle \/ (j.pc \in Begins /\ j.r = q /\ j.ep = e)
      <4>1. CASE Goto(w, "send")
        <5>1. /\ [job[w] EXCEPT !.pc = "send"] =
                   [pc |-> "send", r |-> q, ep |-> e, assoc |-> job[w].assoc]
              /\ [pc |-> "send", r |-> q, ep |-> e, assoc |-> job[w].assoc] \in Job
          BY <2>1 DEF Job, PCs, Begins
        <5> QED BY <4>1, <5>1 DEF Goto, Begins
      <4>2. CASE job' = [job EXCEPT ![w] = [pc |-> "store", r |-> q, ep |-> e, assoc |-> TRUE]]
        <5>1. [pc |-> "store", r |-> q, ep |-> e, assoc |-> TRUE] \in Job
          BY <2>1 DEF Job, PCs, Begins
        <5> QED BY <4>2, <5>1 DEF Begins
      <4>3. CASE Done(w)
        BY <4>3 DEF Done, Idle, Job, PCs
      <4> QED BY <2>2, <4>1, <4>2, <4>3 DEF Negotiate, StoreAssociation
    <3>3. job'[w] = j /\ (\A v \in Worker : v # w => job'[v] = job[v]) /\ job' \in [Worker -> Job]
      BY <3>2 DEF IInv, TypeOK
    <3>4. TypeOK'
      BY <3>1, <3>3 DEF IInv, TypeOK
    <3>5. SentTo' = SentTo /\ j.pc \notin Completes \union {"nonce", "verify"}
      BY <3>1, <3>2 DEF SentTo, Completes, Begins, Idle
    <3>6. Idle.r = None /\ Idle.ep = None /\ Idle.pc \notin Begins /\ None \notin Requests
      BY ConsumerAssumption DEF Idle, Begins
    <3>7. EndpointsDiscovered' /\ BeginsFresh'
      BY <1>2, <2>1, <3>1, <3>2, <3>3, <3>5, <3>6 DEF IInv, EndpointsDiscovered, BeginsFresh
    <3> QED BY <3>1, <3>2, <3>4, <3>5, <3>7, NoClaimKeeps
  <2>3. CASE Send(w)
    <3> DEFINE new == [to |-> e, handle |-> e.ver = 1 /\ job[w].assoc]
    <3>1. /\ UNCHANGED <<kind, shared, made, response, burnt, confirmed, nonces, accepts>>
          /\ slot' = e /\ request' = [request EXCEPT ![q] = new]
          /\ job' = [job EXCEPT ![w] = Idle]
      BY <2>3 DEF Send, Done, opVars
    <3>2. new \in Request /\ new.to = e
      BY <2>1 DEF Request, Job
    <3> HIDE DEF new
    <3>3. /\ request'[q] = new /\ request' \in [Requests -> Request \union {None}]
          /\ \A x \in Requests : x # q => request'[x] = request[x]
      BY <2>1, <3>1, <3>2 DEF IInv, TypeOK
    <3>4. new # None
      BY <3>2, ConsumerAssumption
    <3>5. job'[w] = Idle /\ (\A v \in Worker : v # w => job'[v] = job[v]) /\ Idle \in Job
      BY <3>1 DEF IInv, TypeOK, Idle, Job, PCs
    <3>6. TypeOK'
      BY <2>1, <3>1, <3>3, <3>5 DEF IInv, TypeOK
    <3>7. SentTo \subseteq SentTo' /\ e.op \in SentTo'
      BY <2>1, <3>2, <3>3, <3>4 DEF SentTo
    <3>8. /\ Idle.r = None /\ Idle.ep = None /\ Idle.pc \notin Begins \union Completes
          /\ Idle.pc \notin {"nonce", "verify"} /\ None \notin Requests
      BY ConsumerAssumption DEF Idle, Begins, Completes
    <3>9. EndpointsDiscovered'
      BY <2>1, <3>1, <3>2, <3>3, <3>5, <3>7, <3>8 DEF IInv, EndpointsDiscovered
    <3>10. BeginsFresh'
      BY <1>2, <3>3, <3>5, <3>8 DEF IInv, BeginsFresh
    <3> QED BY <3>1, <3>5, <3>6, <3>7, <3>8, <3>9, <3>10, NoClaimKeeps
  <2> QED BY <2>2, <2>3, <1>2 DEF Begin, BeginLookup, Begins
<1> QED BY <1>1, <1>2 DEF Begin, Negotiate, StoreAssociation, Send, Begins

LEMMA AnswerRequestKeeps ==
  ASSUME IInv, NEW r \in Responses, NEW q \in Requests, NEW m \in Answers,
         AnswerRequest(r, q, m)
  PROVE  IInv'
<1> DEFINE nonce == IF m.ver = 1 THEN q ELSE r
<1>1. nonce \in (IF m.ver = 1 THEN Requests ELSE {}) \union {r}
  OBVIOUS
<1>2. Sign(r, m, nonce, request[q].handle)
  BY DEF AnswerRequest
<1>3. request[q].handle \in BOOLEAN
  BY DEF AnswerRequest, IInv, TypeOK, Request
<1> QED BY <1>1, <1>2, <1>3, SignKeeps

LEMMA AssertUnsolicitedKeeps ==
  ASSUME IInv, NEW r \in Responses, NEW m \in Unsolicited, AssertUnsolicited(r, m)
  PROVE  IInv'
<1>1. Sign(r, m, r, m.signer \in made)
  BY DEF AssertUnsolicited
<1>2. (m.signer \in made) \in BOOLEAN
  OBVIOUS
<1>3. r \in (IF m.ver = 1 THEN Requests ELSE {}) \union {r}
  OBVIOUS
<1> QED BY <1>1, <1>2, <1>3, SignKeeps

\* Associations expire, and other modes clear the slot.
LEMMA LapseKeeps ==
  ASSUME IInv, (\E op \in OPs : RPExpires(op)) \/ CompleteOther
  PROVE  IInv'
<1>1. CASE \E op \in OPs : RPExpires(op)
  <2>1. /\ UNCHANGED <<kind, slot, made, request, response, burnt, confirmed, nonces, job, accepts>>
        /\ shared' \in [OPs -> {"none", "live", "expired"}]
    BY <1>1 DEF RPExpires, sentVars, opVars, IInv, TypeOK
  <2>2. TypeOK'
    BY <2>1 DEF IInv, TypeOK
  <2>3. EndpointsDiscovered'
    BY <2>1 DEF IInv, EndpointsDiscovered, SentTo
  <2> QED BY <2>1, <2>2, <2>3, ElsewhereKeeps
<1>2. CASE CompleteOther
  BY <1>2, ElsewhereKeeps
     DEF CompleteOther, sentVars, opVars, IInv, TypeOK, EndpointsDiscovered, SentTo
<1> QED BY <1>1, <1>2

LEMMA InitHolds == Init => IInv
<1> SUFFICES ASSUME Init PROVE IInv
  OBVIOUS
<1>1. /\ Idle \in Job /\ Idle.ep = None
      /\ Idle.pc \notin Begins \union Completes \union {"nonce", "verify"}
  BY DEF Idle, Job, PCs, Begins, Completes
<1>2. TypeOK
  BY <1>1 DEF Init, TypeOK, Often
<1>3. \A p \in Words : ~(accepts[p] > 0)
  BY DEF Init
<1>4. \A w \in Worker : job[w] = Idle /\ ~Claims(w)
  BY <1>1 DEF Init, Claims
<1>5. EndpointsDiscovered /\ BeginsFresh /\ ResponsesFormed /\ JobsAnswered /\ JobsChecked
  BY <1>1, <1>4 DEF Init, EndpointsDiscovered, BeginsFresh, ResponsesFormed, JobsAnswered,
                    JobsChecked
<1>6. AcceptsAnswered /\ NoncesVerified /\ DumbNeedsConfirmation /\ SuccessVouched
  BY <1>3 DEF Init, AcceptsAnswered, NoncesVerified, DumbNeedsConfirmation, SuccessVouched
<1>7. ClaimsUsed /\ ClaimsApart /\ AcceptsUsed /\ AcceptsApart /\ AcceptsOnce
  BY <1>3, <1>4 DEF ClaimsUsed, ClaimsApart, AcceptsUsed, AcceptsApart, AcceptsOnce
<1> QED BY <1>2, <1>5, <1>6, <1>7 DEF IInv

LEMMA NextKeeps == IInv /\ [Next]_vars => IInv'
<1> SUFFICES ASSUME IInv, [Next]_vars PROVE IInv'
  OBVIOUS
<1>1. CASE \E r \in Responses, q \in Requests, m \in Answers : AnswerRequest(r, q, m)
  BY <1>1, AnswerRequestKeeps
<1>2. CASE \E r \in Responses, m \in Unsolicited : AssertUnsolicited(r, m)
  BY <1>2, AssertUnsolicitedKeeps
<1>3. CASE (\E op \in OPs : RPExpires(op)) \/ CompleteOther
  BY <1>3, LapseKeeps
<1>4. CASE \E w \in Worker : Begin(w)
  BY <1>4, BeginKeeps
<1>5. CASE \E w \in Worker : Complete(w)
  BY <1>5, CompleteIdResKeeps, CheckSignatureKeeps, CheckAuthLostKeeps, CheckAuthKeeps,
     CheckNonceKeeps, VerifyDiscoveryKeeps DEF Complete
<1>6. CASE UNCHANGED vars
  <2>1. TypeOK' /\ EndpointsDiscovered'
    BY <1>6 DEF vars, IInv, TypeOK, EndpointsDiscovered, SentTo
  <2> QED BY <1>6, <2>1, ElsewhereKeeps DEF vars
<1> QED BY <1>1, <1>2, <1>3, <1>4, <1>5, <1>6 DEF Next

\* The inductive invariant.
THEOREM Inductive == Spec => []IInv
BY InitHolds, NextKeeps, PTL DEF Spec

-----------------------------------------------------------------------------
(* What it says to the application.                                        *)

\* begin, complete and the OPs keep every variable in its set.
THEOREM TypeCorrect == Spec => []TypeOK
<1>1. IInv => TypeOK
  BY DEF IInv
<1> QED BY <1>1, Inductive, PTL

\* On the word of one server complete answers SUCCESS to a positive
\* assertion once, with a store that all URLs are good for but nil, and
\* without a store if that server is the signer.
THEOREM ConsumerAcceptsOnce == Spec => []AcceptedOnce
<1>1. IInv => AcceptedOnce
  <2> SUFFICES ASSUME IInv, NEW p \in Words, Guarded(p) PROVE accepts[p] <= 1
    BY DEF AcceptedOnce, Guarded
  <2>1. accepts[p] \in 0 .. 2
    BY DEF IInv, TypeOK, Often
  <2>2. accepts[p] > 0 => accepts[p] = 1
    BY DEF IInv, AcceptsOnce
  <2> QED BY <2>1, <2>2
<1> QED BY <1>1, Inductive, PTL

\* With any store, an OpenID 1 nonce is good for one SUCCESS, whoever
\* answers with it and whoever is asked.
THEOREM ConsumerRequestOnce == Spec => []RequestUsedOnce
<1>1. IInv => RequestUsedOnce
  <2> SUFFICES ASSUME IInv, NEW p \in Words, NEW s \in Words,
                      kind # "none", accepts[p] > 0, accepts[s] > 0,
                      response[p[1]].ver = 1, response[s[1]].ver = 1,
                      response[p[1]].nonce = response[s[1]].nonce
               PROVE  p = s /\ accepts[p] = 1
    BY DEF RequestUsedOnce
  <2>1. Guarded(p) /\ Guarded(s)
    BY ConsumerAssumption DEF Guarded, IInv, TypeOK
  <2>2. Key(p) = Key(s)
    BY DEF Key
  <2> QED BY <2>1, <2>2 DEF IInv, AcceptsApart, AcceptsOnce, Same
<1> QED BY <1>1, Inductive, PTL

\* Whichever endpoint another tab left in the session, discovery of the
\* identifier names the server that the response names, and the server whose
\* word was taken is one the session was sent to, or that one.
THEOREM ConsumerVouched == Spec => []SuccessVouched
<1>1. IInv => SuccessVouched
  BY DEF IInv
<1> QED BY <1>1, Inductive, PTL

\* No SUCCESS on the word of a server that neither shares the key nor has
\* said is_valid:true.
THEOREM ConsumerDumb == Spec => []DumbNeedsConfirmation
<1>1. IInv => DumbNeedsConfirmation
  BY DEF IInv
<1> QED BY <1>1, Inductive, PTL

\* A nonce in the store is that of a response that a server's word counted
\* for, filed under that server.
THEOREM ConsumerNonces == Spec => []NoncesVerified
<1>1. IInv => NoncesVerified
  BY DEF IInv
<1> QED BY <1>1, Inductive, PTL
=============================================================================
