------------------------------ MODULE Consumer ------------------------------
(***************************************************************************)
(* OpenID::Consumer in one session of a relying party: begin hands the     *)
(* user over to an OP, complete (with IdResHandler) judges what comes      *)
(* back.  The user works in several tabs and may reload a page, so several *)
(* requests of the session run at a time and a response may be completed   *)
(* more than once; what they share is the last_requested_endpoint slot of  *)
(* the session and the store.                                              *)
(*                                                                         *)
(* Both calls are split where they talk to something else: begin looks for *)
(* an association, negotiates one over the network, stores it and writes   *)
(* the slot at its end; complete reads the slot at its start, then come    *)
(* the store, the server (check_authentication), the store again (the      *)
(* nonce), and discovery; at the end the slot is cleared.                  *)
(*                                                                         *)
(* The server that is asked about a signature is that of the endpoint in   *)
(* the session; discovery is compared with the op_endpoint the response    *)
(* names, in OpenID 1 with no server at all.  So a response has three      *)
(* servers that need not agree: who signed it, whom it names, and who is   *)
(* asked.  A word is a response with the server that is asked about it.    *)
(*                                                                         *)
(* OPs are external.  An OP confirms a dumb signature of its own once (see *)
(* Signatory for how the OP of this library does) and answers as it likes  *)
(* about those of others; Answers and Unsolicited say what OPs assert.     *)
(* Discovery is external, too: Services says what it finds.  Identifiers   *)
(* are not delegated, so an endpoint is a protocol version, a claimed      *)
(* identifier (None for an OP identifier) and a server.  URLs, return_to   *)
(* arguments and the list of signed fields are abstracted: a response      *)
(* arrives unaltered at the URL it was meant for.                          *)
(*                                                                         *)
(* Bounds: Responses and Requests name how many of each there may be, an   *)
(* OP shares one association, and accepts counts up to Often.              *)
(***************************************************************************)
EXTENDS Integers

CONSTANTS
  Worker,     \* the processes or threads that serve the session's requests
  OPs,        \* OP endpoint URLs
  Claimed,    \* claimed identifiers
  Services,   \* Services[c]: the endpoints discovery finds for c
  Choices,    \* the endpoints begin may come up with
  Sharers,    \* the OPs that agree to associations
  Answers,    \* what OPs assert when they are asked
  Unsolicited,\* what they assert on their own
  Requests,   \* names of checkid requests
  Responses,  \* names of positive assertions
  StoreKinds, \* of "none" (stateless), "memory" and "file" (also: memcache)
  None

Endpoint == [ver : {1, 2}, cid : Claimed \union {None}, op : OPs]

\* What an assertion says: signer made it, op is the op_endpoint it names
\* (OpenID 1 has no such field), and cid the identifier, None if it has none.
Claim == [ver : {1, 2}, signer : OPs, op : OPs, cid : Claimed \union {None}]

\* What a checkid request says: handle tells whether it cites the shared
\* association.
Request == [to : Endpoint, handle : BOOLEAN]

Words == Responses \X OPs
Often == 2    \* stands for any larger number of times

ASSUME ConsumerAssumption ==
  /\ None \notin Endpoint /\ None \notin Request
  /\ None \notin OPs \union Claimed \union Requests \union Responses
  /\ Requests \intersect Responses = {}
  /\ Services \in [Claimed -> SUBSET Endpoint]
  /\ \A c \in Claimed : \A e \in Services[c] : e.cid = c
  /\ Choices \subseteq {e \in Endpoint : e.cid = None => e.ver = 2}
  /\ \A e \in Choices : e.cid # None => e \in Services[e.cid]
  /\ Answers \union Unsolicited \subseteq {m \in Claim : m.cid = None => m.ver = 2}
  /\ Sharers \subseteq OPs
  /\ StoreKinds \subseteq {"none", "memory", "file"}

VARIABLES
  kind,     \* the kind of store the RP was set up with
  slot,     \* last_requested_endpoint of the session
  shared,   \* shared[op]: the RP's association, "none", "live" or "expired"
  made,     \* the OPs an association was negotiated with
  request,  \* request[q]: what was asked of an OP, or None
  response, \* response[r]: what an OP asserted, or None
  burnt,    \* the responses whose signer has answered check_authentication
  confirmed,\* the words that were is_valid:true
  nonces,   \* the nonces in the store, under the server URL they are kept by
  job,      \* job[w]: the call w is serving
  accepts   \* accepts[p]: how often complete answered SUCCESS on the word p

vars == <<kind, slot, shared, made, request, response, burnt, confirmed, nonces, job, accepts>>
sentVars == <<kind, request, response>>
opVars == <<made, burnt, confirmed>>
rpVars == <<slot, shared, nonces, accepts>>

\* A positive assertion.  nonce: response_nonce, or in OpenID 1 the rp_nonce
\* of return_to.  by: the key it is signed with.
Assertion == [ver : {1, 2}, signer : OPs, op : OPs, cid : Claimed \union {None},
              nonce : Requests \union Responses, by : {"shared", "dumb"}]

\* A call of begin serves a request and has its endpoint and association, a
\* call of complete a response and the endpoint it found in the session.
Begins == {"negotiate", "store", "send"}
PCs == {"idle", "signature", "checkAuth", "nonce", "verify"} \union Begins
Job == [pc : PCs, r : Responses \union Requests \union {None},
        ep : Endpoint \union {None}, assoc : BOOLEAN]
Idle == [pc |-> "idle", r |-> None, ep |-> None, assoc |-> FALSE]

Goto(w, l) == job' = [job EXCEPT ![w].pc = l]
Done(w) == job' = [job EXCEPT ![w] = Idle]

Init ==
  /\ kind \in StoreKinds
  /\ slot = None
  /\ shared = [op \in OPs |-> "none"]
  /\ made = {}
  /\ request = [q \in Requests |-> None]
  /\ response = [r \in Responses |-> None]
  /\ burnt = {}
  /\ confirmed = {}
  /\ nonces = {}
  /\ job = [w \in Worker |-> Idle]
  /\ accepts = [p \in Words |-> 0]

(***************************************************************************)
(* begin_without_discovery: get_association, then the request; at the end  *)
(* the slot is overwritten.                                                *)
(***************************************************************************)
BeginLookup(w, q, e) ==
  LET found == kind # "none" /\ shared[e.op] = "live"
      next == IF found \/ kind = "none" THEN "send" ELSE "negotiate"
  IN
  /\ job[w].pc = "idle"
  /\ request[q] = None
  /\ \A v \in Worker : job[v].r # q
  /\ job' = [job EXCEPT ![w] = [pc |-> next, r |-> q, ep |-> e, assoc |-> found]]
  /\ UNCHANGED sentVars
  /\ UNCHANGED opVars
  /\ UNCHANGED rpVars

\* negotiate_association: the OP agrees, or it does not, or an exception
\* escapes from begin.
Negotiate(w) ==
  LET op == job[w].ep.op IN
  /\ job[w].pc = "negotiate"
  /\ \/ /\ op \in Sharers \ made
        /\ made' = made \union {op}
        /\ job' = [job EXCEPT ![w] =
             [pc |-> "store", r |-> job[w].r, ep |-> job[w].ep, assoc |-> TRUE]]
     \/ Goto(w, "send") /\ UNCHANGED made
     \/ Done(w) /\ UNCHANGED made
  /\ UNCHANGED <<burnt, confirmed>>
  /\ UNCHANGED sentVars
  /\ UNCHANGED rpVars

StoreAssociation(w) ==
  /\ job[w].pc = "store"
  /\ shared' = [shared EXCEPT ![job[w].ep.op] = "live"]
  /\ Goto(w, "send")
  /\ UNCHANGED <<slot, nonces, accepts>>
  /\ UNCHANGED sentVars
  /\ UNCHANGED opVars

\* An OpenID 2 request never cites the association, see
\* CheckIDRequest#get_message.
Send(w) ==
  LET e == job[w].ep IN
  /\ job[w].pc = "send"
  /\ request' = [request EXCEPT ![job[w].r] =
       [to |-> e, handle |-> e.ver = 1 /\ job[w].assoc]]
  /\ slot' = e
  /\ Done(w)
  /\ UNCHANGED <<kind, response, shared, nonces, accepts>>
  /\ UNCHANGED opVars

Begin(w) ==
  \/ \E q \in Requests, e \in Choices : BeginLookup(w, q, e)
  \/ Negotiate(w)
  \/ StoreAssociation(w)
  \/ Send(w)

(***************************************************************************)
(* External: an OP signs an assertion, for a request or on its own, with a *)
(* key it shares, or with its own.  (It does so if the association is      *)
(* gone.)  In an answer to an OpenID 1 request, return_to brings back the  *)
(* nonce of the RP; otherwise the nonce is the OP's.                       *)
(***************************************************************************)
Sign(r, m, nonce, shares) ==
  /\ response[r] = None
  /\ \E key \in {"dumb"} \union (IF shares THEN {"shared"} ELSE {}) :
       response' = [response EXCEPT ![r] =
         [ver |-> m.ver, signer |-> m.signer, op |-> m.op, cid |-> m.cid,
          nonce |-> nonce, by |-> key]]
  /\ UNCHANGED <<kind, request, job>>
  /\ UNCHANGED opVars
  /\ UNCHANGED rpVars

AnswerRequest(r, q, m) ==
  /\ request[q] # None
  /\ m.ver = request[q].to.ver
  /\ m.signer = request[q].to.op
  /\ Sign(r, m, IF m.ver = 1 THEN q ELSE r, request[q].handle)

AssertUnsolicited(r, m) == Sign(r, m, r, m.signer \in made)

\* The RP's side expires: a memory store keeps it, others hide it.
RPExpires(op) ==
  /\ shared[op] = "live"
  /\ shared' = [shared EXCEPT ![op] = IF kind = "memory" THEN "expired" ELSE "none"]
  /\ UNCHANGED <<slot, nonces, job, accepts>>
  /\ UNCHANGED sentVars
  /\ UNCHANGED opVars

(***************************************************************************)
(* complete.                                                               *)
(***************************************************************************)

\* cleanup_last_requested_endpoint, whatever the answer.
Answer(w) ==
  /\ Done(w)
  /\ slot' = None
  /\ UNCHANGED sentVars

Fail(w) ==
  /\ Answer(w)
  /\ UNCHANGED accepts

\* An exception that is no OpenIDError: the slot stays as it is.
Raise(w) ==
  /\ Done(w)
  /\ UNCHANGED <<slot, accepts>>
  /\ UNCHANGED sentVars

Proceed(w, l) ==
  /\ Goto(w, l)
  /\ UNCHANGED <<slot, accepts>>
  /\ UNCHANGED sentVars

\* Modes cancel, error, setup_needed and unknown ones.
CompleteOther ==
  /\ slot # None
  /\ slot' = None
  /\ UNCHANGED <<shared, nonces, job, accepts>>
  /\ UNCHANGED sentVars
  /\ UNCHANGED opVars

\* complete_id_res: a handler for the endpoint found in the session.
CompleteIdRes(w, r) ==
  /\ job[w].pc = "idle"
  /\ response[r] # None
  /\ job' = [job EXCEPT ![w] = [pc |-> "signature", r |-> r, ep |-> slot, assoc |-> FALSE]]
  /\ UNCHANGED sentVars
  /\ UNCHANGED opVars
  /\ UNCHANGED rpVars

\* IdResHandler#server_url during check_signature: without an endpoint, an
\* OpenID 2 response names its own server.
SignatureURL(w) ==
  LET a == response[job[w].r] IN
  IF job[w].ep # None THEN job[w].ep.op
  ELSE IF a.ver = 2 THEN a.op ELSE None

\* The association the store returns for that URL and the response's handle.
AssocFor(w) ==
  LET a == response[job[w].r] IN
  IF kind # "none" /\ a.by = "shared" /\ SignatureURL(w) = a.signer
    THEN shared[a.signer] ELSE "none"

\* Mutant: without an association the response is taken as it is.
CheckSignatureTrusts(w) ==
  /\ job[w].pc = "signature"
  /\ IF AssocFor(w) = "expired" THEN Fail(w) ELSE Proceed(w, "nonce")
  /\ UNCHANGED <<shared, nonces>>
  /\ UNCHANGED opVars

CheckSignature(w) ==
  /\ job[w].pc = "signature"
  /\ \/ /\ SignatureURL(w) = None /\ kind = "file"
        /\ Raise(w)
     \/ /\ SignatureURL(w) # None \/ kind # "file"
        /\ \/ AssocFor(w) = "none" /\ Proceed(w, "checkAuth")
           \/ AssocFor(w) = "expired" /\ Fail(w)
           \/ AssocFor(w) = "live" /\ Proceed(w, "nonce")
  /\ UNCHANGED <<shared, nonces>>
  /\ UNCHANGED opVars

\* check_auth: the POST fails, or the server at SignatureURL answers.
CheckAuthLost(w) ==
  /\ job[w].pc = "checkAuth"
  /\ Fail(w)
  /\ LET r == job[w].r IN
     \/ UNCHANGED burnt
     \/ SignatureURL(w) = response[r].signer /\ burnt' = burnt \union {r}
  /\ UNCHANGED <<shared, made, confirmed, nonces>>

\* External: what the server says.  About a signature of its own it says
\* is_valid:true for a dumb one the first time it is asked.
Says(w, valid) ==
  LET r == job[w].r IN
  SignatureURL(w) = response[r].signer =>
    valid = (response[r].by = "dumb" /\ r \notin burnt)

\* External: it may name a handle it shares as invalidate_handle.
Invalidates(w) ==
  \/ UNCHANGED shared
  \/ kind # "none" /\ shared' = [shared EXCEPT ![SignatureURL(w)] = "none"]

Burns(w) == burnt' = IF SignatureURL(w) = response[job[w].r].signer
                       THEN burnt \union {job[w].r} ELSE burnt

\* Mutant: is_valid is not looked at.
CheckAuthIgnored(w) ==
  /\ job[w].pc = "checkAuth"
  /\ SignatureURL(w) # None
  /\ Burns(w)
  /\ Invalidates(w)
  /\ Proceed(w, "nonce")
  /\ confirmed' = IF Says(w, TRUE)
                   THEN confirmed \union {<<job[w].r, SignatureURL(w)>>} ELSE confirmed
  /\ UNCHANGED <<made, nonces>>

\* process_check_auth_response: invalidate_handle is obeyed before is_valid
\* is looked at; whoever is asked is believed.
CheckAuth(w) ==
  /\ job[w].pc = "checkAuth"
  /\ SignatureURL(w) # None
  /\ Burns(w)
  /\ Invalidates(w)
  /\ \/ /\ Says(w, TRUE)
        /\ Proceed(w, "nonce")
        /\ confirmed' = confirmed \union {<<job[w].r, SignatureURL(w)>>}
     \/ Says(w, FALSE) /\ Fail(w) /\ UNCHANGED confirmed
  /\ UNCHANGED <<made, nonces>>

\* The URL check_nonce files the nonce under: the endpoint made up for
\* check_signature is gone again.
NonceURL(w) ==
  IF response[job[w].r].ver = 1 THEN ""
  ELSE IF job[w].ep # None THEN job[w].ep.op ELSE None

\* Mutant: use_nonce looks but does not record.
CheckNonceUnrecorded(w) ==
  /\ job[w].pc = "nonce"
  /\ IF <<NonceURL(w), response[job[w].r].nonce>> \in nonces THEN Fail(w)
                                                              ELSE Proceed(w, "verify")
  /\ UNCHANGED <<shared, nonces>>
  /\ UNCHANGED opVars

CheckNonce(w) ==
  LET used == <<NonceURL(w), response[job[w].r].nonce>> IN
  /\ job[w].pc = "nonce"
  /\ \/ kind = "none" /\ Proceed(w, "verify") /\ UNCHANGED nonces
     \/ kind = "file" /\ NonceURL(w) = None /\ Raise(w) /\ UNCHANGED nonces
     \/ /\ kind = "memory" \/ (kind = "file" /\ NonceURL(w) # None)
        /\ \/ used \in nonces /\ Fail(w) /\ UNCHANGED nonces
           \/ used \notin nonces /\ Proceed(w, "verify") /\ nonces' = nonces \union {used}
  /\ UNCHANGED shared
  /\ UNCHANGED opVars

\* Mutant: the server of the assertion is not compared.
MatchesAnyServer(e, a) == e.ver = a.ver /\ e.cid = a.cid

\* verify_discovery_single; OpenID 1 does not name the server.
Matches(e, a) ==
  /\ e.ver = a.ver
  /\ e.cid = a.cid
  /\ a.ver = 2 => e.op = a.op

Word(w) == <<job[w].r, SignatureURL(w)>>

Succeed(w) ==
  /\ accepts' = [accepts EXCEPT ![Word(w)] = IF @ = 0 THEN 1 ELSE Often]
  /\ Answer(w)

\* verify_discovery_results: an OpenID 2 response without identifiers is
\* good for the server it names; discovery may fail, and is spared when the
\* endpoint of the session matches.
VerifyDiscovery(w) ==
  LET a == response[job[w].r]
      ep == job[w].ep
      preset == ep # None /\ Matches(ep, a)
  IN
  /\ job[w].pc = "verify"
  /\ \/ (a.cid = None \/ preset) /\ Succeed(w)
     \/ a.cid # None /\ ~preset /\ Fail(w)
     \/ /\ a.cid # None /\ ~preset
        /\ \E e \in Services[a.cid] : Matches(e, a)
        /\ Succeed(w)
  /\ UNCHANGED <<shared, nonces>>
  /\ UNCHANGED opVars

Complete(w) ==
  \/ \E r \in Responses : CompleteIdRes(w, r)
  \/ CheckSignature(w)
  \/ CheckAuthLost(w)
  \/ CheckAuth(w)
  \/ CheckNonce(w)
  \/ VerifyDiscovery(w)

Next ==
  \/ \E r \in Responses, q \in Requests, m \in Answers : AnswerRequest(r, q, m)
  \/ \E r \in Responses, m \in Unsolicited : AssertUnsolicited(r, m)
  \/ \E op \in OPs : RPExpires(op)
  \/ CompleteOther
  \/ \E w \in Worker : Begin(w) \/ Complete(w)

Spec == Init /\ [][Next]_vars

-----------------------------------------------------------------------------
TypeOK ==
  /\ kind \in StoreKinds
  /\ slot \in Endpoint \union {None}
  /\ shared \in [OPs -> {"none", "live", "expired"}]
  /\ request \in [Requests -> Request \union {None}]
  /\ response \in [Responses -> Assertion \union {None}]
  /\ made \subseteq OPs
  /\ burnt \subseteq Responses
  /\ confirmed \subseteq Words
  /\ nonces \subseteq (OPs \union {"", None}) \X (Requests \union Responses)
  /\ job \in [Worker -> Job]
  /\ accepts \in [Words -> 0 .. Often]

\* A positive assertion is accepted once on the word of the same server,
\* however often it is loaded and from however many tabs: with a store that
\* files its nonce under that server, and without one as long as it is the
\* signer, who confirms once.
AcceptedOnce ==
  \A p \in Words :
    (\/ kind = "file"
     \/ kind = "none" /\ response[p[1]] # None /\ p[2] = response[p[1]].signer)
    => accepts[p] <= 1

\* "Return true if the nonce has not been used before" (store/interface.rb)
\* is to hold of the memory store as well: no second SUCCESS on the word of
\* the signer there either.
AcceptedOnceAnyStore ==
  \A p \in Words :
    response[p[1]] # None /\ p[2] = response[p[1]].signer => accepts[p] <= 1

\* With a store, an OpenID 1 nonce is good for one SUCCESS, even if the OP
\* answers the checkid request several times (the nonce travels in
\* return_to) and whichever servers are asked.
RequestUsedOnce ==
  \A p, s \in Words :
    (/\ kind # "none" /\ accepts[p] > 0 /\ accepts[s] > 0
     /\ response[p[1]].ver = 1 /\ response[s[1]].ver = 1
     /\ response[p[1]].nonce = response[s[1]].nonce)
    => p = s /\ accepts[p] = 1

\* SUCCESS for a claimed identifier: discovery of it names the server the
\* response names (OpenID 1: some server), and the server that was asked
\* about the signature is one this session was sent to, or in OpenID 2 the
\* one the response names.
SentTo == {request[q].to.op : q \in {x \in Requests : request[x] # None}}
SuccessVouched ==
  \A p \in Words : accepts[p] > 0 =>
    LET a == response[p[1]] IN
    /\ a.cid # None =>
         \E e \in Services[a.cid] : e.ver = a.ver /\ (a.ver = 2 => e.op = a.op)
    /\ p[2] \in SentTo \/ (a.ver = 2 /\ p[2] = a.op)

\* A word counts if the server shares the key of the signature, or has said
\* is_valid:true.
Counts(p) ==
  \/ p[2] = response[p[1]].signer /\ response[p[1]].by = "shared"
  \/ p \in confirmed

\* Whatever is not signed with the key shared with the server that is asked
\* is accepted only after that server has said is_valid:true.
DumbNeedsConfirmation == \A p \in Words : accepts[p] > 0 => Counts(p)

\* A refused response used up no nonce: one in the store belongs to a
\* response that a server's word counted for, and it is filed under "" in
\* OpenID 1, else under that server, or by the memory store under nil if
\* the response named its server itself.
NoncesVerified ==
  \A n \in nonces : \E p \in Words :
    LET a == response[p[1]] IN
    /\ a # None
    /\ a.nonce = n[2]
    /\ Counts(p)
    /\ \/ n[1] = IF a.ver = 1 THEN "" ELSE p[2]
       \/ kind = "memory" /\ a.ver = 2 /\ n[1] = None /\ p[2] = a.op
=============================================================================
