----------------------------- MODULE Negotiation -----------------------------
(***************************************************************************)
(* A relying party negotiates an association with an OP:                   *)
(* AssociationManager#negotiate_association on one side, the associate     *)
(* request of OpenID::Server on the other, HTTP between them.              *)
(*                                                                         *)
(* The RP asks for its first choice; told that the type is unsupported, it *)
(* asks once more for the OP's preference, if it allows that itself.  It   *)
(* ends with an association, with nil (it then goes on without one), or    *)
(* with an exception that leaves negotiate_association.                    *)
(*                                                                         *)
(* The OP is this library's, or (library = FALSE) any program that answers *)
(* HTTP, which may send every reply in Replies.  Keys and Diffie-Hellman   *)
(* values are abstracted to whether the reply carries them (whole).        *)
(*                                                                         *)
(* Bounds: the two negotiators and the kind of OP are drawn from the       *)
(* finite set Settings.                                                    *)
(***************************************************************************)
EXTENDS Integers, Sequences

CONSTANTS
  Settings,     \* what rpTypes, opTypes and library may be
  None          \* nil, and the place of a missing field

AssocTypes == {"HMAC-SHA1", "HMAC-SHA256"}
SessionTypes == {"no-encryption", "DH-SHA1", "DH-SHA256"}

\* AssociationNegotiator.get_session_types
GetSessionTypes(assoc) ==
  IF assoc = "HMAC-SHA1" THEN {"DH-SHA1", "no-encryption"}
                         ELSE {"DH-SHA256", "no-encryption"}

\* allowed_types= and add_allowed_type let only such pairs in.
Pairs == {pair \in AssocTypes \X SessionTypes : pair[2] \in GetSessionTypes(pair[1])}

\* allowed_assoc_types of the session classes, the same on both sides.
AllowedAssocTypes(session) ==
  {assoc \in AssocTypes : session \in GetSessionTypes(assoc)}

\* How negotiate_association can end: with an association of some types,
\* with nil or with an exception.
Reasons == {"", "unusable", "refused", "malformed", "status",
            "ArgumentError", "KVPostNetworkError", "InvalidOpenIDNamespace"}
Outcomes ==
  [is : {"assoc", "nil", "raise"}, why : Reasons,
   type : AssocTypes \union {None}, session : SessionTypes \union {None}]

ASSUME NegotiationAssumption ==
  /\ Settings \subseteq [rp : Seq(Pairs), op : Seq(Pairs), library : BOOLEAN]
  /\ None \notin AssocTypes \union SessionTypes \union Outcomes

VARIABLES
  rpTypes,  \* the RP's negotiator: its allowed_types, the preferred one first
  opTypes,  \* the OP's negotiator
  library,  \* is the OP this library's?
  compat,   \* compatibility_mode: the RP speaks OpenID 1
  pc,       \* "start", "asked" (request under way), "replied", "done"
  asked,    \* the pair of the last request
  tries,    \* how many requests were sent
  reply,    \* the last reply
  made,     \* the types of the associations the OP has created, in order
  result    \* None, or [is |-> "assoc", "nil" or "raise", why, type, session]

config == <<rpTypes, opTypes, library, compat>>
vars == <<rpTypes, opTypes, library, compat, pc, asked, tries, reply, made, result>>

Allowed(types) == {types[i] : i \in 1..Len(types)}
Preferred(types) == IF types = <<>> THEN <<None, None>> ELSE types[1]

\* An HTTP response whose body is a message in KV form.  ns "bad" stands for
\* a body that Message refuses; session None for an absent field.
Reply(code, ns, is, assoc, session, whole) ==
  [code |-> code, ns |-> ns, is |-> is,
   assoc |-> assoc, session |-> session, whole |-> whole]

Replies ==
  [code : {200, 400, 500}, ns : {"1", "2", "bad"},
   is : {"association", "unsupported-type", "error"},
   assoc : AssocTypes \union {None}, session : SessionTypes \union {None},
   whole : BOOLEAN]

Outcome(is, why, pair) == [is |-> is, why |-> why, type |-> pair[1], session |-> pair[2]]
Nothing == <<None, None>>

Init ==
  /\ \E s \in Settings : rpTypes = s.rp /\ opTypes = s.op /\ library = s.library
  /\ compat \in BOOLEAN
  /\ pc = "start"
  /\ asked = Nothing
  /\ tries = 0
  /\ reply = None
  /\ made = <<>>
  /\ result = None

Ask(pair) ==
  /\ pc' = "asked"
  /\ asked' = pair
  /\ tries' = tries + 1
  /\ UNCHANGED <<reply, made, result>>

Finish(outcome) ==
  /\ pc' = "done"
  /\ result' = outcome
  /\ UNCHANGED <<asked, tries, reply, made>>

\* get_allowed_type of an empty negotiator is nil, which create_session
\* does not know.
Begin ==
  /\ pc = "start"
  /\ IF rpTypes = <<>>
       THEN Finish(Outcome("raise", "ArgumentError", Nothing))
       ELSE Ask(Preferred(rpTypes))
  /\ UNCHANGED config

\* Mutant: the OP looks at the association type alone.
OpenIDAssociateAnySession ==
  /\ library
  /\ pc = "asked"
  /\ pc' = "replied"
  /\ IF \E s \in SessionTypes : <<asked[1], s>> \in Allowed(opTypes)
       THEN /\ made' = Append(made, asked[1])
            /\ reply' = Reply(200, IF compat THEN "1" ELSE "2", "association",
                              asked[1], asked[2], TRUE)
       ELSE /\ made' = made
            /\ reply' = Reply(400, "1", "error", None, None, TRUE)
  /\ UNCHANGED <<asked, tries, result>>
  /\ UNCHANGED config

(***************************************************************************)
(* The OP of this library.  A request for a pair it does not allow is a    *)
(* ProtocolError in OpenID 1, encoded with status 400; in OpenID 2 it is   *)
(* an ordinary response, which the Encoder sends with status 200.          *)
(***************************************************************************)
OpenIDAssociate ==
  /\ library
  /\ pc = "asked"
  /\ pc' = "replied"
  /\ \/ /\ asked \in Allowed(opTypes)
        /\ made' = Append(made, asked[1])
        /\ reply' = Reply(200, IF compat THEN "1" ELSE "2", "association", asked[1],
                          IF compat /\ asked[2] = "no-encryption" THEN None ELSE asked[2],
                          TRUE)
     \/ /\ asked \notin Allowed(opTypes)
        /\ compat
        /\ made' = made
        /\ reply' = Reply(400, "1", "error", None, None, TRUE)
     \/ /\ asked \notin Allowed(opTypes)
        /\ ~compat
        /\ made' = made
        /\ reply' = Reply(200, "2", "unsupported-type",
                          Preferred(opTypes)[1], Preferred(opTypes)[2], TRUE)
  /\ UNCHANGED <<asked, tries, result>>
  /\ UNCHANGED config

OtherReply(r) ==
  /\ ~library
  /\ pc = "asked"
  /\ pc' = "replied"
  /\ reply' = r
  /\ UNCHANGED <<asked, tries, made, result>>
  /\ UNCHANGED config

\* The POST fails: make_kv_post raises KVPostNetworkError, which nothing in
\* the AssociationManager rescues.
NetworkError ==
  /\ pc = "asked"
  /\ Finish(Outcome("raise", "KVPostNetworkError", Nothing))
  /\ UNCHANGED config

(***************************************************************************)
(* from_http_response, extract_association and the rescue clauses.         *)
(***************************************************************************)

\* Mutant: OpenID 1 gets no default session type.
ReplySessionNoDefault == reply.session

\* The session type the reply is about; OpenID 1 may leave it out.
ReplySession ==
  IF reply.ns = "1" /\ reply.session = None THEN "no-encryption" ELSE reply.session

\* Mutant: the session type of the reply is not compared.
SessionMatchesAny == TRUE

\* In OpenID 1 any request may be answered in the clear.
SessionMatches ==
  \/ ReplySession = asked[2]
  \/ reply.ns = "1" /\ ReplySession = "no-encryption"

Extracted ==
  /\ reply.is = "association"
  /\ reply.whole
  /\ SessionMatches
  /\ reply.assoc \in AllowedAssocTypes(ReplySession)

Accepted == Outcome("assoc", "", <<reply.assoc, ReplySession>>)

\* extract_supported_association_type: what the RP may ask for next.
Offered == <<reply.assoc, reply.session>>

SupportedType ==
  /\ reply.is = "unsupported-type"
  /\ reply.ns # "1"
  /\ Offered \in Allowed(rpTypes)

\* Mutant: an error makes the RP ask the same again.
ReceiveRetries ==
  /\ pc = "replied"
  /\ IF reply.code = 400
       THEN /\ pc' = "asked"
            /\ UNCHANGED <<asked, tries, reply, made, result>>
       ELSE IF Extracted
              THEN Finish(Accepted)
              ELSE Finish(Outcome("nil", "unusable", Nothing))
  /\ UNCHANGED config

Receive ==
  /\ pc = "replied"
  /\ \/ \* InvalidOpenIDNamespace is rescued around the first attempt; the
        \* second one runs inside a rescue clause of the same begin.
        /\ reply.ns = "bad"
        /\ Finish(IF tries = 1 THEN Outcome("nil", "malformed", Nothing)
                  ELSE Outcome("raise", "InvalidOpenIDNamespace", Nothing))
     \/ \* ServerError
        /\ reply.ns # "bad" /\ reply.code = 400
        /\ IF tries = 1 /\ SupportedType
             THEN Ask(Offered)
             ELSE Finish(Outcome("nil", "refused", Nothing))
     \/ \* HTTPStatusError
        /\ reply.ns # "bad" /\ reply.code \notin {200, 400}
        /\ Finish(Outcome("nil", "status", Nothing))
     \/ /\ reply.ns # "bad" /\ reply.code = 200
        /\ IF Extracted
             THEN Finish(Accepted)
             ELSE Finish(Outcome("nil", "unusable", Nothing))
  /\ UNCHANGED config

Done == pc = "done" /\ UNCHANGED vars

Next ==
  \/ Begin
  \/ OpenIDAssociate
  \/ \E r \in Replies : OtherReply(r)
  \/ NetworkError
  \/ Receive
  \/ Done

\* The fetcher has a timeout, so a request ends one way or the other.
FairSpec == Init /\ [][Next]_vars /\ WF_vars(Next)

-----------------------------------------------------------------------------
TypeOK ==
  /\ [rp |-> rpTypes, op |-> opTypes, library |-> library] \in Settings
  /\ compat \in BOOLEAN
  /\ pc \in {"start", "asked", "replied", "done"}
  /\ asked \in Pairs \union {Nothing}
  /\ tries \in 0..2
  /\ reply \in Replies \union {None}
  /\ made \in Seq(AssocTypes)
  /\ (result # None) <=> (pc = "done")

Got == result # None /\ result.is = "assoc"

\* With an OP of this library, what the RP ends with is the last association
\* the OP has made, of a type and a session that both negotiators allow.
PairAgreed ==
  library /\ Got =>
    /\ <<result.type, result.session>> \in Allowed(rpTypes) \intersect Allowed(opTypes)
    /\ made # <<>>
    /\ made[Len(made)] = result.type

\* The RP's first choice, when the OP allows it, is what they agree on,
\* in OpenID 1 as in OpenID 2, unless the connection fails.
FirstChoiceHonoured ==
  library /\ pc = "done" /\ Preferred(rpTypes) \in Allowed(opTypes) =>
    \/ Got /\ <<result.type, result.session>> = Preferred(rpTypes)
    \/ result.why = "KVPostNetworkError"

\* Whatever an OP answers in OpenID 2, the secret travels in the session the
\* RP asked for, and the RP asks only for pairs its negotiator allows.
SessionAsAsked ==
  /\ asked # Nothing => asked \in Allowed(rpTypes)
  /\ Got /\ reply.ns = "2" => result.session = asked[2]

\* negotiate_association returns or raises, after two requests at most.
Terminates == <>(pc = "done" /\ tries <= 2)

\* "Attempt to create an association from the assoc_type and session_type
\* that the server told us it supported" (associationmanager.rb): an RP and
\* an OP of this library that have a pair in common, the OP's preference,
\* end with an association.
PreferenceAgreed ==
  library /\ pc = "done" /\ ~compat /\ Preferred(opTypes) \in Allowed(rpTypes) =>
    Got \/ result.why = "KVPostNetworkError"
=============================================================================
