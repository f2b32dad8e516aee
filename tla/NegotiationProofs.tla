-------------------------- MODULE NegotiationProofs --------------------------
(***************************************************************************)
(* Whatever the two negotiators allow, in whatever order, and whatever an  *)
(* OP that is not this library's replies: the RP asks only for what it     *)
(* allows, a secret travels as was asked in OpenID 2, and two sides of     *)
(* this library agree on a pair both allow, the RP's first choice when the *)
(* OP allows it.                                                           *)
(***************************************************************************)
EXTENDS Negotiation, TLAPS

\* The negotiators hold what allowed_types= lets in.
ConfigOK ==
  /\ rpTypes \in Seq(Pairs)
  /\ opTypes \in Seq(Pairs)
  /\ library \in BOOLEAN

\* What is known at each point of the exchange.
ProgressOK ==
  /\ pc = "start" => tries = 0 /\ asked = Nothing
  /\ pc \in {"asked", "replied"} => asked \in Pairs /\ tries \in {1, 2}
  /\ pc = "replied" => reply \in Replies
  /\ result \in Outcomes \union {None}

\* Every request is for a pair the RP's negotiator allows.
AskedAllowed == asked # Nothing => asked \in Allowed(rpTypes)

\* The first request is for the first choice.
FirstAsked == tries = 1 => asked = Preferred(rpTypes)

\* An OP of this library never makes the RP ask again.
AskedOnce == library /\ pc # "start" => tries = 1 \/ rpTypes = <<>>

\* The association the OP of this library hands out, as its reply spells it.
Granted ==
  /\ asked \in Allowed(opTypes)
  /\ made # <<>>
  /\ made[Len(made)] = asked[1]
  /\ reply.code = 200
  /\ reply.ns \in {"1", "2"}
  /\ reply.is = "association"
  /\ reply.assoc = asked[1]
  /\ \/ reply.session = asked[2]
     \/ reply.ns = "1" /\ reply.session = None /\ asked[2] = "no-encryption"
  /\ reply.whole

Refused ==
  /\ asked \notin Allowed(opTypes)
  /\ reply.is # "association"
  /\ reply.code = 400 => reply.ns = "1"

LibraryReply == library /\ pc = "replied" => Granted \/ Refused

Safety == PairAgreed /\ FirstChoiceHonoured /\ SessionAsAsked

IInv ==
  /\ TypeOK
  /\ ConfigOK
  /\ ProgressOK
  /\ AskedAllowed
  /\ FirstAsked
  /\ AskedOnce
  /\ LibraryReply
  /\ Safety

-----------------------------------------------------------------------------
\* A pair is two strings the library knows, and not the pair of two nils.
LEMMA PairParts ==
  ASSUME NEW p \in Pairs
  PROVE  /\ p[1] \in AssocTypes /\ p[2] \in SessionTypes
         /\ p = <<p[1], p[2]>>
         /\ p # Nothing
<1>1. p \in AssocTypes \X SessionTypes
  BY DEF Pairs
<1> QED BY <1>1, NegotiationAssumption DEF Nothing

\* What a negotiator allows are pairs.
LEMMA AllowedArePairs ==
  ASSUME NEW types \in Seq(Pairs)
  PROVE  /\ Allowed(types) \subseteq Pairs
         /\ types # <<>> => Preferred(types) \in Allowed(types)
         /\ types = <<>> => Allowed(types) = {}
<1>1. \A i \in 1..Len(types) : types[i] \in Pairs
  OBVIOUS
<1>2. types # <<>> => 1 \in 1..Len(types)
  OBVIOUS
<1>3. types = <<>> => 1..Len(types) = {}
  BY Z3
<1> QED BY <1>1, <1>2, <1>3 DEF Allowed, Preferred

\* The ways to end without an association.
Failures ==
  {Outcome("raise", "ArgumentError", Nothing), Outcome("raise", "KVPostNetworkError", Nothing),
   Outcome("nil", "malformed", Nothing), Outcome("raise", "InvalidOpenIDNamespace", Nothing),
   Outcome("nil", "refused", Nothing), Outcome("nil", "status", Nothing),
   Outcome("nil", "unusable", Nothing)}

LEMMA FailureKind == Failures \subseteq {o \in Outcomes : o.is # "assoc"}
BY DEF Failures, Outcome, Outcomes, Reasons, Nothing

\* The exchange begins as the invariant says.
LEMMA InitOK == Init => IInv
<1> SUFFICES ASSUME Init PROVE IInv
  OBVIOUS
<1>1. PICK s \in Settings : rpTypes = s.rp /\ opTypes = s.op /\ library = s.library
  BY DEF Init
<1>2. ConfigOK
  BY <1>1, NegotiationAssumption DEF ConfigOK
<1>3. s = [rp |-> rpTypes, op |-> opTypes, library |-> library]
  BY <1>1, NegotiationAssumption
<1>4. TypeOK
  BY <1>1, <1>3 DEF Init, TypeOK
<1> QED BY <1>2, <1>4 DEF Init, IInv, ProgressOK, AskedAllowed, FirstAsked, AskedOnce,
              LibraryReply, Safety, PairAgreed, FirstChoiceHonoured, SessionAsAsked, Got

-----------------------------------------------------------------------------
\* What Ask makes of the invariant: the asked pair is one the RP allows, and the
\* OP, if it is this library's, was not asked before.
LEMMA AskOK ==
  ASSUME IInv, UNCHANGED config, pc \in {"start", "replied"},
         NEW pair \in Allowed(rpTypes), Ask(pair),
         tries \in {0, 1},
         tries = 0 => pair = Preferred(rpTypes),
         library => tries = 0
  PROVE  IInv'
<1>1. pair \in Pairs /\ pair # Nothing
  BY AllowedArePairs, PairParts DEF IInv, ConfigOK
<1>2. Allowed(rpTypes)' = Allowed(rpTypes) /\ Preferred(rpTypes)' = Preferred(rpTypes)
  BY DEF config, Allowed, Preferred
<1>3. result = None
  BY DEF IInv, TypeOK
<1>4. TypeOK'
  BY <1>1, <1>3 DEF Ask, config, IInv, TypeOK
<1>5. ConfigOK'
  BY DEF config, IInv, ConfigOK
<1>6. ProgressOK'
  BY <1>1, <1>3 DEF Ask, IInv, ProgressOK, TypeOK
<1>7. AskedAllowed' /\ FirstAsked' /\ AskedOnce' /\ LibraryReply'
  BY <1>1, <1>2 DEF Ask, config, AskedAllowed, FirstAsked, AskedOnce, LibraryReply
<1>8. Safety'
  BY <1>1, <1>2, <1>3 DEF Ask, config, Safety, PairAgreed, FirstChoiceHonoured, SessionAsAsked, Got
<1> QED BY <1>4, <1>5, <1>6, <1>7, <1>8 DEF IInv

\* What Finish makes of the invariant: the outcome keeps the properties.
LEMMA FinishOK ==
  ASSUME IInv, UNCHANGED config, NEW o \in Outcomes, Finish(o),
         library /\ pc = "start" => rpTypes = <<>>,
         o.is = "assoc" =>
           /\ library => /\ <<o.type, o.session>> \in Allowed(rpTypes) \intersect Allowed(opTypes)
                         /\ made # <<>> /\ made[Len(made)] = o.type
           /\ reply.ns = "2" => o.session = asked[2],
         library /\ Preferred(rpTypes) \in Allowed(opTypes) =>
           \/ o.is = "assoc" /\ <<o.type, o.session>> = Preferred(rpTypes)
           \/ o.why = "KVPostNetworkError"
  PROVE  IInv'
<1>1. o # None
  BY NegotiationAssumption
<1>2. /\ Allowed(rpTypes)' = Allowed(rpTypes) /\ Preferred(rpTypes)' = Preferred(rpTypes)
      /\ Allowed(opTypes)' = Allowed(opTypes)
  BY DEF config, Allowed, Preferred
<1>4. TypeOK'
  BY <1>1 DEF Finish, config, IInv, TypeOK
<1>5. ConfigOK'
  BY DEF config, IInv, ConfigOK
<1>6. ProgressOK'
  BY DEF Finish, IInv, ProgressOK
<1>7. AskedAllowed' /\ FirstAsked' /\ AskedOnce' /\ LibraryReply'
  BY <1>2 DEF Finish, config, IInv, AskedAllowed, FirstAsked, AskedOnce, LibraryReply
<1>8. Safety'
  <2>1. PairAgreed'
    BY <1>2 DEF Finish, config, PairAgreed, Got
  <2>2. FirstChoiceHonoured'
    BY <1>1, <1>2 DEF Finish, config, FirstChoiceHonoured, Got
  <2>3. SessionAsAsked'
    BY <1>2 DEF Finish, IInv, AskedAllowed, SessionAsAsked, Got
  <2> QED BY <2>1, <2>2, <2>3 DEF Safety
<1> QED BY <1>4, <1>5, <1>6, <1>7, <1>8 DEF IInv

LEMMA BeginOK == IInv /\ Begin => IInv'
<1> SUFFICES ASSUME IInv, Begin PROVE IInv'
  OBVIOUS
<1> USE DEF Begin
<1>1. CASE rpTypes = <<>>
  <2> DEFINE o == Outcome("raise", "ArgumentError", Nothing)
  <2>1. o \in Outcomes /\ o.is # "assoc"
    BY FailureKind DEF Failures
  <2>2. Preferred(rpTypes) \notin Allowed(opTypes)
    BY <1>1, AllowedArePairs, PairParts DEF IInv, ConfigOK, Preferred, Nothing
  <2>3. Finish(o) /\ UNCHANGED config
    BY <1>1
  <2> HIDE DEF o
  <2> QED BY <1>1, <2>1, <2>2, <2>3, FinishOK
<1>2. CASE rpTypes # <<>>
  BY <1>2, AskOK, AllowedArePairs DEF IInv, ConfigOK, ProgressOK
<1> QED BY <1>1, <1>2

\* A reply changes what is known of the last request only.
LEMMA ReplyOK ==
  ASSUME IInv, UNCHANGED config, pc = "asked", pc' = "replied", reply' \in Replies,
         made' \in Seq(AssocTypes), UNCHANGED <<asked, tries, result>>,
         library => (Granted \/ Refused)'
  PROVE  IInv'
<1>1. result = None /\ result' = None
  BY DEF IInv, TypeOK
<1>2. /\ Allowed(rpTypes)' = Allowed(rpTypes) /\ Preferred(rpTypes)' = Preferred(rpTypes)
      /\ Allowed(opTypes)' = Allowed(opTypes)
  BY DEF config, Allowed, Preferred
<1>4. TypeOK'
  BY <1>1 DEF config, IInv, TypeOK
<1>5. ConfigOK'
  BY DEF config, IInv, ConfigOK
<1>6. ProgressOK'
  BY <1>1 DEF IInv, ProgressOK
<1>7. AskedAllowed' /\ FirstAsked' /\ AskedOnce' /\ LibraryReply'
  BY <1>2 DEF config, IInv, AskedAllowed, FirstAsked, AskedOnce, LibraryReply
<1>8. Safety'
  BY <1>1, <1>2 DEF IInv, AskedAllowed, Safety, PairAgreed, FirstChoiceHonoured, SessionAsAsked, Got
<1> QED BY <1>4, <1>5, <1>6, <1>7, <1>8 DEF IInv

LEMMA AssociateOK == IInv /\ OpenIDAssociate => IInv'
<1> SUFFICES ASSUME IInv, OpenIDAssociate PROVE IInv'
  OBVIOUS
<1> USE DEF OpenIDAssociate
<1>1. asked \in Pairs /\ asked[1] \in AssocTypes /\ asked[2] \in SessionTypes
  BY PairParts DEF IInv, ProgressOK
<1>2. Allowed(opTypes)' = Allowed(opTypes)
  BY DEF config, Allowed
<1>3. compat \in BOOLEAN /\ made \in Seq(AssocTypes)
  BY DEF IInv, TypeOK
<1>4. Preferred(opTypes)[1] \in AssocTypes \union {None}
      /\ Preferred(opTypes)[2] \in SessionTypes \union {None}
  BY AllowedArePairs, PairParts DEF IInv, ConfigOK, Preferred
<1>5. CASE asked \in Allowed(opTypes)
  <2>1. made' = Append(made, asked[1])
    BY <1>5
  <2>2. made' \in Seq(AssocTypes) /\ made' # <<>> /\ made'[Len(made')] = asked[1]
    BY <1>1, <1>3, <2>1
  <2>3. reply' = Reply(200, IF compat THEN "1" ELSE "2", "association", asked[1],
                       IF compat /\ asked[2] = "no-encryption" THEN None ELSE asked[2], TRUE)
    BY <1>5
  <2>4. reply' \in Replies
    BY <1>1, <2>3 DEF Reply, Replies
  <2>5. Granted'
    BY <1>2, <1>5, <2>2, <2>3 DEF Reply, Granted
  <2> QED BY <2>2, <2>4, <2>5, ReplyOK
<1>6. CASE asked \notin Allowed(opTypes)
  <2>1. \/ reply' = Reply(400, "1", "error", None, None, TRUE)
        \/ reply' = Reply(200, "2", "unsupported-type",
                          Preferred(opTypes)[1], Preferred(opTypes)[2], TRUE)
    BY <1>6
  <2>2. reply' \in Replies
    <3>1. Reply(400, "1", "error", None, None, TRUE) \in Replies
      BY DEF Reply, Replies
    <3>2. ASSUME NEW p1 \in AssocTypes \union {None}, NEW p2 \in SessionTypes \union {None}
          PROVE  Reply(200, "2", "unsupported-type", p1, p2, TRUE) \in Replies
      BY DEF Reply, Replies
    <3>3. Reply(200, "2", "unsupported-type", Preferred(opTypes)[1], Preferred(opTypes)[2], TRUE)
            \in Replies
      <4> HIDE DEF OpenIDAssociate
      <4> QED BY <1>4, <3>2, Zenon
    <3> HIDE DEF OpenIDAssociate
    <3> QED BY <2>1, <3>1, <3>3
  <2>3. Refused'
    BY <1>2, <1>6, <2>1 DEF Reply, Refused
  <2> QED BY <1>3, <1>6, <2>2, <2>3, ReplyOK
<1> QED BY <1>5, <1>6

LEMMA OtherOK == ASSUME NEW r \in Replies, IInv, OtherReply(r) PROVE IInv'
BY ReplyOK DEF OtherReply, IInv, TypeOK

LEMMA NetworkOK == IInv /\ NetworkError => IInv'
<1> SUFFICES ASSUME IInv, NetworkError PROVE IInv'
  OBVIOUS
<1> DEFINE o == Outcome("raise", "KVPostNetworkError", Nothing)
<1>1. o \in Outcomes /\ o.is # "assoc" /\ o.why = "KVPostNetworkError"
  BY FailureKind DEF Failures, Outcome
<1>2. pc = "asked" /\ Finish(o) /\ UNCHANGED config
  BY DEF NetworkError
<1> HIDE DEF o
<1> QED BY <1>1, <1>2, FinishOK

\* What is extracted in OpenID 2 is of the session asked for, and with an OP of
\* this library it is the pair asked for.
LEMMA ExtractedOK ==
  ASSUME IInv, pc = "replied", Extracted
  PROVE  /\ reply.assoc \in AssocTypes /\ ReplySession \in SessionTypes
         /\ reply.ns = "2" => ReplySession = asked[2]
         /\ library => Granted /\ <<reply.assoc, ReplySession>> = asked
<1>1. asked \in Pairs /\ reply \in Replies
  BY DEF IInv, ProgressOK
<1>2. asked[1] \in AssocTypes /\ asked[2] \in SessionTypes /\ asked = <<asked[1], asked[2]>>
  BY <1>1, PairParts
<1>3. reply.assoc \in AssocTypes /\ ReplySession \in SessionTypes
  BY <1>2 DEF Extracted, AllowedAssocTypes, SessionMatches, SessionTypes
<1>4. reply.ns = "2" => ReplySession = asked[2]
  BY DEF Extracted, SessionMatches
<1>5. ASSUME library PROVE Granted /\ <<reply.assoc, ReplySession>> = asked
  <2>1. Granted
    BY <1>5 DEF IInv, LibraryReply, Refused, Extracted
  <2>2. ReplySession = asked[2]
    BY <1>2, <2>1, NegotiationAssumption DEF Granted, ReplySession, SessionTypes
  <2> QED BY <1>2, <2>1, <2>2 DEF Granted
<1> QED BY <1>3, <1>4, <1>5

\* Nil, or an exception that is not about the connection, is no outcome for an OP
\* of this library that allows the first choice.
LEMMA FailureOK ==
  ASSUME IInv, UNCHANGED config, pc = "replied",
         NEW o \in Failures, Finish(o),
         ~(library /\ Granted)
  PROVE  IInv'
<1>1. o \in Outcomes /\ o.is # "assoc"
  BY FailureKind
<1>2. library => Refused
  BY DEF IInv, LibraryReply
<1>3. library => Preferred(rpTypes) \notin Allowed(opTypes)
  <2>1. library /\ rpTypes = <<>> => Preferred(rpTypes) \notin Allowed(opTypes)
    BY AllowedArePairs, PairParts DEF IInv, ConfigOK, Preferred, Nothing
  <2>2. library /\ rpTypes # <<>> => asked = Preferred(rpTypes)
    BY DEF IInv, AskedOnce, FirstAsked
  <2> QED BY <1>2, <2>1, <2>2 DEF Refused
<1> QED BY <1>1, <1>3, FinishOK

LEMMA ReceiveOK == IInv /\ Receive => IInv'
<1> SUFFICES ASSUME IInv, Receive PROVE IInv'
  OBVIOUS
<1>1. pc = "replied" /\ UNCHANGED config /\ tries \in {1, 2} /\ reply \in Replies
  BY DEF Receive, IInv, ProgressOK
<1>2. CASE reply.ns = "bad"
  <2>1. ~(library /\ Granted)
    BY <1>2 DEF Granted
  <2>2. \/ Finish(Outcome("nil", "malformed", Nothing))
        \/ Finish(Outcome("raise", "InvalidOpenIDNamespace", Nothing))
    BY <1>2 DEF Receive
  <2> QED BY <1>1, <2>1, <2>2, FailureOK DEF Failures
<1>3. CASE reply.ns # "bad" /\ reply.code = 400
  <2>1. ~(library /\ Granted)
    BY <1>3 DEF Granted
  <2>2. CASE tries = 1 /\ SupportedType
    <3>1. ~library
      BY <1>1, <1>3, <2>1, <2>2 DEF IInv, LibraryReply, Refused, SupportedType
    <3>2. /\ <<reply.assoc, reply.session>> \in Allowed(rpTypes)
          /\ Ask(<<reply.assoc, reply.session>>)
      BY <1>3, <2>2 DEF Receive, SupportedType, Offered
    <3> QED BY <1>1, <2>2, <3>1, <3>2, AskOK
  <2>3. CASE ~(tries = 1 /\ SupportedType)
    <3>1. Finish(Outcome("nil", "refused", Nothing))
      BY <1>3, <2>3 DEF Receive
    <3> QED BY <1>1, <2>1, <3>1, FailureOK DEF Failures
  <2> QED BY <2>2, <2>3
<1>4. CASE reply.ns # "bad" /\ reply.code \notin {200, 400}
  <2>1. ~(library /\ Granted)
    BY <1>4 DEF Granted
  <2>2. Finish(Outcome("nil", "status", Nothing))
    BY <1>4 DEF Receive
  <2> QED BY <1>1, <2>1, <2>2, FailureOK DEF Failures
<1>5. CASE reply.ns # "bad" /\ reply.code = 200
  <2>1. CASE Extracted
    <3>0. reply.assoc \in AssocTypes /\ ReplySession \in SessionTypes
      BY <1>1, <2>1, ExtractedOK
    <3>1. /\ Accepted \in Outcomes /\ Accepted.is = "assoc"
          /\ Accepted.type = reply.assoc /\ Accepted.session = ReplySession
      <4>1. Accepted = [is |-> "assoc", why |-> "",
                        type |-> reply.assoc, session |-> ReplySession]
        BY DEF Accepted, Outcome
      <4> QED BY <3>0, <4>1 DEF Outcomes, Reasons
    <3>2. Finish(Accepted)
      BY <1>5, <2>1 DEF Receive
    <3>3. library => Granted /\ <<Accepted.type, Accepted.session>> = asked
      BY <1>1, <2>1, <3>1, ExtractedOK
    <3>4. asked \in Allowed(rpTypes)
      BY <1>1, PairParts DEF IInv, ProgressOK, AskedAllowed
    <3>5. library => asked = Preferred(rpTypes)
      <4>1. rpTypes # <<>>
        <5>1. rpTypes \in Seq(Pairs)
          BY DEF IInv, ConfigOK
        <5>2. rpTypes = <<>> => Allowed(rpTypes) = {}
          BY <5>1, AllowedArePairs
        <5> QED BY <3>4, <5>2
      <4> QED BY <1>1, <4>1 DEF IInv, AskedOnce, FirstAsked
    <3>6. library => made # <<>> /\ made[Len(made)] = Accepted.type
                     /\ asked \in Allowed(opTypes)
      BY <3>1, <3>3 DEF Granted
    <3>7. reply.ns = "2" => Accepted.session = asked[2]
      BY <1>1, <2>1, <3>1, ExtractedOK
    <3>8. library => /\ <<Accepted.type, Accepted.session>> \in Allowed(rpTypes) \intersect Allowed(opTypes)
                     /\ <<Accepted.type, Accepted.session>> = Preferred(rpTypes)
      BY <3>3, <3>4, <3>5, <3>6
    <3> QED BY <1>1, <3>1, <3>2, <3>6, <3>7, <3>8, FinishOK
  <2>2. CASE ~Extracted
    <3>1. ~(library /\ Granted)
      <4> SUFFICES ASSUME library, Granted PROVE Extracted
        BY <2>2
      <4>1. asked \in Pairs /\ asked[1] \in AssocTypes /\ asked[2] \in SessionTypes
        BY <1>1, PairParts DEF IInv, ProgressOK
      <4>2. ReplySession = asked[2]
        BY <4>1, NegotiationAssumption DEF Granted, ReplySession, SessionTypes
      <4>3. asked[1] \in AllowedAssocTypes(asked[2])
        BY <4>1 DEF Pairs, AllowedAssocTypes
      <4>4. SessionMatches
        BY <4>2 DEF SessionMatches
      <4>5. reply.assoc \in AllowedAssocTypes(ReplySession)
        BY <4>2, <4>3 DEF Granted
      <4> QED BY <4>4, <4>5 DEF Granted, Extracted
    <3>2. Finish(Outcome("nil", "unusable", Nothing))
      BY <1>5, <2>2 DEF Receive
    <3> QED BY <1>1, <3>1, <3>2, FailureOK DEF Failures
  <2> QED BY <1>5, <2>1, <2>2
<1> QED BY <1>1, <1>2, <1>3, <1>4, <1>5

LEMMA StutterOK == IInv /\ UNCHANGED vars => IInv'
<1> SUFFICES ASSUME IInv, UNCHANGED vars PROVE IInv'
  OBVIOUS
<1> USE DEF vars
<1>1. TypeOK' /\ ConfigOK' /\ ProgressOK'
  BY DEF IInv, TypeOK, ConfigOK, ProgressOK
<1>2. AskedAllowed' /\ FirstAsked' /\ AskedOnce' /\ LibraryReply'
  BY DEF IInv, AskedAllowed, FirstAsked, AskedOnce, LibraryReply, Granted, Refused,
         Allowed, Preferred
<1>3. Safety'
  BY DEF IInv, Safety, PairAgreed, FirstChoiceHonoured, SessionAsAsked, Got, Allowed, Preferred
<1> QED BY <1>1, <1>2, <1>3 DEF IInv

-----------------------------------------------------------------------------
\* The invariant holds throughout a negotiation.
THEOREM NegotiationInductive == FairSpec => []IInv
<1>1. IInv /\ [Next]_vars => IInv'
  BY BeginOK, AssociateOK, OtherOK, NetworkOK, ReceiveOK, StutterOK DEF Next, Done
<1> QED BY InitOK, <1>1, PTL DEF FairSpec

\* The two sides' state is well typed, and there are two requests at most.
THEOREM NegotiationTypeCorrect == FairSpec => []TypeOK
<1>1. IInv => TypeOK
  BY DEF IInv
<1> QED BY <1>1, NegotiationInductive, PTL

\* Two sides of this library end with the association the OP has made last, of a
\* pair that both allow.
THEOREM NegotiationAgrees == FairSpec => []PairAgreed
<1>1. IInv => PairAgreed
  BY DEF IInv, Safety
<1> QED BY <1>1, NegotiationInductive, PTL

\* They end with the RP's first choice when the OP allows it, unless the
\* connection fails.
THEOREM NegotiationFirstChoice == FairSpec => []FirstChoiceHonoured
<1>1. IInv => FirstChoiceHonoured
  BY DEF IInv, Safety
<1> QED BY <1>1, NegotiationInductive, PTL

\* Whatever any OP replies, the RP asks only for pairs it allows, and in OpenID 2
\* accepts a secret only in the session it asked for.
THEOREM NegotiationAsAsked == FairSpec => []SessionAsAsked
<1>1. IInv => SessionAsAsked
  BY DEF IInv, Safety
<1> QED BY <1>1, NegotiationInductive, PTL
=============================================================================
