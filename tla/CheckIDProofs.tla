--------------------------- MODULE CheckIDProofs ---------------------------
(***************************************************************************)
(* A checkid exchange, for all users, requests and realms, whatever the    *)
(* two applications decide and however often the user is sent to set up:   *)
(* the RP understands what the OP decided, a failure has a cause, the OP   *)
(* decodes of its own setup URL the request it had refused, an answer      *)
(* names the identifier that was asked for, and the OP's application is    *)
(* asked about a return_to exactly if it lies under the realm.             *)
(*                                                                         *)
(* The invariant says what the message in the browser, the request the OP  *)
(* has decoded and the application's decision have to do with each other   *)
(* at each point of the exchange.                                          *)
(*                                                                         *)
(* The realm is about texts: the code compares characters, the realm and   *)
(* the URL are made of parts.  A text that FlattenSeq puts together, as    *)
(* Joined does, has its parts at offsets (Layout, by induction on their    *)
(* number); if one text starts another, so do the parts, because the parts *)
(* do not contain the delimiter (TextStarts, PartsStartText); and where    *)
(* the longer text goes on says if the last part is complete (GoesOn).     *)
(***************************************************************************)
EXTENDS CheckID, WellFoundedInduction, TLAPS

URLs == Realms \union ReturnTos

\* The CheckIDRequest the OP decodes.
Request == [ver : {1, 2}, immediate : BOOLEAN, identity : Identifiers, claimed : Identifiers,
            root : URLs, returnTo : ReturnTos \union {None}, handle : BOOLEAN]

ProgressOK ==
  /\ app \in Apps \union {None}
  /\ hops \in Nat
  /\ at = "rp" => app # None /\ hops = 0
  /\ at = "op" => wire \in CheckIDMessage
  /\ at \in {"rp", "op", "decide"} => decision = None
  /\ at # "done" => outcome = None

\* What from_message has made sure of.
SeenOK ==
  /\ seen \in Request
  /\ seen.root # None
  /\ seen.ver = 1 => seen.identity # None
  /\ seen.ver = 2 => (seen.identity = None <=> seen.claimed = None)

\* A message or decoded request m asks for what the RP's application wanted.
Fits(m) ==
  app # None =>
    /\ m.ver = app.ver
    /\ app.anonymous => /\ app.ver = 2
                        /\ m.identity = IF hops = 0 THEN None ELSE Blank
                        /\ m.claimed = m.identity
    /\ ~app.anonymous /\ app.select => m.identity = Select /\ m.claimed = Select
    /\ ~app.anonymous /\ ~app.select => /\ m.identity = Local[app.cid]
                                        /\ app.ver = 2 => m.claimed = app.cid

\* The request user_setup_url writes for the request s.
SetupOf(s) ==
  [mode |-> "checkid_setup", ver |-> s.ver, identity |-> NilToBlank(s.identity),
   claimed |-> NilToBlank(IF s.claimed = None THEN s.identity ELSE s.claimed),
   root |-> s.root, returnTo |-> s.returnTo, handle |-> s.handle]

\* The three ways the browser comes back: with an error, yes or no.
Erred == wire.mode = "error" /\ decision = None

Agreed ==
  /\ decision.allow
  /\ decision.identity \in Names \union {None}
  /\ decision.claimed \in Names \union {None}
  /\ MayAllow(decision.identity, decision.claimed)
  /\ wire.mode = "id_res"
  /\ wire.ver = seen.ver
  /\ wire.identity = IF seen.identity = Select THEN decision.identity ELSE seen.identity
  /\ wire.claimed = IF seen.ver = 2 THEN AnswerClaimed(decision.identity, decision.claimed) ELSE None
  /\ wire.setup = None
  /\ wire.signed

Denied ==
  /\ ~decision.allow
  /\ wire.ver = seen.ver
  /\ IF seen.immediate
       THEN /\ wire.mode = IF seen.ver = 1 THEN "id_res" ELSE "setup_needed"
            /\ wire.setup = SetupOf(seen)
       ELSE wire.mode = "cancel"

SeenFits == at = "decide" => SeenOK /\ Fits(seen)

BackFits == at = "back" => Erred \/ (SeenOK /\ Fits(seen) /\ (Agreed \/ Denied))

DoneFits ==
  at = "done" =>
    /\ UnderstoodAsMeant
    /\ FailureHasCause
    /\ outcome.status = "setup_needed" => SeenOK /\ Fits(seen) /\ outcome.setup = SetupOf(seen)

WireFits ==
  at = "op" =>
    /\ Fits(wire)
    /\ hops > 0 => asked \in Request /\ asked.root # None /\ wire = SetupOf(asked)

IInv == ProgressOK /\ WireFits /\ SeenFits /\ BackFits /\ DoneFits /\ SetupAsksTheSame

-----------------------------------------------------------------------------
\* The properties at the point of the exchange they speak of.
LEMMA Elsewhere ==
  ASSUME ProgressOK, at # "done"
  PROVE  UnderstoodAsMeant /\ FailureHasCause
BY DEF ProgressOK, UnderstoodAsMeant, FailureHasCause

LEMMA Implied == IInv => UnderstoodAsMeant /\ FailureHasCause /\ SetupAsksTheSame
BY Elsewhere DEF IInv, DoneFits

LEMMA NamesNever ==
  /\ Select \notin Names /\ Blank \notin Names /\ None \notin Names
  /\ Select # Blank /\ Select # None /\ Blank # None
BY CheckIDAssumption

\* What the RP's application may ask for.
LEMMA AppFacts ==
  ASSUME ProgressOK, app # None
  PROVE  /\ app \in App
         /\ app.ver \in {1, 2}
         /\ app.select => app.ver = 2
         /\ ~app.select => app.cid \in Names /\ Local[app.cid] \in Names
<1>1. app \in Apps
  BY DEF ProgressOK
<1>2. app \in App /\ (IF app.select THEN app.ver = 2 ELSE app.cid # None)
  BY <1>1, CheckIDAssumption
<1>3. app.ver \in {1, 2} /\ app.cid \in Names \union {None} /\ app.select \in BOOLEAN
  BY <1>2 DEF App
<1> QED BY <1>2, <1>3, CheckIDAssumption

-----------------------------------------------------------------------------
(* The RP and the decoder *)

LEMMA InitFits == Init => IInv
<1> SUFFICES ASSUME Init PROVE IInv
  OBVIOUS
<1>1. hops = 0 /\ decision = None /\ outcome = None /\ at \in {"rp", "op"}
  BY DEF Init
<1>4. at = "rp" => app # None
  BY CheckIDAssumption DEF Init
<1>2. at = "op" => app = None /\ wire \in CheckIDMessage
  BY CheckIDAssumption DEF Init
<1>3. app \in Apps \union {None}
  BY DEF Init
<1> QED BY <1>1, <1>2, <1>3, <1>4 DEF IInv, ProgressOK, WireFits, SeenFits, BackFits, DoneFits,
              SetupAsksTheSame, Fits

LEMMA GetMessageKeeps == IInv /\ GetMessage => IInv'
<1> SUFFICES ASSUME IInv, GetMessage PROVE IInv'
  OBVIOUS
<1>1. app # None /\ hops = 0 /\ ProgressOK
  BY DEF IInv, ProgressOK, GetMessage
<1>2. /\ app \in App /\ app.ver \in {1, 2}
      /\ app.select => app.ver = 2
      /\ ~app.select => app.cid \in Names /\ Local[app.cid] \in Names
  BY <1>1, AppFacts
<1>3. /\ app.select \in BOOLEAN /\ app.anonymous \in BOOLEAN /\ app.immediate \in BOOLEAN
      /\ app.handle \in BOOLEAN /\ app.realm \in Realms /\ app.returnTo \in ReturnTos
  BY <1>2 DEF App
<1> DEFINE id == CASE app.anonymous -> [identity |-> None, claimed |-> None]
                   [] ~app.anonymous /\ app.select -> [identity |-> Select, claimed |-> Select]
                   [] OTHER -> [identity |-> Local[app.cid],
                                claimed |-> IF app.ver = 2 THEN app.cid ELSE None]
<1>4. wire' = [mode |-> IF app.immediate THEN "checkid_immediate" ELSE "checkid_setup",
               ver |-> app.ver, identity |-> id.identity, claimed |-> id.claimed,
               root |-> app.realm, returnTo |-> app.returnTo,
               handle |-> app.handle /\ app.ver = 1]
  BY DEF GetMessage
<1>5. /\ app.anonymous => id.identity = None /\ id.claimed = None
      /\ ~app.anonymous /\ app.select => id.identity = Select /\ id.claimed = Select
      /\ ~app.anonymous /\ ~app.select =>
           /\ id.identity = Local[app.cid]
           /\ id.claimed = IF app.ver = 2 THEN app.cid ELSE None
  BY <1>3
<1>6. id.identity \in Identifiers /\ id.claimed \in Identifiers
  BY <1>2, <1>3, <1>5 DEF Identifiers
<1> HIDE DEF id
<1>7. wire' \in CheckIDMessage
  BY <1>2, <1>3, <1>4, <1>6 DEF CheckIDMessage
<1>8. /\ at' = "op" /\ decision = None /\ outcome = None
      /\ UNCHANGED <<app, seen, asked, decision, outcome, disturbed, hops>>
      /\ app.ver = 1 => ~app.anonymous
  BY DEF GetMessage, IInv, ProgressOK
<1>9. Fits(wire)'
  BY <1>1, <1>2, <1>3, <1>4, <1>5, <1>8 DEF Fits
<1> QED
  BY <1>1, <1>7, <1>8, <1>9 DEF IInv, ProgressOK, WireFits, SeenFits, BackFits, DoneFits,
       SetupAsksTheSame

\* The request of a user_setup_url is decoded to the one it was written for.
LEMMA DecodedSetup ==
  ASSUME NEW s \in Request, s.root # None, s.identity # None,
         NEW d, LET m == SetupOf(s) IN
                d = [ver |-> m.ver, immediate |-> m.mode = "checkid_immediate",
                     identity |-> m.identity, claimed |-> m.claimed, root |-> Root(m),
                     returnTo |-> m.returnTo, handle |-> m.handle]
  PROVE  d = [s EXCEPT !.immediate = FALSE,
                       !.claimed = IF @ = None THEN s.identity ELSE @]
<1> DEFINE m == SetupOf(s)
<1>1. /\ m.mode = "checkid_setup" /\ m.ver = s.ver /\ m.identity = s.identity
      /\ m.claimed = IF s.claimed = None THEN s.identity ELSE s.claimed
      /\ m.root = s.root /\ m.returnTo = s.returnTo /\ m.handle = s.handle
  BY DEF SetupOf, NilToBlank
<1>2. Root(m) = s.root
  BY <1>1 DEF Root
<1>3. d = [ver |-> s.ver, immediate |-> FALSE, identity |-> s.identity,
           claimed |-> IF s.claimed = None THEN s.identity ELSE s.claimed,
           root |-> s.root, returnTo |-> s.returnTo, handle |-> s.handle]
  BY <1>1, <1>2
<1> DEFINE c == IF s.claimed = None THEN s.identity ELSE s.claimed
<1>4. c \in Identifiers
  BY DEF Request
<1>5. d = [ver |-> s.ver, immediate |-> FALSE, identity |-> s.identity, claimed |-> c,
           root |-> s.root, returnTo |-> s.returnTo, handle |-> s.handle]
  BY <1>3
<1> HIDE DEF c
<1> DEFINE e == [s EXCEPT !.immediate = FALSE, !.claimed = c]
<1>6. d \in Request
  BY <1>4, <1>5 DEF Request
<1>7. e \in Request
  BY <1>4 DEF Request
<1>8. /\ d.ver = e.ver /\ d.immediate = e.immediate /\ d.identity = e.identity
      /\ d.claimed = e.claimed /\ d.root = e.root /\ d.returnTo = e.returnTo
      /\ d.handle = e.handle
  <2>1. /\ e.ver = s.ver /\ e.identity = s.identity /\ e.claimed = c /\ e.root = s.root
        /\ e.returnTo = s.returnTo /\ e.handle = s.handle
    BY DEF Request
  <2>2. e.immediate = FALSE
    BY DEF Request
  <2>3. /\ d.ver = s.ver /\ d.identity = s.identity /\ d.claimed = c /\ d.root = s.root
        /\ d.returnTo = s.returnTo /\ d.handle = s.handle /\ d.immediate = FALSE
    BY <1>5
  <2> QED BY <2>1, <2>2, <2>3
<1> HIDE DEF e
<1>9. d = e
  BY <1>6, <1>7, <1>8 DEF Request
<1> QED BY <1>9 DEF c, e

LEMMA DecodeKeeps == IInv /\ Decode => IInv'
<1> SUFFICES ASSUME IInv, Decode PROVE IInv'
  OBVIOUS
<1>1. /\ wire \in CheckIDMessage /\ Fits(wire) /\ decision = None /\ outcome = None
      /\ hops > 0 => asked \in Request /\ asked.root # None /\ wire = SetupOf(asked)
  BY DEF IInv, ProgressOK, WireFits, Decode
<1>2. /\ at' = "decide"
      /\ UNCHANGED <<app, wire, asked, decision, outcome, disturbed, hops>>
      /\ seen' = [ver |-> wire.ver, immediate |-> wire.mode = "checkid_immediate",
                  identity |-> wire.identity, claimed |-> wire.claimed, root |-> Root(wire),
                  returnTo |-> wire.returnTo, handle |-> wire.handle]
  BY DEF Decode
<1>3. /\ wire.ver = 1 => wire.identity # None
      /\ wire.ver = 2 => (wire.identity = None <=> wire.claimed = None)
      /\ Root(wire) # None
  BY DEF Decode, WellFormed
<1>4. /\ wire.ver \in {1, 2} /\ wire.identity \in Identifiers /\ wire.claimed \in Identifiers
      /\ wire.root \in URLs \union {None} /\ wire.returnTo \in ReturnTos \union {None}
      /\ wire.handle \in BOOLEAN
  BY <1>1 DEF CheckIDMessage, URLs
<1>5. Root(wire) \in URLs
  BY <1>3, <1>4 DEF Root, URLs
<1>6. SeenOK'
  BY <1>2, <1>3, <1>4, <1>5 DEF SeenOK, Request
<1>7. Fits(seen)'
  BY <1>1, <1>2 DEF Fits
<1>8. SetupAsksTheSame'
  <2> SUFFICES ASSUME hops > 0, asked.identity # None
               PROVE  seen' = [asked EXCEPT !.immediate = FALSE,
                                 !.claimed = IF @ = None THEN asked.identity ELSE @]
    BY <1>2 DEF SetupAsksTheSame
  <2> QED BY <1>1, <1>2, DecodedSetup
<1>9. ProgressOK'
  BY <1>1, <1>2 DEF IInv, ProgressOK
<1> QED BY <1>2, <1>6, <1>7, <1>8, <1>9 DEF IInv, WireFits, SeenFits, BackFits, DoneFits

LEMMA DecodeErrorKeeps == IInv /\ DecodeError => IInv'
<1> SUFFICES ASSUME IInv, DecodeError PROVE IInv'
  OBVIOUS
<1>1. /\ decision = None /\ outcome = None /\ at' \in {"back", "shown"}
      /\ UNCHANGED <<app, seen, asked, decision, outcome, disturbed, hops>>
      /\ at' = "back" => wire'.mode = "error"
  BY DEF IInv, ProgressOK, DecodeError, Reply
<1>2. ProgressOK'
  BY <1>1 DEF IInv, ProgressOK
<1>3. BackFits'
  BY <1>1 DEF BackFits, Erred
<1> QED BY <1>1, <1>2, <1>3 DEF IInv, WireFits, SeenFits, DoneFits, SetupAsksTheSame

-----------------------------------------------------------------------------
(* The OP answers *)

\* A step to "back" that leaves the request alone.
LEMMA Answered ==
  ASSUME IInv, at = "decide", at' = "back",
         UNCHANGED <<app, seen, asked, outcome, disturbed, hops>>,
         Agreed' \/ Denied'
  PROVE  IInv'
<1>1. SeenOK /\ Fits(seen)
  BY DEF IInv, SeenFits
<1>2. SeenOK' /\ Fits(seen)'
  BY <1>1 DEF SeenOK, Fits
<1>3. ProgressOK'
  BY DEF IInv, ProgressOK
<1> QED BY <1>2, <1>3 DEF IInv, WireFits, SeenFits, BackFits, DoneFits, SetupAsksTheSame

LEMMA AnswerAllowKeeps ==
  ASSUME IInv, NEW identity \in Names \union {None}, NEW claimed \in Names \union {None},
         AnswerAllow(identity, claimed)
  PROVE  IInv'
<1>1. /\ at = "decide" /\ at' = "back" /\ MayAllow(identity, claimed)
      /\ UNCHANGED <<app, seen, asked, outcome, disturbed, hops>>
      /\ decision' = Allow(identity, claimed)
      /\ wire' = [Reply(seen.ver, "id_res") EXCEPT
           !.identity = IF seen.identity = Select THEN identity ELSE seen.identity,
           !.claimed = IF seen.ver = 2 THEN AnswerClaimed(identity, claimed) ELSE None,
           !.signed = TRUE]
  BY DEF AnswerAllow
<1>2. decision'.allow /\ decision'.identity = identity /\ decision'.claimed = claimed
  BY <1>1 DEF Allow
<1>3. /\ wire'.mode = "id_res" /\ wire'.ver = seen.ver /\ wire'.setup = None /\ wire'.signed
      /\ wire'.identity = IF seen.identity = Select THEN identity ELSE seen.identity
      /\ wire'.claimed = IF seen.ver = 2 THEN AnswerClaimed(identity, claimed) ELSE None
  BY <1>1 DEF Reply
<1>4. MayAllow(identity, claimed)' /\ AnswerClaimed(identity, claimed)' = AnswerClaimed(identity, claimed)
  BY <1>1 DEF MayAllow, AnswerClaimed
<1>5. Agreed'
  BY <1>1, <1>2, <1>3, <1>4 DEF Agreed
<1> QED BY <1>1, <1>5, Answered

LEMMA AnswerRefuseKeeps == IInv /\ AnswerRefuse => IInv'
<1> SUFFICES ASSUME IInv, AnswerRefuse PROVE IInv'
  OBVIOUS
<1>1. /\ at = "decide" /\ at' = "back" /\ decision' = Refuse
      /\ UNCHANGED <<app, seen, asked, outcome, disturbed, hops>>
      /\ wire' = IF seen.immediate
           THEN [Reply(seen.ver, IF seen.ver = 1 THEN "id_res" ELSE "setup_needed") EXCEPT
                   !.setup = SetupRequest, !.signed = seen.ver = 1]
           ELSE Reply(seen.ver, "cancel")
  BY DEF AnswerRefuse
<1>2. SetupRequest = SetupOf(seen)
  BY DEF SetupRequest, SetupOf
<1>3. wire'.ver = seen.ver
      /\ IF seen.immediate
           THEN /\ wire'.mode = IF seen.ver = 1 THEN "id_res" ELSE "setup_needed"
                /\ wire'.setup = SetupOf(seen)
           ELSE wire'.mode = "cancel"
  BY <1>1, <1>2 DEF Reply
<1>4. ~decision'.allow
  BY <1>1 DEF Refuse
<1>5. SetupOf(seen)' = SetupOf(seen)
  BY <1>1 DEF SetupOf
<1>6. Denied'
  BY <1>1, <1>3, <1>4, <1>5 DEF Denied
<1> QED BY <1>1, <1>6, Answered

LEMMA CancelKeeps == IInv /\ Cancel => IInv'
<1> SUFFICES ASSUME IInv, Cancel PROVE IInv'
  OBVIOUS
<1>1. /\ at = "decide" /\ at' = "back" /\ decision' = Refuse /\ ~seen.immediate
      /\ UNCHANGED <<app, seen, asked, outcome, disturbed, hops>>
      /\ wire' = Reply(seen.ver, "cancel")
  BY DEF Cancel
<1>2. Denied'
  BY <1>1 DEF Denied, Refuse, Reply
<1> QED BY <1>1, <1>2, Answered

-----------------------------------------------------------------------------
(* The RP completes *)

\* Every answer to the request s refuses it with a request, not with None.
LEMMA SetupIsMessage ==
  ASSUME NEW s \in Request
  PROVE  SetupOf(s) \in CheckIDMessage /\ SetupOf(s) # None
<1>1. /\ NilToBlank(s.identity) \in Identifiers
      /\ NilToBlank(IF s.claimed = None THEN s.identity ELSE s.claimed) \in Identifiers
  BY DEF NilToBlank, Request, Identifiers
<1>2. /\ s.ver \in {1, 2} /\ s.root \in Realms \union ReturnTos \union {None}
      /\ s.returnTo \in ReturnTos \union {None} /\ s.handle \in BOOLEAN
  BY DEF Request, URLs
<1>3. SetupOf(s) \in CheckIDMessage
  BY <1>1, <1>2 DEF SetupOf, CheckIDMessage
<1> QED BY <1>3, CheckIDAssumption

\* A refusal is understood as one, in both versions.
LEMMA CompleteDenied ==
  ASSUME NEW extra \in BOOLEAN, NEW found \in BOOLEAN, Complete(extra, found),
         SeenOK, Denied
  PROVE  /\ outcome'.status = IF seen.immediate THEN "setup_needed" ELSE "cancel"
         /\ seen.immediate => outcome'.setup = SetupOf(seen)
<1>1. outcome' = CASE wire.mode = "id_res" -> CompleteIdRes(extra, found)
                   [] wire.mode = "cancel" -> Conclude("cancel", None, None)
                   [] wire.mode = "setup_needed" /\ wire.ver = 2 ->
                        Conclude("setup_needed", None, wire.setup)
                   [] OTHER -> Conclude("failure", None, None)
  BY DEF Complete
<1>2. seen.ver \in {1, 2} /\ seen.immediate \in BOOLEAN /\ SetupOf(seen) # None
  BY SetupIsMessage DEF SeenOK, Request
<1>3. CASE ~seen.immediate
  <2>1. wire.mode = "cancel"
    BY <1>3 DEF Denied
  <2>2. outcome' = Conclude("cancel", None, None)
    BY <1>1, <2>1
  <2> QED BY <1>3, <2>2 DEF Conclude
<1>4. CASE seen.immediate
  <2>1. /\ wire.ver = seen.ver /\ wire.setup = SetupOf(seen)
        /\ wire.mode = IF seen.ver = 1 THEN "id_res" ELSE "setup_needed"
    BY <1>4 DEF Denied
  <2>2. outcome' = Conclude("setup_needed", None, wire.setup)
    <3>1. CASE seen.ver = 1
      <4>1. wire.mode = "id_res" /\ wire.ver = 1 /\ wire.setup # None
        BY <1>2, <2>1, <3>1
      <4>2. outcome' = CompleteIdRes(extra, found)
        BY <1>1, <4>1
      <4> QED BY <4>1, <4>2 DEF CompleteIdRes
    <3>2. CASE seen.ver = 2
      <4>1. wire.mode = "setup_needed" /\ wire.ver = 2
        BY <2>1, <3>2
      <4> QED BY <1>1, <4>1
    <3> QED BY <1>2, <3>1, <3>2
  <2> QED BY <1>4, <2>1, <2>2 DEF Conclude
<1> QED BY <1>2, <1>3, <1>4

\* What the RP takes the identifiers of an agreement to be.
LEMMA AgreedIdentifiers ==
  ASSUME ProgressOK, app # None, SeenOK, Fits(seen), Agreed
  PROVE  LET claimed == IF app.ver = 1 THEN app.cid ELSE wire.claimed IN
         /\ ~(app.anonymous /\ hops > 0) => claimed = Meant
         /\ app.anonymous /\ hops = 0 => app.ver = 2 /\ claimed = None /\ wire.identity = None
         /\ app.anonymous /\ hops > 0 =>
              app.ver = 2 /\ claimed = Blank /\ wire.identity = Blank
         /\ ~app.anonymous => claimed \in Names /\ wire.identity \in Names
         /\ ~app.anonymous /\ ~app.select => Local[claimed] = wire.identity
<1> DEFINE claimed == IF app.ver = 1 THEN app.cid ELSE wire.claimed
<1>1. /\ app \in App /\ app.ver \in {1, 2}
      /\ app.select => app.ver = 2
      /\ ~app.select => app.cid \in Names /\ Local[app.cid] \in Names
      /\ app.anonymous \in BOOLEAN /\ app.select \in BOOLEAN /\ hops \in Nat
  BY AppFacts DEF App, ProgressOK
<1>2. seen.ver = app.ver
  BY DEF Fits
<1>3. /\ wire.identity = IF seen.identity = Select THEN decision.identity ELSE seen.identity
      /\ app.ver = 2 => wire.claimed = AnswerClaimed(decision.identity, decision.claimed)
      /\ decision.identity \in Names \union {None} /\ decision.claimed \in Names \union {None}
      /\ seen.identity = Select => decision.identity # None
  <2>1. MayAllow(decision.identity, decision.claimed)
    BY DEF Agreed
  <2>2. seen.identity = Select => decision.identity # None
    BY <2>1, NamesNever DEF MayAllow
  <2>3. app.ver = 2 => wire.claimed = AnswerClaimed(decision.identity, decision.claimed)
    BY <1>2 DEF Agreed
  <2> QED BY <2>2, <2>3 DEF Agreed
<1>4. CASE app.anonymous
  <2>1. /\ app.ver = 2 /\ seen.identity = IF hops = 0 THEN None ELSE Blank
        /\ seen.claimed = seen.identity
    BY <1>4 DEF Fits
  <2>2. seen.identity # Select
    BY <2>1, NamesNever
  <2>3. claimed = seen.claimed /\ wire.identity = seen.identity
    BY <1>3, <2>1, <2>2 DEF AnswerClaimed
  <2>4. Meant = None
    BY <1>4 DEF Meant
  <2> QED BY <1>1, <1>4, <2>1, <2>3, <2>4
<1>5. CASE ~app.anonymous /\ app.select
  <2>1. app.ver = 2 /\ seen.identity = Select
    BY <1>1, <1>5 DEF Fits
  <2>2. /\ wire.identity = decision.identity
        /\ claimed = IF decision.claimed = None THEN decision.identity ELSE decision.claimed
    BY <1>3, <2>1 DEF AnswerClaimed
  <2>3. claimed = Meant
    BY <1>5, <2>2 DEF Meant
  <2>4. claimed \in Names /\ wire.identity \in Names
    BY <1>3, <2>1, <2>2
  <2> QED BY <1>5, <2>3, <2>4
<1>6. CASE ~app.anonymous /\ ~app.select
  <2>1. seen.identity = Local[app.cid] /\ (app.ver = 2 => seen.claimed = app.cid)
    BY <1>6 DEF Fits
  <2>2. seen.identity # Select
    BY <1>1, <1>6, <2>1, NamesNever
  <2>3. wire.identity = Local[app.cid]
    BY <1>3, <2>1, <2>2
  <2>4. app.ver = 2 => wire.claimed = app.cid
    BY <1>3, <2>1, <2>2 DEF AnswerClaimed
  <2>5. claimed = app.cid
    BY <1>1, <2>4
  <2>6. Meant = app.cid
    BY <1>6 DEF Meant
  <2> QED BY <1>1, <1>6, <2>3, <2>5, <2>6
<1> QED BY <1>1, <1>4, <1>5, <1>6

\* An agreement is understood as one, or fails for a cause.
LEMMA CompleteAgreed ==
  ASSUME NEW extra \in BOOLEAN, NEW found \in BOOLEAN, Complete(extra, found),
         ProgressOK, SeenOK, Fits(seen), Agreed
  PROVE  \/ outcome'.status = "success" /\ outcome'.id = Meant
         \/ /\ outcome'.status = "failure"
            /\ \/ extra \/ ~found
               \/ app.anonymous /\ hops > 0
               \/ app.ver = 1 /\ hops > 0
               \/ app.select /\ Local[Meant] # wire.identity
<1> DEFINE claimed == IF app.ver = 1 THEN app.cid ELSE wire.claimed
           anonymous == app.ver = 2 /\ claimed = None /\ wire.identity = None
           good == /\ wire.signed
                   /\ app.ver = 1 => wire.identity # None
                   /\ ServerKnown
                   /\ ~extra
                   /\ anonymous \/ Discovered(claimed, wire.identity, found)
<1>1. wire.mode = "id_res" /\ wire.setup = None /\ wire.signed /\ app # None
  BY DEF Agreed, Complete
<1>2. outcome' = CompleteIdRes(extra, found)
  BY <1>1 DEF Complete
<1>3. outcome' = IF good THEN Conclude("success", claimed, None)
                         ELSE Conclude("failure", None, None)
  BY <1>1, <1>2 DEF CompleteIdRes, IdRes
<1>4. /\ ~(app.anonymous /\ hops > 0) => claimed = Meant
      /\ app.anonymous /\ hops = 0 => app.ver = 2 /\ claimed = None /\ wire.identity = None
      /\ app.anonymous /\ hops > 0 => app.ver = 2 /\ claimed = Blank /\ wire.identity = Blank
      /\ ~app.anonymous => claimed \in Names /\ wire.identity \in Names
      /\ ~app.anonymous /\ ~app.select => Local[claimed] = wire.identity
  BY <1>1, AgreedIdentifiers
<1>5. /\ hops \in Nat /\ (hops = 0 \/ hops > 0)
      /\ app.ver \in {1, 2}
  BY <1>1, AppFacts DEF ProgressOK, App
<1>6. CASE good
  <2>1. claimed # Blank \/ wire.identity # Blank
    BY <1>6, NamesNever DEF Discovered
  <2>2. claimed = Meant
    BY <1>4, <2>1
  <2> QED BY <1>3, <1>6, <2>2 DEF Conclude
<1>7. CASE ~good
  <2>1. outcome'.status = "failure"
    BY <1>3, <1>7 DEF Conclude
  <2>2. CASE extra
    BY <2>1, <2>2
  <2>3. CASE ~found
    BY <2>1, <2>3
  <2>4. CASE ~ServerKnown
    BY <1>5, <2>1, <2>4 DEF ServerKnown
  <2>5. CASE ~extra /\ found /\ app.anonymous /\ ServerKnown
    <3>1. ASSUME hops = 0 PROVE FALSE
      <4>1. app.ver = 2 /\ claimed = None /\ wire.identity = None
        BY <1>4, <2>5, <3>1
      <4>2. app.ver # 1
        BY <4>1
      <4>3. good
        BY <1>1, <2>5, <4>1, <4>2
      <4> QED BY <1>7, <4>3
    <3>2. hops > 0
      BY <1>5, <3>1
    <3> QED BY <2>1, <2>5, <3>2
  <2>6. CASE ~extra /\ found /\ ~app.anonymous /\ ServerKnown
    <3>1. /\ claimed \in Names /\ wire.identity # None
          /\ ~Discovered(claimed, wire.identity, found)
      BY <1>1, <1>4, <1>7, <2>6, NamesNever
    <3>2. Local[claimed] # wire.identity
      BY <2>6, <3>1 DEF Discovered
    <3> QED BY <1>4, <2>1, <2>6, <3>2
  <2> QED BY <2>2, <2>3, <2>4, <2>5, <2>6
<1> QED BY <1>6, <1>7

LEMMA CompleteKeeps ==
  ASSUME IInv, NEW extra \in BOOLEAN, NEW found \in BOOLEAN, Complete(extra, found)
  PROVE  IInv'
<1>1. /\ at = "back" /\ at' = "done" /\ app # None /\ disturbed' = (extra \/ ~found)
      /\ UNCHANGED <<app, wire, seen, asked, decision, hops>>
      /\ ProgressOK
  BY DEF Complete, IInv
<1>2. ProgressOK'
  BY <1>1 DEF ProgressOK
<1>3. Meant' = Meant /\ SetupOf(seen)' = SetupOf(seen)
  BY <1>1 DEF Meant, SetupOf
<1>4. SeenOK => SeenOK'
  BY <1>1 DEF SeenOK
<1>5. Fits(seen) => Fits(seen)'
  BY <1>1 DEF Fits
<1>6. DoneFits'
  <2>1. CASE Erred
    <3>1. outcome' = Conclude("failure", None, None)
      BY <2>1 DEF Complete, Erred
    <3>2. outcome'.status = "failure"
      BY <3>1 DEF Conclude
    <3>3. decision' = None
      BY <1>1, <2>1 DEF Erred
    <3> QED BY <3>2, <3>3 DEF DoneFits, UnderstoodAsMeant, FailureHasCause
  <2>2. CASE SeenOK /\ Fits(seen) /\ Agreed
    <3>1. \/ outcome'.status = "success" /\ outcome'.id = Meant
          \/ /\ outcome'.status = "failure"
             /\ \/ disturbed'
                \/ app.anonymous /\ hops > 0
                \/ app.ver = 1 /\ hops > 0
                \/ app.select /\ Local[Meant] # wire.identity
      BY <1>1, <2>2, CompleteAgreed
    <3>2. decision'.allow
      BY <1>1, <2>2 DEF Agreed
    <3> QED BY <1>1, <1>3, <3>1, <3>2 DEF DoneFits, UnderstoodAsMeant, FailureHasCause
  <2>3. CASE SeenOK /\ Fits(seen) /\ Denied
    <3>1. /\ outcome'.status = IF seen.immediate THEN "setup_needed" ELSE "cancel"
          /\ seen.immediate => outcome'.setup = SetupOf(seen)
      BY <2>3, CompleteDenied
    <3>2. ~decision'.allow
      BY <1>1, <2>3 DEF Denied
    <3> QED BY <1>1, <1>3, <1>4, <1>5, <2>3, <3>1, <3>2
            DEF DoneFits, UnderstoodAsMeant, FailureHasCause
  <2> QED BY <1>1, <2>1, <2>2, <2>3 DEF IInv, BackFits
<1> QED BY <1>1, <1>2, <1>6 DEF IInv, WireFits, SeenFits, BackFits, SetupAsksTheSame

\* What user_setup_url asks for is what the RP's application wanted.
LEMMA FollowSetupKeeps == IInv /\ FollowSetup => IInv'
<1> SUFFICES ASSUME IInv, FollowSetup PROVE IInv'
  OBVIOUS
<1>1. /\ at = "done" /\ at' = "op" /\ hops' = hops + 1 /\ app' = app
      /\ wire' = outcome.setup /\ asked' = seen /\ decision' = None /\ outcome' = None
      /\ outcome.status = "setup_needed" /\ ProgressOK
  BY DEF FollowSetup, IInv
<1>2. SeenOK /\ Fits(seen) /\ wire' = SetupOf(seen)
  BY <1>1 DEF IInv, DoneFits
<1>3. hops \in Nat /\ hops' \in Nat /\ hops' # 0
  BY <1>1 DEF ProgressOK
<1>4. seen \in Request /\ wire' \in CheckIDMessage
  BY <1>2, SetupIsMessage DEF SeenOK
<1>5. /\ wire'.ver = seen.ver /\ wire'.identity = NilToBlank(seen.identity)
      /\ wire'.claimed = NilToBlank(IF seen.claimed = None THEN seen.identity ELSE seen.claimed)
  BY <1>2 DEF SetupOf
<1>6. Fits(wire)'
  <2> SUFFICES ASSUME app # None
               PROVE  /\ wire'.ver = app.ver
                      /\ app.anonymous => /\ app.ver = 2
                                          /\ wire'.identity = Blank
                                          /\ wire'.claimed = wire'.identity
                      /\ ~app.anonymous /\ app.select =>
                           wire'.identity = Select /\ wire'.claimed = Select
                      /\ ~app.anonymous /\ ~app.select =>
                           /\ wire'.identity = Local[app.cid]
                           /\ app.ver = 2 => wire'.claimed = app.cid
    BY <1>1, <1>3 DEF Fits
  <2>1. /\ app \in App /\ (~app.select => app.cid \in Names /\ Local[app.cid] \in Names)
    BY <1>1, AppFacts
  <2>2. /\ seen.ver = app.ver
        /\ app.anonymous => /\ app.ver = 2
                            /\ seen.identity \in {None, Blank}
                            /\ seen.claimed = seen.identity
        /\ ~app.anonymous /\ app.select => seen.identity = Select /\ seen.claimed = Select
        /\ ~app.anonymous /\ ~app.select => /\ seen.identity = Local[app.cid]
                                            /\ app.ver = 2 => seen.claimed = app.cid
    BY <1>2 DEF Fits
  <2> QED BY <1>5, <2>1, <2>2, NamesNever DEF NilToBlank
<1>7. asked' \in Request /\ asked'.root # None /\ wire' = SetupOf(asked')
  BY <1>1, <1>2 DEF SeenOK
<1>8. WireFits'
  BY <1>6, <1>7 DEF WireFits, SetupOf
<1>9. ProgressOK'
  BY <1>1, <1>3, <1>4 DEF ProgressOK
<1> QED BY <1>1, <1>8, <1>9 DEF IInv, SeenFits, BackFits, DoneFits, SetupAsksTheSame

LEMMA StutterKeeps == IInv /\ UNCHANGED vars => IInv'
BY DEF IInv, vars, ProgressOK, WireFits, SeenFits, BackFits, DoneFits, SetupAsksTheSame,
       SeenOK, Fits, SetupOf, Erred, Agreed, Denied, MayAllow, AnswerClaimed,
       UnderstoodAsMeant, FailureHasCause, Meant

-----------------------------------------------------------------------------
THEOREM InvariantHolds == Spec => []IInv
<1>1. Init => IInv
  BY InitFits
<1>2. IInv /\ [Next]_vars => IInv'
  BY GetMessageKeeps, DecodeKeeps, DecodeErrorKeeps, AnswerAllowKeeps, AnswerRefuseKeeps,
     CancelKeeps, CompleteKeeps, FollowSetupKeeps, StutterKeeps DEF Next
<1> QED BY <1>1, <1>2, PTL DEF Spec

\* The RP concludes what the OP decided, whichever way it was asked: one
\* answer is never taken for another, nor one identifier for another.
THEOREM AnswerUnderstood == Spec => []UnderstoodAsMeant
<1>1. IInv => UnderstoodAsMeant
  BY Implied
<1> QED BY <1>1, InvariantHolds, PTL

\* A refusal never shows up as a failure, and an agreement fails only for
\* discovery, added arguments, a user the OP's application got wrong, or an
\* anonymous request that went through user_setup_url.
THEOREM FailureExplained == Spec => []FailureHasCause
<1>1. IInv => FailureHasCause
  BY Implied
<1> QED BY <1>1, InvariantHolds, PTL

\* The OP decodes from its own user_setup_url the request it had refused.
THEOREM SetupRepeatsRequest == Spec => []SetupAsksTheSame
<1>1. IInv => SetupAsksTheSame
  BY Implied
<1> QED BY <1>1, InvariantHolds, PTL

\* A positive answer is about the identifier that was asked for, and has both
\* identifiers of OpenID 2 or neither, to RPs of any make.
THEOREM AnswerNamesIdentifier == Spec => []IdentifierAsRequested
<1>1. IInv => IdentifierAsRequested
  <2> SUFFICES ASSUME IInv, at = "back", wire.mode = "id_res", decision.allow
               PROVE  /\ seen.identity # Select => wire.identity = seen.identity
                      /\ seen.identity = Select => wire.identity \in Names
                      /\ seen.ver = 1 => wire.identity # None /\ wire.claimed = None
                      /\ seen.ver = 2 => (wire.identity = None <=> wire.claimed = None)
    BY DEF IdentifierAsRequested
  <2>1. SeenOK /\ Agreed
    BY DEF IInv, BackFits, Erred, Denied
  <2>2. /\ seen.ver = 1 => seen.identity # None
        /\ seen.ver = 2 => (seen.identity = None <=> seen.claimed = None)
    BY <2>1 DEF SeenOK
  <2>3. /\ decision.identity \in Names \union {None}
        /\ wire.identity = IF seen.identity = Select THEN decision.identity ELSE seen.identity
        /\ wire.claimed = IF seen.ver = 2
                            THEN AnswerClaimed(decision.identity, decision.claimed)
                            ELSE None
    BY <2>1 DEF Agreed
  <2>4. seen.identity = Select => decision.identity # None
    BY <2>1, NamesNever DEF Agreed, MayAllow
  <2>5. seen.identity = Select => wire.identity \in Names
    BY <2>3, <2>4
  <2>6. seen.ver = 1 => wire.identity # None /\ wire.claimed = None
    BY <2>2, <2>3, <2>4
  <2>7. seen.ver = 2 => (wire.identity = None <=> wire.claimed = None)
    BY <2>2, <2>3, <2>4 DEF AnswerClaimed
  <2> QED BY <2>3, <2>5, <2>6, <2>7
<1> QED BY <1>1, InvariantHolds, PTL

-----------------------------------------------------------------------------
(* Induction, and the texts that FlattenSeq puts together *)

\* Natural numbers that exist have a least one.
LEMMA Least ==
  ASSUME NEW T \in SUBSET Nat, T # {}
  PROVE  \E x \in T : \A y \in T : x <= y
<1> DEFINE Less == {p \in Nat \X Nat : p[1] < p[2]}
<1>1. OpToRel(<, Nat) = Less
  BY Zenon DEF OpToRel
<1>2. IsWellFoundedOn(Less, Nat)
  BY <1>1, NatLessThanWellFounded, Zenon
<1>3. PICK x \in T : \A y \in T : ~(<<y, x>> \in Less)
  BY <1>2, WFMin
<1>4. ASSUME NEW y \in T PROVE x <= y
  <2>1. ~(<<y, x>> \in Less)
    BY <1>3
  <2>2. <<y, x>> \in Nat \X Nat /\ <<y, x>>[1] = y /\ <<y, x>>[2] = x
    OBVIOUS
  <2>3. ~(y < x)
    BY <2>1, <2>2
  <2> QED BY <2>3
<1> QED BY <1>4

\* What holds of 0 and passes on to the next number holds of all.
LEMMA Induction ==
  ASSUME NEW S, 0 \in S, \A n \in Nat : n \in S => n + 1 \in S
  PROVE  \A n \in Nat : n \in S
<1> SUFFICES ASSUME Nat \ S # {} PROVE FALSE
  OBVIOUS
<1>1. PICK x \in Nat \ S : \A y \in Nat \ S : x <= y
  BY Least
<1>2. x # 0 /\ x - 1 \in Nat /\ ~(x <= x - 1)
  OBVIOUS
<1>3. x - 1 \in S
  BY <1>1, <1>2
<1> QED BY <1>2, <1>3

\* f[i] is the concatenation of the first i sequences, for i up to n.
Flattens(f, seqs, n) == f = [i \in 1..n |-> IF i = 1 THEN seqs[i] ELSE f[i-1] \o seqs[i]]

\* There is such an f, so that the CHOOSE of FlattenSeq finds one.
LEMMA FlattensExists ==
  ASSUME NEW seqs
  PROVE  \A n \in Nat : \E f : Flattens(f, seqs, n)
<1> DEFINE S == {n \in Nat : \E f : Flattens(f, seqs, n)}
<1>1. 0 \in S
  <2> DEFINE f == [i \in 1..0 |-> seqs[i]]
  <2>1. f = [i \in 1..0 |-> IF i = 1 THEN seqs[i] ELSE f[i-1] \o seqs[i]]
    OBVIOUS
  <2> QED BY <2>1 DEF Flattens
<1>2. ASSUME NEW n \in Nat, n \in S PROVE n + 1 \in S
  <2>1. PICK f : Flattens(f, seqs, n)
    BY <1>2
  <2> DEFINE g == [i \in 1..n+1 |-> IF i <= n THEN f[i]
                                    ELSE IF i = 1 THEN seqs[i] ELSE f[i-1] \o seqs[i]]
  <2>2. ASSUME NEW i \in 1..n+1
        PROVE  g[i] = IF i = 1 THEN seqs[i] ELSE g[i-1] \o seqs[i]
    <3>1. CASE i <= n
      <4>0. i \in 1..n
        BY <3>1
      <4>1. f[i] = IF i = 1 THEN seqs[i] ELSE f[i-1] \o seqs[i]
        BY <2>1, <4>0, Zenon DEF Flattens
      <4>2. i # 1 => i - 1 \in 1..n+1 /\ i - 1 <= n
        BY <3>1
      <4>3. i # 1 => g[i-1] = f[i-1]
        BY <4>2
      <4> QED BY <3>1, <4>1, <4>3
    <3>2. CASE ~(i <= n)
      <4>1. i # 1 => i - 1 \in 1..n+1 /\ i - 1 <= n
        BY <3>2
      <4>2. i # 1 => g[i-1] = f[i-1]
        BY <4>1
      <4> QED BY <3>2, <4>2
    <3> QED BY <3>1, <3>2
  <2>3. Flattens(g, seqs, n + 1)
    <3> HIDE DEF g
    <3>1. g = [i \in 1..n+1 |-> g[i]]
      BY DEF g
    <3>2. [i \in 1..n+1 |-> g[i]] = [i \in 1..n+1 |-> IF i = 1 THEN seqs[i] ELSE g[i-1] \o seqs[i]]
      BY <2>2
    <3> QED BY <3>1, <3>2 DEF Flattens
  <2> QED BY <2>3
<1> HIDE DEF S
<1>3. \A n \in Nat : n \in S
  BY <1>1, <1>2, Induction
<1> QED BY <1>3 DEF S

\* FlattenSeq appends one sequence after the other.
LEMMA FlattenSteps ==
  ASSUME NEW seqs, Len(seqs) \in Nat, Len(seqs) # 0
  PROVE  \E f : /\ FlattenSeq(seqs) = f[Len(seqs)]
                /\ f[1] = seqs[1]
                /\ \A i \in 1..Len(seqs) : i # 1 => f[i] = f[i-1] \o seqs[i]
<1> DEFINE f == CHOOSE g : Flattens(g, seqs, Len(seqs))
<1>1. FlattenSeq(seqs) = f[Len(seqs)]
  BY DEF FlattenSeq, Flattens
<1>2. Flattens(f, seqs, Len(seqs))
  BY FlattensExists
<1> HIDE DEF f
<1>3. f = [i \in 1..Len(seqs) |-> IF i = 1 THEN seqs[i] ELSE f[i-1] \o seqs[i]]
  BY <1>2 DEF Flattens
<1>4. ASSUME NEW i \in 1..Len(seqs)
      PROVE  f[i] = IF i = 1 THEN seqs[i] ELSE f[i-1] \o seqs[i]
  BY <1>3, Zenon
<1>5. 1 \in 1..Len(seqs)
  OBVIOUS
<1>6. f[1] = seqs[1]
  BY <1>4, <1>5
<1>7. \A i \in 1..Len(seqs) : i # 1 => f[i] = f[i-1] \o seqs[i]
  BY <1>4
<1> QED BY <1>1, <1>6, <1>7

-----------------------------------------------------------------------------
(* Texts made of parts that follow delimiters *)

Delimiter(first, next, i) == IF i = 1 THEN first ELSE next

\* text is the first n parts, each after its delimiter; off[i] is where the
\* ith part ends.
Layout(text, off, first, next, parts, n) ==
  /\ off[0] = 0 /\ off[n] = Len(text)
  /\ \A i \in 0..n : off[i] \in Nat /\ off[i] <= Len(text)
  /\ \A i \in 1..n :
       /\ off[i] = off[i-1] + 1 + Len(parts[i])
       /\ text[off[i-1] + 1] = Delimiter(first, next, i)
       /\ \A k \in 1..Len(parts[i]) : text[off[i-1] + 1 + k] = parts[i][k]

\* Positions in a part, from b + 1 to e, are positions in the text.
LEMMA Within ==
  ASSUME NEW b \in Nat, NEW e \in Nat, NEW l \in Nat, NEW n \in Nat, e = b + 1 + l, e <= n
  PROVE  b + 1 \in 1..n /\ \A k \in 1..l : b + 1 + k \in 1..n
OBVIOUS

\* What joining two texts yields.
LEMMA Concat ==
  ASSUME NEW S, NEW a \in Seq(S), NEW b \in Seq(S), NEW u, u = a \o b
  PROVE  /\ u \in Seq(S) /\ Len(u) = Len(a) + Len(b)
         /\ Len(a) \in Nat /\ Len(b) \in Nat /\ Len(u) \in Nat
         /\ \A i \in 1..Len(a) : u[i] = a[i]
         /\ \A i \in 1..Len(b) : u[Len(a) + i] = b[i]
<1>1. u \in Seq(S) /\ Len(u) = Len(a) + Len(b) /\ Len(a) \in Nat /\ Len(b) \in Nat
  OBVIOUS
<1>2. \A i \in 1..Len(a) : u[i] = a[i]
  OBVIOUS
<1>3. \A i \in 1..Len(b) : u[Len(a) + i] = b[i]
  OBVIOUS
<1> QED BY <1>1, <1>2, <1>3

\* The text with one more part.
LEMMA LayoutNext ==
  ASSUME NEW Char, NEW first \in Char, NEW next \in Char, NEW parts \in Seq(Seq(Char)),
         NEW n \in Nat, n + 1 \in 1..Len(parts), NEW off, NEW text \in Seq(Char),
         Layout(text, off, first, next, parts, n),
         NEW more \in Seq(Char), more = <<Delimiter(first, next, n + 1)>> \o parts[n+1],
         off[n+1] = Len(text \o more)
  PROVE  Layout(text \o more, off, first, next, parts, n + 1)
<1> DEFINE u == text \o more
           p == parts[n+1]
           d == Delimiter(first, next, n + 1)
<1>1. p \in Seq(Char) /\ Len(p) \in Nat
  OBVIOUS
<1>2. d \in Char /\ more = <<d>> \o p
  BY DEF Delimiter
<1> HIDE DEF d, p
<1>3. /\ Len(more) = 1 + Len(p) /\ more[1] = d
      /\ \A k \in 1..Len(p) : more[1 + k] = p[k]
  BY <1>1, <1>2
<1>4. /\ u \in Seq(Char) /\ Len(u) = Len(text) + 1 + Len(p) /\ Len(text) \in Nat
      /\ \A k \in 1..Len(text) : u[k] = text[k]
      /\ \A k \in 1..Len(more) : u[Len(text) + k] = more[k]
  <2>1. /\ u \in Seq(Char) /\ Len(u) = Len(text) + Len(more) /\ Len(text) \in Nat
        /\ \A k \in 1..Len(text) : u[k] = text[k]
        /\ \A k \in 1..Len(more) : u[Len(text) + k] = more[k]
    BY Concat
  <2> HIDE DEF u
  <2> QED BY <1>1, <1>3, <2>1
<1> HIDE DEF u
<1>5. off[n] = Len(text) /\ off[n+1] = Len(u)
  BY DEF Layout, u
<1>6. ASSUME NEW i \in 0..(n+1) PROVE off[i] \in Nat /\ off[i] <= Len(u)
  <2>1. CASE i \in 0..n
    BY <1>4, <2>1 DEF Layout
  <2>2. CASE i = n + 1
    BY <1>4, <1>5, <2>2
  <2> QED BY <2>1, <2>2
<1>7. ASSUME NEW i \in 1..(n+1)
      PROVE  /\ off[i] = off[i-1] + 1 + Len(parts[i])
             /\ u[off[i-1] + 1] = Delimiter(first, next, i)
             /\ \A k \in 1..Len(parts[i]) : u[off[i-1] + 1 + k] = parts[i][k]
  <2>1. CASE i \in 1..n
    <3>1. /\ off[i] = off[i-1] + 1 + Len(parts[i])
          /\ text[off[i-1] + 1] = Delimiter(first, next, i)
          /\ \A k \in 1..Len(parts[i]) : text[off[i-1] + 1 + k] = parts[i][k]
      BY <2>1 DEF Layout
    <3>2. off[i] \in Nat /\ off[i] <= Len(text) /\ off[i-1] \in Nat
      <4>1. i \in 0..n /\ i - 1 \in 0..n
        BY <2>1
      <4> QED BY <4>1 DEF Layout
    <3>3. parts[i] \in Seq(Char) /\ Len(parts[i]) \in Nat
      BY <2>1
    <3>6. off[i] = off[i-1] + 1 + Len(parts[i]) /\ Len(text) \in Nat
      BY <1>4, <3>1
    <3>7. /\ off[i-1] + 1 \in 1..Len(text)
          /\ \A k \in 1..Len(parts[i]) : off[i-1] + 1 + k \in 1..Len(text)
      BY <3>2, <3>3, <3>6, Within, Zenon
    <3>8. \A k \in 1..Len(text) : u[k] = text[k]
      BY <1>4
    <3>4. u[off[i-1] + 1] = text[off[i-1] + 1]
      BY <3>7, <3>8, Zenon
    <3>5. ASSUME NEW k \in 1..Len(parts[i]) PROVE u[off[i-1] + 1 + k] = text[off[i-1] + 1 + k]
      BY <3>7, <3>8, Zenon
    <3> QED BY <3>1, <3>4, <3>5
  <2>2. CASE i = n + 1
    <3>1. off[i-1] = Len(text) /\ parts[i] = p
      BY <1>5, <2>2 DEF p
    <3>2. off[i] = Len(text) + 1 + Len(p)
      BY <1>4, <1>5, <2>2
    <3>3. u[Len(text) + 1] = Delimiter(first, next, i)
      <4>1. 1 \in 1..Len(more)
        BY <1>1, <1>3
      <4> QED BY <1>3, <1>4, <2>2, <4>1 DEF d
    <3>4. ASSUME NEW k \in 1..Len(p) PROVE u[Len(text) + 1 + k] = p[k]
      <4>1. 1 + k \in 1..Len(more) /\ Len(text) + (1 + k) = Len(text) + 1 + k
        BY <1>1, <1>3, <1>4
      <4> QED BY <1>3, <1>4, <4>1
    <3> QED BY <3>1, <3>2, <3>3, <3>4
  <2> QED BY <2>1, <2>2
<1>8. off[0] = 0
  BY DEF Layout
<1> QED BY <1>5, <1>6, <1>7, <1>8 DEF Layout, u

\* What joining the parts yields.
LEMMA JoinedLayout ==
  ASSUME NEW Char, NEW first \in Char, NEW next \in Char, NEW parts \in Seq(Seq(Char))
  PROVE  /\ Joined(first, next, parts) \in Seq(Char)
         /\ \E off : Layout(Joined(first, next, parts), off, first, next, parts, Len(parts))
<1> DEFINE piece(i) == <<Delimiter(first, next, i)>> \o parts[i]
           seqs == [i \in DOMAIN parts |-> piece(i)]
<1>1. Joined(first, next, parts) = FlattenSeq(seqs)
  BY DEF Joined, Delimiter
<1>2. Len(parts) \in Nat /\ DOMAIN parts = 1..Len(parts)
  OBVIOUS
<1>3. \A i \in 1..Len(parts) : piece(i) \in Seq(Char)
  BY DEF Delimiter
<1> HIDE DEF piece
<1>4. Len(seqs) = Len(parts) /\ seqs \in Seq(Seq(Char)) /\ \A i \in 1..Len(parts) : seqs[i] = piece(i)
  BY <1>2, <1>3
<1> HIDE DEF seqs
<1>5. CASE parts = <<>>
  <2>1. FlattenSeq(seqs) = <<>>
    BY <1>4, <1>5 DEF FlattenSeq
  <2>2. Layout(<<>>, [i \in {0} |-> 0], first, next, parts, 0)
    BY DEF Layout
  <2> QED BY <1>1, <1>5, <2>1, <2>2
<1>6. CASE parts # <<>>
  <2>1. Len(seqs) # 0 /\ Len(seqs) \in Nat
    BY <1>2, <1>4, <1>6
  <2>2. PICK f : /\ FlattenSeq(seqs) = f[Len(seqs)]
                 /\ f[1] = seqs[1]
                 /\ \A i \in 1..Len(seqs) : i # 1 => f[i] = f[i-1] \o seqs[i]
    BY <2>1, FlattenSteps
  <2> DEFINE off == [i \in 0..Len(parts) |-> IF i = 0 THEN 0 ELSE Len(f[i])]
             Good(n) == f[n] \in Seq(Char) /\ Layout(f[n], off, first, next, parts, n)
             T == {n \in Nat : n + 1 \in 1..Len(parts) => Good(n + 1)}
  <2>3. off[0] = 0 /\ \A i \in 1..Len(parts) : off[i] = Len(f[i])
    BY <1>2
  <2> HIDE DEF off
  <2>4. 0 \in T
    <3>1. 1 \in 1..Len(parts) /\ f[1] = piece(1) /\ piece(1) \in Seq(Char)
      BY <1>3, <1>4, <2>1, <2>2
    <3>2. <<>> \in Seq(Char) /\ Layout(<<>>, off, first, next, parts, 0)
      BY <2>3 DEF Layout
    <3>3. <<>> \o piece(1) = piece(1) /\ off[1] = Len(piece(1))
      BY <2>3, <3>1
    <3>4. 0 + 1 \in 1..Len(parts) /\ off[0+1] = Len(<<>> \o piece(1))
      BY <3>1, <3>3
    <3>5. Layout(<<>> \o piece(1), off, first, next, parts, 0 + 1)
      <4>1. piece(1) = <<Delimiter(first, next, 0 + 1)>> \o parts[0+1]
        BY DEF piece
      <4> QED BY <3>1, <3>2, <3>4, <4>1, LayoutNext
    <3>6. 0 + 1 = 1
      OBVIOUS
    <3> QED BY <3>1, <3>3, <3>5, <3>6
  <2>5. ASSUME NEW n \in Nat, n \in T PROVE n + 1 \in T
    <3> SUFFICES ASSUME n + 2 \in 1..Len(parts) PROVE Good(n + 2)
      OBVIOUS
    <3>1. n + 1 \in 1..Len(parts) /\ n + 1 \in Nat
      BY <1>2
    <3>2. f[n+1] \in Seq(Char) /\ Layout(f[n+1], off, first, next, parts, n + 1)
      BY <2>5, <3>1
    <3>3. f[n+2] = f[n+1] \o piece(n+2)
      <4>1. n + 2 # 1 /\ (n + 2) - 1 = n + 1
        OBVIOUS
      <4> QED BY <1>4, <2>2, <4>1
    <3>4. piece(n+2) \in Seq(Char) /\ off[n+2] = Len(f[n+2])
      BY <1>3, <2>3
    <3>5. f[n+2] \in Seq(Char)
      BY <3>2, <3>3, <3>4
    <3>6. (n + 1) + 1 = n + 2
      OBVIOUS
    <3>7. Layout(f[n+1] \o piece(n+2), off, first, next, parts, n + 2)
      BY <3>1, <3>2, <3>3, <3>4, <3>6, LayoutNext DEF piece
    <3> QED BY <3>3, <3>5, <3>7
  <2> HIDE DEF T
  <2>6. \A n \in Nat : n \in T
    BY <2>4, <2>5, Induction
  <2>7. Len(parts) - 1 \in Nat /\ (Len(parts) - 1) + 1 = Len(parts) /\ Len(parts) \in 1..Len(parts)
    BY <1>4, <2>1
  <2>8. Good(Len(parts))
    BY <2>6, <2>7 DEF T
  <2> QED BY <1>1, <1>4, <2>2, <2>8
<1> QED BY <1>5, <1>6

\* The same in one go, for parts that do not contain the delimiter.
Parted(text, off, Char, first, next, parts) ==
  /\ first \in Char /\ next \in Char
  /\ parts \in Seq(Seq(Char \ {next}))
  /\ text \in Seq(Char)
  /\ Layout(text, off, first, next, parts, Len(parts))

\* What the layout says of the ith part.
PieceOK(text, off, first, next, parts, i) ==
  /\ off[i-1] \in Nat /\ off[i] \in Nat /\ Len(parts[i]) \in Nat /\ Len(text) \in Nat
  /\ off[i] = off[i-1] + 1 + Len(parts[i])
  /\ off[i] <= Len(text)
  /\ off[i-1] + 1 \in 1..Len(text)
  /\ text[off[i-1] + 1] = Delimiter(first, next, i)
  /\ \A k \in 1..Len(parts[i]) : /\ off[i-1] + 1 + k \in 1..Len(text)
                                 /\ text[off[i-1] + 1 + k] = parts[i][k]
                                 /\ parts[i][k] # next

LEMMA Piece ==
  ASSUME NEW text, NEW off, NEW Char, NEW first, NEW next, NEW parts,
         Parted(text, off, Char, first, next, parts), NEW i \in 1..Len(parts)
  PROVE  PieceOK(text, off, first, next, parts, i)
<1>1. /\ parts \in Seq(Seq(Char \ {next})) /\ text \in Seq(Char)
      /\ Layout(text, off, first, next, parts, Len(parts))
  BY DEF Parted
<1>2. i \in 0..Len(parts) /\ i - 1 \in 0..Len(parts)
  BY <1>1
<1>3. /\ off[i-1] \in Nat /\ off[i] \in Nat /\ off[i] <= Len(text)
      /\ off[i] = off[i-1] + 1 + Len(parts[i])
      /\ text[off[i-1] + 1] = Delimiter(first, next, i)
      /\ \A k \in 1..Len(parts[i]) : text[off[i-1] + 1 + k] = parts[i][k]
  BY <1>1, <1>2, Zenon DEF Layout
<1>4. parts[i] \in Seq(Char \ {next}) /\ Len(parts[i]) \in Nat /\ Len(text) \in Nat
  BY <1>1
<1>5. \A k \in 1..Len(parts[i]) : parts[i][k] # next
  BY <1>4
<1>6. /\ off[i-1] + 1 \in 1..Len(text)
      /\ \A k \in 1..Len(parts[i]) : off[i-1] + 1 + k \in 1..Len(text)
  BY <1>3, <1>4, Within, Zenon
<1> QED BY <1>3, <1>4, <1>5, <1>6, Zenon DEF PieceOK

\* Position p is the delimiter of the ith part, or in it.
InPart(off, parts, i, p) ==
  \/ p = off[i-1] + 1
  \/ \E k \in 1..Len(parts[i]) : p = off[i-1] + 1 + k

\* Every character belongs to a part.
LEMMA Located ==
  ASSUME NEW text, NEW off, NEW Char, NEW first, NEW next, NEW parts,
         Parted(text, off, Char, first, next, parts), NEW p \in 1..Len(text)
  PROVE  \E i \in 1..Len(parts) : InPart(off, parts, i, p)
<1>1. /\ Len(parts) \in Nat /\ Len(text) \in Nat /\ p \in Nat
      /\ off[0] = 0 /\ off[Len(parts)] = Len(text)
  BY DEF Parted, Layout
<1> DEFINE S == {i \in 0..Len(parts) : p <= off[i]}
<1>2. S \in SUBSET Nat /\ Len(parts) \in S
  BY <1>1
<1>3. PICK i \in S : \A j \in S : i <= j
  BY <1>2, Least
<1>4. i # 0 /\ i \in 1..Len(parts)
  BY <1>1
<1>5. i - 1 \in 0..Len(parts) /\ i - 1 \notin S
  BY <1>1, <1>3, <1>4
<1>6. p <= off[i] /\ ~(p <= off[i-1])
  BY <1>5
<1>7. /\ off[i-1] \in Nat /\ off[i] = off[i-1] + 1 + Len(parts[i]) /\ Len(parts[i]) \in Nat
  BY <1>4, Piece DEF PieceOK
<1>8. p = off[i-1] + 1 \/ \E k \in 1..Len(parts[i]) : p = off[i-1] + 1 + k
  <2> DEFINE b == off[i-1]
             e == off[i]
             l == Len(parts[i])
  <2>1. b \in Nat /\ e = b + 1 + l /\ l \in Nat /\ p <= e /\ ~(p <= b)
    BY <1>6, <1>7
  <2> HIDE DEF b, e, l
  <2>2. p = b + 1 \/ p - b - 1 \in 1..l
    BY <1>1, <2>1
  <2>3. p = b + 1 + (p - b - 1)
    BY <1>1, <2>1
  <2>4. p = b + 1 \/ \E k \in 1..l : p = b + 1 + k
    BY <2>2, <2>3
  <2> QED BY <2>4 DEF b, l
<1> QED BY <1>4, <1>8 DEF InPart

Starts(s, t) == Len(s) <= Len(t) /\ \A i \in 1..Len(s) : s[i] = t[i]

\* IsPrefix, character by character.
LEMMA PrefixStarts ==
  ASSUME NEW S, NEW s \in Seq(S), NEW t \in Seq(S)
  PROVE  IsPrefix(s, t) <=> Starts(s, t)
<1>1. CASE Len(s) <= Len(t)
  <2>1. /\ SubSeq(s, 1, Len(s)) \in Seq(S) /\ SubSeq(t, 1, Len(s)) \in Seq(S)
        /\ Len(SubSeq(s, 1, Len(s))) = Len(s) /\ Len(SubSeq(t, 1, Len(s))) = Len(s)
    BY <1>1
  <2>2. \A i \in 1..Len(s) : SubSeq(s, 1, Len(s))[i] = s[i] /\ SubSeq(t, 1, Len(s))[i] = t[i]
    BY <1>1
  <2>3. SubSeq(s, 1, Len(s)) = SubSeq(t, 1, Len(s)) <=> \A i \in 1..Len(s) : s[i] = t[i]
    <3> DEFINE x == SubSeq(s, 1, Len(s))
               y == SubSeq(t, 1, Len(s))
    <3>1. x \in Seq(S) /\ y \in Seq(S) /\ Len(x) = Len(s) /\ Len(y) = Len(s) /\ Len(s) \in Nat
      BY <2>1
    <3>2. \A i \in 1..Len(s) : x[i] = s[i] /\ y[i] = t[i]
      BY <2>2
    <3> HIDE DEF x, y
    <3>3. x = y <=> \A i \in 1..Len(s) : x[i] = y[i]
      BY <3>1
    <3>4. x = y <=> \A i \in 1..Len(s) : s[i] = t[i]
      BY <3>2, <3>3
    <3> QED BY <3>4 DEF x, y
  <2> QED BY <1>1, <2>3 DEF IsPrefix, Starts
<1>2. CASE ~(Len(s) <= Len(t))
  BY <1>2 DEF IsPrefix, Starts
<1> QED BY <1>1, <1>2

\* The start of a sequence that is not longer is all of it.
LEMMA StartsBoth ==
  ASSUME NEW S, NEW s \in Seq(S), NEW t \in Seq(S), Starts(s, t), Len(t) <= Len(s)
  PROVE  s = t
BY DEF Starts

\* Two texts, one of which starts the other: so far as their parts end at the
\* same place, the next part of one starts that of the other.
LEMMA NextPart ==
  ASSUME NEW Char, NEW first, NEW next,
         NEW T, NEW o, NEW s, Parted(T, o, Char, first, next, s),
         NEW V, NEW q, NEW t, Parted(V, q, Char, first, next, t),
         Starts(T, V), NEW i \in 1..Len(s), i \in 1..Len(t), o[i-1] = q[i-1]
  PROVE  /\ Starts(s[i], t[i])
         /\ i < Len(s) => s[i] = t[i] /\ o[i] = q[i]
<1> DEFINE b == o[i-1]
           x == s[i]
           y == t[i]
<1>0. PieceOK(T, o, first, next, s, i) /\ PieceOK(V, q, first, next, t, i)
  BY Piece
<1>1. /\ b \in Nat /\ o[i] \in Nat /\ Len(x) \in Nat /\ Len(T) \in Nat
      /\ o[i] = b + 1 + Len(x) /\ o[i] <= Len(T)
      /\ \A k \in 1..Len(x) : /\ b + 1 + k \in 1..Len(T)
                              /\ T[b + 1 + k] = x[k]
                              /\ x[k] # next
  BY <1>0, Zenon DEF PieceOK
<1>2. /\ q[i] \in Nat /\ Len(y) \in Nat /\ Len(V) \in Nat
      /\ q[i] = b + 1 + Len(y) /\ q[i] <= Len(V)
      /\ \A k \in 1..Len(y) : V[b + 1 + k] = y[k] /\ y[k] # next
  BY <1>0, Zenon DEF PieceOK
<1>3. Len(T) <= Len(V) /\ \A p \in 1..Len(T) : T[p] = V[p]
  BY DEF Starts
<1>5. /\ Len(s) \in Nat /\ Len(t) \in Nat /\ x \in Seq(Char \ {next})
      /\ y \in Seq(Char \ {next}) /\ q[Len(t)] = Len(V)
  <2>1. /\ s \in Seq(Seq(Char \ {next})) /\ t \in Seq(Seq(Char \ {next}))
        /\ q[Len(t)] = Len(V)
    BY Zenon DEF Parted, Layout
  <2> QED BY <2>1
<1>9. i < Len(s) => o[i] + 1 \in 1..Len(T) /\ T[o[i] + 1] = next
  <2> SUFFICES ASSUME i < Len(s) PROVE o[i] + 1 \in 1..Len(T) /\ T[o[i] + 1] = next
    OBVIOUS
  <2>1. i + 1 \in 1..Len(s) /\ (i + 1) - 1 = i /\ i + 1 # 1
    BY <1>5
  <2>2. PieceOK(T, o, first, next, s, i + 1)
    BY <2>1, Piece
  <2> QED BY <2>1, <2>2 DEF PieceOK, Delimiter
<1>10. i < Len(t) => V[q[i] + 1] = next
  <2> SUFFICES ASSUME i < Len(t) PROVE V[q[i] + 1] = next
    OBVIOUS
  <2>1. i + 1 \in 1..Len(t) /\ (i + 1) - 1 = i /\ i + 1 # 1
    BY <1>5
  <2>2. PieceOK(V, q, first, next, t, i + 1)
    BY <2>1, Piece
  <2> QED BY <2>1, <2>2 DEF PieceOK, Delimiter
<1> HIDE DEF b, x, y
<1>4. \A k \in 1..Len(x) : k \in 1..Len(y) => x[k] = y[k]
  <2> SUFFICES ASSUME NEW k \in 1..Len(x), k \in 1..Len(y) PROVE x[k] = y[k]
    OBVIOUS
  <2>1. b + 1 + k \in 1..Len(T) /\ T[b + 1 + k] = x[k]
    BY <1>1
  <2>2. V[b + 1 + k] = y[k]
    BY <1>2
  <2>3. T[b + 1 + k] = V[b + 1 + k]
    BY <1>3, <2>1
  <2> QED BY <2>1, <2>2, <2>3
<1>6. Len(x) <= Len(y)
  <2> SUFFICES ASSUME Len(y) < Len(x) PROVE FALSE
    BY <1>1, <1>2
  <2> DEFINE k == Len(y) + 1
  <2>1. k \in 1..Len(x) /\ b + 1 + k = q[i] + 1
    BY <1>1, <1>2
  <2> HIDE DEF k
  <2>2. V[q[i] + 1] # next
    <3>1. b + 1 + k \in 1..Len(T) /\ T[b + 1 + k] # next
      BY <1>1, <2>1, Zenon
    <3>2. V[b + 1 + k] # next
      BY <1>3, <3>1, Zenon
    <3> QED BY <2>1, <3>2, Zenon
  <2>3. i = Len(t)
    BY <1>5, <1>10, <2>2
  <2>4. q[i] = Len(V)
    BY <1>5, <2>3
  <2> QED BY <1>1, <1>2, <1>3, <2>4
<1>7. Starts(x, y)
  <2>1. \A k \in 1..Len(x) : k \in 1..Len(y)
    BY <1>1, <1>2, <1>6
  <2> QED BY <1>4, <1>6, <2>1 DEF Starts
<1>8. ASSUME i < Len(s) PROVE Len(y) <= Len(x)
  <2> SUFFICES ASSUME Len(x) < Len(y) PROVE FALSE
    BY <1>1, <1>2
  <2> DEFINE k == Len(x) + 1
  <2>1. k \in 1..Len(y) /\ b + 1 + k = o[i] + 1
    BY <1>1, <1>2
  <2> HIDE DEF k
  <2>2. V[o[i] + 1] # next
    BY <1>2, <2>1, Zenon
  <2> QED BY <1>3, <1>8, <1>9, <2>2, Zenon
<1>11. ASSUME i < Len(s) PROVE x = y /\ o[i] = q[i]
  <2>1. x = y
    BY <1>5, <1>7, <1>8, <1>11, StartsBoth
  <2> QED BY <1>1, <1>2, <2>1
<1> QED BY <1>7, <1>11 DEF x, y

\* The parts s are those t begins with, the last of them maybe longer in t.
PartsStart(s, t) ==
  /\ Len(s) <= Len(t)
  /\ \A i \in 1..Len(s)-1 : s[i] = t[i]
  /\ Starts(s[Len(s)], t[Len(s)])

\* If one text starts another, its parts start those of the other.
LEMMA TextStarts ==
  ASSUME NEW Char, NEW first, NEW next,
         NEW T, NEW o, NEW s, Parted(T, o, Char, first, next, s), s # <<>>,
         NEW V, NEW q, NEW t, Parted(V, q, Char, first, next, t),
         Starts(T, V)
  PROVE  PartsStart(s, t) /\ o[Len(s)-1] = q[Len(s)-1]
<1>1. /\ Len(s) \in Nat /\ Len(t) \in Nat /\ Len(s) # 0 /\ Len(T) \in Nat /\ Len(V) \in Nat
      /\ o[0] = 0 /\ q[0] = 0 /\ q[Len(t)] = Len(V)
  BY DEF Parted, Layout
<1> DEFINE S == {n \in Nat : n <= Len(s) - 1 =>
                   n <= Len(t) /\ o[n] = q[n] /\ \A i \in 1..n : s[i] = t[i]}
<1>2. 0 \in S
  BY <1>1
<1>3. ASSUME NEW n \in Nat, n \in S, n <= Len(s) - 1
      PROVE  n < Len(t)
  <2>1. n + 1 \in 1..Len(s) /\ (n + 1) - 1 = n
    BY <1>1, <1>3
  <2>0. PieceOK(T, o, first, next, s, n + 1)
    BY <2>1, Piece
  <2>2. o[n] + 1 \in 1..Len(T) /\ o[n] \in Nat
    BY <2>0, <2>1 DEF PieceOK
  <2>3. n <= Len(t) /\ o[n] = q[n]
    BY <1>3
  <2>4. Len(T) <= Len(V)
    BY DEF Starts
  <2>5. q[n] # Len(V)
    BY <1>1, <2>2, <2>3, <2>4
  <2> QED BY <1>1, <2>3, <2>5
<1>4. ASSUME NEW n \in Nat, n \in S PROVE n + 1 \in S
  <2> SUFFICES ASSUME n + 1 <= Len(s) - 1
               PROVE  n + 1 <= Len(t) /\ o[n+1] = q[n+1] /\ \A i \in 1..n+1 : s[i] = t[i]
    OBVIOUS
  <2>1. n <= Len(s) - 1 /\ n + 1 \in 1..Len(s) /\ (n + 1) - 1 = n /\ n + 1 < Len(s)
    BY <1>1
  <2>2. n + 1 \in 1..Len(t) /\ o[n] = q[n] /\ \A i \in 1..n : s[i] = t[i]
    BY <1>1, <1>3, <1>4, <2>1
  <2>3. s[n+1] = t[n+1] /\ o[n+1] = q[n+1]
    BY <2>1, <2>2, NextPart
  <2> QED BY <2>2, <2>3
<1> HIDE DEF S
<1>5. \A n \in Nat : n \in S
  BY <1>2, <1>4, Induction
<1> DEFINE n == Len(s) - 1
<1>6. n \in Nat /\ n + 1 = Len(s) /\ (n + 1) - 1 = n /\ n + 1 \in 1..Len(s)
  BY <1>1
<1>7. n < Len(t) /\ o[n] = q[n] /\ \A i \in 1..n : s[i] = t[i]
  BY <1>3, <1>5, <1>6 DEF S
<1>8. n + 1 \in 1..Len(t)
  BY <1>1, <1>6, <1>7
<1>9. Starts(s[n+1], t[n+1])
  BY <1>6, <1>7, <1>8, NextPart
<1> QED BY <1>1, <1>6, <1>7, <1>8, <1>9 DEF PartsStart

\* And the other way round.
LEMMA PartsStartText ==
  ASSUME NEW Char, NEW first, NEW next,
         NEW T, NEW o, NEW s, Parted(T, o, Char, first, next, s), s # <<>>,
         NEW V, NEW q, NEW t, Parted(V, q, Char, first, next, t),
         PartsStart(s, t)
  PROVE  Starts(T, V) /\ o[Len(s)-1] = q[Len(s)-1]
<1>1. /\ Len(s) \in Nat /\ Len(t) \in Nat /\ Len(s) # 0 /\ Len(T) \in Nat /\ Len(V) \in Nat
      /\ o[0] = 0 /\ q[0] = 0 /\ o[Len(s)] = Len(T)
  BY DEF Parted, Layout
<1>2. Len(s) <= Len(t) /\ \A i \in 1..Len(s)-1 : s[i] = t[i]
  BY DEF PartsStart
<1> DEFINE S == {n \in Nat : n <= Len(s) - 1 => o[n] = q[n]}
<1>3. 0 \in S
  BY <1>1
<1>4. ASSUME NEW n \in Nat, n \in S PROVE n + 1 \in S
  <2> SUFFICES ASSUME n + 1 <= Len(s) - 1 PROVE o[n+1] = q[n+1]
    OBVIOUS
  <2>1. /\ n + 1 \in 1..Len(s) /\ n + 1 \in 1..Len(t) /\ n + 1 \in 1..Len(s)-1
        /\ (n + 1) - 1 = n /\ n <= Len(s) - 1
    BY <1>1, <1>2
  <2>0. PieceOK(T, o, first, next, s, n + 1) /\ PieceOK(V, q, first, next, t, n + 1)
    BY <2>1, Piece
  <2>2. o[n+1] = o[n] + 1 + Len(s[n+1])
    BY <2>0, <2>1 DEF PieceOK
  <2>3. q[n+1] = q[n] + 1 + Len(t[n+1])
    BY <2>0, <2>1 DEF PieceOK
  <2>4. s[n+1] = t[n+1] /\ o[n] = q[n]
    BY <1>2, <1>4, <2>1
  <2> QED BY <2>2, <2>3, <2>4
<1> HIDE DEF S
<1>5. \A n \in Nat : n \in S
  BY <1>3, <1>4, Induction
<1>6. \A i \in 1..Len(s) : o[i-1] = q[i-1]
  <2>1. ASSUME NEW i \in 1..Len(s) PROVE i - 1 \in Nat /\ i - 1 <= Len(s) - 1
    BY <1>1
  <2> QED BY <1>5, <2>1 DEF S
<1>7. ASSUME NEW i \in 1..Len(s) PROVE Starts(s[i], t[i])
  <2>1. CASE i = Len(s)
    BY <2>1 DEF PartsStart
  <2>2. CASE i # Len(s)
    <3>1. i \in 1..Len(s)-1
      BY <1>1, <2>2
    <3>2. s[i] = t[i]
      BY <1>2, <3>1
    <3>3. Len(s[i]) \in Nat
      BY Piece DEF PieceOK
    <3> QED BY <3>2, <3>3 DEF Starts
  <2> QED BY <2>1, <2>2
<1>8. ASSUME NEW p \in 1..Len(T) PROVE T[p] = V[p]
  <2>1. PICK i \in 1..Len(s) : InPart(o, s, i, p)
    BY Located
  <2>2. i \in 1..Len(t) /\ o[i-1] = q[i-1] /\ Starts(s[i], t[i])
    BY <1>1, <1>2, <1>6, <1>7
  <2>5. PieceOK(T, o, first, next, s, i) /\ PieceOK(V, q, first, next, t, i)
    BY <2>2, Piece
  <2>3. CASE p = o[i-1] + 1
    <3>1. T[p] = Delimiter(first, next, i)
      BY <2>3, <2>5, Zenon DEF PieceOK
    <3>2. V[p] = Delimiter(first, next, i)
      BY <2>2, <2>3, <2>5, Zenon DEF PieceOK
    <3> QED BY <3>1, <3>2
  <2>4. CASE \E k \in 1..Len(s[i]) : p = o[i-1] + 1 + k
    <3>1. PICK k \in 1..Len(s[i]) : p = o[i-1] + 1 + k
      BY <2>4
    <3>2. Len(s[i]) \in Nat /\ T[p] = s[i][k]
      BY <2>5, <3>1, Zenon DEF PieceOK
    <3>3. Len(t[i]) \in Nat /\ \A j \in 1..Len(t[i]) : V[q[i-1] + 1 + j] = t[i][j]
      BY <2>5, Zenon DEF PieceOK
    <3>4. k \in 1..Len(t[i]) /\ s[i][k] = t[i][k]
      BY <2>2, <3>2, <3>3 DEF Starts
    <3> QED BY <2>2, <3>1, <3>2, <3>3, <3>4, Zenon
  <2> QED BY <2>1, <2>3, <2>4 DEF InPart
<1>9. Len(T) <= Len(V)
  <2> DEFINE m == Len(s)
  <2>1. m \in 1..Len(s) /\ m \in 1..Len(t) /\ m - 1 \in Nat
    BY <1>1, <1>2
  <2>6. PieceOK(T, o, first, next, s, m) /\ PieceOK(V, q, first, next, t, m)
    BY <2>1, Piece
  <2>2. o[m] = o[m-1] + 1 + Len(s[m]) /\ o[m-1] \in Nat /\ Len(s[m]) \in Nat
    BY <2>6, Zenon DEF PieceOK
  <2>3. /\ q[m] = q[m-1] + 1 + Len(t[m]) /\ q[m] <= Len(V) /\ q[m] \in Nat
        /\ Len(t[m]) \in Nat
    BY <2>6, Zenon DEF PieceOK
  <2>4. Len(s[m]) <= Len(t[m]) /\ o[m-1] = q[m-1]
    BY <1>6, <1>7, <2>1 DEF Starts
  <2>5. Len(T) = o[m]
    BY <1>1
  <2> DEFINE b == o[m-1]
             c == Len(s[m])
             d == Len(t[m])
  <2>7. /\ Len(T) = b + 1 + c /\ b \in Nat /\ c \in Nat /\ q[m] = b + 1 + d /\ d \in Nat
        /\ c <= d /\ q[m] <= Len(V) /\ q[m] \in Nat
    BY <2>2, <2>3, <2>4, <2>5
  <2> HIDE DEF m, b, c, d
  <2> QED BY <1>1, <2>7
<1>10. o[Len(s)-1] = q[Len(s)-1]
  BY <1>1, <1>6
<1> QED BY <1>8, <1>9, <1>10 DEF Starts

\* Where one text, whose last part is the mth, goes on in the other: within
\* that part, or with another one.
Onward(T, V, first, next, m, x, y) ==
  /\ Len(T) = Len(V) => Len(x) = Len(y)
  /\ Len(T) < Len(V) => V[Len(T) + 1] = IF Len(x) < Len(y) THEN y[Len(x) + 1] ELSE next
  /\ Len(T) # 0
  /\ T[Len(T)] = IF Len(x) = 0 THEN Delimiter(first, next, m) ELSE x[Len(x)]

LEMMA GoesOn ==
  ASSUME NEW Char, NEW first, NEW next,
         NEW T, NEW o, NEW s, Parted(T, o, Char, first, next, s), s # <<>>,
         NEW V, NEW q, NEW t, Parted(V, q, Char, first, next, t),
         PartsStart(s, t), NEW x, x = s[Len(s)], NEW y, y = t[Len(s)]
  PROVE  Onward(T, V, first, next, Len(s), x, y)
<1> DEFINE m == Len(s)
           b == o[m-1]
<1>1. /\ m \in Nat /\ Len(t) \in Nat /\ m # 0 /\ m <= Len(t) /\ o[m] = Len(T)
      /\ q[Len(t)] = Len(V) /\ Len(T) \in Nat /\ Len(V) \in Nat
  BY DEF Parted, Layout, PartsStart
<1>2. m \in 1..Len(s) /\ m \in 1..Len(t)
  BY <1>1
<1>3. PieceOK(T, o, first, next, s, m) /\ PieceOK(V, q, first, next, t, m)
  BY <1>2, Piece
<1>4. q[m-1] = b
  BY PartsStartText
<1>5. /\ b \in Nat /\ Len(x) \in Nat /\ Len(T) = b + 1 + Len(x)
      /\ T[b + 1] = Delimiter(first, next, m)
      /\ \A k \in 1..Len(x) : T[b + 1 + k] = x[k]
  <2>1. s[m] = x /\ Len(T) = o[m]
    BY <1>1
  <2> QED BY <1>3, <2>1 DEF PieceOK
<1>6. /\ Len(y) \in Nat /\ q[m] = b + 1 + Len(y) /\ q[m] <= Len(V)
      /\ \A k \in 1..Len(y) : V[b + 1 + k] = y[k]
  <2>1. t[m] = y
    OBVIOUS
  <2> HIDE DEF b, m
  <2> QED BY <1>3, <1>4, <2>1 DEF PieceOK
<1>7. Len(x) <= Len(y)
  BY DEF PartsStart, Starts
<1>8. q[m] < Len(V) => V[q[m] + 1] = next
  <2> SUFFICES ASSUME q[m] < Len(V) PROVE V[q[m] + 1] = next
    OBVIOUS
  <2>1. m # Len(t)
    BY <1>1
  <2>2. m + 1 \in 1..Len(t) /\ (m + 1) - 1 = m /\ m + 1 # 1
    BY <1>1, <2>1
  <2>3. PieceOK(V, q, first, next, t, m + 1)
    BY <2>2, Piece
  <2> QED BY <2>2, <2>3 DEF PieceOK, Delimiter
<1> DEFINE lx == Len(x)
           ly == Len(y)
           lT == Len(T)
           lV == Len(V)
           e == q[m]
<1>13. /\ lx \in Nat /\ ly \in Nat /\ lT \in Nat /\ lV \in Nat /\ b \in Nat
       /\ lT = b + 1 + lx /\ e = b + 1 + ly /\ e <= lV /\ lx <= ly
  BY <1>1, <1>5, <1>6, <1>7
<1>14. /\ T[b + 1] = Delimiter(first, next, m)
       /\ \A k \in 1..lx : T[b + 1 + k] = x[k]
       /\ \A k \in 1..ly : V[b + 1 + k] = y[k]
       /\ e < lV => V[e + 1] = next
  BY <1>5, <1>6, <1>8
<1> HIDE DEF m, b, lx, ly, lT, lV, e
<1>9. lT = lV => lx = ly
  BY <1>13
<1>10. ASSUME lT < lV PROVE V[lT + 1] = IF lx < ly THEN y[lx + 1] ELSE next
  <2>1. CASE lx < ly
    <3>1. lx + 1 \in 1..ly /\ b + 1 + (lx + 1) = lT + 1
      BY <1>13, <2>1
    <3>2. V[lT + 1] = y[lx + 1]
      BY <1>14, <3>1, Zenon
    <3> QED BY <2>1, <3>2
  <2>2. CASE ~(lx < ly)
    <3>1. e = lT
      BY <1>13, <2>2
    <3> QED BY <1>10, <1>14, <2>2, <3>1
  <2> QED BY <2>1, <2>2
<1>11. lT # 0
  BY <1>13
<1>12. T[lT] = IF lx = 0 THEN Delimiter(first, next, m) ELSE x[lx]
  <2>1. CASE lx = 0
    <3>1. lT = b + 1
      BY <1>13, <2>1
    <3> QED BY <1>14, <2>1, <3>1
  <2>2. CASE lx # 0
    <3>1. lx \in 1..lx
      BY <1>13, <2>2
    <3>2. T[lT] = x[lx]
      BY <1>13, <1>14, <3>1
    <3> QED BY <2>2, <3>2
  <2> QED BY <2>1, <2>2
<1> QED BY <1>9, <1>10, <1>11, <1>12 DEF Onward, m, lx, ly, lT, lV

\* The parts are under the others if they start them and, unless the last part
\* is empty, that part is complete.
LEMMA UnderParts ==
  ASSUME NEW S, NEW s \in Seq(Seq(S)), NEW t \in Seq(Seq(S)), s # <<>>
  PROVE  Under(s, t) <=>
           PartsStart(s, t) /\ (Len(s[Len(s)]) = 0 \/ Len(s[Len(s)]) = Len(t[Len(s)]))
<1> DEFINE m == Len(s)
           x == s[m]
           y == t[m]
<1>1. /\ m \in Nat /\ m # 0 /\ Len(t) \in Nat /\ m \in 1..m /\ x \in Seq(S) /\ Len(x) \in Nat
      /\ x = <<>> <=> Len(x) = 0
  <2>1. m \in Nat /\ m # 0 /\ Len(t) \in Nat /\ m \in 1..m
    OBVIOUS
  <2>2. x \in Seq(S)
    BY <2>1
  <2> HIDE DEF x
  <2>3. Len(x) \in Nat /\ (x = <<>> <=> Len(x) = 0)
    BY <2>2
  <2> QED BY <2>1, <2>2, <2>3
<1>2. m <= Len(t) => y \in Seq(S) /\ Len(y) \in Nat
  <2> SUFFICES ASSUME m <= Len(t) PROVE y \in Seq(S) /\ Len(y) \in Nat
    OBVIOUS
  <2>1. m \in 1..Len(t)
    BY <1>1
  <2> HIDE DEF m
  <2>2. y \in Seq(S)
    BY <2>1
  <2> QED BY <2>2
<1>3. CASE x = <<>>
  <2> DEFINE f == SubSeq(s, 1, m - 1)
  <2>1. f \in Seq(Seq(S)) /\ Len(f) = m - 1 /\ \A i \in 1..m-1 : f[i] = s[i]
    <3>1. 1 \in Int /\ m - 1 \in Nat /\ m - 1 <= Len(s)
      BY <1>1
    <3> HIDE DEF m
    <3>2. f \in Seq(Seq(S)) /\ Len(f) = m - 1
      BY <3>1
    <3>3. \A i \in 1..m-1 : f[i] = s[i]
      BY <3>1
    <3> QED BY <3>2, <3>3
  <2>2. Under(s, t) <=> IsPrefix(f, t) /\ f # t
    BY <1>3 DEF Under, Last, Front, IsStrictPrefix
  <2> HIDE DEF f
  <2>3. IsPrefix(f, t) <=> m - 1 <= Len(t) /\ \A i \in 1..m-1 : s[i] = t[i]
    <3>1. IsPrefix(f, t) <=> Starts(f, t)
      BY <2>1, PrefixStarts
    <3> HIDE DEF m
    <3> QED BY <2>1, <3>1 DEF Starts
  <2>4. IsPrefix(f, t) => (f # t <=> m <= Len(t))
    <3>1. IsPrefix(f, t) <=> Starts(f, t)
      BY <2>1, PrefixStarts
    <3>2. m <= Len(t) => f # t
      BY <1>1, <2>1
    <3>3. ~(m <= Len(t)) => Len(t) <= Len(f)
      BY <1>1, <2>1
    <3> QED BY <2>1, <3>1, <3>2, <3>3, StartsBoth
  <2>5. m <= Len(t) => Starts(x, y)
    <3> HIDE DEF m, x, y
    <3> QED BY <1>1, <1>2, <1>3 DEF Starts
  <2>6. m <= Len(t) => m - 1 <= Len(t)
    BY <1>1
  <2> QED BY <1>1, <1>3, <2>2, <2>3, <2>4, <2>5, <2>6 DEF PartsStart
<1>4. CASE x # <<>>
  <2>1. Under(s, t) <=> Starts(s, t)
    BY <1>4, PrefixStarts DEF Under, Last
  <2>2. Starts(s, t) <=> m <= Len(t) /\ (\A i \in 1..m-1 : s[i] = t[i]) /\ x = y
    <3>1. \A i \in 1..m : i = m \/ i \in 1..m-1
      BY <1>1
    <3>2. \A i \in 1..m-1 : i \in 1..m
      BY <1>1
    <3> QED BY <1>1, <3>1, <3>2 DEF Starts
  <2>3. m <= Len(t) => (x = y <=> Starts(x, y) /\ Len(x) = Len(y))
    <3> HIDE DEF m, x, y
    <3>1. x = y => Starts(x, y) /\ Len(x) = Len(y)
      BY <1>1 DEF Starts
    <3>2. m <= Len(t) /\ Starts(x, y) /\ Len(x) = Len(y) => x = y
      BY <1>1, <1>2, StartsBoth
    <3> QED BY <3>1, <3>2
  <2> QED BY <1>1, <1>4, <2>1, <2>2, <2>3 DEF PartsStart
<1> QED BY <1>3, <1>4

\* The text says what its parts are.
LEMMA SameParts ==
  ASSUME NEW Char, NEW first, NEW next, NEW T,
         NEW o, NEW s, Parted(T, o, Char, first, next, s), s # <<>>,
         NEW q, NEW t, Parted(T, q, Char, first, next, t), t # <<>>
  PROVE  s = t
<1>1. /\ s \in Seq(Seq(Char \ {next})) /\ t \in Seq(Seq(Char \ {next}))
      /\ Len(s) \in Nat /\ Len(t) \in Nat /\ Len(T) \in Nat
  BY DEF Parted
<1>2. Starts(T, T)
  BY <1>1 DEF Starts
<1>3. PartsStart(s, t) /\ PartsStart(t, s)
  BY <1>2, TextStarts
<1>4. /\ Len(s) = Len(t) /\ Starts(s[Len(s)], t[Len(s)]) /\ Starts(t[Len(s)], s[Len(s)])
      /\ \A i \in 1..Len(s)-1 : s[i] = t[i]
  BY <1>1, <1>3 DEF PartsStart
<1>5. Len(s) \in 1..Len(s)
  BY <1>1
<1>6. s[Len(s)] \in Seq(Char \ {next}) /\ t[Len(s)] \in Seq(Char \ {next})
  BY <1>1, <1>4, <1>5
<1>7. s[Len(s)] = t[Len(s)]
  <2>1. Len(t[Len(s)]) <= Len(s[Len(s)])
    BY <1>4 DEF Starts
  <2> QED BY <1>4, <1>6, <2>1, StartsBoth
<1>8. \A i \in 1..Len(s) : s[i] = t[i]
  <2>1. \A i \in 1..Len(s) : i = Len(s) \/ i \in 1..Len(s)-1
    BY <1>1
  <2> QED BY <1>4, <1>7, <2>1
<1>9. Len(s) = Len(t)
  BY <1>4
<1>10. Starts(s, t)
  BY <1>1, <1>8, <1>9 DEF Starts
<1>11. Len(t) <= Len(s)
  BY <1>1, <1>9
<1> QED BY <1>1, <1>10, <1>11, StartsBoth

-----------------------------------------------------------------------------
(* Paths and queries *)

URLChar == STRING \union {"/", "?", "&"}
PathChar == URLChar \ {"?"}

PathPart(url) == Joined("/", "/", url.segs)
QueryPart(url) == Joined("?", "&", url.query)

LEMMA SeqWider ==
  ASSUME NEW S, NEW T, S \subseteq T
  PROVE  Seq(S) \subseteq Seq(T)
OBVIOUS

LEMMA JoinedParted ==
  ASSUME NEW C, NEW first \in C, NEW next \in C, NEW parts \in Seq(Seq(C \ {next}))
  PROVE  \E off : Parted(Joined(first, next, parts), off, C, first, next, parts)
<1>1. parts \in Seq(Seq(C))
  OBVIOUS
<1> QED BY <1>1, JoinedLayout DEF Parted

\* The text of a path and that of a query.
LEMMA URLParts ==
  ASSUME NEW url \in NormalURL
  PROVE  /\ url.segs # <<>> /\ url.segs \in Seq(Seq(PathChar \ {"/"}))
         /\ url.query # << <<>> >> /\ url.query \in Seq(Seq(URLChar \ {"&"}))
         /\ \E o : Parted(PathPart(url), o, PathChar, "/", "/", url.segs)
         /\ \E q : Parted(QueryPart(url), q, URLChar, "?", "&", url.query)
         /\ url.frag = FALSE => PathText(url) = PathPart(url) \o QueryPart(url)
<1>1. /\ url.segs \in Seq(Seq(STRING \ {"/", "?"})) /\ url.segs # <<>>
      /\ url.query \in Seq(Seq(STRING \ {"&"})) /\ url.query # << <<>> >>
  BY DEF NormalURL
<1>2. STRING \ {"/", "?"} \subseteq PathChar \ {"/"} /\ STRING \ {"&"} \subseteq URLChar \ {"&"}
  BY DEF URLChar, PathChar
<1>3. Seq(STRING \ {"/", "?"}) \subseteq Seq(PathChar \ {"/"})
      /\ Seq(STRING \ {"&"}) \subseteq Seq(URLChar \ {"&"})
  <2>1. Seq(STRING \ {"/", "?"}) \subseteq Seq(PathChar \ {"/"})
    <3> DEFINE A == STRING \ {"/", "?"}
               B == PathChar \ {"/"}
    <3>1. A \subseteq B
      BY <1>2
    <3> HIDE DEF A, B
    <3>2. Seq(A) \subseteq Seq(B)
      BY <3>1, SeqWider
    <3> QED BY <3>2 DEF A, B
  <2>2. Seq(STRING \ {"&"}) \subseteq Seq(URLChar \ {"&"})
    BY <1>2, SeqWider
  <2> QED BY <2>1, <2>2
<1>10. Seq(Seq(STRING \ {"/", "?"})) \subseteq Seq(Seq(PathChar \ {"/"}))
       /\ Seq(Seq(STRING \ {"&"})) \subseteq Seq(Seq(URLChar \ {"&"}))
  BY <1>3, SeqWider, Zenon
<1>4. url.segs \in Seq(Seq(PathChar \ {"/"})) /\ url.query \in Seq(Seq(URLChar \ {"&"}))
  BY <1>1, <1>10, Zenon
<1>5. "/" \in PathChar /\ "?" \in URLChar /\ "&" \in URLChar
  BY DEF URLChar, PathChar
<1>6. \E o : Parted(PathPart(url), o, PathChar, "/", "/", url.segs)
  BY <1>4, <1>5, JoinedParted DEF PathPart
<1>7. \E q : Parted(QueryPart(url), q, URLChar, "?", "&", url.query)
  BY <1>4, <1>5, JoinedParted DEF QueryPart
<1>8. PathPart(url) \in Seq(URLChar) /\ QueryPart(url) \in Seq(URLChar)
  <2>1. PathPart(url) \in Seq(PathChar) /\ PathChar \subseteq URLChar
    BY <1>6 DEF Parted, PathChar
  <2> QED BY <1>7, <2>1, SeqWider DEF Parted
<1>9. url.frag = FALSE => PathText(url) = PathPart(url) \o QueryPart(url)
  <2> SUFFICES ASSUME url.frag = FALSE PROVE PathText(url) = PathPart(url) \o QueryPart(url)
    OBVIOUS
  <2>1. PathText(url) = (PathPart(url) \o QueryPart(url)) \o <<>>
    BY DEF PathText, PathPart, QueryPart
  <2>2. PathPart(url) \o QueryPart(url) \in Seq(URLChar)
    BY <1>8
  <2> QED BY <2>1, <2>2
<1> QED BY <1>1, <1>4, <1>6, <1>7, <1>9

\* Paths start with "/", queries with "?".
LEMMA QueryStarts ==
  ASSUME NEW url \in NormalURL
  PROVE  /\ url.query = <<>> => QueryPart(url) = <<>>
         /\ url.query # <<>> => Len(QueryPart(url)) # 0 /\ QueryPart(url)[1] = "?"
         /\ Len(PathPart(url)) # 0 /\ PathPart(url)[1] = "/"
         /\ Len(PathPart(url)) = 1 => url.segs = << <<>> >>
<1> DEFINE K == QueryPart(url)
           J == PathPart(url)
<1>1. PICK q : Parted(K, q, URLChar, "?", "&", url.query)
  BY URLParts
<1>2. PICK o : Parted(J, o, PathChar, "/", "/", url.segs)
  BY URLParts
<1>3. /\ url.segs # <<>> /\ url.segs \in Seq(Seq(PathChar \ {"/"}))
      /\ url.query \in Seq(Seq(URLChar \ {"&"}))
  BY URLParts
<1> HIDE DEF K, J
<1>4. /\ q[0] = 0 /\ q[Len(url.query)] = Len(K) /\ Len(url.query) \in Nat /\ K \in Seq(URLChar)
      /\ o[0] = 0 /\ o[Len(url.segs)] = Len(J) /\ Len(url.segs) \in Nat /\ J \in Seq(PathChar)
  BY <1>1, <1>2 DEF Parted, Layout
<1>5. ASSUME url.query = <<>> PROVE K = <<>>
  BY <1>4, <1>5
<1>6. ASSUME url.query # <<>> PROVE Len(K) # 0 /\ K[1] = "?"
  <2>1. 1 \in 1..Len(url.query) /\ 1 - 1 = 0
    BY <1>3, <1>6
  <2>2. PieceOK(K, q, "?", "&", url.query, 1)
    BY <1>1, <2>1, Piece
  <2> QED BY <1>4, <2>1, <2>2 DEF PieceOK, Delimiter
<1>7. Len(J) # 0 /\ J[1] = "/"
  <2>1. 1 \in 1..Len(url.segs) /\ 1 - 1 = 0
    BY <1>3
  <2>2. PieceOK(J, o, "/", "/", url.segs, 1)
    BY <1>2, <2>1, Piece
  <2> QED BY <1>4, <2>1, <2>2 DEF PieceOK, Delimiter
<1>8. ASSUME Len(J) = 1 PROVE url.segs = << <<>> >>
  <2>1. 1 \in 1..Len(url.segs) /\ 1 - 1 = 0
    BY <1>3
  <2>2. PieceOK(J, o, "/", "/", url.segs, 1)
    BY <1>2, <2>1, Piece
  <2>3. /\ Len(url.segs[1]) \in Nat /\ o[1] = 1 + Len(url.segs[1]) /\ o[1] <= 1
    BY <1>4, <1>8, <2>1, <2>2 DEF PieceOK
  <2>4. Len(url.segs[1]) = 0 /\ o[1] = 1
    BY <2>3
  <2>5. Len(url.segs) = 1
    <3> SUFFICES ASSUME Len(url.segs) # 1 PROVE FALSE
      OBVIOUS
    <3> DEFINE n == Len(url.segs)
    <3>3. n \in Nat /\ n # 0 /\ n # 1
      BY <1>4, <2>1
    <3> HIDE DEF n
    <3>4. 2 \in 1..n /\ 2 - 1 = 1
      BY <3>3
    <3>1. 2 \in 1..Len(url.segs) /\ 2 - 1 = 1
      BY <3>4 DEF n
    <3>2. PieceOK(J, o, "/", "/", url.segs, 2)
      BY <1>2, <3>1, Piece
    <3> QED BY <1>8, <2>4, <3>1, <3>2 DEF PieceOK
  <2>6. url.segs[1] = <<>>
    <3>1. url.segs[1] \in Seq(PathChar \ {"/"})
      BY <1>3, <2>1
    <3> QED BY <2>4, <3>1
  <2> QED BY <1>3, <2>5, <2>6
<1> QED BY <1>5, <1>6, <1>7, <1>8 DEF K, J

\* A path that goes on as the realm allows.
\* The characters a path may go on at, or end in.
Boundary(R) == IF \E i \in DOMAIN R : R[i] = "?" THEN {"&"} ELSE {"?", "/"}

LEMMA Matches ==
  ASSUME NEW S, NEW R \in Seq(S), NEW path \in Seq(S), NEW root, root.path = R
  PROVE  PathMatches(root, path) <=>
           /\ Starts(R, path)
           /\ \/ Len(R) = Len(path)
              \/ R[Len(R)] \in Boundary(R)
              \/ path[Len(R) + 1] \in Boundary(R)
<1>1. IsPrefix(R, path) <=> Starts(R, path)
  BY PrefixStarts
<1>2. PathMatches(root, path) <=>
        \/ path = R
        \/ /\ IsPrefix(R, path) /\ R # path
           /\ R[Len(R)] \in Boundary(R) \/ path[Len(R) + 1] \in Boundary(R)
  BY DEF PathMatches, IsStrictPrefix, Last, Boundary
<1>4. path = R => Starts(R, path) /\ Len(R) = Len(path)
  BY DEF Starts
<1>5. Starts(R, path) /\ Len(R) = Len(path) => path = R
  BY StartsBoth
<1> QED BY <1>1, <1>2, <1>4, <1>5

\* A realm without a query: its path ends where the URL's path has a boundary.
LEMMA PathUnder ==
  ASSUME NEW realm \in NormalURL, NEW url \in NormalURL, realm.query = <<>>,
         realm.frag = FALSE, url.frag = FALSE,
         NEW root, root.path = PathText(realm)
  PROVE  PathMatches(root, PathText(url)) <=> Under(realm.segs, url.segs)
<1> DEFINE R == PathPart(realm)
           J == PathPart(url)
           K == QueryPart(url)
           U == PathText(url)
           s == realm.segs
           t == url.segs
           x == s[Len(s)]
           y == t[Len(s)]
           allowed == {"?", "/"}
<1>1. PICK o : Parted(R, o, PathChar, "/", "/", s)
  BY URLParts
<1>2. PICK q : Parted(J, q, PathChar, "/", "/", t)
  BY URLParts
<1>3. s # <<>> /\ s \in Seq(Seq(PathChar \ {"/"})) /\ t \in Seq(Seq(PathChar \ {"/"}))
  BY URLParts
<1>4. R \in Seq(PathChar) /\ J \in Seq(PathChar) /\ K \in Seq(URLChar)
  BY <1>1, <1>2, URLParts DEF Parted
<1>5. R \in Seq(URLChar) /\ J \in Seq(URLChar) /\ PathChar \subseteq URLChar
  BY <1>4, SeqWider DEF PathChar
<1>6. U = J \o K
  BY URLParts
<1>7. root.path = R
  <2>1. PathText(realm) = R \o QueryPart(realm)
    BY URLParts
  <2>2. QueryPart(realm) = <<>>
    BY QueryStarts
  <2> HIDE DEF R
  <2> QED BY <1>4, <2>1, <2>2
<1>8. K # <<>> => K[1] = "?"
  BY QueryStarts
<1>20. Under(s, t) <=> PartsStart(s, t) /\ (Len(x) = 0 \/ Len(x) = Len(y))
  BY <1>3, UnderParts
<1> HIDE DEF R, J, K, U, s, t
<1>9. /\ Len(U) = Len(J) + Len(K) /\ Len(J) \in Nat /\ Len(K) \in Nat /\ Len(U) \in Nat
      /\ U \in Seq(URLChar)
      /\ \A i \in 1..Len(J) : U[i] = J[i]
      /\ \A i \in 1..Len(K) : U[Len(J) + i] = K[i]
  BY <1>4, <1>5, <1>6, Concat
<1>10. PathMatches(root, U) <=>
         /\ Starts(R, U)
         /\ Len(R) = Len(U) \/ R[Len(R)] \in allowed \/ U[Len(R) + 1] \in allowed
  <2>1. Boundary(R) = allowed
    BY <1>4 DEF PathChar, Boundary
  <2>2. PathMatches(root, U) <=>
          /\ Starts(R, U)
          /\ \/ Len(R) = Len(U)
             \/ R[Len(R)] \in Boundary(R)
             \/ U[Len(R) + 1] \in Boundary(R)
    BY <1>5, <1>7, <1>9, Matches
  <2> QED BY <2>1, <2>2
<1>11. Len(R) \in Nat /\ \A i \in 1..Len(R) : R[i] # "?"
  BY <1>4 DEF PathChar
<1>12. K # <<>> => Len(J) + 1 \in 1..Len(U) /\ U[Len(J) + 1] = "?"
  <2> SUFFICES ASSUME K # <<>> PROVE Len(J) + 1 \in 1..Len(U) /\ U[Len(J) + 1] = "?"
    OBVIOUS
  <2>1. 1 \in 1..Len(K) /\ Len(K) # 0
    BY <1>4
  <2> QED BY <1>8, <1>9, <2>1
<1>13. Len(K) # 0 <=> K # <<>>
  BY <1>4
<1>14. Starts(R, U) <=> Starts(R, J)
  <2>1. ASSUME Starts(R, J) PROVE Starts(R, U)
    <3>1. \A i \in 1..Len(R) : i \in 1..Len(J)
      BY <1>9, <1>11, <2>1 DEF Starts
    <3> QED BY <1>9, <1>11, <2>1, <3>1 DEF Starts
  <2>2. ASSUME Starts(R, U) PROVE Starts(R, J)
    <3>1. Len(R) <= Len(J)
      <4> SUFFICES ASSUME Len(J) < Len(R) PROVE FALSE
        BY <1>9, <1>11
      <4>1. Len(R) <= Len(U)
        BY <2>2 DEF Starts
      <4>2. Len(K) # 0
        BY <1>9, <1>11, <4>1
      <4>3. U[Len(J) + 1] = "?"
        BY <1>12, <1>13, <4>2
      <4>4. Len(J) + 1 \in 1..Len(R)
        BY <1>9, <1>11
      <4>5. R[Len(J) + 1] = U[Len(J) + 1]
        BY <2>2, <4>4 DEF Starts
      <4> QED BY <1>11, <4>3, <4>4, <4>5
    <3>2. \A i \in 1..Len(R) : i \in 1..Len(J)
      BY <1>9, <1>11, <3>1
    <3> QED BY <1>9, <2>2, <3>1, <3>2 DEF Starts
  <2> QED BY <2>1, <2>2
<1>15. Starts(R, J) <=> PartsStart(s, t)
  BY <1>1, <1>2, <1>3, TextStarts, PartsStartText
<1>16. ASSUME PartsStart(s, t)
       PROVE  (Len(R) = Len(U) \/ R[Len(R)] \in allowed \/ U[Len(R) + 1] \in allowed)
                <=> (Len(x) = 0 \/ Len(x) = Len(y))
  <2>8. Onward(R, J, "/", "/", Len(s), x, y)
    BY <1>1, <1>2, <1>3, <1>16, GoesOn
  <2>1. /\ Len(R) = Len(J) => Len(x) = Len(y)
        /\ Len(R) < Len(J) =>
             J[Len(R) + 1] = IF Len(x) < Len(y) THEN y[Len(x) + 1] ELSE "/"
        /\ Len(R) # 0
        /\ R[Len(R)] = IF Len(x) = 0 THEN Delimiter("/", "/", Len(s)) ELSE x[Len(x)]
    BY <2>8, Zenon DEF Onward
  <2>2. Len(R) <= Len(J) /\ Len(x) <= Len(y)
    BY <1>15, <1>16 DEF Starts, PartsStart
  <2>3. /\ Len(x) \in Nat /\ x \in Seq(PathChar \ {"/"})
        /\ Len(y) \in Nat /\ y \in Seq(PathChar \ {"/"})
    <3>1. Len(s) \in 1..Len(s) /\ Len(s) \in 1..Len(t)
      BY <1>3, <1>16 DEF PartsStart
    <3>2. x \in Seq(PathChar \ {"/"}) /\ y \in Seq(PathChar \ {"/"})
      BY <1>3, <3>1
    <3> HIDE DEF x, y
    <3> QED BY <3>2
  <2> HIDE DEF x, y
  <2>4. Len(x) = 0 => R[Len(R)] \in allowed
    BY <2>1 DEF Delimiter
  <2>5. Len(x) # 0 => R[Len(R)] \notin allowed
    <3> SUFFICES ASSUME Len(x) # 0 PROVE R[Len(R)] \notin allowed
      OBVIOUS
    <3>1. Len(x) \in 1..Len(x)
      BY <2>3
    <3>2. x[Len(x)] \in PathChar \ {"/"}
      BY <2>3, <3>1
    <3> QED BY <2>1, <3>2 DEF PathChar
  <2>6. CASE Len(R) < Len(J)
    <3>1. Len(R) # Len(U) /\ Len(R) + 1 \in 1..Len(J)
      BY <1>9, <1>11, <2>6
    <3>2. U[Len(R) + 1] = J[Len(R) + 1]
      BY <1>9, <3>1
    <3>3. Len(x) < Len(y) => y[Len(x) + 1] \notin allowed
      <4> SUFFICES ASSUME Len(x) < Len(y) PROVE y[Len(x) + 1] \notin allowed
        OBVIOUS
      <4>1. Len(x) + 1 \in 1..Len(y)
        BY <2>3
      <4>2. y[Len(x) + 1] \in PathChar \ {"/"}
        BY <2>3, <4>1
      <4> QED BY <4>2 DEF PathChar
    <3>4. U[Len(R) + 1] \in allowed <=> ~(Len(x) < Len(y))
      BY <2>1, <2>6, <3>2, <3>3
    <3>5. ~(Len(x) < Len(y)) <=> Len(x) = Len(y)
      BY <2>2, <2>3
    <3> QED BY <2>4, <2>5, <3>1, <3>4, <3>5
  <2>7. CASE Len(R) = Len(J)
    <3>1. Len(x) = Len(y)
      BY <2>1, <2>7
    <3>2. Len(R) = Len(U) \/ U[Len(R) + 1] \in allowed
      BY <1>9, <1>12, <1>13, <2>7
    <3> QED BY <3>1, <3>2
  <2> QED BY <1>9, <1>11, <2>2, <2>6, <2>7
<1> QED BY <1>10, <1>14, <1>15, <1>16, <1>20 DEF U, s, t

\* Two texts of a path and a query, where the one that starts the other has a
\* query: the paths are the same, because neither holds a "?".
LEMMA SamePath ==
  ASSUME NEW a \in Seq(PathChar), NEW b \in Seq(PathChar),
         NEW k \in Seq(URLChar), Len(k) # 0, k[1] = "?",
         NEW l \in Seq(URLChar), l # <<>> => l[1] = "?"
  PROVE  Starts(a \o k, b \o l) <=> a = b /\ Starts(k, l)
<1> DEFINE R == a \o k
           U == b \o l
           A == Len(a)
           B == Len(b)
           X == Len(k)
           Y == Len(l)
<1>1. a \in Seq(URLChar) /\ b \in Seq(URLChar)
  BY SeqWider DEF PathChar
<1>2. /\ Len(R) = A + X /\ A \in Nat /\ X \in Nat
      /\ \A i \in 1..A : R[i] = a[i]
      /\ \A i \in 1..X : R[A + i] = k[i]
  BY <1>1, Concat
<1>3. /\ Len(U) = B + Y /\ B \in Nat /\ Y \in Nat
      /\ \A i \in 1..B : U[i] = b[i]
      /\ \A i \in 1..Y : U[B + i] = l[i]
  BY <1>1, Concat
<1>4. /\ \A i \in 1..A : a[i] # "?"
      /\ \A i \in 1..B : b[i] # "?"
  BY DEF PathChar
<1>5. X # 0 /\ (Y # 0 => l[1] = "?")
  OBVIOUS
<1> HIDE DEF A, B, X, Y, R, U
<1>7. R[A + 1] = "?" /\ (Y # 0 => U[B + 1] = "?")
  <2>1. 1 \in 1..X /\ (Y # 0 => 1 \in 1..Y)
    BY <1>2, <1>3, <1>5
  <2> QED BY <1>2, <1>3, <1>5, <2>1
<1>8. ASSUME Starts(R, U) PROVE a = b /\ Starts(k, l)
  <2>1. A + X <= B + Y /\ \A i \in 1..A+X : R[i] = U[i]
    BY <1>2, <1>3, <1>8 DEF Starts
  <2>2. U[A + 1] = "?"
    <3>1. A + 1 \in 1..A+X
      BY <1>2, <1>5
    <3> QED BY <1>7, <2>1, <3>1
  <2>3. B <= A
    <3> SUFFICES ASSUME A < B PROVE FALSE
      BY <1>2, <1>3
    <3>1. A + 1 \in 1..B
      BY <1>2, <1>3
    <3> QED BY <1>3, <1>4, <2>2, <3>1
  <2>4. A <= B
    <3> SUFFICES ASSUME B < A PROVE FALSE
      BY <1>2, <1>3
    <3>1. Y # 0 /\ B + 1 \in 1..A /\ B + 1 \in 1..A+X
      BY <1>2, <1>3, <2>1
    <3> QED BY <1>2, <1>4, <1>7, <2>1, <3>1
  <2>5. A = B
    BY <1>2, <1>3, <2>3, <2>4
  <2>6. \A i \in 1..A : a[i] = b[i]
    <3>1. \A i \in 1..A : i \in 1..A+X /\ i \in 1..B
      BY <1>2, <2>5
    <3> QED BY <1>2, <1>3, <2>1, <3>1
  <2>7. a = b
    BY <2>5, <2>6 DEF A, B
  <2>8. X <= Y /\ \A i \in 1..X : k[i] = l[i]
    <3>1. X <= Y
      BY <1>2, <1>3, <2>1, <2>5
    <3>2. \A i \in 1..X : A + i \in 1..A+X /\ i \in 1..Y
      BY <1>2, <1>3, <3>1
    <3>3. \A i \in 1..X : R[A + i] = U[A + i]
      BY <2>1, <3>2
    <3> QED BY <1>2, <1>3, <2>5, <3>1, <3>2, <3>3
  <2> QED BY <2>7, <2>8 DEF Starts, X, Y
<1>9. ASSUME a = b, Starts(k, l) PROVE Starts(R, U)
  <2>1. A = B /\ X <= Y /\ \A i \in 1..X : k[i] = l[i]
    BY <1>9 DEF Starts, A, B, X, Y
  <2>2. A + X <= B + Y
    BY <1>2, <1>3, <2>1
  <2>3. ASSUME NEW i \in 1..A+X PROVE R[i] = U[i]
    <3>1. CASE i \in 1..A
      BY <1>2, <1>3, <1>9, <2>1, <3>1
    <3>2. CASE i \notin 1..A
      <4> DEFINE j == i - A
      <4>1. j \in 1..X /\ j \in 1..Y /\ i = A + j
        BY <1>2, <1>3, <2>1, <3>2
      <4> HIDE DEF j
      <4>2. R[A + j] = k[j] /\ U[A + j] = l[j] /\ k[j] = l[j]
        BY <1>2, <1>3, <2>1, <4>1
      <4> QED BY <4>1, <4>2
    <3> QED BY <3>1, <3>2
  <2> QED BY <1>2, <1>3, <2>2, <2>3 DEF Starts
<1> QED BY <1>8, <1>9 DEF R, U

\* A realm with a query: the URL has its path, and goes on in the query.
LEMMA QueryUnder ==
  ASSUME NEW realm \in NormalURL, NEW url \in NormalURL, realm.query # <<>>,
         realm.frag = FALSE, url.frag = FALSE,
         NEW root, root.path = PathText(realm)
  PROVE  PathMatches(root, PathText(url)) <=>
           url.segs = realm.segs /\ Under(realm.query, url.query)
<1> DEFINE a == PathPart(realm)
           b == PathPart(url)
           k == QueryPart(realm)
           l == QueryPart(url)
           R == PathText(realm)
           U == PathText(url)
           s == realm.query
           t == url.query
           x == s[Len(s)]
           y == t[Len(s)]
<1>1. PICK o : Parted(k, o, URLChar, "?", "&", s)
  BY URLParts
<1>2. PICK q : Parted(l, q, URLChar, "?", "&", t)
  BY URLParts
<1>3. /\ s # <<>> /\ s # << <<>> >> /\ s \in Seq(Seq(URLChar \ {"&"})) /\ t \in Seq(Seq(URLChar \ {"&"}))
      /\ R = a \o k /\ U = b \o l /\ root.path = R
  BY URLParts
<1>4. /\ a \in Seq(PathChar) /\ b \in Seq(PathChar) /\ a \in Seq(URLChar) /\ b \in Seq(URLChar)
      /\ k \in Seq(URLChar) /\ l \in Seq(URLChar)
  <2>1. a \in Seq(PathChar) /\ b \in Seq(PathChar)
    BY URLParts DEF Parted
  <2> QED BY <1>1, <1>2, <2>1, SeqWider DEF Parted, PathChar
<1>5. Len(k) # 0 /\ k[1] = "?" /\ (l # <<>> => l[1] = "?")
  BY QueryStarts
<1>6. a = b <=> url.segs = realm.segs
  <2>1. PICK oa : Parted(a, oa, PathChar, "/", "/", realm.segs)
    BY URLParts
  <2>2. PICK ob : Parted(b, ob, PathChar, "/", "/", url.segs)
    BY URLParts
  <2>3. realm.segs # <<>> /\ url.segs # <<>>
    BY URLParts
  <2>4. url.segs = realm.segs => a = b
    BY DEF PathPart
  <2> HIDE DEF a, b
  <2> QED BY <2>1, <2>2, <2>3, <2>4, SameParts
<1>20. Under(s, t) <=> PartsStart(s, t) /\ (Len(x) = 0 \/ Len(x) = Len(y))
  BY <1>3, UnderParts
<1> HIDE DEF a, b, k, l, R, U, s, t
<1>7. /\ R \in Seq(URLChar) /\ Len(R) = Len(a) + Len(k) /\ Len(a) \in Nat /\ Len(k) \in Nat
      /\ \A i \in 1..Len(k) : R[Len(a) + i] = k[i]
  BY <1>3, <1>4, Concat
<1>8. /\ U \in Seq(URLChar) /\ Len(U) = Len(b) + Len(l) /\ Len(b) \in Nat /\ Len(l) \in Nat
      /\ \A i \in 1..Len(l) : U[Len(b) + i] = l[i]
  BY <1>3, <1>4, Concat
<1>9. PathMatches(root, U) <=>
        /\ Starts(R, U)
        /\ Len(R) = Len(U) \/ R[Len(R)] = "&" \/ U[Len(R) + 1] = "&"
  <2>1. Len(a) + 1 \in DOMAIN R /\ R[Len(a) + 1] = "?"
    <3>1. 1 \in 1..Len(k) /\ Len(a) + 1 \in 1..Len(R)
      BY <1>5, <1>7
    <3>2. R[Len(a) + 1] = k[1]
      BY <1>7, <3>1
    <3> QED BY <1>5, <1>7, <3>1, <3>2
  <2>2. Boundary(R) = {"&"}
    BY <2>1 DEF Boundary
  <2>3. PathMatches(root, U) <=>
          /\ Starts(R, U)
          /\ \/ Len(R) = Len(U)
             \/ R[Len(R)] \in Boundary(R)
             \/ U[Len(R) + 1] \in Boundary(R)
    BY <1>3, <1>7, <1>8, Matches
  <2> QED BY <2>2, <2>3
<1>10. Starts(R, U) <=> a = b /\ Starts(k, l)
  <2>1. R = a \o k /\ U = b \o l
    BY <1>3
  <2>2. /\ a \in Seq(PathChar) /\ b \in Seq(PathChar) /\ k \in Seq(URLChar) /\ l \in Seq(URLChar)
        /\ Len(k) # 0 /\ k[1] = "?" /\ (l # <<>> => l[1] = "?")
    BY <1>4, <1>5
  <2>3. Starts(a \o k, b \o l) <=> a = b /\ Starts(k, l)
    BY <2>2, SamePath
  <2> QED BY <2>1, <2>3
<1>11. Starts(k, l) <=> PartsStart(s, t)
  BY <1>1, <1>2, <1>3, TextStarts, PartsStartText
<1>12. ASSUME a = b, PartsStart(s, t)
       PROVE  (Len(R) = Len(U) \/ R[Len(R)] = "&" \/ U[Len(R) + 1] = "&")
                <=> (Len(x) = 0 \/ Len(x) = Len(y))
  <2>1. Onward(k, l, "?", "&", Len(s), x, y)
    BY <1>1, <1>2, <1>3, <1>12, GoesOn
  <2>2. /\ Len(k) = Len(l) => Len(x) = Len(y)
        /\ Len(k) < Len(l) =>
             l[Len(k) + 1] = IF Len(x) < Len(y) THEN y[Len(x) + 1] ELSE "&"
        /\ k[Len(k)] = IF Len(x) = 0 THEN Delimiter("?", "&", Len(s)) ELSE x[Len(x)]
    BY <2>1, Zenon DEF Onward
  <2>3. Len(k) <= Len(l) /\ Len(x) <= Len(y)
    BY <1>11, <1>12 DEF Starts, PartsStart
  <2>4. /\ Len(x) \in Nat /\ x \in Seq(URLChar \ {"&"})
        /\ Len(y) \in Nat /\ y \in Seq(URLChar \ {"&"})
    <3>1. Len(s) \in 1..Len(s) /\ Len(s) \in 1..Len(t)
      BY <1>3, <1>12 DEF PartsStart
    <3>2. x \in Seq(URLChar \ {"&"}) /\ y \in Seq(URLChar \ {"&"})
      BY <1>3, <3>1
    <3> HIDE DEF x, y
    <3> QED BY <3>2
  <2>5. Len(x) = 0 => Len(s) # 1
    <3> SUFFICES ASSUME Len(x) = 0, Len(s) = 1 PROVE FALSE
      OBVIOUS
    <3>1. s = << <<>> >>
      <4>1. s[1] \in Seq(URLChar \ {"&"}) /\ Len(s[1]) = 0
        BY <1>3
      <4>2. s[1] = <<>>
        BY <4>1
      <4> QED BY <1>3, <4>2
    <3> QED BY <1>3, <3>1
  <2>6. Len(k) \in 1..Len(k) /\ R[Len(R)] = k[Len(k)]
    <3>1. Len(k) \in 1..Len(k)
      BY <1>5, <1>7
    <3> QED BY <1>7, <3>1
  <2> HIDE DEF x, y
  <2>7. Len(x) = 0 => R[Len(R)] = "&"
    BY <2>2, <2>5, <2>6 DEF Delimiter
  <2>8. Len(x) # 0 => R[Len(R)] # "&"
    <3> SUFFICES ASSUME Len(x) # 0 PROVE R[Len(R)] # "&"
      OBVIOUS
    <3>1. Len(x) \in 1..Len(x)
      BY <2>4
    <3>2. x[Len(x)] \in URLChar \ {"&"}
      BY <2>4, <3>1
    <3> QED BY <2>2, <2>6, <3>2
  <2>9. CASE Len(k) < Len(l)
    <3>1. Len(R) # Len(U) /\ Len(k) + 1 \in 1..Len(l)
      BY <1>7, <1>8, <1>12, <2>9
    <3>2. U[Len(R) + 1] = l[Len(k) + 1]
      <4>1. Len(R) + 1 = Len(b) + (Len(k) + 1)
        BY <1>7, <1>8, <1>12
      <4> QED BY <1>8, <3>1, <4>1
    <3>3. Len(x) < Len(y) => y[Len(x) + 1] # "&"
      <4> SUFFICES ASSUME Len(x) < Len(y) PROVE y[Len(x) + 1] # "&"
        OBVIOUS
      <4>1. Len(x) + 1 \in 1..Len(y)
        BY <2>4
      <4>2. y[Len(x) + 1] \in URLChar \ {"&"}
        BY <2>4, <4>1
      <4> QED BY <4>2
    <3>4. U[Len(R) + 1] = "&" <=> ~(Len(x) < Len(y))
      BY <2>2, <2>9, <3>2, <3>3
    <3>5. ~(Len(x) < Len(y)) <=> Len(x) = Len(y)
      BY <2>3, <2>4
    <3> QED BY <2>7, <2>8, <3>1, <3>4, <3>5
  <2>10. CASE Len(k) = Len(l)
    <3>1. Len(x) = Len(y)
      BY <2>2, <2>10
    <3>2. Len(R) = Len(U)
      BY <1>7, <1>8, <1>12, <2>10
    <3> QED BY <3>1, <3>2
  <2> QED BY <1>7, <1>8, <2>3, <2>9, <2>10
<1> QED BY <1>6, <1>9, <1>10, <1>11, <1>12, <1>20 DEF U, s, t

\* What TrustRoot makes of the paths is what the realm and the URL mean.
LEMMA PathRespected ==
  ASSUME NEW realm \in NormalURL, NEW url \in NormalURL,
         realm.frag = FALSE, url.frag = FALSE,
         NEW root, root.path = PathText(realm)
  PROVE  PathMatches(root, PathText(url)) <=> UnderPath(realm, url)
BY PathUnder, QueryUnder DEF UnderPath

-----------------------------------------------------------------------------
(* Realms *)

\* "*" alone is a wildcard if nothing follows it.
LEMMA LoneWildcard ==
  ASSUME NEW realm \in NormalURL, realm.frag = FALSE
  PROVE  PathText(realm) = <<"/">> <=> realm.segs = << <<>> >> /\ realm.query = <<>>
<1> DEFINE J == PathPart(realm)
           K == QueryPart(realm)
<1>1. J \in Seq(URLChar) /\ K \in Seq(URLChar) /\ PathText(realm) = J \o K
  <2>1. J \in Seq(PathChar) /\ K \in Seq(URLChar) /\ PathText(realm) = J \o K
    BY URLParts DEF Parted
  <2> QED BY <2>1, SeqWider DEF PathChar
<1>2. /\ realm.query = <<>> => K = <<>>
      /\ realm.query # <<>> => Len(K) # 0
      /\ Len(J) # 0 /\ J[1] = "/"
      /\ Len(J) = 1 => realm.segs = << <<>> >>
  BY QueryStarts
<1>3. realm.segs = << <<>> >> => J = <<"/">>
  <2> SUFFICES ASSUME realm.segs = << <<>> >> PROVE J = <<"/">>
    OBVIOUS
  <2>1. PICK o : Parted(J, o, PathChar, "/", "/", realm.segs)
    BY URLParts
  <2>2. Len(realm.segs) = 1 /\ realm.segs[1] = <<>> /\ 1 \in 1..Len(realm.segs) /\ 1 - 1 = 0
    OBVIOUS
  <2>3. PieceOK(J, o, "/", "/", realm.segs, 1)
    BY <2>1, <2>2, Piece
  <2>4. o[1] = Len(J) /\ o[0] = 0
    BY <2>1, <2>2 DEF Parted, Layout
  <2> HIDE DEF J
  <2>6. Len(realm.segs[1]) = 0
    BY <2>2
  <2>7. o[1] = o[0] + 1 + Len(realm.segs[1])
    BY <2>2, <2>3 DEF PieceOK
  <2>5. Len(J) = 1
    BY <2>4, <2>6, <2>7
  <2> QED BY <1>1, <1>2, <2>5
<1> HIDE DEF J, K
<1>4. ASSUME PathText(realm) = <<"/">> PROVE Len(J) = 1 /\ Len(K) = 0
  <2>1. Len(J \o K) = Len(J) + Len(K) /\ Len(J) \in Nat /\ Len(K) \in Nat
    BY <1>1
  <2>2. Len(J \o K) = 1
    <3>1. J \o K = <<"/">> /\ Len(<<"/">>) = 1
      BY <1>1, <1>4
    <3> QED BY <3>1
  <2> DEFINE lj == Len(J)
             lk == Len(K)
  <2>3. lj \in Nat /\ lk \in Nat /\ lj # 0 /\ lj + lk = 1
    BY <1>2, <2>1, <2>2
  <2> HIDE DEF lj, lk
  <2>4. lj = 1 /\ lk = 0
    BY <2>3
  <2> QED BY <2>4 DEF lj, lk
<1>5. K = <<>> /\ J = <<"/">> => PathText(realm) = <<"/">>
  BY <1>1
<1> QED BY <1>2, <1>3, <1>4, <1>5

\* A host has one label or more.
LEMMA HostLabels ==
  ASSUME NEW h \in Seq(STRING), h # <<>>
  PROVE  /\ Len(h) > 1 <=> Tail(h) # <<>>
         /\ Len(h) > 1 \/ h = <<Head(h)>>
<1>1. Len(h) > 1 <=> Tail(h) # <<>>
  <2>1. Len(h) \in Nat /\ Len(h) # 0 /\ Tail(h) \in Seq(STRING) /\ Len(Tail(h)) = Len(h) - 1
    OBVIOUS
  <2> DEFINE t == Tail(h)
             l == Len(h)
             n == Len(t)
  <2>2. l \in Nat /\ l # 0 /\ n = l - 1
    BY <2>1
  <2>3. t = <<>> <=> n = 0
    <3>1. t \in Seq(STRING)
      BY <2>1
    <3> HIDE DEF t
    <3> QED BY <3>1
  <2> HIDE DEF t, l, n
  <2>4. l > 1 <=> t # <<>>
    BY <2>2, <2>3
  <2> QED BY <2>4 DEF t, l
<1>2. Len(h) > 1 \/ h = <<Head(h)>>
  <2>1. Len(h) \in Nat /\ Len(h) # 0 /\ Head(h) = h[1]
    OBVIOUS
  <2>2. Len(h) = 1 => h = <<h[1]>>
    OBVIOUS
  <2> DEFINE l == Len(h)
  <2>3. l \in Nat /\ l # 0
    BY <2>1
  <2> HIDE DEF l
  <2>4. l > 1 \/ l = 1
    BY <2>3
  <2> QED BY <2>1, <2>2, <2>4 DEF l
<1> QED BY <1>1, <1>2

\* What TrustRoot takes for a URL at all.
LEMMA ReadableParse ==
  ASSUME NEW url \in NormalURL
  PROVE  Parse(url) # {} <=> Readable(url)
<1> DEFINE lone == /\ url.host = <<"*">>
                   /\ PathText(url) = <<"/">>
                   /\ url.port = DefaultPort(url.proto)
           wild == Head(url.host) = "*" /\ (Len(url.host) > 1 \/ lone)
           host == IF wild THEN Tail(url.host) ELSE url.host
<1>1. Parse(url) # {} <=> /\ host = <<>> \/ Head(host) # ""
                          /\ ~url.frag
                          /\ url.proto \in {"http", "https"}
  BY DEF Parse
<1>2. url.host \in Seq(STRING) /\ url.host # <<>> /\ url.host # <<"*", "">>
  BY DEF NormalURL
<1>3. /\ Len(url.host) > 1 <=> Tail(url.host) # <<>>
      /\ Len(url.host) > 1 \/ url.host = <<Head(url.host)>>
  BY <1>2, HostLabels
<1>4. CASE wild /\ Len(url.host) > 1
  BY <1>1, <1>3, <1>4 DEF Readable
<1>5. CASE wild /\ ~(Len(url.host) > 1)
  BY <1>1, <1>3, <1>5 DEF Readable
<1>6. CASE ~wild
  BY <1>1, <1>2, <1>6 DEF Readable
<1> QED BY <1>4, <1>5, <1>6

\* TrustRoot reads and compares URLs as their parts say.
LEMMA RealmUnderstood ==
  ASSUME NEW realm \in NormalURL, NEW url \in NormalURL, Readable(url)
  PROVE  (Parse(realm) # {} /\ \A r \in Parse(realm) : ValidateURL(r, url))
           <=> Readable(realm) /\ Covers(realm, url)
<1> DEFINE lone == /\ realm.host = <<"*">>
                   /\ PathText(realm) = <<"/">>
                   /\ realm.port = DefaultPort(realm.proto)
           wild == Head(realm.host) = "*" /\ (Len(realm.host) > 1 \/ lone)
           host == IF wild THEN Tail(realm.host) ELSE realm.host
           bad == \/ host # <<>> /\ Head(host) = ""
                  \/ realm.frag
                  \/ realm.proto \notin {"http", "https"}
           root == [proto |-> realm.proto, wild |-> wild, host |-> host, port |-> realm.port,
                    path |-> PathText(realm)]
<1>1. Parse(realm) = IF bad THEN {} ELSE {root}
  BY DEF Parse
<1>2. /\ realm.host \in Seq(STRING) /\ realm.host # <<>> /\ realm.host # <<"*", "">>
      /\ realm.frag \in BOOLEAN /\ url.frag = FALSE
      /\ url.host \in Seq(STRING) /\ url.host # <<>>
  BY DEF NormalURL, Readable
<1>3. /\ Len(realm.host) > 1 <=> Tail(realm.host) # <<>>
      /\ Len(realm.host) > 1 \/ realm.host = <<Head(realm.host)>>
  BY <1>2, HostLabels
<1>4. bad <=> ~Readable(realm)
  BY <1>1, ReadableParse
<1>5. ASSUME ~bad PROVE ValidateURL(root, url) <=> Covers(realm, url)
  <2>1. realm.frag = FALSE
    BY <1>2, <1>5
  <2>2. PathMatches(root, PathText(url)) <=> UnderPath(realm, url)
    <3>1. root.path = PathText(realm)
      OBVIOUS
    <3> HIDE DEF root
    <3> QED BY <1>2, <2>1, <3>1, PathRespected
  <2>3. wild <=> Wildcard(realm)
    BY <1>3, <2>1, LoneWildcard DEF Wildcard
  <2>4. (\A i \in DOMAIN url.host : url.host[i] # "*") <=> "*" \notin Range(url.host)
    BY DEF Range
  <2>5. ValidateURL(root, url) <=>
          /\ url.proto = realm.proto /\ url.port = realm.port
          /\ \A i \in DOMAIN url.host : url.host[i] # "*"
          /\ IF wild THEN IsSuffix(host, url.host) ELSE url.host = host
          /\ PathMatches(root, PathText(url))
    <3>1. /\ root.proto = realm.proto /\ root.port = realm.port /\ root.wild = wild
          /\ root.host = host
      OBVIOUS
    <3> HIDE DEF root, host, wild
    <3> QED BY <3>1, Zenon DEF ValidateURL, HostMatches
  <2> HIDE DEF root
  <2> QED BY <2>2, <2>3, <2>4, <2>5, Zenon DEF Covers
<1> QED BY <1>1, <1>4, <1>5

\* The OP's application is asked about a request exactly if its return_to
\* lies under its realm, part by part, and never for one outside it, also by
\* RPs of another make and after user_setup_url.
THEOREM RealmAlwaysRespected == Spec => []RealmRespected
<1> DEFINE Asked == at = "decide" /\ seen.returnTo # None => Covers(seen.root, seen.returnTo)
           Judged == at = "op" /\ wire.root # None /\ wire.returnTo # None
                       /\ Readable(wire.returnTo) =>
                         (TrustRootValid(wire) <=>
                            Readable(wire.root) /\ Covers(wire.root, wire.returnTo))
<1>1. Init => Asked
  BY DEF Init
<1>2. IInv /\ Asked /\ [Next]_vars => Asked'
  <2> SUFFICES ASSUME IInv, Asked, [Next]_vars, at' = "decide", seen'.returnTo # None
               PROVE  Covers(seen.root, seen.returnTo)'
    OBVIOUS
  <2>1. CASE Decode
    <3>1. /\ WellFormed(wire) /\ seen'.root = Root(wire) /\ seen'.returnTo = wire.returnTo
          /\ wire \in CheckIDMessage /\ Root(wire) # None
      BY <2>1 DEF Decode, WellFormed, IInv, ProgressOK
    <3>2. Root(wire) \in NormalURL /\ wire.returnTo \in NormalURL
      BY <3>1, CheckIDAssumption DEF CheckIDMessage, Root
    <3>3. Readable(wire.returnTo)
      BY <3>1, <3>2, ReadableParse DEF WellFormed
    <3>4. /\ Parse(Root(wire)) # {}
          /\ \A r \in Parse(Root(wire)) : ValidateURL(r, wire.returnTo)
      BY <3>1 DEF WellFormed, TrustRootValid
    <3>5. Covers(Root(wire), wire.returnTo)
      BY <3>2, <3>3, <3>4, RealmUnderstood
    <3> QED BY <3>1, <3>5 DEF Covers, UnderPath, Wildcard
  <2>2. CASE UNCHANGED vars
    BY <2>2 DEF vars, Covers, UnderPath, Wildcard
  <2>3. CASE Next /\ ~Decode
    BY <2>3 DEF Next, GetMessage, DecodeError, AnswerAllow, AnswerRefuse, Cancel, Complete,
                FollowSetup
  <2> QED BY <2>1, <2>2, <2>3
<1>3. IInv => Judged
  <2> SUFFICES ASSUME IInv, at = "op", wire.root # None, wire.returnTo # None,
                      Readable(wire.returnTo)
               PROVE  TrustRootValid(wire) <=>
                        Readable(wire.root) /\ Covers(wire.root, wire.returnTo)
    OBVIOUS
  <2>1. wire \in CheckIDMessage
    BY DEF IInv, ProgressOK
  <2>2. wire.root \in NormalURL /\ wire.returnTo \in NormalURL
    BY <2>1, CheckIDAssumption DEF CheckIDMessage
  <2>3. TrustRootValid(wire) <=>
          /\ Parse(wire.root) # {}
          /\ \A r \in Parse(wire.root) : ValidateURL(r, wire.returnTo)
    BY DEF TrustRootValid, Root
  <2> QED BY <2>2, <2>3, RealmUnderstood
<1>4. Asked /\ Judged => RealmRespected
  BY DEF RealmRespected
<1> HIDE DEF Asked, Judged
<1> QED BY <1>1, <1>2, <1>3, <1>4, InvariantHolds, PTL DEF Spec
=============================================================================
