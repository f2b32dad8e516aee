------------------------------ MODULE CheckID ------------------------------
(***************************************************************************)
(* One checkid exchange, from the RP's CheckIDRequest through the user's   *)
(* browser to the OP (Decoder, Server::CheckIDRequest, SigningEncoder) and *)
(* back to Consumer#complete, in OpenID 1 and 2.  An immediate request may *)
(* be refused with a URL to set the user up; then the browser goes there,  *)
(* and the OP decodes what it has written itself.                          *)
(*                                                                         *)
(* The RP is one of this library, or any other (Foreign): then the message *)
(* may be malformed, and who reads the answer is not modelled.  The two    *)
(* applications are external: the RP's chooses the request, the OP's       *)
(* decides for its user.  Signatures verify and nonces are fresh (that is  *)
(* what Signatory, Consumer and the nonce stores are about); a redirect    *)
(* and a form post carry the same arguments.  An argument that is nil      *)
(* leaves as the empty string (Blank), see Util.urlencode.                 *)
(*                                                                         *)
(* Bound: MaxHops visits to a user_setup_url.                              *)
(***************************************************************************)
EXTENDS TrustRoot

CONSTANTS
  Names,     \* identifiers of users
  Local,     \* Local[c]: the OP-local identifier that discovery of c gives
  Realms, ReturnTos,
  Apps,      \* what an RP's application may ask for
  Foreign,   \* requests of other RPs
  Select,    \* IDENTIFIER_SELECT
  Blank,     \* the empty string
  None,
  MaxHops

\* App: a service endpoint (version, whether it is an OP identifier, else
\* the claimed identifier), realm, return_to, and the flags of the request.
App == [ver : {1, 2}, select : BOOLEAN, cid : Names \union {None}, anonymous : BOOLEAN,
        immediate : BOOLEAN, realm : Realms, returnTo : ReturnTos, handle : BOOLEAN]

\* A URL as URINorm leaves it: it has a host (also once "*." is cut off) and a
\* path, and no empty query; a delimiter is not part of what it delimits.
NormalURL ==
  {url \in [proto : STRING, host : Seq(STRING), port : Nat, segs : Seq(Seq(STRING \ {"/", "?"})),
            query : Seq(Seq(STRING \ {"&"})), frag : BOOLEAN] :
     url.host \notin {<<>>, <<"*", "">>} /\ url.segs # <<>> /\ url.query # << <<>> >>}

Identifiers == Names \union {Select, Blank, None}

\* A checkid request on the wire.
CheckIDMessage ==
  [mode : {"checkid_setup", "checkid_immediate", "other"}, ver : {1, 2},
   identity : Identifiers, claimed : Identifiers,
   root : Realms \union ReturnTos \union {None}, returnTo : ReturnTos \union {None},
   handle : BOOLEAN]

\* An OP identifier is of OpenID 2; any other endpoint has a claimed identifier.
ASSUME CheckIDAssumption ==
  /\ Local \in [Names -> Names]
  /\ {Select, Blank, None} \intersect Names = {}
  /\ Select # Blank /\ Select # None /\ Blank # None
  /\ Apps \subseteq App
  /\ \A x \in Apps : IF x.select THEN x.ver = 2 ELSE x.cid # None
  /\ Foreign \subseteq CheckIDMessage
  /\ None \notin App \union CheckIDMessage
  /\ Realms \union ReturnTos \subseteq NormalURL
  /\ MaxHops \in Nat

VARIABLES
  app,       \* the RP's request object, None for an RP of another make
  at,        \* where the exchange is
  wire,      \* the message in the browser
  seen,      \* the CheckIDRequest the OP has decoded
  asked,     \* the one it had decoded before it sent user_setup_url
  decision,  \* what the OP's application called answer with
  outcome,   \* what complete returned
  disturbed, \* discovery failed, or the RP's framework added arguments
  hops

vars == <<app, at, wire, seen, asked, decision, outcome, disturbed, hops>>

Init ==
  /\ \/ app \in Apps /\ at = "rp" /\ wire = None
     \/ app = None /\ at = "op" /\ wire \in Foreign
  /\ seen = None
  /\ asked = None
  /\ decision = None
  /\ outcome = None
  /\ disturbed = FALSE
  /\ hops = 0

(***************************************************************************)
(* The RP: CheckIDRequest#get_message.  anonymous= refuses OpenID 1, where *)
(* an OP identifier does not exist either.  The shared association is      *)
(* named in OpenID 1 only.                                                 *)
(***************************************************************************)
GetMessage ==
  LET id == CASE app.anonymous -> [identity |-> None, claimed |-> None]
              [] ~app.anonymous /\ app.select -> [identity |-> Select, claimed |-> Select]
              [] OTHER -> [identity |-> Local[app.cid],
                           claimed |-> IF app.ver = 2 THEN app.cid ELSE None]
  IN
  /\ at = "rp"
  /\ app.ver = 1 => ~app.anonymous
  /\ wire' = [mode |-> IF app.immediate THEN "checkid_immediate" ELSE "checkid_setup",
              ver |-> app.ver, identity |-> id.identity, claimed |-> id.claimed,
              root |-> app.realm, returnTo |-> app.returnTo,
              handle |-> app.handle /\ app.ver = 1]
  /\ at' = "op"
  /\ UNCHANGED <<app, seen, asked, decision, outcome, disturbed, hops>>

(***************************************************************************)
(* The OP decodes.                                                         *)
(***************************************************************************)

\* trust_root, realm, or in their absence the return_to.
Root(m) == IF m.root = None THEN m.returnTo ELSE m.root

\* trust_root_valid
TrustRootValid(m) ==
  LET root == Parse(Root(m)) IN
  /\ root # {}
  /\ m.returnTo # None => \A r \in root : ValidateURL(r, m.returnTo)

\* Mutant: the claimed identifier is not asked for.
WellFormedUnclaimed(m) ==
  /\ m.mode \in {"checkid_setup", "checkid_immediate"}
  /\ m.ver = 1 => m.returnTo # None /\ m.identity # None
  /\ Root(m) # None
  /\ m.returnTo # None => Parse(m.returnTo) # {}
  /\ TrustRootValid(m)

\* What CheckIDRequest.from_message raises no ProtocolError for.
WellFormed(m) ==
  /\ m.mode \in {"checkid_setup", "checkid_immediate"}
  /\ m.ver = 1 => m.returnTo # None /\ m.identity # None
  /\ m.ver = 2 => (m.identity = None <=> m.claimed = None)
  /\ Root(m) # None
  /\ m.returnTo # None => Parse(m.returnTo) # {}
  /\ TrustRootValid(m)

Decode ==
  /\ at = "op"
  /\ WellFormed(wire)
  /\ seen' = [ver |-> wire.ver, immediate |-> wire.mode = "checkid_immediate",
              identity |-> wire.identity, claimed |-> wire.claimed, root |-> Root(wire),
              returnTo |-> wire.returnTo, handle |-> wire.handle]
  /\ at' = "decide"
  /\ UNCHANGED <<app, wire, asked, decision, outcome, disturbed, hops>>

Reply(ver, mode) == [mode |-> mode, ver |-> ver, identity |-> None, claimed |-> None,
                     setup |-> None, signed |-> FALSE]

\* A ProtocolError goes back to the return_to; without one it is shown.
DecodeError ==
  /\ at = "op"
  /\ ~WellFormed(wire)
  /\ IF wire.returnTo # None THEN wire' = Reply(wire.ver, "error") /\ at' = "back"
                             ELSE at' = "shown" /\ UNCHANGED wire
  /\ UNCHANGED <<app, seen, asked, decision, outcome, disturbed, hops>>

(***************************************************************************)
(* The OP answers.  A decision is whether the user agrees, and for an      *)
(* identifier to be selected, which one.                                   *)
(***************************************************************************)
NilToBlank(v) == IF v = None THEN Blank ELSE v

\* Mutant: the realm goes out under OpenID 1's name, and is not found again.
SetupRequestNoRealm ==
  [mode |-> "checkid_setup", ver |-> seen.ver, identity |-> NilToBlank(seen.identity),
   claimed |-> NilToBlank(IF seen.claimed = None THEN seen.identity ELSE seen.claimed),
   root |-> IF seen.ver = 1 THEN seen.root ELSE None,
   returnTo |-> seen.returnTo, handle |-> seen.handle]

\* "Make a new request just like me, but with immediate=false", encode_to_url.
SetupRequest ==
  [mode |-> "checkid_setup", ver |-> seen.ver, identity |-> NilToBlank(seen.identity),
   claimed |-> NilToBlank(IF seen.claimed = None THEN seen.identity ELSE seen.claimed),
   root |-> seen.root, returnTo |-> seen.returnTo, handle |-> seen.handle]

Allow(identity, claimed) == [allow |-> TRUE, identity |-> identity, claimed |-> claimed]
Refuse == [allow |-> FALSE, identity |-> None, claimed |-> None]

\* What answer raises no ArgumentError or VersionError for.
MayAllow(identity, claimed) ==
  /\ seen.ver = 1 => claimed = None
  /\ CASE seen.identity = Select -> identity # None
       [] seen.identity = None -> identity = None
       [] OTHER -> identity \in {None, seen.identity}

\* Mutant: the claimed identifier of the answer is always the local one.
AnswerClaimedLocal(identity, claimed) ==
  IF seen.identity = Select THEN identity ELSE seen.claimed

\* The claimed_id of a positive answer.
AnswerClaimed(identity, claimed) ==
  IF seen.identity = Select
    THEN IF claimed = None THEN identity ELSE claimed
    ELSE seen.claimed

\* A positive answer has mode id_res, so it is signed on its way out.
AnswerAllow(identity, claimed) ==
  /\ at = "decide"
  /\ seen.returnTo # None
  /\ MayAllow(identity, claimed)
  /\ decision' = Allow(identity, claimed)
  /\ wire' = [Reply(seen.ver, "id_res") EXCEPT
       !.identity = IF seen.identity = Select THEN identity ELSE seen.identity,
       !.claimed = IF seen.ver = 2 THEN AnswerClaimed(identity, claimed) ELSE None,
       !.signed = TRUE]
  /\ at' = "back"
  /\ UNCHANGED <<app, seen, asked, outcome, disturbed, hops>>

\* Mutant: the mode of OpenID 2 in OpenID 1.
AnswerRefuseOneMode ==
  /\ at = "decide"
  /\ seen.returnTo # None
  /\ decision' = Refuse
  /\ wire' = IF seen.immediate
       THEN [Reply(seen.ver, "setup_needed") EXCEPT !.setup = SetupRequest]
       ELSE Reply(seen.ver, "cancel")
  /\ at' = "back"
  /\ UNCHANGED <<app, seen, asked, outcome, disturbed, hops>>

\* In OpenID 1 an immediate refusal is an id_res, too, and signed.
AnswerRefuse ==
  /\ at = "decide"
  /\ seen.returnTo # None
  /\ decision' = Refuse
  /\ wire' = IF seen.immediate
       THEN [Reply(seen.ver, IF seen.ver = 1 THEN "id_res" ELSE "setup_needed") EXCEPT
               !.setup = SetupRequest, !.signed = seen.ver = 1]
       ELSE Reply(seen.ver, "cancel")
  /\ at' = "back"
  /\ UNCHANGED <<app, seen, asked, outcome, disturbed, hops>>

\* The user takes cancel_url, and the OP's application never answers.
Cancel ==
  /\ at = "decide"
  /\ seen.returnTo # None
  /\ ~seen.immediate
  /\ decision' = Refuse
  /\ wire' = Reply(seen.ver, "cancel")
  /\ at' = "back"
  /\ UNCHANGED <<app, seen, asked, outcome, disturbed, hops>>

(***************************************************************************)
(* The RP completes.  extra: the framework added an argument that is not   *)
(* on return_to; found: discovery gives what it should.                    *)
(***************************************************************************)
Conclude(status, id, setup) == [status |-> status, id |-> id, setup |-> setup]

\* verify_discovery_results: the endpoint of the session if it is still
\* there, else discovery of the claimed identifier.
Discovered(claimed, identity, found) ==
  LET known == hops = 0 /\ ~app.select /\ app.cid = claimed
  IN  claimed \in Names /\ Local[claimed] = identity /\ (known \/ found)

\* check_signature finds the association, or asks, at the server of the
\* session's endpoint; without one, OpenID 2 takes the op_endpoint of the
\* answer and OpenID 1 has nobody to ask.  complete clears the session's
\* endpoint, so none is left after a visit to a user_setup_url.
ServerKnown == app.ver = 2 \/ hops = 0

\* id_res: check_for_fields, check_signature, verify_return_to and
\* verify_discovery_results.  Where there is nobody to ask, the file store
\* raises another exception than the one complete makes a failure of.
IdRes(extra, found) ==
  LET claimed == IF app.ver = 1 THEN app.cid ELSE wire.claimed
      anonymous == app.ver = 2 /\ claimed = None /\ wire.identity = None
  IN  IF /\ wire.signed
         /\ app.ver = 1 => wire.identity # None
         /\ ServerKnown
         /\ ~extra
         /\ anonymous \/ Discovered(claimed, wire.identity, found)
      THEN Conclude("success", claimed, None)
      ELSE Conclude("failure", None, None)

CompleteIdRes(extra, found) ==
  IF wire.ver = 1 /\ wire.setup # None THEN Conclude("setup_needed", None, wire.setup)
                                       ELSE IdRes(extra, found)

Complete(extra, found) ==
  /\ at = "back"
  /\ app # None
  /\ outcome' = CASE wire.mode = "id_res" -> CompleteIdRes(extra, found)
                  [] wire.mode = "cancel" -> Conclude("cancel", None, None)
                  [] wire.mode = "setup_needed" /\ wire.ver = 2 ->
                       Conclude("setup_needed", None, wire.setup)
                  [] OTHER -> Conclude("failure", None, None)
  /\ disturbed' = (extra \/ ~found)
  /\ at' = "done"
  /\ UNCHANGED <<app, wire, seen, asked, decision, hops>>

\* The RP's application sends the user to the setup URL.
FollowSetup ==
  /\ at = "done"
  /\ outcome.status = "setup_needed"
  /\ hops < MaxHops
  /\ hops' = hops + 1
  /\ wire' = outcome.setup
  /\ at' = "op"
  /\ asked' = seen
  /\ seen' = None
  /\ decision' = None
  /\ outcome' = None
  /\ UNCHANGED <<app, disturbed>>

Next ==
  \/ GetMessage
  \/ Decode \/ DecodeError
  \/ \E identity, claimed \in Names \union {None} : AnswerAllow(identity, claimed)
  \/ AnswerRefuse \/ Cancel
  \/ \E extra, found \in BOOLEAN : Complete(extra, found)
  \/ FollowSetup

Spec == Init /\ [][Next]_vars

-----------------------------------------------------------------------------
\* What the RP is to understand if the user agrees: the identifier it asked
\* for, the one selected at the OP, or none.
Meant ==
  CASE app.anonymous -> None
    [] ~app.anonymous /\ app.select ->
         IF decision.claimed = None THEN decision.identity ELSE decision.claimed
    [] OTHER -> app.cid

\* The RP concludes what the OP decided, in each version and mode, on the
\* first visit and on the one by user_setup_url (which in OpenID 1 can only be
\* cancelled or fail): it never takes one answer for another, nor one
\* identifier for another.
UnderstoodAsMeant ==
  outcome # None =>
    /\ outcome.status = "success" => decision.allow /\ outcome.id = Meant
    /\ outcome.status = "cancel" => ~decision.allow /\ ~seen.immediate
    /\ outcome.status = "setup_needed" => ~decision.allow /\ seen.immediate

\* A refusal never shows up as a failure, and an agreement fails only if
\* something went wrong on the RP's side, the OP's application named an
\* identifier its user does not have, or the request went through
\* user_setup_url and was an anonymous one, which then has an empty identifier
\* instead of none, or one of OpenID 1, whose answer the RP cannot verify any
\* more.
FailureHasCause ==
  outcome # None /\ outcome.status = "failure" /\ decision # None =>
    /\ decision.allow
    /\ \/ disturbed
       \/ app.anonymous /\ hops > 0
       \/ app.ver = 1 /\ hops > 0
       \/ app.select /\ Local[Meant] # wire.identity

\* The OP's application is asked about a request exactly if its return_to
\* lies under its realm (or it has only one of them), whatever the spelling.
RealmRespected ==
  LET m == wire IN
  /\ at = "decide" /\ seen.returnTo # None => Covers(seen.root, seen.returnTo)
  /\ at = "op" /\ m.root # None /\ m.returnTo # None /\ Readable(m.returnTo) =>
       (TrustRootValid(m) <=> Readable(m.root) /\ Covers(m.root, m.returnTo))

\* user_setup_url makes the OP decode the request it had refused, "just like
\* me, but with immediate=false"; an anonymous request is the exception.
SetupAsksTheSame ==
  hops > 0 /\ at = "decide" /\ asked.identity # None =>
    seen = [asked EXCEPT !.immediate = FALSE,
                         !.claimed = IF @ = None THEN asked.identity ELSE @]

\* A positive answer names the identifier that was asked for, or, if that
\* was left to the OP, an identifier; in OpenID 2 claimed_id and identity
\* come together or not at all, even if the RP is of another make.
IdentifierAsRequested ==
  at = "back" /\ wire.mode = "id_res" /\ decision.allow =>
    /\ seen.identity # Select => wire.identity = seen.identity
    /\ seen.identity = Select => wire.identity \in Names
    /\ seen.ver = 1 => wire.identity # None /\ wire.claimed = None
    /\ seen.ver = 2 => (wire.identity = None <=> wire.claimed = None)
=============================================================================
