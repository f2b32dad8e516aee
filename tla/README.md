# A TLA+ model of ruby-openid2

ruby-openid2 implements both sides of OpenID 1 and 2: the relying party (RP, `OpenID::Consumer`) that wants
to know who a user is, and the OpenID provider (OP, `OpenID::Server`) that says so. The two talk over HTTP,
directly for `associate` and `check_authentication`, through the user's browser for everything else. An
application embeds one side or both in its web processes, which share a *store* (files, memcached or the
memory of one process) and, at the RP, the user's web *session*.

None of the code has a lock that spans two calls of the store, or two reads of the session. What makes it
correct is therefore an argument about interleavings, about clocks and about what the other side may answer.
This directory models that: the modules below are translated from the code, TLC checks them on small
instances, and TLAPS proves, for every instance, every safety property that TLC checks.

* [Running it](#running-it)
* [The system](#the-system): the components, their state, what is hard about them
* [Modules](#modules): which module stands for which code
* [Runs](#runs): what is checked, the bounds, the fairness
* [Where the code departs from what it says](#where-the-code-departs-from-what-it-says)
* [Proofs](#proofs)
* [What is not modelled](#what-is-not-modelled)
* [What could come next](#what-could-come-next)

## Running it

    tlc -config FileNonces.cfg MCFileNonces     # any other run: see the table of runs
    tlapm NonceProofs.tla

`PROJECT.json` lists the runs with their modules, the lines every definition is translated from (`map`), a
mutant of the code for every property (`mutants`: the run must fail when the definition is replaced), the
hazards of the code with the properties that cover them, the findings and the theorems.

## The system

| Component | Source (under `src/lib/openid/`) | State | Operations |
|---|---|---|---|
| Nonces in a store | `store/filesystem.rb`, `store/memcache.rb`, `store/memory.rb`, `store/nonce.rb` | used nonces with their timestamps | `use_nonce`, `cleanup_nonces` |
| Associations in a store | the same, `association.rb` | shared secrets by server URL and handle | `store_association`, `get_association`, `remove_association`, `cleanup_associations` |
| OP signatory | `server.rb` (`Signatory`, `CheckAuthRequest`, `AssociateRequest`) | associations under a "normal" and a "dumb" key | `sign`, `verify`, `invalidate`, `get_association`, `create_association` |
| Association negotiation | `consumer/associationmanager.rb`, `server.rb` (`openid_associate`, `answer_unsupported`), `kvpost.rb` | the negotiators' allowed types | `negotiate_association`, the `associate` request |
| Relying party | `consumer.rb`, `consumer/idres.rb`, `consumer/checkid_request.rb` | the session's last endpoint; store | `begin`, `complete` |
| Service rotation | `consumer/discovery_manager.rb` | the session's list of services | `get_next_service`, `cleanup` |
| Messages | `message.rb` | arguments by namespace; alias map | parsing, `set_arg`, `del_arg`, `add_alias`, `to_post_args` |
| OP request handling | `server.rb` (`Decoder`, `CheckIDRequest`, `Encoder`, `ProtocolError`) | none | decode, answer, encode |
| Trust roots | `trustroot.rb` | none | parse, match a `return_to` |
| Discovery | `consumer/discovery.rb`, `yadis/` | none | find the services of an identifier, and order them |
| Extensions | `extensions/` | none | sreg, ax, pape fields of a message |
| Text formats | `kvform.rb`, `urinorm.rb`, `kvpost.rb` | none | key-value form, URL normalisation |
| Cryptography | `cryptutil.rb`, `dh.rb` | none | Diffie-Hellman, HMAC |
| HTTP, HTML, XML | `fetchers.rb`, `yadis/`, `consumer/html_parse.rb` | none | input and output |

How they meet: `Consumer#begin` asks the service rotation for an endpoint (which discovers, over the network,
when it has none), the association manager for a shared secret (which negotiates one with the OP), and puts
the endpoint into the session. The browser carries a message to the OP, whose signatory signs the answer with
the shared secret or, if the RP cites none or one that is gone, with a "dumb" secret the OP keeps to itself.
The browser brings the answer to `Consumer#complete`, which checks the signature itself or asks the OP
(`check_authentication`, which the OP must answer once), uses up the nonce in the store, and compares the
claim with discovery.

What is hard about each, and what makes it correct:

* **Nonces.** Decision and record are two steps; the record is thrown away when its timestamp is outdated, by
  a clock that moves and, in memcached, by an expiry counted from the acceptance rather than from the
  timestamp. *Correct* when a nonce is accepted once, and storage does not fill up.
* **Associations.** The file store lists a directory and then reads file after file while other processes rename,
  unlink and clean up; memcached holds every association twice, and a removal looks at one entry before it
  deletes it. A process may die between any two of these. *Correct* when a call answers with something that was
  there, a removal is final, and nothing is lost but what expired, was removed or replaced.
* **Signatory.** Every request is a sequence of store calls; workers interleave between them, die between
  them, and secrets expire between them. Some stores hide what has expired and some do not. *Correct* when a
  check burns the secret, only OP-private secrets are vouched for, a handle called invalid stays so, and an
  honest first check succeeds.
* **Negotiation.** Two sides decide separately, in two protocol versions, and the OP may be any program.
  *Correct* when the two end with a common association both allow, or both know there is none.
* **Relying party.** Tabs share one session slot; `complete` waits for the network in two places and has read
  the slot before. *Correct* when an assertion yields one login, for an identifier its OP may assert, after
  its signature was vouched for.
* **Service rotation.** Discovery waits for the network while other tabs change the slot. *Correct* when
  services are tried in order, none skipped, none forgotten, none of another identifier.
* **Discovery.** Three fetches may each get another document; every one may be missing, unreadable, without
  OpenID services or in conflict with itself. *Correct* when a usable service is found if there is one, services of
  OP identifiers and preferred URIs come first, and what is found lets the user claim the right identifier.
* **OP request handling, trust roots.** A request crosses the browser, is decoded, decided on by an application,
  encoded in one of two versions and two modes, perhaps sent round once more through a `user_setup_url`, and
  decoded by the RP. *Correct* when each side understands what the other meant, and the OP's application is asked only about a
  `return_to` inside the realm.
* **Messages.** Aliases are added by the parser, callers and extensions in any order, to two hashes that must
  mirror each other. *Correct* when they do, nothing is lost on the way to the wire, and a message passed on
  is the message received.

## Modules

Each component has a module; `MC<module>` instantiates it for TLC and `<module>Proofs` holds its theorems (both stores'
theorems about nonces are in `NonceProofs`).
Operators called "Mutant" in comments are faulty variants of the definition below them, and no part of the
specification.

**`NonceStore`** is what `store/interface.rb` promises of `use_nonce`, in one action: a nonce is accepted
once, while its timestamp is within `Nonce.skew` of the clock. A refusal is a stuttering step. `Slack` is the
lag between reading the clock and deciding; a store that `Forgets` keeps the promise as long as the nonce is current.

**`UseNonce`** is what the stores' `use_nonce` have in common: the clock, the calls in progress, the test of the
timestamp (`Current`), the strict promise (`AtMostOnce`). Both stores' modules extend it.

**`FileNonces`** implements it with files. `use_nonce` is `FileCheckTimestamp` (read the clock, refuse what is not
current; a refusal changes nothing and is no step) and `CreateExclusive` (`File.new` with `CREAT|EXCL`).
`cleanup_nonces` is `ListNonces`, `ReadClock`, an `Unlink` per file, `CleanupDone`. `FileCrash` ends a call
anywhere and leaves the files; `FileTick` moves the clock. File names are abstracted to the nonce: `server_url`
and salt are hashed into the name, and hash collisions are left out.

**`MemcacheNonces`** implements it with memcached: `MemcacheCheckTimestamp`, `ComputeExpiry` (the *second* reading of
the clock, in `expiry`), `Add`; `MemcacheCrash` and `MemcacheTick` as above. memcached is external; it is assumed to keep
an entry until that expires (an eviction under memory pressure would lose a nonce, which no client can prevent) and to
have our clock.

**`AssocStore`** is what `store/interface.rb` promises of the associations of one server: what is stored is held
under its handle until that is removed, another association takes its place or it has expired (`held`), and
`get_association` answers with it, or with nil if it has expired (`given`). `hides` says whether a store keeps the last
part, which only the file store does. The promise is about handles that name one association: if an OP gives out a handle
twice, the second association may go for the first one's age (`MayDrop`).

**`Associations`** implements it with each of the three stores (`kind`), one call of the file system or of memcached
per action:

| Action | Code |
|---|---|
| `BeginStore`, `Rename`, `UnlinkOld`, `RenameAgain` | the file store writes a temporary file and renames it; where rename does not replace a file (`renames`), it unlinks and renames again |
| `SetBare`, `SetHandle` | memcache sets the entry of the URL, then that of URL and handle |
| `MemoryStore` | the hash |
| `BeginGet`, `Read`, `UnlinkExpired`, `FinishGet` | `get_association`: list, read one file after the other, unlink the expired, answer with the newest |
| `BeginRemove`, `RemoveEntry`, `DeleteHandle`, `LookAtLast`, `DeleteLast` | `remove_association` |
| `BeginCleanup`, `CleanupDone`, `MemoryCleanup` | `cleanup_associations`; the file store's reads and unlinks are `Read` and `UnlinkExpired` |
| `Crash`, `Tick` | a process dies or its disk or cache fails; time passes |

Reading a file and asking whether it has expired is one step. A file gets its name when it has been written and synced, so
the branch for files that do not deserialise, which is for damage from outside, is left out. memcached is external and
drops what has expired, no earlier. `seen`, `through`, `stored`, `gone`, `last`, `excused` are history.

**`Signatory`** is the OP's `Signatory` with the three requests that reach it. One call of the store is one
action, as the code has it:

| Action | Code |
|---|---|
| `Associate` | `openid_associate` for a type that is allowed |
| `SignDumb` | `sign` without a handle |
| `SignLookup`, `SignDecide`, `SignInvalidate`, `SignFallback`, `SignMessage` | `sign` with a handle: lookup without expiry check, decision on the object in hand, `invalidate`, new dumb association; then the signature |
| `CheckVerify`, `CheckPurge` | `verify` with the expiry check of `get_association` |
| `CheckBurn` | `invalidate(assoc_handle, true)` |
| `CheckLookup`, `CheckPurgeCited`, `CheckAnswer` | the `invalidate_handle` branch, and the answer |
| `Crash`, `Tick` | a worker dies; time passes |

A handle stands for its association and is never drawn twice (the code draws 4 random bytes beside the time).
Cryptography is abstracted to whether a copy that comes back is unaltered. `hides` is the kind of store: the
file and memcache stores return nothing for an expired association, the memory store returns it.
`SignDecide` and the steps that lead to `SignMessage` are the decision on the object in hand and the signature:
time passes and other workers remove associations in between. The `invalidate_handle` of a check may be any handle if
the response named none, because it is not signed then, or if the copy is altered (`MayCite`); `Foreign` adds handles the store
never held (TLC: none, the theorems: any).
`checked`, `raced`, `answered`, `reported`, `confirmed`, `unreported` are history.

**`Negotiation`** is `negotiate_association` on one side and `openid_associate` on the other. An OP of this
library answers with `OpenIDAssociate`; with any other OP (`OtherReply`) every reply of the right form may
come: status, version, kind, types, complete or not. `Receive` holds the parsing, the rescue clauses and the
second request. Numbers and keys are abstracted to whether a reply carries them.

**`Consumer`** is `begin_without_discovery` and `complete` over one session, with OPs that answer requests,
assert on their own and answer `check_authentication`. Both calls are split where they wait or touch shared state.
`BeginLookup` reads the store, `Negotiate` asks the OP (which agrees, refuses, or is not there), `StoreAssociation` stores,
`Send` writes the session slot; `CompleteIdRes` reads the slot, `CheckSignature` the store,
`CheckAuth`/`CheckAuthLost` talk to the server, `CheckNonce` uses the store, `VerifyDiscovery` may discover again.
An exception that is no `OpenIDError` leaves the session slot behind (`Raise`).

Three servers are involved in a response and the code does not tie them together: the one that signed it, the one it
names (`op_endpoint`, which OpenID 1 does not have), and the one that is asked about it, which is that of the endpoint in the session
and, in OpenID 2, the one named if there is no endpoint. Discovery is compared with the one named. The model keeps them
apart (`signer`, `op`, `SignatureURL`), and its properties count by *words*: a response with the server asked about it.
An OP confirms a dumb signature of its own once; about a signature of another OP it says what it likes, and it is
believed. What OPs assert is a parameter, solicited (`Answers`) or not (`Unsolicited`), their own name or another's,
identifiers that are theirs or not, or none. The OP here answers `check_authentication` atomically; that its own store does
not is `Signatory`'s subject. A response arrives unaltered at the URL it was meant for.

**`CheckID`** is one checkid exchange: `GetMessage` (the RP's `CheckIDRequest`), `Decode` and `DecodeError` (the
Decoder with all its checks, and what a `ProtocolError` is sent as), `AnswerAllow`, `AnswerRefuse`, `Cancel`
(`CheckIDRequest#answer` with what the OP's application passes, and `cancel_url`), `Complete` (the RP's
`complete`: versions, modes, fields, the server that can be asked, `return_to`, the comparison with discovery, delegation) and
`FollowSetup` (the browser goes to the `user_setup_url`, which is `SetupRequest`, so that the OP decodes what it wrote itself).
Requests come from this library or from any other (`Foreign`), then perhaps malformed. Signatures
verify and nonces are fresh here: they are the subject of the other modules. **`TrustRoot`** is `TrustRoot.parse` and `validate_url`, on
URLs that are normalised and cut into their parts. The code compares paths as text, and so does the model: `PathText` puts
the text together. `Covers` says what the comparison is for, of the parts. A lone wildcard stands for `http://*/` as it is
written, without a port; the host `*.` is left out.

**`DiscoveryManager`** is `get_next_service` and `cleanup`, for any set of services and any outcome of discovery
(`Service`, `Found`). A request is atomic except for discovery: `Begin` runs up to it, `Discovered` or
`DiscoveryFails` from it on, and other requests run in between. `Cleanup` is the forced one of `complete`.

**`Discovery`** is `OpenID.discover` as operators: which documents are fetched and read (`Document`, `IsXRDS`,
`Refetched`), the endpoints they yield (`FromXRDS`, `FromHTML`, `DiscoverXRI`), their order (`Arrange`,
`GetOPOrUserServices`, `PrioSort`: each a `SortBy` of its own ranks). A document is a record of what the parsers make of it.
The URL discovery returns is taken as normalised.

**`DiscoverySession`** composes the two: the block that `Consumer#begin` hands to `get_next_service` is `Discover`
on whatever state of the web it meets. TLC runs `DiscoveryManager` in this composition.

**`Message`** is `Message` and `NamespaceMap`, with `_fix_ns`, which moves arguments of the namespace `sreg` to the URI
of sreg (`FixNs`, `PlaceIn`), while a query is parsed as well as later. A wire key is the sequence of its dot-separated segments; the
initial states are the messages `Message.new` and `from_post_args` make, the steps what callers and
extensions do; `ToPostArgs` is the way back. A call that raises is no step: all of them raise before they
change anything, except `set_arg`, whose exception needs more than `MaxExt` aliases to be taken.

## Runs

| Run | Module | Shows |
|---|---|---|
| `FileNonces` | `MCFileNonces` | once while current, no early forgetting, refinement of `NonceStore`, reclaiming |
| `MemcacheNonces` | `MCMemcacheNonces` | at most once and refinement while `Ahead + MaxStall < Pad` |
| `MemcacheNoncesAhead` | `MCMemcacheNonces` | *violation*: a nonce stamped further ahead than the padding |
| `Associations` | `MCAssociations` | honest and newest answers, final removals, the association offered last, refinement of `AssocStore` (which store hides what has expired, included) |
| `Signatory` | `MCSignatory` | only OP-private secrets are vouched for, a reported handle stays dead, first checks succeed, a second confirmation needs a race, nothing is signed with a secret that had been declared invalid |
| `Negotiation` | `MCNegotiation` | agreement, first choice, session type, termination |
| `NegotiationPreference` | `MCNegotiation` | *violation*: the OP's preference is not agreed on |
| `CheckID` | `MCCheckID` | RP and OP understand each other, failures have a cause, realms are respected, a setup URL asks the same |
| `Consumer` | `MCConsumer` | one login per assertion and server asked, one per OpenID 1 request; who vouched for it, who confirmed it, where its nonce went |
| `ConsumerReload` | `MCConsumer` | *violation*: two logins with the memory store |
| `DiscoverySession` | `MCDiscoverySession` | OP identifiers first and URIs by priority, services handed in the order found, none overlooked, skipped or thrown away, the right identifier |
| `Message` | `MCMessage` | inverse maps, keys, passing on what was received, clashes |

**Bounds, and why they are enough.**

* `FileNonces`: two processes (one of them the cleaner), two nonces whose stamps differ by more than the
  skew of 1, clock to 5: each nonce is not yet, then, and no longer current within the run, and either process
  may be anywhere meanwhile. `MaxStall = 1`: a process may be overtaken by one tick between the two
  steps of `use_nonce`, enough for its nonce to go out of date and for the cleanup to take the file. 50 410 states.
* `MemcacheNonces`: skew 2, padding 3 (the code has 5 hours and 5 seconds; what matters is how the padding
  compares with the stall and the lead), lead 1, stall 1, clock to 8, by when an entry made at the first
  possible moment has expired.
* `Associations`: two processes and three associations, each stored once; two of them share a handle, so that a
  replacement and a live association beside it both happen. Lifetime and clock 2: each may expire in the middle of
  any call. All three stores, and both behaviours of rename. 4.6 million states, 3 minutes; a third process adds
  a second stale listing, which the theorems cover.
* `Signatory`: two workers, two handles (a shared association and its fallback, or two dumb ones), lifetime 1,
  clock to 2, so that a secret expires between any two steps of a request, both kinds of store. A race has two workers; every
  property is about one handle and what replaces it. 6.7 million states, 2 minutes.
* `Negotiation`: all lists of at most two of the four allowed pairs, the empty list included, on both sides,
  and the two presets of the library against an OP that may reply anything. The code looks at the first pair and
  at membership only, so longer lists differ in no test it makes.
* `Consumer`: two tabs, two requests, two responses, stateless, memory and file store (which stands for memcache, too).
  Of two OPs one is of OpenID 2 only and shares no association; the other has an identifier in both versions and does. The
  first asserts the other's identifier in the other's name, one of its own in the other's name, and no identifier; so the
  signer, the server named and (by what is in the session) the server asked may all be another. 4.8 million states, 2 minutes.
* `CheckID`: two names, one delegated to the other; every choice of the library's application with one pair of
  URLs, and a plain request with every pair out of 22 realms and 16 `return_to` URLs that differ in scheme, host label, port, path (at a
  boundary or inside a segment), query (likewise) or fragment, or have a wildcard: in front of a host, alone, alone with a
  path or a port, in front of an empty label; 648 requests of other RPs;
  one visit to a `user_setup_url` (`MaxHops`), for the request it leads to is not immediate and offers no other.
* `DiscoverySession`: two tabs, three identifiers (one redirects to another, one is an XRI), documents of
  every kind: XRDS at once, behind a location or behind a location that is the page itself, with services of
  all types, none, without URI or with conflicting local identifiers; HTML with links and without; failures. Four
  calls of `begin`: enough for one tab to exhaust a manager of two services, rediscover, and be interrupted.
* `Message`: seven keys (protocol field, two aliases declared or not, a bare argument, `openid.ns` in three
  versions or absent) in every combination, declared as an extension or as `sreg`, then any sequence of operations with three namespaces and three
  aliases. 132 146 states. `MaxExt = 2` suffices: `ext0` may be declared, and two namespaces ask for a free number.

**Fairness.** `FileNonces!FileFairSpec`: time passes (WF), a call that created its file goes on or is killed (WF
of `CreateExclusive`, which a crash disables), and one process runs `cleanup_nonces` again and again and is not killed in
every run (SF of its steps). That is what an administrator with a periodic job gives; the code never calls
`cleanup_nonces` itself, and without the job nothing is reclaimed. `Negotiation!FairSpec`: WF of `Next`,
because the fetcher times out (`fetchers.rb`), so that a request ends in a reply or in `NetworkError`.
No other specification claims liveness.

**Deadlock** is checked where the system never stops (`FileNonces`, `Signatory`, `Negotiation` with its
explicit `Done`). The other models stop by themselves once their bounds are used up: the clock, the associations to
store, the names of requests and responses, the calls of `begin`, the visits to a setup URL, the free `ext` aliases. Their configurations
switch the check off.

**Symmetry** is used in `Signatory`, `Consumer` and `Associations` for workers and, in the first two, names; no
property orders them and none of these runs checks liveness.

## Where the code departs from what it says

Three runs are expected to fail; each quotes what the repository says of the program (`findings` in
`PROJECT.json`).

1. **A nonce stamped ahead of the clock, in memcached** (`MemcacheNoncesAhead`, `store/memcache.rb:65`). The entry
   lives `Nonce.skew + 5` seconds from the acceptance. A nonce stamped 5 seconds ahead or more
   (`use_nonce` accepts up to `Nonce.skew` ahead) is still current when its entry is gone.
2. **The OP's preferred type** (`NegotiationPreference`, `server.rb:1175`). In OpenID 2 the refusal leaves with
   status 200, the RP takes only status 400 for an error, and the offer is not followed.
3. **A reload with the memory store** (`ConsumerReload`, `consumer/idres.rb:223`). The endpoint made up for the
   signature check is cleared, so the nonce is filed under `nil` when the session has no endpoint, and under
   the server URL when it has.

Seen while modelling, and not made into runs:

* Nonces: the file store may accept a nonce again once its time is over (a call that passed the timestamp check in the
  last current second creates the file after the cleanup has removed it). `OnceWhileCurrent` says that there is no
  other way, and `NonceStore` with `Forgets` allows it.
* Signatory: two checks of one response both answer `is_valid:true` if both verify before either invalidates
  (`server.rb:117-120`); `ConfirmedTwiceOnlyByRace` says that there is no other way. In `sign`, a store that hides
  expired associations makes the fallback take the default type instead of the association's (`server.rb:1063-1076`).
* Associations: the file store may unlink a live association that was stored, under the same handle, over an
  expired one it had just read (`store/filesystem.rb:118`, `:187`). `get_association` is to return nil for an association
  that has expired (`store/interface.rb:23-26`); the memory store returns it (`store/memory.rb:21-28`), and memcached may, since it counts
  the lifetime from when the association was stored, not from when it was issued. The callers look at `expires_in` themselves.
* Negotiation: a malformed second reply to `associate` leaves `negotiate_association` as
  `InvalidOpenIDNamespace`, while a malformed first one is rescued.
* Relying party: the server that is asked about a signature is the one of the endpoint in the session, and what it says is
  believed; the server that discovery must confirm is the one the response names, and in OpenID 1 any will do
  (`consumer/idres.rb:205-235`, `:318-359`, `:486-497`). Nothing compares the two, although a comment says that "signature checking or
  check_auth should take care of that". So the properties of `Consumer` speak of the word of the server asked: a response is accepted
  once *on each word* (`AcceptedOnce`), and a `SUCCESS` says that discovery confirms the server named and that the server
  asked was one the session had been sent to (`SuccessVouched`), no more.
* Relying party: with the file or memcache store a response without a session endpoint makes `complete` raise on
  the nil server URL. `consumer/checkid_request.rb:84` raises about extra `return_to` arguments when there are
  *none*, and not when there are some.
* Checkid: an anonymous immediate request that is refused comes back from its `user_setup_url` with empty
  identifiers instead of none, and its answer fails at the RP (`FailureHasCause` and `SetupAsksTheSame` name it as
  the exception).
* Checkid: in OpenID 1 a login that goes by a `user_setup_url` never succeeds. `complete` clears the session's endpoint when it
  returns SETUP_NEEDED as well (`consumer.rb:295`), so there is no server to find the association of, or to ask, when the answer
  arrives; only OpenID 2 takes it from the answer (`consumer/idres.rb:199-212`). `FailureHasCause` names this, too.
* Trust roots: `get_allowed_return_urls` calls `services`, which is defined nowhere (`trustroot.rb:359`).
* Discovery: `arrange_by_type` keeps every service, so that `get_op_or_user_services` always returns its first list:
  the services of OP identifiers, then all others in document order. Its comment says that without an OP identifier
  the rest comes "sorted with most preferred first" (`consumer/discovery.rb:371-392`). `DiscoveryResult#is_xrds` holds for plain HTML, because a
  missing location differs from the URL, and a plain page is fetched twice. The priorities of Service elements
  are ignored, and a URI without priority counts as 0 and comes first. An XRDS document whose content type has a
  parameter is recognised by one test (`yadis/discovery.rb:132`) and not by the other (`:55`), so it is read as HTML and the links of the
  page are not looked for (`ParameterHides`, the exception of `NothingOverlooked`).
* Service rotation: of two requests that begin without a manager, the second to return from discovery raises "There
  is already a manager" (`consumer/discovery_manager.rb:113`).
* Messages: an argument under an undeclared alias `ext0` shares its wire key with an argument of a namespace
  that gets `ext0` later (`ClashNeedsUndeclared` says that this is the only way). An argument of a namespace declared as `sreg` is written
  under the URI of sreg and another alias (`message.rb:346-350`), so a message that has one is not passed on as it came; `PassedOn`
  is about all others.

## Proofs

Everything below is proved for all values of the constants that satisfy the named assumptions of the module
(for instance `SignatoryAssumption`), in particular for any number of processes, nonces, handles,
associations, namespaces or services and any bound on the clock. The theorems are in `*Proofs.tla`; the type
invariants are among them (for memcached within `MemcacheInductive`, for `CheckID` within `InvariantHolds`). Where TLC uses a bound (a clock that stops, a number of begins), the theorem holds for every
such bound.

**`NonceProofs`**, the file store. `FileTypeCorrect`, `FileNoncesOnce`, `FileNoncesRemembered` and
`FileNoncesImplements` hold however long a process stays between the two steps of `use_nonce`. None of the properties is inductive: one must know
that a file is still there when a process that checked the timestamp comes to create it. The invariant says so in parts:
the clock has moved by the stall at most since a process in flight checked (`FileInFlight`); a file means an acceptance
(`FileMeansUsed`); what was accepted is not stamped further ahead than the skew (`AcceptedNotAhead`), so that
it cannot be outdated now and current again later; an accepted nonce that is not outdated has its file
(`Remembered`); what cleanup is about to unlink was used and, once the clock is read, is outdated for good
(`ListedUsed`, `MarkedOutdated`). For the refinement, a creating step maps to `Accept` when the file is new
and to a stutter otherwise, all other steps to `Tick` or a stutter.

**`NonceProofs`**, memcached. From `PadSuffices == Ahead + MaxStall < Pad`: `MemcacheAtMostOnce`, `MemcacheHeld`,
`MemcacheImplements`. The invariant adds that a call in flight checked its nonce at most `MaxStall` ago and that the expiry it has
computed, like that of a stored entry, lies beyond `Stamp + Skew + MaxStall` (`MemcacheInFlight`, `Outlives`).
So the condition under which the five seconds are enough is exact: a theorem on one side, the
counterexample of `MemcacheNoncesAhead` on the other (where `Ahead = Pad`).

**`AssociationsProofs`.** `AssociationsHonest`, `AssociationsNewest`, `AssociationsRemoved`, `AssociationsOffered` and
`AssociationsImplement`, for any processes and handles, in all three stores (the last with `hides` for the file store only). None of the properties is inductive,
since each speaks of what a call says at its end, and other processes work on the store until then. The invariant says
for every call in progress what it has established: the association being stored is in no other call and not yet in
the store (`StoreOK`); a file is about to be unlinked only where an association of that
name has expired, which need not be the one that is there by now (`ReadOK`); a removal that has looked under its handle has left nothing
there of what it is due to remove (`RemoveOK`); a search has read, or has still to read, whatever was there all through it (`GetOK`);
and the entry under the bare URL is the last one stored, unless a removal excuses its loss (`LastOK`). A
step changes the entries in one of a few lawful ways (`Lawful`), from which the parts about the *other* calls follow at
once. For the refinement each step maps to `Make`, `Store`, `Remove`, `Forget`, `Call` or `Tick` of
`AssocStore`, and `GivenRight` says that the answers are the promised ones before and after it.

**`SignatoryProofs`.** All five properties of the run, and
`SignatoryBurns`, which no run states: an answered check leaves no secret behind.
The argument is about what no step can undo (`Monotone`: handles once made, checked, answered, reported; an
expired handle stays expired; a handle not held once it was made is never held again, because `CreateAssociation` draws fresh
ones). With it the invariant's parts are stable once established: `HandlesMade` (everything mentioned was
made, under one key only), `Burnt` (from `CheckBurn` on the dumb secret is gone), `AboutToReport` (a request on its way to
report a handle has seen it gone or expired), `NotReported` (what signs was no reported handle when it was looked up), `ValidIsVouched`, `OneValid` (at most one unraced check of a handle
is valid) and `LeavesByCheck` (a dumb secret leaves the store only by expiry or by a check of it).

**`NegotiationProofs`.** `NegotiationAgrees`, `NegotiationFirstChoice` and `NegotiationAsAsked`, for negotiators of any
length and every reply of a foreign OP. What the result says of the two negotiators must be known while the reply is on its way
(`LibraryReply`: the OP of this library has granted the pair asked for or refused it), and that the pair
asked for is the first choice follows only from the fact that such an OP never makes the RP ask twice (`AskedOnce`): its refusal is
no offer the RP follows, which is departure 2 above seen from the other side.

**`ConsumerProofs`.** `ConsumerAcceptsOnce` (with a store that keeps nonces by URL, or without one on the signer's word),
`ConsumerRequestOnce`, `ConsumerVouched`, `ConsumerDumb` and `ConsumerNonces`, for any tabs, OPs, identifiers, requests, responses and
assertions, whatever servers say about signatures that are not theirs.
`ConsumerAssumption` says of the endpoints that a begin comes up with (`Choices`) that discovery of their identifier gave them. The
invariant says what stands between a word and its second `SUCCESS`: without a store the handle of the response, which its signer has
burnt, otherwise its nonce, which is in the store under the server asked (`Guarded`, `Used`). No two calls that got past this place, and
no such call and an accepted word, share it (`Claims`, `Same`, `ClaimsApart`, `AcceptsUsed`). Past the signature check, the word of the
server asked counts (`JobsChecked`, `Counts`): it shares the key, or has said `is_valid:true`. The endpoint in a session or a
call is one that discovery gave (`EndpointsDiscovered`), and a request is one call's until it is sent (`BeginsFresh`).

**`DiscoverySessionProofs`.** `ManagerHandsInOrder` and `ManagerKeepsUntried` for any number of threads and anything
discovery may yield, then `SessionImplementsManager`: a session over documents behaves as `DiscoveryManager`
allows, since `Discover` yields only what `Found` names. With it both theorems carry over to `SessionSpec`, which
the run checks (`SessionHandsInOrder`, `SessionKeepsUntried`).

`SessionRightService`, `SessionOverlooksNothing` and `SessionPreferredFirst` are about what discovery makes of the
documents, with any number of services, types and URIs in them. `SitesAssumption` says that what `Found` names is what
`Discover` yields. Everything there is put together by `FlattenSeq`, of which `Flattened` says that the result has the
elements of the sequences, in their order; `Where`, `SortBy`, `Arrange` and `PrioSort` follow (`WherePicks`, `SortBySorts`,
`PrioSorted`). From the elements of a document to its endpoints and back lead `EndpointsFlat` and `EndpointOrigin`. The
invariant `SInv` ties the session to the discovery its list came from: manager and list are for one identifier
(`ManagerKnown`, `ListKnown`), a service that was handed out is one that discovery of that identifier found
(`ServiceKnown`), and a failure is the last discovery's (`FailureKnown`). `PreferredFirst` compares the priorities of URIs
that the document names once (`NamedOnce`): of one named twice, the result does not tell which it is.

**`MessageProofs`.** `MessageBidirectional`, `MessageKeys` and `MessageAliasesStay`: the invariant is the first two
together, since `AddNamespace` keeps the maps inverse only because it refuses an alias in use, which is what
`Bidirectional` lets one conclude about both maps. `MessagePassedOn`: as long as nothing is
done to a message, it is what `from_post_args` made of the query (`AsReceived`). Writing it then gives every argument the key
it came with (`WireKey` inverts `Place`), and declares just what the query declared, because what is implicit comes neither
from a declaration nor from `openid.ns`; all this if no argument was moved by `_fix_ns` (`Renamed`). `MessageClashes`: what `ArgsFormed` says of the form of arguments leaves three kinds of
wire keys, and only a key without an alias and one with an alias can be the same.
`QueriesAssumption` types what a query declares and `KeysAssumption` says that keys come in segments, which the null
alias is not.

**`CheckIDProofs`.** `AnswerUnderstood`, `FailureExplained`, `SetupRepeatsRequest` and `AnswerNamesIdentifier`, for any names and
delegations, any choice of the RP's application, any requests of other RPs, and any number of visits to a setup URL. The invariant goes along
with the exchange: where it is (`ProgressOK`), what the message in the browser has to do with what the application asked
(`WireFits`), what the OP has decoded with both (`SeenFits`), the answer with the decision (`BackFits`) and the outcome
with all of them (`DoneFits`; `CompleteAgreed` splits by the causes of failure). `SetupAsksTheSame` is a part of it, because the second request must be known to be the first.

`RealmAlwaysRespected` is about texts. The code compares the paths of realm and `return_to` character by character and
looks at one character on either side of the place where the shorter one ends; the property speaks of segments and arguments.
The two agree for all URLs of `NormalURL`, whose parts do not contain the delimiters: a text has its parts at
offsets (`Layout`); if one text starts another, the parts of one start those of the other, the last one maybe being
longer (`TextStarts`, and `PartsStartText` for the way back); and the character at which the longer text goes on says if that
last part is complete (`GoesOn`, `UnderParts`). A query in the realm fixes the whole path (`SamePath`) and
leaves the arguments to compare (`QueryUnder`); without one the comparison ends before the query (`PathUnder`). Hosts are
compared by labels in the model, so a wildcard is a suffix of the labels (`HostLabels`), and the lone one is that
of `http://*/` (`LoneWildcard`).

*Induction over data.* The library's induction theorems take an operator, which no prover here instantiates. What
`FlattenSeq` and the offsets need is proved from the least element of a set of numbers instead (`Least`, `Induction`, by
well-foundedness of `<` on the naturals), with the recursive function of `FlattenSeq` shown to exist
(`FlattensExists`) before it is used (`FlattenSteps`). Discovery's lists are therefore written with `FlattenSeq` alone.

*Only model-checked:* `OutdatedReclaimed` and `Terminates`, which are liveness under fairness: the prover handles neither
fairness nor `ENABLED`. Every other property of a passing run is a theorem. That the theorems about memcached's nonces need
their condition is shown by `MemcacheNoncesAhead`.

## What is not modelled

* **Extensions** (`extensions/`): sequential translations between lists of fields and message arguments, which
  unit tests reach. What they do to a message (`set_arg`, `add_alias`) is in `Message`.
* **Key-value form and URL normalisation** (`kvform.rb`, `urinorm.rb`): functions over characters; their
  properties are about the text, which the models abstract from. `TrustRoot` takes its URLs normalised.
* **Cryptography** (`cryptutil.rb`, `dh.rb`): arithmetic on large numbers. A signature is intact or not; a key
  exchange succeeds when the session types match.
* **HTTP, HTML and XML**: what fetching and parsing yield is an input of the models.
* **`TrustRoot#sane?`**, a list of top-level domains, and **`return_to_verified`**, which cannot run (above).
* **Retries** inside the memcache client: it is given by the application. A client that repeats an `add` whose answer was lost would be
  told that its own nonce was used.
* A **shared OP store** below `Consumer`: its OP answers `check_authentication` in one step. That the answer is right when
  it takes several is `Signatory`'s subject, and neither needs more of the other than that.

## What could come next

A composition of `Signatory` and `Consumer` as one system, in which `Consumer`'s OP is replaced by `Signatory` and shown to be
implemented by it; `urinorm.rb` over a small
alphabet, against RFC 3986, so that `TrustRoot` can take its URLs as they come.
