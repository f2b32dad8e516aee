----------------------------- MODULE FileNonces -----------------------------
(***************************************************************************)
(* The nonce half of OpenID::Store::Filesystem: processes of one site      *)
(* share the directory "nonces", where a used nonce is an empty file that  *)
(* carries its timestamp in its name.                                      *)
(*                                                                         *)
(* use_nonce reads the clock, then creates the file with CREAT|EXCL: two   *)
(* steps, between which other processes run.  cleanup_nonces lists the     *)
(* directory, reads the clock, then unlinks one file after the other.  A   *)
(* process may be killed anywhere; the files stay.                         *)
(***************************************************************************)
EXTENDS UseNonce

CONSTANT Cleaner  \* the process the administrator runs cleanup_nonces with

ASSUME FileNoncesAssumption == Cleaner \in Proc

VARIABLES
  files,    \* the nonces that have a file
  list      \* list[p]: the files p's cleanup_nonces has still to look at

fileVars == <<now, files, pc, arg, since, list, accepts>>

FileTypeOK ==
  /\ now \in 0..MaxTime
  /\ files \in SUBSET Nonces
  /\ pc \in [Proc -> {"idle", "create", "listed", "sweep"}]
  /\ arg \in [Proc -> Nonces]
  /\ since \in [Proc -> 0..MaxTime]
  /\ list \in [Proc -> SUBSET Nonces]
  /\ accepts \in [Nonces -> Nat]

FileInit ==
  /\ now = 0
  /\ files = {}
  /\ pc = [p \in Proc |-> "idle"]
  /\ arg \in [Proc -> Nonces]
  /\ since = [p \in Proc |-> 0]
  /\ list = [p \in Proc |-> {}]
  /\ accepts = [n \in Nonces |-> 0]

(***************************************************************************)
(* use_nonce.  A nonce that is not current is refused on the spot.         *)
(***************************************************************************)
\* Mutant: the absolute value is forgotten, so that any age will do.
FileCheckTimestampNoAbs(p, n) ==
  /\ pc[p] = "idle"
  /\ Stamp[n] - now <= Skew
  /\ pc' = [pc EXCEPT ![p] = "create"]
  /\ arg' = [arg EXCEPT ![p] = n]
  /\ since' = [since EXCEPT ![p] = now]
  /\ UNCHANGED <<now, files, list, accepts>>

FileCheckTimestamp(p, n) ==
  /\ pc[p] = "idle"
  /\ Current(n, now)
  /\ pc' = [pc EXCEPT ![p] = "create"]
  /\ arg' = [arg EXCEPT ![p] = n]
  /\ since' = [since EXCEPT ![p] = now]
  /\ UNCHANGED <<now, files, list, accepts>>

\* Mutant: the file is opened without EXCL.
CreateShared(p) ==
  /\ pc[p] = "create"
  /\ pc' = [pc EXCEPT ![p] = "idle"]
  /\ files' = files \union {arg[p]}
  /\ accepts' = [accepts EXCEPT ![arg[p]] = @ + 1]
  /\ UNCHANGED <<now, arg, since, list>>

\* File.new with CREAT|EXCL: true if the file was not there, else EEXIST.
CreateExclusive(p) ==
  /\ pc[p] = "create"
  /\ pc' = [pc EXCEPT ![p] = "idle"]
  /\ files' = files \union {arg[p]}
  /\ accepts' = IF arg[p] \in files
                  THEN accepts
                  ELSE [accepts EXCEPT ![arg[p]] = @ + 1]
  /\ UNCHANGED <<now, arg, since, list>>

(***************************************************************************)
(* cleanup_nonces.                                                         *)
(***************************************************************************)
ListNonces(p) ==
  /\ pc[p] = "idle"
  /\ pc' = [pc EXCEPT ![p] = "listed"]
  /\ list' = [list EXCEPT ![p] = files]
  /\ UNCHANGED <<now, files, arg, since, accepts>>

\* Mutants: the skew is forgotten, or the absolute value is.
ReadClockNoSkew(p) ==
  /\ pc[p] = "listed"
  /\ pc' = [pc EXCEPT ![p] = "sweep"]
  /\ list' = [list EXCEPT ![p] = {n \in @ : Stamp[n] < now}]
  /\ UNCHANGED <<now, files, arg, since, accepts>>

ReadClockNoAbs(p) ==
  /\ pc[p] = "listed"
  /\ pc' = [pc EXCEPT ![p] = "sweep"]
  /\ list' = [list EXCEPT ![p] = {n \in @ : Stamp[n] - now > Skew}]
  /\ UNCHANGED <<now, files, arg, since, accepts>>

\* now = Time.now.to_i, which decides what the loop will remove.
ReadClock(p) ==
  /\ pc[p] = "listed"
  /\ pc' = [pc EXCEPT ![p] = "sweep"]
  /\ list' = [list EXCEPT ![p] = {n \in @ : ~Current(n, now)}]
  /\ UNCHANGED <<now, files, arg, since, accepts>>

\* remove_if_present: a file another process removed first is no error.
Unlink(p, n) ==
  /\ pc[p] = "sweep"
  /\ n \in list[p]
  /\ files' = files \ {n}
  /\ list' = [list EXCEPT ![p] = @ \ {n}]
  /\ UNCHANGED <<now, pc, arg, since, accepts>>

CleanupDone(p) ==
  /\ pc[p] = "sweep"
  /\ list[p] = {}
  /\ pc' = [pc EXCEPT ![p] = "idle"]
  /\ UNCHANGED <<now, files, arg, since, list, accepts>>

(***************************************************************************)
(* The environment: a process dies in a call, and time passes.             *)
(***************************************************************************)
FileCrash(p) ==
  /\ pc[p] # "idle"
  /\ pc' = [pc EXCEPT ![p] = "idle"]
  /\ list' = [list EXCEPT ![p] = {}]
  /\ UNCHANGED <<now, files, arg, since, accepts>>

FileTick ==
  /\ now < MaxTime
  /\ \A p \in Proc : pc[p] = "create" => now < since[p] + MaxStall
  /\ now' = now + 1
  /\ UNCHANGED <<files, pc, arg, since, list, accepts>>

Cleanup(p) ==
  \/ ListNonces(p)
  \/ ReadClock(p)
  \/ \E n \in Nonces : Unlink(p, n)
  \/ CleanupDone(p)

FileNext ==
  \/ FileTick
  \/ \E p \in Proc :
       \/ \E n \in Nonces : FileCheckTimestamp(p, n)
       \/ CreateExclusive(p)
       \/ Cleanup(p)
       \/ FileCrash(p)

FileSpec == FileInit /\ [][FileNext]_fileVars

(***************************************************************************)
(* Fairness: time passes, a use_nonce call that was started goes on or is  *)
(* killed, and the administrator has one process run cleanup_nonces again  *)
(* and again, which is not killed in every single run (hence SF).          *)
(***************************************************************************)
FileFairSpec ==
  /\ FileSpec
  /\ WF_fileVars(FileTick)
  /\ \A p \in Proc : WF_fileVars(CreateExclusive(p))
  /\ SF_fileVars(ListNonces(Cleaner))
  /\ SF_fileVars(ReadClock(Cleaner))
  /\ SF_fileVars(\E n \in Nonces : Unlink(Cleaner, n))
  /\ SF_fileVars(CleanupDone(Cleaner))

-----------------------------------------------------------------------------
\* A file is there for every nonce that was accepted and could still pass
\* the timestamp check of use_nonce: cleanup_nonces never forgets too early.
RememberedWhileCurrent ==
  \A n \in Nonces : accepts[n] > 0 /\ Current(n, now) => n \in files

\* While a nonce is current, use_nonce returns true once ("Return false if
\* the nonce has already been used", store/interface.rb).  Only a call that
\* was overtaken by the end of the nonce's time, and by a cleanup, can
\* accept it again.
OnceWhileCurrent ==
  [][\A n \in Nonces : accepts'[n] # accepts[n] /\ accepts[n] > 0
                         => now > Stamp[n] + Skew]_fileVars

\* A refusal by EEXIST is owed to an earlier acceptance of that nonce, even
\* though the process that created the file may have died before answering.
FileMeansUsed == \A n \in files : accepts[n] > 0

\* The promise of the interface, under the refinement mapping that keeps
\* the clock and the acceptances and hides everything else.  A decision lags
\* behind the clock by the stall at most, and a nonce whose time is over may
\* be forgotten.
FilePromise == INSTANCE NonceStore WITH Slack <- MaxStall, Forgets <- TRUE
FileImplementsNonceStore == FilePromise!Spec

\* Storage does not fill up: the file of an outdated nonce goes away.
OutdatedReclaimed ==
  \A n \in Nonces : (n \in files /\ now > Stamp[n] + Skew) ~> (n \notin files)
=============================================================================
