---------------------------- MODULE NonceProofs ----------------------------
(***************************************************************************)
(* Proofs that both stores keep the promise of use_nonce, for any number   *)
(* of processes and nonces and any skew: the file store however long a     *)
(* call is suspended and whenever a cleanup runs, as long as the nonce is  *)
(* current; the memcache store for good, provided the lead of the clock    *)
(* that stamps nonces and the time spent inside use_nonce together stay    *)
(* below the 5 seconds use_nonce adds to an entry's life.                  *)
(*                                                                         *)
(* The arguments: an accepted nonce has a file until the clock has left    *)
(* its window behind for good (Remembered), because whatever a cleanup has *)
(* marked is already beyond its window (MarkedOutdated).  And a call holds *)
(* a nonce at most MaxStall seconds after its window (MemcacheInFlight),   *)
(* while the entry of an accepted nonce outlives that moment (Outlives),   *)
(* so that "add" finds it.                                                 *)
(***************************************************************************)
EXTENDS FileNonces, MemcacheNonces, TLAPS

-----------------------------------------------------------------------------
(* The file store *)

\* The clock has passed the window of n, never to come back.
Outdated(n) == now > Stamp[n] + Skew

\* What a call between its two steps still knows of the clock it has read.
FileInFlight ==
  \A p \in Proc : pc[p] = "create" =>
    /\ since[p] <= now
    /\ now <= since[p] + MaxStall
    /\ Current(arg[p], since[p])

\* Accepted nonces are not in the future, so they can only age.
AcceptedNotAhead == \A n \in Nonces : accepts[n] > 0 => Stamp[n] - now <= Skew

Remembered == \A n \in Nonces : accepts[n] > 0 => n \in files \/ Outdated(n)

ListedUsed == \A p \in Proc : \A n \in list[p] : accepts[n] > 0

MarkedOutdated ==
  \A p \in Proc : pc[p] = "sweep" => \A n \in list[p] : Outdated(n)

FileIInv ==
  /\ FileTypeOK
  /\ FileInFlight
  /\ FileMeansUsed
  /\ AcceptedNotAhead
  /\ Remembered
  /\ ListedUsed
  /\ MarkedOutdated

-----------------------------------------------------------------------------
LEMMA FileInitType == FileInit => FileTypeOK
BY UseNonceAssumption DEF FileInit, FileTypeOK

LEMMA FileNextType == FileTypeOK /\ [FileNext]_fileVars => FileTypeOK'
<1> SUFFICES ASSUME FileTypeOK, [FileNext]_fileVars
             PROVE  FileTypeOK'
  OBVIOUS
<1> USE UseNonceAssumption, FileNoncesAssumption DEF FileTypeOK
<1>1. CASE FileTick
  BY <1>1 DEF FileTick
<1>2. ASSUME NEW p \in Proc, NEW n \in Nonces, FileCheckTimestamp(p, n)
      PROVE  FileTypeOK'
  BY <1>2 DEF FileCheckTimestamp
<1>3. ASSUME NEW p \in Proc, CreateExclusive(p)
      PROVE  FileTypeOK'
  <2>1. arg[p] \in Nonces /\ accepts[arg[p]] + 1 \in Nat
    OBVIOUS
  <2>2. files' \in SUBSET Nonces
    BY <1>3, <2>1 DEF CreateExclusive
  <2>3. accepts' \in [Nonces -> Nat]
    BY <1>3, <2>1 DEF CreateExclusive
  <2>4. QED
    BY <1>3, <2>2, <2>3 DEF CreateExclusive
<1>4. ASSUME NEW p \in Proc, Cleanup(p)
      PROVE  FileTypeOK'
  <2>1. CASE ListNonces(p)
    BY <2>1 DEF ListNonces
  <2>2. CASE ReadClock(p)
    BY <2>2 DEF ReadClock
  <2>3. ASSUME NEW n \in Nonces, Unlink(p, n)
        PROVE  FileTypeOK'
    BY <2>3 DEF Unlink
  <2>4. CASE CleanupDone(p)
    BY <2>4 DEF CleanupDone
  <2>5. QED
    BY <1>4, <2>1, <2>2, <2>3, <2>4 DEF Cleanup
<1>5. ASSUME NEW p \in Proc, FileCrash(p)
      PROVE  FileTypeOK'
  BY <1>5 DEF FileCrash
<1>6. CASE UNCHANGED fileVars
  BY <1>6 DEF fileVars
<1>7. QED
  BY <1>1, <1>2, <1>3, <1>4, <1>5, <1>6 DEF FileNext

\* The variables of the nonce directory keep their types, in every store
\* directory shared by any set of processes.
THEOREM FileTypeCorrect == FileSpec => []FileTypeOK
BY FileInitType, FileNextType, PTL DEF FileSpec

-----------------------------------------------------------------------------
LEMMA FileInitInv == FileInit => FileIInv
<1> SUFFICES ASSUME FileInit PROVE FileIInv
  OBVIOUS
<1>1. FileTypeOK
  BY FileInitType
<1>2. QED
  BY <1>1 DEF FileInit, FileIInv, FileInFlight, FileMeansUsed,
              AcceptedNotAhead, Remembered, ListedUsed, MarkedOutdated

\* A process creates a file: the nonce it accepts is not in the future, for
\* it was not when the timestamp was checked, and from now on has a file.
LEMMA CreateInv ==
  ASSUME FileIInv, NEW p \in Proc, CreateExclusive(p)
  PROVE  FileIInv'
<1> USE UseNonceAssumption, FileNoncesAssumption DEF FileTypeOK
<1> DEFINE n == arg[p]
<1>1. FileTypeOK /\ FileTypeOK'
  BY FileNextType DEF FileIInv, FileNext
<1>2. n \in Nonces /\ Stamp[n] \in Int
  BY <1>1
<1>3. CASE n \in files
  <2>1. /\ files' = files /\ accepts' = accepts /\ now' = now
        /\ arg' = arg /\ since' = since /\ list' = list
        /\ pc' = [pc EXCEPT ![p] = "idle"]
    BY <1>3 DEF CreateExclusive
  <2>2. QED
    BY <1>1, <2>1 DEF FileIInv, FileInFlight, FileMeansUsed, Current,
         AcceptedNotAhead, Remembered, ListedUsed, MarkedOutdated, Outdated
<1>4. CASE n \notin files
  <2>1. Stamp[n] - now <= Skew
    BY <1>1, <1>2 DEF FileIInv, FileInFlight, CreateExclusive, Current
  <2>2. /\ files' = files \union {n} /\ accepts' = [accepts EXCEPT ![n] = @ + 1]
        /\ now' = now /\ arg' = arg /\ since' = since /\ list' = list
        /\ pc' = [pc EXCEPT ![p] = "idle"]
    BY <1>1, <1>2, <1>4 DEF CreateExclusive
  <2>3. FileMeansUsed' /\ ListedUsed'
    BY <1>1, <1>2, <2>2 DEF FileIInv, FileMeansUsed, ListedUsed
  <2>4. AcceptedNotAhead'
    BY <1>1, <1>2, <2>1, <2>2 DEF FileIInv, AcceptedNotAhead
  <2>5. Remembered'
    BY <1>1, <1>2, <2>2 DEF FileIInv, Remembered, Outdated
  <2>6. FileInFlight' /\ MarkedOutdated'
    BY <1>1, <2>2 DEF FileIInv, FileInFlight, MarkedOutdated, Current, Outdated
  <2>7. QED
    BY <1>1, <2>3, <2>4, <2>5, <2>6 DEF FileIInv
<1>5. QED
  BY <1>3, <1>4

LEMMA CleanupInv ==
  ASSUME FileIInv, NEW p \in Proc, Cleanup(p)
  PROVE  FileIInv'
<1> USE UseNonceAssumption, FileNoncesAssumption DEF FileTypeOK
<1>1. FileTypeOK /\ FileTypeOK'
  BY FileNextType DEF FileIInv, FileNext
<1>2. CASE ListNonces(p)
  BY <1>1, <1>2 DEF ListNonces, FileIInv, FileInFlight, FileMeansUsed,
       Current, AcceptedNotAhead, Remembered, ListedUsed, MarkedOutdated, Outdated
<1>3. CASE ReadClock(p)
  \* A listed nonce that is not current is outdated: it was accepted, so it
  \* is not ahead of the clock.
  <2>1. \A n \in list'[p] : Outdated(n)
    BY <1>1, <1>3 DEF ReadClock, FileIInv, ListedUsed, AcceptedNotAhead, Current, Outdated
  <2>2. QED
    BY <1>1, <1>3, <2>1 DEF ReadClock, FileIInv, FileInFlight, FileMeansUsed,
         Current, AcceptedNotAhead, Remembered, ListedUsed, MarkedOutdated, Outdated
<1>4. ASSUME NEW n \in Nonces, Unlink(p, n)
      PROVE  FileIInv'
  <2>1. Outdated(n)
    BY <1>4 DEF Unlink, FileIInv, MarkedOutdated
  <2>2. QED
    BY <1>1, <1>4, <2>1 DEF Unlink, FileIInv, FileInFlight, FileMeansUsed,
         Current, AcceptedNotAhead, Remembered, ListedUsed, MarkedOutdated, Outdated
<1>5. CASE CleanupDone(p)
  BY <1>1, <1>5 DEF CleanupDone, FileIInv, FileInFlight, FileMeansUsed,
       Current, AcceptedNotAhead, Remembered, ListedUsed, MarkedOutdated, Outdated
<1>6. QED
  BY <1>2, <1>3, <1>4, <1>5 DEF Cleanup

LEMMA FileNextInv ==
  ASSUME FileIInv, [FileNext]_fileVars
  PROVE  FileIInv'
<1> USE UseNonceAssumption, FileNoncesAssumption DEF FileTypeOK
<1>1. FileTypeOK /\ FileTypeOK'
  BY FileNextType DEF FileIInv
<1>2. CASE FileTick
  BY <1>1, <1>2 DEF FileTick, FileIInv, FileInFlight, FileMeansUsed,
       Current, AcceptedNotAhead, Remembered, ListedUsed, MarkedOutdated, Outdated
<1>3. ASSUME NEW p \in Proc, NEW n \in Nonces, FileCheckTimestamp(p, n)
      PROVE  FileIInv'
  BY <1>1, <1>3 DEF FileCheckTimestamp, FileIInv, FileInFlight, FileMeansUsed,
       Current, AcceptedNotAhead, Remembered, ListedUsed, MarkedOutdated, Outdated
<1>4. ASSUME NEW p \in Proc, CreateExclusive(p)
      PROVE  FileIInv'
  BY <1>4, CreateInv
<1>5. ASSUME NEW p \in Proc, Cleanup(p)
      PROVE  FileIInv'
  BY <1>5, CleanupInv
<1>6. ASSUME NEW p \in Proc, FileCrash(p)
      PROVE  FileIInv'
  BY <1>1, <1>6 DEF FileCrash, FileIInv, FileInFlight, FileMeansUsed,
       Current, AcceptedNotAhead, Remembered, ListedUsed, MarkedOutdated, Outdated
<1>7. CASE UNCHANGED fileVars
  BY <1>1, <1>7 DEF fileVars, FileIInv, FileInFlight, FileMeansUsed,
       Current, AcceptedNotAhead, Remembered, ListedUsed, MarkedOutdated, Outdated
<1>8. QED
  BY <1>2, <1>3, <1>4, <1>5, <1>6, <1>7 DEF FileNext

\* The invariant holds throughout.
THEOREM FileInductive == FileSpec => []FileIInv
<1>1. FileInit => FileIInv
  BY FileInitInv
<1>2. FileIInv /\ [FileNext]_fileVars => FileIInv'
  BY FileNextInv
<1>3. QED
  BY <1>1, <1>2, PTL DEF FileSpec

\* cleanup_nonces never removes the file of an accepted nonce that could
\* still pass the timestamp check.
THEOREM FileNoncesRemembered == FileSpec => []RememberedWhileCurrent
<1>1. FileIInv => RememberedWhileCurrent
  BY UseNonceAssumption
     DEF FileIInv, FileTypeOK, Remembered, Outdated, Current,
         RememberedWhileCurrent
<1>2. QED
  BY FileInductive, <1>1, PTL

-----------------------------------------------------------------------------
\* What a step does to the acceptances: nothing, or one nonce without a file
\* is accepted, which then is new or outdated.
LEMMA FileAccepts ==
  ASSUME FileIInv, [FileNext]_fileVars, accepts' # accepts
  PROVE  \E n \in Nonces :
           /\ accepts' = [accepts EXCEPT ![n] = @ + 1] /\ now' = now
           /\ Stamp[n] - now <= Skew /\ now - Stamp[n] <= Skew + MaxStall
           /\ accepts[n] = 0 \/ Outdated(n)
<1> USE UseNonceAssumption, FileNoncesAssumption DEF FileTypeOK
<1>1. PICK p \in Proc : CreateExclusive(p)
  BY DEF FileNext, fileVars, FileTick, FileCheckTimestamp, Cleanup, ListNonces, ReadClock,
         Unlink, CleanupDone, FileCrash
<1> DEFINE n == arg[p]
<1>2. n \in Nonces /\ Stamp[n] \in Int /\ accepts[n] \in Nat
  BY DEF FileIInv
<1>3. n \notin files /\ accepts' = [accepts EXCEPT ![n] = @ + 1] /\ now' = now
  BY <1>1 DEF CreateExclusive
<1>4. Stamp[n] - now <= Skew /\ now - Stamp[n] <= Skew + MaxStall
  <2>1. /\ since[p] <= now /\ now <= since[p] + MaxStall
        /\ Stamp[n] - since[p] <= Skew /\ since[p] - Stamp[n] <= Skew
    BY <1>1 DEF FileIInv, FileInFlight, CreateExclusive, Current
  <2> QED BY <1>2, <2>1 DEF FileIInv
<1>5. accepts[n] = 0 \/ Outdated(n)
  BY <1>2, <1>3 DEF FileIInv, Remembered
<1> QED BY <1>2, <1>3, <1>4, <1>5

\* While a nonce is current, use_nonce of the file store returns true once.
THEOREM FileNoncesOnce == FileSpec => OnceWhileCurrent
<1>1. ASSUME FileIInv, [FileNext]_fileVars
      PROVE  [\A n \in Nonces : accepts'[n] # accepts[n] /\ accepts[n] > 0
                                  => now > Stamp[n] + Skew]_fileVars
  <2>1. ASSUME NEW m \in Nonces, accepts'[m] # accepts[m], accepts[m] > 0
        PROVE  now > Stamp[m] + Skew
    <3>1. PICK n \in Nonces : /\ accepts' = [accepts EXCEPT ![n] = @ + 1]
                              /\ accepts[n] = 0 \/ Outdated(n)
      BY <1>1, <2>1, FileAccepts
    <3>2. m = n
      BY <1>1, <2>1, <3>1 DEF FileIInv, FileTypeOK
    <3> QED BY <1>1, <2>1, <3>1, <3>2 DEF FileIInv, FileTypeOK, Outdated
  <2> QED BY <2>1
<1> QED BY <1>1, FileInductive, PTL DEF FileSpec, OnceWhileCurrent

-----------------------------------------------------------------------------
\* Every step of the store is a step of the promise or changes neither the
\* clock nor the acceptances.
LEMMA FileStepRefines ==
  ASSUME FileIInv, [FileNext]_fileVars
  PROVE  [FilePromise!Next]_(FilePromise!vars)
<1>1. CASE accepts' # accepts
  <2>1. PICK n \in Nonces :
           /\ accepts' = [accepts EXCEPT ![n] = @ + 1] /\ now' = now
           /\ Stamp[n] - now <= Skew /\ now - Stamp[n] <= Skew + MaxStall
           /\ accepts[n] = 0 \/ Outdated(n)
    BY <1>1, FileAccepts
  <2>2. Outdated(n) => now - Stamp[n] > Skew
    <3>1. Stamp[n] \in Int /\ now \in Int /\ Skew \in Int
      BY UseNonceAssumption DEF FileIInv, FileTypeOK
    <3> QED BY <3>1 DEF Outdated
  <2>3. FilePromise!Accept(n)
    BY <2>1, <2>2 DEF FilePromise!Accept
  <2> QED BY <2>3 DEF FilePromise!Next
<1>2. CASE accepts' = accepts
  <2>1. CASE FileTick
    BY <1>2, <2>1 DEF FileTick, FilePromise!Next, FilePromise!Tick
  <2>2. CASE now' = now
    BY <1>2, <2>2 DEF FilePromise!vars
  <2> QED
    BY <2>1, <2>2 DEF FileNext, fileVars, FileCheckTimestamp, CreateExclusive, Cleanup,
       ListNonces, ReadClock, Unlink, CleanupDone, FileCrash
<1> QED BY <1>1, <1>2

\* The file store implements what store/interface.rb promises of use_nonce,
\* with a nonce whose time is over forgotten.
THEOREM FileNoncesImplements == FileSpec => FileImplementsNonceStore
<1>1. FileInit => FilePromise!Init
  BY DEF FileInit, FilePromise!Init
<1>2. FileIInv /\ [FileNext]_fileVars => [FilePromise!Next]_(FilePromise!vars)
  BY FileStepRefines
<1>3. QED
  BY <1>1, <1>2, FileInductive, PTL DEF FileSpec, FileImplementsNonceStore, FilePromise!Spec

-----------------------------------------------------------------------------
(* The memcache store *)

\* The condition the results rest on.
PadSuffices == Ahead + MaxStall < Pad

\* What a call of use_nonce still knows of the clock it has read.
MemcacheInFlight ==
  \A p \in Proc : pc[p] # "idle" =>
    /\ since[p] <= now
    /\ now <= since[p] + MaxStall
    /\ Current(arg[p], since[p])
    /\ Stamp[arg[p]] - since[p] <= Ahead
    /\ pc[p] = "add" => since[p] + Skew + Pad <= expiry[p]

Outlives ==
  \A n \in Nonces : accepts[n] > 0 => Stamp[n] + Skew + MaxStall < until[n]

MemcacheIInv == MemcacheTypeOK /\ MemcacheInFlight /\ Outlives /\ AtMostOnce

-----------------------------------------------------------------------------
LEMMA MemcacheInitInv == MemcacheInit => MemcacheIInv
  BY UseNonceAssumption, MemcacheNoncesAssumption
     DEF MemcacheInit, MemcacheIInv, MemcacheTypeOK, MemcacheInFlight, Outlives, AtMostOnce

\* Every step keeps the types.
LEMMA MemcacheNextType == MemcacheTypeOK /\ [MemcacheNext]_memcacheVars => MemcacheTypeOK'
<1> SUFFICES ASSUME MemcacheTypeOK, [MemcacheNext]_memcacheVars
             PROVE  MemcacheTypeOK'
  OBVIOUS
<1> USE UseNonceAssumption, MemcacheNoncesAssumption DEF MemcacheTypeOK
<1>1. CASE MemcacheTick
  BY <1>1 DEF MemcacheTick
<1>2. ASSUME NEW p \in Proc, NEW n \in Nonces, MemcacheCheckTimestamp(p, n)
      PROVE  MemcacheTypeOK'
  BY <1>2 DEF MemcacheCheckTimestamp
<1>3. ASSUME NEW p \in Proc, ComputeExpiry(p)
      PROVE  MemcacheTypeOK'
  BY <1>3 DEF ComputeExpiry
<1>4. ASSUME NEW p \in Proc, Add(p)
      PROVE  MemcacheTypeOK'
  <2>1. arg[p] \in Nonces /\ accepts[arg[p]] + 1 \in Nat
    OBVIOUS
  <2>2. until' \in [Nonces -> Nat] /\ accepts' \in [Nonces -> Nat]
    BY <1>4, <2>1 DEF Add
  <2> QED BY <1>4, <2>2 DEF Add
<1>5. ASSUME NEW p \in Proc, MemcacheCrash(p)
      PROVE  MemcacheTypeOK'
  BY <1>5 DEF MemcacheCrash
<1>6. CASE UNCHANGED memcacheVars
  BY <1>6 DEF memcacheVars
<1> QED BY <1>1, <1>2, <1>3, <1>4, <1>5, <1>6 DEF MemcacheNext

\* While a call holds an accepted nonce, memcached does too.
LEMMA HeldInFlight ==
  ASSUME MemcacheTypeOK, MemcacheInFlight, Outlives,
         NEW p \in Proc, pc[p] # "idle", accepts[arg[p]] > 0
  PROVE  Held(arg[p])
<1>1. /\ arg[p] \in Nonces /\ Stamp[arg[p]] \in Int /\ until[arg[p]] \in Int
      /\ now \in Int /\ since[p] \in Int /\ Skew \in Int /\ MaxStall \in Int
  BY UseNonceAssumption, MemcacheNoncesAssumption DEF MemcacheTypeOK
<1>2. now <= since[p] + MaxStall /\ since[p] - Stamp[arg[p]] <= Skew
  BY DEF MemcacheInFlight, Current
<1>3. Stamp[arg[p]] + Skew + MaxStall < until[arg[p]]
  BY <1>1 DEF Outlives
<1> QED BY <1>1, <1>2, <1>3 DEF Held

\* The step that matters: "add" either finds the entry, or stores one that
\* outlives every call that may still hold the nonce.
LEMMA AddInv ==
  ASSUME PadSuffices, MemcacheIInv, NEW p \in Proc, Add(p)
  PROVE  MemcacheIInv'
<1> DEFINE n == arg[p]
<1>1. MemcacheTypeOK /\ MemcacheTypeOK'
  BY MemcacheNextType DEF MemcacheIInv, MemcacheNext
<1>2. n \in Nonces /\ pc[p] = "add"
  BY <1>1 DEF MemcacheTypeOK, Add
<1>3. MemcacheInFlight'
  BY <1>1 DEF Add, MemcacheIInv, MemcacheInFlight, Current, MemcacheTypeOK
<1>4. CASE Held(n)
  BY <1>1, <1>3, <1>4 DEF Add, MemcacheIInv, Outlives, AtMostOnce
<1>5. CASE ~Held(n)
  <2>1. accepts[n] = 0
    BY <1>1, <1>2, <1>5, HeldInFlight DEF MemcacheIInv, MemcacheTypeOK
  <2>2. /\ until' = [until EXCEPT ![n] = expiry[p]]
        /\ accepts' = [accepts EXCEPT ![n] = 1]
    BY <1>5, <2>1 DEF Add
  <2>3. AtMostOnce'
    BY <1>1, <1>2, <2>2 DEF MemcacheIInv, AtMostOnce, MemcacheTypeOK
  <2>4. Stamp[n] + Skew + MaxStall < expiry[p]
    <3>1. Stamp[n] - since[p] <= Ahead /\ since[p] + Skew + Pad <= expiry[p]
      BY <1>2 DEF MemcacheIInv, MemcacheInFlight
    <3>2. /\ Stamp[n] \in Int /\ since[p] \in Int /\ expiry[p] \in Int
          /\ Skew \in Int /\ Pad \in Int /\ Ahead \in Int /\ MaxStall \in Int
      BY <1>1, <1>2, UseNonceAssumption, MemcacheNoncesAssumption DEF MemcacheTypeOK
    <3> QED BY <3>1, <3>2 DEF PadSuffices
  <2>5. Outlives'
    BY <1>1, <1>2, <2>2, <2>4 DEF MemcacheIInv, Outlives, MemcacheTypeOK
  <2> QED BY <1>1, <1>3, <2>3, <2>5 DEF MemcacheIInv
<1> QED BY <1>4, <1>5

LEMMA MemcacheNextInv ==
  ASSUME PadSuffices, MemcacheIInv, [MemcacheNext]_memcacheVars
  PROVE  MemcacheIInv'
<1> USE UseNonceAssumption, MemcacheNoncesAssumption
<1>1. MemcacheTypeOK /\ MemcacheTypeOK'
  BY MemcacheNextType DEF MemcacheIInv
<1>2. CASE MemcacheTick
  <2>1. MemcacheInFlight'
    BY <1>1, <1>2 DEF MemcacheTick, MemcacheIInv, MemcacheInFlight, Current, MemcacheTypeOK
  <2> QED BY <1>1, <1>2, <2>1 DEF MemcacheTick, MemcacheIInv, Outlives, AtMostOnce
<1>3. ASSUME NEW p \in Proc, NEW n \in Nonces, MemcacheCheckTimestamp(p, n)
      PROVE  MemcacheIInv'
  <2>1. MemcacheInFlight'
    BY <1>1, <1>3 DEF MemcacheCheckTimestamp, Issued, MemcacheIInv, MemcacheInFlight, Current,
         MemcacheTypeOK
  <2> QED BY <1>1, <1>3, <2>1 DEF MemcacheCheckTimestamp, MemcacheIInv, Outlives, AtMostOnce
<1>4. ASSUME NEW p \in Proc, ComputeExpiry(p)
      PROVE  MemcacheIInv'
  <2>1. MemcacheInFlight'
    BY <1>1, <1>4 DEF ComputeExpiry, MemcacheIInv, MemcacheInFlight, Current, MemcacheTypeOK
  <2> QED BY <1>1, <1>4, <2>1 DEF ComputeExpiry, MemcacheIInv, Outlives, AtMostOnce
<1>5. ASSUME NEW p \in Proc, Add(p)
      PROVE  MemcacheIInv'
  BY <1>5, AddInv
<1>6. ASSUME NEW p \in Proc, MemcacheCrash(p)
      PROVE  MemcacheIInv'
  <2>1. MemcacheInFlight'
    BY <1>1, <1>6 DEF MemcacheCrash, MemcacheIInv, MemcacheInFlight, Current, MemcacheTypeOK
  <2> QED BY <1>1, <1>6, <2>1 DEF MemcacheCrash, MemcacheIInv, Outlives, AtMostOnce
<1>7. CASE UNCHANGED memcacheVars
  BY <1>1, <1>7 DEF memcacheVars, MemcacheIInv, MemcacheInFlight, Outlives, AtMostOnce, Current,
       MemcacheTypeOK
<1> QED BY <1>2, <1>3, <1>4, <1>5, <1>6, <1>7 DEF MemcacheNext

\* MemcacheIInv is an invariant of use_nonce over memcached.
THEOREM MemcacheInductive == PadSuffices /\ MemcacheSpec => []MemcacheIInv
<1>1. PadSuffices /\ MemcacheIInv /\ [MemcacheNext]_memcacheVars => MemcacheIInv'
  BY MemcacheNextInv
<1>2. CASE PadSuffices
  <2>1. MemcacheIInv /\ [MemcacheNext]_memcacheVars => MemcacheIInv'
    BY <1>1, <1>2
  <2> QED BY MemcacheInitInv, <2>1, PTL DEF MemcacheSpec
<1> QED BY <1>2

-----------------------------------------------------------------------------
\* use_nonce of the memcache store returns true at most once for a nonce.
THEOREM MemcacheAtMostOnce == PadSuffices /\ MemcacheSpec => []AtMostOnce
<1>1. MemcacheIInv => AtMostOnce
  BY DEF MemcacheIInv
<1> QED BY <1>1, MemcacheInductive, PTL

\* memcached holds an accepted nonce for as long as a call can present it.
THEOREM MemcacheHeld == PadSuffices /\ MemcacheSpec => []HeldWhileCurrent
<1>1. ASSUME MemcacheIInv PROVE HeldWhileCurrent
  <2>1. ASSUME NEW n \in Nonces, accepts[n] > 0, Current(n, now)
        PROVE  Held(n)
    <3>1. Stamp[n] + Skew + MaxStall < until[n]
      BY <1>1, <2>1 DEF MemcacheIInv, Outlives
    <3> QED
      BY <1>1, <2>1, <3>1, UseNonceAssumption DEF MemcacheIInv, MemcacheTypeOK, Current, Held
  <2>2. ASSUME NEW n \in Nonces, NEW p \in Proc, accepts[n] > 0, pc[p] # "idle", arg[p] = n
        PROVE  Held(n)
    BY <1>1, <2>2, HeldInFlight DEF MemcacheIInv
  <2> QED BY <2>1, <2>2 DEF HeldWhileCurrent
<1> QED BY <1>1, MemcacheInductive, PTL

\* An initial state of the store is one of the promise.
LEMMA MemcacheInitRefines == MemcacheInit => MemcachePromise!Init
  BY DEF MemcacheInit, MemcachePromise!Init

\* A step of the store is a step of the promise, or none: only an "add"
\* that stores the entry accepts, and only the clock ticks.
LEMMA MemcacheStepRefines ==
  ASSUME PadSuffices, MemcacheIInv, MemcacheIInv', [MemcacheNext]_memcacheVars
  PROVE  [MemcachePromise!Next]_MemcachePromise!vars
<1>1. CASE MemcacheTick
  BY <1>1 DEF MemcacheTick, MemcachePromise!Next, MemcachePromise!Tick
<1>2. ASSUME NEW p \in Proc, Add(p)
      PROVE  [MemcachePromise!Next]_MemcachePromise!vars
  <2> DEFINE n == arg[p]
  <2>1. n \in Nonces /\ pc[p] = "add"
    BY <1>2 DEF MemcacheIInv, MemcacheTypeOK, Add
  <2>2. CASE Held(n)
    BY <1>2, <2>2 DEF Add, MemcachePromise!vars
  <2>3. CASE ~Held(n)
    <3>1. accepts[n] = 0
      BY <2>1, <2>3, HeldInFlight DEF MemcacheIInv, MemcacheTypeOK
    <3>2. Stamp[n] - now <= Skew /\ now - Stamp[n] <= Skew + MaxStall
      <4>1. /\ since[p] <= now /\ now <= since[p] + MaxStall
            /\ Stamp[n] - since[p] <= Skew /\ since[p] - Stamp[n] <= Skew
        BY <2>1 DEF MemcacheIInv, MemcacheInFlight, Current
      <4>2. Stamp[n] \in Int /\ since[p] \in Int /\ now \in Int /\ Skew \in Int /\ MaxStall \in Int
        BY <2>1, UseNonceAssumption, MemcacheNoncesAssumption DEF MemcacheIInv, MemcacheTypeOK
      <4> QED BY <4>1, <4>2
    <3>3. accepts' = [accepts EXCEPT ![n] = @ + 1] /\ now' = now
      BY <1>2, <2>3 DEF Add
    <3> QED BY <2>1, <3>1, <3>2, <3>3 DEF MemcachePromise!Next, MemcachePromise!Accept
  <2> QED BY <2>2, <2>3
<1>3. ASSUME NEW p \in Proc,
             \/ \E n \in Nonces : MemcacheCheckTimestamp(p, n)
             \/ ComputeExpiry(p)
             \/ MemcacheCrash(p)
      PROVE  UNCHANGED MemcachePromise!vars
  BY <1>3 DEF MemcacheCheckTimestamp, ComputeExpiry, MemcacheCrash, MemcachePromise!vars
<1>4. CASE UNCHANGED memcacheVars
  BY <1>4 DEF memcacheVars, MemcachePromise!vars
<1> QED BY <1>1, <1>2, <1>3, <1>4 DEF MemcacheNext

\* The memcache store implements the promise of store/interface.rb.
THEOREM MemcacheImplements == PadSuffices /\ MemcacheSpec => MemcacheImplementsNonceStore
<1>1. PadSuffices /\ MemcacheIInv /\ MemcacheIInv' /\ [MemcacheNext]_memcacheVars
      => [MemcachePromise!Next]_MemcachePromise!vars
  BY MemcacheStepRefines
<1>2. CASE PadSuffices
  <2>1. MemcacheIInv /\ MemcacheIInv' /\ [MemcacheNext]_memcacheVars => [MemcachePromise!Next]_MemcachePromise!vars
    BY <1>1, <1>2
  <2>2. MemcacheSpec => []MemcacheIInv
    BY MemcacheInductive, <1>2
  <2> QED
    BY MemcacheInitRefines, <2>1, <2>2, PTL DEF MemcacheSpec, MemcacheImplementsNonceStore, MemcachePromise!Spec
<1> QED BY <1>2
=============================================================================
