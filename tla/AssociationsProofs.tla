-------------------------- MODULE AssociationsProofs --------------------------
(***************************************************************************)
(* For any processes, associations, handles (an OP may give one out twice),*)
(* lifetime and clock: the three stores keep the promise of AssocStore,    *)
(* get_association answers honestly, and what was removed stays removed.   *)
(***************************************************************************)
EXTENDS Associations, TLAPS

\* What a file or a memcached entry holds was made, and outlives its use.
EntriesOK ==
  \A h \in Handles : entry[h] # None =>
    /\ Handle[entry[h]] = h
    /\ issued[entry[h]] # -1
    /\ kind = "memcache" => until[h] >= issued[entry[h]] + Lifetime

IssuedOK ==
  /\ \A a \in Assocs : issued[a] = -1 \/ (issued[a] \in Nat /\ issued[a] <= now)
  /\ \A a \in stored : issued[a] # -1

\* An association that is about to be stored is in no other call, and not
\* in the store.
StoreOK(q) ==
  job[q].op = "store" =>
    /\ job[q].step \in {"write", "exists", "again", "handle"}
    /\ job[q].step \in {"exists", "again"} => kind = "file"
    /\ job[q].step = "handle" => kind = "memcache"
    /\ \E a \in Assocs : /\ job[q].found = {a}
                         /\ job[q].key = Handle[a]
                         /\ issued[a] # -1
                         /\ a \notin stored
                         /\ \A h \in Handles : entry[h] # a

StoresApart ==
  \A p, q \in Proc :
    p # q /\ job[p].op = "store" /\ job[q].op = "store" => job[p].found # job[q].found

\* A file is unlinked for an association of that name that has expired.
ReadOK(q) ==
  /\ job[q].op \in {"get", "cleanup"} => kind = "file" /\ job[q].step \in {"read", "unlink"}
  /\ job[q].op = "get" /\ job[q].key # Bare => job[q].list \subseteq {job[q].key}
  /\ job[q].step = "read" => job[q].op \in {"get", "cleanup", "remove"}
  /\ job[q].step = "read" /\ job[q].list # {} => kind = "file"
  /\ job[q].step = "unlink" =>
       /\ kind = "file"
       /\ job[q].op \in {"get", "cleanup", "remove"}
       /\ job[q].at \in Handles
       /\ \E b \in Assocs : /\ Handle[b] = job[q].at
                            /\ issued[b] # -1
                            /\ now >= issued[b] + Lifetime

\* Once a removal has looked under its handle, nothing it is about is there.
RemoveOK(q) ==
  job[q].op = "remove" =>
    /\ job[q].key \in Handles
    /\ job[q].due \subseteq stored
    /\ \A a \in job[q].due : Handle[a] = job[q].key
    /\ \/ job[q].step \in {"read", "unlink"} /\ kind # "memcache"
       \/ job[q].step \in {"delete", "look", "last"} /\ kind = "memcache"
    /\ job[q].list \subseteq {job[q].key}
    /\ job[q].step = "unlink" => job[q].at = job[q].key
    /\ \/ job[q].step \in {"look", "last"}
       \/ /\ job[q].step = "read"
          /\ kind = "file"
          /\ job[q].list = {}
          /\ job[q].found = {}
       => Fetch(job[q].key) \notin job[q].due

\* A get_association has read, or has still to read, whatever was there all
\* through it.
GetOK(q) ==
  job[q].op = "get" =>
    /\ Look(job[q].key) \subseteq seen[q]
    /\ job[q].found \subseteq seen[q]
    /\ through[q] \subseteq Look(job[q].key)
    /\ \A b \in through[q] : Handle[b] \in job[q].list \/ b \in job[q].found

GoneOK == gone \subseteq stored /\ RemovedGone

\* A removal that may delete the last association unseen is excused.
LastOK ==
  /\ kind # "memcache" => last = None /\ entry[Bare] = None
  /\ LastOffered
  /\ \A q \in Proc :
       /\ job[q].op = "remove"
       /\ last # None
       /\ job[q].key = Handle[last] \/ job[q].step = "last"
       => excused

JobOK(q) == StoreOK(q) /\ ReadOK(q) /\ RemoveOK(q)

IInv ==
  /\ TypeOK
  /\ EntriesOK
  /\ IssuedOK
  /\ \A q \in Proc : JobOK(q) /\ GetOK(q)
  /\ StoresApart
  /\ GoneOK
  /\ LastOK

-----------------------------------------------------------------------------
(* What a step may do to the store, and what that leaves as it is.         *)

\* The associations in S may appear in the store; others only vanish.
Lawful(S) ==
  /\ kind' = kind
  /\ now \in Nat /\ now' \in Nat /\ now <= now'
  /\ \A a \in Assocs : issued[a] # -1 => issued'[a] = issued[a]
  /\ \A k \in Keys : Fetch(k)' \in {Fetch(k), None} \union S
  /\ \A h \in Handles : entry'[h] \in {entry[h], None} \union S
  /\ stored \subseteq stored'
  /\ stored' \subseteq stored \union S

BasicTypes ==
  /\ kind \in Kinds
  /\ renames \in BOOLEAN
  /\ now \in 0..MaxTime
  /\ entry \in [Keys -> Assocs \union {None}]
  /\ until \in [Keys -> Nat]
  /\ issued \in [Assocs -> Int]
  /\ stored \in SUBSET Assocs
  /\ gone \in SUBSET Assocs
  /\ last \in Assocs \union {None}
  /\ excused \in BOOLEAN

\* A call that is not in this step.
LEMMA OthersKeep ==
  ASSUME IInv, NEW q \in Proc, job'[q] = job[q], NEW S \in SUBSET Assocs,
         Lawful(S), S \intersect stored = {},
         job[q].op = "store" => S \intersect job[q].found = {}
  PROVE  JobOK(q)'
<1>1. job[q] \in Job /\ JobOK(q) /\ None \notin Assocs /\ Lifetime \in Nat
  BY AssociationsAssumption DEF IInv, TypeOK
<1>2. StoreOK(q)'
  <2> SUFFICES ASSUME job'[q].op = "store" PROVE StoreOK(q)'
    BY DEF StoreOK
  <2>1. PICK a \in Assocs : /\ job[q].found = {a}
                            /\ job[q].key = Handle[a]
                            /\ issued[a] # -1
                            /\ a \notin stored
                            /\ \A h \in Handles : entry[h] # a
    BY <1>1 DEF JobOK, StoreOK
  <2>2. a \notin S /\ a \notin stored' /\ issued'[a] # -1 /\ \A h \in Handles : entry'[h] # a
    BY <1>1, <2>1 DEF Lawful
  <2> QED BY <1>1, <2>1, <2>2 DEF JobOK, StoreOK, Lawful
<1>3. ReadOK(q)'
  <2>1. ASSUME NEW b \in Assocs, issued[b] # -1, now >= issued[b] + Lifetime
        PROVE  issued'[b] # -1 /\ now' >= issued'[b] + Lifetime
    BY <1>1, <2>1 DEF Lawful, IInv, IssuedOK
  <2> QED BY <1>1, <2>1 DEF JobOK, ReadOK, Lawful
<1>4. RemoveOK(q)'
  <2> SUFFICES ASSUME job'[q].op = "remove" PROVE RemoveOK(q)'
    BY DEF RemoveOK
  <2>1. job[q].key \in Keys /\ job[q].due \subseteq Assocs /\ job[q].due \subseteq stored
    BY <1>1 DEF JobOK, RemoveOK, Keys, Job
  <2>2. Fetch(job[q].key) \notin job[q].due => Fetch(job[q].key)' \notin job[q].due
    BY <1>1, <2>1 DEF Lawful, Fetch
  <2> QED BY <1>1, <2>1, <2>2 DEF JobOK, RemoveOK, Lawful
<1> QED BY <1>2, <1>3, <1>4 DEF JobOK

\* A get_association that reads nothing in this step, or is not running.
LEMMA WatchKeeps ==
  ASSUME IInv, Watch, NEW q \in Proc,
         job'[q].op = "get" =>
           /\ job[q].op = "get"
           /\ job'[q].key = job[q].key
           /\ job'[q].list = job[q].list
           /\ job'[q].found = job[q].found
  PROVE  GetOK(q)'
<1> SUFFICES ASSUME job'[q].op = "get" PROVE GetOK(q)'
  BY DEF GetOK
<1>1. /\ seen'[q] = seen[q] \union Look(job[q].key)'
      /\ through'[q] = through[q] \intersect Look(job[q].key)'
  BY DEF Watch
<1> QED BY <1>1 DEF IInv, GetOK

LEMMA WatchTypes ==
  ASSUME IInv, Watch, BasicTypes', job' \in [Proc -> Job]
  PROVE  TypeOK'
<1>1. \A q \in Proc : Look(job[q].key)' \subseteq Assocs
  <2> SUFFICES ASSUME NEW q \in Proc PROVE Look(job[q].key)' \subseteq Assocs
    OBVIOUS
  <2>1. job'[q].key \in Keys
    BY DEF Job
  <2>2. \A i \in Keys : Fetch(i)' \in Assocs \union {None}
    BY DEF BasicTypes, Fetch
  <2>3. (IF job'[q].key = Bare /\ kind' # "memcache" THEN Handles ELSE {job'[q].key}) \subseteq Keys
    BY <2>1 DEF Keys
  <2> QED BY <2>2, <2>3 DEF Look
<1>2. seen' \in [Proc -> SUBSET Assocs]
  BY <1>1 DEF Watch, IInv, TypeOK
<1>3. \A q \in Proc : through'[q] \in SUBSET Assocs
  BY <1>1 DEF Watch, IInv, TypeOK
<1>4. through' \in [Proc -> SUBSET Assocs]
  BY <1>3 DEF Watch
<1> QED BY <1>2, <1>4 DEF BasicTypes, TypeOK

LEMMA GoneSame ==
  ASSUME IInv, NEW S \in SUBSET Assocs, Lawful(S), S \intersect stored = {}, gone' = gone
  PROVE  GoneOK'
BY AssociationsAssumption DEF IInv, TypeOK, GoneOK, RemovedGone, Lawful

LEMMA LastSame ==
  ASSUME IInv, NEW p \in Proc, NEW j \in Job, job' = [job EXCEPT ![p] = j],
         UNCHANGED <<kind, last>>, excused => excused', excused' \in BOOLEAN,
         j.op = "remove" => \/ job[p].op = "remove" /\ j.key = job[p].key
                                                   /\ (j.step = "last" => job[p].step = "last")
                            \/ last # None /\ (j.key = Handle[last] \/ j.step = "last") => excused',
         entry'[Bare] = entry[Bare] \/ last = None \/ excused',
         kind # "memcache" => entry'[Bare] = None,
         until'[Bare] = until[Bare], now \in Nat, now' \in Nat, now <= now'
  PROVE  LastOK'
<1>1. LastOffered'
  BY DEF IInv, LastOK, LastOffered, TypeOK, Keys
<1>2. \A q \in Proc : job'[q] = IF q = p THEN j ELSE job[q]
  BY DEF IInv, TypeOK
<1> QED BY <1>1, <1>2 DEF IInv, LastOK

LEMMA StepKeeps ==
  ASSUME IInv, Watch, NEW p \in Proc, NEW j \in Job, job' = [job EXCEPT ![p] = j],
         NEW S \in SUBSET Assocs, S \intersect stored = {}, Lawful(S),
         S # {} => job[p].op = "store" /\ job[p].found = S,
         BasicTypes', EntriesOK', IssuedOK', GoneOK', LastOK', JobOK(p)',
         StoresApart' \/ (j.op = "store" => job[p].op = "store" /\ j.found = job[p].found),
         GetOK(p)' \/ (j.op = "get" => /\ job[p].op = "get" /\ j.key = job[p].key
                                      /\ j.list = job[p].list /\ j.found = job[p].found)
  PROVE  IInv'
<1>1. /\ job'[p] = j
      /\ \A q \in Proc : q # p => job'[q] = job[q]
      /\ job' \in [Proc -> Job]
  BY DEF IInv, TypeOK
<1>2. TypeOK'
  BY <1>1, WatchTypes
<1>3. StoresApart'
  BY <1>1 DEF IInv, StoresApart
<1>4. \A q \in Proc : q # p => JobOK(q)' /\ GetOK(q)'
  <2> SUFFICES ASSUME NEW q \in Proc, q # p PROVE JobOK(q)' /\ GetOK(q)'
    OBVIOUS
  <2>1. job[q].op = "store" => S \intersect job[q].found = {}
    <3> SUFFICES ASSUME job[q].op = "store", S # {} PROVE S \intersect job[q].found = {}
      OBVIOUS
    <3>1. job[p].found # job[q].found
      BY DEF IInv, StoresApart
    <3>2. \E a \in Assocs : job[q].found = {a}
      BY DEF IInv, JobOK, StoreOK
    <3>3. \E a \in Assocs : job[p].found = {a}
      BY DEF IInv, JobOK, StoreOK
    <3> QED BY <3>1, <3>2, <3>3
  <2> QED BY <1>1, <2>1, OthersKeep, WatchKeeps
<1>5. GetOK(p)'
  BY <1>1, WatchKeeps
<1> QED BY <1>2, <1>3, <1>4, <1>5 DEF IInv

\* Entries D vanish, if any: nothing comes in.
LEMMA DropFacts ==
  ASSUME IInv, NEW D \in SUBSET Keys,
         entry' = [k \in Keys |-> IF k \in D THEN None ELSE entry[k]],
         UNCHANGED <<kind, now, until, issued, stored>>
  PROVE  /\ Lawful({})
         /\ EntriesOK'
         /\ IssuedOK'
         /\ entry' \in [Keys -> Assocs \union {None}]
         /\ \A k \in D : Fetch(k)' = None
         /\ \A k \in Keys : Fetch(k)' \in {Fetch(k), None}
<1>1. \A k \in Keys : entry'[k] \in {entry[k], None} /\ (k \in D => entry'[k] = None)
  OBVIOUS
<1>2. \A k \in Keys : Fetch(k)' \in {Fetch(k), None} /\ (k \in D => Fetch(k)' = None)
  BY <1>1 DEF Fetch
<1>3. now \in Nat
  BY AssociationsAssumption DEF IInv, TypeOK
<1>4. Lawful({})
  BY <1>1, <1>2, <1>3 DEF Lawful, Keys
<1>5. EntriesOK' /\ IssuedOK'
  BY <1>1 DEF IInv, EntriesOK, IssuedOK, Keys
<1>6. entry' \in [Keys -> Assocs \union {None}]
  BY DEF IInv, TypeOK
<1> QED BY <1>2, <1>4, <1>5, <1>6

LEMMA DropKeeps ==
  ASSUME IInv, Watch, NEW p \in Proc, NEW j \in Job, job' = [job EXCEPT ![p] = j],
         NEW D \in SUBSET Keys,
         entry' = [k \in Keys |-> IF k \in D THEN None ELSE entry[k]],
         UNCHANGED <<kind, renames, now, until, issued, stored, last>>,
         excused' \in BOOLEAN, gone' \in SUBSET Assocs, GoneOK', LastOK', JobOK(p)',
         j.op = "store" => job[p].op = "store" /\ j.found = job[p].found,
         GetOK(p)' \/ (j.op = "get" => /\ job[p].op = "get" /\ j.key = job[p].key
                                      /\ j.list = job[p].list /\ j.found = job[p].found)
  PROVE  IInv'
<1>1. /\ Lawful({})
      /\ EntriesOK' /\ IssuedOK'
      /\ entry' \in [Keys -> Assocs \union {None}]
  BY DropFacts
<1>2. BasicTypes'
  BY <1>1 DEF IInv, TypeOK, BasicTypes
<1> QED BY <1>1, <1>2, StepKeeps
LEMMA NoDrop ==
  ASSUME IInv
  PROVE  entry = [k \in Keys |-> IF k \in {} THEN None ELSE entry[k]]
BY DEF IInv, TypeOK

LEMMA DropOne ==
  ASSUME IInv, NEW i \in Keys, Drop(i)
  PROVE  entry' = [k \in Keys |-> IF k \in {i} THEN None ELSE entry[k]]
BY DEF IInv, TypeOK, Drop

\* A step that only moves its call along.
LEMMA QuietKeeps ==
  ASSUME IInv, Watch, NEW p \in Proc, NEW j \in Job, job' = [job EXCEPT ![p] = j],
         UNCHANGED <<kind, renames, now, entry, until, issued, stored, gone, last>>,
         excused' \in BOOLEAN, excused => excused', JobOK(p)',
         j.op = "store" => job[p].op = "store" /\ j.found = job[p].found,
         j.op = "remove" => \/ job[p].op = "remove" /\ j.key = job[p].key
                                                   /\ (j.step = "last" => job[p].step = "last")
                            \/ last # None /\ (j.key = Handle[last] \/ j.step = "last") => excused',
         GetOK(p)' \/ (j.op = "get" => /\ job[p].op = "get" /\ j.key = job[p].key
                                      /\ j.list = job[p].list /\ j.found = job[p].found)
  PROVE  IInv'
<1>1. entry' = [k \in Keys |-> IF k \in {} THEN None ELSE entry[k]]
  BY NoDrop
<1>2. Lawful({}) /\ now \in Nat /\ now' \in Nat /\ now <= now'
  <2>1. {} \in SUBSET Keys /\ UNCHANGED <<kind, now, until, issued, stored>>
    OBVIOUS
  <2>2. Lawful({})
    BY <1>1, <2>1, DropFacts
  <2> QED BY <2>2 DEF Lawful
<1>3. GoneOK'
  <2>1. {} \in SUBSET Assocs /\ {} \intersect stored = {} /\ gone' = gone
    OBVIOUS
  <2> QED BY <1>2, <2>1, GoneSame
<1>4. LastOK'
  <2>1. /\ UNCHANGED <<kind, last>>
        /\ entry'[Bare] = entry[Bare] \/ last = None
        /\ kind # "memcache" => entry'[Bare] = None
        /\ until'[Bare] = until[Bare]
    BY DEF IInv, LastOK
  <2> QED BY <1>2, <2>1, LastSame
<1>5. gone' \in SUBSET Assocs
  BY DEF IInv, TypeOK
<1>6. {} \in SUBSET Keys /\ UNCHANGED <<kind, renames, now, until, issued, stored, last>>
  OBVIOUS
<1> QED BY <1>1, <1>3, <1>4, <1>5, <1>6, DropKeeps

LEMMA IdleFacts ==
  /\ Idle \in Job
  /\ Idle.op = "idle" /\ Idle.step = "" /\ Idle.key = Bare /\ Idle.list = {}
  /\ Idle.found = {} /\ Idle.at = Bare /\ Idle.due = {}
BY DEF Idle, Job, Keys

LEMMA IdleOK ==
  ASSUME NEW p \in Proc, job'[p] = Idle
  PROVE  JobOK(p)' /\ GetOK(p)'
BY IdleFacts DEF JobOK, StoreOK, ReadOK, RemoveOK, GetOK

\* A call that is done, or dies, having changed nothing in this step.
LEMMA LeaveKeeps ==
  ASSUME IInv, Watch, NEW p \in Proc, Return(p),
         UNCHANGED <<kind, renames, now, entry, until, issued, stored, gone, last, excused>>
  PROVE  IInv'
<1>1. job' = [job EXCEPT ![p] = Idle] /\ job'[p] = Idle
  BY DEF Return, IInv, TypeOK
<1>2. JobOK(p)' /\ GetOK(p)' /\ excused' \in BOOLEAN
  BY <1>1, IdleOK DEF IInv, TypeOK
<1> QED BY <1>1, <1>2, IdleFacts, QuietKeeps

-----------------------------------------------------------------------------
(* store_association.                                                      *)

LEMMA BeginStoreKeeps ==
  ASSUME IInv, Watch, NEW p \in Proc, NEW a \in Assocs, BeginStore(p, a)
  PROVE  IInv'
<1> DEFINE j == [Idle EXCEPT !.op = "store", !.step = "write", !.key = Handle[a], !.found = {a}]
<1>1. /\ j.op = "store" /\ j.step = "write" /\ j.key = Handle[a] /\ j.found = {a}
      /\ j.list = {} /\ j \in Job /\ Handle[a] \in Handles
  BY AssociationsAssumption DEF Idle, Job, Keys
<1>2. job' = [job EXCEPT ![p] = j] /\ issued[a] = -1 /\ issued' = [issued EXCEPT ![a] = now]
  BY DEF BeginStore
<1> HIDE DEF j
<1>3. now \in Nat /\ now # -1 /\ issued'[a] = now /\ \A b \in Assocs : b # a => issued'[b] = issued[b]
  BY <1>2, AssociationsAssumption DEF IInv, TypeOK
<1>4. UNCHANGED <<kind, renames, now, entry, until, stored, gone, last, excused>>
  BY DEF BeginStore
<1>5. /\ a \notin stored
      /\ \A h \in Handles : entry[h] # a
      /\ \A q \in Proc : job[q].op = "store" => job[q].found # {a}
  <2>1. a \notin stored /\ \A h \in Handles : entry[h] # a
    BY <1>2, AssociationsAssumption DEF IInv, IssuedOK, EntriesOK
  <2>2. ASSUME NEW q \in Proc, job[q].op = "store" PROVE job[q].found # {a}
    <3>1. \E b \in Assocs : job[q].found = {b} /\ issued[b] # -1
      BY <2>2 DEF IInv, JobOK, StoreOK
    <3> QED BY <1>2, <3>1
  <2> QED BY <2>1, <2>2
<1>6. Lawful({})
  BY <1>2, <1>3, <1>4 DEF Lawful, Fetch, Keys
<1>7. BasicTypes'
  BY <1>2, <1>3, <1>4 DEF IInv, TypeOK, BasicTypes
<1>8. EntriesOK'
  BY <1>2, <1>3, <1>4 DEF IInv, EntriesOK, TypeOK, Keys
<1>9. IssuedOK'
  BY <1>3, <1>4 DEF IInv, IssuedOK, TypeOK
<1>10. GoneOK'
  BY <1>4, <1>6, GoneSame
<1>11. LastOK'
  <2>1. /\ UNCHANGED <<kind, last>> /\ (excused => excused') /\ excused' \in BOOLEAN
        /\ entry'[Bare] = entry[Bare] \/ last = None
        /\ kind # "memcache" => entry'[Bare] = None
        /\ until'[Bare] = until[Bare] /\ now' \in Nat /\ now <= now'
    BY <1>3, <1>4 DEF IInv, LastOK, TypeOK
  <2> QED BY <1>1, <1>2, <1>3, <2>1, LastSame
<1>12. job'[p] = j /\ \A q \in Proc : q # p => job'[q] = job[q]
  BY <1>2 DEF IInv, TypeOK
<1>13. JobOK(p)'
  <2>1. StoreOK(p)'
    BY <1>1, <1>3, <1>4, <1>5, <1>12 DEF StoreOK
  <2>2. ReadOK(p)' /\ RemoveOK(p)'
    BY <1>1, <1>12 DEF ReadOK, RemoveOK
  <2> QED BY <2>1, <2>2 DEF JobOK
<1>14. StoresApart'
  BY <1>1, <1>5, <1>12 DEF IInv, StoresApart
<1> QED BY <1>1, <1>2, <1>6, <1>7, <1>8, <1>9, <1>10, <1>11, <1>13, <1>14, StepKeeps

\* What a store_association in progress is about.
LEMMA Storing ==
  ASSUME IInv, NEW p \in Proc, job[p].op = "store"
  PROVE  \E a \in Assocs : /\ job[p].found = {a}
                          /\ job[p].key = Handle[a]
                          /\ Handle[a] \in Handles
                          /\ Handle[a] \in Keys
                          /\ Handle[a] # Bare
                          /\ issued[a] # -1
                          /\ a \notin stored
                          /\ \A h \in Handles : entry[h] # a
BY AssociationsAssumption DEF IInv, JobOK, StoreOK, Keys

\* The file or the hash entry takes its place, and the call is done.
LEMMA PutKeeps ==
  ASSUME IInv, Watch, NEW p \in Proc, job[p].op = "store", Return(p),
         \A a \in job[p].found : Put(job[p].key, a),
         stored' = stored \union job[p].found,
         \/ kind # "memcache" /\ until' = until
         \/ kind = "memcache" /\ until' = [until EXCEPT ![job[p].key] = now + Lifetime],
         UNCHANGED <<kind, renames, now, issued, gone, last, excused>>
  PROVE  IInv'
<1>1. PICK a \in Assocs : /\ job[p].found = {a}
                          /\ job[p].key = Handle[a]
                          /\ Handle[a] \in Handles
                          /\ Handle[a] \in Keys
                          /\ Handle[a] # Bare
                          /\ issued[a] # -1
                          /\ a \notin stored
                          /\ \A h \in Handles : entry[h] # a
  BY Storing
<1>2. entry' = [entry EXCEPT ![Handle[a]] = a] /\ stored' = stored \union {a}
  BY <1>1 DEF Put
<1>3. job' = [job EXCEPT ![p] = Idle] /\ job'[p] = Idle
  BY DEF Return, IInv, TypeOK
<1>4. /\ now \in Nat /\ Lifetime \in Nat \ {0} /\ None \notin Assocs
      /\ entry \in [Keys -> Assocs \union {None}] /\ until \in [Keys -> Nat]
      /\ issued[a] \in Nat /\ issued[a] <= now
  BY <1>1, AssociationsAssumption DEF IInv, TypeOK, IssuedOK
<1>5. /\ entry'[Handle[a]] = a
      /\ \A k \in Keys : k # Handle[a] => entry'[k] = entry[k] /\ until'[k] = until[k]
      /\ kind = "memcache" => until'[Handle[a]] = now + Lifetime
  BY <1>1, <1>2, <1>4
<1>6. \A k \in Keys : Fetch(k)' \in {Fetch(k), None, a}
  BY <1>4, <1>5 DEF Fetch
<1>7. Lawful({a})
  BY <1>2, <1>4, <1>5, <1>6 DEF Lawful, Keys
<1>8. BasicTypes'
  <2>1. entry' \in [Keys -> Assocs \union {None}]
    BY <1>2, <1>4
  <2>2. until' \in [Keys -> Nat]
    BY <1>1, <1>4
  <2> QED BY <1>2, <2>1, <2>2 DEF IInv, TypeOK, BasicTypes
<1>9. EntriesOK'
  BY <1>1, <1>4, <1>5 DEF IInv, EntriesOK, Keys
<1>10. IssuedOK'
  BY <1>1, <1>2 DEF IInv, IssuedOK
<1>11. GoneOK'
  BY <1>1, <1>7, GoneSame
<1>12. LastOK'
  <2>1. entry'[Bare] = entry[Bare] /\ until'[Bare] = until[Bare] /\ excused' \in BOOLEAN
    BY <1>1, <1>5 DEF Keys, IInv, TypeOK
  <2>2. /\ UNCHANGED <<kind, last>> /\ (excused => excused')
        /\ kind # "memcache" => entry'[Bare] = None
        /\ now' \in Nat /\ now <= now'
    BY <1>4, <2>1 DEF IInv, LastOK
  <2>3. ~(Idle.op = "remove")
    BY IdleFacts
  <2> QED BY <1>3, <1>4, <2>1, <2>2, <2>3, IdleFacts, LastSame
<1>13. JobOK(p)' /\ GetOK(p)'
  BY <1>3, IdleOK
<1> QED BY <1>1, <1>3, <1>7, <1>8, <1>9, <1>10, <1>11, <1>12, <1>13, IdleFacts, StepKeeps

\* A call of which only the step (and the file to unlink) changes.
LEMMA Moved ==
  ASSUME IInv, NEW p \in Proc, NEW s \in {"exists", "again", "handle", "look", "last"},
         job' = [job EXCEPT ![p].step = s]
  PROVE  \E j \in Job : /\ job' = [job EXCEPT ![p] = j] /\ job'[p] = j
                       /\ j.op = job[p].op /\ j.step = s /\ j.key = job[p].key
                       /\ j.list = job[p].list /\ j.found = job[p].found
                       /\ j.at = job[p].at /\ j.due = job[p].due
<1> DEFINE j == [job[p] EXCEPT !.step = s]
<1>1. job[p] \in Job
  BY DEF IInv, TypeOK
<1>2. /\ j \in Job
      /\ j.op = job[p].op /\ j.step = s /\ j.key = job[p].key
      /\ j.list = job[p].list /\ j.found = job[p].found
      /\ j.at = job[p].at /\ j.due = job[p].due
  BY <1>1 DEF Job
<1>3. job' = [job EXCEPT ![p] = j] /\ job'[p] = j
  BY DEF IInv, TypeOK
<1> QED BY <1>2, <1>3
LEMMA RenameKeeps ==
  ASSUME IInv, Watch, NEW p \in Proc, Rename(p)
  PROVE  IInv'
<1>0. job[p].op = "store" /\ kind = "file"
  BY DEF Rename, At
<1>1. CASE renames \/ entry[job[p].key] = None
  BY <1>0, <1>1, PutKeeps DEF Rename
<1>2. CASE ~(renames \/ entry[job[p].key] = None)
  <2>1. /\ job' = [job EXCEPT ![p].step = "exists"]
        /\ UNCHANGED <<kind, renames, now, entry, until, issued, stored, gone, last, excused>>
    BY <1>2 DEF Rename, Goto
  <2>2. PICK j \in Job : /\ job' = [job EXCEPT ![p] = j] /\ job'[p] = j
                         /\ j.op = job[p].op /\ j.step = "exists" /\ j.key = job[p].key
                         /\ j.list = job[p].list /\ j.found = job[p].found
                         /\ j.at = job[p].at /\ j.due = job[p].due
    BY <2>1, Moved
  <2>3. JobOK(p)'
    <3>1. StoreOK(p)'
      BY <1>0, <2>1, <2>2, Storing DEF StoreOK
    <3> QED BY <1>0, <2>2, <3>1 DEF JobOK, ReadOK, RemoveOK
  <2>4. excused' \in BOOLEAN
    BY <2>1 DEF IInv, TypeOK
  <2> QED BY <1>0, <2>1, <2>2, <2>3, <2>4, QuietKeeps
<1> QED BY <1>1, <1>2

LEMMA RenameAgainKeeps ==
  ASSUME IInv, Watch, NEW p \in Proc, RenameAgain(p)
  PROVE  IInv'
<1>0. job[p].op = "store" /\ kind = "file"
  BY DEF RenameAgain, At, IInv, JobOK, StoreOK
<1>1. CASE entry[job[p].key] = None
  BY <1>0, <1>1, PutKeeps DEF RenameAgain
<1>2. CASE entry[job[p].key] # None
  BY <1>2, LeaveKeeps DEF RenameAgain
<1> QED BY <1>1, <1>2

LEMMA PutsKeep ==
  ASSUME IInv, Watch, NEW p \in Proc, MemoryStore(p) \/ SetHandle(p)
  PROVE  IInv'
<1>1. CASE MemoryStore(p)
  BY <1>1, PutKeeps DEF MemoryStore, At
<1>2. CASE SetHandle(p)
  <2>1. job[p].op = "store" /\ kind = "memcache"
    BY <1>2 DEF SetHandle, At, IInv, JobOK, StoreOK
  <2> QED BY <1>2, <2>1, PutKeeps DEF SetHandle
<1> QED BY <1>1, <1>2

LEMMA UnlinkOldKeeps ==
  ASSUME IInv, Watch, NEW p \in Proc, UnlinkOld(p)
  PROVE  IInv'
<1>1. job[p].op = "store" /\ kind = "file"
  BY DEF UnlinkOld, At, IInv, JobOK, StoreOK
<1>2. PICK a \in Assocs : /\ job[p].found = {a}
                          /\ job[p].key = Handle[a]
                          /\ Handle[a] \in Handles
                          /\ Handle[a] \in Keys
                          /\ Handle[a] # Bare
                          /\ issued[a] # -1
                          /\ a \notin stored
                          /\ \A h \in Handles : entry[h] # a
  BY <1>1, Storing
<1>3. PICK j \in Job : /\ job' = [job EXCEPT ![p] = j] /\ job'[p] = j
                       /\ j.op = job[p].op /\ j.step = "again" /\ j.key = job[p].key
                       /\ j.list = job[p].list /\ j.found = job[p].found
                       /\ j.at = job[p].at /\ j.due = job[p].due
  BY Moved DEF UnlinkOld, Goto
<1> DEFINE D == {Handle[a]}
<1>4. D \in SUBSET Keys /\ entry' = [k \in Keys |-> IF k \in D THEN None ELSE entry[k]]
  BY <1>2, DropOne DEF UnlinkOld
<1> HIDE DEF D
<1>5. UNCHANGED <<kind, renames, now, until, issued, stored, gone, last, excused>>
  BY DEF UnlinkOld
<1>6. Lawful({}) /\ now \in Nat /\ now' \in Nat /\ now <= now'
  BY <1>4, <1>5, DropFacts DEF Lawful
<1>7. GoneOK'
  BY <1>5, <1>6, GoneSame
<1>8. entry'[Bare] = entry[Bare] /\ excused' \in BOOLEAN /\ gone' \in SUBSET Assocs
  BY <1>2, <1>4, <1>5 DEF Keys, D, IInv, TypeOK
<1>9. LastOK'
  <2>1. /\ UNCHANGED <<kind, last>> /\ (excused => excused')
        /\ kind # "memcache" => entry'[Bare] = None
        /\ until'[Bare] = until[Bare]
    BY <1>5, <1>8 DEF IInv, LastOK
  <2> QED BY <1>1, <1>3, <1>6, <1>8, <2>1, LastSame
<1>10. JobOK(p)'
  <2>1. \A h \in Handles : entry'[h] # a
    BY <1>2, <1>4, AssociationsAssumption DEF Keys
  <2>2. StoreOK(p)'
    BY <1>1, <1>2, <1>3, <1>5, <2>1 DEF StoreOK
  <2> QED BY <1>1, <1>3, <2>2 DEF JobOK, ReadOK, RemoveOK
<1> QED BY <1>1, <1>3, <1>4, <1>5, <1>7, <1>8, <1>9, <1>10, DropKeeps

LEMMA SetBareKeeps ==
  ASSUME IInv, Watch, NEW p \in Proc, SetBare(p)
  PROVE  IInv'
<1>1. job[p].op = "store" /\ kind = "memcache"
  BY DEF SetBare, At
<1>2. PICK a \in Assocs : /\ job[p].found = {a}
                          /\ job[p].key = Handle[a]
                          /\ Handle[a] \in Handles
                          /\ Handle[a] \in Keys
                          /\ Handle[a] # Bare
                          /\ issued[a] # -1
                          /\ a \notin stored
                          /\ \A h \in Handles : entry[h] # a
  BY <1>1, Storing
<1>3. PICK j \in Job : /\ job' = [job EXCEPT ![p] = j] /\ job'[p] = j
                       /\ j.op = job[p].op /\ j.step = "handle" /\ j.key = job[p].key
                       /\ j.list = job[p].list /\ j.found = job[p].found
                       /\ j.at = job[p].at /\ j.due = job[p].due
  BY Moved DEF SetBare, Goto
<1>4. /\ entry' = [entry EXCEPT ![Bare] = a] /\ last' = a
      /\ until' = [until EXCEPT ![Bare] = now + Lifetime]
      /\ UNCHANGED <<kind, renames, now, issued, stored, gone>>
  BY <1>2 DEF SetBare, Put
<1>5. /\ now \in Nat /\ Lifetime \in Nat \ {0} /\ None \notin Assocs
      /\ entry \in [Keys -> Assocs \union {None}] /\ until \in [Keys -> Nat]
      /\ Bare \in Keys /\ Bare \notin Handles
  BY AssociationsAssumption DEF IInv, TypeOK, Keys
<1>6. /\ entry'[Bare] = a /\ until'[Bare] = now + Lifetime
      /\ \A h \in Handles : entry'[h] = entry[h] /\ until'[h] = until[h]
  BY <1>4, <1>5 DEF Keys
<1>7. Lawful({a})
  <2>1. \A k \in Keys : Fetch(k)' \in {Fetch(k), None} \union {a}
    BY <1>4, <1>5, <1>6 DEF Fetch, Keys
  <2> QED BY <1>4, <1>5, <1>6, <2>1 DEF Lawful
<1>8. BasicTypes'
  <2>1. entry' \in [Keys -> Assocs \union {None}]
    BY <1>4, <1>5
  <2>2. until' \in [Keys -> Nat]
    BY <1>4, <1>5
  <2>3. excused' \in BOOLEAN
    BY DEF SetBare
  <2> QED BY <1>4, <2>1, <2>2, <2>3 DEF IInv, TypeOK, BasicTypes
<1>9. EntriesOK' /\ IssuedOK'
  BY <1>4, <1>6 DEF IInv, EntriesOK, IssuedOK
<1>10. GoneOK'
  BY <1>2, <1>4, <1>7, GoneSame
<1>11. job'[p].op = "store" /\ \A q \in Proc : q # p => job'[q] = job[q]
  BY <1>1, <1>3 DEF IInv, TypeOK
<1>12. LastOK'
  <2>1. ASSUME NEW q \in Proc, job'[q].op = "remove",
               job'[q].key = Handle[a] \/ job'[q].step = "last"
        PROVE  excused'
    <3>1. q # p /\ job'[q] = job[q]
      BY <1>11, <2>1
    <3> QED BY <1>2, <2>1, <3>1 DEF SetBare
  <2> QED BY <1>1, <1>4, <1>6, <2>1 DEF LastOK, LastOffered
<1>13. JobOK(p)'
  <2>1. StoreOK(p)'
    BY <1>1, <1>2, <1>3, <1>4, <1>6 DEF StoreOK
  <2> QED BY <1>1, <1>3, <2>1 DEF JobOK, ReadOK, RemoveOK
<1> QED BY <1>1, <1>2, <1>3, <1>7, <1>8, <1>9, <1>10, <1>12, <1>13, StepKeeps

-----------------------------------------------------------------------------
(* get_association and cleanup_associations of the file store.             *)

LEMMA LookFile ==
  ASSUME kind = "file", NEW k \in Keys
  PROVE  \A b : b \in Look(k) <=>
           /\ b # None /\ ~Expired(b)
           /\ \E h \in (IF k = Bare THEN Handles ELSE {k}) : entry[h] = b
BY DEF Look, Fetch

LEMMA BeginGetKeeps ==
  ASSUME IInv, Watch, NEW p \in Proc, NEW k \in Keys, BeginGet(p, k)
  PROVE  IInv'
<1> DEFINE l == IF k = Bare THEN Files ELSE {k}
           j == [Idle EXCEPT !.op = "get", !.step = "read", !.key = k,
                             !.list = l, !.due = {}]
<1>1. /\ j.op = "get" /\ j.step = "read" /\ j.key = k /\ j.list = l /\ j.found = {}
      /\ j \in Job
  BY DEF Idle, Job, Keys, Files
<1>2. job' = [job EXCEPT ![p] = j] /\ kind = "file" /\ job[p] = Idle
  BY DEF BeginGet, Start
<1> HIDE DEF j
<1>3. UNCHANGED <<kind, renames, now, entry, until, issued, stored, gone, last, excused>>
  BY DEF BeginGet
<1>4. job'[p] = j /\ job[p].op # "get"
  BY <1>2, IdleFacts DEF IInv, TypeOK
<1>5. JobOK(p)'
  BY <1>1, <1>2, <1>3, <1>4 DEF JobOK, StoreOK, ReadOK, RemoveOK
<1>6. seen'[p] = seen[p] \union Look(k)' /\ through'[p] = Look(k)'
  BY <1>1, <1>4 DEF Watch
<1>7. Look(k)' = Look(k)
  BY <1>3 DEF Look, Fetch, Expired
<1>8. \A b \in Look(k) : Handle[b] \in l
  <2> SUFFICES ASSUME NEW b \in Look(k) PROVE Handle[b] \in l
    OBVIOUS
  <2>1. b # None /\ \E h \in (IF k = Bare THEN Handles ELSE {k}) : entry[h] = b
    BY <1>2, LookFile
  <2>2. \A h \in Handles : entry[h] = b => Handle[b] = h
    BY <2>1 DEF IInv, EntriesOK
  <2> QED BY <2>1, <2>2 DEF Keys, Files
<1>9. GetOK(p)'
  BY <1>1, <1>4, <1>6, <1>7, <1>8 DEF GetOK
<1>10. excused' \in BOOLEAN
  BY <1>3 DEF IInv, TypeOK
<1> QED BY <1>1, <1>2, <1>3, <1>5, <1>9, <1>10, QuietKeeps

LEMMA CleanupKeeps ==
  ASSUME IInv, Watch, NEW p \in Proc, BeginCleanup(p) \/ CleanupDone(p)
  PROVE  IInv'
<1>1. CASE BeginCleanup(p)
  <2> DEFINE j == [Idle EXCEPT !.op = "cleanup", !.step = "read", !.key = Bare,
                               !.list = Files, !.due = {}]
  <2>1. j.op = "cleanup" /\ j.step = "read" /\ j \in Job
    BY DEF Idle, Job, Keys, Files
  <2>2. job' = [job EXCEPT ![p] = j] /\ kind = "file"
    BY <1>1 DEF BeginCleanup, Start
  <2> HIDE DEF j
  <2>3. UNCHANGED <<kind, renames, now, entry, until, issued, stored, gone, last, excused>>
    BY <1>1 DEF BeginCleanup
  <2>4. job'[p] = j
    BY <2>2 DEF IInv, TypeOK
  <2>5. JobOK(p)' /\ excused' \in BOOLEAN
    BY <2>1, <2>2, <2>3, <2>4 DEF JobOK, StoreOK, ReadOK, RemoveOK, IInv, TypeOK
  <2> QED BY <2>1, <2>2, <2>3, <2>5, QuietKeeps
<1>2. CASE CleanupDone(p)
  BY <1>2, LeaveKeeps DEF CleanupDone
<1> QED BY <1>1, <1>2
\* Reading a file: it is not there, it has expired, or it is found.
LEMMA ReadKeeps ==
  ASSUME IInv, Watch, NEW p \in Proc, NEW h \in Handles, Read(p, h)
  PROVE  IInv'
<1> DEFINE rest == [job[p] EXCEPT !.list = @ \ {h}]
           dead == [rest EXCEPT !.step = "unlink", !.at = h]
           more == [rest EXCEPT !.found = @ \union {entry[h]}]
           Rest(j) == j.op = job[p].op /\ j.key = job[p].key /\ j.due = job[p].due
                        /\ j.list = job[p].list \ {h}
<1>1. /\ job[p].step = "read" /\ h \in job[p].list /\ job[p] \in Job
      /\ kind = "file" /\ job[p].op \in {"get", "cleanup", "remove"}
  BY DEF Read, IInv, TypeOK, JobOK, ReadOK
<1>2. UNCHANGED <<kind, renames, now, entry, until, issued, stored, gone, last, excused>>
  BY DEF Read
<1>3. entry[h] \in Assocs \union {None} /\ None \notin Assocs /\ Bare \notin Handles
  BY AssociationsAssumption DEF IInv, TypeOK, Keys
<1>4. /\ rest \in Job /\ Rest(rest) /\ rest.step = "read" /\ rest.found = job[p].found
      /\ dead \in Job /\ Rest(dead) /\ dead.step = "unlink" /\ dead.at = h
      /\ dead.found = job[p].found
  BY <1>1 DEF Job, Keys
<1>5. entry[h] # None => /\ more \in Job /\ Rest(more) /\ more.step = "read"
                         /\ more.found = job[p].found \union {entry[h]}
  BY <1>1, <1>3 DEF Job
<1>6. job[p].op = "get" =>
        /\ \A b \in through[p] : Handle[b] = h => entry[h] = b /\ ~Expired(b)
        /\ entry[h] # None /\ ~Expired(entry[h]) => entry[h] \in seen[p]
  <2> SUFFICES ASSUME job[p].op = "get"
               PROVE  /\ \A b \in through[p] : Handle[b] = h => entry[h] = b /\ ~Expired(b)
                      /\ entry[h] # None /\ ~Expired(entry[h]) => entry[h] \in seen[p]
    OBVIOUS
  <2>1. /\ Look(job[p].key) \subseteq seen[p]
        /\ through[p] \subseteq Look(job[p].key)
        /\ job[p].key # Bare => job[p].list \subseteq {job[p].key}
        /\ job[p].key \in Keys
    BY <1>1 DEF IInv, GetOK, JobOK, ReadOK, Job
  <2>2. \A b : b \in Look(job[p].key) <=>
           /\ b # None /\ ~Expired(b)
           /\ \E i \in (IF job[p].key = Bare THEN Handles ELSE {job[p].key}) : entry[i] = b
    BY <1>1, <2>1, LookFile
  <2>3. h \in (IF job[p].key = Bare THEN Handles ELSE {job[p].key})
    BY <1>1, <2>1
  <2>4. \A i \in Handles : entry[i] # None => Handle[entry[i]] = i
    BY DEF IInv, EntriesOK
  <2>5. \A i \in (IF job[p].key = Bare THEN Handles ELSE {job[p].key}) : i \in Handles
    BY <2>1 DEF Keys
  <2> QED BY <2>1, <2>2, <2>3, <2>4, <2>5
<1>7. excused' \in BOOLEAN
  BY <1>2 DEF IInv, TypeOK
<1> HIDE DEF rest, dead, more
<1>8. ASSUME NEW j \in Job, job' = [job EXCEPT ![p] = j], Rest(j),
             \/ j.step = "read" /\ j.found = job[p].found /\ entry[h] = None
             \/ j.step = "read" /\ j.found = job[p].found /\ job[p].op = "cleanup"
             \/ /\ j.step = "unlink" /\ j.at = h /\ j.found = job[p].found
                /\ entry[h] # None /\ Expired(entry[h])
             \/ /\ j.step = "read" /\ j.found = job[p].found \union {entry[h]}
                /\ entry[h] # None /\ ~Expired(entry[h])
      PROVE  IInv'
  <2>1. job'[p] = j
    BY <1>8 DEF IInv, TypeOK
  <2>2. StoreOK(p)'
    BY <1>1, <1>8, <2>1 DEF StoreOK
  <2>3. ReadOK(p)'
    <3>1. entry[h] # None /\ Expired(entry[h]) =>
            \E b \in Assocs : Handle[b] = h /\ issued[b] # -1 /\ now >= issued[b] + Lifetime
      BY <1>3 DEF Expired, IInv, EntriesOK
    <3>2. job[p].op = "get" /\ job[p].key # Bare => job[p].list \subseteq {job[p].key}
      BY DEF IInv, JobOK, ReadOK
    <3> QED BY <1>1, <1>2, <1>8, <2>1, <3>1, <3>2 DEF ReadOK
  <2>4. RemoveOK(p)'
    <3> SUFFICES ASSUME j.op = "remove" PROVE RemoveOK(p)'
      BY <2>1 DEF RemoveOK
    <3>1. /\ job[p].key \in Handles /\ job[p].due \subseteq stored
          /\ \A a \in job[p].due : Handle[a] = job[p].key
          /\ job[p].list \subseteq {job[p].key} /\ h = job[p].key
      BY <1>1, <1>8 DEF IInv, JobOK, RemoveOK
    <3>2. job'[p].key = h /\ job'[p].due = job[p].due /\ None \notin job[p].due
      BY <1>3, <1>8, <2>1, <3>1 DEF IInv, TypeOK
    <3>3. entry[h] = None => Fetch(job[p].key)' \notin job'[p].due
      BY <1>1, <1>2, <3>2 DEF Fetch
    <3> QED BY <1>1, <1>2, <1>8, <2>1, <3>1, <3>3 DEF RemoveOK
  <2>5. GetOK(p)'
    <3> SUFFICES ASSUME j.op = "get" PROVE GetOK(p)'
      BY <2>1 DEF GetOK
    <3>1. /\ seen'[p] = seen[p] \union Look(job[p].key)'
          /\ through'[p] = through[p] \intersect Look(job[p].key)'
      BY <1>8, <2>1 DEF Watch
    <3>2. /\ job[p].found \subseteq seen[p]
          /\ \A b \in through[p] : Handle[b] \in job[p].list \/ b \in job[p].found
      BY <1>8 DEF IInv, GetOK
    <3>3. j.found \subseteq seen[p]
      BY <1>6, <1>8, <3>2
    <3>4. \A b \in through[p] : Handle[b] \in j.list \/ b \in j.found
      <4> SUFFICES ASSUME NEW b \in through[p], Handle[b] \notin j.list PROVE b \in j.found
        OBVIOUS
      <4>1. b \in job[p].found \/ Handle[b] = h
        BY <1>8, <3>2
      <4>2. CASE Handle[b] = h
        <5>1. entry[h] = b /\ ~Expired(b) /\ b # None
          <6>1. through[p] \subseteq Assocs
            BY DEF IInv, TypeOK
          <6> QED BY <1>3, <1>6, <1>8, <4>2, <6>1
        <5> QED BY <1>8, <5>1
      <4> QED BY <1>8, <4>1, <4>2
    <3> QED BY <1>8, <2>1, <3>1, <3>3, <3>4 DEF GetOK
  <2>6. JobOK(p)'
    BY <2>2, <2>3, <2>4 DEF JobOK
  <2> QED BY <1>1, <1>2, <1>7, <1>8, <2>5, <2>6, QuietKeeps
<1>9. CASE entry[h] = None
  <2>1. job' = [job EXCEPT ![p] = rest]
    BY <1>9 DEF Read, rest
  <2> QED BY <1>4, <1>8, <1>9, <2>1
<1>10. CASE entry[h] # None /\ Expired(entry[h])
  <2>1. job' = [job EXCEPT ![p] = dead]
    BY <1>10 DEF Read, rest, dead
  <2> QED BY <1>4, <1>8, <1>10, <2>1
<1>11. CASE entry[h] # None /\ ~Expired(entry[h])
  <2>1. CASE job[p].op = "cleanup"
    <3>1. job' = [job EXCEPT ![p] = rest]
      BY <1>11, <2>1 DEF Read, rest
    <3> QED BY <1>4, <1>8, <2>1, <3>1
  <2>2. CASE job[p].op # "cleanup"
    <3>1. job' = [job EXCEPT ![p] = more]
      BY <1>11, <2>2 DEF Read, rest, more
    <3> QED BY <1>5, <1>8, <1>11, <3>1
  <2> QED BY <2>1, <2>2
<1> QED BY <1>9, <1>10, <1>11

LEMMA UnlinkExpiredKeeps ==
  ASSUME IInv, Watch, NEW p \in Proc, UnlinkExpired(p)
  PROVE  IInv'
<1> DEFINE j == [job[p] EXCEPT !.step = "read", !.at = Bare]
           D == {job[p].at}
<1>1. /\ job[p].step = "unlink" /\ kind = "file" /\ job[p] \in Job
      /\ job[p].at \in Handles /\ job[p].op \in {"get", "cleanup", "remove"}
      /\ job[p].op = "get" /\ job[p].key # Bare => job[p].list \subseteq {job[p].key}
  BY DEF UnlinkExpired, IInv, TypeOK, JobOK, ReadOK
<1>2. /\ j \in Job /\ j.op = job[p].op /\ j.step = "read" /\ j.key = job[p].key
      /\ j.list = job[p].list /\ j.found = job[p].found /\ j.due = job[p].due
  BY <1>1 DEF Job, Keys
<1>3. job' = [job EXCEPT ![p] = j] /\ job'[p] = j
  BY <1>1 DEF UnlinkExpired, IInv, TypeOK
<1>4. D \in SUBSET Keys /\ entry' = [k \in Keys |-> IF k \in D THEN None ELSE entry[k]]
  BY <1>1, DropOne DEF UnlinkExpired, Keys
<1>5. UNCHANGED <<kind, renames, now, until, issued, stored, gone, last, excused>>
  BY DEF UnlinkExpired
<1> HIDE DEF j
<1>6. /\ Lawful({}) /\ now \in Nat /\ now' \in Nat /\ now <= now'
      /\ \A k \in D : Fetch(k)' = None
  BY <1>4, <1>5, DropFacts DEF Lawful
<1>7. GoneOK'
  BY <1>5, <1>6, GoneSame
<1>8. /\ entry'[Bare] = entry[Bare] /\ excused' \in BOOLEAN /\ gone' \in SUBSET Assocs
      /\ None \notin Assocs
  BY <1>1, <1>4, <1>5, AssociationsAssumption DEF Keys, IInv, TypeOK
<1>9. LastOK'
  <2>1. /\ UNCHANGED <<kind, last>> /\ (excused => excused')
        /\ kind # "memcache" => entry'[Bare] = None
        /\ until'[Bare] = until[Bare]
    BY <1>5, <1>8 DEF IInv, LastOK
  <2> QED BY <1>1, <1>2, <1>3, <1>6, <1>8, <2>1, LastSame
<1>10. JobOK(p)'
  <2>1. StoreOK(p)' /\ ReadOK(p)'
    BY <1>1, <1>2, <1>3, <1>5 DEF StoreOK, ReadOK
  <2>2. RemoveOK(p)'
    <3> SUFFICES ASSUME job[p].op = "remove" PROVE RemoveOK(p)'
      BY <1>2, <1>3 DEF RemoveOK
    <3>1. /\ job[p].key \in Handles /\ job[p].due \subseteq stored /\ job[p].at = job[p].key
          /\ \A a \in job[p].due : Handle[a] = job[p].key
          /\ job[p].list \subseteq {job[p].key}
      BY <1>1 DEF IInv, JobOK, RemoveOK
    <3>2. job'[p].key = job[p].at /\ None \notin job[p].due
      BY <1>2, <1>3, <1>8, <3>1 DEF IInv, TypeOK
    <3>3. Fetch(job[p].key)' = None
      BY <1>6, <3>2
    <3> QED BY <1>1, <1>2, <1>3, <1>5, <3>1, <3>2, <3>3 DEF RemoveOK
  <2> QED BY <2>1, <2>2 DEF JobOK
<1> HIDE DEF D
<1> QED BY <1>1, <1>2, <1>3, <1>4, <1>5, <1>7, <1>8, <1>9, <1>10, DropKeeps
LEMMA MemoryCleanupKeeps ==
  ASSUME IInv, Watch, NEW p \in Proc, MemoryCleanup(p)
  PROVE  IInv'
<1> DEFINE D == {k \in Keys : entry[k] # None /\ Expired(entry[k])}
<1>1. /\ job' = [job EXCEPT ![p] = Idle] /\ job'[p] = Idle
      /\ kind = "memory" /\ D \in SUBSET Keys
      /\ entry' = [k \in Keys |-> IF k \in D THEN None ELSE entry[k]]
      /\ UNCHANGED <<kind, renames, now, until, issued, stored, gone, last, excused>>
  BY DEF MemoryCleanup, IInv, TypeOK
<1> HIDE DEF D
<1>2. Lawful({}) /\ now \in Nat /\ now' \in Nat /\ now <= now'
  BY <1>1, DropFacts DEF Lawful
<1>3. GoneOK'
  BY <1>1, <1>2, GoneSame
<1>4. /\ excused' \in BOOLEAN /\ gone' \in SUBSET Assocs
      /\ last = None /\ entry'[Bare] = None
  BY <1>1 DEF IInv, TypeOK, LastOK, Keys
<1>5. LastOK'
  <2>1. /\ UNCHANGED <<kind, last>> /\ (excused => excused')
        /\ until'[Bare] = until[Bare] /\ ~(Idle.op = "remove")
    BY <1>1, IdleFacts
  <2> QED BY <1>1, <1>2, <1>4, <2>1, IdleFacts, LastSame
<1>6. JobOK(p)' /\ GetOK(p)' /\ ~(Idle.op = "store")
  BY <1>1, IdleOK, IdleFacts
<1> QED BY <1>1, <1>3, <1>4, <1>5, <1>6, IdleFacts, DropKeeps

-----------------------------------------------------------------------------
(* remove_association.                                                     *)

LEMMA BeginRemoveKeeps ==
  ASSUME IInv, Watch, NEW p \in Proc, NEW h \in Handles, BeginRemove(p, h)
  PROVE  IInv'
<1> DEFINE due == {a \in stored : Handle[a] = h}
           j(step, list) == [Idle EXCEPT !.op = "remove", !.step = step, !.key = h,
                                         !.list = list, !.due = due]
<1>1. due \in SUBSET Assocs /\ due \subseteq stored /\ \A a \in due : Handle[a] = h
  BY DEF IInv, TypeOK
<1>2. /\ UNCHANGED <<kind, renames, now, entry, until, issued, stored, gone, last>>
      /\ excused' = (excused \/ (last # None /\ Handle[last] = h))
      /\ excused \in BOOLEAN
  BY DEF BeginRemove, IInv, TypeOK
<1>3. ASSUME NEW step \in {"read", "delete"}, NEW list \in {{}, {h}},
             job' = [job EXCEPT ![p] = j(step, list)],
             \/ kind = "file" /\ step = "read" /\ list = {h}
             \/ kind = "memcache" /\ step = "delete" /\ list = {}
             \/ kind = "memory" /\ step = "read" /\ list = {}
      PROVE  IInv'
  <2> DEFINE i == j(step, list)
  <2>1. /\ i \in Job /\ i.op = "remove" /\ i.step = step /\ i.key = h /\ i.list = list
        /\ i.found = {} /\ i.due = due
    BY <1>1 DEF Idle, Job, Keys
  <2>2. job' = [job EXCEPT ![p] = i]
    BY <1>3
  <2> HIDE DEF i, j, due
  <2>3. job'[p] = i
    BY <2>2 DEF IInv, TypeOK
  <2>4. JobOK(p)'
    <3>1. RemoveOK(p)'
      BY <1>1, <1>2, <1>3, <2>1, <2>3 DEF RemoveOK
    <3> QED BY <1>2, <1>3, <2>1, <2>3, <3>1 DEF JobOK, StoreOK, ReadOK
  <2>5. /\ excused' \in BOOLEAN /\ (excused => excused')
        /\ last # None /\ (i.key = Handle[last] \/ i.step = "last") => excused'
    BY <1>2, <1>3, <2>1
  <2> QED BY <1>2, <2>1, <2>2, <2>4, <2>5, QuietKeeps
<1>4. kind \in {"file", "memcache", "memory"}
  BY AssociationsAssumption DEF IInv, TypeOK
<1> HIDE DEF due
<1>5. CASE kind = "file"
  <2>1. job' = [job EXCEPT ![p] = j("read", {h})]
    BY <1>5 DEF BeginRemove, Start, due
  <2> QED BY <1>3, <1>5, <2>1
<1>6. CASE kind = "memcache"
  <2>1. job' = [job EXCEPT ![p] = j("delete", {})]
    BY <1>6 DEF BeginRemove, Start, due
  <2> QED BY <1>3, <1>6, <2>1
<1>7. CASE kind = "memory"
  <2>1. job' = [job EXCEPT ![p] = j("read", {})]
    BY <1>7 DEF BeginRemove, Start, due
  <2> QED BY <1>3, <1>7, <2>1
<1> QED BY <1>4, <1>5, <1>6, <1>7

\* What is still found after D went may be called gone, but for what was due.
LEMMA GoneGrows ==
  ASSUME IInv, NEW p \in Proc, job[p].op = "remove", NEW D \in SUBSET Keys,
         \A k \in Keys : Fetch(k)' \in {Fetch(k), None} /\ (k \in D => Fetch(k)' = None),
         stored' = stored, gone' = gone \union job[p].due,
         job[p].key \in D \/ Fetch(job[p].key) \notin job[p].due,
         Bare \in D \/ Fetch(Bare) \notin job[p].due
  PROVE  GoneOK' /\ gone' \in SUBSET Assocs
<1>1. /\ job[p].due \subseteq stored /\ \A a \in job[p].due : Handle[a] = job[p].key
      /\ stored \subseteq Assocs /\ None \notin Assocs /\ gone \subseteq stored
      /\ \A k \in Keys : Fetch(k) \notin gone
  BY AssociationsAssumption DEF IInv, JobOK, RemoveOK, TypeOK, GoneOK, RemovedGone
<1>2. ASSUME NEW k \in Keys PROVE Fetch(k)' \notin gone'
  <2>1. CASE k = Bare
    BY <1>1, <2>1
  <2>2. CASE k \in Handles
    <3>1. Fetch(k) # None => Handle[Fetch(k)] = k
      BY <2>2 DEF IInv, EntriesOK, Fetch
    <3> QED BY <1>1, <3>1
  <2> QED BY <2>1, <2>2 DEF Keys
<1> QED BY <1>1, <1>2 DEF GoneOK, RemovedGone

LEMMA RemoveEntryKeeps ==
  ASSUME IInv, Watch, NEW p \in Proc, RemoveEntry(p)
  PROVE  IInv'
<1>1. /\ job[p].op = "remove" /\ job[p].step = "read" /\ job[p].list = {}
      /\ job' = [job EXCEPT ![p] = Idle] /\ job'[p] = Idle
      /\ gone' = gone \union job[p].due
      /\ UNCHANGED <<kind, renames, now, until, issued, stored, last, excused>>
  BY DEF RemoveEntry, At, Removed, Return, IInv, TypeOK
<1>2. /\ job[p].key \in Handles /\ kind # "memcache"
      /\ kind = "file" /\ job[p].found = {} => Fetch(job[p].key) \notin job[p].due
      /\ job[p].due \subseteq stored
  BY <1>1 DEF IInv, JobOK, RemoveOK
<1>3. /\ last = None /\ entry[Bare] = None /\ excused' \in BOOLEAN
      /\ stored \subseteq Assocs /\ None \notin Assocs
  BY <1>1, <1>2, AssociationsAssumption DEF IInv, LastOK, TypeOK
<1>4. Fetch(Bare) \notin job[p].due
  BY <1>2, <1>3 DEF Fetch
<1>5. ASSUME NEW D \in SUBSET Keys,
             entry' = [k \in Keys |-> IF k \in D THEN None ELSE entry[k]],
             job[p].key \in D \/ Fetch(job[p].key) \notin job[p].due
      PROVE  IInv'
  <2>1. /\ Lawful({}) /\ now \in Nat /\ now' \in Nat /\ now <= now'
        /\ \A k \in Keys : Fetch(k)' \in {Fetch(k), None} /\ (k \in D => Fetch(k)' = None)
    BY <1>1, <1>5, DropFacts DEF Lawful
  <2>2. GoneOK' /\ gone' \in SUBSET Assocs
    BY <1>1, <1>4, <1>5, <2>1, GoneGrows
  <2>3. entry'[Bare] = None
    BY <1>3, <1>5 DEF Keys
  <2>4. LastOK'
    <3>1. /\ UNCHANGED <<kind, last>> /\ (excused => excused')
          /\ until'[Bare] = until[Bare] /\ ~(Idle.op = "remove")
      BY <1>1, IdleFacts
    <3> QED BY <1>1, <1>3, <2>1, <2>3, <3>1, IdleFacts, LastSame
  <2>5. JobOK(p)' /\ GetOK(p)' /\ ~(Idle.op = "store")
    BY <1>1, IdleOK, IdleFacts
  <2> QED BY <1>1, <1>3, <1>5, <2>2, <2>4, <2>5, IdleFacts, DropKeeps
<1>6. CASE kind = "file" /\ job[p].found = {}
  <2>1. entry' = [k \in Keys |-> IF k \in {} THEN None ELSE entry[k]] /\ {} \in SUBSET Keys
    BY <1>6, NoDrop DEF RemoveEntry
  <2> QED BY <1>2, <1>5, <1>6, <2>1
<1>7. CASE ~(kind = "file" /\ job[p].found = {})
  <2>1. Drop(job[p].key) /\ {job[p].key} \in SUBSET Keys /\ job[p].key \in Keys
    BY <1>2, <1>7 DEF RemoveEntry, Keys
  <2>2. entry' = [k \in Keys |-> IF k \in {job[p].key} THEN None ELSE entry[k]]
    BY <2>1, DropOne
  <2> QED BY <1>5, <2>1, <2>2
<1> QED BY <1>6, <1>7

LEMMA DeleteHandleKeeps ==
  ASSUME IInv, Watch, NEW p \in Proc, DeleteHandle(p)
  PROVE  IInv'
<1>1. job[p].op = "remove" /\ job[p].step = "delete"
  BY DEF DeleteHandle, At
<1>2. /\ job[p].key \in Handles /\ kind = "memcache" /\ Bare \notin Handles
      /\ job[p].due \subseteq stored /\ \A a \in job[p].due : Handle[a] = job[p].key
      /\ job[p].list \subseteq {job[p].key}
      /\ stored \subseteq Assocs /\ None \notin Assocs
  BY <1>1, AssociationsAssumption DEF IInv, JobOK, RemoveOK, TypeOK
<1>3. PICK j \in Job : /\ job' = [job EXCEPT ![p] = j] /\ job'[p] = j
                       /\ j.op = job[p].op /\ j.step = "look" /\ j.key = job[p].key
                       /\ j.list = job[p].list /\ j.found = job[p].found
                       /\ j.at = job[p].at /\ j.due = job[p].due
  BY Moved DEF DeleteHandle, Goto
<1> DEFINE D == {job[p].key}
<1>4. D \in SUBSET Keys /\ entry' = [k \in Keys |-> IF k \in D THEN None ELSE entry[k]]
  BY <1>2, DropOne DEF DeleteHandle, Keys
<1>5. UNCHANGED <<kind, renames, now, until, issued, stored, gone, last, excused>>
  BY DEF DeleteHandle
<1>6. /\ Lawful({}) /\ now \in Nat /\ now' \in Nat /\ now <= now'
      /\ \A k \in D : Fetch(k)' = None
  BY <1>4, <1>5, DropFacts DEF Lawful
<1>7. GoneOK'
  BY <1>5, <1>6, GoneSame
<1>8. entry'[Bare] = entry[Bare] /\ excused' \in BOOLEAN /\ gone' \in SUBSET Assocs
  BY <1>2, <1>4, <1>5 DEF Keys, IInv, TypeOK
<1>9. LastOK'
  <2>1. /\ UNCHANGED <<kind, last>> /\ (excused => excused')
        /\ kind # "memcache" => entry'[Bare] = None
        /\ until'[Bare] = until[Bare]
    BY <1>2, <1>5
  <2> QED BY <1>1, <1>3, <1>6, <1>8, <2>1, LastSame
<1>10. JobOK(p)'
  <2>1. job'[p].key \in D
    BY <1>3
  <2>2. Fetch(job[p].key)' = None
    BY <1>6, <2>1
  <2>3. RemoveOK(p)'
    BY <1>1, <1>2, <1>3, <1>5, <2>2 DEF RemoveOK
  <2> QED BY <1>1, <1>3, <2>3 DEF JobOK, StoreOK, ReadOK
<1> HIDE DEF D
<1> QED BY <1>1, <1>3, <1>4, <1>5, <1>7, <1>8, <1>9, <1>10, DropKeeps

LEMMA LookAtLastKeeps ==
  ASSUME IInv, Watch, NEW p \in Proc, LookAtLast(p)
  PROVE  IInv'
<1>1. job[p].op = "remove" /\ job[p].step = "look"
  BY DEF LookAtLast, At
<1>2. /\ job[p].key \in Handles /\ kind = "memcache" /\ None \notin Assocs
      /\ job[p].due \subseteq stored /\ \A a \in job[p].due : Handle[a] = job[p].key
      /\ job[p].list \subseteq {job[p].key} /\ stored \subseteq Assocs
      /\ Fetch(job[p].key) \notin job[p].due
  BY <1>1, AssociationsAssumption DEF IInv, JobOK, RemoveOK, TypeOK
<1>3. UNCHANGED <<kind, renames, now, entry, until, issued, stored, last, excused>>
  BY DEF LookAtLast
<1>4. excused' \in BOOLEAN
  BY <1>3 DEF IInv, TypeOK
<1>5. CASE Fetch(Bare) # None /\ Handle[Fetch(Bare)] = job[p].key
  <2>1. job' = [job EXCEPT ![p].step = "last"] /\ gone' = gone
    BY <1>5 DEF LookAtLast, Goto
  <2>2. PICK j \in Job : /\ job' = [job EXCEPT ![p] = j] /\ job'[p] = j
                         /\ j.op = job[p].op /\ j.step = "last" /\ j.key = job[p].key
                         /\ j.list = job[p].list /\ j.found = job[p].found
                         /\ j.at = job[p].at /\ j.due = job[p].due
    BY <2>1, Moved
  <2>3. last # None => excused
    <3>1. last # None /\ job[p].key = Handle[last] => excused
      BY <1>1 DEF IInv, LastOK
    <3>2. Fetch(Bare) = entry[Bare] /\ ~(now >= until[Bare])
      BY <1>2, <1>5 DEF Fetch
    <3>3. now \in Int /\ until[Bare] \in Int
      BY DEF IInv, TypeOK, Keys
    <3> QED BY <1>5, <3>1, <3>2, <3>3 DEF IInv, LastOK, LastOffered
  <2>4. JobOK(p)'
    <3>1. Fetch(job[p].key)' = Fetch(job[p].key)
      BY <1>3, <2>2 DEF Fetch
    <3>2. RemoveOK(p)'
      BY <1>1, <1>2, <1>3, <2>2, <3>1 DEF RemoveOK
    <3> QED BY <1>1, <2>2, <3>2 DEF JobOK, StoreOK, ReadOK
  <2> QED BY <1>1, <1>3, <1>4, <2>1, <2>2, <2>3, <2>4, QuietKeeps
<1>6. CASE ~(Fetch(Bare) # None /\ Handle[Fetch(Bare)] = job[p].key)
  <2>1. gone' = gone \union job[p].due /\ job' = [job EXCEPT ![p] = Idle] /\ job'[p] = Idle
    BY <1>6 DEF LookAtLast, Removed, Return, IInv, TypeOK
  <2>2. entry' = [k \in Keys |-> IF k \in {} THEN None ELSE entry[k]] /\ {} \in SUBSET Keys
    BY <1>3, NoDrop
  <2>3. Fetch(Bare) \notin job[p].due
    BY <1>2, <1>6
  <2>4. \A k \in Keys : Fetch(k)' = Fetch(k)
    BY <1>3 DEF Fetch
  <2>5. GoneOK' /\ gone' \in SUBSET Assocs
    BY <1>1, <1>2, <1>3, <2>1, <2>2, <2>3, <2>4, GoneGrows
  <2>6. LastOK'
    <3>1. /\ UNCHANGED <<kind, last>> /\ (excused => excused')
          /\ kind # "memcache" => entry'[Bare] = None
          /\ until'[Bare] = until[Bare] /\ entry'[Bare] = entry[Bare]
          /\ ~(Idle.op = "remove")
      BY <1>2, <1>3, IdleFacts
    <3>2. now \in Nat /\ now' \in Nat /\ now <= now'
      BY <1>3, AssociationsAssumption DEF IInv, TypeOK
    <3> QED BY <1>4, <2>1, <3>1, <3>2, IdleFacts, LastSame
  <2>7. JobOK(p)' /\ GetOK(p)' /\ ~(Idle.op = "store")
    BY <2>1, IdleOK, IdleFacts
  <2> QED BY <1>3, <1>4, <2>1, <2>2, <2>5, <2>6, <2>7, IdleFacts, DropKeeps
<1> QED BY <1>5, <1>6

LEMMA DeleteLastKeeps ==
  ASSUME IInv, Watch, NEW p \in Proc, DeleteLast(p)
  PROVE  IInv'
<1>1. /\ job[p].op = "remove" /\ job[p].step = "last" /\ Drop(Bare)
      /\ job' = [job EXCEPT ![p] = Idle] /\ job'[p] = Idle
      /\ gone' = gone \union job[p].due
      /\ UNCHANGED <<kind, renames, now, until, issued, stored, last, excused>>
  BY DEF DeleteLast, At, Removed, Return, IInv, TypeOK
<1>2. /\ kind = "memcache" /\ Fetch(job[p].key) \notin job[p].due
      /\ last # None => excused
  BY <1>1 DEF IInv, JobOK, RemoveOK, LastOK
<1>3. /\ {Bare} \in SUBSET Keys /\ excused' \in BOOLEAN
      /\ entry' = [k \in Keys |-> IF k \in {Bare} THEN None ELSE entry[k]]
  BY <1>1, DropOne DEF Keys, IInv, TypeOK
<1>4. /\ Lawful({}) /\ now \in Nat /\ now' \in Nat /\ now <= now'
      /\ \A k \in Keys : Fetch(k)' \in {Fetch(k), None} /\ (k \in {Bare} => Fetch(k)' = None)
  BY <1>1, <1>3, DropFacts DEF Lawful
<1>5. GoneOK' /\ gone' \in SUBSET Assocs
  BY <1>1, <1>2, <1>3, <1>4, GoneGrows
<1>6. LastOK'
  <2>1. /\ UNCHANGED <<kind, last>> /\ (excused => excused')
        /\ kind # "memcache" => entry'[Bare] = None
        /\ until'[Bare] = until[Bare] /\ (last = None \/ excused')
        /\ ~(Idle.op = "remove")
    BY <1>1, <1>2, IdleFacts
  <2> QED BY <1>1, <1>3, <1>4, <2>1, IdleFacts, LastSame
<1>7. JobOK(p)' /\ GetOK(p)' /\ ~(Idle.op = "store")
  BY <1>1, IdleOK, IdleFacts
<1> QED BY <1>1, <1>3, <1>5, <1>6, <1>7, IdleFacts, DropKeeps
-----------------------------------------------------------------------------
(* The clock, the initial states, and every step.                          *)

LEMMA TickKeeps ==
  ASSUME IInv, Watch, Tick
  PROVE  IInv'
<1>1. /\ now < MaxTime /\ now' = now + 1 /\ job' = job
      /\ UNCHANGED <<kind, renames, entry, until, issued, stored, gone, last, excused>>
  BY DEF Tick
<1>2. /\ now \in Nat /\ now' \in 0..MaxTime /\ now' \in Nat /\ MaxTime \in Nat
      /\ until \in [Keys -> Nat] /\ None \notin Assocs
  BY <1>1, AssociationsAssumption DEF IInv, TypeOK
<1>3. \A k \in Keys : Fetch(k)' \in {Fetch(k), None}
  BY <1>1, <1>2 DEF Fetch
<1>4. Lawful({})
  BY <1>1, <1>2, <1>3 DEF Lawful
<1>5. BasicTypes'
  BY <1>1, <1>2 DEF IInv, TypeOK, BasicTypes
<1>6. job' \in [Proc -> Job]
  BY <1>1 DEF IInv, TypeOK
<1>7. TypeOK'
  BY <1>5, <1>6, WatchTypes
<1>8. EntriesOK' /\ IssuedOK' /\ StoresApart'
  BY <1>1, <1>2 DEF IInv, EntriesOK, IssuedOK, StoresApart
<1>9. GoneOK'
  <2>1. {} \in SUBSET Assocs /\ {} \intersect stored = {} /\ gone' = gone
    BY <1>1
  <2> QED BY <1>4, <2>1, GoneSame
<1>10. LastOK'
  <2>1. LastOffered'
    BY <1>1, <1>2 DEF IInv, LastOK, LastOffered, Keys
  <2> QED BY <1>1, <2>1 DEF IInv, LastOK
<1>11. \A q \in Proc : JobOK(q)' /\ GetOK(q)'
  <2> SUFFICES ASSUME NEW q \in Proc PROVE JobOK(q)' /\ GetOK(q)'
    OBVIOUS
  <2>1. job'[q] = job[q] /\ {} \in SUBSET Assocs /\ {} \intersect stored = {}
        /\ {} \intersect job[q].found = {}
    BY <1>1
  <2> QED BY <1>4, <2>1, OthersKeep, WatchKeeps
<1> QED BY <1>7, <1>8, <1>9, <1>10, <1>11 DEF IInv

LEMMA InitHolds == Init => IInv
<1> SUFFICES ASSUME Init PROVE IInv
  OBVIOUS
<1>1. None \notin Assocs /\ 0 \in 0..MaxTime /\ Bare \in Keys
  BY AssociationsAssumption DEF Keys
<1>2. TypeOK
  <2>1. /\ entry \in [Keys -> Assocs \union {None}]
        /\ until \in [Keys -> Nat]
        /\ issued \in [Assocs -> Int]
    BY DEF Init
  <2>2. job \in [Proc -> Job]
    BY IdleFacts DEF Init
  <2>3. seen \in [Proc -> SUBSET Assocs] /\ through \in [Proc -> SUBSET Assocs]
    BY DEF Init
  <2> QED BY <1>1, <2>1, <2>2, <2>3 DEF Init, TypeOK
<1>3. EntriesOK /\ IssuedOK
  BY DEF Init, EntriesOK, IssuedOK, Keys
<1>4. \A q \in Proc : JobOK(q) /\ GetOK(q)
  BY IdleFacts DEF Init, JobOK, StoreOK, ReadOK, RemoveOK, GetOK
<1>5. StoresApart /\ GoneOK /\ LastOK
  BY <1>1, IdleFacts DEF Init, StoresApart, GoneOK, RemovedGone, LastOK, LastOffered
<1> QED BY <1>2, <1>3, <1>4, <1>5 DEF IInv

LEMMA NextKeeps == IInv /\ [Next]_vars => IInv'
<1> SUFFICES ASSUME IInv, [Next]_vars PROVE IInv'
  OBVIOUS
<1>1. CASE Tick /\ Watch
  BY <1>1, TickKeeps
<1>2. ASSUME NEW p \in Proc, StoreStep(p), Watch PROVE IInv'
  BY <1>2, BeginStoreKeeps, RenameKeeps, UnlinkOldKeeps, RenameAgainKeeps, SetBareKeeps,
     PutsKeep DEF StoreStep
<1>3. ASSUME NEW p \in Proc, GetStep(p), Watch PROVE IInv'
  <2>1. CASE FinishGet(p)
    BY <1>3, <2>1, LeaveKeeps DEF FinishGet
  <2> QED BY <1>3, <2>1, BeginGetKeeps, ReadKeeps, UnlinkExpiredKeeps DEF GetStep
<1>4. ASSUME NEW p \in Proc, RemoveStep(p), Watch PROVE IInv'
  BY <1>4, BeginRemoveKeeps, RemoveEntryKeeps, DeleteHandleKeeps, LookAtLastKeeps,
     DeleteLastKeeps DEF RemoveStep
<1>5. ASSUME NEW p \in Proc, CleanupStep(p), Watch PROVE IInv'
  BY <1>5, CleanupKeeps, MemoryCleanupKeeps DEF CleanupStep
<1>6. ASSUME NEW p \in Proc, Crash(p), Watch PROVE IInv'
  BY <1>6, LeaveKeeps DEF Crash
<1>7. CASE UNCHANGED vars
  <2>1. TypeOK' /\ EntriesOK' /\ IssuedOK' /\ StoresApart' /\ GoneOK' /\ LastOK'
    BY <1>7 DEF vars, IInv, TypeOK, EntriesOK, IssuedOK, StoresApart, GoneOK, RemovedGone,
       Fetch, LastOK, LastOffered
  <2>2. \A q \in Proc : JobOK(q)' /\ GetOK(q)'
    BY <1>7 DEF vars, IInv, JobOK, StoreOK, ReadOK, RemoveOK, GetOK, Look, Fetch, Expired
  <2> QED BY <2>1, <2>2 DEF IInv
<1> QED BY <1>1, <1>2, <1>3, <1>4, <1>5, <1>6, <1>7 DEF Next

\* The inductive invariant.
THEOREM Inductive == Spec => []IInv
BY InitHolds, NextKeeps, PTL DEF Spec

-----------------------------------------------------------------------------
(* What it says to the callers of the stores.                              *)

\* The steps of the calls keep every variable in its set.
THEOREM TypeCorrect == Spec => []TypeOK
<1>1. IInv => TypeOK
  BY DEF IInv
<1> QED BY <1>1, Inductive, PTL

\* get_association answers with what was in the store during the call, and
\* with nil only if nothing was there all through it.
THEOREM AssociationsHonest == Spec => []HonestAnswer
<1>1. IInv => HonestAnswer
  <2> SUFFICES ASSUME IInv, NEW p \in Proc, Answering(p)
               PROVE  /\ Newest(job[p].found) \subseteq seen[p]
                      /\ job[p].found = {} => through[p] = {}
    BY DEF HonestAnswer
  <2>1. /\ job[p].found \subseteq seen[p]
        /\ \A b \in through[p] : b \in job[p].found
    BY DEF IInv, GetOK, Answering, At
  <2> QED BY <2>1 DEF Newest
<1> QED BY <1>1, Inductive, PTL

\* Of what is in the store all through a get_association without a handle,
\* nothing is newer than its answer.
THEOREM AssociationsNewest == Spec => []NewestReturned
<1>1. IInv => NewestReturned
  <2> SUFFICES ASSUME IInv, NEW p \in Proc, Answering(p),
                      NEW a \in Newest(job[p].found), NEW b \in through[p]
               PROVE  issued[b] <= issued[a]
    BY DEF NewestReturned
  <2>1. b \in job[p].found
    BY DEF IInv, GetOK, Answering, At
  <2> QED BY <2>1 DEF Newest
<1> QED BY <1>1, Inductive, PTL

\* No call finds what a remove_association that has returned was about.
THEOREM AssociationsRemoved == Spec => []RemovedGone
<1>1. IInv => RemovedGone
  BY DEF IInv, GoneOK
<1> QED BY <1>1, Inductive, PTL

\* memcache goes on offering the association stored last.
THEOREM AssociationsOffered == Spec => []LastOffered
<1>1. IInv => LastOffered
  BY DEF IInv, LastOK
<1> QED BY <1>1, Inductive, PTL
-----------------------------------------------------------------------------
(* The stores keep the promise of AssocStore: every step is one of its     *)
(* moves, and the answers are the right ones before and after it.          *)

Moves ==
  \/ Promise!Tick
  \/ Promise!Call
  \/ Promise!Forget
  \/ \E a \in Assocs : Promise!Make(a) \/ Promise!Store(a)
  \/ \E h \in Handles : Promise!Remove(h)

\* get_association of a handle hides what has expired if the interface's
\* promise says so, and nothing else.
LEMMA GivenRight == Given = Promise!Answers /\ Given' = Promise!Answers'
<1>1. ASSUME NEW h \in Handles
      PROVE  /\ Look(h) = {a \in {Fetch(h)} : a # None /\ (kind = "file" => ~Expired(a))}
             /\ Look(h)' = {a \in {Fetch(h)'} : a # None /\ (kind' = "file" => ~Expired(a)')}
  BY AssociationsAssumption DEF Look
<1>2. ASSUME NEW h \in Handles
      PROVE  /\ Given[h] = Promise!Answers[h]
             /\ Given'[h] = Promise!Answers'[h]
  BY <1>1, <1>2 DEF Given, Held, Promise!Answers, Promise!Expired, Expired
<1> QED BY <1>2 DEF Given, Promise!Answers

\* The associations being stored, when no call of store_association begins.
LEMMA StoringLess ==
  ASSUME \A q \in Proc : job'[q].op = "store" => job[q].op = "store" /\ job'[q].found = job[q].found
  PROVE  BeingStored' \in SUBSET BeingStored
BY DEF BeingStored

LEMMA StoringSame ==
  ASSUME \A q \in Proc :
           \/ job'[q].op = job[q].op /\ job'[q].found = job[q].found
           \/ job'[q].op # "store" /\ job[q].op # "store"
  PROVE  BeingStored' = BeingStored
BY DEF BeingStored

\* What is read, looked at or set without a handle is no business of its.
LEMMA AsCall ==
  ASSUME \A h \in Handles : Fetch(h)' = Fetch(h), UNCHANGED <<now, issued>>,
         BeingStored' \in SUBSET BeingStored
  PROVE  Moves
<1>1. Held' = Held /\ Asked' \in SUBSET Handles
  BY DEF Held, Asked
<1> QED BY <1>1 DEF Moves, Promise!Call

LEMMA AsForget ==
  ASSUME UNCHANGED <<now, issued>>, Asked' = Asked, BeingStored' = BeingStored,
         \A h \in Handles :
           \/ Fetch(h)' = Fetch(h)
           \/ /\ Fetch(h)' = None
              /\ \E b \in Assocs : /\ Handle[b] = h
                                  /\ \/ b \in BeingStored
                                     \/ issued[b] # -1 /\ now >= issued[b] + Lifetime
  PROVE  Moves
<1>1. \A h \in Handles : Held[h] = Fetch(h) /\ Held'[h] = Fetch(h)'
  BY DEF Held
<1>2. Promise!DropsOnly(now)
  BY <1>1 DEF Promise!DropsOnly, Promise!MayDrop, Promise!Expired
<1> QED BY <1>2 DEF Moves, Promise!Forget

LEMMA AskedSame ==
  ASSUME IInv, NEW p \in Proc, \A q \in Proc : q # p => job'[q] = job[q],
         job[p].op = "remove" \/ job'[p].op = "remove" =>
           job[p].op = job'[p].op /\ job[p].key = job'[p].key
  PROVE  Asked' = Asked
BY DEF Asked

LEMMA StoreIsPromised ==
  ASSUME IInv, NEW p \in Proc, job[p].op = "store",
         \A a \in job[p].found : Put(job[p].key, a), Return(p),
         \/ kind # "memcache" /\ until' = until
         \/ kind = "memcache" /\ until' = [until EXCEPT ![job[p].key] = now + Lifetime],
         UNCHANGED <<kind, now, issued>>
  PROVE  Moves
<1>1. PICK a \in Assocs : /\ job[p].found = {a}
                          /\ job[p].key = Handle[a]
                          /\ Handle[a] \in Handles
                          /\ Handle[a] \in Keys
                          /\ Handle[a] # Bare
                          /\ issued[a] # -1
                          /\ a \notin stored
                          /\ \A h \in Handles : entry[h] # a
  BY Storing
<1>2. /\ now \in Nat /\ Lifetime \in Nat \ {0}
      /\ entry \in [Keys -> Assocs \union {None}] /\ until \in [Keys -> Nat]
  BY AssociationsAssumption DEF IInv, TypeOK
<1>3. /\ entry' = [entry EXCEPT ![Handle[a]] = a]
      /\ kind = "memcache" => until' = [until EXCEPT ![Handle[a]] = now + Lifetime]
  BY <1>1 DEF Put
<1>4. \A h \in Handles : Fetch(h)' = IF h = Handle[a] THEN a ELSE Fetch(h)
  BY <1>1, <1>2, <1>3 DEF Fetch, Keys
<1>5. Held' = [Held EXCEPT ![Handle[a]] = a]
  BY <1>4 DEF Held
<1>6. Asked' = Asked
  <2>1. job'[p] = Idle /\ \A q \in Proc : q # p => job'[q] = job[q]
    BY DEF Return, IInv, TypeOK
  <2> QED BY <2>1, IdleFacts, AskedSame
<1>7. a \in BeingStored /\ BeingStored' = BeingStored \ {a}
  <2>1. job'[p] = Idle /\ \A q \in Proc : q # p => job'[q] = job[q]
    BY DEF Return, IInv, TypeOK
  <2>2. ASSUME NEW q \in Proc, q # p, job[q].op = "store" PROVE a \notin job[q].found
    <3>1. PICK b \in Assocs : job[q].found = {b}
      BY <2>2, Storing
    <3>2. job[p].found # job[q].found
      BY <2>2 DEF IInv, StoresApart
    <3> QED BY <1>1, <3>1, <3>2
  <2>3. job'[p].op # "store"
    BY <2>1, IdleFacts
  <2>4. ASSUME NEW b \in Assocs
        PROVE  b \in BeingStored' <=> b \in BeingStored /\ b # a
    <3>1. ASSUME b \in BeingStored' PROVE b \in BeingStored /\ b # a
      <4>1. PICK q \in Proc : job'[q].op = "store" /\ b \in job'[q].found
        BY <3>1 DEF BeingStored
      <4>2. q # p /\ job'[q] = job[q]
        BY <2>1, <2>3, <4>1
      <4> QED BY <2>2, <4>1, <4>2 DEF BeingStored
    <3>2. ASSUME b \in BeingStored, b # a PROVE b \in BeingStored'
      <4>1. PICK q \in Proc : job[q].op = "store" /\ b \in job[q].found
        BY <3>2 DEF BeingStored
      <4>2. job'[q] = job[q]
        BY <1>1, <2>1, <3>2, <4>1
      <4> QED BY <4>1, <4>2 DEF BeingStored
    <3> QED BY <3>1, <3>2
  <2>5. a \in BeingStored
    BY <1>1 DEF BeingStored
  <2>6. BeingStored \subseteq Assocs /\ BeingStored' \subseteq Assocs
    BY DEF BeingStored
  <2> QED BY <2>4, <2>5, <2>6
<1>8. Promise!Store(a)
  BY <1>5, <1>6, <1>7 DEF Promise!Store
<1> QED BY <1>8 DEF Moves

LEMMA RemoveIsPromised ==
  ASSUME IInv, NEW w \in Proc, job[w].op = "remove", job[w].key \in Handles,
         Drop(job[w].key), NEW j \in Job, job' = [job EXCEPT ![w] = j],
         \/ j.op = "idle"
         \/ j.op = "remove" /\ j.key = job[w].key,
         UNCHANGED <<kind, now, until, issued>>
  PROVE  Moves
<1>0. PICK k \in Handles : k = job[w].key
  OBVIOUS
<1>1. job'[w] = j /\ \A q \in Proc : q # w => job'[q] = job[q]
  BY DEF IInv, TypeOK
<1>2. k \in Asked /\ Asked' \in SUBSET Asked
  BY <1>0, <1>1 DEF Asked
<1>3. entry \in [Keys -> Assocs \union {None}] /\ entry' = [entry EXCEPT ![k] = None]
  BY <1>0 DEF IInv, TypeOK, Drop
<1>4. \A h \in Handles : Fetch(h)' = IF h = k THEN None ELSE Fetch(h)
  BY <1>3 DEF Fetch, Keys
<1>5. Held' = [Held EXCEPT ![k] = None]
  BY <1>4 DEF Held
<1>6. BeingStored' = BeingStored
  <2>1. ASSUME NEW q \in Proc
        PROVE  \/ job'[q].op = job[q].op /\ job'[q].found = job[q].found
               \/ job'[q].op # "store" /\ job[q].op # "store"
    <3>1. CASE q = w
      <4>1. job'[w].op # "store"
        BY <1>1
      <4> QED BY <3>1, <4>1
    <3>2. CASE q # w
      BY <1>1, <3>2
    <3> QED BY <3>1, <3>2
  <2> QED BY <2>1, StoringSame
<1>7. Promise!Remove(k)
  BY <1>2, <1>5, <1>6 DEF Promise!Remove
<1> QED BY <1>7 DEF Moves

\* A file goes for an association of its name that has expired or is about
\* to be stored.
LEMMA UnlinkIsPromised ==
  ASSUME IInv, NEW p \in Proc, UnlinkOld(p) \/ UnlinkExpired(p)
  PROVE  Moves
<1>1. UNCHANGED <<kind, now, until, issued>> /\ kind = "file"
  BY DEF UnlinkOld, UnlinkExpired, At, IInv, JobOK, StoreOK, ReadOK
<1>2. PICK b \in Assocs, k \in Handles :
        /\ Drop(k) /\ Handle[b] = k /\ issued[b] # -1
        /\ b \in BeingStored \/ now >= issued[b] + Lifetime
  <2>1. CASE UnlinkOld(p)
    BY <2>1, Storing DEF UnlinkOld, At, BeingStored
  <2>2. CASE UnlinkExpired(p)
    BY <2>2 DEF UnlinkExpired, IInv, JobOK, ReadOK
  <2> QED BY <2>1, <2>2
<1>3. Asked' = Asked /\ BeingStored' = BeingStored
  <2>1. /\ \A q \in Proc : q # p => job'[q] = job[q]
        /\ job[p] \in Job /\ job'[p].op = job[p].op /\ job'[p].key = job[p].key
        /\ job'[p].found = job[p].found
    <3>1. job \in [Proc -> Job]
      BY DEF IInv, TypeOK
    <3>2. job[p] \in Job
      BY <3>1
    <3>3. \/ job' = [job EXCEPT ![p].step = "again"]
          \/ job' = [job EXCEPT ![p].step = "read", ![p].at = Bare]
      BY DEF UnlinkOld, UnlinkExpired, Goto
    <3>4. \A q \in Proc : q # p => job'[q] = job[q]
      BY <3>1, <3>3
    <3>5. job'[p].op = job[p].op /\ job'[p].key = job[p].key /\ job'[p].found = job[p].found
      <4>1. \/ job'[p] = [job[p] EXCEPT !.step = "again"]
            \/ job'[p] = [job[p] EXCEPT !.step = "read", !.at = Bare]
        BY <3>1, <3>3
      <4>2. ASSUME NEW j \in Job
            PROVE  /\ [j EXCEPT !.step = "again"].op = j.op
                   /\ [j EXCEPT !.step = "again"].key = j.key
                   /\ [j EXCEPT !.step = "again"].found = j.found
                   /\ [j EXCEPT !.step = "read", !.at = Bare].op = j.op
                   /\ [j EXCEPT !.step = "read", !.at = Bare].key = j.key
                   /\ [j EXCEPT !.step = "read", !.at = Bare].found = j.found
        BY DEF Job
      <4> QED BY <3>2, <4>1, <4>2
    <3> QED BY <3>2, <3>4, <3>5
  <2>2. Asked' = Asked
    BY <2>1, AskedSame
  <2>3. ASSUME NEW q \in Proc
        PROVE  job'[q].op = job[q].op /\ job'[q].found = job[q].found
    BY <2>1
  <2>4. BeingStored' = BeingStored
    BY <2>3, StoringSame
  <2> QED BY <2>2, <2>4
<1>4. entry \in [Keys -> Assocs \union {None}] /\ entry' = [entry EXCEPT ![k] = None]
  BY <1>2 DEF IInv, TypeOK, Drop
<1>5. \A h \in Handles : /\ Fetch(h) = entry[h]
                         /\ Fetch(h)' = IF h = k THEN None ELSE entry[h]
  BY <1>1, <1>4 DEF Fetch, Keys
<1> QED BY <1>1, <1>2, <1>3, <1>5, AsForget

LEMMA MemoryCleanupIsPromised ==
  ASSUME IInv, NEW p \in Proc, MemoryCleanup(p)
  PROVE  Moves
<1>1. /\ UNCHANGED <<kind, now, until, issued, job>> /\ kind = "memory"
      /\ entry' = [k \in Keys |->
           IF entry[k] # None /\ Expired(entry[k]) THEN None ELSE entry[k]]
  BY DEF MemoryCleanup
<1>2. \A h \in Handles : /\ Fetch(h) = entry[h]
                         /\ Fetch(h)' = IF entry[h] # None /\ now >= issued[entry[h]] + Lifetime
                                          THEN None ELSE entry[h]
  BY <1>1 DEF Fetch, Keys, Expired
<1>3. Asked' = Asked /\ BeingStored' = BeingStored
  BY <1>1 DEF Asked, BeingStored
<1>4. \A h \in Handles : entry[h] # None =>
        entry[h] \in Assocs /\ Handle[entry[h]] = h /\ issued[entry[h]] # -1
  BY DEF IInv, EntriesOK, TypeOK, Keys
<1> QED BY <1>1, <1>2, <1>3, <1>4, AsForget

LEMMA BeginStoreIsPromised ==
  ASSUME IInv, NEW p \in Proc, NEW a \in Assocs, BeginStore(p, a)
  PROVE  Moves
<1>1. /\ issued[a] = -1 /\ issued' = [issued EXCEPT ![a] = now]
      /\ UNCHANGED <<kind, now, entry, until>>
  BY DEF BeginStore
<1>2. Held' = Held
  BY <1>1 DEF Held, Fetch
<1>3. Asked' = Asked /\ BeingStored' = BeingStored \union {a}
  <2> DEFINE j == [Idle EXCEPT !.op = "store", !.step = "write", !.key = Handle[a], !.found = {a}]
  <2>0. j.op = "store" /\ j.found = {a} /\ Idle.op = "idle"
    BY DEF Idle
  <2>1. /\ \A q \in Proc : q # p => job'[q] = job[q]
        /\ job[p].op = "idle" /\ job'[p].op = "store" /\ job'[p].found = {a}
    <3>1. job' = [job EXCEPT ![p] = j] /\ job[p] = Idle
      BY DEF BeginStore
    <3> HIDE DEF j
    <3> QED BY <2>0, <3>1 DEF IInv, TypeOK
  <2> QED BY <2>1, AskedSame DEF BeingStored
<1>4. Promise!Make(a)
  BY <1>1, <1>2, <1>3 DEF Promise!Make
<1> QED BY <1>4 DEF Moves

LEMMA TickIsPromised ==
  ASSUME IInv, Tick
  PROVE  Moves
<1>1. /\ now' = now + 1 /\ job' = job /\ UNCHANGED <<kind, entry, until, issued>>
  BY DEF Tick
<1>2. /\ now \in Nat /\ until \in [Keys -> Nat] /\ issued \in [Assocs -> Int]
      /\ entry \in [Keys -> Assocs \union {None}] /\ Lifetime \in Nat
  BY AssociationsAssumption DEF IInv, TypeOK
<1>3. ASSUME NEW h \in Handles
      PROVE  \/ Fetch(h)' = Fetch(h)
             \/ /\ Fetch(h)' = None
                /\ \E b \in Assocs : Handle[b] = h /\ issued[b] # -1 /\ now' >= issued[b] + Lifetime
  <2>1. h \in Keys /\ until[h] \in Nat /\ (entry[h] # None => issued[entry[h]] \in Int)
    BY <1>2 DEF Keys
  <2>2. entry[h] # None =>
          /\ entry[h] \in Assocs /\ Handle[entry[h]] = h /\ issued[entry[h]] # -1
          /\ kind = "memcache" => until[h] >= issued[entry[h]] + Lifetime
    BY <1>2, <2>1 DEF IInv, EntriesOK
  <2>3. CASE Fetch(h)' # Fetch(h)
    <3>1. kind = "memcache" /\ entry[h] # None /\ Fetch(h)' = None /\ now' >= until[h]
      BY <1>1, <1>2, <2>1, <2>3 DEF Fetch
    <3>2. now' >= issued[entry[h]] + Lifetime
      BY <1>1, <1>2, <2>1, <2>2, <3>1
    <3> QED BY <2>2, <3>1, <3>2
  <2> QED BY <2>3
<1>4. \A h \in Handles : Held[h] = Fetch(h) /\ Held'[h] = Fetch(h)'
  BY DEF Held
<1>5. Promise!DropsOnly(now')
  BY <1>3, <1>4 DEF Promise!DropsOnly, Promise!MayDrop, Promise!Expired
<1>6. Asked' = Asked /\ BeingStored' = BeingStored
  BY <1>1 DEF Asked, BeingStored
<1>7. Promise!Tick
  BY <1>1, <1>5, <1>6 DEF Promise!Tick
<1> QED BY <1>7 DEF Moves

\* A call of store_association that waits, and every other call, take nothing
\* into the store.
LEMMA StepStoresLess ==
  ASSUME IInv, NEW p \in Proc, NEW j, job' = [job EXCEPT ![p] = j],
         j.op # "store" \/ (j.op = job[p].op /\ j.found = job[p].found)
  PROVE  BeingStored' \in SUBSET BeingStored
<1>1. job'[p] = j /\ \A q \in Proc : q # p => job'[q] = job[q]
  BY DEF IInv, TypeOK
<1> QED BY <1>1, StoringLess

LEMMA ReturnStoresLess ==
  ASSUME IInv, NEW p \in Proc, Return(p)
  PROVE  BeingStored' \in SUBSET BeingStored
BY IdleFacts, StepStoresLess DEF Return

LEMMA GotoStoresLess ==
  ASSUME IInv, NEW p \in Proc, NEW s \in {"exists", "again", "handle", "look", "last"}, Goto(p, s)
  PROVE  BeingStored' \in SUBSET BeingStored
<1> DEFINE j == [job[p] EXCEPT !.step = s]
<1>1. job \in [Proc -> Job] /\ job[p] \in Job
  BY DEF IInv, TypeOK
<1>2. j.op = job[p].op /\ j.found = job[p].found
  BY <1>1 DEF Job
<1>3. job' = [job EXCEPT ![p] = j]
  BY <1>1 DEF Goto
<1> HIDE DEF j
<1> QED BY <1>2, <1>3, StepStoresLess

LEMMA StartStoresLess ==
  ASSUME IInv, NEW p \in Proc, NEW op \in {"get", "remove", "cleanup"}, NEW step, NEW key, NEW list,
         NEW due, Start(p, op, step, key, list, due)
  PROVE  BeingStored' \in SUBSET BeingStored
<1> DEFINE j == [Idle EXCEPT !.op = op, !.step = step, !.key = key, !.list = list, !.due = due]
<1>1. j.op = op
  BY DEF Idle
<1>2. job' = [job EXCEPT ![p] = j]
  BY DEF Start
<1> HIDE DEF j
<1> QED BY <1>1, <1>2, StepStoresLess

LEMMA ReadStoresLess ==
  ASSUME IInv, NEW p \in Proc, NEW h \in Handles, Read(p, h)
  PROVE  BeingStored' \in SUBSET BeingStored
<1>1. job[p].step = "read" /\ job[p].op # "store" /\ job[p] \in Job
  BY DEF Read, IInv, TypeOK, JobOK, ReadOK
<1> DEFINE rest == [job[p] EXCEPT !.list = @ \ {h}]
           dead == [rest EXCEPT !.step = "unlink", !.at = h]
           more == [rest EXCEPT !.found = @ \union {entry[h]}]
<1>2. rest.op = job[p].op /\ dead.op = job[p].op /\ more.op = job[p].op
  BY <1>1 DEF Job
<1>3. \/ job' = [job EXCEPT ![p] = rest]
      \/ job' = [job EXCEPT ![p] = dead]
      \/ job' = [job EXCEPT ![p] = more]
  BY DEF Read
<1> HIDE DEF rest, dead, more
<1> QED BY <1>1, <1>2, <1>3, StepStoresLess

LEMMA NextIsPromised ==
  ASSUME IInv, Next
  PROVE  Moves
<1>1. CASE Tick
  BY <1>1, TickIsPromised
<1>2. ASSUME NEW p \in Proc, StoreStep(p) PROVE Moves
  <2>1. CASE Rename(p)
    <3>1. CASE renames \/ entry[job[p].key] = None
      BY <2>1, <3>1, StoreIsPromised DEF Rename, At
    <3>2. CASE ~(renames \/ entry[job[p].key] = None)
      BY <2>1, <3>2, GotoStoresLess, AsCall DEF Rename, Fetch
    <3> QED BY <3>1, <3>2
  <2>2. CASE RenameAgain(p)
    <3>1. CASE entry[job[p].key] = None
      BY <2>2, <3>1, StoreIsPromised DEF RenameAgain, At, IInv, JobOK, StoreOK
    <3>2. CASE entry[job[p].key] # None
      BY <2>2, <3>2, ReturnStoresLess, AsCall DEF RenameAgain, Fetch
    <3> QED BY <3>1, <3>2
  <2>3. CASE SetBare(p)
    <3>1. /\ UNCHANGED <<kind, now, issued>>
          /\ \E a \in Assocs : entry' = [entry EXCEPT ![Bare] = a]
          /\ until' = [until EXCEPT ![Bare] = now + Lifetime]
      BY <2>3, Storing DEF SetBare, Put, At
    <3>2. \A h \in Handles : entry'[h] = entry[h] /\ until'[h] = until[h]
      BY <3>1, AssociationsAssumption DEF IInv, TypeOK, Keys
    <3>3. BeingStored' \in SUBSET BeingStored
      BY <2>3, GotoStoresLess DEF SetBare
    <3> QED BY <3>1, <3>2, <3>3, AsCall DEF Fetch
  <2>4. CASE SetHandle(p)
    BY <2>4, StoreIsPromised DEF SetHandle, At, IInv, JobOK, StoreOK
  <2>5. CASE MemoryStore(p)
    BY <2>5, StoreIsPromised DEF MemoryStore, At
  <2> QED BY <1>2, <2>1, <2>2, <2>3, <2>4, <2>5, BeginStoreIsPromised, UnlinkIsPromised
          DEF StoreStep
<1>3. ASSUME NEW p \in Proc, GetStep(p) PROVE Moves
  <2>1. CASE UnlinkExpired(p)
    BY <2>1, UnlinkIsPromised
  <2>2. CASE ~UnlinkExpired(p)
    <3>1. UNCHANGED <<kind, now, entry, until, issued>>
      BY <1>3, <2>2 DEF GetStep, BeginGet, Read, FinishGet
    <3>2. BeingStored' \in SUBSET BeingStored
      BY <1>3, <2>2, StartStoresLess, ReadStoresLess, ReturnStoresLess
      DEF GetStep, BeginGet, FinishGet
    <3> QED BY <3>1, <3>2, AsCall DEF Fetch
  <2> QED BY <2>1, <2>2
<1>4. ASSUME NEW p \in Proc, RemoveStep(p) PROVE Moves
  <2>1. CASE RemoveEntry(p)
    <3>1. /\ job[p].op = "remove" /\ job[p].key \in Handles
          /\ UNCHANGED <<kind, now, until, issued>>
          /\ job' = [job EXCEPT ![p] = Idle]
      BY <2>1 DEF RemoveEntry, At, Removed, Return, IInv, JobOK, RemoveOK
    <3>2. CASE Drop(job[p].key)
      BY <3>1, <3>2, IdleFacts, RemoveIsPromised
    <3>3. CASE UNCHANGED entry
      BY <3>1, <3>3, IdleFacts, StepStoresLess, AsCall DEF Fetch
    <3> QED BY <2>1, <3>2, <3>3 DEF RemoveEntry
  <2>2. CASE DeleteHandle(p)
    <3>1. /\ job[p].op = "remove" /\ job[p].key \in Handles /\ Drop(job[p].key)
          /\ UNCHANGED <<kind, now, until, issued>>
      BY <2>2 DEF DeleteHandle, At, IInv, JobOK, RemoveOK
    <3>2. PICK j \in Job : /\ job' = [job EXCEPT ![p] = j] /\ job'[p] = j
                           /\ j.op = job[p].op /\ j.step = "look" /\ j.key = job[p].key
                           /\ j.list = job[p].list /\ j.found = job[p].found
                           /\ j.at = job[p].at /\ j.due = job[p].due
      BY <2>2, Moved DEF DeleteHandle, Goto
    <3> QED BY <3>1, <3>2, RemoveIsPromised
  <2>3. CASE DeleteLast(p)
    <3>1. /\ UNCHANGED <<kind, now, until, issued>>
          /\ entry' = [entry EXCEPT ![Bare] = None]
      BY <2>3 DEF DeleteLast, Drop
    <3>2. \A h \in Handles : entry'[h] = entry[h]
      BY <3>1, AssociationsAssumption DEF IInv, TypeOK, Keys
    <3>3. BeingStored' \in SUBSET BeingStored
      BY <2>3, ReturnStoresLess DEF DeleteLast, Removed
    <3> QED BY <3>1, <3>2, <3>3, AsCall DEF Fetch
  <2>4. CASE LookAtLast(p) \/ \E h \in Handles : BeginRemove(p, h)
    <3>1. UNCHANGED <<kind, now, entry, until, issued>>
      BY <2>4 DEF LookAtLast, BeginRemove
    <3>2. CASE LookAtLast(p)
      <4>1. BeingStored' \in SUBSET BeingStored
        BY <3>2, GotoStoresLess, ReturnStoresLess DEF LookAtLast, Removed
      <4> QED BY <3>1, <4>1, AsCall DEF Fetch
    <3>3. CASE \E h \in Handles : BeginRemove(p, h)
      <4>1. BeingStored' \in SUBSET BeingStored
        <5>1. PICK h \in Handles : BeginRemove(p, h)
          BY <3>3
        <5>2. PICK step, list, due : Start(p, "remove", step, h, list, due)
          BY <5>1, AssociationsAssumption DEF BeginRemove, IInv, TypeOK
        <5> QED BY <5>2, StartStoresLess
      <4> QED BY <3>1, <4>1, AsCall DEF Fetch
    <3> QED BY <2>4, <3>2, <3>3
  <2> QED BY <1>4, <2>1, <2>2, <2>3, <2>4 DEF RemoveStep
<1>5. ASSUME NEW p \in Proc, CleanupStep(p) \/ Crash(p) PROVE Moves
  <2>1. CASE MemoryCleanup(p)
    BY <2>1, MemoryCleanupIsPromised
  <2>2. CASE ~MemoryCleanup(p)
    <3>1. UNCHANGED <<kind, now, entry, until, issued>>
      BY <1>5, <2>2 DEF CleanupStep, BeginCleanup, CleanupDone, Crash
    <3>2. BeingStored' \in SUBSET BeingStored
      BY <1>5, <2>2, StartStoresLess, ReturnStoresLess
      DEF CleanupStep, BeginCleanup, CleanupDone, Crash
    <3> QED BY <3>1, <3>2, AsCall DEF Fetch
  <2> QED BY <2>1, <2>2
<1> QED BY <1>1, <1>2, <1>3, <1>4, <1>5 DEF Next

\* A store does not become another one.
LEMMA SameKind == ASSUME Next PROVE kind' = kind
<1>1. ASSUME Tick PROVE kind' = kind
  BY <1>1 DEF Tick
<1>2. ASSUME NEW p \in Proc, StoreStep(p) PROVE kind' = kind
  BY <1>2 DEF StoreStep, BeginStore, Rename, UnlinkOld, RenameAgain, SetBare, SetHandle,
     MemoryStore
<1>3. ASSUME NEW p \in Proc, GetStep(p) PROVE kind' = kind
  BY <1>3 DEF GetStep, BeginGet, Read, UnlinkExpired, FinishGet
<1>4. ASSUME NEW p \in Proc, RemoveStep(p) PROVE kind' = kind
  BY <1>4 DEF RemoveStep, BeginRemove, RemoveEntry, DeleteHandle, LookAtLast, DeleteLast
<1>5. ASSUME NEW p \in Proc, CleanupStep(p) \/ Crash(p) PROVE kind' = kind
  BY <1>5 DEF CleanupStep, BeginCleanup, CleanupDone, MemoryCleanup, Crash
<1> QED BY <1>1, <1>2, <1>3, <1>4, <1>5 DEF Next

\* Each of the three stores, with processes that die and a clock that runs,
\* does only what store/interface.rb allows it to do, but that only the file
\* store hides an association that has expired.
THEOREM AssociationsImplement == Spec => ImplementsAssocStore
<1>1. Init => Promise!Init
  <2> SUFFICES ASSUME Init PROVE Promise!Init
    OBVIOUS
  <2>1. Held = [h \in Handles |-> None]
    BY DEF Init, Held, Fetch, Keys
  <2>2. Asked = {} /\ BeingStored = {}
    BY IdleFacts DEF Init, Asked, BeingStored
  <2>3. Given = Held
    BY <2>1, GivenRight DEF Promise!Answers
  <2> QED BY <2>1, <2>2, <2>3 DEF Init, Promise!Init
<1>2. IInv /\ [Next]_vars => [Promise!Next]_Promise!vars
  <2>1. ASSUME UNCHANGED vars PROVE UNCHANGED Promise!vars
    <3>1. Held' = Held /\ Asked' = Asked /\ BeingStored' = BeingStored
      BY <2>1 DEF vars, Held, Fetch, Asked, BeingStored
    <3>2. Given' = Given
      BY <2>1 DEF vars, Given, Look, Fetch, Expired
    <3> QED BY <2>1, <3>1, <3>2 DEF vars, Promise!vars
  <2>2. ASSUME IInv, Next PROVE Promise!Next
    <3>1. Moves /\ kind' = kind /\ Given' = Promise!Answers'
      BY <2>2, NextIsPromised, SameKind, GivenRight
    <3> QED BY <3>1 DEF Moves, Promise!Next
  <2> QED BY <2>1, <2>2
<1> QED BY <1>1, <1>2, Inductive, PTL DEF Spec, ImplementsAssocStore, Promise!Spec
=============================================================================
