---------------------------- MODULE Associations ----------------------------
(***************************************************************************)
(* The association half of the three stores, for one server URL.           *)
(*                                                                         *)
(*   file      an association is a file named after URL and handle, put    *)
(*             there by renaming a temporary file; get_association without *)
(*             a handle lists the directory, reads one file after the      *)
(*             other and unlinks those that have expired                   *)
(*   memcache  an association is set under the URL alone (Bare) and then   *)
(*             under URL and handle; remove_association deletes the one,   *)
(*             looks at the other and deletes it if it has the handle      *)
(*   memory    a hash in one process, every call a single step             *)
(*                                                                         *)
(* Processes of one site share the store; each call of the file system or  *)
(* of memcached is one action, and a process may be killed between two.    *)
(* Reading a file and asking whether it has expired is one step.  A file   *)
(* gets its name when it has been written and synced, so there is none     *)
(* that does not deserialise: the branch that unlinks such a file is for   *)
(* damage from outside, and left out.  A get_association of memcache or    *)
(* memory is one look at the store that leaves nothing behind: Look says   *)
(* what it finds.  seen, through, stored, gone, last and excused are       *)
(* history.                                                                *)
(*                                                                         *)
(* Bounds: MaxTime stops the clock, and an association is stored once.     *)
(***************************************************************************)
EXTENDS Integers

CONSTANTS
  Proc, Assocs, Handles,
  Handle,    \* Handle[a]: the handle of association a
  Bare,      \* the memcache key without a handle, and "no handle" in a call
  None,
  Lifetime,  \* seconds from issued to expiry
  MaxTime,
  Kinds      \* the kinds of store: a subset of {"file", "memcache", "memory"}

ASSUME AssociationsAssumption ==
  /\ Handle \in [Assocs -> Handles]
  /\ Bare \notin Handles
  /\ None \notin Assocs
  /\ Lifetime \in Nat \ {0}
  /\ MaxTime \in Nat
  /\ Kinds \subseteq {"file", "memcache", "memory"}

VARIABLES
  kind,
  renames,   \* whether rename replaces a file (else it raises EEXIST)
  now,       \* Time.now.to_i
  entry,     \* entry[k]: what is stored under a handle, or under Bare
  until,     \* until[k]: when memcached drops that entry
  issued,    \* issued[a]: when a was made, -1 before that
  job,       \* job[p]: the call p is in
  seen,      \* seen[p]: what p's get_association could have seen so far
  through,   \* through[p]: what was there to see all through that call
  stored,    \* the associations whose store_association has returned
  gone,      \* stored before a remove_association of their handle that returned
  last,      \* memcache: the association last set under Bare
  excused    \* memcache: whether a remove_association may have dropped it

vars == <<kind, renames, now, entry, until, issued, job,
          seen, through, stored, gone, last, excused>>

Keys == Handles \union {Bare}

\* op, step: where the call is; key: what it asks for; list: the files still
\* to be read; found: what was read, or is to be stored; at: the file to be
\* unlinked; due: what a removal has to get rid of.
Idle == [op |-> "idle", step |-> "", key |-> Bare, list |-> {},
         found |-> {}, at |-> Bare, due |-> {}]

Job == [op : {"idle", "store", "get", "remove", "cleanup"},
        step : {"", "write", "exists", "again", "handle", "read", "unlink",
                "delete", "look", "last"},
        key : Keys, list : SUBSET Handles, found : SUBSET Assocs,
        at : Keys, due : SUBSET Assocs]

TypeOK ==
  /\ kind \in Kinds
  /\ renames \in BOOLEAN
  /\ now \in 0..MaxTime
  /\ entry \in [Keys -> Assocs \union {None}]
  /\ until \in [Keys -> Nat]
  /\ issued \in [Assocs -> Int]
  /\ job \in [Proc -> Job]
  /\ seen \in [Proc -> SUBSET Assocs]
  /\ through \in [Proc -> SUBSET Assocs]
  /\ stored \in SUBSET Assocs
  /\ gone \in SUBSET Assocs
  /\ last \in Assocs \union {None}
  /\ excused \in BOOLEAN

\* expires_in == 0.
Expired(a) == now >= issued[a] + Lifetime

\* What memcached answers for a key; the other stores keep what they have.
Fetch(k) == IF kind = "memcache" /\ now >= until[k] THEN None ELSE entry[k]

\* The associations get_association chooses from if it looks at everything
\* in this moment.  Only the file store asks whether one has expired.
Look(k) ==
  LET keys == IF k = Bare /\ kind # "memcache" THEN Handles ELSE {k}
      good(a) == a # None /\ (kind = "file" => ~Expired(a))
  IN  {a \in {Fetch(i) : i \in keys} : good(a)}

\* Mutant: the sort is the wrong way round.
Oldest(assocs) == {a \in assocs : \A b \in assocs : issued[b] >= issued[a]}

\* assocs.sort_by(&:issued)[-1]; which one, if two are equally new, is open.
Newest(assocs) == {a \in assocs : \A b \in assocs : issued[b] <= issued[a]}

Init ==
  /\ kind \in Kinds
  /\ renames \in BOOLEAN
  /\ kind # "file" => renames
  /\ now = 0
  /\ entry = [k \in Keys |-> None]
  /\ until = [k \in Keys |-> 0]
  /\ issued = [a \in Assocs |-> -1]
  /\ job = [p \in Proc |-> Idle]
  /\ seen = [p \in Proc |-> {}]
  /\ through = [p \in Proc |-> {}]
  /\ stored = {}
  /\ gone = {}
  /\ last = None
  /\ excused = FALSE

-----------------------------------------------------------------------------
\* The window of a get_association that reads files.
Watch ==
  /\ seen' = [p \in Proc |->
       IF job'[p].op = "get" THEN seen[p] \union Look(job[p].key)' ELSE {}]
  /\ through' = [p \in Proc |->
       CASE job'[p].op # "get" -> {}
         [] job[p].op # "get" -> Look(job[p].key)'
         [] OTHER -> through[p] \intersect Look(job[p].key)']

Start(p, op, step, key, list, due) ==
  /\ job[p] = Idle
  /\ job' = [job EXCEPT ![p] = [Idle EXCEPT !.op = op, !.step = step, !.key = key,
                                            !.list = list, !.due = due]]

At(p, op, step) == job[p].op = op /\ job[p].step = step

Goto(p, step) == job' = [job EXCEPT ![p].step = step]

Return(p) == job' = [job EXCEPT ![p] = Idle]

Put(k, a) == entry' = [entry EXCEPT ![k] = a]

Drop(k) == entry' = [entry EXCEPT ![k] = None]

Files == {h \in Handles : entry[h] # None}

(***************************************************************************)
(* store_association.  The temporary file of the file store is seen by no  *)
(* other call, so writing it is part of the first step.                    *)
(***************************************************************************)
BeginStore(p, a) ==
  /\ job[p] = Idle
  /\ issued[a] = -1
  /\ issued' = [issued EXCEPT ![a] = now]
  /\ job' = [job EXCEPT ![p] = [Idle EXCEPT !.op = "store", !.step = "write",
                                            !.key = Handle[a], !.found = {a}]]
  /\ UNCHANGED <<kind, renames, now, entry, until, stored, gone, last, excused>>

\* File.rename(tmp, filename), or EEXIST where it does not replace a file.
Rename(p) ==
  /\ kind = "file"
  /\ At(p, "store", "write")
  /\ IF renames \/ entry[job[p].key] = None
       THEN /\ \A a \in job[p].found : Put(job[p].key, a)
            /\ stored' = stored \union job[p].found
            /\ Return(p)
       ELSE Goto(p, "exists") /\ UNCHANGED <<entry, stored>>
  /\ UNCHANGED <<kind, renames, now, until, issued, gone, last, excused>>

UnlinkOld(p) ==
  /\ At(p, "store", "exists")
  /\ Drop(job[p].key)
  /\ Goto(p, "again")
  /\ UNCHANGED <<kind, renames, now, until, issued, stored, gone, last, excused>>

\* The second rename; should it fail, too, store_association raises.
RenameAgain(p) ==
  /\ At(p, "store", "again")
  /\ IF entry[job[p].key] = None
       THEN /\ \A a \in job[p].found : Put(job[p].key, a)
            /\ stored' = stored \union job[p].found
       ELSE UNCHANGED <<entry, stored>>
  /\ Return(p)
  /\ UNCHANGED <<kind, renames, now, until, issued, gone, last, excused>>

\* memcache: cache_client.set for the handle nil.
SetBare(p) ==
  /\ kind = "memcache"
  /\ At(p, "store", "write")
  /\ \A a \in job[p].found : Put(Bare, a) /\ last' = a
  /\ until' = [until EXCEPT ![Bare] = now + Lifetime]
  /\ excused' = \E q \in Proc : /\ job[q].op = "remove"
                                /\ job[q].key = job[p].key \/ job[q].step = "last"
  /\ Goto(p, "handle")
  /\ UNCHANGED <<kind, renames, now, issued, stored, gone>>

\* Mutant: the lifetime is given for the expiry.
SetHandleLifetime(p) ==
  /\ At(p, "store", "handle")
  /\ \A a \in job[p].found : Put(job[p].key, a)
  /\ until' = [until EXCEPT ![job[p].key] = Lifetime]
  /\ stored' = stored \union job[p].found
  /\ Return(p)
  /\ UNCHANGED <<kind, renames, now, issued, gone, last, excused>>

SetHandle(p) ==
  /\ At(p, "store", "handle")
  /\ \A a \in job[p].found : Put(job[p].key, a)
  /\ until' = [until EXCEPT ![job[p].key] = now + Lifetime]
  /\ stored' = stored \union job[p].found
  /\ Return(p)
  /\ UNCHANGED <<kind, renames, now, issued, gone, last, excused>>

MemoryStore(p) ==
  /\ kind = "memory"
  /\ At(p, "store", "write")
  /\ \A a \in job[p].found : Put(job[p].key, a)
  /\ stored' = stored \union job[p].found
  /\ Return(p)
  /\ UNCHANGED <<kind, renames, now, until, issued, gone, last, excused>>

(***************************************************************************)
(* get_association, with a handle or without (k = Bare).                   *)
(***************************************************************************)
BeginGet(p, k) ==
  /\ kind = "file"
  /\ Start(p, "get", "read", k, IF k = Bare THEN Files ELSE {k}, {})
  /\ UNCHANGED <<kind, renames, now, entry, until, issued, stored, gone, last, excused>>

\* Mutant: an expired association is as good as any.
ReadAnyAge(p, h) ==
  /\ job[p].step = "read"
  /\ h \in job[p].list
  /\ job' = [job EXCEPT ![p].list = @ \ {h},
                        ![p].found = @ \union ({entry[h]} \ {None})]
  /\ UNCHANGED <<kind, renames, now, entry, until, issued, stored, gone, last, excused>>

\* file: open, read and judge one file, for whichever call reads files.
Read(p, h) ==
  /\ job[p].step = "read"
  /\ h \in job[p].list
  /\ LET rest == [job[p] EXCEPT !.list = @ \ {h}]
     IN  job' = [job EXCEPT ![p] =
           CASE entry[h] = None -> rest
             [] entry[h] # None /\ Expired(entry[h]) ->
                  [rest EXCEPT !.step = "unlink", !.at = h]
             [] entry[h] # None /\ ~Expired(entry[h]) ->
                  IF job[p].op = "cleanup" THEN rest
                  ELSE [rest EXCEPT !.found = @ \union {entry[h]}]]
  /\ UNCHANGED <<kind, renames, now, entry, until, issued, stored, gone, last, excused>>

\* remove_if_present of the file that held an expired association when read.
UnlinkExpired(p) ==
  /\ job[p].step = "unlink"
  /\ Drop(job[p].at)
  /\ job' = [job EXCEPT ![p].step = "read", ![p].at = Bare]
  /\ UNCHANGED <<kind, renames, now, until, issued, stored, gone, last, excused>>

\* Every file is read, and the newest association, or nil, goes to the caller.
Answering(p) == At(p, "get", "read") /\ job[p].list = {}

FinishGet(p) ==
  /\ Answering(p)
  /\ Return(p)
  /\ UNCHANGED <<kind, renames, now, entry, until, issued, stored, gone, last, excused>>

(***************************************************************************)
(* remove_association.                                                     *)
(***************************************************************************)
BeginRemove(p, h) ==
  /\ LET due == {a \in stored : Handle[a] = h}
     IN  CASE kind = "file" -> Start(p, "remove", "read", h, {h}, due)
           [] kind = "memcache" -> Start(p, "remove", "delete", h, {}, due)
           [] kind = "memory" -> Start(p, "remove", "read", h, {}, due)
  /\ excused' = (excused \/ (last # None /\ Handle[last] = h))
  /\ UNCHANGED <<kind, renames, now, entry, until, issued, stored, gone, last>>

Removed(p) ==
  /\ gone' = gone \union job[p].due
  /\ Return(p)

\* file: nothing to remove, or remove_if_present; memory: assocs.delete.
RemoveEntry(p) ==
  /\ At(p, "remove", "read")
  /\ job[p].list = {}
  /\ IF kind = "file" /\ job[p].found = {} THEN UNCHANGED entry ELSE Drop(job[p].key)
  /\ Removed(p)
  /\ UNCHANGED <<kind, renames, now, until, issued, stored, last, excused>>

\* memcache: delete, then look at the last association, then delete that.
DeleteHandle(p) ==
  /\ At(p, "remove", "delete")
  /\ Drop(job[p].key)
  /\ Goto(p, "look")
  /\ UNCHANGED <<kind, renames, now, until, issued, stored, gone, last, excused>>

\* Mutants: the last association is left alone, or deleted whatever its handle.
LookAtLastNever(p) ==
  /\ At(p, "remove", "look")
  /\ Removed(p)
  /\ UNCHANGED <<kind, renames, now, entry, until, issued, stored, last, excused>>

LookAtLastAny(p) ==
  /\ At(p, "remove", "look")
  /\ IF Fetch(Bare) # None THEN Goto(p, "last") /\ UNCHANGED gone ELSE Removed(p)
  /\ UNCHANGED <<kind, renames, now, entry, until, issued, stored, last, excused>>

LookAtLast(p) ==
  /\ At(p, "remove", "look")
  /\ IF Fetch(Bare) # None /\ Handle[Fetch(Bare)] = job[p].key
       THEN Goto(p, "last") /\ UNCHANGED gone
       ELSE Removed(p)
  /\ UNCHANGED <<kind, renames, now, entry, until, issued, stored, last, excused>>

DeleteLast(p) ==
  /\ At(p, "remove", "last")
  /\ Drop(Bare)
  /\ Removed(p)
  /\ UNCHANGED <<kind, renames, now, until, issued, stored, last, excused>>

(***************************************************************************)
(* cleanup_associations; memcache has nothing to do.                       *)
(***************************************************************************)
BeginCleanup(p) ==
  /\ kind = "file"
  /\ Start(p, "cleanup", "read", Bare, Files, {})
  /\ UNCHANGED <<kind, renames, now, entry, until, issued, stored, gone, last, excused>>

CleanupDone(p) ==
  /\ At(p, "cleanup", "read")
  /\ job[p].list = {}
  /\ Return(p)
  /\ UNCHANGED <<kind, renames, now, entry, until, issued, stored, gone, last, excused>>

MemoryCleanup(p) ==
  /\ kind = "memory"
  /\ job[p] = Idle
  /\ entry' = [k \in Keys |->
       IF entry[k] # None /\ Expired(entry[k]) THEN None ELSE entry[k]]
  /\ UNCHANGED <<kind, renames, now, until, issued, job, stored, gone, last, excused>>

(***************************************************************************)
(* The environment.  A call also ends here when a file cannot be written   *)
(* or renamed, or the cache is unreachable.  The memory store is left out: *)
(* it goes with its process.                                               *)
(***************************************************************************)
Crash(p) ==
  /\ kind # "memory"
  /\ job[p] # Idle
  /\ Return(p)
  /\ UNCHANGED <<kind, renames, now, entry, until, issued, stored, gone, last, excused>>

Tick ==
  /\ now < MaxTime
  /\ now' = now + 1
  /\ UNCHANGED <<kind, renames, entry, until, issued, job, stored, gone, last, excused>>

StoreStep(p) ==
  \/ \E a \in Assocs : BeginStore(p, a)
  \/ Rename(p) \/ UnlinkOld(p) \/ RenameAgain(p)
  \/ SetBare(p) \/ SetHandle(p)
  \/ MemoryStore(p)

GetStep(p) ==
  \/ \E k \in Keys : BeginGet(p, k)
  \/ \E h \in Handles : Read(p, h)
  \/ UnlinkExpired(p)
  \/ FinishGet(p)

RemoveStep(p) ==
  \/ \E h \in Handles : BeginRemove(p, h)
  \/ RemoveEntry(p)
  \/ DeleteHandle(p) \/ LookAtLast(p) \/ DeleteLast(p)

CleanupStep(p) == BeginCleanup(p) \/ CleanupDone(p) \/ MemoryCleanup(p)

Next ==
  /\ \/ Tick
     \/ \E p \in Proc :
          StoreStep(p) \/ GetStep(p) \/ RemoveStep(p) \/ CleanupStep(p) \/ Crash(p)
  /\ Watch

Spec == Init /\ [][Next]_vars

-----------------------------------------------------------------------------
\* What get_association answers was in the store at some moment of the call,
\* and nil is answered only if nothing was there to find all through it: no
\* stored association is missed because other processes write and clean up.
HonestAnswer ==
  \A p \in Proc : Answering(p) =>
    /\ Newest(job[p].found) \subseteq seen[p]
    /\ job[p].found = {} => through[p] = {}

\* get_association without a handle returns the newest one: none that was
\* in the store all through the call is newer.
NewestReturned ==
  \A p \in Proc : Answering(p) =>
    \A a \in Newest(job[p].found), b \in through[p] : issued[b] <= issued[a]

\* Once remove_association has returned, no call finds an association that
\* was stored before it, under either key.
RemovedGone == \A k \in Keys : Fetch(k) \notin gone

\* memcache: the association stored last stays the one get_association(url)
\* finds until memcached drops it, unless it is removed, or another removal
\* that had looked before it was stored deletes it unseen.
LastOffered ==
  last # None /\ ~excused /\ now < until[Bare] => entry[Bare] = last

\* What the state of the stores is to the interface: what the keys with a
\* handle hold, what a get_association of a handle answers, and the calls
\* that are under way.
Held == [h \in Handles |-> Fetch(h)]
Given == [h \in Handles |-> IF Look(h) = {} THEN None ELSE CHOOSE a \in Look(h) : TRUE]
BeingStored == {a \in Assocs : \E p \in Proc : job[p].op = "store" /\ a \in job[p].found}
Asked == {h \in Handles : \E p \in Proc : job[p].op = "remove" /\ job[p].key = h}

\* The three stores keep the promise of the interface, except that only the
\* file store hides what has expired: the memory store does not look, and
\* memcached drops an entry a lifetime after it was stored, which is later.
Promise == INSTANCE AssocStore
  WITH held <- Held, given <- Given, storing <- BeingStored, asked <- Asked,
       hides <- kind = "file"
ImplementsAssocStore == Promise!Spec
=============================================================================
