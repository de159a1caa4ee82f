----------------------------- MODULE Multipart -----------------------------
(***************************************************************************)
(* The cleanup of incomplete multipart uploads (multipart.py) as the CLI   *)
(* (cmd_multipart) and the UI's worker (step_multipart) run it, beside the *)
(* clients whose uploads they are: find the uploads that are old enough,   *)
(* then abort them one by one.  The CLI asks for the bucket lock in        *)
(* between, the UI before both; the lock is RunLock's promise: an acquire  *)
(* is one step, and a run that ends gives it back.                         *)
(*                                                                         *)
(* Uploads are numbers in listing order, which is by key; two of them may  *)
(* be for one key.  Stores differ in what they answer to the abort of an   *)
(* upload that is no longer there: S3 refuses it (NoSuchUpload, assumed of *)
(* the service), MemoryAdapter does nothing (memory.py:100-105).  Both are *)
(* modelled; `strict' says which of them this store is.                    *)
(***************************************************************************)
EXTENDS Integers, FiniteSets

CONSTANTS
    Uploads,   \* upload ids
    KeyOf,     \* upload -> the key it is for
    Undated,   \* uploads whose listing carries no `Initiated'
    Cleaners,  \* runs of the clean
    MaxAge,    \* bound on older_than
    MaxTime    \* bound on time

ASSUME UploadsAssumption == Uploads \subseteq Nat /\ IsFiniteSet(Uploads)
ASSUME UndatedAssumption == Undated \subseteq Uploads
ASSUME BoundsAssumption  == MaxAge \in Nat /\ MaxTime \in Nat

AnyAge == -1     \* older_than is None

VARIABLES
    upload,    \* upload -> none, open, completed, aborted
    began,     \* upload -> when its client initiated it
    now,
    strict,    \* does the store refuse to abort an upload that is not there?
    run,       \* cleaner -> see Run
    lock,      \* the cleaner that holds the bucket lock, as a set of at most one
    there,     \* history: cleaner -> the uploads open when it began to list
    by         \* history: upload -> the cleaner that aborted it, as such a set

vars == <<upload, began, now, strict, run, lock, there, by>>
history == <<there, by>>

(* pc      - idle, listing, found (the CLI has its list, not yet the lock), *)
(*           aborting, done, dry, refused, failed                          *)
(* via     - cli or ui; apply - not a dry run                              *)
(* older   - older_than; start - the `now' its cutoff is counted from      *)
(* ahead   - uploads the listing has not come to; found - to be aborted    *)
(* count   - aborts issued                                                 *)
Pcs == {"idle", "listing", "found", "aborting", "done", "dry", "refused", "failed"}
Run == [pc : Pcs, via : {"cli", "ui"}, apply : BOOLEAN,
        older : {AnyAge} \cup 0..MaxAge, start : 0..MaxTime,
        ahead : SUBSET Uploads, found : SUBSET Uploads, count : 0..Cardinality(Uploads)]

Set(c, new) == run' = [run EXCEPT ![c] = new]

Init == /\ now = 0 /\ lock = {} /\ strict \in BOOLEAN
        /\ upload = [u \in Uploads |-> "none"]
        /\ began = [u \in Uploads |-> 0]
        /\ run = [c \in Cleaners |->
                     [pc |-> "idle", via |-> "cli", apply |-> FALSE, older |-> AnyAge,
                      start |-> 0, ahead |-> {}, found |-> {}, count |-> 0]]
        /\ there = [c \in Cleaners |-> {}]
        /\ by = [u \in Uploads |-> {}]

-----------------------------------------------------------------------------
(* find_incomplete_uploads *)

Open == {u \in Uploads : upload[u] = "open"}

Start(c) ==
    /\ run[c].pc = "idle"
    /\ \E via \in {"cli", "ui"}, apply \in BOOLEAN, older \in {AnyAge} \cup 0..MaxAge :
          /\ IF via = "cli" THEN UNCHANGED lock ELSE lock = {} /\ lock' = {c}
          /\ Set(c, [run[c] EXCEPT !.pc = "listing", !.via = via, !.apply = apply,
                       !.older = older, !.start = now, !.ahead = Uploads])
    /\ there' = [there EXCEPT ![c] = Open]
    /\ UNCHANGED <<upload, began, now, strict, by>>

(* Mutant of OldEnough: one initiated exactly at the cutoff is too young. *)
OldEnoughStrictly(c, u) ==
    run[c].older = AnyAge \/ (u \notin Undated /\ began[u] < run[c].start - run[c].older)

(* Without a cutoff every upload; else one known to be initiated by then. *)
OldEnough(c, u) ==
    run[c].older = AnyAge \/ (u \notin Undated /\ began[u] <= run[c].start - run[c].older)

(* The listing comes to the next upload id, which may be open or not. *)
ListNext(c, u) ==
    /\ run[c].pc = "listing" /\ u \in run[c].ahead
    /\ \A v \in run[c].ahead : u <= v
    /\ Set(c, [run[c] EXCEPT !.ahead = @ \ {u},
                 !.found = IF u \in Open /\ OldEnough(c, u) THEN @ \cup {u} ELSE @])
    /\ UNCHANGED <<upload, began, now, strict, lock, history>>

Listed(c) == run[c].pc = "listing" /\ run[c].ahead = {}

(* Nothing found, or a dry run: the UI's worker gives the lock back. *)
Return(c) ==
    /\ Listed(c) /\ (run[c].found = {} \/ ~run[c].apply)
    /\ Set(c, [run[c] EXCEPT !.pc = IF run[c].found = {} THEN "done" ELSE "dry"])
    /\ lock' = lock \ {c}
    /\ UNCHANGED <<upload, began, now, strict, history>>

Proceed(c) ==
    /\ Listed(c) /\ run[c].found # {} /\ run[c].apply
    /\ Set(c, [run[c] EXCEPT !.pc = IF run[c].via = "cli" THEN "found" ELSE "aborting"])
    /\ UNCHANGED <<upload, began, now, strict, lock, history>>

(* Mutant of TakeLock: the answer of acquire is ignored. *)
TakeLockUnchecked(c) ==
    /\ run[c].pc = "found"
    /\ lock' = lock \cup {c}
    /\ Set(c, [run[c] EXCEPT !.pc = "aborting"])
    /\ UNCHANGED <<upload, began, now, strict, history>>

TakeLock(c) ==
    /\ run[c].pc = "found"
    /\ lock = {} /\ lock' = {c}
    /\ Set(c, [run[c] EXCEPT !.pc = "aborting"])
    /\ UNCHANGED <<upload, began, now, strict, history>>

(* A busy bucket: LockError, or the UI's "Busy". *)
Refuse(c) ==
    /\ run[c].pc \in {"idle", "found"}
    /\ lock # {}
    /\ Set(c, [run[c] EXCEPT !.pc = "refused"])
    /\ UNCHANGED <<upload, began, now, strict, lock, history>>

-----------------------------------------------------------------------------
(* abort_uploads *)

Turn(c, u) == /\ run[c].pc = "aborting" /\ u \in run[c].found
               /\ \A v \in run[c].found : u <= v

(* Mutant of Abort: the id is not passed on, all uploads for the key go. *)
AbortKey(c, u) ==
    /\ Turn(c, u) /\ upload[u] = "open"
    /\ LET gone == {v \in Open : KeyOf[v] = KeyOf[u]}
       IN /\ upload' = [v \in Uploads |-> IF v \in gone THEN "aborted" ELSE upload[v]]
          /\ by' = [v \in Uploads |-> IF v \in gone THEN {c} ELSE by[v]]
    /\ Set(c, [run[c] EXCEPT !.found = @ \ {u}, !.count = @ + 1])
    /\ UNCHANGED <<began, now, strict, lock, there>>

Abort(c, u) ==
    /\ Turn(c, u) /\ upload[u] = "open"
    /\ upload' = [upload EXCEPT ![u] = "aborted"]
    /\ by' = [by EXCEPT ![u] = {c}]
    /\ Set(c, [run[c] EXCEPT !.found = @ \ {u}, !.count = @ + 1])
    /\ UNCHANGED <<began, now, strict, lock, there>>

(* Mutant of AbortRaises: the missing upload is counted and passed over. *)
AbortCounts(c, u) ==
    /\ Turn(c, u) /\ upload[u] # "open" /\ strict
    /\ Set(c, [run[c] EXCEPT !.found = @ \ {u}, !.count = @ + 1])
    /\ UNCHANGED <<upload, began, now, strict, lock, history>>

(* The upload was completed or aborted since it was listed.  A store that  *)
(* refuses ends the loop, and the uploads behind it stay ...               *)
AbortRaises(c, u) ==
    /\ Turn(c, u) /\ upload[u] # "open" /\ strict
    /\ Set(c, [run[c] EXCEPT !.pc = "failed"])
    /\ lock' = lock \ {c}
    /\ UNCHANGED <<upload, began, now, strict, history>>

(* ... and one that does not lets it be counted like any other. *)
AbortPasses(c, u) ==
    /\ Turn(c, u) /\ upload[u] # "open" /\ ~strict
    /\ Set(c, [run[c] EXCEPT !.found = @ \ {u}, !.count = @ + 1])
    /\ UNCHANGED <<upload, began, now, strict, lock, history>>

Finish(c) ==
    /\ run[c].pc = "aborting" /\ run[c].found = {}
    /\ Set(c, [run[c] EXCEPT !.pc = "done"])
    /\ lock' = lock \ {c}
    /\ UNCHANGED <<upload, began, now, strict, history>>

-----------------------------------------------------------------------------
(* The clients, who know no lock, and time. *)

Begin(u) == /\ upload[u] = "none"
            /\ upload' = [upload EXCEPT ![u] = "open"]
            /\ began' = [began EXCEPT ![u] = now]
            /\ UNCHANGED <<now, strict, run, lock, history>>

(* The client completes its upload, or aborts it itself. *)
End(u) == /\ upload[u] = "open"
          /\ \E s \in {"completed", "aborted"} : upload' = [upload EXCEPT ![u] = s]
          /\ UNCHANGED <<began, now, strict, run, lock, history>>

Tick == /\ now < MaxTime
        /\ now' = now + 1
        /\ UNCHANGED <<upload, began, strict, run, lock, history>>

Clean(c) == \/ Start(c) \/ Return(c) \/ Proceed(c) \/ TakeLock(c) \/ Refuse(c) \/ Finish(c)
            \/ \E u \in Uploads : \/ ListNext(c, u) \/ Abort(c, u)
                                \/ AbortRaises(c, u) \/ AbortPasses(c, u)

Next == \/ \E c \in Cleaners : Clean(c)
        \/ \E u \in Uploads : Begin(u) \/ End(u)
        \/ Tick

Spec == Init /\ [][Next]_vars

-----------------------------------------------------------------------------
TypeOK == /\ upload \in [Uploads -> {"none", "open", "completed", "aborted"}]
          /\ began \in [Uploads -> 0..MaxTime]
          /\ now \in 0..MaxTime /\ strict \in BOOLEAN
          /\ run \in [Cleaners -> Run]
          /\ lock \in SUBSET Cleaners /\ Cardinality(lock) <= 1
          /\ there \in [Cleaners -> SUBSET Uploads]
          /\ by \in [Uploads -> SUBSET Cleaners]

(* A run aborts only uploads that it can prove to be old enough, and only  *)
(* when it was asked to (multipart.py:42-46, cli.py:288-293): never a young*)
(* upload for the same key, nor one of unknown age.                        *)
OnlyOldOnesGo ==
    \A u \in Uploads, c \in Cleaners : c \in by[u] =>
        /\ run[c].apply
        /\ run[c].older # AnyAge =>
              u \notin Undated /\ began[u] + run[c].older <= run[c].start

(* A run that ends well has left none of the old uploads it found open,    *)
(* also when another run was at it at the same time (multipart.py:40-46).  *)
OldOnesAreGone ==
    \A c \in Cleaners : run[c].pc = "done" /\ run[c].apply =>
        \A u \in there[c] \cap Open :
            run[c].older # AnyAge /\ (u \in Undated \/ began[u] + run[c].older > run[c].start)

(* The count is of aborts issued (multipart.py:75), each for one upload:   *)
(* never fewer than the uploads this run aborted, never more than there are*)
(* old uploads that have ended.  Where the store refuses an abort in vain  *)
(* it is the former exactly: of two runs that both listed an upload before *)
(* the lock only one counts it, and none counts one its client has ended.  *)
(* Where it does not refuse, both count it.                                *)
Mine(c)  == {u \in Uploads : c \in by[u]}
Ended(c) == {u \in Uploads : upload[u] \in {"completed", "aborted"} /\ OldEnough(c, u)}
CountsAreTrue ==
    \A c \in Cleaners :
        /\ Cardinality(Mine(c)) <= run[c].count
        /\ run[c].count <= Cardinality(Ended(c))
        /\ strict => run[c].count = Cardinality(Mine(c))
=============================================================================
