----------------------------- MODULE BucketLock -----------------------------
(***************************************************************************)
(* The TTL'd, token-fenced lock object in the bucket (lock.py), one        *)
(* storage call per step.  A run is one DistributedLock object: the CLI    *)
(* and the UI make a fresh one for every mutating operation, so it         *)
(* acquires once and releases once, and its token, made of the owner and   *)
(* the clock reading, is its own.                                          *)
(*                                                                         *)
(* Time is counted in ticks of the TTL's unit.  `now' is true time; a host *)
(* reads it with an error of at most MaxSkew.  MaxTime bounds the model.   *)
(***************************************************************************)
EXTENDS Integers, FiniteSets

CONSTANTS
    Runs,      \* the acquisitions that may take place
    TTL,       \* ttl_seconds: how long a lock lasts after the clock reading
    MaxSkew,   \* how far a host's clock may be from true time
    Conflict,  \* may the storage refuse a create although the key is absent?
    MaxTime    \* bound on true time

ASSUME TTLAssumption  == TTL \in Nat
ASSUME SkewAssumption == MaxSkew \in Nat
ASSUME TimeAssumption == MaxTime \in Nat
ASSUME ConflictAssumption == Conflict \in BOOLEAN

VARIABLES
    lock,      \* the lock object: {} when the key is absent, else {its LockInfo}
    now,       \* true time
    pc,        \* where each run is in acquire / the locked body / release
    at         \* the clock reading acquire started with (0 before it)

vars == <<lock, now, pc, at>>

Steps == {"start", "create", "read", "steal", "recreate",
          "holding", "unlock", "out", "refused", "crashed"}

LockInfo == [token : Runs, expires : Int]

(* Mutant of Info: a LockInfo without its expiry. *)
InfoWithoutExpiry(r) == [token |-> r, acquired |-> at[r]]

(* What run r writes when it creates the lock object. *)
Info(r) == [token |-> r, expires |-> at[r] + TTL]

(* Mutant of Expired: a tick too early. *)
ExpiredEarly(l, t) == l.expires <= t + 1

(* LockInfo.is_expired *)
Expired(l, t) == l.expires <= t

(* The body of the `with' statement, up to the delete of release. *)
Holding(r) == pc[r] \in {"holding", "unlock"}

Finished(r) == pc[r] \in {"out", "refused", "crashed"}

Init == /\ lock = {}
        /\ now = 0
        /\ pc = [r \in Runs |-> "start"]
        /\ at = [r \in Runs |-> 0]

Goto(r, from, to) == /\ pc[r] = from
                     /\ pc' = [pc EXCEPT ![r] = to]

(* adapter.put_if_absent of r's LockInfo: r holds the lock if it created   *)
(* the object, and goes on to `otherwise' if the key was there already.    *)
(* S3Adapter answers False for a ConditionalRequestConflict as well, which *)
(* S3 may return although the key is absent.                               *)
PutIfAbsent(r, from, otherwise) ==
    /\ \/ /\ lock = {}
          /\ lock' = {Info(r)}
          /\ Goto(r, from, "holding")
       \/ /\ lock # {} \/ Conflict
          /\ Goto(r, from, otherwise)
          /\ UNCHANGED lock
    /\ UNCHANGED <<now, at>>

(* acquire reads its clock once, for the token, the expiry and the later   *)
(* comparison with the lock it finds.                                      *)
ReadClock(r) == /\ Goto(r, "start", "create")
                /\ \E t \in (now - MaxSkew)..(now + MaxSkew) :
                       at' = [at EXCEPT ![r] = t]
                /\ UNCHANGED <<lock, now>>

TryCreate(r) == PutIfAbsent(r, "create", "read")

(* Mutants of Inspect: any lock is taken over; any lock refuses. *)
InspectTakesAny(r) == /\ Goto(r, "read", "steal")
                      /\ UNCHANGED <<lock, now, at>>
InspectRefusesAny(r) ==
    /\ \/ lock # {} /\ Goto(r, "read", "refused")
       \/ lock = {} /\ Goto(r, "read", "steal")
    /\ UNCHANGED <<lock, now, at>>

(* Only a lock that is there and has not expired refuses r: an expired one *)
(* and one that has just gone are both taken over.                         *)
Inspect(r) ==
    /\ \/ /\ \E l \in lock : ~Expired(l, at[r])
          /\ Goto(r, "read", "refused")
       \/ /\ \A l \in lock : Expired(l, at[r])
          /\ Goto(r, "read", "steal")
    /\ UNCHANGED <<lock, now, at>>

(* The unconditional delete: whatever is under the key now goes. *)
DeleteStale(r) == /\ Goto(r, "steal", "recreate")
                  /\ lock' = {}
                  /\ UNCHANGED <<now, at>>

Recreate(r) == PutIfAbsent(r, "recreate", "refused")

(* Mutant of ReleaseCheck: the token is not compared. *)
ReleaseUnchecked(r) == /\ Goto(r, "holding", "unlock")
                       /\ UNCHANGED <<lock, now, at>>

(* release reads the object and compares the token ... *)
ReleaseCheck(r) ==
    /\ \/ /\ \E l \in lock : l.token = r
          /\ Goto(r, "holding", "unlock")
       \/ /\ \A l \in lock : l.token # r
          /\ Goto(r, "holding", "out")
    /\ UNCHANGED <<lock, now, at>>

(* ... and deletes the key in a second call. *)
ReleaseDelete(r) == /\ Goto(r, "unlock", "out")
                    /\ lock' = {}
                    /\ UNCHANGED <<now, at>>

(* The process dies, or a storage call raises before release deletes: the  *)
(* lock object stays as it is.                                             *)
Crash(r) == /\ ~Finished(r)
            /\ pc[r] # "start"
            /\ pc' = [pc EXCEPT ![r] = "crashed"]
            /\ UNCHANGED <<lock, now, at>>

Tick == /\ now < MaxTime
        /\ now' = now + 1
        /\ UNCHANGED <<lock, pc, at>>

Step(r) == \/ ReadClock(r) \/ TryCreate(r) \/ Inspect(r) \/ DeleteStale(r)
           \/ Recreate(r) \/ ReleaseCheck(r) \/ ReleaseDelete(r)

Next == (\E r \in Runs : Step(r) \/ Crash(r)) \/ Tick

Spec == Init /\ [][Next]_vars

-----------------------------------------------------------------------------
(* An assumption about the environment, which the code needs but does not  *)
(* enforce: no other run is about to create or delete the lock object      *)
(* between a take-over's decision and its delete.                          *)
SoloSteal ==
    \A r, s \in Runs :
        (r # s /\ pc[r] = "steal")
            => pc[s] \notin {"create", "steal", "recreate", "unlock"}

SoloSpec == Init /\ [][Next /\ SoloSteal']_vars

(* Each run is a sequential program that keeps going until it ends; only a *)
(* crash stops it.                                                         *)
SoloLiveSpec == SoloSpec /\ \A r \in Runs : WF_vars(Step(r) /\ SoloSteal')

(* r is in its locked body and, by any host's clock, within its TTL: the   *)
(* time for which the lock is meant to protect it (lock.py:14-17).         *)
InTime(r) == now + MaxSkew < at[r] + TTL
Protected(r) == Holding(r) /\ InTime(r)

-----------------------------------------------------------------------------
TypeOK == /\ lock \in SUBSET LockInfo
          /\ \A k, l \in lock : k = l
          /\ now \in Nat
          /\ pc \in [Runs -> Steps]
          /\ at \in [Runs -> Int]

(* Exactly one caller holds the lock, across processes and hosts           *)
(* (lock.py:8-11): no two runs are in their locked bodies, both within     *)
(* their TTL, whoever else has overrun his.  False when two acquirers take *)
(* over the same lock: without SoloSteal the delete of the slower one      *)
(* removes what the faster one has just created.                           *)
MutualExclusion == \A q, r \in Runs : Protected(q) /\ Protected(r) => q = r

(* A lock that has not expired by any host's clock goes away only by its   *)
(* owner's release: no acquire and no other run's release removes it       *)
(* (lock.py:14-21, tests/test_lock.py test_live_lock_cannot_be_taken_over).*)
LiveLockGoes(l) == l \in lock /\ l \notin lock' /\ l.expires > now + MaxSkew
LiveLockStays ==
    [][\A l \in lock : LiveLockGoes(l) => ReleaseDelete(l.token)]_vars

(* A holder that crashed does not deadlock the bucket (lock.py:14-16): once*)
(* a run that finds its lock expired tries, some run gets in, unless that  *)
(* run dies too or the storage refuses its create without a lock there.    *)
FindsAbandoned(r) == /\ pc[r] = "create"
                     /\ \E l \in lock : pc[l.token] = "crashed" /\ Expired(l, at[r])
StaleLockIsTakenOver ==
    \A r \in Runs :
        FindsAbandoned(r) ~> \/ \E s \in Runs : pc[s] = "holding"
                             \/ pc[r] = "crashed"
                             \/ Conflict /\ pc[r] = "refused" /\ lock = {}

(* The lock implements RunLock: a run is inside from the creation of its   *)
(* lock object to the delete, or the failed check, of its release, but no  *)
(* longer than its TTL, which ends its protection.                         *)
stageBar == [r \in Runs |-> IF Protected(r) THEN "inside"
                            ELSE IF Holding(r) \/ Finished(r) THEN "out" ELSE "waiting"]
Abstract == INSTANCE RunLock WITH stage <- stageBar
ImplementsRunLock == Abstract!Spec
=============================================================================
