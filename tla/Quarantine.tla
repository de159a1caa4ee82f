----------------------------- MODULE Quarantine -----------------------------
(***************************************************************************)
(* The quarantine lifecycle (quarantine.py) as the commands of cli.py and  *)
(* ui/server.py run it: quarantine, restore and purge jobs, one storage    *)
(* call per step, beside the applications that own the bucket's objects    *)
(* and know nothing of the lock.                                           *)
(*                                                                         *)
(* Jobs hold a lock from their first to their last call (_bucket_lock of   *)
(* cli.py); here a lock is RunLock's promise, BucketLock says when it is   *)
(* kept.  A job that dies leaves the lock until its TTL passes; the model  *)
(* lets the next job in at once.  LockOf says who excludes whom: jobs on   *)
(* one bucket share its lock, a job with --no-lock, or one on another      *)
(* bucket that has the same quarantine bucket, has a lock of its own.      *)
(*                                                                         *)
(* An object's content is a version number.  `now' counts seconds, the     *)
(* resolution of a batch id, so a batch is named by the second it was made *)
(* in; its manifest is the set of original keys it lists.                  *)
(***************************************************************************)
EXTENDS Integers, FiniteSets

CONSTANTS
    Keys,          \* original keys of the bucket's objects
    Jobs,          \* mutating commands that may be run
    LockOf,        \* job -> the lock it works under
    Retention,     \* quarantine.retention_days, in the model's seconds
    Workers,       \* max_workers: objects in flight in the thread pool
    ChunkSize,     \* keys per delete_objects request (1000 on S3)
    MaxStops,      \* bound on jobs that die or fail
    DeleteErrors,  \* may delete_objects report errors for single keys?
    MaxWrites,     \* bound on application writes
    MaxTime        \* bound on time

ASSUME RetentionAssumption == Retention \in Nat
ASSUME WorkersAssumption   == Workers \in Nat \ {0}
ASSUME ChunkAssumption     == ChunkSize \in Nat \ {0}
ASSUME BoundsAssumption    == MaxStops \in Nat /\ MaxWrites \in Nat /\ MaxTime \in Nat
ASSUME ErrorsAssumption    == DeleteErrors \in BOOLEAN

VARIABLES
    live,        \* key -> the version under the original key, as a set of at most one
    held,        \* batch -> key -> the version under the quarantine key
    manifest,    \* batch -> the manifests (none or one) under the batch's prefix
    audit,       \* the lines of audit.log
    now,         \* seconds
    writes,      \* application writes so far
    job,         \* the state of each command, see Job
    owed,        \* history: the version each key's owner last left, unless purged
    contended,   \* history: keys whose owner touched them while a copy was held
    dropped      \* history: batches where an object outlived its deletion, error dropped

storage == <<live, held, manifest, audit>>
history == <<owed, contended, dropped>>
vars    == <<storage, now, writes, job, history>>

Batches == 0..MaxTime
Version == 0..MaxWrites
Listing == [batch : Batches, keys : SUBSET Keys]       \* a manifest read earlier
Ops     == {"quarantine", "restore", "purge"}
Line    == [action : Ops, batch : Batches, keys : SUBSET Keys]

(* op    - the command                                                     *)
(* pc    - idle; listed: purge has its batches, not yet the lock;          *)
(*         opening: restore has read the manifest;                         *)
(*         moving: objects in the pool; failing: one of them raised;       *)
(*         purging; logging: only the audit line is missing;               *)
(*         appending: the log has been read; done, refused, stopped        *)
(* opt   - purge --force; restore of a key the batch does not list         *)
(* todo  - keys not started, mid - copied and not yet deleted, moved - both*)
(* kept  - entries that stay in the manifest after a restore               *)
(* more  - manifests a purge has still to delete, the current one included *)
(* log   - the lines of audit.log as read                                  *)
Pcs == {"idle", "listed", "opening", "moving", "failing", "purging", "logging",
        "appending", "done", "refused", "stopped"}
Job == [pc : Pcs, op : Ops, opt : BOOLEAN,
        batch : Batches, todo : SUBSET Keys, mid : SUBSET Keys,
        moved : SUBSET Keys, kept : SUBSET Keys, more : SUBSET Listing,
        log : SUBSET Line]

Inside(j) == job[j].pc \in {"opening", "moving", "failing", "purging", "logging", "appending"}
Free(j) == \A i \in Jobs : Inside(i) => LockOf[i] # LockOf[j]     \* j acquires its lock

(* The places of an object, and those a move in flight will not clear. *)
Copies(k) == live[k] \cup UNION {held[b][k] : b \in Batches}
InFlight(k, op, b) == \E j \in Jobs : /\ Inside(j) /\ job[j].op = op
                                     /\ job[j].batch = b /\ k \in job[j].mid
Leaving(k) == \E b \in Batches : InFlight(k, "quarantine", b)
Staying(k) == (IF Leaving(k) THEN {} ELSE live[k])
                 \cup UNION {held[b][k] : b \in {c \in Batches : ~InFlight(k, "restore", c)}}

Idle(j, op) == job[j].pc = "idle" /\ job[j].op = op

Set(j, new) == job' = [job EXCEPT ![j] = new]

Init == /\ live = [k \in Keys |-> {0}]
        /\ held = [b \in Batches |-> [k \in Keys |-> {}]]
        /\ manifest = [b \in Batches |-> {}]
        /\ audit = {}
        /\ now = 0
        /\ writes = 0
        /\ \E ops \in [Jobs -> Ops] :
              job = [j \in Jobs |->
                       [pc |-> "idle", op |-> ops[j], opt |-> FALSE, batch |-> 0,
                        todo |-> {}, mid |-> {}, moved |-> {}, kept |-> {}, more |-> {}, log |-> {}]]
        /\ owed = live
        /\ contended = {}
        /\ dropped = {}

-----------------------------------------------------------------------------
(* quarantine *)

(* cmd_quarantine under the lock: the scan yields some of the live objects *)
(* and the manager made after it takes its clock reading as batch id.      *)
StartQuarantine(j) ==
    /\ Idle(j, "quarantine") /\ Free(j)
    /\ \E C \in (SUBSET {k \in Keys : live[k] # {}}) \ {{}} :
          Set(j, [job[j] EXCEPT !.pc = "moving", !.batch = now, !.todo = C])
    /\ UNCHANGED <<storage, now, writes, history>>

Pool(j, op) == job[j].op = op /\ job[j].pc \in {"moving", "failing"}

QuarantinesOf(b) == {j \in Jobs : /\ job[j].op = "quarantine" /\ job[j].pc # "idle"
                                   /\ job[j].batch = b}

(* Two quarantines within one second share a batch id (quarantine.py:196). *)
SharedId(b) == \E i, j \in QuarantinesOf(b) : i # j

(* A job nobody keeps out may take such a batch's copies while they are made. *)
Apart == \E i, j \in Jobs : LockOf[i] # LockOf[j]

(* _move, first call: copy the object as it is now. *)
CopyOut(j, k) ==
    /\ Pool(j, "quarantine") /\ k \in job[j].todo
    /\ Cardinality(job[j].mid) < Workers
    /\ live[k] # {}
    /\ held' = [held EXCEPT ![job[j].batch][k] = live[k]]
    /\ Set(j, [job[j] EXCEPT !.todo = @ \ {k}, !.mid = @ \cup {k}])
    /\ contended' = contended \cup {x \in {k} : Apart /\ SharedId(job[j].batch)}
    /\ UNCHANGED <<live, manifest, audit, now, writes, owed, dropped>>

(* What the next call copies has gone meanwhile. *)
Missing(j, k) == \/ Pool(j, "quarantine") /\ live[k] = {}
                 \/ Pool(j, "restore") /\ held[job[j].batch][k] = {}

(* Mutant of CopyRaises: the missing object is tried again. *)
CopyRetries(j, k) ==
    /\ Missing(j, k) /\ k \in job[j].todo
    /\ UNCHANGED vars

(* The object is gone: copy raises.  Objects already in flight finish,     *)
(* others may still start until the pool's map meets the exception.        *)
CopyRaises(j, k) ==
    /\ Missing(j, k) /\ k \in job[j].todo
    /\ Cardinality(job[j].mid) < Workers
    /\ Set(j, [job[j] EXCEPT !.pc = "failing", !.todo = @ \ {k}])
    /\ UNCHANGED <<storage, now, writes, history>>

(* Mutant of DeleteOut: a candidate may be deleted before it is copied. *)
DeleteAny(j, k) ==
    /\ Pool(j, "quarantine") /\ k \in job[j].todo \cup job[j].mid
    /\ live' = [live EXCEPT ![k] = {}]
    /\ Set(j, [job[j] EXCEPT !.todo = @ \ {k}, !.mid = @ \ {k}, !.moved = @ \cup {k}])
    /\ UNCHANGED <<held, manifest, audit, now, writes, history>>

(* _move, second call: delete the original, whatever it is by now. *)
DeleteOut(j, k) ==
    /\ Pool(j, "quarantine") /\ k \in job[j].mid
    /\ live' = [live EXCEPT ![k] = {}]
    /\ Set(j, [job[j] EXCEPT !.mid = @ \ {k}, !.moved = @ \cup {k}])
    /\ UNCHANGED <<held, manifest, audit, now, writes, history>>

(* The pool is drained and the exception leaves the command: manifest and  *)
(* audit log stay as they are; the lock is released on the way out.        *)
FailPool(j) ==
    /\ job[j].pc = "failing" /\ job[j].mid = {}
    /\ Set(j, [job[j] EXCEPT !.pc = "stopped"])
    /\ UNCHANGED <<storage, now, writes, history>>

Drained(j) == job[j].pc = "moving" /\ job[j].todo = {} /\ job[j].mid = {}

(* Mutant of WriteManifest: beside a manifest already there. *)
AddManifest(j) ==
    /\ Drained(j) /\ job[j].op = "quarantine"
    /\ manifest' = [manifest EXCEPT ![job[j].batch] = @ \cup {job[j].moved}]
    /\ Set(j, [job[j] EXCEPT !.pc = "logging"])
    /\ UNCHANGED <<live, held, audit, now, writes, history>>

(* The manifest is put under the batch's key, in place of any other. *)
WriteManifest(j) ==
    /\ Drained(j) /\ job[j].op = "quarantine"
    /\ manifest' = [manifest EXCEPT ![job[j].batch] = {job[j].moved}]
    /\ Set(j, [job[j] EXCEPT !.pc = "logging"])
    /\ UNCHANGED <<live, held, audit, now, writes, history>>

-----------------------------------------------------------------------------
(* restore *)

(* restore reads the manifest under the lock, and refuses a batch without  *)
(* one.  No key, or an empty list of them, asks for the whole batch.       *)
StartRestore(j) ==
    /\ Idle(j, "restore") /\ Free(j)
    /\ \E b \in Batches, keys \in SUBSET Keys : \E entries \in manifest[b] :
          LET targets == IF keys = {} THEN entries ELSE entries \cap keys
          IN  Set(j, [job[j] EXCEPT !.pc = "opening", !.batch = b, !.todo = targets,
                                    !.opt = ~(keys \subseteq entries),
                                    !.kept = entries \ targets])
    /\ UNCHANGED <<storage, now, writes, history>>

(* The surviving copies are listed once: an entry without one counts as    *)
(* restored by an earlier attempt.                                         *)
ListCopies(j) ==
    /\ job[j].pc = "opening"
    /\ LET present == {k \in job[j].todo : held[job[j].batch][k] # {}}
       IN  Set(j, [job[j] EXCEPT !.pc = "moving", !.todo = present,
                                    !.moved = job[j].todo \ present])
    /\ UNCHANGED <<storage, now, writes, history>>

(* _restore_one: copy the held version over the original key ... *)
CopyBack(j, k) ==
    /\ Pool(j, "restore") /\ k \in job[j].todo
    /\ Cardinality(job[j].mid) < Workers
    /\ held[job[j].batch][k] # {}
    /\ live' = [live EXCEPT ![k] = held[job[j].batch][k]]
    /\ Set(j, [job[j] EXCEPT !.todo = @ \ {k}, !.mid = @ \cup {k}])
    /\ UNCHANGED <<held, manifest, audit, now, writes, history>>

(* ... and delete the quarantine copy. *)
DeleteCopy(j, k) ==
    /\ Pool(j, "restore") /\ k \in job[j].mid
    /\ held' = [held EXCEPT ![job[j].batch][k] = {}]
    /\ Set(j, [job[j] EXCEPT !.mid = @ \ {k}, !.moved = @ \cup {k}])
    /\ UNCHANGED <<live, manifest, audit, now, writes, history>>

(* Unknown keys are noticed only now, with the known ones moved back and   *)
(* the manifest still listing them.                                        *)
UnknownKeys(j) ==
    /\ Drained(j) /\ job[j].op = "restore" /\ job[j].opt
    /\ Set(j, [job[j] EXCEPT !.pc = "stopped"])
    /\ UNCHANGED <<storage, now, writes, history>>

(* Mutant of SaveManifest: the entries kept are forgotten. *)
DropManifest(j) ==
    /\ Drained(j) /\ job[j].op = "restore" /\ ~job[j].opt
    /\ manifest' = [manifest EXCEPT ![job[j].batch] = {}]
    /\ Set(j, [job[j] EXCEPT !.pc = "logging"])
    /\ UNCHANGED <<live, held, audit, now, writes, history>>

(* The manifest shrinks to the entries kept, and goes with the last one. *)
SaveManifest(j) ==
    /\ Drained(j) /\ job[j].op = "restore" /\ ~job[j].opt
    /\ manifest' = [manifest EXCEPT ![job[j].batch] =
                       IF job[j].kept = {} THEN {} ELSE {job[j].kept}]
    /\ Set(j, [job[j] EXCEPT !.pc = "logging"])
    /\ UNCHANGED <<live, held, audit, now, writes, history>>

-----------------------------------------------------------------------------
(* purge *)

Stored == UNION {{[batch |-> b, keys |-> K] : K \in manifest[b]} : b \in Batches}

PurgeAfter(b) == b + Retention

(* Mutant of IsExpired: a second too early. *)
ExpiresEarly(b) == PurgeAfter(b) <= now + 1

IsExpired(b) == PurgeAfter(b) <= now

(* cmd_purge before the lock: list the manifests, expired ones only unless *)
(* --force, one of them with --batch; show them and ask.  The manifests are*)
(* read in one step; any number of steps may pass before they are used.    *)
ListBatches(j) ==
    /\ Idle(j, "purge")
    /\ \E force \in BOOLEAN :
       LET shown == {m \in Stored : force \/ IsExpired(m.batch)}
       IN  \E chosen \in {shown} \cup {{m} : m \in shown} :
              /\ chosen # {}
              /\ Set(j, [job[j] EXCEPT !.pc = "listed", !.opt = force, !.more = chosen])
    /\ UNCHANGED <<storage, now, writes, history>>

(* The manifest a purge is working on, as it was listed. *)
Current(j) == {m \in job[j].more : m.batch = job[j].batch}

(* The batches are deleted oldest first. *)
TakeOldest(j, ms) ==
    \E m \in ms :
       /\ \A n \in ms : m.batch <= n.batch
       /\ Set(j, [job[j] EXCEPT !.pc = "purging", !.more = ms,
                                !.batch = m.batch, !.todo = m.keys, !.log = {}])

StartPurge(j) ==
    /\ job[j].pc = "listed" /\ Free(j)
    /\ TakeOldest(j, job[j].more)
    /\ UNCHANGED <<storage, now, writes, history>>

(* A busy bucket turns a purge away after the confirmation. *)
RefusePurge(j) ==
    /\ job[j].pc = "listed" /\ ~Free(j)
    /\ Set(j, [job[j] EXCEPT !.pc = "refused"])
    /\ UNCHANGED <<storage, now, writes, history>>

(* delete_objects of the copies of S; keys that fail are ignored.  What has*)
(* no place left but one that a restore is about to clear is purged too.   *)
Delete(j, S) ==
    /\ UNCHANGED <<live, audit, now, writes, contended>>
    /\ \E E \in SUBSET S :
          /\ E # {} => DeleteErrors
          /\ held' = [held EXCEPT ![job[j].batch] =
                         [k \in Keys |-> IF k \in S \ E THEN {} ELSE @[k]]]
          /\ dropped' = dropped \cup
                {b \in {job[j].batch} : \E k \in E : held[b][k] # {}}
    /\ owed' = [k \in Keys |-> IF k \in S /\ Staying(k)' = {}
                                  /\ (job[j].opt \/ PurgeAfter(job[j].batch) <= now)
                               THEN {} ELSE owed[k]]

(* A full request of object keys ... *)
PurgeChunk(j) ==
    /\ job[j].pc = "purging" /\ Cardinality(job[j].todo) >= ChunkSize
    /\ \E S \in SUBSET job[j].todo :
          /\ Cardinality(S) = ChunkSize
          /\ Set(j, [job[j] EXCEPT !.todo = @ \ S])
          /\ Delete(j, S)
    /\ UNCHANGED manifest

(* Mutant of PurgeLast: the manifest stays. *)
PurgeObjectsOnly(j) ==
    /\ job[j].pc = "purging" /\ Cardinality(job[j].todo) < ChunkSize
    /\ UNCHANGED manifest
    /\ Set(j, [job[j] EXCEPT !.pc = "logging", !.todo = {},
                             !.moved = UNION {m.keys : m \in Current(j)}])
    /\ Delete(j, job[j].todo)

(* ... and the last one, which ends with the manifest. *)
PurgeLast(j) ==
    /\ job[j].pc = "purging" /\ Cardinality(job[j].todo) < ChunkSize
    /\ Set(j, [job[j] EXCEPT !.pc = "logging", !.todo = {},
                             !.moved = UNION {m.keys : m \in Current(j)}])
    /\ Delete(j, job[j].todo)
    /\ \/ manifest' = [manifest EXCEPT ![job[j].batch] = {}]
       \/ DeleteErrors /\ UNCHANGED manifest

-----------------------------------------------------------------------------
(* _append_audit: get_text of the whole log ... *)
ReadLog(j) ==
    /\ job[j].pc = "logging"
    /\ Set(j, [job[j] EXCEPT !.pc = "appending", !.log = audit])
    /\ UNCHANGED <<storage, now, writes, history>>

AuditLine(j) == [action |-> job[j].op, batch |-> job[j].batch, keys |-> job[j].moved]

(* Mutant of WriteLog: only the new line is put. *)
WriteLogAlone(j) ==
    /\ job[j].pc = "appending"
    /\ audit' = {AuditLine(j)}
    /\ \/ /\ job[j].more \subseteq Current(j)
          /\ Set(j, [job[j] EXCEPT !.pc = "done", !.more = {}, !.log = {}])
       \/ TakeOldest(j, job[j].more \ Current(j))
    /\ UNCHANGED <<live, held, manifest, now, writes, history>>

(* ... and put_text of it with one more line.  A purge goes on with its    *)
(* next batch.                                                             *)
WriteLog(j) ==
    /\ job[j].pc = "appending"
    /\ audit' = job[j].log \cup {AuditLine(j)}
    /\ \/ /\ job[j].more \subseteq Current(j)
          /\ Set(j, [job[j] EXCEPT !.pc = "done", !.more = {}, !.log = {}])
       \/ TakeOldest(j, job[j].more \ Current(j))
    /\ UNCHANGED <<live, held, manifest, now, writes, history>>

(* The process dies, or a storage call raises. *)
Stop(j) ==
    /\ Inside(j)
    /\ Cardinality({i \in Jobs : job[i].pc = "stopped"}) < MaxStops
    /\ Set(j, [job[j] EXCEPT !.pc = "stopped", !.log = {}])
    /\ UNCHANGED <<storage, now, writes, history>>

-----------------------------------------------------------------------------
(* The bucket's applications, which do not take the lock. *)

Touch(k, versions) ==
    /\ live' = [live EXCEPT ![k] = versions]
    /\ owed' = [owed EXCEPT ![k] = versions]
    /\ contended' = contended \cup
                       {x \in {k} : \E b \in Batches : held[b][k] # {}}
    /\ UNCHANGED <<held, manifest, audit, now, job, dropped>>

ClientWrite(k) == /\ writes < MaxWrites
                  /\ writes' = writes + 1
                  /\ Touch(k, {writes + 1})

ClientDelete(k) == /\ live[k] # {}
                   /\ Touch(k, {})
                   /\ UNCHANGED writes

Tick == /\ now < MaxTime
        /\ now' = now + 1
        /\ UNCHANGED <<storage, writes, job, history>>

-----------------------------------------------------------------------------
QuarantineStep(j) == \/ StartQuarantine(j) \/ WriteManifest(j)
                     \/ \E k \in Keys : CopyOut(j, k) \/ DeleteOut(j, k)

FailStep(j) == FailPool(j) \/ \E k \in Keys : CopyRaises(j, k)

RestoreStep(j) == \/ StartRestore(j) \/ ListCopies(j) \/ UnknownKeys(j) \/ SaveManifest(j)
                  \/ \E k \in Keys : CopyBack(j, k) \/ DeleteCopy(j, k)

PurgeStep(j) == \/ ListBatches(j) \/ StartPurge(j) \/ RefusePurge(j)
                \/ PurgeChunk(j) \/ PurgeLast(j)

JobStep(j) == \/ QuarantineStep(j) \/ RestoreStep(j) \/ FailStep(j) \/ PurgeStep(j)
              \/ ReadLog(j) \/ WriteLog(j)

Next == \/ \E j \in Jobs : JobStep(j) \/ Stop(j)
        \/ \E k \in Keys : ClientWrite(k) \/ ClientDelete(k)
        \/ Tick

Spec == Init /\ [][Next]_vars

(* A job inside the lock is a sequential program, or a pool of them, that  *)
(* keeps going.  Nobody has to start a job or confirm a purge.             *)
LiveSpec == Spec /\ \A j \in Jobs : WF_vars(Inside(j) /\ JobStep(j))

-----------------------------------------------------------------------------
AtMostOne(S) == \A x, y \in S : x = y

TypeOK == /\ live \in [Keys -> SUBSET Version]
          /\ held \in [Batches -> [Keys -> SUBSET Version]]
          /\ manifest \in [Batches -> SUBSET SUBSET Keys]
          /\ \A b \in Batches : AtMostOne(manifest[b])
          /\ audit \in SUBSET Line
          /\ now \in Batches
          /\ writes \in Version
          /\ job \in [Jobs -> Job]
          /\ owed \in [Keys -> SUBSET Version]
          /\ contended \in SUBSET Keys
          /\ dropped \in SUBSET Batches
          /\ dropped # {} => DeleteErrors

(* Nothing is lost (quarantine.py:3-6, README.md:25-29): whatever jobs die *)
(* where, and however objects travel between the bucket and the batches,   *)
(* the last version an owner left is under the original key or under some  *)
(* quarantine key, until a purge that was forced or came after the         *)
(* retention window.  Keys their owner touched while a copy of them was    *)
(* held are excepted: the delete of a move and the copy of a restore then  *)
(* hit a version that has no copy (quarantine.py:211, 292).                *)
Preserved == \A k \in Keys \ contended : owed[k] \subseteq Copies(k)

Unfinished(j) == Inside(j) \/ job[j].pc = "stopped"

(* An object in quarantine is listed by its batch's manifest, so restore   *)
(* and purge can find it: partial, repeated and interrupted restores and   *)
(* purges of stale listings never take a key off the manifest before the   *)
(* object is gone, whoever else is at work on the batch.  Only a quarantine*)
(* that dies before its manifest or shares its second with another, and a  *)
(* purge that met an error on an object of the batch and dropped it        *)
(* (s3.py:52-55), leave objects nobody lists.                              *)
Orphan(b, k) == held[b][k] # {} /\ \A K \in manifest[b] : k \notin K
ErrorsDropped(b) == b \in dropped
NoOrphans == \A b \in Batches, k \in Keys :
                Orphan(b, k) => \/ \E j \in QuarantinesOf(b) : Unfinished(j)
                                \/ SharedId(b) \/ ErrorsDropped(b)

(* What the audit log says is in batch b. *)
Logged(action, b) == UNION {l.keys : l \in {m \in audit : m.action = action /\ m.batch = b}}
ByTheLog(b) == Logged("quarantine", b) \ (Logged("restore", b) \cup Logged("purge", b))

HeldKeys(b) == {k \in Keys : held[b][k] # {}}

(* When no job on batch b is under way or died, the objects in quarantine, *)
(* the manifest and the audit log (quarantine.py:152-166) tell the same.   *)
AgreeAtRest ==
    \A b \in Batches :
        \/ SharedId(b)
        \/ \E j \in Jobs : job[j].batch = b /\ Unfinished(j)
        \/ HeldKeys(b) = UNION manifest[b] /\ HeldKeys(b) = ByTheLog(b)

(* The audit log is append-only (quarantine.py:153): no line of it is ever *)
(* lost, though it is rewritten whole from what was read a call before.    *)
LogKeepsLines == [][audit \subseteq audit']_vars

(* The jobs, seen as moves of whole objects, are a RecycleBin. *)
settled == [k \in Keys |-> IF k \in contended THEN {} ELSE owed[k]]
whereabouts == [k \in Keys |-> {p \in {-1} \cup Batches :
                  settled[k] # {} /\ settled[k] = IF p = -1 THEN live[k] ELSE held[p][k]}]
insisted == UNION {{m.batch : m \in job[j].more} : j \in {i \in Jobs : job[i].opt}}

Bin == INSTANCE RecycleBin WITH Versions <- Version, version <- settled, places <- whereabouts,
                                disputed <- contended, forced <- insisted, time <- now
ImplementsBin == Bin!Spec

(* A command that took the lock comes to an end, also when objects vanish  *)
(* under its pool, so the bucket is not busy for ever (cli.py:67-70).      *)
JobsEnd == \A j \in Jobs : Inside(j) ~> ~Inside(j)

-----------------------------------------------------------------------------
(* "*moves* the candidates under a quarantine prefix and writes a JSON     *)
(* manifest.  Nothing is lost yet: restore puts any object back" (README   *)
(* .md:25-27): when no quarantine is at work on a batch, all its objects   *)
(* are listed.  False when a candidate vanishes under the pool.            *)
RestorableUntilPurge ==
    \A b \in Batches, k \in Keys :
        Orphan(b, k) => \E j \in QuarantinesOf(b) : Inside(j)
=============================================================================
