-------------------------- MODULE QuarantineProofs --------------------------
(***************************************************************************)
(* Theorems of Quarantine for every set of keys and jobs, whoever shares a *)
(* lock with whom, every retention, pool and chunk size, and any number of *)
(* writes, deaths and errors.                                              *)
(***************************************************************************)
EXTENDS Quarantine, TLAPS

-----------------------------------------------------------------------------
(* Type correctness.  A step changes the storage within its types, and one *)
(* job to another record of type Job.                                      *)

LEMMA SetType ==
  ASSUME TypeOK, NEW j \in Jobs, NEW new \in Job, Set(j, new)
  PROVE  job' \in [Jobs -> Job]
  BY DEF TypeOK, Set

LEMMA TypeInit == Init => TypeOK
  BY BoundsAssumption
     DEF Init, TypeOK, Batches, Version, Job, Pcs, Line, AtMostOne

LEMMA TypeQuarantine ==
  ASSUME TypeOK, NEW j \in Jobs, QuarantineStep(j)
  PROVE  TypeOK'
  <1> USE DEF TypeOK, Batches
  <1>j. job[j] \in Job
    OBVIOUS
  <1>1. CASE StartQuarantine(j)
    <2>1. PICK C \in SUBSET Keys :
             Set(j, [job[j] EXCEPT !.pc = "moving", !.batch = now, !.todo = C])
      BY <1>1 DEF StartQuarantine
    <2>2. job' \in [Jobs -> Job]
      BY <1>j, <2>1, SetType DEF Job, Pcs
    <2> QED
      BY <1>1, <2>2 DEF StartQuarantine, storage, history
  <1>3. CASE WriteManifest(j)
    <2>1. job' \in [Jobs -> Job]
      BY <1>3, <1>j, SetType DEF WriteManifest, Job, Pcs
    <2>2. /\ manifest' \in [Batches -> SUBSET SUBSET Keys]
          /\ \A b \in Batches : AtMostOne(manifest'[b])
      BY <1>3, <1>j DEF WriteManifest, Job, AtMostOne
    <2> QED
      BY <1>3, <2>1, <2>2 DEF WriteManifest, history
  <1>4. ASSUME NEW k \in Keys, CopyOut(j, k)
        PROVE  TypeOK'
    <2>1. job' \in [Jobs -> Job]
      BY <1>4, <1>j, SetType DEF CopyOut, Job
    <2>2. held' \in [Batches -> [Keys -> SUBSET Version]]
      BY <1>4, <1>j DEF CopyOut, Job
    <2>3. contended' \in SUBSET Keys
      BY <1>4 DEF CopyOut
    <2> QED
      BY <1>4, <2>1, <2>2, <2>3 DEF CopyOut
  <1>6. ASSUME NEW k \in Keys, DeleteOut(j, k)
        PROVE  TypeOK'
    <2>1. job' \in [Jobs -> Job]
      BY <1>6, <1>j, SetType DEF DeleteOut, Job
    <2>2. live' \in [Keys -> SUBSET Version]
      BY <1>6 DEF DeleteOut
    <2> QED
      BY <1>6, <2>1, <2>2 DEF DeleteOut, history
  <1> QED
    BY <1>1, <1>3, <1>4, <1>6 DEF QuarantineStep

LEMMA TypeFail ==
  ASSUME TypeOK, NEW j \in Jobs, FailStep(j)
  PROVE  TypeOK'
  <1> USE DEF TypeOK, Batches
  <1>j. job[j] \in Job
    OBVIOUS
  <1>1. CASE FailPool(j)
    <2>1. job' \in [Jobs -> Job]
      BY <1>1, <1>j, SetType DEF FailPool, Job, Pcs
    <2> QED
      BY <1>1, <2>1 DEF FailPool, storage, history
  <1>2. ASSUME NEW k \in Keys, CopyRaises(j, k)
        PROVE  TypeOK'
    <2>1. job' \in [Jobs -> Job]
      BY <1>2, <1>j, SetType DEF CopyRaises, Job, Pcs
    <2> QED
      BY <1>2, <2>1 DEF CopyRaises, storage, history
  <1> QED
    BY <1>1, <1>2 DEF FailStep

(* What the start of a restore does to its job. *)
LEMMA RestoreStarts ==
  ASSUME TypeOK, NEW j \in Jobs, StartRestore(j)
  PROVE  \E new \in Job, b \in Batches : \E entries \in manifest[b] :
            /\ Set(j, new)
            /\ new.pc = "opening" /\ new.op = "restore" /\ new.batch = b
            /\ new.todo \cup new.kept = entries /\ new.todo \cap new.kept = {}
            /\ new.mid = job[j].mid /\ new.moved = job[j].moved
            /\ new.more = job[j].more
  <1>1. PICK b \in Batches, keys \in SUBSET Keys : \E entries \in manifest[b] :
           LET targets == IF keys = {} THEN entries ELSE entries \cap keys
           IN  Set(j, [job[j] EXCEPT !.pc = "opening", !.batch = b, !.todo = targets,
                                     !.opt = ~(keys \subseteq entries),
                                     !.kept = entries \ targets])
    BY Zenon DEF StartRestore
  <1>2. PICK entries \in manifest[b] :
           LET targets == IF keys = {} THEN entries ELSE entries \cap keys
           IN  Set(j, [job[j] EXCEPT !.pc = "opening", !.batch = b, !.todo = targets,
                                     !.opt = ~(keys \subseteq entries),
                                     !.kept = entries \ targets])
    BY <1>1, Zenon
  <1> DEFINE targets == IF keys = {} THEN entries ELSE entries \cap keys
             unknown == ~(keys \subseteq entries)
             new == [job[j] EXCEPT !.pc = "opening", !.batch = b, !.todo = targets,
                                   !.opt = unknown, !.kept = entries \ targets]
  <1>3. Set(j, new)
    BY <1>2, Zenon
  <1>4. entries \in SUBSET Keys /\ targets \in SUBSET Keys /\ targets \subseteq entries
    BY DEF TypeOK
  <1>5. unknown \in BOOLEAN
    BY Zenon
  <1>6. job[j] \in Job /\ job[j].op = "restore"
    BY DEF TypeOK, StartRestore, Idle
  <1> HIDE DEF targets, unknown
  <1>7. /\ new \in Job /\ new.pc = "opening" /\ new.op = "restore" /\ new.batch = b
        /\ new.todo = targets /\ new.kept = entries \ targets
        /\ new.mid = job[j].mid /\ new.moved = job[j].moved
        /\ new.more = job[j].more
    BY <1>4, <1>5, <1>6 DEF Job, Pcs
  <1>8. new.todo \cup new.kept = entries /\ new.todo \cap new.kept = {}
    BY <1>4, <1>7
  <1> QED
    BY <1>3, <1>7, <1>8, Zenon

LEMMA TypeRestore ==
  ASSUME TypeOK, NEW j \in Jobs, RestoreStep(j)
  PROVE  TypeOK'
  <1> USE DEF TypeOK, Batches
  <1>j. job[j] \in Job
    OBVIOUS
  <1>1. CASE StartRestore(j)
    <2>1. job' \in [Jobs -> Job]
      BY <1>1, RestoreStarts, SetType
    <2> QED
      BY <1>1, <2>1 DEF StartRestore, storage, history
  <1>2. CASE UnknownKeys(j)
    <2>1. job' \in [Jobs -> Job]
      BY <1>2, <1>j, SetType DEF UnknownKeys, Job, Pcs
    <2> QED
      BY <1>2, <2>1 DEF UnknownKeys, storage, history
  <1>3. CASE SaveManifest(j)
    <2>1. job' \in [Jobs -> Job]
      BY <1>3, <1>j, SetType DEF SaveManifest, Job, Pcs
    <2>2. /\ manifest' \in [Batches -> SUBSET SUBSET Keys]
          /\ \A b \in Batches : AtMostOne(manifest'[b])
      BY <1>3, <1>j DEF SaveManifest, Job, AtMostOne
    <2> QED
      BY <1>3, <2>1, <2>2 DEF SaveManifest, history
  <1>4. ASSUME NEW k \in Keys, CopyBack(j, k)
        PROVE  TypeOK'
    <2>1. job' \in [Jobs -> Job]
      BY <1>4, <1>j, SetType DEF CopyBack, Job
    <2>2. live' \in [Keys -> SUBSET Version]
      BY <1>4, <1>j DEF CopyBack, Job
    <2> QED
      BY <1>4, <2>1, <2>2 DEF CopyBack, history
  <1>5. ASSUME NEW k \in Keys, DeleteCopy(j, k)
        PROVE  TypeOK'
    <2>1. job' \in [Jobs -> Job]
      BY <1>5, <1>j, SetType DEF DeleteCopy, Job
    <2>2. held' \in [Batches -> [Keys -> SUBSET Version]]
      BY <1>5, <1>j DEF DeleteCopy, Job
    <2> QED
      BY <1>5, <2>1, <2>2 DEF DeleteCopy, history
  <1>6. CASE ListCopies(j)
    <2>1. PICK present \in SUBSET job[j].todo :
             Set(j, [job[j] EXCEPT !.pc = "moving", !.todo = present,
                                   !.moved = job[j].todo \ present])
      BY <1>6 DEF ListCopies
    <2>2. job' \in [Jobs -> Job]
      BY <2>1, <1>j, SetType DEF Job, Pcs
    <2> QED
      BY <1>6, <2>2 DEF ListCopies, storage, history
  <1> QED
    BY <1>1, <1>2, <1>3, <1>4, <1>5, <1>6 DEF RestoreStep

LEMMA DroppedType ==
  ASSUME TypeOK, NEW j \in Jobs, NEW S, Delete(j, S), job[j].batch \in Batches
  PROVE  dropped' \in SUBSET Batches /\ (dropped' # {} => DeleteErrors)
  <1>1. PICK E \in SUBSET S :
           /\ E # {} => DeleteErrors
           /\ dropped' = dropped \cup {b \in {job[j].batch} : \E k \in E : held[b][k] # {}}
    BY DEF Delete
  <1> QED
    BY <1>1 DEF TypeOK

LEMMA DeleteType ==
  ASSUME TypeOK, NEW j \in Jobs, NEW S \in SUBSET Keys, Delete(j, S)
  PROVE  /\ held' \in [Batches -> [Keys -> SUBSET Version]]
         /\ owed' \in [Keys -> SUBSET Version]
  <1>1. job[j].batch \in Batches
    BY DEF TypeOK, Job
  <1> QED
    BY <1>1 DEF Delete, TypeOK

LEMMA TakeType ==
  ASSUME TypeOK, NEW j \in Jobs, NEW ms \in SUBSET Listing, TakeOldest(j, ms)
  PROVE  job' \in [Jobs -> Job]
  <1>1. PICK m \in Listing :
           Set(j, [job[j] EXCEPT !.pc = "purging", !.more = ms,
                                 !.batch = m.batch, !.todo = m.keys, !.log = {}])
    BY DEF TakeOldest
  <1>2. job[j] \in Job
    BY DEF TypeOK
  <1> QED
    BY <1>1, <1>2, SetType DEF Job, Pcs, Listing

LEMMA TypePurge ==
  ASSUME TypeOK, NEW j \in Jobs, PurgeStep(j)
  PROVE  TypeOK'
  <1> USE DEF TypeOK, Batches
  <1>j. job[j] \in Job
    OBVIOUS
  <1>1. CASE ListBatches(j)
    <2>1. Stored \subseteq Listing
      BY DEF Stored, Listing
    <2>2. PICK force \in BOOLEAN, chosen \in SUBSET Listing :
             Set(j, [job[j] EXCEPT !.pc = "listed", !.opt = force, !.more = chosen])
      BY <1>1, <2>1 DEF ListBatches
    <2>3. job' \in [Jobs -> Job]
      BY <1>j, <2>2, SetType DEF Job, Pcs
    <2> QED
      BY <1>1, <2>3 DEF ListBatches, storage, history
  <1>2. CASE StartPurge(j)
    <2>1. job' \in [Jobs -> Job]
      BY <1>2, <1>j, TakeType DEF StartPurge, Job
    <2> QED
      BY <1>2, <2>1 DEF StartPurge, storage, history
  <1>3. CASE RefusePurge(j)
    <2>1. job' \in [Jobs -> Job]
      BY <1>3, <1>j, SetType DEF RefusePurge, Job, Pcs
    <2> QED
      BY <1>3, <2>1 DEF RefusePurge, storage, history
  <1>4. CASE PurgeChunk(j)
    <2>1. PICK S \in SUBSET job[j].todo :
             Delete(j, S) /\ Set(j, [job[j] EXCEPT !.todo = @ \ S])
      BY <1>4 DEF PurgeChunk
    <2>2. S \in SUBSET Keys
      BY <1>j DEF Job
    <2>3. job' \in [Jobs -> Job]
      BY <1>j, <2>1, SetType DEF Job
    <2>4. /\ held' \in [Batches -> [Keys -> SUBSET Version]]
          /\ owed' \in [Keys -> SUBSET Version]
      BY <2>1, <2>2, DeleteType
    <2>5. UNCHANGED <<live, manifest, audit, now, writes, contended>>
      BY <1>4, <2>1 DEF PurgeChunk, Delete
    <2>6. dropped' \in SUBSET Batches /\ (dropped' # {} => DeleteErrors)
      BY <1>j, <2>1, DroppedType DEF Job
    <2> QED
      BY <2>3, <2>4, <2>5, <2>6
  <1>5. CASE PurgeLast(j)
    <2>1. Delete(j, job[j].todo) /\ job[j].todo \in SUBSET Keys
      BY <1>5, <1>j DEF PurgeLast, Job
    <2>2. UNION {m.keys : m \in Current(j)} \in SUBSET Keys
      BY <1>j DEF Current, Job, Listing
    <2>3. job' \in [Jobs -> Job]
      BY <1>5, <1>j, <2>2, SetType DEF PurgeLast, Job, Pcs
    <2>4. /\ manifest' \in [Batches -> SUBSET SUBSET Keys]
          /\ \A b \in Batches : AtMostOne(manifest'[b])
      BY <1>5 DEF PurgeLast, AtMostOne
    <2>5. /\ held' \in [Batches -> [Keys -> SUBSET Version]]
          /\ owed' \in [Keys -> SUBSET Version]
      BY <2>1, DeleteType
    <2>6. UNCHANGED <<live, audit, now, writes, contended>>
      BY <2>1 DEF Delete
    <2>7. dropped' \in SUBSET Batches /\ (dropped' # {} => DeleteErrors)
      BY <1>j, <2>1, DroppedType DEF Job
    <2> QED
      BY <2>3, <2>4, <2>5, <2>6, <2>7
  <1> QED
    BY <1>1, <1>2, <1>3, <1>4, <1>5 DEF PurgeStep

LEMMA TypeAudit ==
  ASSUME TypeOK, NEW j \in Jobs, ReadLog(j) \/ WriteLog(j)
  PROVE  TypeOK'
  <1>1. job[j] \in Job
    BY DEF TypeOK
  <1>2. CASE ReadLog(j)
    <2>1. job' \in [Jobs -> Job]
      BY <1>1, <1>2, SetType DEF ReadLog, TypeOK, Job, Pcs
    <2> QED
      BY <1>2, <2>1 DEF ReadLog, TypeOK, storage, history
  <1>3. CASE WriteLog(j)
    <2>1. audit' \in SUBSET Line
      BY <1>1, <1>3 DEF WriteLog, AuditLine, TypeOK, Job, Line
    <2>2. job' \in [Jobs -> Job]
      <3>1. CASE Set(j, [job[j] EXCEPT !.pc = "done", !.more = {}, !.log = {}])
        BY <1>1, <3>1, SetType DEF Job, Pcs
      <3>2. CASE TakeOldest(j, job[j].more \ Current(j))
        <4>1. job[j].more \ Current(j) \in SUBSET Listing
          BY <1>1 DEF Job
        <4> QED
          BY <3>2, <4>1, TakeType
      <3> QED
        BY <1>3, <3>1, <3>2 DEF WriteLog
    <2> QED
      BY <1>3, <2>1, <2>2 DEF WriteLog, TypeOK, history
  <1> QED
    BY <1>2, <1>3

LEMMA TypeClient ==
  ASSUME TypeOK, NEW k \in Keys, ClientWrite(k) \/ ClientDelete(k)
  PROVE  TypeOK'
  <1>1. PICK versions \in SUBSET Version :
           Touch(k, versions) /\ writes' \in Version
    <2>1. CASE ClientWrite(k)
      BY <2>1, BoundsAssumption DEF ClientWrite, TypeOK, Version
    <2>2. CASE ClientDelete(k)
      BY <2>2 DEF ClientDelete, TypeOK
    <2> QED
      BY <2>1, <2>2
  <1> QED
    BY <1>1 DEF Touch, TypeOK, Batches

LEMMA TypeStep == TypeOK /\ [Next]_vars => TypeOK'
  <1> SUFFICES ASSUME TypeOK, [Next]_vars
               PROVE  TypeOK'
    OBVIOUS
  <1>1. ASSUME NEW j \in Jobs, JobStep(j)
        PROVE  TypeOK'
    BY <1>1, TypeQuarantine, TypeRestore, TypeFail, TypePurge, TypeAudit DEF JobStep
  <1>2. ASSUME NEW j \in Jobs, Stop(j)
        PROVE  TypeOK'
    <2>1. job[j] \in Job
      BY DEF TypeOK
    <2>2. job' \in [Jobs -> Job]
      BY <1>2, <2>1, SetType DEF Stop, Job, Pcs
    <2> QED
      BY <1>2, <2>2 DEF Stop, TypeOK, storage, history, Batches
  <1>3. ASSUME NEW k \in Keys, ClientWrite(k) \/ ClientDelete(k)
        PROVE  TypeOK'
    BY <1>3, TypeClient
  <1>4. CASE Tick
    BY <1>4, BoundsAssumption DEF Tick, TypeOK, Batches, storage, history
  <1>5. CASE UNCHANGED vars
    BY <1>5 DEF vars, TypeOK, Batches, storage, history
  <1> QED
    BY <1>1, <1>2, <1>3, <1>4, <1>5 DEF Next

(* Objects, copies, manifests, log lines and jobs keep their types, and a  *)
(* batch never has more than one manifest.                                 *)
THEOREM TypeCorrect == Spec => []TypeOK
  BY TypeInit, TypeStep, PTL DEF Spec

-----------------------------------------------------------------------------
(* The bookkeeping of jobs that Preserved rests on.                        *)

(* A lock lets one of its jobs in at a time. *)
Exclusive == \A i, j \in Jobs : Inside(i) /\ Inside(j) /\ LockOf[i] = LockOf[j] => i = j

(* Half-moved objects belong to jobs in the pool or dead, and what a purge *)
(* was told to delete was forced or had expired when it was listed.        *)
Due(r, b) == r.opt \/ PurgeAfter(b) <= now
Sound(r) == /\ r.mid # {} => r.pc \in {"moving", "failing", "stopped"} /\ r.op # "purge"
            /\ r.pc = "idle" => r.mid = {} /\ r.moved = {} /\ r.more = {}
            /\ r.op # "purge" => r.more = {} /\ r.pc \notin {"listed", "purging"}
            /\ r.op = "purge" => r.pc \notin {"opening", "moving", "failing"}
            /\ r.pc = "opening" => r.op = "restore"
            /\ \A m \in r.more : Due(r, m.batch)
            /\ r.pc = "purging" => \E m \in r.more : m.batch = r.batch /\ r.todo \subseteq m.keys

(* What a job may still delete, or put on a manifest, and what is listed.  *)
Refers(r, b, k) ==
    \/ r.op = "restore" /\ r.batch = b /\ k \in r.todo \cup r.mid \cup r.kept
    \/ \E m \in r.more : m.batch = b /\ k \in m.keys
Known(b, k) == (\E K \in manifest[b] : k \in K) \/ \E i \in Jobs : Refers(job[i], b, k)

(* Whatever is listed was moved by a quarantine whose pool is drained.     *)
Settles(r, b, k) == /\ r.op = "quarantine" /\ r.batch = b /\ k \in r.moved
                    /\ r.pc \in {"logging", "appending", "done", "stopped"}
Traced == \A b \in Batches, k \in Keys :
             Known(b, k) => \E i \in Jobs : Settles(job[i], b, k)

(* Where jobs work under several locks, no two quarantines have moved the  *)
(* same key to the same batch.                                             *)
Took(r, b, k) == /\ r.op = "quarantine" /\ r.pc # "idle" /\ r.batch = b
                 /\ k \in r.mid \cup r.moved
Single == Apart => \A k \in Keys \ contended, b \in Batches, i, j \in Jobs :
                      Took(job[i], b, k) /\ Took(job[j], b, k) => i = j

PlanInv == Exclusive /\ (\A j \in Jobs : Sound(job[j])) /\ Traced /\ Single

(* While a quarantine is between the copy and the delete of a move, no job *)
(* at work will delete the copy.                                           *)
NoClash == \A k \in Keys \ contended, i, j \in Jobs :
              /\ Inside(i) /\ Inside(j)
              /\ job[j].op = "quarantine" /\ k \in job[j].mid
              => ~Refers(job[i], job[j].batch, k)

LEMMA PlanInit == Init => PlanInv
  <1> SUFFICES ASSUME Init PROVE PlanInv
    OBVIOUS
  <1>1. \A j \in Jobs : /\ job[j].pc = "idle" /\ job[j].todo = {} /\ job[j].mid = {}
                        /\ job[j].moved = {} /\ job[j].kept = {} /\ job[j].more = {}
    BY DEF Init
  <1>2. \A b \in Batches : manifest[b] = {}
    BY DEF Init
  <1>3. Exclusive /\ \A j \in Jobs : Sound(job[j])
    BY <1>1 DEF Exclusive, Inside, Sound
  <1>4. Traced
    BY <1>1, <1>2 DEF Traced, Known, Refers
  <1>5. Single
    BY <1>1 DEF Single, Took
  <1> QED
    BY <1>3, <1>4, <1>5 DEF PlanInv

(* A step that changes one job keeps PlanInv if the new record is sound, if*)
(* the job was inside before or finds its lock free, if all it refers to   *)
(* was known, and if what it has newly taken nobody else took.             *)
LEMMA PlanSet ==
  ASSUME TypeOK, PlanInv, NEW j \in Jobs, NEW new \in Job, Set(j, new),
         UNCHANGED now, contended \subseteq contended',
         new.pc \in {"opening", "moving", "failing", "purging", "logging", "appending"}
            => Inside(j) \/ Free(j),
         Sound(new),
         \A b \in Batches, k \in Keys : Refers(new, b, k) => Known(b, k),
         \A b \in Batches : \A K \in manifest'[b] : \A k \in K :
            Known(b, k) \/ Settles(new, b, k),
         \A b \in Batches, k \in Keys : Settles(job[j], b, k) => Settles(new, b, k),
         \A b \in Batches, k \in Keys :
            Took(new, b, k) => \/ Took(job[j], b, k)
                               \/ k \in contended' \/ ~Apart
                               \/ \A i \in Jobs \ {j} : ~Took(job[i], b, k)
  PROVE  PlanInv'
  <1>1. job'[j] = new /\ \A i \in Jobs : i # j => job'[i] = job[i]
    BY DEF TypeOK, Set
  <1>2. Exclusive'
    BY <1>1 DEF PlanInv, Exclusive, Inside, Free
  <1>3. ASSUME NEW i \in Jobs
        PROVE  Sound(job[i])'
    <2>1. CASE i = j
      BY <1>1, <2>1 DEF Sound, Due, PurgeAfter
    <2>2. CASE i # j
      BY <1>1, <2>2 DEF PlanInv, Sound, Due, PurgeAfter
    <2> QED
      BY <2>1, <2>2
  <1>4. Traced'
    <2> SUFFICES ASSUME NEW b \in Batches, NEW k \in Keys, Known(b, k)'
                 PROVE  \E i \in Jobs : Settles(job'[i], b, k)
      BY DEF Traced, Batches, Settles
    <2>1. Known(b, k) \/ Settles(new, b, k)
      BY <1>1 DEF Known, Refers
    <2>2. CASE Settles(new, b, k)
      BY <1>1, <2>2
    <2>3. CASE Known(b, k)
      <3>1. PICK i \in Jobs : Settles(job[i], b, k)
        BY <2>3 DEF PlanInv, Traced
      <3> QED
        BY <1>1, <3>1
    <2> QED
      BY <2>1, <2>2, <2>3
  <1>5. Single'
    <2> SUFFICES ASSUME Apart, NEW k \in Keys \ contended', NEW b \in Batches,
                        NEW i \in Jobs, NEW h \in Jobs,
                        Took(job'[i], b, k), Took(job'[h], b, k)
                 PROVE  i = h
      BY DEF Single, Batches, Took, Apart
    <2>1. CASE i # j /\ h # j
      BY <1>1, <2>1 DEF PlanInv, Single
    <2>2. CASE Took(job[j], b, k)
      BY <1>1, <2>2 DEF PlanInv, Single
    <2>3. CASE \A x \in Jobs \ {j} : ~Took(job[x], b, k)
      BY <1>1, <2>3
    <2> QED
      BY <1>1, <2>1, <2>2, <2>3
  <1> QED
    BY <1>2, <1>3, <1>4, <1>5 DEF PlanInv

(* A step of a quarantine or a restore at work that refers to no more and  *)
(* has taken no more than before, and forgets nothing it moved.            *)
LEMMA PlanPool ==
  ASSUME TypeOK, PlanInv, NEW j \in Jobs, NEW new \in Job, Set(j, new),
         UNCHANGED <<now, manifest>>, contended \subseteq contended',
         Inside(j), job[j].op # "purge",
         new.pc \in {"moving", "failing", "logging", "appending", "done", "stopped"},
         job[j].pc \in {"logging", "appending"}
            => new.pc \in {"logging", "appending", "done", "stopped"},
         new.mid # {} => new.pc \in {"moving", "failing", "stopped"},
         new.op = job[j].op, new.batch = job[j].batch, new.more = {},
         new.todo \cup new.mid \cup new.kept
            \subseteq job[j].todo \cup job[j].mid \cup job[j].kept,
         new.op = "quarantine" => /\ new.mid \cup new.moved \subseteq job[j].mid \cup job[j].moved
                                  /\ job[j].moved \subseteq new.moved
  PROVE  PlanInv'
  <1>1. Sound(job[j]) /\ job[j].pc # "idle"
    BY DEF PlanInv, Inside
  <1>2. Sound(new)
    BY <1>1 DEF Sound
  <1>3. \A b \in Batches, k \in Keys : Refers(new, b, k) => Known(b, k)
    BY DEF Refers, Known
  <1>4. \A b \in Batches : \A K \in manifest'[b] : \A k \in K : Known(b, k)
    BY DEF Known
  <1>5. \A b \in Batches, k \in Keys : Settles(job[j], b, k) => Settles(new, b, k)
    BY DEF Settles, Inside
  <1>6. \A b \in Batches, k \in Keys : Took(new, b, k) => Took(job[j], b, k)
    BY <1>1 DEF Took
  <1> QED
    BY <1>2, <1>3, <1>4, <1>5, <1>6, PlanSet

LEMMA PlanQuarantine ==
  ASSUME TypeOK, PlanInv, NEW j \in Jobs, QuarantineStep(j)
  PROVE  PlanInv'
  <1>j. job[j] \in Job /\ Sound(job[j])
    BY DEF TypeOK, PlanInv
  <1>1. CASE StartQuarantine(j)
    <2>1. PICK C \in SUBSET Keys :
             Set(j, [job[j] EXCEPT !.pc = "moving", !.batch = now, !.todo = C])
      BY <1>1 DEF StartQuarantine
    <2> DEFINE new == [job[j] EXCEPT !.pc = "moving", !.batch = now, !.todo = C]
    <2>2. /\ new \in Job /\ new.pc = "moving" /\ new.op = job[j].op /\ new.batch = now
          /\ new.more = job[j].more /\ new.mid = job[j].mid /\ new.moved = job[j].moved
      BY <1>j DEF Job, Pcs, TypeOK
    <2>3. /\ job[j].op = "quarantine" /\ job[j].pc = "idle" /\ Free(j)
          /\ UNCHANGED <<now, manifest, contended>>
      BY <1>1 DEF StartQuarantine, Idle, storage, history
    <2>4. job[j].more = {} /\ job[j].mid = {} /\ job[j].moved = {}
      BY <1>j, <2>3 DEF Sound
    <2>5. Set(j, new)
      BY <2>1
    <2> HIDE DEF new
    <2>6. Sound(new)
      BY <2>2, <2>3, <2>4 DEF Sound
    <2>7. \A b \in Batches, k \in Keys :
             ~Refers(new, b, k) /\ ~Settles(job[j], b, k) /\ ~Took(new, b, k)
      BY <2>2, <2>3, <2>4 DEF Refers, Settles, Took
    <2>8. \A b \in Batches : \A K \in manifest'[b] : \A k \in K : Known(b, k)
      BY <2>3 DEF Known
    <2> QED
      BY <2>2, <2>3, <2>5, <2>6, <2>7, <2>8, PlanSet
  <1>3. CASE WriteManifest(j)
    <2> DEFINE new == [job[j] EXCEPT !.pc = "logging"]
    <2>1. /\ new \in Job /\ new.pc = "logging" /\ new.op = job[j].op /\ new.batch = job[j].batch
          /\ new.more = job[j].more /\ new.mid = job[j].mid /\ new.moved = job[j].moved
          /\ job[j].batch \in Batches
      BY <1>j DEF Job, Pcs
    <2>2. /\ job[j].op = "quarantine" /\ job[j].pc = "moving" /\ job[j].mid = {}
          /\ Set(j, new) /\ Inside(j) /\ UNCHANGED <<now, contended>>
          /\ manifest' = [manifest EXCEPT ![job[j].batch] = {job[j].moved}]
      BY <1>3 DEF WriteManifest, Drained, Inside, history
    <2> HIDE DEF new
    <2>3. Sound(new)
      BY <1>j, <2>1, <2>2 DEF Sound
    <2>4. \A b \in Batches, k \in Keys :
             /\ ~Refers(new, b, k) /\ ~Settles(job[j], b, k)
             /\ Took(new, b, k) => Took(job[j], b, k)
      BY <1>j, <2>1, <2>2 DEF Refers, Settles, Took, Sound
    <2>5. \A b \in Batches : \A K \in manifest'[b] : \A k \in K :
             Known(b, k) \/ Settles(new, b, k)
      BY <2>1, <2>2 DEF Known, Settles, TypeOK
    <2> QED
      BY <2>1, <2>2, <2>3, <2>4, <2>5, PlanSet
  <1>4. ASSUME NEW k \in Keys, CopyOut(j, k)
        PROVE  PlanInv'
    <2> DEFINE new == [job[j] EXCEPT !.todo = @ \ {k}, !.mid = @ \cup {k}]
    <2>1. /\ new \in Job /\ new.pc = job[j].pc /\ new.op = job[j].op /\ new.batch = job[j].batch
          /\ new.more = job[j].more /\ new.mid = job[j].mid \cup {k} /\ new.moved = job[j].moved
          /\ job[j].batch \in Batches
      BY <1>4, <1>j DEF CopyOut, Job
    <2>2. /\ job[j].op = "quarantine" /\ job[j].pc \in {"moving", "failing"}
          /\ Set(j, new) /\ Inside(j) /\ UNCHANGED <<now, manifest>>
          /\ contended' = contended \cup {x \in {k} : Apart /\ SharedId(job[j].batch)}
      BY <1>4 DEF CopyOut, Pool, Inside
    <2> HIDE DEF new
    <2>3. Sound(new)
      BY <1>j, <2>1, <2>2 DEF Sound
    <2>4. \A b \in Batches, x \in Keys : ~Refers(new, b, x) /\ ~Settles(job[j], b, x)
      BY <1>j, <2>1, <2>2 DEF Refers, Settles, Sound
    <2>5. \A b \in Batches : \A K \in manifest'[b] : \A x \in K : Known(b, x)
      BY <2>2 DEF Known
    <2>6. ASSUME NEW b \in Batches, NEW x \in Keys, Took(new, b, x), ~Took(job[j], b, x),
                 Apart, x \notin contended'
          PROVE  \A i \in Jobs \ {j} : ~Took(job[i], b, x)
      <3>1. x = k /\ b = job[j].batch
        BY <2>1, <2>2, <2>6 DEF Took
      <3>2. ~SharedId(job[j].batch)
        BY <2>2, <2>6, <3>1
      <3>3. j \in QuarantinesOf(b)
        BY <2>2, <3>1 DEF QuarantinesOf
      <3> QED
        BY <3>1, <3>2, <3>3 DEF SharedId, QuarantinesOf, Took
    <2> QED
      BY <2>1, <2>2, <2>3, <2>4, <2>5, <2>6, PlanSet
  <1>6. ASSUME NEW k \in Keys, DeleteOut(j, k)
        PROVE  PlanInv'
    <2> DEFINE new == [job[j] EXCEPT !.mid = @ \ {k}, !.moved = @ \cup {k}]
    <2>1. /\ new \in Job /\ new.pc = job[j].pc /\ new.op = job[j].op /\ new.batch = job[j].batch
          /\ new.more = job[j].more /\ new.todo = job[j].todo /\ new.kept = job[j].kept
          /\ new.mid = job[j].mid \ {k} /\ new.moved = job[j].moved \cup {k}
      BY <1>6, <1>j DEF DeleteOut, Job
    <2>2. /\ job[j].op = "quarantine" /\ job[j].pc \in {"moving", "failing"} /\ k \in job[j].mid
          /\ Set(j, new) /\ Inside(j) /\ UNCHANGED <<now, manifest, contended>>
      BY <1>6 DEF DeleteOut, Pool, Inside, history
    <2>3. new.more = {}
      BY <1>j, <2>1, <2>2 DEF Sound
    <2> HIDE DEF new
    <2> QED
      BY <2>1, <2>2, <2>3, PlanPool
  <1> QED
    BY <1>1, <1>3, <1>4, <1>6 DEF QuarantineStep

LEMMA PlanFail ==
  ASSUME TypeOK, PlanInv, NEW j \in Jobs, FailStep(j)
  PROVE  PlanInv'
  <1>j. job[j] \in Job /\ Sound(job[j])
    BY DEF TypeOK, PlanInv
  <1>1. CASE FailPool(j)
    <2> DEFINE new == [job[j] EXCEPT !.pc = "stopped"]
    <2>1. /\ new \in Job /\ new.pc = "stopped" /\ new.op = job[j].op /\ new.batch = job[j].batch
          /\ new.more = job[j].more /\ new.todo = job[j].todo /\ new.kept = job[j].kept
          /\ new.mid = job[j].mid /\ new.moved = job[j].moved
      BY <1>j DEF Job, Pcs
    <2>2. /\ job[j].pc = "failing" /\ Inside(j) /\ UNCHANGED <<now, manifest, contended>>
          /\ Set(j, new)
      BY <1>1 DEF FailPool, Inside, storage, history
    <2> HIDE DEF new
    <2>3. job[j].op # "purge" /\ new.more = {}
      BY <1>j, <2>1, <2>2 DEF Sound
    <2> QED
      BY <2>1, <2>2, <2>3, PlanPool
  <1>2. ASSUME NEW k \in Keys, CopyRaises(j, k)
        PROVE  PlanInv'
    <2> DEFINE new == [job[j] EXCEPT !.pc = "failing", !.todo = @ \ {k}]
    <2>1. /\ new \in Job /\ new.pc = "failing" /\ new.op = job[j].op /\ new.batch = job[j].batch
          /\ new.more = job[j].more /\ new.todo = job[j].todo \ {k} /\ new.kept = job[j].kept
          /\ new.mid = job[j].mid /\ new.moved = job[j].moved
      BY <1>j DEF Job, Pcs
    <2>2. /\ job[j].pc \in {"moving", "failing"} /\ job[j].op # "purge"
          /\ Inside(j) /\ UNCHANGED <<now, manifest, contended>> /\ Set(j, new)
      BY <1>2 DEF CopyRaises, Missing, Pool, Inside, storage, history
    <2>3. new.more = {}
      BY <1>j, <2>1, <2>2 DEF Sound
    <2> HIDE DEF new
    <2> QED
      BY <2>1, <2>2, <2>3, PlanPool
  <1> QED
    BY <1>1, <1>2 DEF FailStep

LEMMA PlanRestore ==
  ASSUME TypeOK, PlanInv, NEW j \in Jobs, RestoreStep(j)
  PROVE  PlanInv'
  <1>j. job[j] \in Job /\ Sound(job[j])
    BY DEF TypeOK, PlanInv
  <1>1. CASE StartRestore(j)
    <2>1. PICK new \in Job, b \in Batches : \E entries \in manifest[b] :
             /\ Set(j, new)
             /\ new.pc = "opening" /\ new.op = "restore" /\ new.batch = b
             /\ new.todo \cup new.kept = entries
             /\ new.mid = job[j].mid /\ new.moved = job[j].moved
             /\ new.more = job[j].more
      BY <1>1, RestoreStarts
    <2>2. /\ job[j].op = "restore" /\ job[j].pc = "idle" /\ Free(j)
          /\ UNCHANGED <<now, manifest, contended>>
      BY <1>1 DEF StartRestore, Idle, storage, history
    <2>3. job[j].mid = {} /\ job[j].more = {}
      BY <1>j, <2>2 DEF Sound
    <2>4. Sound(new)
      BY <2>1, <2>3 DEF Sound
    <2>5. \A c \in Batches, k \in Keys :
             /\ Refers(new, c, k) => Known(c, k)
             /\ ~Settles(job[j], c, k) /\ ~Took(new, c, k)
      BY <2>1, <2>2, <2>3 DEF Refers, Known, Settles, Took
    <2>6. \A c \in Batches : \A K \in manifest'[c] : \A k \in K : Known(c, k)
      BY <2>2 DEF Known
    <2> QED
      BY <2>1, <2>2, <2>4, <2>5, <2>6, PlanSet
  <1>2. CASE UnknownKeys(j)
    BY <1>2, <1>j, PlanPool DEF UnknownKeys, Drained, Inside, Sound, storage, history, Job, Pcs
  <1>3. CASE SaveManifest(j)
    <2> DEFINE new == [job[j] EXCEPT !.pc = "logging"]
    <2>1. /\ new \in Job /\ new.pc = "logging" /\ new.op = job[j].op /\ new.batch = job[j].batch
          /\ new.more = job[j].more /\ new.mid = job[j].mid /\ new.todo = job[j].todo
          /\ new.kept = job[j].kept /\ job[j].batch \in Batches
      BY <1>j DEF Job, Pcs
    <2>2. /\ job[j].op = "restore" /\ job[j].pc = "moving" /\ job[j].mid = {}
          /\ Set(j, new) /\ Inside(j) /\ UNCHANGED <<now, contended>>
          /\ manifest' = [manifest EXCEPT ![job[j].batch] =
                             IF job[j].kept = {} THEN {} ELSE {job[j].kept}]
      BY <1>3 DEF SaveManifest, Drained, Inside, history
    <2> HIDE DEF new
    <2>3. Sound(new)
      BY <1>j, <2>1, <2>2 DEF Sound
    <2>4. \A b \in Batches, k \in Keys :
             /\ Refers(new, b, k) => Known(b, k)
             /\ ~Settles(job[j], b, k) /\ ~Took(new, b, k)
      BY <2>1, <2>2 DEF Refers, Known, Settles, Took
    <2>5. \A b \in Batches : \A K \in manifest'[b] : \A k \in K : Known(b, k)
      <3> SUFFICES ASSUME NEW b \in Batches, NEW K \in manifest'[b], NEW k \in K
                   PROVE  Known(b, k)
        OBVIOUS
      <3>1. CASE K \in manifest[b]
        BY <3>1 DEF Known
      <3>2. CASE b = job[j].batch /\ K = job[j].kept
        BY <2>2, <3>2 DEF Known, Refers
      <3> QED
        BY <2>1, <2>2, <3>1, <3>2 DEF TypeOK
    <2> QED
      BY <2>1, <2>2, <2>3, <2>4, <2>5, PlanSet
  <1>4. ASSUME NEW k \in Keys, CopyBack(j, k)
        PROVE  PlanInv'
    BY <1>4, <1>j, PlanPool DEF CopyBack, Pool, Inside, Sound, history, Job
  <1>5. ASSUME NEW k \in Keys, DeleteCopy(j, k)
        PROVE  PlanInv'
    BY <1>5, <1>j, PlanPool DEF DeleteCopy, Pool, Inside, Sound, history, Job
  <1>6. CASE ListCopies(j)
    <2>1. PICK present \in SUBSET job[j].todo :
             Set(j, [job[j] EXCEPT !.pc = "moving", !.todo = present,
                                   !.moved = job[j].todo \ present])
      BY <1>6 DEF ListCopies
    <2> DEFINE new == [job[j] EXCEPT !.pc = "moving", !.todo = present,
                                     !.moved = job[j].todo \ present]
    <2>2. /\ new \in Job /\ new.pc = "moving" /\ new.op = job[j].op /\ new.batch = job[j].batch
          /\ new.more = job[j].more /\ new.mid = job[j].mid /\ new.todo = present
          /\ new.kept = job[j].kept
      BY <1>j DEF Job, Pcs
    <2>3. /\ job[j].pc = "opening" /\ Inside(j) /\ UNCHANGED <<now, manifest, contended>>
      BY <1>6 DEF ListCopies, Inside, storage, history
    <2>4. job[j].op = "restore" /\ job[j].more = {}
      BY <1>j, <2>3 DEF Sound
    <2>5. Set(j, new)
      BY <2>1
    <2> HIDE DEF new
    <2> QED
      BY <2>2, <2>3, <2>4, <2>5, PlanPool
  <1> QED
    BY <1>1, <1>2, <1>3, <1>4, <1>5, <1>6 DEF RestoreStep

(* A step of a purge that puts nothing on its list nor on a manifest. *)
LEMMA PlanPurging ==
  ASSUME TypeOK, PlanInv, NEW j \in Jobs, NEW new \in Job, Set(j, new),
         UNCHANGED <<now, contended>>,
         \A b \in Batches : manifest'[b] \subseteq manifest[b],
         new.pc \in {"opening", "moving", "failing", "purging", "logging", "appending"}
            => Inside(j) \/ Free(j),
         job[j].op = "purge", new.op = "purge", Sound(new),
         \A m \in new.more : m \in job[j].more \cup Stored
  PROVE  PlanInv'
  <1>1. \A b \in Batches, k \in Keys :
           /\ Refers(new, b, k) => Known(b, k)
           /\ ~Settles(job[j], b, k) /\ ~Took(new, b, k)
    BY DEF Refers, Known, Settles, Took, Stored
  <1>2. \A b \in Batches : \A K \in manifest'[b] : \A k \in K : Known(b, k)
    BY DEF Known
  <1> QED
    BY <1>1, <1>2, PlanSet

(* Taking the next batch of a purge, inside the lock or on the way in. *)
LEMMA PlanTake ==
  ASSUME TypeOK, PlanInv, NEW j \in Jobs, NEW ms \in SUBSET job[j].more,
         TakeOldest(j, ms), UNCHANGED <<now, manifest, contended>>,
         Inside(j) \/ Free(j)
  PROVE  PlanInv'
  <1>1. PICK m \in ms :
           Set(j, [job[j] EXCEPT !.pc = "purging", !.more = ms,
                                 !.batch = m.batch, !.todo = m.keys, !.log = {}])
    BY DEF TakeOldest
  <1>2. job[j] \in Job /\ Sound(job[j]) /\ m \in Listing
    BY DEF TypeOK, PlanInv, Job
  <1> DEFINE new == [job[j] EXCEPT !.pc = "purging", !.more = ms,
                                   !.batch = m.batch, !.todo = m.keys, !.log = {}]
  <1>3. /\ new \in Job /\ new.pc = "purging" /\ new.more = ms /\ new.todo = m.keys
        /\ new.batch = m.batch /\ new.opt = job[j].opt /\ new.mid = job[j].mid
        /\ new.op = job[j].op
    BY <1>2 DEF Job, Pcs, Listing
  <1>4. job[j].op = "purge" /\ job[j].mid = {}
    BY <1>2 DEF Sound
  <1> HIDE DEF new
  <1>5. Sound(new)
    BY <1>2, <1>3, <1>4 DEF Sound, Due
  <1>6. Set(j, new)
    BY <1>1 DEF new
  <1> QED
    BY <1>3, <1>4, <1>5, <1>6, PlanPurging

LEMMA PlanPurge ==
  ASSUME TypeOK, PlanInv, NEW j \in Jobs, PurgeStep(j)
  PROVE  PlanInv'
  <1>j. job[j] \in Job /\ Sound(job[j])
    BY DEF TypeOK, PlanInv
  <1>1. CASE ListBatches(j)
    <2>1. PICK force \in BOOLEAN, chosen \in SUBSET Stored :
             /\ \A m \in chosen : force \/ IsExpired(m.batch)
             /\ Set(j, [job[j] EXCEPT !.pc = "listed", !.opt = force, !.more = chosen])
      BY <1>1 DEF ListBatches
    <2> DEFINE new == [job[j] EXCEPT !.pc = "listed", !.opt = force, !.more = chosen]
    <2>2. chosen \in SUBSET Listing
      BY DEF Stored, Listing, TypeOK
    <2>3. /\ new \in Job /\ new.pc = "listed" /\ new.more = chosen
          /\ new.opt = force /\ new.mid = job[j].mid /\ new.op = job[j].op
      BY <1>j, <2>2 DEF Job, Pcs
    <2>4. job[j].op = "purge" /\ job[j].pc = "idle" /\ UNCHANGED <<now, manifest, contended>>
      BY <1>1 DEF ListBatches, Idle, storage, history
    <2>5. Set(j, new)
      BY <2>1
    <2> HIDE DEF new
    <2>6. Sound(new)
      BY <1>j, <2>1, <2>3, <2>4 DEF Sound, Due, IsExpired
    <2> QED
      BY <2>3, <2>4, <2>5, <2>6, PlanPurging
  <1>2. CASE StartPurge(j)
    BY <1>2, PlanTake DEF StartPurge, storage, history
  <1>3. CASE RefusePurge(j)
    <2> DEFINE new == [job[j] EXCEPT !.pc = "refused"]
    <2>1. /\ new \in Job /\ new.pc = "refused" /\ new.more = job[j].more /\ new.opt = job[j].opt
          /\ new.mid = job[j].mid /\ new.op = job[j].op
      BY <1>j DEF Job, Pcs
    <2>2. /\ job[j].pc = "listed" /\ Set(j, new) /\ UNCHANGED <<now, manifest, contended>>
      BY <1>3 DEF RefusePurge, storage, history
    <2> HIDE DEF new
    <2>3. job[j].op = "purge" /\ Sound(new)
      BY <1>j, <2>1, <2>2 DEF Sound, Due
    <2> QED
      BY <2>1, <2>2, <2>3, PlanPurging
  <1>4. CASE PurgeChunk(j)
    <2>1. PICK S \in SUBSET job[j].todo : Set(j, [job[j] EXCEPT !.todo = @ \ S])
      BY <1>4 DEF PurgeChunk
    <2> DEFINE new == [job[j] EXCEPT !.todo = @ \ S]
    <2>2. /\ new \in Job /\ new.pc = job[j].pc /\ new.more = job[j].more /\ new.opt = job[j].opt
          /\ new.mid = job[j].mid /\ new.op = job[j].op /\ new.batch = job[j].batch
          /\ new.todo = job[j].todo \ S
      BY <1>j DEF Job
    <2>3. job[j].pc = "purging" /\ Inside(j) /\ UNCHANGED <<now, manifest, contended>>
      BY <1>4 DEF PurgeChunk, Delete, Inside
    <2>4. Set(j, new)
      BY <2>1
    <2> HIDE DEF new
    <2>5. job[j].op = "purge" /\ Sound(new)
      BY <1>j, <2>2, <2>3 DEF Sound, Due
    <2> QED
      BY <2>2, <2>3, <2>4, <2>5, PlanPurging
  <1>5. CASE PurgeLast(j)
    <2>1. UNION {m.keys : m \in Current(j)} \in SUBSET Keys
      BY <1>j DEF Current, Job, Listing
    <2>2. PICK K \in SUBSET Keys :
             Set(j, [job[j] EXCEPT !.pc = "logging", !.todo = {}, !.moved = K])
      BY <1>5, <2>1 DEF PurgeLast
    <2> DEFINE new == [job[j] EXCEPT !.pc = "logging", !.todo = {}, !.moved = K]
    <2>3. /\ new \in Job /\ new.pc = "logging" /\ new.more = job[j].more /\ new.opt = job[j].opt
          /\ new.mid = job[j].mid /\ new.op = job[j].op
      BY <1>j DEF Job, Pcs
    <2>4. job[j].pc = "purging" /\ Inside(j) /\ UNCHANGED <<now, contended>>
      BY <1>5 DEF PurgeLast, Delete, Inside
    <2>5. \A b \in Batches : manifest'[b] \subseteq manifest[b]
      BY <1>5, <1>j DEF PurgeLast, TypeOK, Job
    <2>6. Set(j, new)
      BY <2>2
    <2> HIDE DEF new
    <2>7. job[j].op = "purge" /\ Sound(new)
      BY <1>j, <2>3, <2>4 DEF Sound, Due
    <2> QED
      BY <2>3, <2>4, <2>5, <2>6, <2>7, PlanPurging
  <1> QED
    BY <1>1, <1>2, <1>3, <1>4, <1>5 DEF PurgeStep

LEMMA PlanLog ==
  ASSUME TypeOK, PlanInv, NEW j \in Jobs, ReadLog(j) \/ WriteLog(j) \/ Stop(j)
  PROVE  PlanInv'
  <1>j. job[j] \in Job /\ Sound(job[j]) /\ Inside(j) /\ UNCHANGED <<now, manifest, contended>>
    BY DEF TypeOK, PlanInv, ReadLog, WriteLog, Stop, Inside, storage, history
  <1>1. ASSUME NEW new \in Job, Set(j, new), new.pc \in {"appending", "done", "stopped"},
               new.pc = "stopped" \/ job[j].pc \in {"logging", "appending"},
               new.op = job[j].op, new.batch = job[j].batch, new.opt = job[j].opt,
               new.todo = job[j].todo, new.mid = job[j].mid, new.kept = job[j].kept,
               new.moved = job[j].moved, new.more \in {{}, job[j].more}
        PROVE  PlanInv'
    <2>1. CASE job[j].op # "purge"
      <3>1. new.more = {} /\ (new.mid # {} => new.pc = "stopped")
        BY <1>j, <1>1, <2>1 DEF Sound
      <3> QED
        BY <1>j, <1>1, <2>1, <3>1, PlanPool
    <2>2. CASE job[j].op = "purge"
      <3>1. Sound(new)
        BY <1>j, <1>1, <2>2 DEF Sound, Due
      <3> QED
        BY <1>j, <1>1, <2>2, <3>1, PlanPurging
    <2> QED
      BY <2>1, <2>2
  <1>2. CASE ReadLog(j)
    BY <1>1, <1>2, <1>j DEF ReadLog, TypeOK, Job, Pcs
  <1>3. CASE WriteLog(j)
    <2>1. CASE Set(j, [job[j] EXCEPT !.pc = "done", !.more = {}, !.log = {}])
      BY <1>1, <1>3, <1>j, <2>1 DEF WriteLog, Job, Pcs
    <2>2. CASE TakeOldest(j, job[j].more \ Current(j))
      BY <1>j, <2>2, PlanTake
    <2> QED
      BY <1>3, <2>1, <2>2 DEF WriteLog
  <1>4. CASE Stop(j)
    BY <1>1, <1>4, <1>j DEF Stop, Job, Pcs
  <1> QED
    BY <1>2, <1>3, <1>4

LEMMA PlanStep == TypeOK /\ PlanInv /\ [Next]_vars => PlanInv'
  <1> SUFFICES ASSUME TypeOK, PlanInv, [Next]_vars
               PROVE  PlanInv'
    OBVIOUS
  <1>1. ASSUME NEW j \in Jobs, JobStep(j) \/ Stop(j)
        PROVE  PlanInv'
    BY <1>1, PlanQuarantine, PlanFail, PlanRestore, PlanPurge, PlanLog DEF JobStep
  <1>2. ASSUME UNCHANGED <<job, manifest>>, now' \in {now, now + 1}, contended \subseteq contended'
        PROVE  PlanInv'
    <2>1. Exclusive'
      BY <1>2 DEF PlanInv, Exclusive, Inside
    <2>2. ASSUME NEW j \in Jobs
          PROVE  Sound(job[j])'
      BY <1>2, RetentionAssumption, BoundsAssumption
         DEF PlanInv, Sound, Due, PurgeAfter, TypeOK, Job, Listing, Batches
    <2>3. Traced'
      BY <1>2 DEF PlanInv, Traced, Known, Refers, Settles, Batches
    <2>4. Single'
      BY <1>2 DEF PlanInv, Single, Apart, Took, Batches
    <2> QED
      BY <2>1, <2>2, <2>3, <2>4 DEF PlanInv
  <1>3. ASSUME NEW k \in Keys, ClientWrite(k) \/ ClientDelete(k)
        PROVE  PlanInv'
    BY <1>2, <1>3 DEF ClientWrite, ClientDelete, Touch
  <1>4. CASE Tick \/ UNCHANGED vars
    BY <1>2, <1>4 DEF Tick, vars, storage, history
  <1> QED
    BY <1>1, <1>3, <1>4 DEF Next

LEMMA ClashNever == TypeOK /\ PlanInv => NoClash
  <1> SUFFICES ASSUME TypeOK, PlanInv, NEW k \in Keys \ contended,
                      NEW i \in Jobs, NEW j \in Jobs, Inside(i), Inside(j),
                      job[j].op = "quarantine", k \in job[j].mid,
                      Refers(job[i], job[j].batch, k)
               PROVE  FALSE
    BY DEF NoClash
  <1>1. Sound(job[i]) /\ Sound(job[j]) /\ job[j].batch \in Batches
    BY DEF PlanInv, TypeOK, Job
  <1>2. i # j
    BY <1>1 DEF Refers, Sound
  <1>3. CASE ~Apart
    BY <1>2, <1>3 DEF PlanInv, Exclusive, Apart
  <1>4. CASE Apart
    <2>1. PICK h \in Jobs : Settles(job[h], job[j].batch, k)
      BY <1>1 DEF PlanInv, Traced, Known
    <2>2. Took(job[h], job[j].batch, k) /\ Took(job[j], job[j].batch, k)
      BY <2>1 DEF Settles, Took, Inside
    <2>3. h = j
      BY <1>1, <1>4, <2>2 DEF PlanInv, Single
    <2> QED
      BY <1>1, <2>1, <2>3 DEF Settles, Sound, Inside
  <1> QED
    BY <1>3, <1>4

-----------------------------------------------------------------------------
(* Preserved.  A version is copied before it is deleted, but deletes do    *)
(* not look: they are harmless because all copies of an object its owner   *)
(* left alone are the same version (Same), and because no move in flight   *)
(* will clear the last place of it (Somewhere): a quarantine's copy is     *)
(* there when its delete comes (MidHeld), and nobody deletes it before     *)
(* (NoClash), under one lock or several.                                   *)

OneOwed   == \A k \in Keys : AtMostOne(owed[k])
Same      == \A k \in Keys \ contended :
                AtMostOne(Copies(k)) /\ (owed[k] = {} \/ Copies(k) \subseteq owed[k])
Somewhere == \A k \in Keys \ contended : owed[k] = {} \/ Staying(k) # {}
MidHeld   == \A j \in Jobs : Inside(j) /\ job[j].op = "quarantine" =>
                \A k \in job[j].mid \ contended : held[job[j].batch][k] # {}

DataInv == OneOwed /\ Same /\ Somewhere /\ MidHeld

LEMMA StayingIsCopies == ASSUME NEW k \in Keys PROVE Staying(k) \subseteq Copies(k)
  BY DEF Staying, Copies

LEMMA DataGivesPreserved == DataInv => Preserved
  <1> SUFFICES ASSUME DataInv, NEW k \in Keys \ contended, NEW v \in owed[k]
               PROVE  v \in Copies(k)
    BY DEF Preserved
  <1>1. PICK w \in Copies(k) : TRUE
    BY StayingIsCopies DEF DataInv, Somewhere
  <1>2. w \in owed[k]
    BY <1>1 DEF DataInv, Same
  <1> QED
    BY <1>1, <1>2 DEF DataInv, OneOwed, AtMostOne

LEMMA DataInit == Init => DataInv
  <1> SUFFICES ASSUME Init PROVE DataInv
    OBVIOUS
  <1>1. \A j \in Jobs : ~Inside(j)
    BY DEF Init, Inside
  <1>2. \A k \in Keys : live[k] = {0} /\ owed[k] = {0} /\ \A b \in Batches : held[b][k] = {}
    BY DEF Init
  <1>3. ASSUME NEW k \in Keys PROVE Copies(k) = {0} /\ Staying(k) = {0}
    BY <1>1, <1>2 DEF Copies, Staying, Leaving, InFlight
  <1> QED
    BY <1>1, <1>2, <1>3 DEF DataInv, OneOwed, Same, Somewhere, MidHeld, AtMostOne

(* What is in flight after a step of one job. *)
LEMMA Flight ==
  ASSUME TypeOK, NEW j \in Jobs, NEW new \in Job, Set(j, new),
         NEW k \in Keys, NEW op, NEW b \in Batches, InFlight(k, op, b)'
  PROVE  \/ InFlight(k, op, b)
         \/ /\ new.pc \in {"opening", "moving", "failing", "purging", "logging", "appending"}
            /\ new.op = op /\ new.batch = b /\ k \in new.mid
  BY DEF TypeOK, Set, InFlight, Inside

LEMMA NoNewFlight ==
  ASSUME TypeOK, NEW j \in Jobs, NEW new \in Job, Set(j, new), Inside(j),
         new.op = job[j].op, new.batch = job[j].batch,
         NEW k \in Keys, k \in new.mid => k \in job[j].mid,
         NEW op, NEW b \in Batches, InFlight(k, op, b)'
  PROVE  InFlight(k, op, b)
  BY Flight DEF InFlight

(* An object whose places do not change, and of which no new move begins,  *)
(* stays where it stayed.                                                  *)
LEMMA StaysThere ==
  ASSUME NEW k \in Keys, live'[k] = live[k], \A b \in Batches : held'[b][k] = held[b][k],
         \A b \in Batches, op \in Ops : InFlight(k, op, b)' => InFlight(k, op, b)
  PROVE  Staying(k) \subseteq Staying(k)' /\ Copies(k)' = Copies(k)
  <1>1. Leaving(k)' => Leaving(k)
    BY DEF Leaving, Ops, Batches
  <1> QED
    BY <1>1 DEF Staying, Copies, Ops, Batches

(* A step that leaves the objects alone, and takes one job to a record     *)
(* whose half-moved objects it had before.                                 *)
LEMMA DataSet ==
  ASSUME TypeOK, DataInv, NEW j \in Jobs, NEW new \in Job, Set(j, new),
         UNCHANGED <<live, held, owed, contended>>,
         \/ new.mid = {}
         \/ new.pc = "stopped"
         \/ /\ Inside(j) /\ new.mid \subseteq job[j].mid
            /\ new.batch = job[j].batch /\ new.op = job[j].op
  PROVE  DataInv'
  <1>1. job'[j] = new /\ \A i \in Jobs : i # j => job'[i] = job[i]
    BY DEF TypeOK, Set
  <1>2. ASSUME NEW k \in Keys, NEW b \in Batches, NEW op \in Ops, InFlight(k, op, b)'
        PROVE  InFlight(k, op, b)
    BY <1>2, Flight DEF InFlight
  <1>3. \A k \in Keys : Staying(k) \subseteq Staying(k)' /\ Copies(k)' = Copies(k)
    BY <1>2, StaysThere
  <1>4. OneOwed' /\ Same' /\ Somewhere'
    BY <1>3 DEF DataInv, OneOwed, Same, Somewhere
  <1>5. MidHeld'
    BY <1>1 DEF DataInv, MidHeld, Inside
  <1> QED
    BY <1>4, <1>5 DEF DataInv

LEMMA DataQuarantine ==
  ASSUME TypeOK, PlanInv, DataInv, NoClash', NEW j \in Jobs, QuarantineStep(j)
  PROVE  DataInv'
  <1>j. job[j] \in Job /\ Sound(job[j])
    BY DEF TypeOK, PlanInv
  <1>1. CASE StartQuarantine(j)
    <2>1. PICK C \in SUBSET Keys :
             Set(j, [job[j] EXCEPT !.pc = "moving", !.batch = now, !.todo = C])
      BY <1>1 DEF StartQuarantine
    <2>2. job[j].mid = {}
      BY <1>1, <1>j DEF StartQuarantine, Idle, Sound
    <2>3. [job[j] EXCEPT !.pc = "moving", !.batch = now, !.todo = C] \in Job
      BY <1>j DEF Job, Pcs, TypeOK
    <2> QED
      BY <1>1, <1>j, <2>1, <2>2, <2>3, DataSet DEF StartQuarantine, storage, history, Job
  <1>3. CASE WriteManifest(j)
    BY <1>3, <1>j, DataSet DEF WriteManifest, Drained, history, Job, Pcs
  <1>4. ASSUME NEW k \in Keys, CopyOut(j, k)
        PROVE  DataInv'
    <2> DEFINE new == [job[j] EXCEPT !.todo = @ \ {k}, !.mid = @ \cup {k}]
    <2>1. /\ new \in Job /\ new.batch = job[j].batch /\ new.op = "quarantine"
          /\ new.mid = job[j].mid \cup {k} /\ new.pc = job[j].pc /\ job[j].batch \in Batches
      BY <1>4, <1>j DEF CopyOut, Pool, Job
    <2>2. /\ Set(j, new) /\ Inside(j) /\ UNCHANGED <<live, owed>> /\ contended \subseteq contended'
          /\ live[k] # {} /\ held' = [held EXCEPT ![job[j].batch][k] = live[k]]
          /\ job[j].op = "quarantine"
      BY <1>4 DEF CopyOut, Pool, Inside
    <2> HIDE DEF new
    <2>3. job'[j] = new /\ \A i \in Jobs : i # j => job'[i] = job[i]
      BY <2>2 DEF TypeOK, Set
    <2>4. \A b \in Batches, x \in Keys :
             held'[b][x] = IF b = job[j].batch /\ x = k THEN live[k] ELSE held[b][x]
      BY <2>1, <2>2 DEF TypeOK
    <2>5. ASSUME NEW x \in Keys, x # k
          PROVE  Staying(x) \subseteq Staying(x)' /\ Copies(x)' = Copies(x)
      <3>1. \A b \in Batches, op \in Ops : InFlight(x, op, b)' => InFlight(x, op, b)
        BY <2>1, <2>2, <2>5, NoNewFlight
      <3> QED
        BY <2>2, <2>4, <2>5, <3>1, StaysThere
    <2>6. Copies(k)' \subseteq Copies(k)
      BY <2>2, <2>4 DEF Copies, Batches
    <2>7. k \notin contended' => Staying(k)' # {}
      <3>1. PICK b \in Batches : b = job[j].batch
        BY <2>1
      <3>2. k \notin contended' => ~InFlight(k, "restore", b)'
        BY <2>1, <2>2, <2>3, <3>1 DEF NoClash, InFlight, Inside, Refers
      <3>3. held'[b][k] # {}
        BY <2>2, <2>4, <3>1
      <3> QED
        BY <3>2, <3>3 DEF Staying, Batches
    <2>8. OneOwed' /\ Somewhere'
      BY <2>2, <2>5, <2>7 DEF DataInv, OneOwed, Somewhere
    <2>9. Same'
      BY <2>2, <2>5, <2>6 DEF DataInv, Same, AtMostOne
    <2>10. MidHeld'
      <3>1. \A b \in Batches, x \in Keys : held[b][x] # {} => held'[b][x] # {}
        BY <2>2, <2>4
      <3>2. contended \subseteq contended'
        BY <2>2
      <3> QED
        BY <2>1, <2>2, <2>3, <2>4, <3>1, <3>2 DEF DataInv, MidHeld, Inside, TypeOK, Job
    <2> QED
      BY <2>8, <2>9, <2>10 DEF DataInv
  <1>6. ASSUME NEW k \in Keys, DeleteOut(j, k)
        PROVE  DataInv'
    <2> DEFINE new == [job[j] EXCEPT !.mid = @ \ {k}, !.moved = @ \cup {k}]
    <2>1. /\ new \in Job /\ new.batch = job[j].batch /\ new.op = "quarantine"
          /\ new.mid = job[j].mid \ {k} /\ new.pc = job[j].pc /\ job[j].batch \in Batches
      BY <1>6, <1>j DEF DeleteOut, Pool, Job
    <2>2. /\ Set(j, new) /\ Inside(j) /\ UNCHANGED <<held, owed, contended>>
          /\ live' = [live EXCEPT ![k] = {}] /\ k \in job[j].mid
          /\ job[j].op = "quarantine"
      BY <1>6 DEF DeleteOut, Pool, Inside, history
    <2> HIDE DEF new
    <2>3. job'[j] = new /\ \A i \in Jobs : i # j => job'[i] = job[i]
      BY <2>2 DEF TypeOK, Set
    <2>4. ASSUME NEW x \in Keys, NEW b \in Batches, NEW op \in Ops, InFlight(x, op, b)'
          PROVE  InFlight(x, op, b)
      BY <2>1, <2>2, <2>4, NoNewFlight
    <2>5. \A x \in Keys \ {k} : Staying(x) \subseteq Staying(x)' /\ Copies(x)' = Copies(x)
      BY <2>2, <2>4, StaysThere DEF TypeOK
    <2>6. Copies(k)' \subseteq Copies(k)
      BY <2>2 DEF Copies, Batches, TypeOK
    <2>7. Staying(k) \subseteq Staying(k)'
      <3>1. Leaving(k)
        BY <2>1, <2>2 DEF Leaving, InFlight
      <3> QED
        BY <2>2, <2>4, <3>1 DEF Staying, Batches, Ops
    <2>8. OneOwed' /\ Somewhere'
      BY <2>2, <2>5, <2>7 DEF DataInv, OneOwed, Somewhere
    <2>9. Same'
      BY <2>2, <2>5, <2>6 DEF DataInv, Same, AtMostOne
    <2>10. MidHeld'
      BY <2>1, <2>2, <2>3 DEF DataInv, MidHeld, Inside
    <2> QED
      BY <2>8, <2>9, <2>10 DEF DataInv
  <1> QED
    BY <1>1, <1>3, <1>4, <1>6 DEF QuarantineStep

LEMMA DataRestore ==
  ASSUME TypeOK, PlanInv, NoClash, DataInv, NEW j \in Jobs, RestoreStep(j)
  PROVE  DataInv'
  <1>j. job[j] \in Job /\ Sound(job[j])
    BY DEF TypeOK, PlanInv
  <1>1. CASE StartRestore(j)
    <2>1. PICK new \in Job : Set(j, new) /\ new.mid = job[j].mid
      BY <1>1, RestoreStarts
    <2>2. job[j].mid = {} /\ UNCHANGED <<live, held, owed, contended>>
      BY <1>1, <1>j DEF StartRestore, Idle, Sound, storage, history
    <2> QED
      BY <2>1, <2>2, DataSet
  <1>2. CASE UnknownKeys(j)
    BY <1>2, <1>j, DataSet DEF UnknownKeys, Drained, storage, history, Job, Pcs
  <1>3. CASE SaveManifest(j)
    BY <1>3, <1>j, DataSet DEF SaveManifest, Drained, history, Job, Pcs
  <1>4. ASSUME NEW k \in Keys, CopyBack(j, k)
        PROVE  DataInv'
    <2> DEFINE new == [job[j] EXCEPT !.todo = @ \ {k}, !.mid = @ \cup {k}]
               b0  == job[j].batch
    <2>1. /\ new \in Job /\ new.batch = b0 /\ new.op = "restore" /\ new.pc = job[j].pc
          /\ new.mid = job[j].mid \cup {k} /\ b0 \in Batches
      BY <1>4, <1>j DEF CopyBack, Pool, Job
    <2>2. /\ Set(j, new) /\ Inside(j) /\ UNCHANGED <<held, owed, contended>>
          /\ held[b0][k] # {} /\ job[j].op = "restore" /\ k \in job[j].todo
          /\ live' = [live EXCEPT ![k] = held[b0][k]]
      BY <1>4 DEF CopyBack, Pool, Inside, history
    <2> HIDE DEF new, b0
    <2>3. job'[j] = new /\ \A i \in Jobs : i # j => job'[i] = job[i]
      BY <2>2 DEF TypeOK, Set
    <2>4. ASSUME NEW x \in Keys \ {k}
          PROVE  Staying(x) \subseteq Staying(x)' /\ Copies(x)' = Copies(x)
      <3>1. \A b \in Batches, op \in Ops : InFlight(x, op, b)' => InFlight(x, op, b)
        BY <2>1, <2>2, <2>4, NoNewFlight DEF b0
      <3> QED
        BY <2>2, <2>4, <3>1, StaysThere DEF TypeOK
    <2>5. Copies(k)' \subseteq Copies(k)
      BY <2>1, <2>2 DEF Copies, Batches, TypeOK
    <2>6. k \notin contended => Staying(k)' # {}
      <3>1. CASE ~Leaving(k)'
        BY <2>2, <3>1 DEF Staying, TypeOK
      <3>2. CASE Leaving(k)' /\ k \notin contended
        <4>1. PICK b \in Batches : InFlight(k, "quarantine", b)'
          BY <3>2 DEF Leaving, Batches
        <4>2. PICK i \in Jobs : /\ Inside(i) /\ job[i].op = "quarantine"
                                /\ job[i].batch = b /\ k \in job[i].mid
          BY <2>1, <2>2, <4>1, Flight, SMTT(30) DEF InFlight
        <4>3. held[b][k] # {} /\ b # b0
          BY <2>2, <3>2, <4>2 DEF DataInv, MidHeld, NoClash, Refers, b0
        <4>4. ~InFlight(k, "restore", b)
          BY <3>2, <4>2 DEF NoClash, InFlight, Refers
        <4>5. ~InFlight(k, "restore", b)'
          BY <2>1, <2>2, <4>3, <4>4, Flight
        <4> QED
          BY <2>2, <4>3, <4>5 DEF Staying, Batches
      <3> QED
        BY <3>1, <3>2
    <2>7. OneOwed' /\ Somewhere'
      BY <2>2, <2>4, <2>6 DEF DataInv, OneOwed, Somewhere
    <2>8. Same'
      BY <2>2, <2>4, <2>5 DEF DataInv, Same, AtMostOne
    <2>9. MidHeld'
      BY <2>1, <2>2, <2>3 DEF DataInv, MidHeld, Inside
    <2> QED
      BY <2>7, <2>8, <2>9 DEF DataInv
  <1>5. ASSUME NEW k \in Keys, DeleteCopy(j, k)
        PROVE  DataInv'
    <2> DEFINE new == [job[j] EXCEPT !.mid = @ \ {k}, !.moved = @ \cup {k}]
               b0  == job[j].batch
    <2>1. /\ new \in Job /\ new.batch = b0 /\ new.op = "restore" /\ new.pc = job[j].pc
          /\ new.mid = job[j].mid \ {k} /\ b0 \in Batches
      BY <1>5, <1>j DEF DeleteCopy, Pool, Job
    <2>2. /\ Set(j, new) /\ Inside(j) /\ UNCHANGED <<live, owed, contended>>
          /\ job[j].op = "restore" /\ k \in job[j].mid
          /\ held' = [held EXCEPT ![b0][k] = {}]
      BY <1>5 DEF DeleteCopy, Pool, Inside, history
    <2>3. InFlight(k, "restore", b0)
      BY <2>2 DEF InFlight
    <2>4. \A i \in Jobs : Inside(i) /\ job[i].op = "quarantine" /\ job[i].batch = b0
                             => k \notin job[i].mid \ contended
      BY <2>2 DEF NoClash, Refers
    <2> HIDE DEF new, b0
    <2>5. job'[j] = new /\ \A i \in Jobs : i # j => job'[i] = job[i]
      BY <2>2 DEF TypeOK, Set
    <2>6. \A b \in Batches, x \in Keys :
             held'[b][x] = IF b = b0 /\ x = k THEN {} ELSE held[b][x]
      BY <2>1, <2>2 DEF TypeOK
    <2>7. ASSUME NEW x \in Keys, NEW b \in Batches, NEW op \in Ops, InFlight(x, op, b)'
          PROVE  InFlight(x, op, b)
      BY <2>1, <2>2, <2>7, NoNewFlight DEF b0
    <2>8. \A x \in Keys : Staying(x) \subseteq Staying(x)' /\ Copies(x)' \subseteq Copies(x)
      <3> SUFFICES ASSUME NEW x \in Keys
                   PROVE  Staying(x) \subseteq Staying(x)' /\ Copies(x)' \subseteq Copies(x)
        OBVIOUS
      <3>1. Leaving(x)' => Leaving(x)
        BY <2>7 DEF Leaving, Ops, Batches
      <3>2. \A b \in Batches : InFlight(x, "restore", b)' => InFlight(x, "restore", b)
        BY <2>7 DEF Ops
      <3> QED
        BY <2>2, <2>3, <2>6, <3>1, <3>2 DEF Staying, Copies, Batches
    <2>9. OneOwed' /\ Somewhere'
      BY <2>2, <2>8 DEF DataInv, OneOwed, Somewhere
    <2>10. Same'
      BY <2>2, <2>8 DEF DataInv, Same, AtMostOne
    <2>11. MidHeld'
      BY <2>1, <2>2, <2>4, <2>5, <2>6 DEF DataInv, MidHeld, Inside, TypeOK, Job
    <2> QED
      BY <2>9, <2>10, <2>11 DEF DataInv
  <1>6. CASE ListCopies(j)
    <2>1. PICK present \in SUBSET job[j].todo :
             Set(j, [job[j] EXCEPT !.pc = "moving", !.todo = present,
                                   !.moved = job[j].todo \ present])
      BY <1>6 DEF ListCopies
    <2>2. [job[j] EXCEPT !.pc = "moving", !.todo = present,
                         !.moved = job[j].todo \ present] \in Job
      BY <1>j DEF Job, Pcs
    <2>3. job[j].mid = {} /\ UNCHANGED <<live, held, owed, contended>>
      BY <1>6, <1>j DEF ListCopies, Sound, storage, history
    <2> QED
      BY <1>j, <2>1, <2>2, <2>3, DataSet DEF Job
  <1> QED
    BY <1>1, <1>2, <1>3, <1>4, <1>5, <1>6 DEF RestoreStep

(* A purge deletes copies no quarantine at work relies on, and drops from  *)
(* `owed' what then stays nowhere only when it is due, which it always is. *)
LEMMA DataDelete ==
  ASSUME TypeOK, PlanInv, NoClash, DataInv, NEW j \in Jobs, job[j].pc = "purging",
         NEW S \in SUBSET job[j].todo, Delete(j, S),
         NEW new \in Job, Set(j, new), new.mid = job[j].mid
  PROVE  DataInv'
  <1>1. /\ job[j] \in Job /\ Sound(job[j]) /\ Inside(j) /\ job[j].op = "purge"
        /\ job[j].mid = {} /\ S \in SUBSET Keys
    BY DEF TypeOK, PlanInv, Job, Sound, Inside
  <1>2. PICK b \in Batches : b = job[j].batch
    BY <1>1 DEF Job
  <1>0. PICK E \in SUBSET S :
           held' = [held EXCEPT ![job[j].batch] =
                       [k \in Keys |-> IF k \in S \ E THEN {} ELSE @[k]]]
    BY DEF Delete
  <1>3. held' = [held EXCEPT ![b] = [k \in Keys |-> IF k \in S \ E THEN {} ELSE @[k]]]
    BY <1>0, <1>2
  <1>4. UNCHANGED <<live, contended>>
    BY DEF Delete
  <1>5. \A c \in Batches, k \in Keys :
           held'[c][k] = IF c = b /\ k \in S \ E THEN {} ELSE held[c][k]
    BY <1>2, <1>3 DEF TypeOK
  <1>6. PICK m \in job[j].more : m.batch = b /\ job[j].todo \subseteq m.keys
    BY <1>1, <1>2 DEF Sound
  <1>7. \A k \in Keys : owed'[k] = IF k \in S /\ Staying(k)' = {} THEN {} ELSE owed[k]
    <2>1. job[j].opt \/ PurgeAfter(job[j].batch) <= now
      BY <1>1, <1>2, <1>6 DEF Sound, Due
    <2> QED
      BY <2>1 DEF Delete
  <1>8. ASSUME NEW k \in Keys, NEW c \in Batches, NEW op \in Ops, InFlight(k, op, c)'
        PROVE  InFlight(k, op, c)
    BY <1>1, <1>8, Flight
  <1>9. \A k \in Keys \ S : Staying(k) \subseteq Staying(k)'
    BY <1>4, <1>5, <1>8, StaysThere
  <1>10. \A k \in Keys : Copies(k)' \subseteq Copies(k)
    BY <1>4, <1>5 DEF Copies, Batches
  <1>11. job'[j] = new /\ \A i \in Jobs : i # j => job'[i] = job[i]
    BY DEF TypeOK, Set
  <1>12. OneOwed'
    BY <1>7 DEF DataInv, OneOwed, AtMostOne
  <1>13. Same'
    BY <1>4, <1>7, <1>10 DEF DataInv, Same, AtMostOne
  <1>14. Somewhere'
    <2> SUFFICES ASSUME NEW k \in Keys \ contended, owed'[k] # {}
                 PROVE  Staying(k)' # {}
      BY <1>4 DEF Somewhere
    <2>1. CASE k \in S
      BY <1>7, <2>1
    <2>2. CASE k \notin S
      BY <1>7, <1>9, <2>2 DEF DataInv, Somewhere
    <2> QED
      BY <2>1, <2>2
  <1>15. MidHeld'
    <2> SUFFICES ASSUME NEW i \in Jobs, Inside(i), i # j, job[i].op = "quarantine",
                        NEW k \in job[i].mid \ contended
                 PROVE  held'[job[i].batch][k] # {}
      BY <1>1, <1>4, <1>11 DEF MidHeld, Inside
    <2>1. held[job[i].batch][k] # {} /\ k \in Keys /\ job[i].batch \in Batches
      BY DEF DataInv, MidHeld, TypeOK, Job
    <2>2. ~Refers(job[j], job[i].batch, k)
      BY <1>1, <2>1 DEF NoClash
    <2>3. job[i].batch # b \/ k \notin S
      BY <1>6, <2>2 DEF Refers
    <2> QED
      BY <1>5, <2>1, <2>3
  <1> QED
    BY <1>12, <1>13, <1>14, <1>15 DEF DataInv

LEMMA DataTake ==
  ASSUME TypeOK, PlanInv, DataInv, NEW j \in Jobs, NEW ms \in SUBSET job[j].more,
         TakeOldest(j, ms), UNCHANGED <<live, held, owed, contended>>
  PROVE  DataInv'
  <1>1. PICK m \in ms :
           Set(j, [job[j] EXCEPT !.pc = "purging", !.more = ms,
                                 !.batch = m.batch, !.todo = m.keys, !.log = {}])
    BY DEF TakeOldest
  <1>2. job[j] \in Job /\ job[j].mid = {} /\ m \in Listing
    BY DEF TypeOK, PlanInv, Sound, Job
  <1> DEFINE new == [job[j] EXCEPT !.pc = "purging", !.more = ms,
                                   !.batch = m.batch, !.todo = m.keys, !.log = {}]
  <1>3. new \in Job /\ new.mid = {}
    BY <1>2 DEF Job, Pcs, Listing
  <1> HIDE DEF new
  <1>4. Set(j, new)
    BY <1>1 DEF new
  <1> QED
    BY <1>3, <1>4, DataSet

LEMMA DataPurge ==
  ASSUME TypeOK, PlanInv, NoClash, DataInv, NEW j \in Jobs, PurgeStep(j)
  PROVE  DataInv'
  <1>j. job[j] \in Job /\ Sound(job[j])
    BY DEF TypeOK, PlanInv
  <1>1. CASE ListBatches(j)
    <2>1. PICK force \in BOOLEAN, chosen \in SUBSET Stored :
             Set(j, [job[j] EXCEPT !.pc = "listed", !.opt = force, !.more = chosen])
      BY <1>1 DEF ListBatches
    <2> DEFINE new == [job[j] EXCEPT !.pc = "listed", !.opt = force, !.more = chosen]
    <2>2. chosen \in SUBSET Listing
      BY DEF Stored, Listing, TypeOK
    <2>3. new \in Job /\ new.mid = job[j].mid
      BY <1>j, <2>2 DEF Job, Pcs
    <2>4. job[j].mid = {} /\ UNCHANGED <<live, held, owed, contended>>
      BY <1>1, <1>j DEF ListBatches, Idle, Sound, storage, history
    <2> HIDE DEF new
    <2>5. Set(j, new)
      BY <2>1 DEF new
    <2> QED
      BY <2>3, <2>4, <2>5, DataSet
  <1>2. CASE StartPurge(j)
    BY <1>2, DataTake DEF StartPurge, storage, history
  <1>3. CASE RefusePurge(j)
    BY <1>3, <1>j, DataSet DEF RefusePurge, Job, Pcs, Sound, storage, history
  <1>4. CASE PurgeChunk(j)
    <2>1. PICK S \in SUBSET job[j].todo :
             Delete(j, S) /\ Set(j, [job[j] EXCEPT !.todo = @ \ S])
      BY <1>4 DEF PurgeChunk
    <2>2. [job[j] EXCEPT !.todo = @ \ S] \in Job
      BY <1>j DEF Job
    <2> QED
      BY <1>4, <1>j, <2>1, <2>2, DataDelete DEF PurgeChunk, Job
  <1>5. CASE PurgeLast(j)
    <2>1. Delete(j, job[j].todo) /\ job[j].pc = "purging"
      BY <1>5, <1>j DEF PurgeLast
    <2>2. UNION {m.keys : m \in Current(j)} \in SUBSET Keys
      BY <1>j DEF Current, Job, Listing
    <2>3. PICK K \in SUBSET Keys :
             Set(j, [job[j] EXCEPT !.pc = "logging", !.todo = {}, !.moved = K])
      BY <1>5, <2>2 DEF PurgeLast
    <2>4. [job[j] EXCEPT !.pc = "logging", !.todo = {}, !.moved = K] \in Job
      BY <1>j DEF Job, Pcs
    <2> QED
      BY <1>j, <2>1, <2>3, <2>4, DataDelete DEF Job
  <1> QED
    BY <1>1, <1>2, <1>3, <1>4, <1>5 DEF PurgeStep

(* An owner that touches a key with a copy in quarantine takes it out of   *)
(* the promise; without one there is nothing but what it leaves, and no    *)
(* quarantine about to delete it.                                          *)
LEMMA DataClient ==
  ASSUME TypeOK, DataInv, NEW k \in Keys, ClientWrite(k) \/ ClientDelete(k)
  PROVE  DataInv'
  <1>1. PICK versions \in SUBSET Version : Touch(k, versions) /\ AtMostOne(versions)
    <2>1. CASE ClientWrite(k)
      BY <2>1, BoundsAssumption DEF ClientWrite, TypeOK, Version, AtMostOne
    <2>2. CASE ClientDelete(k)
      BY <2>2 DEF ClientDelete, AtMostOne
    <2> QED
      BY <2>1, <2>2
  <1>2. /\ live' = [live EXCEPT ![k] = versions]
        /\ owed' = [owed EXCEPT ![k] = versions]
        /\ UNCHANGED <<held, job>>
        /\ contended \subseteq contended'
    BY <1>1 DEF Touch
  <1>3. k \notin contended' => \A b \in Batches : held[b][k] = {}
    BY <1>1 DEF Touch
  <1>4. OneOwed'
    BY <1>1, <1>2 DEF DataInv, OneOwed, TypeOK
  <1>5. \A x \in Keys, b \in Batches, op \in Ops : InFlight(x, op, b)' = InFlight(x, op, b)
    BY <1>2 DEF InFlight, Inside
  <1>6. \A x \in Keys \ {k} : Staying(x) \subseteq Staying(x)' /\ Copies(x)' = Copies(x)
    BY <1>2, <1>5, StaysThere DEF TypeOK
  <1>7. k \notin contended' => Copies(k)' = versions /\ Staying(k)' = versions
    <2> SUFFICES ASSUME k \notin contended'
                 PROVE  Copies(k)' = versions /\ Staying(k)' = versions
      OBVIOUS
    <2>1. ~Leaving(k)'
      <3>1. \A b \in Batches : ~InFlight(k, "quarantine", b)
        BY <1>2, <1>3 DEF DataInv, MidHeld, InFlight
      <3> QED
        BY <1>2, <3>1 DEF Leaving, InFlight, Inside, Batches
    <2> QED
      BY <1>2, <1>3, <2>1 DEF Copies, Staying, TypeOK, Batches
  <1>8. Same' /\ Somewhere'
    BY <1>1, <1>2, <1>6, <1>7 DEF DataInv, Same, Somewhere, TypeOK, AtMostOne
  <1>9. MidHeld'
    BY <1>2 DEF DataInv, MidHeld, Inside
  <1> QED
    BY <1>4, <1>8, <1>9 DEF DataInv

LEMMA DataStep ==
  TypeOK /\ PlanInv /\ NoClash /\ NoClash' /\ DataInv /\ [Next]_vars => DataInv'
  <1> SUFFICES ASSUME TypeOK, PlanInv, NoClash, NoClash', DataInv, [Next]_vars
               PROVE  DataInv'
    OBVIOUS
  <1>1. ASSUME NEW j \in Jobs, ReadLog(j) \/ WriteLog(j) \/ FailStep(j) \/ Stop(j)
        PROVE  DataInv'
    <2>1. job[j] \in Job /\ Sound(job[j]) /\ UNCHANGED <<live, held, owed, contended>>
      BY <1>1 DEF TypeOK, PlanInv, ReadLog, WriteLog, FailStep, FailPool, CopyRaises, Stop,
                  storage, history
    <2>2. CASE ReadLog(j)
      BY <2>1, <2>2, DataSet DEF ReadLog, TypeOK, Job, Pcs, Sound
    <2>3. CASE WriteLog(j)
      <3>1. CASE Set(j, [job[j] EXCEPT !.pc = "done", !.more = {}, !.log = {}])
        BY <2>1, <2>3, <3>1, DataSet DEF WriteLog, Job, Pcs, Sound
      <3>2. CASE TakeOldest(j, job[j].more \ Current(j))
        BY <2>1, <3>2, DataTake
      <3> QED
        BY <2>3, <3>1, <3>2 DEF WriteLog
    <2>4. CASE FailPool(j)
      BY <2>1, <2>4, DataSet DEF FailPool, Job, Pcs
    <2>5. ASSUME NEW k \in Keys, CopyRaises(j, k)
          PROVE  DataInv'
      BY <2>1, <2>5, DataSet DEF CopyRaises, Missing, Pool, Inside, Job, Pcs
    <2>6. CASE Stop(j)
      BY <2>1, <2>6, DataSet DEF Stop, Job, Pcs
    <2> QED
      BY <1>1, <2>2, <2>3, <2>4, <2>5, <2>6 DEF FailStep
  <1>2. ASSUME NEW j \in Jobs, JobStep(j) \/ Stop(j)
        PROVE  DataInv'
    BY <1>1, <1>2, DataQuarantine, DataRestore, DataPurge DEF JobStep
  <1>3. ASSUME NEW k \in Keys, ClientWrite(k) \/ ClientDelete(k)
        PROVE  DataInv'
    BY <1>3, DataClient
  <1>4. CASE Tick \/ UNCHANGED vars
    <2>1. UNCHANGED <<live, held, job, owed, contended>>
      BY <1>4 DEF Tick, vars, storage, history
    <2>2. \A x \in Keys, b \in Batches, op \in Ops : InFlight(x, op, b)' = InFlight(x, op, b)
      BY <2>1 DEF InFlight, Inside
    <2>3. \A x \in Keys : Staying(x) \subseteq Staying(x)' /\ Copies(x)' = Copies(x)
      BY <2>1, <2>2, StaysThere
    <2> QED
      BY <2>1, <2>3 DEF DataInv, OneOwed, Same, Somewhere, MidHeld, Inside
  <1> QED
    BY <1>2, <1>3, <1>4 DEF Next

(* Nothing is lost: wherever jobs die, whatever they meet, and whichever   *)
(* of them share a lock, the last version of an object its owner did not   *)
(* touch while a copy was held is in the bucket or in quarantine, until a  *)
(* purge that was forced or was due.  Under several locks keys that two    *)
(* quarantines moved within one second are excepted.                       *)
THEOREM NothingIsLost == Spec => []Preserved
  BY TypeInit, TypeStep, PlanInit, PlanStep, ClashNever, DataInit, DataStep,
     DataGivesPreserved, PTL DEF Spec

-----------------------------------------------------------------------------
(* The audit log, where all jobs share one lock. *)

(* What a job has read of the log is all of it when it writes. *)
LogRead == \A j \in Jobs : job[j].pc = "appending" => job[j].log = audit

(* Where each action takes the job. *)
LEMMA AfterSet ==
  ASSUME TypeOK, NEW j \in Jobs, NEW new, Set(j, new)
  PROVE  job'[j] = new /\ \A i \in Jobs \ {j} : job'[i] = job[i]
  BY DEF Set, TypeOK

LEMMA AfterTake ==
  ASSUME TypeOK, NEW j \in Jobs, NEW ms, TakeOldest(j, ms)
  PROVE  job'[j].pc = "purging" /\ \A i \in Jobs \ {j} : job'[i] = job[i]
  <1>1. PICK m \in ms : Set(j, [job[j] EXCEPT !.pc = "purging", !.more = ms,
                                !.batch = m.batch, !.todo = m.keys, !.log = {}])
    BY DEF TakeOldest
  <1>2. job[j] \in Job
    BY DEF TypeOK
  <1>3. [job[j] EXCEPT !.pc = "purging", !.more = ms, !.batch = m.batch,
                       !.todo = m.keys, !.log = {}].pc = "purging"
    BY <1>2 DEF Job
  <1> QED
    BY <1>1, <1>3, AfterSet

LEMMA LogSet ==
  ASSUME TypeOK, LogRead, UNCHANGED audit, NEW j \in Jobs, NEW new, Set(j, new),
         new.pc # "appending"
  PROVE  LogRead'
  BY AfterSet DEF LogRead

LEMMA LogJob ==
  ASSUME TypeOK, PlanInv, LogRead, NEW j \in Jobs, JobStep(j) \/ Stop(j), ~WriteLog(j)
  PROVE  LogRead' /\ UNCHANGED audit
  <1>j. job[j] \in Job
    BY DEF TypeOK
  <1>1. CASE QuarantineStep(j)
    <2>1. CASE StartQuarantine(j)
      BY <2>1, <1>j, LogSet DEF StartQuarantine, storage, history, Job
    <2>2. CASE WriteManifest(j)
      BY <2>2, <1>j, LogSet DEF WriteManifest, Job
    <2>3. ASSUME NEW k \in Keys, CopyOut(j, k)
          PROVE  LogRead' /\ UNCHANGED audit
      BY <2>3, <1>j, LogSet DEF CopyOut, Pool, Job
    <2>4. ASSUME NEW k \in Keys, DeleteOut(j, k)
          PROVE  LogRead' /\ UNCHANGED audit
      BY <2>4, <1>j, LogSet DEF DeleteOut, Pool, Job
    <2> QED
      BY <1>1, <2>1, <2>2, <2>3, <2>4 DEF QuarantineStep
  <1>2. CASE RestoreStep(j)
    <2>1. CASE StartRestore(j)
      <3>1. \E new \in Job : Set(j, new) /\ new.pc # "appending"
        BY <2>1, RestoreStarts
      <3> QED
        BY <2>1, <3>1, LogSet DEF StartRestore, storage
    <2>2. CASE ListCopies(j)
      BY <2>2, <1>j, LogSet DEF ListCopies, storage, history, Job
    <2>3. CASE UnknownKeys(j)
      BY <2>3, <1>j, LogSet DEF UnknownKeys, storage, history, Job
    <2>4. CASE SaveManifest(j)
      BY <2>4, <1>j, LogSet DEF SaveManifest, Job
    <2>5. ASSUME NEW k \in Keys, CopyBack(j, k)
          PROVE  LogRead' /\ UNCHANGED audit
      BY <2>5, <1>j, LogSet DEF CopyBack, Pool, Job
    <2>6. ASSUME NEW k \in Keys, DeleteCopy(j, k)
          PROVE  LogRead' /\ UNCHANGED audit
      BY <2>6, <1>j, LogSet DEF DeleteCopy, Pool, Job
    <2> QED
      BY <1>2, <2>1, <2>2, <2>3, <2>4, <2>5, <2>6 DEF RestoreStep
  <1>3. CASE FailStep(j) \/ Stop(j)
    <2>1. CASE FailPool(j)
      BY <2>1, <1>j, LogSet DEF FailPool, storage, history, Job
    <2>2. ASSUME NEW k \in Keys, CopyRaises(j, k)
          PROVE  LogRead' /\ UNCHANGED audit
      BY <2>2, <1>j, LogSet DEF CopyRaises, storage, history, Job
    <2>3. CASE Stop(j)
      BY <2>3, <1>j, LogSet DEF Stop, storage, history, Job
    <2> QED
      BY <1>3, <2>1, <2>2, <2>3 DEF FailStep
  <1>4. CASE PurgeStep(j)
    <2>1. CASE ListBatches(j)
      <3>1. PICK force \in BOOLEAN, chosen \in SUBSET Stored :
               Set(j, [job[j] EXCEPT !.pc = "listed", !.opt = force, !.more = chosen])
        BY <2>1 DEF ListBatches
      <3> QED
        BY <2>1, <3>1, <1>j, LogSet DEF ListBatches, storage, history, Job
    <2>2. CASE StartPurge(j)
      BY <2>2, AfterTake DEF StartPurge, storage, LogRead
    <2>3. CASE RefusePurge(j)
      BY <2>3, <1>j, LogSet DEF RefusePurge, storage, history, Job
    <2>4. CASE PurgeChunk(j)
      <3>1. PICK S \in SUBSET job[j].todo : /\ Set(j, [job[j] EXCEPT !.todo = @ \ S])
                                            /\ Delete(j, S)
        BY <2>4 DEF PurgeChunk
      <3> QED
        BY <2>4, <3>1, <1>j, LogSet DEF PurgeChunk, Delete, Job
    <2>5. CASE PurgeLast(j)
      BY <2>5, <1>j, LogSet DEF PurgeLast, Delete, Job
    <2> QED
      BY <1>4, <2>1, <2>2, <2>3, <2>4, <2>5 DEF PurgeStep
  <1>5. CASE ReadLog(j)
    BY <1>5, <1>j DEF ReadLog, Set, storage, LogRead, TypeOK, Job
  <1> QED
    BY <1>1, <1>2, <1>3, <1>4, <1>5 DEF JobStep

LEMMA LogInit == Init => LogRead
  BY DEF Init, LogRead

LEMMA LogStep ==
  ASSUME ~Apart
  PROVE  TypeOK /\ PlanInv /\ LogRead /\ [Next]_vars => LogRead' /\ audit \subseteq audit'
  <1> SUFFICES ASSUME TypeOK, PlanInv, LogRead, [Next]_vars
               PROVE  LogRead' /\ audit \subseteq audit'
    OBVIOUS
  <1>1. ASSUME NEW j \in Jobs, WriteLog(j)
        PROVE  LogRead' /\ audit \subseteq audit'
    <2>1. audit \subseteq audit'
      BY <1>1 DEF WriteLog, LogRead
    <2>2. job'[j].pc # "appending" /\ \A i \in Jobs \ {j} : job'[i] = job[i]
      <3>1. CASE Set(j, [job[j] EXCEPT !.pc = "done", !.more = {}, !.log = {}])
        <4>1. job[j] \in Job
          BY DEF TypeOK
        <4>2. [job[j] EXCEPT !.pc = "done", !.more = {}, !.log = {}].pc = "done"
          BY <4>1 DEF Job
        <4> QED
          BY <3>1, <4>2, AfterSet
      <3>2. CASE TakeOldest(j, job[j].more \ Current(j))
        BY <3>2, AfterTake
      <3> QED
        BY <1>1, <3>1, <3>2 DEF WriteLog
    <2>3. \A i \in Jobs \ {j} : job[i].pc # "appending"
      BY <1>1 DEF WriteLog, PlanInv, Exclusive, Inside, Apart
    <2> QED
      BY <2>1, <2>2, <2>3 DEF LogRead
  <1>2. ASSUME NEW j \in Jobs, JobStep(j) \/ Stop(j)
        PROVE  LogRead' /\ audit \subseteq audit'
    BY <1>1, <1>2, LogJob
  <1>3. ASSUME NEW k \in Keys, ClientWrite(k) \/ ClientDelete(k)
        PROVE  LogRead' /\ audit \subseteq audit'
    BY <1>3 DEF ClientWrite, ClientDelete, Touch, LogRead
  <1>4. CASE Tick \/ UNCHANGED vars
    BY <1>4 DEF Tick, vars, storage, LogRead
  <1> QED
    BY <1>2, <1>3, <1>4 DEF Next

(* Under one lock no line of the audit log is ever lost.                   *)
THEOREM LogIsAppendOnly ==
  ASSUME ~Apart
  PROVE  Spec => LogKeepsLines
  BY TypeInit, TypeStep, PlanInit, PlanStep, LogInit, LogStep, PTL DEF Spec, LogKeepsLines

-----------------------------------------------------------------------------
(* The refinement of RecycleBin, where all jobs share one lock.  Has(k) are*)
(* the places that hold anything under key k.  For a key within the promise*)
(* they are where the owed version is (Same), they are none only when      *)
(* nothing is owed (Somewhere), and nothing is there when nothing is owed  *)
(* (Gone), which Preserved does not need.                                  *)
Place  == {-1} \cup Batches
Has(k) == {p \in Place : IF p = -1 THEN live[k] # {} ELSE held[p][k] # {}}
Gone   == \A k \in Keys \ contended : owed[k] = {} => Has(k) = {}

Mapped == \A k \in Keys : /\ whereabouts[k] = IF k \in contended THEN {} ELSE Has(k)
                          /\ k \notin contended => (owed[k] = {} <=> Has(k) = {})

LEMMA HasIsCopies ==
  ASSUME NEW k \in Keys
  PROVE  /\ Has(k) = {} <=> Copies(k) = {}
         /\ Has(k)' = {} <=> Copies(k)' = {}
  <1> DEFINE spots(L, H)  == {p \in Place : IF p = -1 THEN L[k] # {} ELSE H[p][k] # {}}
             copies(L, H) == L[k] \cup UNION {H[b][k] : b \in Batches}
  <1>1. ASSUME NEW L, NEW H
        PROVE  spots(L, H) = {} <=> copies(L, H) = {}
    <2>1. -1 \in Place /\ -1 \notin Batches /\ \A b \in Batches : b \in Place /\ b # -1
      BY DEF Place, Batches
    <2>2. L[k] # {} => -1 \in spots(L, H)
      BY <2>1
    <2>3. \A b \in Batches : H[b][k] # {} => b \in spots(L, H)
      BY <2>1
    <2>4. ASSUME NEW p \in spots(L, H)
          PROVE  copies(L, H) # {}
      BY DEF Place
    <2>5. copies(L, H) # {} => L[k] # {} \/ \E b \in Batches : H[b][k] # {}
      OBVIOUS
    <2> HIDE DEF spots, copies
    <2> QED
      BY <2>2, <2>3, <2>4, <2>5
  <1>2. Has(k) = spots(live, held) /\ Has(k)' = spots(live', held')
    BY DEF Has, Place, Batches
  <1>3. Copies(k) = copies(live, held) /\ Copies(k)' = copies(live', held')
    BY DEF Copies, Batches
  <1> HIDE DEF spots, copies
  <1>4. \A L, H : spots(L, H) = {} <=> copies(L, H) = {}
    BY <1>1
  <1> QED
    BY <1>2, <1>3, <1>4, Zenon

LEMMA InvMaps == DataInv /\ Gone => Mapped
  <1> SUFFICES ASSUME DataInv, Gone, NEW k \in Keys
               PROVE  /\ whereabouts[k] = IF k \in contended THEN {} ELSE Has(k)
                      /\ k \notin contended => (owed[k] = {} <=> Has(k) = {})
    BY DEF Mapped
  <1>1. k \notin contended => (owed[k] = {} <=> Has(k) = {})
    <2> SUFFICES ASSUME k \notin contended, owed[k] # {} PROVE Has(k) # {}
      BY DEF Gone
    <2> QED
      BY HasIsCopies, StayingIsCopies DEF DataInv, Somewhere
  <1>2. settled[k] = IF k \in contended THEN {} ELSE owed[k]
    BY DEF settled
  <1>3. whereabouts[k] = {p \in Place : settled[k] # {} /\ settled[k] = IF p = -1 THEN live[k]
                                                                       ELSE held[p][k]}
    BY DEF whereabouts, Place
  <1>4. CASE k \in contended \/ owed[k] = {}
    BY <1>1, <1>2, <1>3, <1>4
  <1>5. CASE k \notin contended /\ owed[k] # {}
    <2>1. AtMostOne(owed[k]) /\ Copies(k) \subseteq owed[k]
      BY <1>5 DEF DataInv, OneOwed, Same
    <2>2. \A S : S \subseteq Copies(k) => (S # {} <=> S = owed[k])
      BY <1>5, <2>1 DEF AtMostOne
    <2>3. live[k] # {} <=> owed[k] = live[k]
      BY <2>2 DEF Copies
    <2>4. \A b \in Batches : held[b][k] # {} <=> owed[k] = held[b][k]
      BY <2>2 DEF Copies
    <2>5. ASSUME NEW p \in Place
          PROVE  p \in whereabouts[k] <=> p \in Has(k)
      <3>1. p \in whereabouts[k] <=> owed[k] = IF p = -1 THEN live[k] ELSE held[p][k]
        <4>1. settled[k] = owed[k] /\ settled[k] # {}
          BY <1>2, <1>5
        <4> QED
          BY <1>3, <4>1
      <3>2. p \in Has(k) <=> IF p = -1 THEN live[k] # {} ELSE held[p][k] # {}
        BY DEF Has
      <3>3. CASE p = -1
        BY <2>3, <3>1, <3>2, <3>3
      <3>4. CASE p # -1
        BY <2>4, <3>1, <3>2, <3>4 DEF Place
      <3> QED
        BY <3>3, <3>4
    <2>6. whereabouts[k] \subseteq Place /\ Has(k) \subseteq Place
      BY <1>3 DEF Has
    <2> QED
      BY <1>1, <1>5, <2>5, <2>6
  <1> QED
    BY <1>1, <1>4, <1>5

(* What a step does to the places of objects: copies one object to p, or   *)
(* takes it from p, or purges batch b of the objects K.                    *)
Adds(k, p) == /\ UNCHANGED <<owed, contended, now, insisted>>
              /\ Has(k) # {} /\ Has(k)' = Has(k) \cup {p}
              /\ \A x \in Keys \ {k} : Has(x)' = Has(x)
Takes(k, p) == /\ UNCHANGED <<owed, contended, now, insisted>>
               /\ Has(k)' = Has(k) \ {p}
               /\ \A x \in Keys \ {k} : Has(x)' = Has(x)
Purges(b, K) == /\ UNCHANGED <<contended, now, insisted>>
                /\ b \in insisted \/ b + Retention <= now
                /\ \A x \in Keys : Has(x)' = IF x \in K THEN Has(x) \ {b} ELSE Has(x)
                /\ \A x \in Keys \ contended :
                      owed'[x] = IF x \in K /\ Has(x)' = {} THEN {} ELSE owed[x]

LEMMA InsistedSame ==
  ASSUME TypeOK, NEW j \in Jobs, NEW new, Set(j, new),
         new.opt = job[j].opt, new.more = job[j].more
  PROVE  insisted' = insisted
  <1>1. \A i \in Jobs : job'[i].opt = job[i].opt /\ job'[i].more = job[i].more
    BY AfterSet
  <1>2. \A c : c \in insisted <=> \E i \in Jobs : job[i].opt /\ \E m \in job[i].more : c = m.batch
    BY DEF insisted
  <1>3. \A c : c \in insisted' <=> \E i \in Jobs : job'[i].opt /\ \E m \in job'[i].more : c = m.batch
    BY DEF insisted
  <1>4. ASSUME NEW c
        PROVE  c \in insisted <=> c \in insisted'
    BY <1>1, <1>2, <1>3
  <1> QED
    BY <1>4

LEMMA MoveEffect ==
  ASSUME TypeOK, ~Apart, NEW j \in Jobs, NEW k \in Keys,
         CopyOut(j, k) \/ DeleteOut(j, k) \/ CopyBack(j, k) \/ DeleteCopy(j, k)
  PROVE  \E p \in Place : Adds(k, p) \/ Takes(k, p)
  <1>1. job[j] \in Job /\ job[j].batch \in Batches
    BY DEF TypeOK, Job
  <1>2. -1 \in Place /\ -1 \notin Batches /\ job[j].batch \in Place /\ job[j].batch # -1
    BY <1>1 DEF Place, Batches
  <1>3. /\ UNCHANGED <<owed, contended, now>>
        /\ \E new : Set(j, new) /\ new.opt = job[j].opt /\ new.more = job[j].more
    <2>1. CASE CopyOut(j, k) \/ CopyBack(j, k)
      <3>1. [job[j] EXCEPT !.todo = @ \ {k}, !.mid = @ \cup {k}].opt = job[j].opt
        BY <1>1 DEF Job
      <3>2. [job[j] EXCEPT !.todo = @ \ {k}, !.mid = @ \cup {k}].more = job[j].more
        BY <1>1 DEF Job
      <3> QED
        BY <2>1, <3>1, <3>2 DEF CopyOut, CopyBack, history
    <2>2. CASE DeleteOut(j, k) \/ DeleteCopy(j, k)
      <3>1. [job[j] EXCEPT !.mid = @ \ {k}, !.moved = @ \cup {k}].opt = job[j].opt
        BY <1>1 DEF Job
      <3>2. [job[j] EXCEPT !.mid = @ \ {k}, !.moved = @ \cup {k}].more = job[j].more
        BY <1>1 DEF Job
      <3> QED
        BY <2>2, <3>1, <3>2 DEF DeleteOut, DeleteCopy, history
    <2> QED
      BY <2>1, <2>2
  <1>4. UNCHANGED insisted
    BY <1>3, InsistedSame
  <1>5. ASSUME NEW x \in Keys \ {k}
        PROVE  Has(x)' = Has(x)
    <2>1. live'[x] = live[x] /\ \A b \in Batches : held'[b][x] = held[b][x]
      <3>1. CASE CopyOut(j, k)
        BY <1>1, <3>1 DEF CopyOut, TypeOK
      <3>2. CASE DeleteOut(j, k) \/ CopyBack(j, k)
        BY <1>1, <3>2 DEF DeleteOut, CopyBack, TypeOK
      <3>3. CASE DeleteCopy(j, k)
        BY <1>1, <3>3 DEF DeleteCopy, TypeOK
      <3> QED
        BY <3>1, <3>2, <3>3
    <2> QED
      BY <2>1 DEF Has, Place, Batches
  <1>6. CASE CopyOut(j, k)
    <2>1. live[k] # {} /\ live' = live /\ held'[job[j].batch][k] = live[k]
      BY <1>1, <1>6 DEF CopyOut, TypeOK
    <2>2. \A b \in Batches \ {job[j].batch} : held'[b][k] = held[b][k]
      BY <1>1, <1>6 DEF CopyOut, TypeOK
    <2>3. Has(k) # {} /\ Has(k)' = Has(k) \cup {job[j].batch}
      BY <1>2, <2>1, <2>2 DEF Has, Place, Batches
    <2> QED
      BY <1>2, <1>3, <1>4, <1>5, <2>3 DEF Adds
  <1>7. CASE DeleteOut(j, k)
    <2>1. live'[k] = {} /\ held' = held
      BY <1>7 DEF DeleteOut, TypeOK
    <2>2. Has(k)' = Has(k) \ {-1}
      BY <1>2, <2>1 DEF Has, Place, Batches
    <2> QED
      BY <1>2, <1>3, <1>4, <1>5, <2>2 DEF Takes
  <1>8. CASE CopyBack(j, k)
    <2>1. held[job[j].batch][k] # {} /\ live'[k] = held[job[j].batch][k] /\ held' = held
      BY <1>8 DEF CopyBack, TypeOK
    <2>2. Has(k) # {} /\ Has(k)' = Has(k) \cup {-1}
      BY <1>2, <2>1 DEF Has, Place, Batches
    <2> QED
      BY <1>2, <1>3, <1>4, <1>5, <2>2 DEF Adds
  <1>9. CASE DeleteCopy(j, k)
    <2>1. held'[job[j].batch][k] = {} /\ live' = live
      BY <1>1, <1>9 DEF DeleteCopy, TypeOK
    <2>2. \A b \in Batches \ {job[j].batch} : held'[b][k] = held[b][k]
      BY <1>1, <1>9 DEF DeleteCopy, TypeOK
    <2>3. Has(k)' = Has(k) \ {job[j].batch}
      BY <1>2, <2>1, <2>2 DEF Has, Place, Batches
    <2> QED
      BY <1>2, <1>3, <1>4, <1>5, <2>3 DEF Takes
  <1> QED
    BY <1>6, <1>7, <1>8, <1>9

(* Under one lock nothing is in flight while a purge deletes.  What it     *)
(* failed to delete is still somewhere.                                    *)
LEMMA PurgeEffect ==
  ASSUME TypeOK, PlanInv, DataInv, ~Apart, NEW j \in Jobs, PurgeChunk(j) \/ PurgeLast(j)
  PROVE  \E b \in Batches, K \in SUBSET Keys : Purges(b, K)
  <1>1. /\ job[j] \in Job /\ Sound(job[j]) /\ Inside(j) /\ job[j].op = "purge"
        /\ job[j].pc = "purging" /\ job[j].mid = {}
    BY DEF TypeOK, PlanInv, PurgeChunk, PurgeLast, Sound, Inside
  <1>2. PICK b \in Batches : b = job[j].batch
    BY <1>1 DEF Job
  <1>3. \E S \in SUBSET job[j].todo, new \in Job :
           Delete(j, S) /\ Set(j, new) /\ new.opt = job[j].opt /\ new.more = job[j].more
                        /\ new.mid = {}
    <2>1. CASE PurgeChunk(j)
      <3>1. PICK S \in SUBSET job[j].todo :
               Delete(j, S) /\ Set(j, [job[j] EXCEPT !.todo = @ \ S])
        BY <2>1 DEF PurgeChunk
      <3> QED
        BY <1>1, <3>1 DEF Job
    <2>2. CASE PurgeLast(j)
      <3>1. UNION {m.keys : m \in Current(j)} \in SUBSET Keys
        BY <1>1 DEF Current, Job, Listing
      <3>2. PICK K \in SUBSET Keys :
               Set(j, [job[j] EXCEPT !.pc = "logging", !.todo = {}, !.moved = K])
        BY <2>2, <3>1 DEF PurgeLast
      <3>3. [job[j] EXCEPT !.pc = "logging", !.todo = {}, !.moved = K] \in Job
        BY <1>1 DEF Job, Pcs
      <3> QED
        BY <1>1, <2>2, <3>2, <3>3 DEF PurgeLast, Job
    <2> QED
      BY <2>1, <2>2
  <1>4. PICK S \in SUBSET job[j].todo, new \in Job :
           Delete(j, S) /\ Set(j, new) /\ new.opt = job[j].opt /\ new.more = job[j].more
                        /\ new.mid = {}
    BY <1>3
  <1>5. UNCHANGED <<live, contended, now>> /\ S \in SUBSET Keys
    BY <1>1, <1>4 DEF Delete, Job
  <1>6. UNCHANGED insisted
    BY <1>4, InsistedSame
  <1>7. PICK m \in job[j].more : m.batch = b
    BY <1>1, <1>2 DEF Sound
  <1>8. job[j].opt \/ b + Retention <= now
    BY <1>1, <1>7 DEF Sound, Due, PurgeAfter
  <1>9. b \in insisted \/ b + Retention <= now
    BY <1>7, <1>8 DEF insisted
  <1>10. PICK E \in SUBSET S :
            held' = [held EXCEPT ![b] = [k \in Keys |-> IF k \in S \ E THEN {} ELSE @[k]]]
    BY <1>2, <1>4 DEF Delete
  <1>11. \A c \in Batches, k \in Keys :
            held'[c][k] = IF c = b /\ k \in S \ E THEN {} ELSE held[c][k]
    BY <1>10 DEF TypeOK
  <1>12. ASSUME NEW k \in Keys
         PROVE  Has(k)' = IF k \in S \ E THEN Has(k) \ {b} ELSE Has(k)
    <2>1. b \in Place /\ b # -1
      BY DEF Place, Batches
    <2> QED
      BY <1>5, <1>11, <2>1 DEF Has, Place, Batches
  <1>13. ASSUME NEW k \in Keys
         PROVE  Staying(k)' = Copies(k)'
    <2>1. job'[j] = new /\ \A i \in Jobs \ {j} : job'[i] = job[i] /\ ~Inside(i)
      BY <1>1, <1>4, AfterSet DEF PlanInv, Exclusive, Apart
    <2>2. \A i \in Jobs : Inside(i)' => job'[i].mid = {}
      BY <1>4, <2>1 DEF Inside
    <2> QED
      BY <2>2 DEF Staying, Copies, Leaving, InFlight, Batches
  <1>14. ASSUME NEW k \in Keys \ contended
         PROVE  owed'[k] = IF k \in S \ E /\ Has(k)' = {} THEN {} ELSE owed[k]
    <2>1. Has(k)' = {} <=> Staying(k)' = {}
      <3>1. Has(k)' = {} <=> Copies(k)' = {}
        BY HasIsCopies
      <3> QED
        BY <1>13, <3>1
    <2>2. owed'[k] = IF k \in S /\ Staying(k)' = {} THEN {} ELSE owed[k]
      BY <1>2, <1>4, <1>8 DEF Delete, PurgeAfter
    <2>3. CASE k \in E
      <3>1. Has(k)' = Has(k)
        BY <1>12, <2>3
      <3>2. owed[k] # {} => Has(k) # {}
        BY HasIsCopies, StayingIsCopies DEF DataInv, Somewhere
      <3> QED
        BY <2>1, <2>2, <2>3, <3>1, <3>2
    <2> QED
      BY <2>1, <2>2, <2>3
  <1>15. Purges(b, S \ E)
    BY <1>5, <1>6, <1>9, <1>12, <1>14 DEF Purges
  <1> QED
    BY <1>5, <1>15

LEMMA JobEffect ==
  ASSUME TypeOK, PlanInv, DataInv, ~Apart, NEW j \in Jobs, JobStep(j) \/ Stop(j)
  PROVE  \/ UNCHANGED <<live, held, owed, contended, now>>
         \/ \E k \in Keys, p \in Place : Adds(k, p) \/ Takes(k, p)
         \/ \E b \in Batches, K \in SUBSET Keys : Purges(b, K)
  <1>1. CASE \E k \in Keys : \/ CopyOut(j, k) \/ DeleteOut(j, k)
                             \/ CopyBack(j, k) \/ DeleteCopy(j, k)
    BY <1>1, MoveEffect
  <1>2. CASE PurgeChunk(j) \/ PurgeLast(j)
    BY <1>2, PurgeEffect
  <1>3. CASE StartQuarantine(j) \/ WriteManifest(j) \/ FailStep(j)
    BY <1>3 DEF StartQuarantine, WriteManifest, FailStep, FailPool, CopyRaises, storage, history
  <1>4. CASE StartRestore(j) \/ ListCopies(j) \/ UnknownKeys(j) \/ SaveManifest(j)
    BY <1>4 DEF StartRestore, ListCopies, UnknownKeys, SaveManifest, storage, history
  <1>5. CASE ListBatches(j) \/ StartPurge(j) \/ RefusePurge(j)
    BY <1>5 DEF ListBatches, StartPurge, RefusePurge, storage, history
  <1>6. CASE ReadLog(j) \/ WriteLog(j) \/ Stop(j)
    BY <1>6 DEF ReadLog, WriteLog, Stop, storage, history
  <1> QED
    BY <1>1, <1>2, <1>3, <1>4, <1>5, <1>6 DEF JobStep, QuarantineStep, RestoreStep, PurgeStep

(* What the owner of k does: it ends the promise, or k is where he left it.*)
Touches(k) ==
    /\ UNCHANGED <<now, insisted>>
    /\ \A x \in Keys \ {k} : Has(x)' = Has(x) /\ owed'[x] = owed[x]
    /\ contended' = contended \cup {k} \/ contended' = contended
    /\ k \in contended' \ contended => Has(k) \ {-1} # {}
    /\ k \notin contended' => /\ owed'[k] \in {{v} : v \in Version} \cup {{}}
                              /\ Has(k)' = IF owed'[k] = {} THEN {} ELSE {-1}

LEMMA TouchEffect ==
  ASSUME TypeOK, NEW k \in Keys, ClientWrite(k) \/ ClientDelete(k)
  PROVE  Touches(k)
  <1>1. PICK versions \in {{v} : v \in Version} \cup {{}} : Touch(k, versions) /\ UNCHANGED now
    <2>1. CASE ClientWrite(k)
      <3>1. writes + 1 \in Version
        BY <2>1, BoundsAssumption DEF ClientWrite, TypeOK, Version
      <3> QED
        BY <2>1, <3>1 DEF ClientWrite, Touch
    <2>2. CASE ClientDelete(k)
      BY <2>2 DEF ClientDelete, Touch
    <2> QED
      BY <2>1, <2>2
  <1>2. /\ live' = [live EXCEPT ![k] = versions]
        /\ owed' = [owed EXCEPT ![k] = versions]
        /\ contended' = contended \cup {x \in {k} : \E b \in Batches : held[b][k] # {}}
        /\ UNCHANGED <<held, job, now>>
    BY <1>1 DEF Touch
  <1>3. UNCHANGED insisted
    BY <1>2 DEF insisted
  <1>4. ASSUME NEW x \in Keys \ {k}
        PROVE  Has(x)' = Has(x) /\ owed'[x] = owed[x]
    <2>1. live'[x] = live[x] /\ owed'[x] = owed[x]
      BY <1>2 DEF TypeOK
    <2> QED
      BY <1>2, <2>1 DEF Has, Place, Batches
  <1>5. \A b \in Batches : b \in Place /\ b # -1
    BY DEF Place, Batches
  <1>6. k \in contended' \ contended => Has(k) \ {-1} # {}
    <2> SUFFICES ASSUME k \in contended' \ contended
                 PROVE  Has(k) \ {-1} # {}
      OBVIOUS
    <2>1. PICK b \in Batches : held[b][k] # {}
      BY <1>2
    <2> QED
      BY <1>5, <2>1 DEF Has
  <1>7. k \notin contended' => /\ owed'[k] \in {{v} : v \in Version} \cup {{}}
                               /\ Has(k)' = IF owed'[k] = {} THEN {} ELSE {-1}
    <2> SUFFICES ASSUME k \notin contended'
                 PROVE  /\ owed'[k] \in {{v} : v \in Version} \cup {{}}
                        /\ Has(k)' = IF owed'[k] = {} THEN {} ELSE {-1}
      OBVIOUS
    <2>1. owed'[k] = versions /\ live'[k] = versions /\ \A b \in Batches : held'[b][k] = {}
      BY <1>2 DEF TypeOK
    <2>2. Has(k)' = {p \in Place : p = -1 /\ versions # {}}
      BY <1>5, <2>1 DEF Has, Place, Batches
    <2> QED
      BY <2>1, <2>2 DEF Place
  <1> QED
    BY <1>2, <1>3, <1>4, <1>6, <1>7 DEF Touches

LEMMA GoneInit == Init => Gone
  BY DEF Init, Gone

LEMMA GoneStep ==
  ASSUME ~Apart, TypeOK, PlanInv, DataInv, Gone, [Next]_vars
  PROVE  Gone'
  <1>1. ASSUME UNCHANGED <<live, held, owed, contended>>
        PROVE  Gone'
    BY <1>1 DEF Gone, Has, Place, Batches
  <1>2. ASSUME NEW k \in Keys, NEW p \in Place, Adds(k, p) \/ Takes(k, p)
        PROVE  Gone'
    BY <1>2 DEF Gone, Adds, Takes
  <1>3. ASSUME NEW b \in Batches, NEW K \in SUBSET Keys, Purges(b, K)
        PROVE  Gone'
    BY <1>3 DEF Gone, Purges
  <1>4. ASSUME NEW k \in Keys, Touches(k)
        PROVE  Gone'
    BY <1>4 DEF Gone, Touches
  <1>5. ASSUME NEW j \in Jobs, JobStep(j) \/ Stop(j)
        PROVE  Gone'
    BY <1>1, <1>2, <1>3, <1>5, JobEffect
  <1>6. ASSUME NEW k \in Keys, ClientWrite(k) \/ ClientDelete(k)
        PROVE  Gone'
    BY <1>4, <1>6, TouchEffect
  <1>7. CASE Tick \/ UNCHANGED vars
    BY <1>1, <1>7 DEF Tick, vars, storage, history
  <1> QED
    BY <1>5, <1>6, <1>7 DEF Next

LEMMA BinInit == Init => Bin!Init
  <1> SUFFICES ASSUME Init PROVE Bin!Init
    OBVIOUS
  <1>1. insisted = {}
    BY DEF Init, insisted
  <1>2. settled = [k \in Keys |-> {0}]
    BY DEF Init, settled
  <1>3. whereabouts = [k \in Keys |-> {-1}]
    BY <1>2 DEF Init, whereabouts, Batches
  <1>4. 0 \in Version
    BY BoundsAssumption DEF Version
  <1> QED
    BY <1>1, <1>2, <1>3, <1>4 DEF Init, Bin!Init, Bin!Bucket

(* Each effect is a step of RecycleBin, or changes nothing in it. *)
LEMMA BinQuiet ==
  ASSUME TypeOK', UNCHANGED <<live, held, owed, contended, now>>
  PROVE  Bin!Insist
  <1>1. insisted' \in SUBSET Batches
    BY DEF insisted, TypeOK, Job, Listing, Batches
  <1>2. UNCHANGED <<settled, whereabouts>>
    BY DEF settled, whereabouts, Batches
  <1> QED
    BY <1>1, <1>2 DEF Bin!Insist

LEMMA MapType ==
  /\ settled = [k \in Keys |-> settled[k]]
  /\ whereabouts = [k \in Keys |-> whereabouts[k]]
  /\ settled' = [k \in Keys |-> settled'[k]]
  /\ whereabouts' = [k \in Keys |-> whereabouts'[k]]
  /\ \A k \in Keys : /\ settled[k] = IF k \in contended THEN {} ELSE owed[k]
                     /\ settled'[k] = IF k \in contended' THEN {} ELSE owed'[k]
  BY DEF settled, whereabouts

LEMMA BinMove ==
  ASSUME Mapped, Mapped', NEW k \in Keys, NEW p \in Place, Adds(k, p) \/ Takes(k, p)
  PROVE  (\E b \in Batches : Bin!Copy(k, b) \/ Bin!Drop(k, b)) \/ UNCHANGED Bin!vars
  <1>1. UNCHANGED <<settled, contended, now, insisted>>
    BY DEF Adds, Takes, settled
  <1>2. PICK b \in Batches : p \in {-1, b}
    BY BoundsAssumption DEF Place, Batches
  <1>3. \A x \in Keys : /\ whereabouts[x] = IF x \in contended THEN {} ELSE Has(x)
                        /\ whereabouts'[x] = IF x \in contended THEN {} ELSE Has(x)'
    BY <1>1 DEF Mapped
  <1>4. \A x \in Keys \ {k} : whereabouts'[x] = whereabouts[x]
    BY <1>3 DEF Adds, Takes
  <1>5. CASE whereabouts'[k] = whereabouts[k]
    <2>1. UNCHANGED whereabouts
      BY <1>4, <1>5, MapType
    <2> QED
      BY <1>1, <2>1 DEF Bin!vars
  <1>6. CASE Adds(k, p) /\ k \notin contended
    <2>1. whereabouts[k] # {} /\ whereabouts'[k] = whereabouts[k] \cup {p}
      BY <1>3, <1>6 DEF Adds
    <2>2. whereabouts' = [whereabouts EXCEPT ![k] = @ \cup {p}]
      BY <1>4, <2>1, MapType
    <2> QED
      BY <1>1, <1>2, <2>1, <2>2 DEF Bin!Copy, Bin!Bucket
  <1>7. CASE Takes(k, p) /\ k \notin contended /\ whereabouts'[k] # whereabouts[k]
    <2>1. whereabouts'[k] = whereabouts[k] \ {p}
      BY <1>3, <1>7 DEF Takes
    <2>2. whereabouts[k] # {}
      BY <1>7, <2>1
    <2>3. whereabouts[k] \ {p} # {}
      BY <1>1, <1>3, <1>7, <2>1, <2>2 DEF Mapped, Takes
    <2>4. whereabouts' = [whereabouts EXCEPT ![k] = @ \ {p}]
      BY <1>4, <2>1, MapType
    <2> QED
      BY <1>1, <1>2, <2>3, <2>4 DEF Bin!Drop, Bin!Bucket
  <1> QED
    BY <1>3, <1>5, <1>6, <1>7

LEMMA BinPurge ==
  ASSUME Mapped, Mapped', NEW b \in Batches, NEW K \in SUBSET Keys, Purges(b, K)
  PROVE  Bin!Purge(b, K)
  <1>1. UNCHANGED <<contended, now, insisted>> /\ (b \in insisted \/ b + Retention <= now)
    BY DEF Purges
  <1>2. \A x \in Keys : /\ whereabouts[x] = IF x \in contended THEN {} ELSE Has(x)
                        /\ whereabouts'[x] = IF x \in contended THEN {} ELSE Has(x)'
    BY <1>1 DEF Mapped
  <1>3. \A x \in Keys : whereabouts'[x] = IF x \in K THEN whereabouts[x] \ {b}
                                                     ELSE whereabouts[x]
    BY <1>2 DEF Purges
  <1>4. \A x \in Keys : settled'[x] = IF x \in K /\ whereabouts'[x] = {} THEN {}
                                                                         ELSE settled[x]
    BY <1>1, <1>2, MapType DEF Purges
  <1> QED
    BY <1>1, <1>3, <1>4, MapType DEF Bin!Purge

LEMMA BinTouch ==
  ASSUME Mapped, Mapped', NEW k \in Keys, Touches(k)
  PROVE  Bin!Owner(k) \/ UNCHANGED Bin!vars
  <1>1. UNCHANGED <<now, insisted>>
    BY DEF Touches
  <1>2. \A x \in Keys : /\ whereabouts[x] = IF x \in contended THEN {} ELSE Has(x)
                        /\ whereabouts'[x] = IF x \in contended' THEN {} ELSE Has(x)'
    BY DEF Mapped
  <1>3. \A x \in Keys \ {k} : whereabouts'[x] = whereabouts[x] /\ settled'[x] = settled[x]
    BY <1>2, MapType, SMTT(30) DEF Touches
  <1>4. CASE k \in contended
    <2>1. contended' = contended
      BY <1>4 DEF Touches
    <2>2. whereabouts'[k] = whereabouts[k] /\ settled'[k] = settled[k]
      BY <1>2, <1>4, <2>1, MapType
    <2>3. settled' = settled /\ whereabouts' = whereabouts
      BY <1>3, <2>2, MapType
    <2> QED
      BY <1>1, <2>1, <2>3 DEF Bin!vars
  <1>5. CASE k \in contended' \ contended
    <2>1. /\ contended' = contended \cup {k}
          /\ whereabouts[k] \ {-1} # {} /\ whereabouts'[k] = {} /\ settled'[k] = {}
      BY <1>2, <1>5, MapType DEF Touches
    <2>2. /\ settled' = [settled EXCEPT ![k] = {}]
          /\ whereabouts' = [whereabouts EXCEPT ![k] = {}]
      BY <1>3, <2>1, MapType
    <2> QED
      BY <1>1, <2>1, <2>2 DEF Bin!Owner, Bin!Bucket
  <1>6. CASE k \notin contended'
    <2>1. /\ contended' = contended /\ settled'[k] \in {{v} : v \in Version} \cup {{}}
          /\ whereabouts'[k] = IF settled'[k] = {} THEN {} ELSE {-1}
      BY <1>2, <1>6, MapType DEF Touches
    <2>2. /\ settled' = [settled EXCEPT ![k] = settled'[k]]
          /\ whereabouts' = [whereabouts EXCEPT ![k] = IF settled'[k] = {} THEN {} ELSE {-1}]
      BY <1>3, <2>1, MapType
    <2> QED
      BY <1>1, <2>1, <2>2 DEF Bin!Owner, Bin!Bucket
  <1> QED
    BY <1>4, <1>5, <1>6

LEMMA BinStep ==
  ASSUME ~Apart, TypeOK, TypeOK', PlanInv, DataInv, Mapped, Mapped', [Next]_vars
  PROVE  [Bin!Next]_(Bin!vars)
  <1>1. ASSUME NEW j \in Jobs, JobStep(j) \/ Stop(j)
        PROVE  Bin!Next \/ UNCHANGED Bin!vars
    <2>1. CASE UNCHANGED <<live, held, owed, contended, now>>
      BY <2>1, BinQuiet DEF Bin!Next
    <2>2. ASSUME NEW k \in Keys, NEW p \in Place, Adds(k, p) \/ Takes(k, p)
          PROVE  Bin!Next \/ UNCHANGED Bin!vars
      BY <2>2, BinMove DEF Bin!Next
    <2>3. ASSUME NEW b \in Batches, NEW K \in SUBSET Keys, Purges(b, K)
          PROVE  Bin!Next
      BY <2>3, BinPurge DEF Bin!Next
    <2> QED
      BY <1>1, <2>1, <2>2, <2>3, JobEffect
  <1>2. ASSUME NEW k \in Keys, ClientWrite(k) \/ ClientDelete(k)
        PROVE  Bin!Next \/ UNCHANGED Bin!vars
    BY <1>2, TouchEffect, BinTouch DEF Bin!Next
  <1>3. CASE Tick
    <2>1. UNCHANGED <<live, held, owed, contended, job>> /\ now' = now + 1
      BY <1>3 DEF Tick, storage, history
    <2>2. UNCHANGED <<settled, whereabouts, insisted>>
      BY <2>1 DEF settled, whereabouts, insisted, Batches
    <2> QED
      BY <2>1, <2>2 DEF Bin!Next, Bin!Pass
  <1>4. CASE UNCHANGED vars
    <2>1. UNCHANGED <<live, held, owed, contended, job, now>>
      BY <1>4 DEF vars, storage, history
    <2> QED
      BY <2>1 DEF settled, whereabouts, insisted, Bin!vars, Batches
  <1> QED
    BY <1>1, <1>2, <1>3, <1>4 DEF Next

(* Under one lock the jobs, call by call, are a RecycleBin: an object whose*)
(* owner left it alone is copied before it is dropped, and loses its last  *)
(* place only to a purge of a batch that was due or forced.                *)
THEOREM JobsImplementBin ==
  ASSUME ~Apart
  PROVE  Spec => ImplementsBin
  <1>1. TypeOK /\ PlanInv /\ DataInv /\ Gone /\ [Next]_vars => Gone'
    BY GoneStep
  <1>2. TypeOK /\ TypeOK' /\ PlanInv /\ DataInv /\ Mapped /\ Mapped' /\ [Next]_vars
           => [Bin!Next]_(Bin!vars)
    BY BinStep
  <1> QED
    BY TypeInit, TypeStep, PlanInit, PlanStep, ClashNever, DataInit, DataStep,
       GoneInit, InvMaps, BinInit, <1>1, <1>2, PTL DEF Spec, ImplementsBin, Bin!Spec
-----------------------------------------------------------------------------
(* What is in quarantine is listed by its batch's manifest (NoOrphans);    *)
(* and, under one lock and without errors that are dropped, what the       *)
(* manifest and the audit log say is what there is (AgreeAtRest).          *)
(*                                                                         *)
(* A manifest is replaced by what one job has worked out from an earlier   *)
(* reading of it.  FindInv says that every such reading, as far as the job *)
(* has got with it, still covers all that is held: entries are dropped     *)
(* only after their objects, and nothing is added to a batch after its     *)
(* manifest was written.  BooksInv says, step by step of each job, how far *)
(* its batch's objects, entries and lines have come apart.                 *)

(* Why a batch may have objects nobody lists.  Once true, it stays true.   *)
Died(b)    == \E q \in QuarantinesOf(b) : job[q].pc = "stopped"
Excused(b) == Died(b) \/ SharedId(b) \/ ErrorsDropped(b)

(* Batch b has had its manifest written. *)
FiledBy(r, b) == r.op = "quarantine" /\ r.batch = b /\ r.pc \in {"logging", "appending", "done"}
Filed(b)      == \E i \in Jobs : FiledBy(job[i], b)

Covered(H, b, K) == \A k \in Keys : H[b][k] # {} => k \in K

(* What job r has read of batch b's manifest: a purge the entries of its   *)
(* listing, a restore those it keeps or has still to move.                 *)
Opened(r, b)  == r.op = "restore" /\ r.batch = b /\ r.pc \in {"opening", "moving"}
Reads(r, b)   == Opened(r, b) \/ \E m \in r.more : m.batch = b
Reading(H, r, b) ==
    /\ Opened(r, b) => Covered(H, b, r.kept \cup r.todo \cup r.mid)
    /\ \A m \in r.more : m.batch = b => Covered(H, b, m.keys)
    /\ r.pc = "purging" /\ r.batch = b => Covered(H, b, r.todo)

InOrder(b) == /\ manifest[b] # {} \/ (\E i \in Jobs : Reads(job[i], b)) => Filed(b)
              /\ Filed(b) => Covered(held, b, UNION manifest[b])
              /\ \A i \in Jobs : Reading(held, job[i], b)

(* Every copy was made by a quarantine of its batch. *)
Made(q, k) == k \in job[q].mid \cup job[q].moved
Origin == \A b \in Batches, k \in Keys :
             held[b][k] # {} => \E q \in QuarantinesOf(b) : Made(q, k)

(* A purge goes through its batches in their order. *)
Ascending(r) == /\ r.op = "purge" /\ r.pc = "idle" => r.batch = 0
                /\ r.op = "purge" => \A m \in r.more : r.batch <= m.batch
                /\ r.pc = "refused" => r.op = "purge"

FindInv == /\ Origin
           /\ \A j \in Jobs : Ascending(job[j])
           /\ \A b \in Batches : Excused(b) \/ InOrder(b)

LEMMA FindInit == Init => FindInv
  <1> SUFFICES ASSUME Init PROVE FindInv
    OBVIOUS
  <1>1. \A j \in Jobs : job[j].pc = "idle" /\ job[j].batch = 0 /\ job[j].more = {}
    BY DEF Init
  <1>2. \A b \in Batches : manifest[b] = {} /\ \A k \in Keys : held[b][k] = {}
    BY DEF Init
  <1>3. Origin /\ \A j \in Jobs : Ascending(job[j])
    BY <1>1, <1>2 DEF Origin, Ascending
  <1>4. \A b \in Batches : InOrder(b)
    BY <1>1, <1>2 DEF InOrder, Filed, FiledBy, Covered, Reading, Reads, Opened
  <1> QED
    BY <1>3, <1>4 DEF FindInv

LEMMA FindGivesNoOrphans == TypeOK /\ PlanInv /\ FindInv => NoOrphans
  <1> SUFFICES ASSUME TypeOK, PlanInv, FindInv, NEW b \in Batches, NEW k \in Keys, Orphan(b, k),
                      ~Excused(b)
               PROVE  \E j \in QuarantinesOf(b) : Unfinished(j)
    BY DEF NoOrphans, Excused, Died, Unfinished
  <1>1. PICK q \in QuarantinesOf(b) : Made(q, k)
    BY DEF FindInv, Origin, Orphan
  <1>2. ~Filed(b)
    BY DEF FindInv, InOrder, Covered, Orphan
  <1>3. /\ q \in Jobs /\ job[q].pc \in Pcs /\ job[q].op = "quarantine"
        /\ job[q].batch = b /\ job[q].pc # "idle"
    BY <1>1 DEF QuarantinesOf, TypeOK, Job
  <1>4. Sound(job[q]) /\ Ascending(job[q])
    BY <1>3 DEF PlanInv, FindInv
  <1>5. job[q].pc \in {"moving", "failing"}
    BY <1>2, <1>3, <1>4 DEF Filed, FiledBy, Pcs, Excused, Died, QuarantinesOf, Sound, Ascending
  <1> QED
    BY <1>5 DEF Unfinished, Inside

-----------------------------------------------------------------------------
(* A step of one job.  It stays what it is, a quarantine at work keeps what*)
(* it made and stays filed or dies, and a purge does not go back.          *)
GoesOn(old, new) ==
    /\ new.op = old.op /\ new.pc # "idle"
    /\ old.op = "quarantine" /\ old.pc # "idle" =>
          /\ new.batch = old.batch
          /\ old.mid \cup old.moved \subseteq new.mid \cup new.moved
          /\ old.pc = "stopped" => new.pc = "stopped"
          /\ old.pc \in {"logging", "appending", "done"} =>
                new.pc \in {"logging", "appending", "done", "stopped"}
    /\ old.op = "purge" => old.batch <= new.batch
    /\ Ascending(new)

LEMMA Excuses ==
  ASSUME TypeOK, NEW j \in Jobs, NEW new \in Job, Set(j, new), GoesOn(job[j], new),
         dropped \subseteq dropped', NEW b \in Batches
  PROVE  /\ QuarantinesOf(b) \subseteq QuarantinesOf(b)'
         /\ Excused(b) => Excused(b)'
         /\ Filed(b) => Filed(b)' \/ Excused(b)'
         /\ Filed(b)' => Filed(b) \/ FiledBy(new, b)
  <1>1. job'[j] = new /\ \A i \in Jobs \ {j} : job'[i] = job[i]
    BY AfterSet
  <1>2. ASSUME NEW q \in QuarantinesOf(b)
        PROVE  q \in QuarantinesOf(b)' /\ (job[q].pc = "stopped" => job'[q].pc = "stopped")
    <2>1. CASE q = j
      BY <1>1, <1>2, <2>1 DEF GoesOn, QuarantinesOf
    <2>2. CASE q # j
      BY <1>1, <1>2, <2>2 DEF QuarantinesOf
    <2> QED
      BY <2>1, <2>2
  <1>3. Died(b) => Died(b)'
    BY <1>2 DEF Died
  <1>4. SharedId(b) => SharedId(b)'
    BY <1>2 DEF SharedId
  <1>5. ErrorsDropped(b) => ErrorsDropped(b)'
    BY DEF ErrorsDropped
  <1>6. Filed(b) => Filed(b)' \/ Died(b)'
    <2> SUFFICES ASSUME NEW i \in Jobs, FiledBy(job[i], b)
                 PROVE  Filed(b)' \/ Died(b)'
      BY DEF Filed
    <2>1. CASE i = j
      <3>1. CASE new.pc = "stopped"
        BY <1>1, <2>1, <3>1 DEF FiledBy, GoesOn, Died, QuarantinesOf
      <3>2. CASE new.pc # "stopped"
        BY <1>1, <2>1, <3>2 DEF FiledBy, GoesOn, Filed
      <3> QED
        BY <3>1, <3>2
    <2>2. CASE i # j
      BY <1>1, <2>2 DEF Filed
    <2> QED
      BY <2>1, <2>2
  <1>7. Filed(b)' => Filed(b) \/ FiledBy(new, b)
    BY <1>1 DEF Filed, FiledBy
  <1> QED
    BY <1>2, <1>3, <1>4, <1>5, <1>6, <1>7 DEF Excused

(* Errors that were dropped stay on record.                                *)
LEMMA DroppedGrows ==
  ASSUME NEW j \in Jobs, JobStep(j) \/ Stop(j)
  PROVE  dropped \subseteq dropped'
  <1>1. CASE QuarantineStep(j)
    BY <1>1 DEF QuarantineStep, StartQuarantine, WriteManifest, CopyOut, DeleteOut, history
  <1>2. CASE RestoreStep(j)
    BY <1>2 DEF RestoreStep, StartRestore, ListCopies, UnknownKeys, SaveManifest, CopyBack,
                DeleteCopy, history
  <1>3. CASE FailStep(j) \/ ReadLog(j) \/ WriteLog(j) \/ Stop(j)
    BY <1>3 DEF FailStep, FailPool, CopyRaises, ReadLog, WriteLog, Stop, history
  <1>4. CASE PurgeStep(j)
    <2>1. ASSUME NEW S, Delete(j, S)
          PROVE  dropped \subseteq dropped'
      BY <2>1 DEF Delete
    <2> QED
      BY <1>4, <2>1 DEF PurgeStep, ListBatches, StartPurge, RefusePurge, PurgeChunk, PurgeLast,
                        history
  <1> QED
    BY <1>1, <1>2, <1>3, <1>4 DEF JobStep

(* A step that copies nothing into quarantine keeps FindInv if what the job*)
(* reads, and what it writes, still covers what is held.                   *)
LEMMA FindSet ==
  ASSUME TypeOK, FindInv, NEW j \in Jobs, NEW new \in Job, Set(j, new), GoesOn(job[j], new),
         dropped \subseteq dropped',
         \A b \in Batches, k \in Keys : held'[b][k] # {} => held[b][k] # {},
         \A b \in Batches :
            ~Excused(b)' /\ InOrder(b) =>
               /\ manifest'[b] # {} \/ Reads(new, b) => Filed(b) \/ FiledBy(new, b)
               /\ Filed(b) \/ FiledBy(new, b) => \A k \in Keys :
                     held'[b][k] # {} => k \in UNION manifest'[b]
               /\ Reading(held', new, b)
  PROVE  FindInv'
  <1>1. job'[j] = new /\ \A i \in Jobs \ {j} : job'[i] = job[i]
    BY AfterSet
  <1>2. Origin'
    <2> SUFFICES ASSUME NEW b \in Batches, NEW k \in Keys, held'[b][k] # {}
                 PROVE  \E q \in QuarantinesOf(b)' : Made(q, k)'
      BY DEF Origin, Batches
    <2>1. PICK q \in QuarantinesOf(b) : Made(q, k)
      BY DEF FindInv, Origin
    <2>2. q \in QuarantinesOf(b)'
      BY <2>1, Excuses
    <2>3. CASE q = j
      BY <1>1, <2>1, <2>2, <2>3 DEF GoesOn, Made, QuarantinesOf
    <2>4. CASE q # j
      BY <1>1, <2>1, <2>2, <2>4 DEF Made, QuarantinesOf
    <2> QED
      BY <2>3, <2>4
  <1>3. ASSUME NEW i \in Jobs
        PROVE  Ascending(job[i])'
    BY <1>1 DEF FindInv, GoesOn, Ascending
  <1>4. ASSUME NEW b \in Batches, ~Excused(b)'
        PROVE  InOrder(b)'
    <2>1. ~Excused(b) /\ InOrder(b)
      BY <1>4, Excuses DEF FindInv
    <2>2. Filed(b)' <=> Filed(b) \/ FiledBy(new, b)
      <3>1. FiledBy(new, b) => Filed(b)'
        BY <1>1 DEF Filed, FiledBy
      <3> QED
        BY <1>4, <3>1, Excuses
    <2>3. ASSUME NEW i \in Jobs
          PROVE  Reading(held', job'[i], b)
      <3>1. CASE i = j
        BY <1>1, <1>4, <2>1, <3>1 DEF Reading, Opened, Covered
      <3>2. CASE i # j
        <4>1. Reading(held, job[i], b) /\ job'[i] = job[i]
          BY <1>1, <2>1, <3>2 DEF InOrder
        <4> QED
          BY <4>1 DEF Reading, Opened, Covered
      <3> QED
        BY <3>1, <3>2
    <2>4. Covered(held', b, UNION manifest'[b]) <=> \A k \in Keys : held'[b][k] # {} => k \in UNION manifest'[b]
      BY DEF Covered
    <2>5. Filed(b)' => Covered(held', b, UNION manifest'[b])
      BY <1>4, <2>1, <2>2, <2>4
    <2>6. manifest'[b] # {} \/ (\E i \in Jobs : Reads(job'[i], b)) => Filed(b)'
      <3>1. manifest'[b] # {} \/ Reads(new, b) => Filed(b)'
        BY <1>4, <2>1, <2>2
      <3>2. ASSUME NEW i \in Jobs \ {j}, Reads(job'[i], b)
            PROVE  Filed(b)'
        BY <1>1, <2>1, <2>2, <3>2 DEF InOrder
      <3> QED
        BY <1>1, <3>1, <3>2
    <2>7. \A i \in Jobs : Reads(job[i], b)' <=> Reads(job'[i], b)
      BY DEF Reads, Opened
    <2> QED
      BY <2>3, <2>5, <2>6, <2>7 DEF InOrder
  <1> QED
    BY <1>2, <1>3, <1>4 DEF FindInv, Batches

(* A step that reads and files no more than before. *)
LEMMA FindSame ==
  ASSUME TypeOK, FindInv, NEW j \in Jobs, NEW new \in Job, Set(j, new), GoesOn(job[j], new),
         dropped \subseteq dropped',
         \A b \in Batches, k \in Keys : held'[b][k] # {} => held[b][k] # {},
         UNCHANGED manifest,
         \A b \in Batches :
            /\ Reads(new, b) => Reads(job[j], b)
            /\ FiledBy(new, b) => FiledBy(job[j], b)
            /\ ~Excused(b)' /\ Reading(held, job[j], b) => Reading(held', new, b)
  PROVE  FindInv'
  <1>1. ASSUME NEW b \in Batches, ~Excused(b)', InOrder(b)
        PROVE  /\ manifest'[b] # {} \/ Reads(new, b) => Filed(b) \/ FiledBy(new, b)
               /\ Filed(b) \/ FiledBy(new, b) => \A k \in Keys :
                     held'[b][k] # {} => k \in UNION manifest'[b]
               /\ Reading(held', new, b)
    <2>1. FiledBy(job[j], b) => Filed(b)
      BY DEF Filed
    <2> QED
      BY <1>1, <2>1 DEF InOrder, Covered
  <1> QED
    BY <1>1, FindSet

(* The job has read nothing of any manifest. *)
LEMMA ReadsNothing ==
  ASSUME NEW r, r.op # "restore" \/ r.pc \notin {"opening", "moving"}, r.more = {},
         r.pc # "purging", NEW b
  PROVE  ~Reads(r, b) /\ Reading(held', r, b)
  BY DEF Reads, Reading, Opened

LEMMA FindQuarantine ==
  ASSUME TypeOK, PlanInv, FindInv, NEW j \in Jobs, QuarantineStep(j) \/ FailStep(j)
  PROVE  FindInv'
  <1>d. dropped \subseteq dropped'
    BY DroppedGrows DEF JobStep
  <1>j. job[j] \in Job /\ Sound(job[j]) /\ Ascending(job[j])
    BY DEF TypeOK, PlanInv, FindInv
  <1>1. CASE StartQuarantine(j)
    <2>1. PICK C \in SUBSET Keys :
             Set(j, [job[j] EXCEPT !.pc = "moving", !.batch = now, !.todo = C])
      BY <1>1 DEF StartQuarantine
    <2> DEFINE new == [job[j] EXCEPT !.pc = "moving", !.batch = now, !.todo = C]
    <2>2. /\ new \in Job /\ new.pc = "moving" /\ new.op = job[j].op /\ new.more = job[j].more
      BY <1>j DEF Job, Pcs, TypeOK
    <2>3. /\ job[j].op = "quarantine" /\ job[j].pc = "idle" /\ UNCHANGED <<held, manifest>>
      BY <1>1 DEF StartQuarantine, Idle, storage
    <2>4. Set(j, new)
      BY <2>1
    <2> HIDE DEF new
    <2>5. new.more = {}
      BY <1>j, <2>2, <2>3 DEF Sound
    <2>6. GoesOn(job[j], new)
      BY <2>2, <2>3 DEF GoesOn, Ascending
    <2>7. \A b \in Batches : ~Reads(new, b) /\ Reading(held', new, b) /\ ~FiledBy(new, b)
      BY <2>2, <2>3, <2>5, ReadsNothing DEF FiledBy
    <2> QED
      BY <1>d, <2>2, <2>3, <2>4, <2>6, <2>7, FindSame
  <1>2. CASE WriteManifest(j)
    <2> DEFINE new == [job[j] EXCEPT !.pc = "logging"]
    <2>0. PICK b0 \in Batches : b0 = job[j].batch
      BY <1>j DEF Job
    <2>1. /\ new \in Job /\ new.pc = "logging" /\ new.op = job[j].op /\ new.batch = b0
          /\ new.more = job[j].more /\ new.mid = job[j].mid /\ new.moved = job[j].moved
      BY <1>j, <2>0 DEF Job, Pcs
    <2>2. /\ job[j].op = "quarantine" /\ job[j].pc = "moving" /\ job[j].mid = {}
          /\ Set(j, new) /\ UNCHANGED held
          /\ manifest' = [manifest EXCEPT ![b0] = {job[j].moved}]
      BY <1>2, <2>0 DEF WriteManifest, Drained
    <2> HIDE DEF new
    <2>3. GoesOn(job[j], new)
      BY <2>0, <2>1, <2>2 DEF GoesOn, Ascending
    <2>4. new.more = {}
      BY <1>j, <2>1, <2>2 DEF Sound
    <2>5. \A b \in Batches : ~Reads(new, b) /\ Reading(held', new, b)
      BY <2>1, <2>2, <2>4, ReadsNothing
    <2>6. \A b \in Batches : FiledBy(new, b) <=> b = b0
      BY <2>1, <2>2 DEF FiledBy
    <2>7. ASSUME ~Excused(b0)', NEW k \in Keys, held'[b0][k] # {}
          PROVE  k \in job[j].moved
      <3>1. ~SharedId(b0)
        BY <1>d, <2>1, <2>2, <2>3, <2>7, Excuses DEF Excused
      <3>2. PICK q \in QuarantinesOf(b0) : Made(q, k)
        BY <2>1, <2>2, <2>7 DEF FindInv, Origin
      <3>3. j \in QuarantinesOf(b0)
        BY <2>0, <2>2 DEF QuarantinesOf
      <3> QED
        BY <2>2, <3>1, <3>2, <3>3 DEF SharedId, Made
    <2>8. ASSUME NEW b \in Batches, ~Excused(b)', InOrder(b)
          PROVE  /\ manifest'[b] # {} \/ Reads(new, b) => Filed(b) \/ FiledBy(new, b)
                 /\ Filed(b) \/ FiledBy(new, b) => \A k \in Keys :
                       held'[b][k] # {} => k \in UNION manifest'[b]
                 /\ Reading(held', new, b)
      <3>1. CASE b = b0
        <4>1. manifest'[b] = {job[j].moved}
          BY <2>1, <2>2, <3>1 DEF TypeOK
        <4> QED
          BY <2>5, <2>6, <2>7, <2>8, <3>1, <4>1
      <3>2. CASE b # b0
        <4>1. manifest'[b] = manifest[b]
          BY <2>2, <3>2 DEF TypeOK
        <4> QED
          BY <2>2, <2>5, <2>6, <2>8, <3>2, <4>1 DEF InOrder, Covered
      <3> QED
        BY <3>1, <3>2
    <2> QED
      BY <1>d, <2>1, <2>2, <2>3, <2>8, FindSet
  <1>3. ASSUME NEW k \in Keys, DeleteOut(j, k)
        PROVE  FindInv'
    <2> DEFINE new == [job[j] EXCEPT !.mid = @ \ {k}, !.moved = @ \cup {k}]
    <2>1. /\ new \in Job /\ new.pc = job[j].pc /\ new.op = job[j].op /\ new.batch = job[j].batch
          /\ new.more = job[j].more /\ new.mid = job[j].mid \ {k}
          /\ new.moved = job[j].moved \cup {k}
      BY <1>3, <1>j DEF DeleteOut, Job
    <2>2. /\ job[j].op = "quarantine" /\ job[j].pc \in {"moving", "failing"}
          /\ Set(j, new) /\ UNCHANGED <<held, manifest>>
      BY <1>3 DEF DeleteOut, Pool
    <2> HIDE DEF new
    <2>3. GoesOn(job[j], new) /\ new.more = {}
      BY <1>j, <2>1, <2>2 DEF GoesOn, Ascending, Sound
    <2>4. \A b \in Batches : ~Reads(new, b) /\ Reading(held', new, b) /\ ~FiledBy(new, b)
      BY <2>1, <2>2, <2>3, ReadsNothing DEF FiledBy
    <2> QED
      BY <1>d, <2>1, <2>2, <2>3, <2>4, FindSame
  <1>4. CASE FailPool(j)
    <2> DEFINE new == [job[j] EXCEPT !.pc = "stopped"]
    <2>1. /\ new \in Job /\ new.pc = "stopped" /\ new.op = job[j].op /\ new.batch = job[j].batch
          /\ new.more = job[j].more /\ new.mid = job[j].mid /\ new.moved = job[j].moved
      BY <1>j DEF Job, Pcs
    <2>2. job[j].pc = "failing" /\ Set(j, new) /\ UNCHANGED <<held, manifest>>
      BY <1>4 DEF FailPool, storage
    <2> HIDE DEF new
    <2>3. GoesOn(job[j], new) /\ new.more = {}
      BY <1>j, <2>1, <2>2 DEF GoesOn, Ascending, Sound
    <2>4. \A b \in Batches : ~Reads(new, b) /\ Reading(held', new, b) /\ ~FiledBy(new, b)
      BY <2>1, <2>3, ReadsNothing DEF FiledBy
    <2> QED
      BY <1>d, <2>1, <2>2, <2>3, <2>4, FindSame
  <1>5. ASSUME NEW k \in Keys, CopyRaises(j, k)
        PROVE  FindInv'
    <2> DEFINE new == [job[j] EXCEPT !.pc = "failing", !.todo = @ \ {k}]
    <2>1. /\ new \in Job /\ new.pc = "failing" /\ new.op = job[j].op /\ new.batch = job[j].batch
          /\ new.more = job[j].more /\ new.mid = job[j].mid /\ new.moved = job[j].moved
      BY <1>j DEF Job, Pcs
    <2>2. /\ job[j].pc \in {"moving", "failing"} /\ job[j].op # "purge"
          /\ Set(j, new) /\ UNCHANGED <<held, manifest>>
      BY <1>5 DEF CopyRaises, Missing, Pool, storage
    <2> HIDE DEF new
    <2>3. GoesOn(job[j], new) /\ new.more = {}
      BY <1>j, <2>1, <2>2 DEF GoesOn, Ascending, Sound
    <2>4. \A b \in Batches : ~Reads(new, b) /\ Reading(held', new, b) /\ ~FiledBy(new, b)
      BY <2>1, <2>3, ReadsNothing DEF FiledBy
    <2> QED
      BY <1>d, <2>1, <2>2, <2>3, <2>4, FindSame
  <1>6. ASSUME NEW k \in Keys, CopyOut(j, k)
        PROVE  FindInv'
    <2> DEFINE new == [job[j] EXCEPT !.todo = @ \ {k}, !.mid = @ \cup {k}]
    <2>0. PICK b0 \in Batches : b0 = job[j].batch
      BY <1>j DEF Job
    <2>1. /\ new \in Job /\ new.pc = job[j].pc /\ new.op = job[j].op /\ new.batch = b0
          /\ new.more = job[j].more /\ new.mid = job[j].mid \cup {k}
          /\ new.moved = job[j].moved
      BY <1>6, <1>j, <2>0 DEF CopyOut, Job
    <2>2. /\ job[j].op = "quarantine" /\ job[j].pc \in {"moving", "failing"}
          /\ Set(j, new) /\ UNCHANGED manifest
          /\ held' = [held EXCEPT ![b0][k] = live[k]]
      BY <1>6, <2>0 DEF CopyOut, Pool
    <2> HIDE DEF new
    <2>3. job'[j] = new /\ \A i \in Jobs \ {j} : job'[i] = job[i]
      BY <2>2, AfterSet
    <2>4. GoesOn(job[j], new) /\ new.more = {} /\ job[j].more = {}
      BY <1>j, <2>0, <2>1, <2>2 DEF GoesOn, Ascending, Sound
    <2>5. \A b \in Batches : ~Reads(new, b) /\ Reading(held', new, b) /\ ~FiledBy(new, b)
                              /\ ~Reads(job[j], b)
      BY <2>1, <2>2, <2>4, ReadsNothing DEF FiledBy
    <2>6. \A b \in Batches, x \in Keys : b # b0 \/ x # k => held'[b][x] = held[b][x]
      BY <2>1, <2>2 DEF TypeOK
    <2>7. Origin'
      <3> SUFFICES ASSUME NEW b \in Batches, NEW x \in Keys, held'[b][x] # {}
                   PROVE  \E q \in QuarantinesOf(b)' : Made(q, x)'
        BY DEF Origin, Batches
      <3>1. CASE b = b0 /\ x = k
        BY <2>1, <2>2, <2>3, <3>1 DEF QuarantinesOf, Made
      <3>2. CASE b # b0 \/ x # k
        <4>1. PICK q \in QuarantinesOf(b) : Made(q, x)
          BY <2>6, <3>2 DEF FindInv, Origin
        <4> QED
          BY <2>0, <2>1, <2>3, <4>1 DEF QuarantinesOf, Made
      <3> QED
        BY <3>1, <3>2
    <2>8. \A i \in Jobs : Ascending(job[i])'
      BY <2>3, <2>4 DEF FindInv, GoesOn, Ascending
    <2>9. ASSUME NEW b \in Batches, ~Excused(b)'
          PROVE  InOrder(b)'
      <3>1. InOrder(b) /\ ~SharedId(b)
        BY <1>d, <2>1, <2>2, <2>4, <2>9, Excuses DEF FindInv, Excused
      <3>2. \A i \in Jobs : Reads(job[i], b)' <=> Reads(job[i], b)
        BY <2>3, <2>5 DEF Reads, Opened
      <3>3. Filed(b)' <=> Filed(b)
        BY <2>1, <2>2, <2>3 DEF Filed, FiledBy
      <3>4. CASE b # b0
        <4>1. \A i \in Jobs : Reading(held', job'[i], b)
          BY <2>3, <2>5, <2>6, <3>1, <3>4 DEF InOrder, Reading, Opened, Covered
        <4>2. Covered(held, b, UNION manifest[b]) => Covered(held', b, UNION manifest'[b])
          BY <2>2, <2>6, <3>4 DEF Covered
        <4> QED
          BY <2>2, <3>1, <3>2, <3>3, <4>1, <4>2 DEF InOrder
      <3>5. CASE b = b0
        <4>1. j \in QuarantinesOf(b)
          BY <2>0, <2>2, <3>5 DEF QuarantinesOf
        <4>2. ~Filed(b)
          <5> SUFFICES ASSUME NEW i \in Jobs, FiledBy(job[i], b) PROVE FALSE
            BY DEF Filed
          <5> QED
            BY <2>2, <3>1, <4>1 DEF FiledBy, QuarantinesOf, SharedId
        <4>3. manifest[b] = {} /\ \A i \in Jobs : ~Reads(job[i], b)
          BY <3>1, <4>2 DEF InOrder
        <4>4. \A i \in Jobs : Reading(held', job'[i], b)
          <5> SUFFICES ASSUME NEW i \in Jobs PROVE Reading(held', job'[i], b)
            BY <2>5 DEF Reading, Opened
          <5>1. ~Reads(job'[i], b) /\ Sound(job'[i])
            BY <1>j, <2>1, <2>2, <2>3, <2>5, <4>3 DEF PlanInv, Sound, Due
          <5> QED
            BY <5>1 DEF Reading, Reads, Opened, Sound
        <4> QED
          BY <2>2, <3>2, <3>3, <4>2, <4>3, <4>4 DEF InOrder
      <3> QED
        BY <3>4, <3>5
    <2> QED
      BY <2>7, <2>8, <2>9 DEF FindInv, Batches
  <1> QED
    BY <1>1, <1>2, <1>3, <1>4, <1>5, <1>6 DEF QuarantineStep, FailStep

LEMMA FindRestore ==
  ASSUME TypeOK, PlanInv, FindInv, NEW j \in Jobs, RestoreStep(j)
  PROVE  FindInv'
  <1>d. dropped \subseteq dropped'
    BY DroppedGrows DEF JobStep
  <1>j. job[j] \in Job /\ Sound(job[j]) /\ Ascending(job[j])
    BY DEF TypeOK, PlanInv, FindInv
  <1>1. CASE StartRestore(j)
    <2>1. PICK new \in Job, b0 \in Batches : \E entries \in manifest[b0] :
             /\ Set(j, new)
             /\ new.pc = "opening" /\ new.op = "restore" /\ new.batch = b0
             /\ new.todo \cup new.kept = entries
             /\ new.mid = job[j].mid /\ new.moved = job[j].moved
             /\ new.more = job[j].more
      BY <1>1, RestoreStarts
    <2>2. PICK entries \in manifest[b0] : new.todo \cup new.kept = entries
      BY <2>1
    <2>3. job[j].op = "restore" /\ job[j].more = {} /\ UNCHANGED <<held, manifest>>
      BY <1>1, <1>j DEF StartRestore, Idle, Sound, storage
    <2>4. Set(j, new) /\ GoesOn(job[j], new) /\ new.more = {}
      BY <2>1, <2>3 DEF GoesOn, Ascending
    <2>5. UNION manifest[b0] = entries
      BY <2>2 DEF TypeOK, AtMostOne
    <2>6. ASSUME NEW b \in Batches, InOrder(b)
          PROVE  /\ manifest'[b] # {} \/ Reads(new, b) => Filed(b) \/ FiledBy(new, b)
                 /\ Filed(b) \/ FiledBy(new, b) => \A k \in Keys :
                       held'[b][k] # {} => k \in UNION manifest'[b]
                 /\ Reading(held', new, b)
      <3>1. ~FiledBy(new, b)
        BY <2>1 DEF FiledBy
      <3>2. Filed(b) => \A k \in Keys : held'[b][k] # {} => k \in UNION manifest'[b]
        BY <2>3, <2>6 DEF InOrder, Covered
      <3>3. manifest[b] # {} => Filed(b)
        BY <2>6 DEF InOrder
      <3>4. Reads(new, b) => b = b0
        BY <2>1, <2>4 DEF Reads, Opened
      <3>5. manifest[b0] # {}
        BY <2>2
      <3>6. b = b0 => Covered(held', b, new.kept \cup new.todo \cup new.mid)
        BY <2>2, <2>3, <2>5, <3>2, <3>3, <3>5 DEF Covered
      <3>7. Reading(held', new, b)
        BY <2>1, <2>4, <3>6 DEF Reading, Opened
      <3> QED
        BY <2>3, <3>1, <3>2, <3>3, <3>4, <3>5, <3>7
    <2> QED
      BY <1>d, <2>1, <2>3, <2>4, <2>6, FindSet
  <1>2. CASE ListCopies(j)
    <2>1. PICK present \in SUBSET job[j].todo :
             /\ present = {k \in job[j].todo : held[job[j].batch][k] # {}}
             /\ Set(j, [job[j] EXCEPT !.pc = "moving", !.todo = present,
                                   !.moved = job[j].todo \ present])
      BY <1>2 DEF ListCopies
    <2> DEFINE new == [job[j] EXCEPT !.pc = "moving", !.todo = present,
                                     !.moved = job[j].todo \ present]
    <2>2. /\ new \in Job /\ new.pc = "moving" /\ new.op = job[j].op /\ new.batch = job[j].batch
          /\ new.more = job[j].more /\ new.mid = job[j].mid /\ new.todo = present
          /\ new.kept = job[j].kept
      BY <1>j, <2>1 DEF Job, Pcs
    <2>3. /\ job[j].op = "restore" /\ job[j].pc = "opening" /\ job[j].more = {}
          /\ UNCHANGED <<held, manifest>>
      BY <1>2, <1>j DEF ListCopies, Sound, storage
    <2>4. Set(j, new)
      BY <2>1
    <2> HIDE DEF new
    <2>5. GoesOn(job[j], new)
      BY <2>2, <2>3 DEF GoesOn, Ascending
    <2>6. ASSUME NEW b \in Batches
          PROVE  /\ Reads(new, b) => Reads(job[j], b)
                 /\ ~FiledBy(new, b)
                 /\ Reading(held, job[j], b) => Reading(held', new, b)
      <3>1. Opened(new, b) => Opened(job[j], b)
        BY <2>2, <2>3 DEF Opened
      <3>2. Reading(held, job[j], b) => Reading(held', new, b)
        BY <2>1, <2>2, <2>3, <3>1 DEF Reading, Covered, Opened
      <3> QED
        BY <2>2, <2>3, <3>1, <3>2 DEF Reads, FiledBy
    <2> QED
      BY <1>d, <2>2, <2>3, <2>4, <2>5, <2>6, FindSame
  <1>3. CASE UnknownKeys(j)
    <2> DEFINE new == [job[j] EXCEPT !.pc = "stopped"]
    <2>1. /\ new \in Job /\ new.pc = "stopped" /\ new.op = job[j].op /\ new.more = job[j].more
      BY <1>j DEF Job, Pcs
    <2>2. /\ job[j].op = "restore" /\ job[j].more = {} /\ Set(j, new)
          /\ UNCHANGED <<held, manifest>>
      BY <1>3, <1>j DEF UnknownKeys, Sound, storage
    <2> HIDE DEF new
    <2>3. GoesOn(job[j], new)
      BY <2>1, <2>2 DEF GoesOn, Ascending
    <2>4. \A b \in Batches : ~Reads(new, b) /\ Reading(held', new, b) /\ ~FiledBy(new, b)
      BY <2>1, <2>2, ReadsNothing DEF FiledBy
    <2> QED
      BY <1>d, <2>1, <2>2, <2>3, <2>4, FindSame
  <1>4. CASE SaveManifest(j)
    <2> DEFINE new == [job[j] EXCEPT !.pc = "logging"]
    <2>0. PICK b0 \in Batches : b0 = job[j].batch
      BY <1>j DEF Job
    <2>1. /\ new \in Job /\ new.pc = "logging" /\ new.op = job[j].op /\ new.more = job[j].more
      BY <1>j DEF Job, Pcs
    <2>2. /\ job[j].op = "restore" /\ job[j].more = {} /\ Set(j, new)
          /\ job[j].pc = "moving" /\ job[j].todo = {} /\ job[j].mid = {}
          /\ UNCHANGED held
          /\ manifest' = [manifest EXCEPT ![b0] = IF job[j].kept = {} THEN {} ELSE {job[j].kept}]
      BY <1>4, <1>j, <2>0 DEF SaveManifest, Drained, Sound
    <2> HIDE DEF new
    <2>3. GoesOn(job[j], new)
      BY <2>1, <2>2 DEF GoesOn, Ascending
    <2>4. \A b \in Batches : ~Reads(new, b) /\ Reading(held', new, b) /\ ~FiledBy(new, b)
      BY <2>1, <2>2, ReadsNothing DEF FiledBy
    <2>5. \A b \in Batches \ {b0} : manifest'[b] = manifest[b]
      BY <2>2 DEF TypeOK
    <2>6. manifest'[b0] = IF job[j].kept = {} THEN {} ELSE {job[j].kept}
      BY <2>0, <2>2 DEF TypeOK
    <2>7. ASSUME NEW b \in Batches, InOrder(b)
          PROVE  /\ manifest'[b] # {} => Filed(b)
                 /\ Filed(b) => \A k \in Keys : held'[b][k] # {} => k \in UNION manifest'[b]
      <3>1. CASE b = b0
        <4>1. Opened(job[j], b)
          BY <2>0, <2>2, <3>1 DEF Opened
        <4>2. Filed(b) /\ Covered(held, b, job[j].kept)
          BY <2>2, <2>7, <4>1 DEF InOrder, Reads, Reading
        <4> QED
          BY <2>2, <2>6, <3>1, <4>2 DEF Covered
      <3>2. CASE b # b0
        BY <2>2, <2>5, <2>7, <3>2 DEF InOrder, Covered
      <3> QED
        BY <3>1, <3>2
    <2> QED
      BY <1>d, <2>1, <2>2, <2>3, <2>4, <2>7, FindSet
  <1>5. ASSUME NEW k \in Keys, CopyBack(j, k)
        PROVE  FindInv'
    <2> DEFINE new == [job[j] EXCEPT !.todo = @ \ {k}, !.mid = @ \cup {k}]
    <2>1. /\ new \in Job /\ new.pc = job[j].pc /\ new.op = job[j].op /\ new.batch = job[j].batch
          /\ new.more = job[j].more /\ new.mid = job[j].mid \cup {k}
          /\ new.todo = job[j].todo \ {k} /\ new.kept = job[j].kept
      BY <1>5, <1>j DEF CopyBack, Job
    <2>2. /\ job[j].op = "restore" /\ job[j].pc \in {"moving", "failing"} /\ Set(j, new)
          /\ UNCHANGED <<held, manifest>>
      BY <1>5 DEF CopyBack, Pool
    <2> HIDE DEF new
    <2>3. GoesOn(job[j], new)
      BY <2>1, <2>2 DEF GoesOn, Ascending
    <2>4. \A b \in Batches : /\ Reads(new, b) => Reads(job[j], b)
                             /\ ~FiledBy(new, b)
                             /\ Reading(held, job[j], b) => Reading(held', new, b)
      BY <2>1, <2>2 DEF Reads, Reading, Opened, Covered, FiledBy
    <2> QED
      BY <1>d, <2>1, <2>2, <2>3, <2>4, FindSame
  <1>6. ASSUME NEW k \in Keys, DeleteCopy(j, k)
        PROVE  FindInv'
    <2> DEFINE new == [job[j] EXCEPT !.mid = @ \ {k}, !.moved = @ \cup {k}]
    <2>0. PICK b0 \in Batches : b0 = job[j].batch
      BY <1>j DEF Job
    <2>1. /\ new \in Job /\ new.pc = job[j].pc /\ new.op = job[j].op /\ new.batch = b0
          /\ new.more = job[j].more /\ new.mid = job[j].mid \ {k}
          /\ new.todo = job[j].todo /\ new.kept = job[j].kept
      BY <1>6, <1>j, <2>0 DEF DeleteCopy, Job
    <2>2. /\ job[j].op = "restore" /\ job[j].pc \in {"moving", "failing"} /\ Set(j, new)
          /\ held' = [held EXCEPT ![b0][k] = {}] /\ UNCHANGED manifest
      BY <1>6, <2>0 DEF DeleteCopy, Pool
    <2> HIDE DEF new
    <2>3. GoesOn(job[j], new)
      BY <2>1, <2>2 DEF GoesOn, Ascending
    <2>4. /\ \A b \in Batches, x \in Keys : held'[b][x] # {} => held[b][x] # {}
          /\ held'[b0][k] = {}
      BY <2>2 DEF TypeOK
    <2>5. ASSUME NEW b \in Batches
          PROVE  /\ Reads(new, b) => Reads(job[j], b)
                 /\ ~FiledBy(new, b)
                 /\ Reading(held, job[j], b) => Reading(held', new, b)
      BY <2>0, <2>1, <2>2, <2>4 DEF Reads, Reading, Opened, Covered, FiledBy
    <2> QED
      BY <1>d, <2>1, <2>2, <2>3, <2>4, <2>5, FindSame
  <1> QED
    BY <1>1, <1>2, <1>3, <1>4, <1>5, <1>6 DEF RestoreStep

(* What a purge's delete leaves of the copies. *)
LEMMA DeleteLeaves ==
  ASSUME TypeOK, NEW j \in Jobs, NEW S \in SUBSET Keys, Delete(j, S)
  PROVE  /\ \A b \in Batches, k \in Keys : held'[b][k] # {} => held[b][k] # {}
         /\ job[j].batch \notin dropped' => \A k \in S : held'[job[j].batch][k] = {}
         /\ ~DeleteErrors => \A k \in S : held'[job[j].batch][k] = {}
  <1>1. PICK b0 \in Batches : b0 = job[j].batch
    BY DEF TypeOK, Job
  <1>2. PICK E \in SUBSET S :
           /\ E # {} => DeleteErrors
           /\ held' = [held EXCEPT ![job[j].batch] =
                          [k \in Keys |-> IF k \in S \ E THEN {} ELSE @[k]]]
           /\ dropped' = dropped \cup
                 {b \in {job[j].batch} : \E k \in E : held[b][k] # {}}
    BY DEF Delete
  <1>3. \A k \in Keys : held'[b0][k] = IF k \in S \ E THEN {} ELSE held[b0][k]
    BY <1>1, <1>2 DEF TypeOK
  <1>4. \A b \in Batches \ {b0} : held'[b] = held[b]
    BY <1>1, <1>2 DEF TypeOK
  <1>5. b0 \notin dropped' => \A k \in E : held[b0][k] = {}
    BY <1>1, <1>2
  <1> QED
    BY <1>1, <1>2, <1>3, <1>4, <1>5

LEMMA FindTake ==
  ASSUME TypeOK, PlanInv, FindInv, NEW j \in Jobs, job[j].pc \in {"listed", "appending"},
         NEW ms \in SUBSET job[j].more, TakeOldest(j, ms), UNCHANGED <<held, manifest, dropped>>
  PROVE  FindInv'
  <1>1. PICK m \in ms :
           /\ \A n \in ms : m.batch <= n.batch
           /\ Set(j, [job[j] EXCEPT !.pc = "purging", !.more = ms,
                                    !.batch = m.batch, !.todo = m.keys, !.log = {}])
    BY DEF TakeOldest
  <1> DEFINE new == [job[j] EXCEPT !.pc = "purging", !.more = ms,
                                   !.batch = m.batch, !.todo = m.keys, !.log = {}]
  <1>2. job[j] \in Job /\ Sound(job[j]) /\ Ascending(job[j]) /\ m \in job[j].more
    BY DEF TypeOK, PlanInv, FindInv
  <1>3. m \in Listing /\ job[j].op = "purge" /\ job[j].batch <= m.batch
    BY <1>2 DEF Sound, Ascending, Job
  <1>4. /\ new \in Job /\ new.pc = "purging" /\ new.op = "purge" /\ new.batch = m.batch
        /\ new.more = ms /\ new.todo = m.keys
    BY <1>2, <1>3 DEF Job, Pcs, Listing
  <1>5. Set(j, new)
    BY <1>1
  <1> HIDE DEF new
  <1>6. GoesOn(job[j], new)
    BY <1>1, <1>3, <1>4 DEF GoesOn, Ascending
  <1>7. \A b \in Batches : /\ Reads(new, b) => Reads(job[j], b)
                           /\ ~FiledBy(new, b)
                           /\ Reading(held, job[j], b) => Reading(held', new, b)
    BY <1>2, <1>3, <1>4 DEF Reads, Reading, Opened, FiledBy
  <1> QED
    BY <1>4, <1>5, <1>6, <1>7, FindSame

LEMMA FindPurge ==
  ASSUME TypeOK, PlanInv, FindInv, NEW j \in Jobs, PurgeStep(j)
  PROVE  FindInv'
  <1>d. dropped \subseteq dropped'
    BY DroppedGrows DEF JobStep
  <1>j. job[j] \in Job /\ Sound(job[j]) /\ Ascending(job[j])
    BY DEF TypeOK, PlanInv, FindInv
  <1>1. CASE ListBatches(j)
    <2>1. PICK force \in BOOLEAN, chosen \in SUBSET Stored :
             Set(j, [job[j] EXCEPT !.pc = "listed", !.opt = force, !.more = chosen])
      BY <1>1 DEF ListBatches
    <2> DEFINE new == [job[j] EXCEPT !.pc = "listed", !.opt = force, !.more = chosen]
    <2>2. \A m \in Stored : /\ m \in Listing /\ m.batch \in Batches
                            /\ m.keys \in manifest[m.batch]
      BY DEF Stored, Listing, TypeOK
    <2>3. /\ new \in Job /\ new.pc = "listed" /\ new.op = job[j].op /\ new.batch = job[j].batch
          /\ new.more = chosen
      BY <1>j, <2>2 DEF Job, Pcs
    <2>4. /\ job[j].op = "purge" /\ job[j].pc = "idle" /\ job[j].batch = 0
          /\ UNCHANGED <<held, manifest>>
      BY <1>1, <1>j DEF ListBatches, Idle, Ascending, storage
    <2>5. Set(j, new)
      BY <2>1
    <2> HIDE DEF new
    <2>6. GoesOn(job[j], new)
      BY <2>2, <2>3, <2>4 DEF GoesOn, Ascending, Batches
    <2>7. ASSUME NEW b \in Batches, InOrder(b)
          PROVE  /\ manifest'[b] # {} \/ Reads(new, b) => Filed(b) \/ FiledBy(new, b)
                 /\ Filed(b) \/ FiledBy(new, b) => \A k \in Keys :
                       held'[b][k] # {} => k \in UNION manifest'[b]
                 /\ Reading(held', new, b)
      <3>1. ~FiledBy(new, b) /\ ~Opened(new, b)
        BY <2>3, <2>4 DEF FiledBy, Opened
      <3>2. \A m \in chosen : m.batch = b => manifest[b] # {} /\ UNION manifest[b] = m.keys
        BY <2>2 DEF TypeOK, AtMostOne
      <3>3. Reads(new, b) => manifest[b] # {}
        BY <2>3, <3>1, <3>2 DEF Reads
      <3>4. \A m \in chosen : m.batch = b => Covered(held', b, m.keys)
        BY <2>4, <2>7, <3>2 DEF InOrder
      <3>5. Reading(held', new, b)
        BY <2>3, <3>1, <3>4 DEF Reading
      <3> QED
        BY <2>4, <2>7, <3>1, <3>3, <3>5 DEF InOrder, Covered
    <2> QED
      BY <1>d, <2>3, <2>4, <2>5, <2>6, <2>7, FindSet
  <1>2. CASE StartPurge(j)
    BY <1>2, FindTake DEF StartPurge, storage, history
  <1>3. CASE RefusePurge(j)
    <2> DEFINE new == [job[j] EXCEPT !.pc = "refused"]
    <2>1. /\ new \in Job /\ new.pc = "refused" /\ new.op = job[j].op /\ new.batch = job[j].batch
          /\ new.more = job[j].more
      BY <1>j DEF Job, Pcs
    <2>2. /\ job[j].op = "purge" /\ Set(j, new) /\ UNCHANGED <<held, manifest>>
      BY <1>3, <1>j DEF RefusePurge, Sound, storage
    <2> HIDE DEF new
    <2>3. GoesOn(job[j], new)
      BY <1>j, <2>1, <2>2 DEF GoesOn, Ascending, Job, Batches
    <2>4. \A b \in Batches : /\ Reads(new, b) => Reads(job[j], b)
                             /\ ~FiledBy(new, b)
                             /\ Reading(held, job[j], b) => Reading(held', new, b)
      BY <2>1, <2>2 DEF Reads, Reading, Opened, FiledBy
    <2> QED
      BY <1>d, <2>1, <2>2, <2>3, <2>4, FindSame
  <1>4. CASE PurgeChunk(j)
    <2>1. PICK S \in SUBSET job[j].todo :
             Delete(j, S) /\ Set(j, [job[j] EXCEPT !.todo = @ \ S])
      BY <1>4 DEF PurgeChunk
    <2> DEFINE new == [job[j] EXCEPT !.todo = @ \ S]
    <2>2. /\ new \in Job /\ new.pc = job[j].pc /\ new.op = job[j].op /\ new.batch = job[j].batch
          /\ new.more = job[j].more /\ new.todo = job[j].todo \ S
      BY <1>j DEF Job
    <2>3. job[j].pc = "purging" /\ job[j].op = "purge" /\ Set(j, new) /\ UNCHANGED manifest
      BY <1>4, <1>j, <2>1 DEF PurgeChunk, Sound
    <2> HIDE DEF new
    <2>4. GoesOn(job[j], new)
      BY <1>j, <2>2, <2>3 DEF GoesOn, Ascending, Job, Batches
    <2>5. /\ \A b \in Batches, k \in Keys : held'[b][k] # {} => held[b][k] # {}
          /\ job[j].batch \notin dropped' => \A k \in S : held'[job[j].batch][k] = {}
      <3>1. S \in SUBSET Keys
        BY <1>j DEF Job
      <3> QED
        BY <2>1, <3>1, DeleteLeaves
    <2>6. ASSUME NEW b \in Batches, ~Excused(b)', Reading(held, job[j], b)
          PROVE  Reading(held', new, b)
      <3>1. b \notin dropped'
        BY <2>6 DEF Excused, ErrorsDropped
      <3>2. ~Opened(new, b)
        BY <2>2, <2>3 DEF Opened
      <3> QED
        BY <2>2, <2>3, <2>5, <2>6, <3>1, <3>2 DEF Reading, Covered
    <2>7. \A b \in Batches : /\ Reads(new, b) => Reads(job[j], b)
                             /\ ~FiledBy(new, b)
      BY <2>2, <2>3 DEF Reads, Opened, FiledBy
    <2> QED
      BY <1>d, <2>2, <2>3, <2>4, <2>5, <2>6, <2>7, FindSame
  <1>5. CASE PurgeLast(j)
    <2>0. PICK b0 \in Batches : b0 = job[j].batch
      BY <1>j DEF Job
    <2>1. PICK gone \in SUBSET Keys :
             Set(j, [job[j] EXCEPT !.pc = "logging", !.todo = {}, !.moved = gone])
      <3>1. UNION {m.keys : m \in Current(j)} \in SUBSET Keys
        BY <1>j DEF Current, Job, Listing
      <3> QED
        BY <1>5, <3>1 DEF PurgeLast
    <2> DEFINE new == [job[j] EXCEPT !.pc = "logging", !.todo = {}, !.moved = gone]
    <2>2. /\ new \in Job /\ new.pc = "logging" /\ new.op = job[j].op /\ new.batch = b0
          /\ new.more = job[j].more
      BY <1>j, <2>0 DEF Job, Pcs
    <2>3. job[j].pc = "purging" /\ job[j].op = "purge" /\ Set(j, new)
      BY <1>5, <1>j, <2>1 DEF PurgeLast, Sound
    <2> HIDE DEF new
    <2>4. GoesOn(job[j], new)
      BY <1>j, <2>0, <2>2, <2>3 DEF GoesOn, Ascending, Batches
    <2>5. /\ \A b \in Batches, k \in Keys : held'[b][k] # {} => held[b][k] # {}
          /\ b0 \notin dropped' => \A k \in job[j].todo : held'[b0][k] = {}
      <3>1. job[j].todo \in SUBSET Keys /\ Delete(j, job[j].todo)
        BY <1>5, <1>j DEF Job, PurgeLast
      <3> QED
        BY <2>0, <3>1, DeleteLeaves
    <2>6. /\ \A b \in Batches : manifest'[b] \subseteq manifest[b]
          /\ \A b \in Batches \ {b0} : manifest'[b] = manifest[b]
      BY <1>5, <2>0 DEF PurgeLast, TypeOK
    <2>7. ASSUME NEW b \in Batches, ~Excused(b)', InOrder(b)
          PROVE  /\ manifest'[b] # {} \/ Reads(new, b) => Filed(b) \/ FiledBy(new, b)
                 /\ Filed(b) \/ FiledBy(new, b) => \A k \in Keys :
                       held'[b][k] # {} => k \in UNION manifest'[b]
                 /\ Reading(held', new, b)
      <3>1. ~FiledBy(new, b) /\ ~Opened(new, b)
        BY <2>2, <2>3 DEF FiledBy, Opened
      <3>2. Reads(new, b) => Reads(job[j], b)
        BY <2>2, <3>1 DEF Reads
      <3>3. Reading(held, job[j], b)
        BY <2>7 DEF InOrder
      <3>4. Reading(held', new, b)
        BY <2>2, <2>5, <3>1, <3>3 DEF Reading, Covered
      <3>5. Filed(b) => \A k \in Keys : held'[b][k] # {} => k \in UNION manifest'[b]
        <4>1. CASE b = b0
          <5>1. b0 \notin dropped'
            BY <2>7, <4>1 DEF Excused, ErrorsDropped
          <5>2. \A k \in Keys : held'[b][k] = {}
            BY <2>0, <2>3, <2>5, <3>3, <4>1, <5>1 DEF Reading, Covered
          <5> QED
            BY <5>2
        <4>2. CASE b # b0
          BY <2>5, <2>6, <2>7, <4>2 DEF InOrder, Covered
        <4> QED
          BY <4>1, <4>2
      <3> QED
        BY <2>6, <2>7, <3>1, <3>2, <3>4, <3>5 DEF InOrder
    <2> QED
      BY <1>d, <2>2, <2>3, <2>4, <2>5, <2>7, FindSet
  <1> QED
    BY <1>1, <1>2, <1>3, <1>4, <1>5 DEF PurgeStep

LEMMA FindLog ==
  ASSUME TypeOK, PlanInv, FindInv, NEW j \in Jobs, ReadLog(j) \/ WriteLog(j) \/ Stop(j)
  PROVE  FindInv'
  <1>d. dropped \subseteq dropped'
    BY DroppedGrows DEF JobStep
  <1>j. job[j] \in Job /\ Sound(job[j]) /\ Ascending(job[j])
    BY DEF TypeOK, PlanInv, FindInv
  <1>1. CASE ReadLog(j)
    <2> DEFINE new == [job[j] EXCEPT !.pc = "appending", !.log = audit]
    <2>1. /\ new \in Job /\ new.pc = "appending" /\ new.op = job[j].op
          /\ new.batch = job[j].batch /\ new.more = job[j].more
          /\ new.mid = job[j].mid /\ new.moved = job[j].moved
      BY <1>j DEF Job, Pcs, TypeOK
    <2>2. job[j].pc = "logging" /\ Set(j, new) /\ UNCHANGED <<held, manifest>>
      BY <1>1 DEF ReadLog, storage
    <2> HIDE DEF new
    <2>3. GoesOn(job[j], new)
      BY <1>j, <2>1, <2>2 DEF GoesOn, Ascending, Job, Batches
    <2>4. \A b \in Batches : /\ Reads(new, b) => Reads(job[j], b)
                             /\ FiledBy(new, b) => FiledBy(job[j], b)
                             /\ Reading(held, job[j], b) => Reading(held', new, b)
      BY <2>1, <2>2 DEF Reads, Reading, Opened, FiledBy
    <2> QED
      BY <1>d, <2>1, <2>2, <2>3, <2>4, FindSame
  <1>2. CASE WriteLog(j) /\ Set(j, [job[j] EXCEPT !.pc = "done", !.more = {}, !.log = {}])
    <2> DEFINE new == [job[j] EXCEPT !.pc = "done", !.more = {}, !.log = {}]
    <2>1. /\ new \in Job /\ new.pc = "done" /\ new.op = job[j].op
          /\ new.batch = job[j].batch /\ new.more = {}
          /\ new.mid = job[j].mid /\ new.moved = job[j].moved
      BY <1>j DEF Job, Pcs
    <2>2. job[j].pc = "appending" /\ Set(j, new) /\ UNCHANGED <<held, manifest>>
      BY <1>2 DEF WriteLog
    <2> HIDE DEF new
    <2>3. GoesOn(job[j], new)
      BY <1>j, <2>1, <2>2 DEF GoesOn, Ascending, Job, Batches
    <2>4. \A b \in Batches : /\ ~Reads(new, b) /\ Reading(held', new, b)
                             /\ FiledBy(new, b) => FiledBy(job[j], b)
      BY <2>1, <2>2 DEF Reads, Reading, Opened, FiledBy
    <2> QED
      BY <1>d, <2>1, <2>2, <2>3, <2>4, FindSame
  <1>3. CASE WriteLog(j) /\ TakeOldest(j, job[j].more \ Current(j))
    BY <1>3, FindTake DEF WriteLog, history
  <1>4. CASE Stop(j)
    <2> DEFINE new == [job[j] EXCEPT !.pc = "stopped", !.log = {}]
    <2>1. /\ new \in Job /\ new.pc = "stopped" /\ new.op = job[j].op
          /\ new.batch = job[j].batch /\ new.more = job[j].more
          /\ new.mid = job[j].mid /\ new.moved = job[j].moved
      BY <1>j DEF Job, Pcs
    <2>2. Inside(j) /\ Set(j, new) /\ UNCHANGED <<held, manifest>>
      BY <1>4 DEF Stop, storage
    <2> HIDE DEF new
    <2>3. GoesOn(job[j], new)
      BY <1>j, <2>1, <2>2 DEF GoesOn, Ascending, Job, Batches
    <2>4. \A b \in Batches : /\ Reads(new, b) => Reads(job[j], b)
                             /\ ~FiledBy(new, b)
                             /\ Reading(held, job[j], b) => Reading(held', new, b)
      BY <2>1, <2>2 DEF Reads, Reading, Opened, FiledBy
    <2> QED
      BY <1>d, <2>1, <2>2, <2>3, <2>4, FindSame
  <1> QED
    BY <1>1, <1>2, <1>3, <1>4 DEF WriteLog

LEMMA FindStep == TypeOK /\ PlanInv /\ FindInv /\ [Next]_vars => FindInv'
  <1> SUFFICES ASSUME TypeOK, PlanInv, FindInv, [Next]_vars
               PROVE  FindInv'
    OBVIOUS
  <1>1. ASSUME NEW j \in Jobs, JobStep(j) \/ Stop(j)
        PROVE  FindInv'
    BY <1>1, FindQuarantine, FindRestore, FindPurge, FindLog DEF JobStep
  <1>2. ASSUME UNCHANGED <<held, manifest, job, dropped>>
        PROVE  FindInv'
    BY <1>2 DEF FindInv, Origin, QuarantinesOf, Made, Ascending, Excused, Died, SharedId,
                ErrorsDropped, InOrder, Filed, FiledBy, Reads, Reading, Opened, Covered
  <1>3. ASSUME NEW k \in Keys, ClientWrite(k) \/ ClientDelete(k)
        PROVE  FindInv'
    BY <1>2, <1>3 DEF ClientWrite, ClientDelete, Touch
  <1>4. CASE Tick \/ UNCHANGED vars
    BY <1>2, <1>4 DEF Tick, vars, storage, history
  <1> QED
    BY <1>1, <1>3, <1>4 DEF Next

(* An object in quarantine is listed by its batch's manifest, unless a     *)
(* quarantine of the batch died or is at work, two share its id, or a purge*)
(* dropped its errors.                                                     *)
THEOREM NothingIsOrphaned == Spec => []NoOrphans
  BY TypeInit, TypeStep, PlanInit, PlanStep, FindInit, FindStep, FindGivesNoOrphans,
     PTL DEF Spec
-----------------------------------------------------------------------------
(* Under one lock, and where delete_objects drops no errors, what a batch's*)
(* manifest, its objects and the audit log say differs only by what the job*)
(* at work on it has done and not yet written down.                        *)

Working(r) == r.pc \in {"opening", "moving", "failing", "purging", "logging", "appending"}
On(r, b)   == Working(r) /\ r.batch = b

Entries(b)  == UNION manifest[b]
LinesOf(b)  == {l \in audit : l.batch = b}
Finished(b) == \E q \in QuarantinesOf(b) : job[q].pc = "done"
Listed(r)   == UNION {m.keys : m \in {n \in r.more : n.batch = r.batch}}

(* The objects H, the entries M and the log's keys L of the batch that job *)
(* r is at work on.                                                        *)
Books(r, H, M, L) ==
    /\ r.op = "quarantine" /\ r.pc = "moving"  => M = {} /\ H = r.mid \cup r.moved
    /\ r.op = "quarantine" /\ r.pc \in {"logging", "appending"} => M = r.moved /\ H = r.moved
    /\ r.op = "restore" /\ r.pc = "opening" =>
          /\ M = L /\ H = L /\ L = r.todo \cup r.kept
          /\ r.todo \cap r.kept = {}
    /\ r.op = "restore" /\ r.pc = "moving"  =>
          M = L /\ H = L \ r.moved /\ r.kept = L \ (r.todo \cup r.mid \cup r.moved)
    /\ r.op = "restore" /\ r.pc \in {"logging", "appending"} => M = L \ r.moved /\ H = M
    /\ r.op = "purge" /\ r.pc = "purging" =>
          /\ M = L /\ L \subseteq Listed(r) /\ r.todo \subseteq Listed(r)
          /\ H = L \ (Listed(r) \ r.todo)
    /\ r.op = "purge" /\ r.pc \in {"logging", "appending"} =>
          M = {} /\ H = {} /\ L \subseteq r.moved

Agree(b)     == Entries(b) = HeldKeys(b) /\ ByTheLog(b) = HeldKeys(b)
Quiet(b)     == \A i \in Jobs : ~On(job[i], b)
Unsettled(b) == SharedId(b) \/ \E i \in Jobs : job[i].batch = b /\ job[i].pc = "stopped"

(* Only a batch whose quarantine is done is logged, restored and purged.   *)
Balanced(b) ==
    /\ LinesOf(b) # {} => Finished(b)
    /\ \A i \in Jobs : On(job[i], b) =>
          /\ Books(job[i], HeldKeys(b), Entries(b), ByTheLog(b))
          /\ job[i].op # "quarantine" => Finished(b)
    /\ Quiet(b) => Agree(b)

BooksInv == \A b \in Batches : Unsettled(b) \/ Balanced(b)

-----------------------------------------------------------------------------
(* What the log says of a batch, line by line. *)
LEMMA LogSays ==
  ASSUME NEW b, NEW k
  PROVE  k \in ByTheLog(b) <=>
            /\ \E l \in audit : l.batch = b /\ l.action = "quarantine" /\ k \in l.keys
            /\ ~ \E l \in audit : /\ l.batch = b /\ l.action \in {"restore", "purge"}
                                  /\ k \in l.keys
  <1>1. \A a : k \in Logged(a, b) <=> \E l \in audit : l.batch = b /\ l.action = a /\ k \in l.keys
    BY DEF Logged
  <1>2. k \in ByTheLog(b) <=> /\ k \in Logged("quarantine", b)
                              /\ k \notin Logged("restore", b) /\ k \notin Logged("purge", b)
    BY DEF ByTheLog
  <1> QED
    BY <1>1, <1>2

LEMMA EmptyLog == ASSUME NEW b, LinesOf(b) = {} PROVE ByTheLog(b) = {}
  <1>1. \A l \in audit : l.batch # b
    BY DEF LinesOf
  <1> QED
    BY <1>1, LogSays

LEMMA SameLog ==
  ASSUME NEW b, LinesOf(b)' = LinesOf(b)
  PROVE  ByTheLog(b)' = ByTheLog(b)
  <1>1. \A l : l \in audit' /\ l.batch = b <=> l \in audit /\ l.batch = b
    BY DEF LinesOf
  <1>2. \A a : Logged(a, b)' = Logged(a, b)
    BY <1>1 DEF Logged
  <1> QED
    BY <1>2 DEF ByTheLog

LEMMA NewLine ==
  ASSUME NEW l \in Line, audit' = audit \cup {l}
  PROVE  /\ \A b : b # l.batch => LinesOf(b)' = LinesOf(b)
         /\ l.action = "quarantine" /\ LinesOf(l.batch) = {} => ByTheLog(l.batch)' = l.keys
         /\ l.action # "quarantine" => ByTheLog(l.batch)' = ByTheLog(l.batch) \ l.keys
  <1>1. ASSUME NEW b, b # l.batch
        PROVE  LinesOf(b)' = LinesOf(b)
    BY <1>1 DEF LinesOf
  <1> DEFINE b == l.batch
  <1>2. \A a : Logged(a, b)' = Logged(a, b) \cup (IF a = l.action THEN l.keys ELSE {})
    BY DEF Logged
  <1>3. CASE l.action = "quarantine" /\ LinesOf(b) = {}
    <2>1. \A a : Logged(a, b) = {}
      BY <1>3 DEF Logged, LinesOf
    <2> QED
      BY <1>1, <1>2, <1>3, <2>1 DEF ByTheLog
  <1>4. CASE l.action \in {"restore", "purge"}
    <2> HIDE DEF b
    <2>0. l.action # "quarantine"
      BY <1>4
    <2>1. Logged("quarantine", b)' = Logged("quarantine", b)
      BY <1>2, <2>0, Zenon
    <2>2. Logged("restore", b)' \cup Logged("purge", b)'
             = (Logged("restore", b) \cup Logged("purge", b)) \cup l.keys
      BY <1>2, <1>4
    <2>3. ByTheLog(b)' = ByTheLog(b) \ l.keys
      BY <2>1, <2>2 DEF ByTheLog
    <2> QED
      BY <1>1, <1>4, <2>3 DEF b
  <1>5. l.action \in {"quarantine", "restore", "purge"}
    BY DEF Line, Ops
  <1> QED
    BY <1>1, <1>3, <1>4, <1>5

-----------------------------------------------------------------------------
(* One job's step: it stays what it is, and a quarantine keeps its batch.  *)
Moves(old, new) ==
    /\ old.pc \notin {"stopped", "done"} /\ new.pc # "idle" /\ new.op = old.op
    /\ old.op = "quarantine" /\ old.pc # "idle" => new.batch = old.batch

LEMMA Lasting ==
  ASSUME TypeOK, NEW j \in Jobs, NEW new, Set(j, new), Moves(job[j], new), NEW b
  PROVE  /\ Unsettled(b) => Unsettled(b)'
         /\ Finished(b) => Finished(b)'
         /\ new.batch = b /\ new.pc = "stopped" => Unsettled(b)'
  <1>1. job'[j] = new /\ \A i \in Jobs \ {j} : job'[i] = job[i]
    BY AfterSet
  <1>2. ASSUME NEW q \in QuarantinesOf(b)
        PROVE  /\ q \in QuarantinesOf(b)'
               /\ job[q].pc \in {"stopped", "done"} => job'[q] = job[q]
    <2>1. CASE q = j
      BY <1>1, <1>2, <2>1 DEF Moves, QuarantinesOf
    <2>2. CASE q # j
      BY <1>1, <1>2, <2>2 DEF QuarantinesOf
    <2> QED
      BY <2>1, <2>2
  <1>3. \A i \in Jobs : job[i].pc = "stopped" => job'[i] = job[i]
    BY <1>1 DEF Moves
  <1> QED
    BY <1>1, <1>2, <1>3 DEF Unsettled, SharedId, Finished

(* Under one lock nobody is at work beside the job at work.                *)
LEMMA Alone ==
  ASSUME TypeOK, PlanInv, PlanInv', ~Apart, NEW j \in Jobs, NEW new, Set(j, new),
         Working(job[j]) \/ Working(new)
  PROVE  \A i \in Jobs \ {j} : ~Working(job[i]) /\ ~Working(job'[i])
  <1>1. job'[j] = new /\ \A i \in Jobs \ {j} : job'[i] = job[i]
    BY AfterSet
  <1>2. \A i, k \in Jobs : Working(job[i]) /\ Working(job[k]) => i = k
    BY DEF Working, PlanInv, Exclusive, Inside, Apart
  <1>3. \A i, k \in Jobs : Working(job'[i]) /\ Working(job'[k]) => i = k
    BY DEF Working, PlanInv, Exclusive, Inside, Apart
  <1> QED
    BY <1>1, <1>2, <1>3

(* What such a step has to show of one batch.                              *)
LEMMA BooksSet ==
  ASSUME TypeOK, PlanInv, PlanInv', ~Apart, NEW j \in Jobs, NEW new, Set(j, new),
         Moves(job[j], new), Working(job[j]) \/ Working(new),
         NEW b, Unsettled(b) \/ Balanced(b),
         ~Unsettled(b)' /\ Balanced(b) =>
            /\ LinesOf(b)' # {} => Finished(b)'
            /\ On(new, b) => /\ Books(new, HeldKeys(b)', Entries(b)', ByTheLog(b)')
                             /\ new.op # "quarantine" => Finished(b)
            /\ ~On(new, b) => Agree(b)'
  PROVE  (Unsettled(b) \/ Balanced(b))'
  <1> SUFFICES ASSUME ~Unsettled(b)'
               PROVE  Balanced(b)'
    OBVIOUS
  <1>1. job'[j] = new /\ \A i \in Jobs \ {j} : job'[i] = job[i]
    BY AfterSet
  <1>2. \A i \in Jobs : ~(i = j) => ~On(job'[i], b)
    BY Alone DEF On
  <1>3. Balanced(b) /\ (Finished(b) => Finished(b)')
    BY Lasting
  <1>4. \A i \in Jobs : On(job'[i], b) =>
           /\ Books(job'[i], HeldKeys(b)', Entries(b)', ByTheLog(b)')
           /\ job'[i].op # "quarantine" => Finished(b)'
    BY <1>1, <1>2, <1>3
  <1>5. Quiet(b)' => Agree(b)'
    BY <1>1, <1>3 DEF Quiet, On, Working
  <1>6. \A i \in Jobs : On(job[i], b)' <=> On(job'[i], b)
    BY DEF On, Working
  <1>7. \A i \in Jobs : Books(job[i], HeldKeys(b), Entries(b), ByTheLog(b))' <=>
                         Books(job'[i], HeldKeys(b)', Entries(b)', ByTheLog(b)')
    BY DEF Books, Listed
  <1> QED
    BY <1>3, <1>4, <1>5, <1>6, <1>7 DEF Balanced

(* The batch is none the step has to do with.                              *)
LEMMA BooksAway ==
  ASSUME TypeOK, PlanInv, PlanInv', ~Apart, NEW j \in Jobs, NEW new, Set(j, new),
         Moves(job[j], new), Working(job[j]) \/ Working(new),
         NEW b, Unsettled(b) \/ Balanced(b), ~On(job[j], b), ~On(new, b),
         held'[b] = held[b], manifest'[b] = manifest[b], LinesOf(b)' = LinesOf(b)
  PROVE  (Unsettled(b) \/ Balanced(b))'
  <1>1. Quiet(b)
    BY Alone DEF Quiet, On
  <1>2. HeldKeys(b)' = HeldKeys(b) /\ Entries(b)' = Entries(b) /\ ByTheLog(b)' = ByTheLog(b)
    BY SameLog DEF HeldKeys, Entries
  <1>3. Balanced(b) => (LinesOf(b)' # {} => Finished(b)') /\ Agree(b)'
    BY <1>1, <1>2, Lasting DEF Balanced, Agree
  <1> QED
    BY <1>3, BooksSet

(* A step that has to do with one batch only.                              *)
LEMMA BooksAt ==
  ASSUME TypeOK, PlanInv, PlanInv', ~Apart, BooksInv,
         NEW j \in Jobs, NEW new, Set(j, new), NEW b0 \in Batches, new.batch = b0,
         Moves(job[j], new), Working(job[j]) \/ Working(new),
         Working(job[j]) => job[j].batch = b0,
         \A b \in Batches \ {b0} : /\ held'[b] = held[b] /\ manifest'[b] = manifest[b]
                                   /\ LinesOf(b)' = LinesOf(b),
         ~Unsettled(b0)' /\ ~Unsettled(b0) /\ Balanced(b0) =>
            /\ LinesOf(b0)' # {} => Finished(b0)'
            /\ Working(new) => /\ Books(new, HeldKeys(b0)', Entries(b0)', ByTheLog(b0)')
                               /\ new.op # "quarantine" => Finished(b0)
            /\ ~Working(new) => Agree(b0)'
  PROVE  BooksInv'
  <1> SUFFICES ASSUME NEW b \in Batches
               PROVE  (Unsettled(b) \/ Balanced(b))'
    BY DEF BooksInv, Batches
  <1>1. Unsettled(b) \/ Balanced(b)
    BY DEF BooksInv
  <1>2. CASE b = b0
    <2>1. On(new, b) <=> Working(new)
      BY <1>2 DEF On
    <2>2. Unsettled(b) => Unsettled(b)'
      BY Lasting
    <2> QED
      BY <1>1, <1>2, <2>1, <2>2, BooksSet
  <1>3. CASE b # b0
    BY <1>1, <1>3, BooksAway DEF On
  <1> QED
    BY <1>2, <1>3

(* The step leaves the batch's log as it is.                               *)
LEMMA BooksUnlogged ==
  ASSUME TypeOK, PlanInv, PlanInv', ~Apart, BooksInv,
         NEW j \in Jobs, NEW new, Set(j, new), NEW b0 \in Batches, new.batch = b0,
         Moves(job[j], new), Working(job[j]) \/ Working(new),
         Working(job[j]) => job[j].batch = b0, UNCHANGED audit,
         \A b \in Batches \ {b0} : held'[b] = held[b] /\ manifest'[b] = manifest[b],
         ~Unsettled(b0)' /\ ~Unsettled(b0) /\ Balanced(b0) =>
            /\ Working(new)
            /\ Books(new, HeldKeys(b0)', Entries(b0)', ByTheLog(b0))
            /\ new.op # "quarantine" => Finished(b0)
  PROVE  BooksInv'
  <1>1. \A b \in Batches : LinesOf(b)' = LinesOf(b)
    BY DEF LinesOf
  <1>2. ByTheLog(b0)' = ByTheLog(b0)
    BY <1>1, SameLog
  <1>3. Balanced(b0) => (LinesOf(b0)' # {} => Finished(b0)')
    BY <1>1, Lasting DEF Balanced
  <1> QED
    BY <1>1, <1>2, <1>3, BooksAt

(* A step of a job that is outside the lock and stays outside.             *)
LEMMA BooksOutside ==
  ASSUME TypeOK, BooksInv, NEW j \in Jobs, NEW new, Set(j, new), new.op = job[j].op,
         job[j].op # "quarantine", ~Working(job[j]), ~Working(new),
         job[j].pc # "stopped", new.pc # "stopped", UNCHANGED <<held, manifest, audit>>
  PROVE  BooksInv'
  <1>1. job'[j] = new /\ \A i \in Jobs \ {j} : job'[i] = job[i]
    BY AfterSet
  <1> SUFFICES ASSUME NEW b \in Batches
               PROVE  (Unsettled(b) \/ Balanced(b))'
    BY DEF BooksInv, Batches
  <1>2. /\ QuarantinesOf(b)' = QuarantinesOf(b)
        /\ \A q \in QuarantinesOf(b) : job'[q] = job[q]
    BY <1>1 DEF QuarantinesOf
  <1>3. (Unsettled(b) <=> Unsettled(b)') /\ (Finished(b) <=> Finished(b)')
    BY <1>1, <1>2 DEF Unsettled, SharedId, Finished
  <1>4. /\ HeldKeys(b)' = HeldKeys(b) /\ Entries(b)' = Entries(b)
        /\ LinesOf(b)' = LinesOf(b) /\ ByTheLog(b)' = ByTheLog(b)
    BY SameLog DEF HeldKeys, Entries, LinesOf
  <1>5. \A i \in Jobs : On(job'[i], b) => job'[i] = job[i] /\ On(job[i], b)
    BY <1>1 DEF On
  <1>6. \A i \in Jobs : On(job[i], b) => On(job'[i], b)
    BY <1>1 DEF On
  <1>7. \A i \in Jobs : On(job[i], b)' <=> On(job'[i], b)
    BY DEF On, Working
  <1>8. \A i \in Jobs : Books(job[i], HeldKeys(b), Entries(b), ByTheLog(b))' <=>
                         Books(job'[i], HeldKeys(b)', Entries(b)', ByTheLog(b)')
    BY DEF Books, Listed
  <1>9. Balanced(b) => Balanced(b)'
    <2>1. Balanced(b) => (LinesOf(b)' # {} => Finished(b)')
      BY <1>3, <1>4 DEF Balanced
    <2>2. Balanced(b) => \A i \in Jobs : On(job'[i], b) =>
             /\ Books(job'[i], HeldKeys(b)', Entries(b)', ByTheLog(b)')
             /\ job'[i].op # "quarantine" => Finished(b)'
      BY <1>3, <1>4, <1>5 DEF Balanced
    <2>3. Balanced(b) => (Quiet(b)' => Agree(b)')
      BY <1>4, <1>6, <1>7 DEF Balanced, Quiet, Agree
    <2> QED
      BY <1>7, <1>8, <2>1, <2>2, <2>3 DEF Balanced
  <1> QED
    BY <1>3, <1>9 DEF BooksInv

-----------------------------------------------------------------------------
(* What a job at work finds before its step.                               *)
LEMMA AtWork ==
  ASSUME NEW j \in Jobs, Working(job[j]), NEW b, job[j].batch = b, Balanced(b)
  PROVE  /\ Books(job[j], HeldKeys(b), Entries(b), ByTheLog(b))
         /\ job[j].op # "quarantine" => Finished(b)
         /\ job[j].op = "quarantine" /\ job[j].pc # "done" /\ ~Unsettled(b) => LinesOf(b) = {}
  <1>1. On(job[j], b)
    BY DEF On
  <1>2. ASSUME job[j].op = "quarantine", job[j].pc # "done", ~Unsettled(b), LinesOf(b) # {}
        PROVE  FALSE
    <2>1. PICK q \in QuarantinesOf(b) : job[q].pc = "done"
      BY <1>2 DEF Balanced, Finished
    <2>2. j \in QuarantinesOf(b)
      BY <1>2 DEF QuarantinesOf, Working
    <2> QED
      BY <1>2, <2>1, <2>2 DEF Unsettled, SharedId
  <1> QED
    BY <1>1, <1>2 DEF Balanced

(* A quarantine finds its batch empty.                                     *)
LEMMA EmptyBatch ==
  ASSUME TypeOK, FindInv, ~DeleteErrors, NEW b \in Batches, Balanced(b), QuarantinesOf(b) = {}
  PROVE  HeldKeys(b) = {} /\ Entries(b) = {} /\ ByTheLog(b) = {}
  <1>1. HeldKeys(b) = {}
    BY DEF FindInv, Origin, HeldKeys
  <1>2. LinesOf(b) = {}
    BY DEF Balanced, Finished
  <1>3. ~Excused(b) /\ ~Filed(b)
    BY DEF Excused, Died, SharedId, ErrorsDropped, Filed, FiledBy, QuarantinesOf, TypeOK
  <1>4. manifest[b] = {}
    BY <1>3 DEF FindInv, InOrder
  <1> QED
    BY <1>1, <1>2, <1>4, EmptyLog DEF Entries

(* A batch that is on the books has a quarantine that is done, once no     *)
(* quarantine is at work.                                                  *)
LEMMA FiledIsFinished ==
  ASSUME TypeOK, FindInv, ~DeleteErrors, NEW b \in Batches, ~Unsettled(b),
         manifest[b] # {} \/ (\E i \in Jobs : Reads(job[i], b)),
         \A i \in Jobs : job[i].op = "quarantine" => ~Working(job[i])
  PROVE  Finished(b) /\ InOrder(b)
  <1>1. ~Excused(b)
    BY DEF Excused, Died, ErrorsDropped, Unsettled, QuarantinesOf, TypeOK
  <1>2. InOrder(b) /\ Filed(b)
    BY <1>1 DEF FindInv, InOrder
  <1> QED
    BY <1>2 DEF Filed, FiledBy, Finished, QuarantinesOf, Working

LEMMA BooksQuarantine ==
  ASSUME TypeOK, PlanInv, PlanInv', FindInv, ~Apart, ~DeleteErrors, BooksInv,
         NEW j \in Jobs, QuarantineStep(j) \/ FailStep(j)
  PROVE  BooksInv'
  <1>j. job[j] \in Job /\ Sound(job[j])
    BY DEF TypeOK, PlanInv
  <1>1. CASE StartQuarantine(j)
    <2>0. PICK b0 \in Batches : b0 = now
      BY DEF TypeOK
    <2>1. PICK C \in SUBSET Keys :
             Set(j, [job[j] EXCEPT !.pc = "moving", !.batch = b0, !.todo = C])
      BY <1>1, <2>0 DEF StartQuarantine
    <2> DEFINE new == [job[j] EXCEPT !.pc = "moving", !.batch = b0, !.todo = C]
    <2>2. /\ new.pc = "moving" /\ new.op = job[j].op /\ new.batch = b0
          /\ new.mid = job[j].mid /\ new.moved = job[j].moved
      BY <1>j DEF Job
    <2>3. /\ job[j].op = "quarantine" /\ job[j].pc = "idle"
          /\ UNCHANGED <<held, manifest, audit>> /\ Set(j, new)
      BY <1>1, <2>1 DEF StartQuarantine, Idle, storage
    <2> HIDE DEF new
    <2>4. Moves(job[j], new) /\ Working(new) /\ ~Working(job[j])
      BY <2>2, <2>3 DEF Moves, Working
    <2>5. ASSUME ~Unsettled(b0)'
          PROVE  QuarantinesOf(b0) = {}
      <3>1. job'[j] = new /\ \A i \in Jobs \ {j} : job'[i] = job[i]
        BY <2>3, AfterSet
      <3>2. j \in QuarantinesOf(b0)' /\ j \notin QuarantinesOf(b0)
        BY <2>2, <2>3, <3>1 DEF QuarantinesOf
      <3>3. QuarantinesOf(b0) \subseteq QuarantinesOf(b0)'
        BY <3>1, <3>2 DEF QuarantinesOf
      <3> QED
        BY <2>5, <3>2, <3>3 DEF Unsettled, SharedId
    <2>6. new.mid = {} /\ new.moved = {}
      BY <1>j, <2>2, <2>3 DEF Sound
    <2>7. HeldKeys(b0)' = HeldKeys(b0) /\ Entries(b0)' = Entries(b0)
      BY <2>3 DEF HeldKeys, Entries
    <2>8. ~Unsettled(b0)' /\ Balanced(b0) =>
             Books(new, HeldKeys(b0)', Entries(b0)', ByTheLog(b0))
      BY <2>2, <2>3, <2>5, <2>6, <2>7, EmptyBatch DEF Books
    <2> QED
      BY <2>2, <2>3, <2>4, <2>8, BooksUnlogged
  <1>0. PICK b0 \in Batches : b0 = job[j].batch
    BY <1>j DEF Job
  <1>2. CASE WriteManifest(j)
    <2> DEFINE new == [job[j] EXCEPT !.pc = "logging"]
    <2>1. /\ new.pc = "logging" /\ new.op = job[j].op /\ new.batch = b0
          /\ new.mid = job[j].mid /\ new.moved = job[j].moved
      BY <1>j, <1>0 DEF Job
    <2>2. /\ job[j].op = "quarantine" /\ job[j].pc = "moving" /\ job[j].mid = {}
          /\ Set(j, new) /\ UNCHANGED <<held, audit>>
          /\ manifest' = [manifest EXCEPT ![b0] = {job[j].moved}]
      BY <1>2, <1>0 DEF WriteManifest, Drained
    <2> HIDE DEF new
    <2>3. Moves(job[j], new) /\ Working(new) /\ Working(job[j])
      BY <1>0, <2>1, <2>2 DEF Moves, Working
    <2>4. /\ manifest'[b0] = {job[j].moved}
          /\ \A b \in Batches \ {b0} : held'[b] = held[b] /\ manifest'[b] = manifest[b]
      BY <2>2 DEF TypeOK
    <2>5. HeldKeys(b0)' = HeldKeys(b0) /\ Entries(b0)' = job[j].moved
      BY <2>2, <2>4 DEF HeldKeys, Entries
    <2>6. Balanced(b0) => Books(new, HeldKeys(b0)', Entries(b0)', ByTheLog(b0))
      <3>1. Balanced(b0) => Books(job[j], HeldKeys(b0), Entries(b0), ByTheLog(b0))
        BY <1>0, <2>3, AtWork
      <3> QED
        BY <2>1, <2>2, <2>5, <3>1 DEF Books
    <2> QED
      BY <1>0, <2>1, <2>2, <2>3, <2>4, <2>6, BooksUnlogged
  <1>3. ASSUME NEW k \in Keys, CopyOut(j, k)
        PROVE  BooksInv'
    <2> DEFINE new == [job[j] EXCEPT !.todo = @ \ {k}, !.mid = @ \cup {k}]
    <2>1. /\ new.pc = job[j].pc /\ new.op = job[j].op /\ new.batch = b0
          /\ new.mid = job[j].mid \cup {k} /\ new.moved = job[j].moved
      BY <1>j, <1>0 DEF Job
    <2>2. /\ job[j].op = "quarantine" /\ job[j].pc \in {"moving", "failing"}
          /\ live[k] # {} /\ Set(j, new) /\ UNCHANGED <<manifest, audit>>
          /\ held' = [held EXCEPT ![b0][k] = live[k]]
      BY <1>3, <1>0 DEF CopyOut, Pool
    <2> HIDE DEF new
    <2>3. Moves(job[j], new) /\ Working(new) /\ Working(job[j])
      BY <1>0, <2>1, <2>2 DEF Moves, Working
    <2>4. /\ \A x \in Keys : held'[b0][x] = IF x = k THEN live[k] ELSE held[b0][x]
          /\ \A b \in Batches \ {b0} : held'[b] = held[b] /\ manifest'[b] = manifest[b]
      BY <2>2 DEF TypeOK
    <2>5. HeldKeys(b0)' = HeldKeys(b0) \cup {k} /\ Entries(b0)' = Entries(b0)
      BY <2>2, <2>4 DEF HeldKeys, Entries
    <2>6. Balanced(b0) => Books(new, HeldKeys(b0)', Entries(b0)', ByTheLog(b0))
      <3>1. Balanced(b0) => Books(job[j], HeldKeys(b0), Entries(b0), ByTheLog(b0))
        BY <1>0, <2>3, AtWork
      <3> QED
        BY <2>1, <2>2, <2>5, <3>1 DEF Books
    <2> QED
      BY <1>0, <2>1, <2>2, <2>3, <2>4, <2>6, BooksUnlogged
  <1>4. ASSUME NEW k \in Keys, DeleteOut(j, k)
        PROVE  BooksInv'
    <2> DEFINE new == [job[j] EXCEPT !.mid = @ \ {k}, !.moved = @ \cup {k}]
    <2>1. /\ new.pc = job[j].pc /\ new.op = job[j].op /\ new.batch = b0
          /\ new.mid = job[j].mid \ {k} /\ new.moved = job[j].moved \cup {k}
      BY <1>j, <1>0 DEF Job
    <2>2. /\ job[j].op = "quarantine" /\ job[j].pc \in {"moving", "failing"}
          /\ k \in job[j].mid /\ Set(j, new) /\ UNCHANGED <<held, manifest, audit>>
      BY <1>4, <1>0 DEF DeleteOut, Pool
    <2> HIDE DEF new
    <2>3. Moves(job[j], new) /\ Working(new) /\ Working(job[j])
      BY <1>0, <2>1, <2>2 DEF Moves, Working
    <2>4. HeldKeys(b0)' = HeldKeys(b0) /\ Entries(b0)' = Entries(b0)
      BY <2>2 DEF HeldKeys, Entries
    <2>5. new.mid \cup new.moved = job[j].mid \cup job[j].moved
      BY <2>1, <2>2
    <2>6. Balanced(b0) => Books(new, HeldKeys(b0)', Entries(b0)', ByTheLog(b0))
      <3>1. Balanced(b0) => Books(job[j], HeldKeys(b0), Entries(b0), ByTheLog(b0))
        BY <1>0, <2>3, AtWork
      <3> QED
        BY <2>1, <2>2, <2>4, <2>5, <3>1 DEF Books
    <2> QED
      BY <1>0, <2>1, <2>2, <2>3, <2>6, BooksUnlogged
  <1>5. CASE FailPool(j)
    <2> DEFINE new == [job[j] EXCEPT !.pc = "stopped"]
    <2>1. new.pc = "stopped" /\ new.op = job[j].op /\ new.batch = b0
      BY <1>j, <1>0 DEF Job
    <2>2. job[j].pc = "failing" /\ Set(j, new) /\ UNCHANGED <<held, manifest, audit>>
      BY <1>5 DEF FailPool, storage
    <2> HIDE DEF new
    <2>3. Moves(job[j], new) /\ Working(job[j])
      BY <1>0, <2>1, <2>2 DEF Moves, Working
    <2> QED
      BY <1>0, <2>1, <2>2, <2>3, BooksUnlogged, Lasting
  <1>6. ASSUME NEW k \in Keys, CopyRaises(j, k)
        PROVE  BooksInv'
    <2> DEFINE new == [job[j] EXCEPT !.pc = "failing", !.todo = @ \ {k}]
    <2>1. new.pc = "failing" /\ new.op = job[j].op /\ new.batch = b0
      BY <1>j, <1>0 DEF Job
    <2>2. /\ job[j].pc \in {"moving", "failing"} /\ Set(j, new)
          /\ UNCHANGED <<held, manifest, audit>>
      BY <1>6 DEF CopyRaises, Missing, Pool, storage
    <2> HIDE DEF new
    <2>3. Moves(job[j], new) /\ Working(new) /\ Working(job[j])
      BY <1>0, <2>1, <2>2 DEF Moves, Working
    <2>4. Books(new, HeldKeys(b0)', Entries(b0)', ByTheLog(b0))
      BY <2>1 DEF Books
    <2>5. Balanced(b0) => (new.op # "quarantine" => Finished(b0))
      BY <1>0, <2>1, <2>3, AtWork
    <2> QED
      BY <1>0, <2>1, <2>2, <2>3, <2>4, <2>5, BooksUnlogged
  <1> QED
    BY <1>1, <1>2, <1>3, <1>4, <1>5, <1>6 DEF QuarantineStep, FailStep

(* The key of a batch that a step changes. *)
LEMMA HeldElsewhere ==
  ASSUME TypeOK, NEW b0 \in Batches, NEW k \in Keys, NEW V,
         held' = [held EXCEPT ![b0][k] = V]
  PROVE  /\ \A b \in Batches \ {b0} : held'[b] = held[b]
         /\ V = {} => HeldKeys(b0)' = HeldKeys(b0) \ {k}
  <1>1. /\ \A x \in Keys : held'[b0][x] = IF x = k THEN V ELSE held[b0][x]
        /\ \A b \in Batches \ {b0} : held'[b] = held[b]
    BY DEF TypeOK
  <1> QED
    BY <1>1 DEF HeldKeys

LEMMA BooksRestore ==
  ASSUME TypeOK, PlanInv, PlanInv', FindInv, ~Apart, ~DeleteErrors, BooksInv,
         NEW j \in Jobs, RestoreStep(j)
  PROVE  BooksInv'
  <1>j. job[j] \in Job /\ Sound(job[j])
    BY DEF TypeOK, PlanInv
  <1>1. CASE StartRestore(j)
    <2>1. PICK new \in Job, b0 \in Batches : \E entries \in manifest[b0] :
             /\ Set(j, new)
             /\ new.pc = "opening" /\ new.op = "restore" /\ new.batch = b0
             /\ new.todo \cup new.kept = entries /\ new.todo \cap new.kept = {}
      BY <1>1, RestoreStarts
    <2>2. /\ job[j].op = "restore" /\ job[j].pc = "idle"
          /\ UNCHANGED <<held, manifest, audit>>
      BY <1>1 DEF StartRestore, Idle, storage
    <2>3. Moves(job[j], new) /\ Working(new) /\ ~Working(job[j])
      BY <2>1, <2>2 DEF Moves, Working
    <2>4. Entries(b0) = new.todo \cup new.kept
      BY <2>1 DEF Entries, TypeOK, AtMostOne
    <2>5. HeldKeys(b0)' = HeldKeys(b0) /\ Entries(b0)' = Entries(b0)
      BY <2>2 DEF HeldKeys, Entries
    <2>6. \A i \in Jobs \ {j} : ~Working(job[i])
      BY <2>1, <2>3, Alone
    <2>7. Balanced(b0) => Agree(b0)
      BY <2>3, <2>6 DEF Balanced, Quiet, On
    <2>8. Balanced(b0) => Books(new, HeldKeys(b0)', Entries(b0)', ByTheLog(b0))
      BY <2>1, <2>4, <2>5, <2>7 DEF Books, Agree
    <2>9. ~Unsettled(b0) => Finished(b0)
      BY <2>1, <2>3, <2>6, FiledIsFinished
    <2> QED
      BY <2>1, <2>2, <2>3, <2>8, <2>9, BooksUnlogged
  <1>0. PICK b0 \in Batches : b0 = job[j].batch
    BY <1>j DEF Job
  <1>2. CASE ListCopies(j)
    <2> DEFINE present == {k \in job[j].todo : held[b0][k] # {}}
               new == [job[j] EXCEPT !.pc = "moving", !.todo = present,
                                     !.moved = job[j].todo \ present]
    <2>1. /\ new.pc = "moving" /\ new.op = job[j].op /\ new.batch = b0
          /\ new.todo = present /\ new.moved = job[j].todo \ present
          /\ new.kept = job[j].kept /\ new.mid = job[j].mid
      BY <1>j, <1>0 DEF Job
    <2>2. /\ job[j].pc = "opening" /\ job[j].op = "restore" /\ Set(j, new)
          /\ job[j].mid = {} /\ UNCHANGED <<held, manifest, audit>>
      BY <1>2, <1>0, <1>j DEF ListCopies, storage, Sound
    <2>3. present = job[j].todo \cap HeldKeys(b0)
      BY <1>j DEF HeldKeys, Job
    <2> HIDE DEF new, present
    <2>4. Moves(job[j], new) /\ Working(new) /\ Working(job[j])
      BY <1>0, <2>1, <2>2 DEF Moves, Working
    <2>5. HeldKeys(b0)' = HeldKeys(b0) /\ Entries(b0)' = Entries(b0)
      BY <2>2 DEF HeldKeys, Entries
    <2>6. Balanced(b0) => Books(new, HeldKeys(b0)', Entries(b0)', ByTheLog(b0)) /\ Finished(b0)
      <3> SUFFICES ASSUME Balanced(b0)
                   PROVE  Books(new, HeldKeys(b0)', Entries(b0)', ByTheLog(b0)) /\ Finished(b0)
        OBVIOUS
      <3>1. Books(job[j], HeldKeys(b0), Entries(b0), ByTheLog(b0)) /\ Finished(b0)
        BY <1>0, <2>2, <2>4, AtWork
      <3>2. /\ Entries(b0) = ByTheLog(b0) /\ HeldKeys(b0) = ByTheLog(b0)
            /\ ByTheLog(b0) = job[j].todo \cup job[j].kept /\ job[j].todo \cap job[j].kept = {}
        BY <2>2, <3>1 DEF Books
      <3>3. present = job[j].todo /\ new.moved = {}
        BY <2>1, <2>3, <3>2
      <3>4. /\ HeldKeys(b0) = ByTheLog(b0) \ new.moved
            /\ new.kept = ByTheLog(b0) \ (new.todo \cup new.mid \cup new.moved)
        BY <2>1, <2>2, <3>2, <3>3
      <3> QED
        BY <2>1, <2>2, <2>5, <3>1, <3>2, <3>4 DEF Books
    <2> QED
      BY <1>0, <2>1, <2>2, <2>4, <2>6, BooksUnlogged
  <1>3. ASSUME NEW k \in Keys, CopyBack(j, k)
        PROVE  BooksInv'
    <2> DEFINE new == [job[j] EXCEPT !.todo = @ \ {k}, !.mid = @ \cup {k}]
    <2>1. /\ new.pc = job[j].pc /\ new.op = job[j].op /\ new.batch = b0
          /\ new.todo = job[j].todo \ {k} /\ new.mid = job[j].mid \cup {k}
          /\ new.moved = job[j].moved /\ new.kept = job[j].kept
      BY <1>j, <1>0 DEF Job
    <2>2. /\ job[j].op = "restore" /\ job[j].pc \in {"moving", "failing"}
          /\ k \in job[j].todo /\ Set(j, new) /\ UNCHANGED <<held, manifest, audit>>
      BY <1>3 DEF CopyBack, Pool
    <2> HIDE DEF new
    <2>3. Moves(job[j], new) /\ Working(new) /\ Working(job[j])
      BY <1>0, <2>1, <2>2 DEF Moves, Working
    <2>4. HeldKeys(b0)' = HeldKeys(b0) /\ Entries(b0)' = Entries(b0)
      BY <2>2 DEF HeldKeys, Entries
    <2>5. new.todo \cup new.mid \cup new.moved = job[j].todo \cup job[j].mid \cup job[j].moved
      BY <2>1, <2>2
    <2>6. Balanced(b0) => Books(job[j], HeldKeys(b0), Entries(b0), ByTheLog(b0)) /\ Finished(b0)
      BY <1>0, <2>2, <2>3, AtWork
    <2>7. Balanced(b0) => Books(new, HeldKeys(b0)', Entries(b0)', ByTheLog(b0))
      BY <2>1, <2>2, <2>4, <2>5, <2>6 DEF Books
    <2> QED
      BY <1>0, <2>1, <2>2, <2>3, <2>6, <2>7, BooksUnlogged
  <1>4. ASSUME NEW k \in Keys, DeleteCopy(j, k)
        PROVE  BooksInv'
    <2> DEFINE new == [job[j] EXCEPT !.mid = @ \ {k}, !.moved = @ \cup {k}]
    <2>1. /\ new.pc = job[j].pc /\ new.op = job[j].op /\ new.batch = b0
          /\ new.todo = job[j].todo /\ new.mid = job[j].mid \ {k}
          /\ new.moved = job[j].moved \cup {k} /\ new.kept = job[j].kept
      BY <1>j, <1>0 DEF Job
    <2>2. /\ job[j].op = "restore" /\ job[j].pc \in {"moving", "failing"}
          /\ k \in job[j].mid /\ Set(j, new) /\ UNCHANGED <<manifest, audit>>
          /\ held' = [held EXCEPT ![b0][k] = {}]
      BY <1>4, <1>0 DEF DeleteCopy, Pool
    <2> HIDE DEF new
    <2>3. Moves(job[j], new) /\ Working(new) /\ Working(job[j])
      BY <1>0, <2>1, <2>2 DEF Moves, Working
    <2>4. /\ HeldKeys(b0)' = HeldKeys(b0) \ {k} /\ Entries(b0)' = Entries(b0)
          /\ \A b \in Batches \ {b0} : held'[b] = held[b] /\ manifest'[b] = manifest[b]
      BY <2>2, HeldElsewhere DEF Entries
    <2>5. new.todo \cup new.mid \cup new.moved = job[j].todo \cup job[j].mid \cup job[j].moved
      BY <2>1, <2>2
    <2>6. Balanced(b0) => Books(job[j], HeldKeys(b0), Entries(b0), ByTheLog(b0)) /\ Finished(b0)
      BY <1>0, <2>2, <2>3, AtWork
    <2>7. ASSUME Balanced(b0), job[j].pc = "moving"
          PROVE  HeldKeys(b0)' = ByTheLog(b0) \ new.moved
      BY <2>1, <2>2, <2>4, <2>6, <2>7 DEF Books
    <2>8. Balanced(b0) => Books(new, HeldKeys(b0)', Entries(b0)', ByTheLog(b0))
      BY <2>1, <2>2, <2>4, <2>5, <2>6, <2>7 DEF Books
    <2> QED
      BY <1>0, <2>1, <2>2, <2>3, <2>4, <2>6, <2>8, BooksUnlogged
  <1>5. CASE UnknownKeys(j)
    <2> DEFINE new == [job[j] EXCEPT !.pc = "stopped"]
    <2>1. new.pc = "stopped" /\ new.op = job[j].op /\ new.batch = b0
      BY <1>j, <1>0 DEF Job
    <2>2. job[j].pc = "moving" /\ Set(j, new) /\ UNCHANGED <<held, manifest, audit>>
      BY <1>5 DEF UnknownKeys, Drained, storage
    <2> HIDE DEF new
    <2>3. Moves(job[j], new) /\ Working(job[j])
      BY <1>0, <2>1, <2>2 DEF Moves, Working
    <2> QED
      BY <1>0, <2>1, <2>2, <2>3, BooksUnlogged, Lasting
  <1>6. CASE SaveManifest(j)
    <2> DEFINE new == [job[j] EXCEPT !.pc = "logging"]
               rest == IF job[j].kept = {} THEN {} ELSE {job[j].kept}
    <2>1. /\ new.pc = "logging" /\ new.op = job[j].op /\ new.batch = b0
          /\ new.moved = job[j].moved
      BY <1>j, <1>0 DEF Job
    <2>2. /\ job[j].op = "restore" /\ job[j].pc = "moving"
          /\ job[j].todo = {} /\ job[j].mid = {}
          /\ Set(j, new) /\ UNCHANGED <<held, audit>>
          /\ manifest' = [manifest EXCEPT ![b0] = rest]
      BY <1>6, <1>0 DEF SaveManifest, Drained
    <2>3. UNION rest = job[j].kept
      OBVIOUS
    <2> HIDE DEF new, rest
    <2>4. Moves(job[j], new) /\ Working(new) /\ Working(job[j])
      BY <1>0, <2>1, <2>2 DEF Moves, Working
    <2>5. /\ manifest'[b0] = rest
          /\ \A b \in Batches \ {b0} : held'[b] = held[b] /\ manifest'[b] = manifest[b]
      BY <2>2 DEF TypeOK
    <2>6. HeldKeys(b0)' = HeldKeys(b0) /\ Entries(b0)' = job[j].kept
      BY <2>2, <2>3, <2>5 DEF HeldKeys, Entries
    <2>7. Balanced(b0) => Books(job[j], HeldKeys(b0), Entries(b0), ByTheLog(b0)) /\ Finished(b0)
      BY <1>0, <2>2, <2>4, AtWork
    <2>8. ASSUME Balanced(b0)
          PROVE  /\ HeldKeys(b0)' = ByTheLog(b0) \ new.moved
                 /\ Entries(b0)' = ByTheLog(b0) \ new.moved
      BY <2>1, <2>2, <2>6, <2>7, <2>8 DEF Books
    <2>9. Balanced(b0) => Books(new, HeldKeys(b0)', Entries(b0)', ByTheLog(b0))
      BY <2>1, <2>2, <2>8 DEF Books
    <2> QED
      BY <1>0, <2>1, <2>2, <2>4, <2>5, <2>7, <2>9, BooksUnlogged
  <1> QED
    BY <1>1, <1>2, <1>3, <1>4, <1>5, <1>6 DEF RestoreStep

(* A purge takes the next of the batches it has listed. *)
LEMMA TakesNext ==
  ASSUME TypeOK, PlanInv, NEW j \in Jobs, job[j].pc \in {"listed", "appending"},
         NEW ms \in SUBSET job[j].more, TakeOldest(j, ms)
  PROVE  \E new \in Job, m \in ms :
            /\ Set(j, new) /\ Moves(job[j], new) /\ Working(new)
            /\ new.pc = "purging" /\ new.op = "purge" /\ job[j].op = "purge"
            /\ new.more = ms /\ new.batch = m.batch /\ m.batch \in Batches
            /\ new.todo = m.keys
  <1>1. PICK m \in ms :
           Set(j, [job[j] EXCEPT !.pc = "purging", !.more = ms,
                                 !.batch = m.batch, !.todo = m.keys, !.log = {}])
    BY DEF TakeOldest
  <1> DEFINE new == [job[j] EXCEPT !.pc = "purging", !.more = ms,
                                   !.batch = m.batch, !.todo = m.keys, !.log = {}]
  <1>2. job[j] \in Job /\ Sound(job[j]) /\ m \in job[j].more
    BY DEF TypeOK, PlanInv
  <1>3. m.batch \in Batches /\ job[j].op = "purge"
    BY <1>2 DEF Sound, Job, Listing
  <1>4. /\ new \in Job /\ new.pc = "purging" /\ new.op = "purge" /\ new.batch = m.batch
        /\ new.more = ms /\ new.todo = m.keys
    BY <1>2, <1>3 DEF Job, Pcs, Listing
  <1>5. Set(j, new)
    BY <1>1
  <1> HIDE DEF new
  <1>6. Moves(job[j], new) /\ Working(new)
    BY <1>3, <1>4 DEF Moves, Working
  <1> QED
    BY <1>3, <1>4, <1>5, <1>6

LEMMA TakenBooks ==
  ASSUME TypeOK, FindInv, ~DeleteErrors, NEW j \in Jobs, NEW ms \in SUBSET job[j].more,
         NEW m \in ms, NEW b0 \in Batches, m.batch = b0,
         NEW new, new.pc = "purging", new.op = "purge", new.more = ms, new.batch = b0,
         new.todo = m.keys, ~Unsettled(b0), Agree(b0),
         \A i \in Jobs \ {j} : ~Working(job[i]), job[j].op = "purge"
  PROVE  Books(new, HeldKeys(b0), Entries(b0), ByTheLog(b0)) /\ Finished(b0)
  <1>1. Reads(job[j], b0)
    BY DEF Reads
  <1>2. Finished(b0) /\ InOrder(b0)
    BY <1>1, FiledIsFinished
  <1>3. Covered(held, b0, m.keys)
    BY <1>2 DEF InOrder, Reading
  <1>4. HeldKeys(b0) \subseteq m.keys
    BY <1>3 DEF HeldKeys, Covered
  <1>5. m.keys \subseteq Listed(new)
    BY DEF Listed
  <1>6. /\ Entries(b0) = ByTheLog(b0) /\ ByTheLog(b0) \subseteq Listed(new)
        /\ HeldKeys(b0) = ByTheLog(b0) \ (Listed(new) \ new.todo)
    BY <1>4, <1>5 DEF Agree
  <1> QED
    BY <1>2, <1>5, <1>6 DEF Books

(* What a purge's delete leaves of its batch.                              *)
LEMMA DeleteTakes ==
  ASSUME TypeOK, ~DeleteErrors, NEW j \in Jobs, NEW S \in SUBSET Keys, Delete(j, S),
         NEW b0 \in Batches, b0 = job[j].batch
  PROVE  /\ HeldKeys(b0)' = HeldKeys(b0) \ S
         /\ \A b \in Batches \ {b0} : held'[b] = held[b]
  <1>1. held' = [held EXCEPT ![b0] = [k \in Keys |-> IF k \in S THEN {} ELSE @[k]]]
    BY DEF Delete
  <1>2. \A k \in Keys : held'[b0][k] = IF k \in S THEN {} ELSE held[b0][k]
    BY <1>1 DEF TypeOK
  <1>3. \A b \in Batches \ {b0} : held'[b] = held[b]
    BY <1>1 DEF TypeOK
  <1> QED
    BY <1>2, <1>3 DEF HeldKeys

LEMMA BooksPurge ==
  ASSUME TypeOK, PlanInv, PlanInv', FindInv, ~Apart, ~DeleteErrors, BooksInv,
         NEW j \in Jobs, PurgeStep(j)
  PROVE  BooksInv'
  <1>j. job[j] \in Job /\ Sound(job[j])
    BY DEF TypeOK, PlanInv
  <1>1. CASE ListBatches(j)
    <2>1. PICK force \in BOOLEAN, chosen \in SUBSET Stored :
             Set(j, [job[j] EXCEPT !.pc = "listed", !.opt = force, !.more = chosen])
      BY <1>1 DEF ListBatches
    <2> DEFINE new == [job[j] EXCEPT !.pc = "listed", !.opt = force, !.more = chosen]
    <2>2. new.pc = "listed" /\ new.op = job[j].op
      BY <1>j DEF Job
    <2>3. /\ job[j].op = "purge" /\ job[j].pc = "idle"
          /\ UNCHANGED <<held, manifest, audit>> /\ Set(j, new)
      BY <1>1, <2>1 DEF ListBatches, Idle, storage
    <2> HIDE DEF new
    <2> QED
      BY <2>2, <2>3, BooksOutside DEF Working
  <1>2. CASE RefusePurge(j)
    <2> DEFINE new == [job[j] EXCEPT !.pc = "refused"]
    <2>1. new.pc = "refused" /\ new.op = job[j].op
      BY <1>j DEF Job
    <2>2. /\ job[j].op = "purge" /\ job[j].pc = "listed"
          /\ UNCHANGED <<held, manifest, audit>> /\ Set(j, new)
      BY <1>2, <1>j DEF RefusePurge, Sound, storage
    <2> HIDE DEF new
    <2> QED
      BY <2>1, <2>2, BooksOutside DEF Working
  <1>3. CASE StartPurge(j)
    <2>1. PICK new \in Job, m \in job[j].more :
             /\ Set(j, new) /\ Moves(job[j], new) /\ Working(new)
             /\ new.pc = "purging" /\ new.op = "purge" /\ job[j].op = "purge"
             /\ new.more = job[j].more /\ new.batch = m.batch /\ m.batch \in Batches
             /\ new.todo = m.keys
      BY <1>3, TakesNext DEF StartPurge
    <2>2. PICK b0 \in Batches : b0 = m.batch
      BY <2>1
    <2>3. ~Working(job[j]) /\ UNCHANGED <<held, manifest, audit>>
      BY <1>3 DEF StartPurge, storage, Working
    <2>4. \A i \in Jobs \ {j} : ~Working(job[i])
      BY <2>1, Alone
    <2>5. Balanced(b0) => Agree(b0)
      BY <2>3, <2>4 DEF Balanced, Quiet, On
    <2>6. HeldKeys(b0)' = HeldKeys(b0) /\ Entries(b0)' = Entries(b0)
      BY <2>3 DEF HeldKeys, Entries
    <2>7. ~Unsettled(b0) /\ Balanced(b0) =>
             Books(new, HeldKeys(b0), Entries(b0), ByTheLog(b0)) /\ Finished(b0)
      BY <2>1, <2>2, <2>4, <2>5, TakenBooks
    <2> QED
      BY <2>1, <2>2, <2>3, <2>6, <2>7, BooksUnlogged
  <1>0. PICK b0 \in Batches : b0 = job[j].batch
    BY <1>j DEF Job
  <1>4. CASE PurgeChunk(j)
    <2>1. PICK S \in SUBSET job[j].todo :
             Delete(j, S) /\ Set(j, [job[j] EXCEPT !.todo = @ \ S])
      BY <1>4 DEF PurgeChunk
    <2> DEFINE new == [job[j] EXCEPT !.todo = @ \ S]
    <2>2. /\ new.pc = job[j].pc /\ new.op = job[j].op /\ new.batch = b0
          /\ new.more = job[j].more /\ new.todo = job[j].todo \ S
      BY <1>j, <1>0 DEF Job
    <2>3. /\ job[j].pc = "purging" /\ job[j].op = "purge" /\ Set(j, new)
          /\ UNCHANGED <<manifest, audit>> /\ S \in SUBSET Keys
      BY <1>4, <1>j, <2>1 DEF PurgeChunk, Sound, Delete, Job
    <2>4. Listed(new) = Listed(job[j])
      BY <1>0, <2>2 DEF Listed
    <2> HIDE DEF new
    <2>5. Moves(job[j], new) /\ Working(new) /\ Working(job[j])
      BY <1>0, <2>2, <2>3 DEF Moves, Working
    <2>6. /\ HeldKeys(b0)' = HeldKeys(b0) \ S
          /\ \A b \in Batches \ {b0} : held'[b] = held[b] /\ manifest'[b] = manifest[b]
      BY <1>0, <2>1, <2>3, DeleteTakes
    <2>7. Entries(b0)' = Entries(b0)
      BY <2>3 DEF Entries
    <2>8. ASSUME Balanced(b0)
          PROVE  /\ Books(new, HeldKeys(b0)', Entries(b0)', ByTheLog(b0))
                 /\ Finished(b0)
      <3>1. Books(job[j], HeldKeys(b0), Entries(b0), ByTheLog(b0)) /\ Finished(b0)
        BY <1>0, <2>3, <2>5, <2>8, AtWork
      <3>2. /\ Entries(b0) = ByTheLog(b0) /\ ByTheLog(b0) \subseteq Listed(job[j])
            /\ job[j].todo \subseteq Listed(job[j])
            /\ HeldKeys(b0) = ByTheLog(b0) \ (Listed(job[j]) \ job[j].todo)
        BY <2>3, <3>1 DEF Books
      <3>3. HeldKeys(b0) \ S = ByTheLog(b0) \ (Listed(job[j]) \ (job[j].todo \ S))
        BY <3>2
      <3> QED
        BY <2>2, <2>3, <2>4, <2>6, <2>7, <3>1, <3>2, <3>3 DEF Books
    <2> QED
      BY <1>0, <2>2, <2>3, <2>5, <2>6, <2>8, BooksUnlogged
  <1>5. CASE PurgeLast(j)
    <2> DEFINE new == [job[j] EXCEPT !.pc = "logging", !.todo = {}, !.moved = Listed(job[j])]
    <2>1. Listed(job[j]) = UNION {m.keys : m \in Current(j)}
      BY DEF Listed, Current
    <2>2. /\ new.pc = "logging" /\ new.op = job[j].op /\ new.batch = b0
          /\ new.moved = Listed(job[j])
      BY <1>j, <1>0 DEF Job
    <2>3. /\ job[j].pc = "purging" /\ job[j].op = "purge" /\ Set(j, new)
          /\ manifest' = [manifest EXCEPT ![b0] = {}] /\ UNCHANGED audit
          /\ Delete(j, job[j].todo) /\ job[j].todo \in SUBSET Keys
      BY <1>5, <1>j, <1>0, <2>1 DEF PurgeLast, Sound, Delete, Job
    <2> HIDE DEF new
    <2>4. Moves(job[j], new) /\ Working(new) /\ Working(job[j])
      BY <1>0, <2>2, <2>3 DEF Moves, Working
    <2>5. manifest'[b0] = {} /\ \A b \in Batches \ {b0} : manifest'[b] = manifest[b]
      BY <2>3 DEF TypeOK
    <2>6. /\ HeldKeys(b0)' = HeldKeys(b0) \ job[j].todo
          /\ \A b \in Batches \ {b0} : held'[b] = held[b]
      BY <1>0, <2>3, DeleteTakes
    <2>7. Entries(b0)' = {}
      BY <2>5 DEF Entries
    <2>8. ASSUME Balanced(b0)
          PROVE  /\ Books(new, HeldKeys(b0)', Entries(b0)', ByTheLog(b0))
                 /\ Finished(b0)
      <3>1. Books(job[j], HeldKeys(b0), Entries(b0), ByTheLog(b0)) /\ Finished(b0)
        BY <1>0, <2>3, <2>4, <2>8, AtWork
      <3>2. /\ ByTheLog(b0) \subseteq Listed(job[j])
            /\ HeldKeys(b0) = ByTheLog(b0) \ (Listed(job[j]) \ job[j].todo)
        BY <2>3, <3>1 DEF Books
      <3>3. HeldKeys(b0) \ job[j].todo = {}
        BY <3>2
      <3> QED
        BY <2>2, <2>3, <2>6, <2>7, <3>1, <3>2, <3>3 DEF Books
    <2> QED
      BY <1>0, <2>2, <2>3, <2>4, <2>5, <2>6, <2>8, BooksUnlogged
  <1> QED
    BY <1>1, <1>2, <1>3, <1>4, <1>5 DEF PurgeStep

LEMMA BooksLog ==
  ASSUME TypeOK, PlanInv, PlanInv', FindInv, ~Apart, ~DeleteErrors, BooksInv, LogRead,
         NEW j \in Jobs, ReadLog(j) \/ WriteLog(j) \/ Stop(j)
  PROVE  BooksInv'
  <1>j. job[j] \in Job /\ Sound(job[j])
    BY DEF TypeOK, PlanInv
  <1>0. PICK b0 \in Batches : b0 = job[j].batch
    BY <1>j DEF Job
  <1>1. CASE ReadLog(j)
    <2> DEFINE new == [job[j] EXCEPT !.pc = "appending", !.log = audit]
    <2>1. /\ new.pc = "appending" /\ new.op = job[j].op /\ new.batch = b0
          /\ new.moved = job[j].moved
      BY <1>j, <1>0 DEF Job
    <2>2. /\ job[j].pc = "logging" /\ Set(j, new) /\ UNCHANGED <<held, manifest, audit>>
      BY <1>1 DEF ReadLog, storage
    <2> HIDE DEF new
    <2>3. Moves(job[j], new) /\ Working(new) /\ Working(job[j])
      BY <1>0, <2>1, <2>2 DEF Moves, Working
    <2>4. HeldKeys(b0)' = HeldKeys(b0) /\ Entries(b0)' = Entries(b0)
      BY <2>2 DEF HeldKeys, Entries
    <2>5. \A H, M, L : Books(job[j], H, M, L) => Books(new, H, M, L)
      BY <2>1, <2>2 DEF Books
    <2>6. ASSUME Balanced(b0)
          PROVE  /\ Books(new, HeldKeys(b0)', Entries(b0)', ByTheLog(b0))
                 /\ new.op # "quarantine" => Finished(b0)
      <3>1. /\ Books(job[j], HeldKeys(b0), Entries(b0), ByTheLog(b0))
            /\ job[j].op # "quarantine" => Finished(b0)
        BY <1>0, <2>3, <2>6, AtWork
      <3>2. Books(new, HeldKeys(b0), Entries(b0), ByTheLog(b0))
        BY <2>5, <3>1
      <3> QED
        BY <2>1, <2>4, <3>1, <3>2, Zenon
    <2> QED
      BY <1>0, <2>1, <2>2, <2>3, <2>6, BooksUnlogged
  <1>2. CASE Stop(j)
    <2> DEFINE new == [job[j] EXCEPT !.pc = "stopped", !.log = {}]
    <2>1. new.pc = "stopped" /\ new.op = job[j].op /\ new.batch = b0
      BY <1>j, <1>0 DEF Job
    <2>2. /\ Inside(j) /\ Set(j, new) /\ UNCHANGED <<held, manifest, audit>>
      BY <1>2 DEF Stop, storage
    <2> HIDE DEF new
    <2>3. Moves(job[j], new) /\ Working(job[j])
      BY <1>0, <2>1, <2>2 DEF Moves, Working, Inside
    <2> QED
      BY <1>0, <2>1, <2>2, <2>3, BooksUnlogged, Lasting
  <1>3. ASSUME WriteLog(j)
        PROVE  /\ Working(job[j]) /\ UNCHANGED <<held, manifest>>
               /\ \A b \in Batches \ {b0} : LinesOf(b)' = LinesOf(b)
               /\ ~Unsettled(b0) /\ Balanced(b0) =>
                     /\ job[j].op = "quarantine" \/ Finished(b0)
                     /\ Agree(b0)'
    <2>1. /\ job[j].pc = "appending" /\ audit' = audit \cup {AuditLine(j)}
          /\ UNCHANGED <<held, manifest>>
      BY <1>3 DEF WriteLog, LogRead
    <2> DEFINE l == AuditLine(j)
    <2>2. /\ l \in Line /\ l.action = job[j].op /\ l.batch = b0 /\ l.keys = job[j].moved
      BY <1>j, <1>0 DEF AuditLine, Line, Job
    <2> HIDE DEF l
    <2>3. /\ \A b : b # b0 => LinesOf(b)' = LinesOf(b)
          /\ job[j].op = "quarantine" /\ LinesOf(b0) = {} => ByTheLog(b0)' = job[j].moved
          /\ job[j].op # "quarantine" => ByTheLog(b0)' = ByTheLog(b0) \ job[j].moved
      <3>1. audit' = audit \cup {l}
        BY <2>1 DEF l
      <3>2. PICK line \in Line : line = l
        BY <2>2
      <3> QED
        BY <2>2, <3>1, <3>2, NewLine
    <2>4. Working(job[j])
      BY <2>1 DEF Working
    <2>5. HeldKeys(b0)' = HeldKeys(b0) /\ Entries(b0)' = Entries(b0)
      BY <2>1 DEF HeldKeys, Entries
    <2>6. ASSUME ~Unsettled(b0), Balanced(b0)
          PROVE  (job[j].op = "quarantine" \/ Finished(b0)) /\ Agree(b0)'
      <3>1. /\ Books(job[j], HeldKeys(b0), Entries(b0), ByTheLog(b0))
            /\ job[j].op # "quarantine" => Finished(b0)
            /\ job[j].op = "quarantine" => LinesOf(b0) = {}
        BY <1>0, <2>1, <2>4, <2>6, AtWork
      <3>2. CASE job[j].op = "quarantine"
        BY <2>1, <2>3, <2>5, <3>1, <3>2 DEF Books, Agree
      <3>3. CASE job[j].op = "restore"
        BY <2>1, <2>3, <2>5, <3>1, <3>3 DEF Books, Agree
      <3>4. CASE job[j].op = "purge"
        <4>1. Entries(b0) = {} /\ HeldKeys(b0) = {} /\ ByTheLog(b0) \subseteq job[j].moved
          BY <2>1, <3>1, <3>4 DEF Books
        <4>2. ByTheLog(b0)' = {}
          BY <2>3, <3>4, <4>1
        <4> QED
          BY <2>5, <3>1, <3>4, <4>1, <4>2 DEF Agree
      <3> QED
        BY <1>j, <3>1, <3>2, <3>3, <3>4 DEF Job, Ops
    <2> QED
      BY <2>1, <2>3, <2>4, <2>6
  <1>4. CASE WriteLog(j) /\ Set(j, [job[j] EXCEPT !.pc = "done", !.more = {}, !.log = {}])
    <2> DEFINE new == [job[j] EXCEPT !.pc = "done", !.more = {}, !.log = {}]
    <2>1. new.pc = "done" /\ new.op = job[j].op /\ new.batch = b0
      BY <1>j, <1>0 DEF Job
    <2>2. job[j].pc = "appending" /\ Set(j, new)
      BY <1>4 DEF WriteLog
    <2> HIDE DEF new
    <2>3. Moves(job[j], new) /\ ~Working(new)
      BY <1>0, <2>1, <2>2 DEF Moves, Working
    <2>4. job[j].op = "quarantine" => Finished(b0)'
      <3>1. job'[j] = new
        BY <2>2, AfterSet
      <3> QED
        BY <2>1, <3>1 DEF Finished, QuarantinesOf
    <2>5. Finished(b0) => Finished(b0)'
      BY <2>2, <2>3, Lasting
    <2>6. /\ Working(job[j])
          /\ \A b \in Batches \ {b0} : /\ held'[b] = held[b] /\ manifest'[b] = manifest[b]
                                        /\ LinesOf(b)' = LinesOf(b)
          /\ ~Unsettled(b0) /\ Balanced(b0) => Finished(b0)' /\ Agree(b0)'
      BY <1>3, <1>4, <2>4, <2>5
    <2> QED
      BY <1>0, <2>1, <2>2, <2>3, <2>6, BooksAt
  <1>5. CASE WriteLog(j) /\ TakeOldest(j, job[j].more \ Current(j))
    <2> DEFINE ms == job[j].more \ Current(j)
    <2>1. PICK new \in Job, m \in ms :
             /\ Set(j, new) /\ Moves(job[j], new) /\ Working(new)
             /\ new.pc = "purging" /\ new.op = "purge" /\ job[j].op = "purge"
             /\ new.more = ms /\ new.batch = m.batch /\ m.batch \in Batches
             /\ new.todo = m.keys
      BY <1>5, TakesNext DEF WriteLog
    <2>2. PICK b1 \in Batches : b1 = m.batch
      BY <2>1
    <2>3. b1 # b0
      BY <1>0, <2>1, <2>2 DEF Current
    <2> HIDE DEF ms
    <2>4. ms \in SUBSET job[j].more
      BY DEF ms
    <2>5. /\ Working(job[j]) /\ UNCHANGED <<held, manifest>>
          /\ \A b \in Batches \ {b0} : LinesOf(b)' = LinesOf(b)
          /\ ~Unsettled(b0) /\ Balanced(b0) => Finished(b0) /\ Agree(b0)'
      BY <1>3, <1>5, <2>1
    <2>6. \A i \in Jobs \ {j} : ~Working(job[i])
      BY <2>1, <2>5, Alone
    <2> SUFFICES ASSUME NEW b \in Batches
                 PROVE  (Unsettled(b) \/ Balanced(b))'
      BY DEF BooksInv, Batches
    <2>7. Unsettled(b) \/ Balanced(b)
      BY DEF BooksInv
    <2>8. (Unsettled(b) => Unsettled(b)') /\ (Finished(b) => Finished(b)')
      BY <2>1, Lasting
    <2>9. CASE b = b0
      <3>1. ~On(new, b)
        BY <2>1, <2>2, <2>3, <2>9 DEF On
      <3> QED
        BY <2>1, <2>5, <2>7, <2>8, <2>9, <3>1, BooksSet
    <2>10. CASE b = b1
      <3>1. /\ HeldKeys(b)' = HeldKeys(b) /\ Entries(b)' = Entries(b)
            /\ ByTheLog(b)' = ByTheLog(b) /\ LinesOf(b)' = LinesOf(b)
        BY <2>3, <2>5, <2>10, SameLog DEF HeldKeys, Entries
      <3>2. Balanced(b) => Agree(b) /\ (LinesOf(b) # {} => Finished(b))
        BY <1>0, <2>3, <2>6, <2>10 DEF Balanced, Quiet, On
      <3>3. ~Unsettled(b) /\ Balanced(b) =>
               Books(new, HeldKeys(b), Entries(b), ByTheLog(b)) /\ Finished(b)
        BY <2>1, <2>2, <2>4, <2>6, <2>10, <3>2, TakenBooks
      <3>4. On(new, b)
        BY <2>1, <2>2, <2>10 DEF On
      <3> QED
        BY <2>1, <2>5, <2>7, <2>8, <3>1, <3>2, <3>3, <3>4, BooksSet
    <2>11. CASE b # b0 /\ b # b1
      <3>1. ~On(job[j], b) /\ ~On(new, b)
        BY <1>0, <2>1, <2>2, <2>11 DEF On
      <3>2. held'[b] = held[b] /\ manifest'[b] = manifest[b] /\ LinesOf(b)' = LinesOf(b)
        BY <2>5, <2>11
      <3> QED
        BY <2>1, <2>5, <2>7, <3>1, <3>2, BooksAway
    <2> QED
      BY <2>9, <2>10, <2>11
  <1> QED
    BY <1>1, <1>2, <1>4, <1>5 DEF WriteLog

LEMMA BooksInit == Init => BooksInv
  <1> SUFFICES ASSUME Init, NEW b \in Batches
               PROVE  Balanced(b)
    BY DEF BooksInv
  <1>1. \A i \in Jobs : job[i].pc = "idle"
    BY DEF Init
  <1>2. audit = {} /\ manifest[b] = {} /\ \A k \in Keys : held[b][k] = {}
    BY DEF Init
  <1>3. LinesOf(b) = {} /\ Entries(b) = {} /\ HeldKeys(b) = {}
    BY <1>2 DEF LinesOf, Entries, HeldKeys
  <1>4. \A i \in Jobs : ~On(job[i], b)
    BY <1>1 DEF On, Working
  <1> QED
    BY <1>3, <1>4, EmptyLog DEF Balanced, Agree

LEMMA BooksStep ==
  ASSUME ~Apart, ~DeleteErrors
  PROVE  TypeOK /\ PlanInv /\ PlanInv' /\ FindInv /\ LogRead /\ BooksInv /\ [Next]_vars
            => BooksInv'
  <1> SUFFICES ASSUME TypeOK, PlanInv, PlanInv', FindInv, LogRead, BooksInv, [Next]_vars
               PROVE  BooksInv'
    OBVIOUS
  <1>1. ASSUME NEW j \in Jobs, JobStep(j) \/ Stop(j)
        PROVE  BooksInv'
    BY <1>1, BooksQuarantine, BooksRestore, BooksPurge, BooksLog DEF JobStep
  <1>2. ASSUME UNCHANGED <<held, manifest, audit, job>>
        PROVE  BooksInv'
    <2> SUFFICES ASSUME NEW b \in Batches
                 PROVE  (Unsettled(b) \/ Balanced(b))'
      BY DEF BooksInv, Batches
    <2>1. (Unsettled(b)' <=> Unsettled(b)) /\ (Finished(b)' <=> Finished(b))
      BY <1>2 DEF Unsettled, SharedId, Finished, QuarantinesOf
    <2>2. /\ HeldKeys(b)' = HeldKeys(b) /\ Entries(b)' = Entries(b)
          /\ LinesOf(b)' = LinesOf(b) /\ ByTheLog(b)' = ByTheLog(b)
      BY <1>2, SameLog DEF HeldKeys, Entries, LinesOf
    <2>3. \A i \in Jobs : /\ On(job[i], b)' <=> On(job[i], b)
                          /\ job'[i] = job[i]
                          /\ Books(job[i], HeldKeys(b), Entries(b), ByTheLog(b))' <=>
                                Books(job[i], HeldKeys(b), Entries(b), ByTheLog(b))
      BY <1>2, <2>2 DEF On, Working, Books, Listed
    <2>4. Balanced(b) => Balanced(b)'
      BY <2>1, <2>2, <2>3 DEF Balanced, Quiet, Agree
    <2> QED
      BY <2>1, <2>4 DEF BooksInv
  <1>3. ASSUME NEW k \in Keys, ClientWrite(k) \/ ClientDelete(k)
        PROVE  BooksInv'
    BY <1>2, <1>3 DEF ClientWrite, ClientDelete, Touch
  <1>4. CASE Tick \/ UNCHANGED vars
    BY <1>2, <1>4 DEF Tick, vars, storage
  <1> QED
    BY <1>1, <1>3, <1>4 DEF Next

(* Under one lock, and where delete_objects drops no errors, the objects,  *)
(* the manifest and the audit log tell the same of a batch that no job is  *)
(* at work on or died on.                                                  *)
THEOREM RecordsAgree ==
  ASSUME ~Apart, ~DeleteErrors
  PROVE  Spec => []AgreeAtRest
  <1>1. BooksInv => AgreeAtRest
    <2> SUFFICES ASSUME BooksInv, NEW b \in Batches, ~SharedId(b),
                        ~ \E j \in Jobs : job[j].batch = b /\ Unfinished(j)
                 PROVE  HeldKeys(b) = UNION manifest[b] /\ HeldKeys(b) = ByTheLog(b)
      BY DEF AgreeAtRest
    <2>1. ~Unsettled(b) /\ Quiet(b)
      BY DEF Unsettled, Quiet, On, Working, Unfinished, Inside
    <2> QED
      BY <2>1 DEF BooksInv, Balanced, Agree, Entries
  <1> QED
    BY TypeInit, TypeStep, PlanInit, PlanStep, FindInit, FindStep, LogInit, LogStep,
       BooksInit, BooksStep, <1>1, PTL DEF Spec
=============================================================================
