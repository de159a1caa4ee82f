-------------------------- MODULE BucketLockProofs --------------------------
(***************************************************************************)
(* Theorems of BucketLock for every set of runs, TTL and clock skew.       *)
(***************************************************************************)
EXTENDS BucketLock, TLAPS

-----------------------------------------------------------------------------
(* Type correctness, of the specification with no assumption at all. *)

LEMMA TypeInit == Init => TypeOK
  BY DEF Init, TypeOK, Steps

LEMMA TypeStep == TypeOK /\ [Next]_vars => TypeOK'
  <1> SUFFICES ASSUME TypeOK, [Next]_vars
               PROVE  TypeOK'
    OBVIOUS
  <1> USE TTLAssumption, SkewAssumption DEF TypeOK, Steps, LockInfo, Goto
  <1>1. ASSUME NEW r \in Runs, ReadClock(r)
        PROVE  TypeOK'
    BY <1>1 DEF ReadClock
  <1>2. ASSUME NEW r \in Runs, TryCreate(r)
        PROVE  TypeOK'
    BY <1>2 DEF TryCreate, PutIfAbsent, Info
  <1>3. ASSUME NEW r \in Runs, Inspect(r)
        PROVE  TypeOK'
    BY <1>3 DEF Inspect
  <1>4. ASSUME NEW r \in Runs, DeleteStale(r)
        PROVE  TypeOK'
    BY <1>4 DEF DeleteStale
  <1>5. ASSUME NEW r \in Runs, Recreate(r)
        PROVE  TypeOK'
    BY <1>5 DEF Recreate, PutIfAbsent, Info
  <1>6. ASSUME NEW r \in Runs, ReleaseCheck(r)
        PROVE  TypeOK'
    BY <1>6 DEF ReleaseCheck
  <1>7. ASSUME NEW r \in Runs, ReleaseDelete(r)
        PROVE  TypeOK'
    BY <1>7 DEF ReleaseDelete
  <1>8. ASSUME NEW r \in Runs, Crash(r)
        PROVE  TypeOK'
    BY <1>8 DEF Crash
  <1>9. CASE Tick
    BY <1>9 DEF Tick
  <1>10. CASE UNCHANGED vars
    BY <1>10 DEF vars
  <1> QED
    BY <1>1, <1>2, <1>3, <1>4, <1>5, <1>6, <1>7, <1>8, <1>9, <1>10 DEF Next, Step

(* The lock object is a LockInfo or absent, in every run of the protocol. *)
THEOREM TypeCorrect == Spec => []TypeOK
  BY TypeInit, TypeStep, PTL DEF Spec

-----------------------------------------------------------------------------
(* What a run knows about the lock object from its earlier reads, when no  *)
(* two acquirers take over together: the clock reading is not in the       *)
(* future, a lock about to be taken over has expired, and the lock about   *)
(* to be deleted by release is the run's own.                              *)

ClockBound == \A r \in Runs : pc[r] # "start" => at[r] <= now + MaxSkew
StealSafe  == \A r \in Runs : pc[r] = "steal" => \A l \in lock : Expired(l, at[r])
UnlockOwn  == \A r \in Runs : pc[r] = "unlock" => \E l \in lock : l.token = r

SoloInv == TypeOK /\ ClockBound /\ StealSafe /\ UnlockOwn /\ SoloSteal

LEMMA SoloInit == Init => SoloInv
  <1> SUFFICES ASSUME Init PROVE SoloInv
    OBVIOUS
  <1>1. TypeOK
    BY TypeInit
  <1> QED
    BY <1>1 DEF Init, SoloInv, ClockBound, StealSafe, UnlockOwn, SoloSteal

LEMMA SoloStep == SoloInv /\ [Next /\ SoloSteal']_vars => SoloInv'
  <1> SUFFICES ASSUME SoloInv, [Next /\ SoloSteal']_vars
               PROVE  SoloInv'
    OBVIOUS
  <1>1. TypeOK'
    BY TypeStep DEF SoloInv
  <1>2. SoloSteal'
    BY DEF SoloInv, vars, SoloSteal
  <1> USE <1>1, <1>2, TTLAssumption, SkewAssumption
      DEF SoloInv, TypeOK, Steps, LockInfo, Goto
  <1>3. ASSUME NEW r \in Runs, ReadClock(r)
        PROVE  SoloInv'
    <2>1. ClockBound'
      BY <1>3 DEF ReadClock, ClockBound
    <2>2. StealSafe' /\ UnlockOwn'
      BY <1>3 DEF ReadClock, StealSafe, UnlockOwn
    <2> QED
      BY <2>1, <2>2
  <1>4. ASSUME NEW r \in Runs, TryCreate(r)
        PROVE  SoloInv'
    <2> USE <1>4 DEF TryCreate, PutIfAbsent
    <2>1. ClockBound'
      BY DEF ClockBound
    <2>2. StealSafe'        \* nobody is about to steal while r creates
      BY DEF StealSafe, SoloSteal
    <2>3. UnlockOwn'        \* a run about to delete its lock still has one
      BY DEF UnlockOwn
    <2> QED
      BY <2>1, <2>2, <2>3
  <1>5. ASSUME NEW r \in Runs, Inspect(r)
        PROVE  SoloInv'
    BY <1>5 DEF Inspect, ClockBound, StealSafe, UnlockOwn
  <1>6. ASSUME NEW r \in Runs, DeleteStale(r)
        PROVE  SoloInv'
    <2> USE <1>6 DEF DeleteStale
    <2>1. ClockBound' /\ StealSafe'
      BY DEF ClockBound, StealSafe
    <2>2. UnlockOwn'        \* nobody is about to delete while r steals
      BY DEF UnlockOwn, SoloSteal
    <2> QED
      BY <2>1, <2>2
  <1>7. ASSUME NEW r \in Runs, Recreate(r)
        PROVE  SoloInv'
    <2> USE <1>7 DEF Recreate, PutIfAbsent
    <2>1. ClockBound'
      BY DEF ClockBound
    <2>2. StealSafe'
      BY DEF StealSafe, SoloSteal
    <2>3. UnlockOwn'
      BY DEF UnlockOwn
    <2> QED
      BY <2>1, <2>2, <2>3
  <1>8. ASSUME NEW r \in Runs, ReleaseCheck(r)
        PROVE  SoloInv'
    BY <1>8 DEF ReleaseCheck, ClockBound, StealSafe, UnlockOwn
  <1>9. ASSUME NEW r \in Runs, ReleaseDelete(r)
        PROVE  SoloInv'
    <2> USE <1>9 DEF ReleaseDelete
    <2>1. ClockBound' /\ StealSafe'
      BY DEF ClockBound, StealSafe
    <2>2. UnlockOwn'        \* the lock has one token, so r alone was about to delete
      BY DEF UnlockOwn
    <2> QED
      BY <2>1, <2>2
  <1>10. ASSUME NEW r \in Runs, Crash(r)
         PROVE  SoloInv'
    BY <1>10 DEF Crash, ClockBound, StealSafe, UnlockOwn
  <1>11. CASE Tick
    BY <1>11 DEF Tick, ClockBound, StealSafe, UnlockOwn
  <1>12. CASE UNCHANGED vars
    BY <1>12 DEF vars, ClockBound, StealSafe, UnlockOwn
  <1> QED
    BY <1>3, <1>4, <1>5, <1>6, <1>7, <1>8, <1>9, <1>10, <1>11, <1>12
       DEF Next, Step

(* As long as take-overs do not race, a lock that no host can see expired  *)
(* leaves the bucket only by its owner's release, however long runs last,  *)
(* whenever they crash and whatever the skew.                              *)
THEOREM LiveLockIsKept == SoloSpec => LiveLockStays
  <1>1. ASSUME SoloInv, Next, NEW l \in lock, LiveLockGoes(l)
        PROVE  ReleaseDelete(l.token)
    <2> USE <1>1, SkewAssumption DEF SoloInv, TypeOK, LockInfo, LiveLockGoes
    <2>1. ASSUME NEW r \in Runs, Step(r)
          PROVE  ReleaseDelete(l.token)
      <3>1. CASE DeleteStale(r)
        <4>1. Expired(l, at[r]) /\ at[r] <= now + MaxSkew
          BY <3>1 DEF DeleteStale, Goto, StealSafe, ClockBound
        <4> QED
          BY <4>1 DEF Expired
      <3>2. CASE ReleaseDelete(r)
        BY <3>2 DEF ReleaseDelete, Goto, UnlockOwn
      <3>3. CASE TryCreate(r) \/ Recreate(r)
        BY <3>3 DEF TryCreate, Recreate, PutIfAbsent
      <3>4. CASE ReadClock(r) \/ Inspect(r) \/ ReleaseCheck(r)
        BY <3>4 DEF ReadClock, Inspect, ReleaseCheck
      <3> QED
        BY <2>1, <3>1, <3>2, <3>3, <3>4 DEF Step
    <2>2. CASE \E r \in Runs : Crash(r)
      BY <2>2 DEF Crash
    <2>3. CASE Tick
      BY <2>3 DEF Tick
    <2> QED
      BY <2>1, <2>2, <2>3 DEF Next
  <1>2. SoloInv /\ [Next /\ SoloSteal']_vars
          => [\A l \in lock : LiveLockGoes(l) => ReleaseDelete(l.token)]_vars
    BY <1>1
  <1> QED
    BY <1>2, SoloInit, SoloStep, PTL DEF SoloSpec, LiveLockStays

-----------------------------------------------------------------------------
(* The lock object of a run within its TTL is still there: nobody can have *)
(* seen it expired.                                                        *)

HolderOwns == \A r \in Runs : Protected(r) => lock = {Info(r)}

OwnInv == SoloInv /\ HolderOwns

LEMMA OwnInit == Init => OwnInv
  BY SoloInit DEF Init, OwnInv, HolderOwns, Protected, Holding

LEMMA OwnStep == OwnInv /\ [Next /\ SoloSteal']_vars => OwnInv'
  <1> SUFFICES ASSUME OwnInv, [Next /\ SoloSteal']_vars
               PROVE  OwnInv'
    OBVIOUS
  <1>1. SoloInv'
    BY SoloStep DEF OwnInv
  <1> SUFFICES HolderOwns'
    BY <1>1 DEF OwnInv
  <1> USE <1>1, TTLAssumption, SkewAssumption
      DEF OwnInv, SoloInv, TypeOK, Steps, LockInfo, Goto,
          HolderOwns, Protected, InTime, Holding, Info
  <1>3. ASSUME NEW r \in Runs, ReadClock(r)
        PROVE  HolderOwns'
    BY <1>3 DEF ReadClock
  <1>4. ASSUME NEW r \in Runs, TryCreate(r) \/ Recreate(r)
        PROVE  HolderOwns'
    BY <1>4 DEF TryCreate, Recreate, PutIfAbsent
  <1>5. ASSUME NEW r \in Runs, Inspect(r) \/ ReleaseCheck(r)
        PROVE  HolderOwns'
    BY <1>5 DEF Inspect, ReleaseCheck
  <1>6. ASSUME NEW r \in Runs, DeleteStale(r)
        PROVE  HolderOwns'
    <2>1. ASSUME NEW q \in Runs, Protected(q)
          PROVE  FALSE
      <3>1. at[q] + TTL <= at[r]
        <4>1. Info(q) \in lock
          BY <2>1
        <4>2. Expired(Info(q), at[r])
          BY <1>6, <4>1 DEF DeleteStale, StealSafe
        <4> QED
          BY <4>2 DEF Expired
      <3>2. at[r] <= now + MaxSkew
        BY <1>6 DEF DeleteStale, ClockBound
      <3> QED
        BY <2>1, <3>1, <3>2
    <2> QED
      BY <1>6, <2>1 DEF DeleteStale
  <1>7. ASSUME NEW r \in Runs, ReleaseDelete(r)
        PROVE  HolderOwns'
    <2>1. ASSUME NEW q \in Runs, q # r, Protected(q)
          PROVE  FALSE
      BY <1>7, <2>1 DEF ReleaseDelete, UnlockOwn
    <2> QED
      BY <1>7, <2>1 DEF ReleaseDelete
  <1>8. ASSUME NEW r \in Runs, Crash(r)
        PROVE  HolderOwns'
    BY <1>8 DEF Crash
  <1>9. CASE Tick
    BY <1>9 DEF Tick
  <1>10. CASE UNCHANGED vars
    BY <1>10 DEF vars
  <1> QED
    BY <1>3, <1>4, <1>5, <1>6, <1>7, <1>8, <1>9, <1>10 DEF Next, Step

LEMMA OwnExcludes == OwnInv => MutualExclusion
  <1> SUFFICES ASSUME OwnInv, NEW q \in Runs, NEW r \in Runs,
                      Protected(q), Protected(r)
               PROVE  q = r
    BY DEF MutualExclusion
  <1>1. Info(q) = Info(r)
    BY DEF OwnInv, HolderOwns
  <1> QED
    BY <1>1 DEF Info

(* At most one run within its TTL is in its locked body, as long as take-  *)
(* overs do not race: a run that overruns endangers itself, nobody else.   *)
THEOREM ExclusiveWithinTTL == SoloSpec => []MutualExclusion
  BY OwnInit, OwnStep, OwnExcludes, PTL DEF SoloSpec

-----------------------------------------------------------------------------
(* A run gets inside only by creating the lock object, and nobody else is  *)
(* inside then, for the lock object of anyone inside would be there.  If   *)
(* its TTL has passed meanwhile it is out at once.                         *)
LEMMA CreateEnters ==
  ASSUME OwnInv, NEW r \in Runs, TryCreate(r) \/ Recreate(r),
         lock = {}, pc' = [pc EXCEPT ![r] = "holding"]
  PROVE  Abstract!Enter(r) \/ Abstract!Leave(r)
  <1>1. \A q \in Runs : ~Protected(q)
    BY DEF OwnInv, HolderOwns
  <1>2. pc[r] \in {"create", "recreate"} /\ UNCHANGED <<now, at>>
    BY DEF TryCreate, Recreate, PutIfAbsent, Goto
  <1>3. stageBar[r] = "waiting"
    BY <1>2 DEF stageBar, Protected, Holding, Finished
  <1>4. \A q \in Runs : stageBar[q] # "inside"
    BY <1>1 DEF stageBar
  <1>5. CASE InTime(r)
    <2>1. stageBar' = [stageBar EXCEPT ![r] = "inside"]
      BY <1>2, <1>5
         DEF OwnInv, SoloInv, TypeOK, stageBar, Protected, InTime, Holding, Finished
    <2> QED
      BY <1>3, <1>4, <2>1 DEF Abstract!Enter
  <1>6. CASE ~InTime(r)
    <2>1. stageBar' = [stageBar EXCEPT ![r] = "out"]
      BY <1>2, <1>6
         DEF OwnInv, SoloInv, TypeOK, stageBar, Protected, InTime, Holding, Finished
    <2> QED
      BY <1>3, <2>1 DEF Abstract!Leave
  <1> QED
    BY <1>5, <1>6

(* A step that moves one run within its stage is a stutter, and one that   *)
(* takes it to an end is a Leave, or a stutter if it had overrun.          *)
LEMMA MoveMaps ==
  ASSUME TypeOK, NEW r \in Runs, ~Finished(r), NEW to \in Steps,
         pc' = [pc EXCEPT ![r] = to], UNCHANGED now,
         \A q \in Runs : Holding(q) => at'[q] = at[q],
         to \in {"holding", "unlock"} => Holding(r),
         Holding(r) => to \in {"unlock", "out", "crashed"}
  PROVE  Abstract!Leave(r) \/ UNCHANGED stageBar
  <1> USE DEF TypeOK, Steps, Protected, InTime, Holding, Finished, stageBar
  <1>1. CASE stageBar[r] # "out" /\ to \in {"out", "refused", "crashed"}
    <2>1. stageBar' = [stageBar EXCEPT ![r] = "out"]
      BY <1>1
    <2> QED
      BY <1>1, <2>1 DEF Abstract!Leave
  <1>2. CASE ~(stageBar[r] # "out" /\ to \in {"out", "refused", "crashed"})
    BY <1>2
  <1> QED
    BY <1>1, <1>2

(* When time passes, the one run inside may reach the end of its TTL.      *)
LEMMA TickMaps ==
  ASSUME OwnInv, Tick
  PROVE  [Abstract!Next]_stageBar
  <1> USE SkewAssumption, TTLAssumption DEF OwnInv, SoloInv, TypeOK
  <1>1. \A q \in Runs : Protected(q)' => Protected(q)
    BY DEF Tick, Protected, InTime, Holding
  <1>2. \A q \in Runs : Holding(q)' = Holding(q) /\ Finished(q)' = Finished(q)
    BY DEF Tick, Holding, Finished
  <1>3. CASE \E r \in Runs : Protected(r) /\ ~Protected(r)'
    <2>1. PICK r \in Runs : Protected(r) /\ ~Protected(r)'
      BY <1>3
    <2>2. \A q \in Runs : q # r => ~Protected(q)
      BY <2>1, OwnExcludes DEF MutualExclusion
    <2>3. Holding(r)
      BY <2>1 DEF Protected
    <2>4. stageBar' = [stageBar EXCEPT ![r] = "out"]
      BY <1>1, <1>2, <2>1, <2>2, <2>3 DEF stageBar
    <2>5. stageBar[r] = "inside"
      BY <2>1 DEF stageBar
    <2> QED
      BY <2>4, <2>5 DEF Abstract!Next, Abstract!Leave
  <1>4. CASE \A r \in Runs : Protected(r) => Protected(r)'
    BY <1>1, <1>2, <1>4 DEF stageBar
  <1> QED
    BY <1>3, <1>4

LEMMA StepMaps ==
  OwnInv /\ [Next]_vars => [Abstract!Next]_stageBar
  <1> SUFFICES ASSUME OwnInv, [Next]_vars
               PROVE  [Abstract!Next]_stageBar
    OBVIOUS
  <1>1. TypeOK
    BY DEF OwnInv, SoloInv
  <1>2. ASSUME NEW r \in Runs, TryCreate(r) \/ Recreate(r)
        PROVE  Abstract!Enter(r) \/ Abstract!Leave(r) \/ UNCHANGED stageBar
    <2>1. CASE lock = {} /\ pc' = [pc EXCEPT ![r] = "holding"]
      BY <1>2, <2>1, CreateEnters
    <2>2. CASE ~(lock = {} /\ pc' = [pc EXCEPT ![r] = "holding"])
      <3>1. PICK to \in {"read", "refused"} : pc' = [pc EXCEPT ![r] = to]
        BY <1>2, <2>2 DEF TryCreate, Recreate, PutIfAbsent, Goto
      <3>2. pc[r] \in {"create", "recreate"} /\ UNCHANGED <<now, at>>
        BY <1>2 DEF TryCreate, Recreate, PutIfAbsent, Goto
      <3> QED
        BY <1>1, <3>1, <3>2, MoveMaps DEF Holding, Finished, Steps
    <2> QED
      BY <2>1, <2>2
  <1>3. ASSUME NEW r \in Runs,
               ReadClock(r) \/ Inspect(r) \/ DeleteStale(r)
        PROVE  Abstract!Leave(r) \/ UNCHANGED stageBar
    <2>1. PICK to \in {"create", "refused", "steal", "recreate"} :
              pc' = [pc EXCEPT ![r] = to]
      BY <1>3 DEF ReadClock, Inspect, DeleteStale, Goto
    <2>2. pc[r] \in {"start", "read", "steal"} /\ UNCHANGED now
      BY <1>3 DEF ReadClock, Inspect, DeleteStale, Goto
    <2>3. \A q \in Runs : Holding(q) => at'[q] = at[q]
      BY <1>1, <1>3 DEF ReadClock, Inspect, DeleteStale, Goto, Holding, TypeOK
    <2> QED
      BY <1>1, <2>1, <2>2, <2>3, MoveMaps DEF Holding, Finished, Steps
  <1>4. ASSUME NEW r \in Runs, ReleaseCheck(r) \/ ReleaseDelete(r)
        PROVE  Abstract!Leave(r) \/ UNCHANGED stageBar
    <2>1. PICK to \in {"unlock", "out"} : pc' = [pc EXCEPT ![r] = to]
      BY <1>4 DEF ReleaseCheck, ReleaseDelete, Goto
    <2>2. pc[r] \in {"holding", "unlock"} /\ UNCHANGED <<now, at>>
      BY <1>4 DEF ReleaseCheck, ReleaseDelete, Goto
    <2> QED
      BY <1>1, <2>1, <2>2, MoveMaps DEF Holding, Finished, Steps
  <1>5. ASSUME NEW r \in Runs, Crash(r)
        PROVE  Abstract!Leave(r) \/ UNCHANGED stageBar
    <2>1. pc' = [pc EXCEPT ![r] = "crashed"] /\ ~Finished(r) /\ UNCHANGED <<now, at>>
      BY <1>5 DEF Crash
    <2> QED
      BY <1>1, <2>1, MoveMaps DEF Steps
  <1>6. CASE Tick
    BY <1>6, TickMaps
  <1>7. CASE UNCHANGED vars
    BY <1>7 DEF vars, stageBar, Protected, InTime, Holding, Finished
  <1> QED
    BY <1>2, <1>3, <1>4, <1>5, <1>6, <1>7 DEF Next, Step, Abstract!Next

LEMMA InitMaps == Init => Abstract!Init
  BY DEF Init, Abstract!Init, stageBar, Protected, Holding, Finished

(* As long as take-overs do not race, the lock object implements RunLock:  *)
(* runs wait, go in one at a time, and leave once, at the latest when      *)
(* their TTL has passed.                                                   *)
THEOREM LockImplementsRunLock == SoloSpec => ImplementsRunLock
  <1>1. OwnInv /\ [Next /\ SoloSteal']_vars => [Abstract!Next]_stageBar
    BY StepMaps
  <1> QED
    BY <1>1, InitMaps, OwnInit, OwnStep, PTL
       DEF SoloSpec, ImplementsRunLock, Abstract!Spec
=============================================================================
