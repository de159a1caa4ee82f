---------------------------- MODULE UiGateProofs ----------------------------
(***************************************************************************)
(* Theorems about UiGate for every set of requests and other processes and *)
(* every number of kills, with all faults.  The flag _BUSY names the only  *)
(* request in the gate; from that follows what the request may assume of   *)
(* _DIST and PROGRESS while it is there, and that it owns the lock object  *)
(* from its acquire to its release, or to the wipe of a seed.              *)
(***************************************************************************)
EXTENDS UiGate, TLAPS

(* A request between the set and the reset of its flag. *)
InGate(r) == pc[r] \in {"acquire", "unclaim", "claimed", "reset", "spawn", "body",
                        "wiped", "release", "unflag"}

FlagNamesGate == \A r \in Requests : InGate(r) => busy = {r}

(* Which steps requests and others come through. *)
Kinds == /\ \A r \in Requests : pc[r] \in {"reset", "spawn"} => r \in Runs
         /\ \A r \in Runs : pc[r] # "wiped"
         /\ \A o \in Others : pc[o] \in {"start", "body", "done", "killed"}

DistIsMine == \A r \in Requests :
                 pc[r] \in {"reset", "spawn", "body", "wiped", "release"} => dist = {r}

GateInv == TypeOK /\ FlagNamesGate /\ Kinds /\ DistIsMine /\ ProgressIsMine

LEMMA GateInit == Init => GateInv
  <1> SUFFICES ASSUME Init PROVE GateInv
    OBVIOUS
  <1>1. \A x \in Everyone : pc[x] = "start"
    BY DEF Init
  <1>2. Requests \subseteq Everyone /\ Others \subseteq Everyone /\ Runs \subseteq Requests
    BY DEF Requests, Everyone
  <1>3. TypeOK
    BY KillsAssumption DEF Init, TypeOK, Steps, Fresh
  <1>4. FlagNamesGate /\ Kinds /\ DistIsMine /\ ProgressIsMine
    BY <1>1, <1>2 DEF FlagNamesGate, InGate, Kinds, DistIsMine, ProgressIsMine
  <1> QED
    BY <1>3, <1>4 DEF GateInv

LEMMA TypeStep == GateInv /\ [Next]_vars => TypeOK'
  <1> SUFFICES ASSUME GateInv, [Next]_vars PROVE TypeOK'
    OBVIOUS
  <1> USE DEF GateInv, TypeOK
  <1>1. Runs \subseteq Requests /\ Requests \subseteq Everyone /\ Others \subseteq Everyone
    BY DEF Requests, Everyone
  <1>2. ASSUME NEW r \in Requests, NEW from \in Steps, NEW to \in Steps, Goto(r, from, to)
        PROVE  pc' \in [Everyone -> Steps]
    BY <1>2 DEF Goto
  <1>3. ASSUME NEW r \in Requests,
               \/ Claim(r) \/ RejectLocal(r) \/ Acquire(r) \/ LockedOut(r) \/ Unclaim(r)
               \/ Spawn(r) \/ SpawnRaises(r) \/ SeedWipes(r)
               \/ SeedEnds(r) \/ Release(r) \/ ReleaseRaises(r) \/ Unflag(r)
        PROVE  TypeOK'
    <2>1. pc' \in [Everyone -> Steps]
      BY <1>1, <1>3 DEF Claim, RejectLocal, Acquire, LockedOut, Unclaim, Spawn, SpawnRaises,
           SeedWipes, SeedEnds, Release, ReleaseRaises, Unflag, Goto, Steps
    <2> QED
      BY <1>1, <1>3, <2>1 DEF Claim, RejectLocal, Acquire, LockedOut, Unclaim, Spawn,
           SpawnRaises, SeedWipes, SeedEnds, Release, ReleaseRaises, Unflag
  <1>4. ASSUME NEW r \in Requests,
               TryBeginRaises(r) \/ StoreLock(r) \/ CleanFails(r)
        PROVE  TypeOK'
    BY <1>1, <1>4 DEF TryBeginRaises, StoreLock, CleanFails, Goto, Steps
  <1>5. ASSUME NEW r \in Requests, ResetProgress(r) \/ Finish(r)
        PROVE  TypeOK'
    <2>1. r \in Runs
      BY <1>5 DEF ResetProgress, Finish, Goto, Kinds
    <2>2. pc' \in [Everyone -> Steps]
      BY <1>1, <1>5 DEF ResetProgress, Finish, Goto, Steps
    <2>3. progress' \in [run : SUBSET Runs, running : BOOLEAN,
                         finished : BOOLEAN, error : BOOLEAN]
      <3>1. CASE ResetProgress(r)
        BY <2>1, <3>1 DEF ResetProgress, Fresh
      <3>2. CASE Finish(r)
        <4>1. (r \in trouble) \in BOOLEAN
          OBVIOUS
        <4>2. \A e \in BOOLEAN :
                 [progress EXCEPT !.running = FALSE, !.finished = TRUE, !.error = e]
                   \in [run : SUBSET Runs, running : BOOLEAN,
                        finished : BOOLEAN, error : BOOLEAN]
          OBVIOUS
        <4>3. progress' = [progress EXCEPT !.running = FALSE, !.finished = TRUE,
                                           !.error = r \in trouble]
          BY <3>2 DEF Finish
        <4> HIDE DEF TypeOK
        <4> QED
          BY <4>1, <4>2, <4>3, Zenon
      <3> QED
        BY <1>5, <3>1, <3>2
    <2> QED
      BY <1>5, <2>2, <2>3 DEF ResetProgress, Finish
  <1>6. ASSUME NEW o \in Others, OtherEnters(o) \/ OtherLeaves(o)
        PROVE  TypeOK'
    BY <1>1, <1>6 DEF OtherEnters, OtherLeaves, Goto, Steps
  <1>7. CASE Expire
    BY <1>7 DEF Expire
  <1>8. CASE Kill
    <2>1. pc' \in [Everyone -> Steps]
      BY <1>8 DEF Kill, Steps
    <2>2. kills' \in 0..MaxKills
      BY <1>8, KillsAssumption DEF Kill
    <2> QED
      BY <1>8, <2>1, <2>2 DEF Kill, Fresh
  <1>9. CASE UNCHANGED vars
    BY <1>9 DEF vars
  <1> QED
    BY <1>3, <1>4, <1>5, <1>6, <1>7, <1>8, <1>9 DEF Next, Handle

(* When run r is alone in the gate, only its own place counts for PROGRESS. *)
LEMMA AloneInGate ==
  ASSUME NEW r \in Runs, Runs \subseteq Everyone,
         \A x \in Runs : x # r => ~InGate(x) /\ pc'[x] = pc[x],
         progress'.run = {r},
         \/ pc'[r] = "spawn" /\ progress'.running = TRUE
         \/ pc'[r] = "release" /\ progress'.running = FALSE
  PROVE  ProgressIsMine'
  <1>1. ASSUME NEW x \in Runs, pc'[x] \in {"spawn", "body", "release", "unflag"}
        PROVE  x = r
    BY <1>1 DEF InGate
  <1>2. progress'.running = (pc'[r] \in {"spawn", "body"})
    <2>1. CASE pc'[r] = "spawn" /\ progress'.running = TRUE
      BY <2>1, Zenon
    <2>2. CASE pc'[r] = "release" /\ progress'.running = FALSE
      <3>1. (pc'[r] \in {"spawn", "body"}) = FALSE
        BY <2>2
      <3>2. progress'.running = FALSE
        BY <2>2
      <3> QED
        BY <3>1, <3>2, Zenon
    <2> QED
      BY <2>1, <2>2
  <1> QED
    BY <1>1, <1>2, Zenon DEF ProgressIsMine

LEMMA Assemble ==
  ASSUME TypeOK', FlagNamesGate', Kinds', DistIsMine', ProgressIsMine'
  PROVE  GateInv'
  BY Zenon DEF GateInv

(* What a step of request r does to the others' places. *)
LEMMA GateStep == GateInv /\ [Next]_vars => GateInv'
  <1> SUFFICES ASSUME GateInv, [Next]_vars PROVE GateInv'
    OBVIOUS
  <1>1. TypeOK'
    BY TypeStep
  <1>2. Runs \subseteq Requests /\ Requests \subseteq Everyone /\ Others \subseteq Everyone
        /\ Requests \cap Others = {} /\ Runs \cap Seeds = {} /\ Requests = Runs \cup Seeds
    BY DisjointAssumption DEF Requests, Everyone
  <1> USE DEF GateInv, TypeOK, FlagNamesGate, InGate, Kinds, DistIsMine, ProgressIsMine
  <1>3. ASSUME NEW r \in Requests, Claim(r) \/ RejectLocal(r)
        PROVE  GateInv'
    BY <1>1, <1>2, <1>3 DEF Claim, RejectLocal, Goto
  <1>4. ASSUME NEW r \in Requests,
               Acquire(r) \/ LockedOut(r) \/ TryBeginRaises(r) \/ Unclaim(r)
        PROVE  GateInv'
    BY <1>1, <1>2, <1>4 DEF Acquire, LockedOut, TryBeginRaises, Unclaim, Goto
  <1>11. ASSUME NEW r \in Requests, StoreLock(r)
        PROVE  GateInv'
    <2>1. pc' = [pc EXCEPT ![r] = IF r \in Runs THEN "reset" ELSE "body"]
      BY <1>11 DEF StoreLock, Goto
    <2>2. \A x \in Requests : x # r => ~InGate(x)
      BY <1>11 DEF StoreLock, Goto
    <2> QED
      BY <1>1, <1>2, <1>11, <2>1, <2>2 DEF StoreLock, Goto
  <1>5. ASSUME NEW r \in Requests, ResetProgress(r) \/ Spawn(r) \/ SpawnRaises(r)
        PROVE  GateInv'
    <2>1. \A x \in Requests : x # r => ~InGate(x)
      BY <1>5 DEF ResetProgress, Spawn, SpawnRaises, Goto
    <2>2. \A x \in Everyone : x # r => pc'[x] = pc[x]
      BY <1>5 DEF ResetProgress, Spawn, SpawnRaises, Goto
    <2>3. CASE ResetProgress(r)
      <3>1. progress'.run = {r} /\ progress'.running = TRUE /\ pc'[r] = "spawn" /\ r \in Runs
        BY <1>2, <2>3 DEF ResetProgress, Fresh, Goto
      <3>2. UNCHANGED <<busy, dist>> /\ pc[r] = "reset"
        BY <2>3 DEF ResetProgress, Goto
      <3>3. FlagNamesGate' /\ DistIsMine'
        BY <1>2, <2>1, <2>2, <3>1, <3>2
      <3>4. Kinds'
        BY <1>2, <2>1, <2>2, <3>1
      <3>5. ProgressIsMine'
        BY <1>2, <2>1, <2>2, <3>1, AloneInGate
      <3> QED
        BY <1>1, <3>3, <3>4, <3>5, Assemble
    <2>4. CASE Spawn(r) \/ SpawnRaises(r)
      BY <1>1, <1>2, <2>1, <2>2, <2>4 DEF Spawn, SpawnRaises, Goto
    <2> QED
      BY <1>5, <2>3, <2>4
  <1>6. ASSUME NEW r \in Requests, CleanFails(r) \/ Finish(r) \/ SeedWipes(r) \/ SeedEnds(r)
        PROVE  GateInv'
    <2>1. \A x \in Requests : x # r => ~InGate(x)
      BY <1>6 DEF CleanFails, Finish, SeedWipes, SeedEnds, Goto
    <2>2. UNCHANGED <<busy, dist>> /\ \A x \in Everyone : x # r => pc'[x] = pc[x]
      BY <1>6 DEF CleanFails, Finish, SeedWipes, SeedEnds, Goto
    <2>3. CASE Finish(r)
      <3>1. progress'.run = progress.run /\ progress'.running = FALSE
            /\ pc[r] = "body" /\ pc'[r] = "release" /\ r \in Runs
        BY <1>2, <2>3 DEF Finish, Goto
      <3>2. FlagNamesGate' /\ DistIsMine'
        BY <1>2, <2>1, <2>2, <3>1
      <3>3. Kinds'
        BY <1>2, <2>1, <2>2, <3>1
      <3>4. progress'.run = {r}
        BY <3>1
      <3>5. ProgressIsMine'
        BY <1>2, <2>1, <2>2, <3>1, <3>4, AloneInGate
      <3> QED
        BY <1>1, <3>2, <3>3, <3>5, Assemble
    <2>4. CASE CleanFails(r) \/ SeedWipes(r) \/ SeedEnds(r)
      BY <1>1, <1>2, <2>1, <2>2, <2>4 DEF CleanFails, SeedWipes, SeedEnds, Goto
    <2> QED
      BY <1>6, <2>3, <2>4
  <1>7. ASSUME NEW r \in Requests, Release(r) \/ ReleaseRaises(r) \/ Unflag(r)
        PROVE  GateInv'
    BY <1>1, <1>2, <1>7 DEF Release, ReleaseRaises, Unflag, Goto
  <1>8. ASSUME NEW o \in Others, OtherEnters(o) \/ OtherLeaves(o)
        PROVE  GateInv'
    BY <1>1, <1>2, <1>8 DEF OtherEnters, OtherLeaves, Goto
  <1>9. CASE Expire \/ UNCHANGED vars
    BY <1>1, <1>2, <1>9 DEF Expire, vars
  <1>10. CASE Kill
    <2>1. \A r \in Requests : pc'[r] \in {"start", "done", "rejected", "failed", "killed", "dropped"}
      BY <1>2, <1>10 DEF Kill, Ended
    <2>2. \A o \in Others : pc'[o] = pc[o]
      BY <1>2, <1>10 DEF Kill
    <2> QED
      BY <1>1, <1>2, <2>1, <2>2
  <1> QED
    BY <1>3, <1>4, <1>5, <1>6, <1>7, <1>8, <1>9, <1>10, <1>11 DEF Next, Handle

LEMMA GateHolds == Spec => []GateInv
  BY GateInit, GateStep, PTL DEF Spec

(* Type correctness. *)
THEOREM TypeCorrect == Spec => []TypeOK
  <1>1. GateInv => TypeOK
    BY DEF GateInv
  <1> QED
    BY <1>1, GateHolds, PTL

(* A page that started a run is told of that run while it lasts. *)
THEOREM PageSeesItsRun == Spec => []ProgressIsMine
  <1>1. GateInv => ProgressIsMine
    BY DEF GateInv
  <1> QED
    BY <1>1, GateHolds, PTL

(* end() releases the lock of the request that calls it. *)
THEOREM EndReleasesOwn == Spec => EndReleasesItsOwn
  <1>1. GateInv /\ [Next]_vars => [\A r \in Requests : Release(r) => dist = {r}]_vars
    BY DEF GateInv, DistIsMine, Release, Goto
  <1> QED
    BY <1>1, GateHolds, PTL DEF Spec, EndReleasesItsOwn

-----------------------------------------------------------------------------
(* Who is alone owns the lock object. *)
LockIsMine == \A x \in Everyone : Alone(x) => lock = {x}

LEMMA LockInit == Init => LockIsMine
  BY DEF Init, LockIsMine, Alone

LEMMA LockStep == GateInv /\ LockIsMine /\ [Next]_vars => LockIsMine'
  <1> SUFFICES ASSUME GateInv, LockIsMine, [Next]_vars PROVE LockIsMine'
    OBVIOUS
  <1>1. Requests \subseteq Everyone /\ Others \subseteq Everyone /\ Everyone = Requests \cup Others
    BY DEF Everyone
  <1>2. TypeOK /\ DistIsMine /\ Kinds
    BY DEF GateInv
  <1> USE DEF LockIsMine, Alone, Inside, TypeOK
  <1>3. ASSUME NEW r \in Requests,
               \/ Claim(r) \/ RejectLocal(r) \/ LockedOut(r) \/ Unclaim(r) \/ StoreLock(r)
               \/ ResetProgress(r) \/ Spawn(r) \/ SpawnRaises(r)
               \/ CleanFails(r) \/ Finish(r) \/ Unflag(r)
        PROVE  LockIsMine'
    BY <1>1, <1>2, <1>3 DEF Claim, RejectLocal, LockedOut, Unclaim, StoreLock, ResetProgress,
         Spawn, SpawnRaises, CleanFails, Finish, Unflag, Goto
  <1>4. ASSUME NEW r \in Requests, Acquire(r) \/ TryBeginRaises(r)
        PROVE  LockIsMine'
    BY <1>1, <1>2, <1>4 DEF Acquire, TryBeginRaises, Goto
  <1>5. ASSUME NEW r \in Requests, Release(r) \/ ReleaseRaises(r)
        PROVE  LockIsMine'
    <2>1. dist = {r}
      BY <1>1, <1>2, <1>5 DEF Release, ReleaseRaises, Goto, DistIsMine
    <2> QED
      BY <1>1, <1>2, <1>5, <2>1 DEF Release, ReleaseRaises, Goto
  <1>6. ASSUME NEW r \in Requests, SeedWipes(r) \/ SeedEnds(r)
        PROVE  LockIsMine'
    BY <1>1, <1>2, <1>6 DEF SeedWipes, SeedEnds, Goto
  <1>7. ASSUME NEW o \in Others, OtherEnters(o) \/ OtherLeaves(o)
        PROVE  LockIsMine'
    BY <1>1, <1>2, <1>7 DEF OtherEnters, OtherLeaves, Goto
  <1>8. CASE Expire
    BY <1>8 DEF Expire
  <1>9. CASE Kill
    <2>1. \A x \in Everyone : pc'[x] # pc[x] => pc'[x] \in {"killed", "dropped"}
      BY <1>9 DEF Kill
    <2> QED
      BY <1>2, <1>9, <2>1 DEF Kill
  <1>10. CASE UNCHANGED vars
    BY <1>10 DEF vars
  <1> QED
    BY <1>3, <1>4, <1>5, <1>6, <1>7, <1>8, <1>9, <1>10 DEF Next, Handle

(* Somebody goes in who finds no lock object. *)
LEMMA EnterMaps ==
  ASSUME TypeOK, LockIsMine, lock = {}, NEW x \in Everyone, pc[x] \in {"start", "acquire"},
         NEW to \in {"claimed", "body"}, pc' = [pc EXCEPT ![x] = to]
  PROVE  Abstract!Enter(x)
  <1>1. \A y \in Everyone : ~Alone(y)
    BY DEF LockIsMine
  <1>2. stageBar[x] = "waiting" /\ \A y \in Everyone : stageBar[y] # "inside"
    BY <1>1 DEF stageBar, Alone
  <1>3. stageBar' = [stageBar EXCEPT ![x] = "inside"]
    BY DEF TypeOK, stageBar, Alone
  <1> QED
    BY <1>2, <1>3 DEF Abstract!Enter

Outside == {"start", "acquire", "unclaim", "rejected", "dropped"}

(* A move that does not lead inside is a stutter, or a Leave if it leads   *)
(* out.                                                                    *)
LEMMA MoveMaps ==
  ASSUME TypeOK, NEW x \in Everyone, NEW to \in Steps, pc' = [pc EXCEPT ![x] = to],
         to \in Outside => pc[x] \in Outside,
         to \in {"claimed", "reset", "spawn", "body"} => Alone(x),
         to = "release" => (Alone(x) \/ (x \in Seeds /\ pc[x] = "wiped"))
  PROVE  Abstract!Leave(x) \/ UNCHANGED stageBar
  <1> USE DEF TypeOK, Steps, Outside, Alone, stageBar
  <1> DEFINE Ends == \/ to \in {"wiped", "unflag", "done", "failed", "killed"}
                     \/ to = "release" /\ x \in Seeds
  <1>1. CASE stageBar[x] # "out" /\ Ends
    <2>1. stageBar' = [stageBar EXCEPT ![x] = "out"]
      BY <1>1
    <2> QED
      BY <1>1, <2>1 DEF Abstract!Leave
  <1>2. CASE ~(stageBar[x] # "out" /\ Ends)
    BY <1>2
  <1> QED
    BY <1>1, <1>2

LEMMA KillMaps ==
  ASSUME GateInv, LockIsMine, Kill
  PROVE  [Abstract!Next]_stageBar
  <1> USE DEF GateInv, TypeOK, Kill, Alone, Inside, Ended, stageBar
  <1>1. CASE \E x \in Requests : Alone(x)
    <2>1. PICK x \in Requests : Alone(x)
      BY <1>1
    <2>2. x \in Everyone /\ x \notin Others
      BY DisjointAssumption DEF Everyone, Requests
    <2>3. \A y \in Requests : y # x => ~Alone(y)
      BY <2>1, <2>2 DEF LockIsMine, Everyone
    <2>4. stageBar' = [stageBar EXCEPT ![x] = "out"]
      <3>1. ASSUME NEW y \in Everyone, y # x
            PROVE  stageBar'[y] = stageBar[y]
        <4>1. CASE y \in Others
          BY <3>1, <4>1
        <4>2. CASE y \in Requests
          BY <3>1, <4>2, <2>3 DEF Steps
        <4> QED
          BY <4>1, <4>2 DEF Everyone
      <3>2. stageBar'[x] = "out"
        BY <2>1, <2>2
      <3> QED
        BY <3>1, <3>2
    <2>5. stageBar[x] # "out"
      BY <2>1, <2>2
    <2> QED
      BY <2>2, <2>4, <2>5 DEF Abstract!Next, Abstract!Leave
  <1>2. CASE \A x \in Requests : ~Alone(x)
    <2>1. ASSUME NEW y \in Everyone
          PROVE  stageBar'[y] = stageBar[y]
      <3>1. CASE y \in Others
        BY <3>1
      <3>2. CASE y \in Requests
        BY <3>2, <1>2 DEF Steps
      <3> QED
        BY <3>1, <3>2 DEF Everyone
    <2> QED
      BY <2>1
  <1> QED
    BY <1>1, <1>2

LEMMA StepMaps ==
  GateInv /\ LockIsMine /\ [Next]_vars => [Abstract!Next]_stageBar
  <1> SUFFICES ASSUME GateInv, LockIsMine, [Next]_vars PROVE [Abstract!Next]_stageBar
    OBVIOUS
  <1>1. Requests \subseteq Everyone /\ Others \subseteq Everyone
    BY DEF Everyone
  <1>2. TypeOK
    BY DEF GateInv
  <1>3. ASSUME NEW r \in Requests, Acquire(r)
        PROVE  Abstract!Enter(r)
    BY <1>1, <1>2, <1>3, EnterMaps DEF Acquire, Goto
  <1>4. ASSUME NEW o \in Others, OtherEnters(o)
        PROVE  Abstract!Enter(o)
    BY <1>1, <1>2, <1>4, EnterMaps DEF OtherEnters, Goto
  <1>5. ASSUME NEW r \in Requests,
               Claim(r) \/ RejectLocal(r) \/ LockedOut(r) \/ Unclaim(r) \/ TryBeginRaises(r)
        PROVE  Abstract!Leave(r) \/ UNCHANGED stageBar
    <2>1. PICK to \in {"acquire", "rejected", "unclaim", "failed"} :
             pc' = [pc EXCEPT ![r] = to] /\ pc[r] \in Outside
      BY <1>5 DEF Claim, RejectLocal, LockedOut, Unclaim, TryBeginRaises, Goto, Outside
    <2> QED
      BY <1>1, <1>2, <2>1, MoveMaps DEF Steps, Outside
  <1>6. ASSUME NEW r \in Requests,
               \/ StoreLock(r) \/ ResetProgress(r) \/ Spawn(r) \/ SpawnRaises(r)
               \/ Finish(r) \/ SeedWipes(r) \/ SeedEnds(r)
               \/ Release(r) \/ ReleaseRaises(r) \/ Unflag(r)
        PROVE  Abstract!Leave(r) \/ UNCHANGED stageBar
    <2>1. PICK to \in Steps \ Outside :
             /\ pc' = [pc EXCEPT ![r] = to]
             /\ to \in {"claimed", "reset", "spawn", "body"} => Alone(r)
             /\ to = "release" => (Alone(r) \/ (r \in Seeds /\ pc[r] = "wiped"))
      BY <1>6 DEF StoreLock, ResetProgress, Spawn, SpawnRaises, Finish, SeedWipes, SeedEnds,
                  Release, ReleaseRaises, Unflag, Goto, Outside, Steps, Alone
    <2> QED
      BY <1>1, <1>2, <2>1, MoveMaps
  <1>7. ASSUME NEW r \in Requests, CleanFails(r)
        PROVE  UNCHANGED stageBar
    BY <1>7 DEF CleanFails, stageBar, Alone
  <1>8. ASSUME NEW o \in Others, OtherLeaves(o)
        PROVE  Abstract!Leave(o) \/ UNCHANGED stageBar
    <2>1. PICK to \in {"done", "killed"} : pc' = [pc EXCEPT ![o] = to] /\ pc[o] = "body"
      BY <1>8 DEF OtherLeaves, Goto
    <2> QED
      BY <1>1, <1>2, <2>1, MoveMaps DEF Steps, Outside
  <1>9. CASE Expire \/ UNCHANGED vars
    BY <1>9 DEF Expire, vars, stageBar, Alone
  <1>10. CASE Kill
    BY <1>10, KillMaps
  <1> QED
    BY <1>1, <1>3, <1>4, <1>5, <1>6, <1>7, <1>8, <1>9, <1>10 DEF Next, Handle, Abstract!Next

LEMMA InitMaps == Init => Abstract!Init
  BY DEF Init, Abstract!Init, stageBar, Alone

(* Flag and lock object together are one lock: the server's runs, its      *)
(* seeds up to their wipe, and everyone else enter the bucket one at a     *)
(* time.                                                                   *)
THEOREM GateImplementsRunLock == Spec => OneMutator
  BY GateHolds, LockInit, LockStep, StepMaps, InitMaps, PTL DEF Spec, OneMutator, Abstract!Spec
=============================================================================
