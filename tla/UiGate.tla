------------------------------- MODULE UiGate -------------------------------
(***************************************************************************)
(* The single-flight gate of the test UI (ui/server.py): the in-process    *)
(* flag _BUSY, the held lock _DIST, the lock object in the bucket and the  *)
(* PROGRESS record that pages poll.  Requests are handled by threads of    *)
(* their own; a run goes on in a background thread after its request was   *)
(* answered.  Others are mutating runs of other processes (a CLI call, a   *)
(* second server) that compete for the lock object.                        *)
(*                                                                         *)
(* The lock object behaves as RunLock promises: acquire and release are    *)
(* one step each, and a lock expires only when nobody works under it.      *)
(***************************************************************************)
EXTENDS Naturals, FiniteSets

CONSTANTS
    Runs,      \* POST /api/action/run
    Seeds,     \* POST /api/action/reset and reset_large
    Others,    \* mutating runs outside this server
    Faults,    \* what may raise besides a clean: "lock" its storage calls, "thread" its start
    MaxKills   \* bound on kills of the server

ASSUME DisjointAssumption == Runs \cap Seeds = {} /\ (Runs \cup Seeds) \cap Others = {}
ASSUME FaultsAssumption   == Faults \subseteq {"lock", "thread"}
ASSUME KillsAssumption    == MaxKills \in Nat

Requests == Runs \cup Seeds
Everyone == Requests \cup Others

VARIABLES
    pc,        \* where everyone is
    busy,      \* _BUSY["active"]: the request that set it, {} for None
    dist,      \* _DIST["lock"]: the request whose lock it is, {} for None
    lock,      \* the lock object in the bucket: {} or {its owner}
    progress,  \* PROGRESS, and the run it is about ({} before the first)
    trouble,   \* runs of which a clean raised or reported a problem
    kills      \* kills of the server so far

vars == <<pc, busy, dist, lock, progress, trouble, kills>>

(* start; acquire: the flag is set; unclaim: the lock is taken; claimed:   *)
(* the lock is held; reset, spawn: a run before its thread; body: the      *)
(* cleans or the seed run; wiped: a seed has emptied the bucket; release,  *)
(* unflag: in end(); done; rejected: answered "Busy"; failed: an exception *)
(* left the handler or the thread; killed, dropped: the server died while  *)
(* the request was, or was not, between acquire and release                *)
Steps == {"start", "acquire", "unclaim", "claimed", "reset", "spawn", "body", "wiped",
          "release", "unflag", "done", "rejected", "failed", "killed", "dropped"}

Inside(x) == pc[x] \in {"claimed", "reset", "spawn", "body", "wiped", "release"}
Ended(x)  == pc[x] \in {"done", "rejected", "failed", "killed", "dropped"}

Fresh == [run |-> {}, running |-> FALSE, finished |-> FALSE, error |-> FALSE]

Init == /\ pc = [x \in Everyone |-> "start"]
        /\ busy = {} /\ dist = {} /\ lock = {}
        /\ progress = Fresh
        /\ trouble = {}
        /\ kills = 0

Goto(x, from, to) == pc[x] = from /\ pc' = [pc EXCEPT ![x] = to]

-----------------------------------------------------------------------------
(* try_begin *)

(* Under _BUSY_LOCK the flag is tested and set. *)
Claim(r) == /\ Goto(r, "start", "acquire")
            /\ busy = {} /\ busy' = {r}
            /\ UNCHANGED <<dist, lock, progress, trouble, kills>>

(* Mutant of RejectLocal: PROGRESS is reset before the gate is asked. *)
RejectAfterReset(r) ==
    /\ Goto(r, "start", "rejected")
    /\ busy # {}
    /\ progress' = [Fresh EXCEPT !.run = {r}, !.running = TRUE]
    /\ UNCHANGED <<busy, dist, lock, trouble, kills>>

RejectLocal(r) == /\ Goto(r, "start", "rejected")
                  /\ busy # {}
                  /\ UNCHANGED <<busy, dist, lock, progress, trouble, kills>>

(* Mutant of Acquire: the answer of dl.acquire() is ignored. *)
AcquireUnchecked(r) == /\ Goto(r, "acquire", "claimed")
                       /\ lock' = {r}
                       /\ UNCHANGED <<busy, dist, progress, trouble, kills>>

Acquire(r) == /\ Goto(r, "acquire", "claimed")
              /\ lock = {} /\ lock' = {r}
              /\ UNCHANGED <<busy, dist, progress, trouble, kills>>

(* Mutant of LockedOut: end() runs although the lock was not acquired. *)
LockedOutEnds(r) == /\ Goto(r, "acquire", "release")
                    /\ lock # {}
                    /\ UNCHANGED <<busy, dist, lock, progress, trouble, kills>>

LockedOut(r) == /\ Goto(r, "acquire", "unclaim")
                /\ lock # {}
                /\ UNCHANGED <<busy, dist, lock, progress, trouble, kills>>

(* acquire, or the read of the holder's name, raises: nothing resets the   *)
(* flag, and the lock object may have been created all the same.           *)
TryBeginRaises(r) == /\ "lock" \in Faults
                     /\ pc[r] \in {"acquire", "unclaim"}
                     /\ pc' = [pc EXCEPT ![r] = "failed"]
                     /\ \/ UNCHANGED lock
                        \/ pc[r] = "acquire" /\ lock = {} /\ lock' = {r}
                     /\ UNCHANGED <<busy, dist, progress, trouble, kills>>

Unclaim(r) == /\ Goto(r, "unclaim", "rejected")
              /\ busy' = {}
              /\ UNCHANGED <<dist, lock, progress, trouble, kills>>

(* Mutant of StoreLock: seeds report progress, too. *)
StoreLockResets(r) == /\ Goto(r, "claimed", "reset")
                      /\ dist' = {r}
                      /\ UNCHANGED <<busy, lock, progress, trouble, kills>>

StoreLock(r) == /\ Goto(r, "claimed", IF r \in Runs THEN "reset" ELSE "body")
                /\ dist' = {r}
                /\ UNCHANGED <<busy, lock, progress, trouble, kills>>

-----------------------------------------------------------------------------
(* action_run, _run_worker and _guarded_seed *)

ResetProgress(r) == /\ Goto(r, "reset", "spawn")
                    /\ progress' = [Fresh EXCEPT !.run = {r}, !.running = TRUE]
                    /\ UNCHANGED <<busy, dist, lock, trouble, kills>>

Spawn(r) == /\ Goto(r, "spawn", "body")
            /\ UNCHANGED <<busy, dist, lock, progress, trouble, kills>>

(* Thread.start raises after the gate was claimed: nobody calls end(). *)
SpawnRaises(r) == /\ "thread" \in Faults
                  /\ Goto(r, "spawn", "failed")
                  /\ UNCHANGED <<busy, dist, lock, progress, trouble, kills>>

(* A clean raises or reports a problem; the next ones run all the same. *)
CleanFails(r) == /\ r \in Runs /\ pc[r] = "body"
                 /\ r \notin trouble /\ trouble' = trouble \cup {r}
                 /\ UNCHANGED <<pc, busy, dist, lock, progress, kills>>

(* Mutant of Finish: the worker ends without a word. *)
FinishSilently(r) == /\ r \in Runs /\ Goto(r, "body", "release")
                     /\ UNCHANGED <<busy, dist, lock, progress, trouble, kills>>

(* The last clean is over: PROGRESS says finished before end() is called. *)
Finish(r) == /\ r \in Runs /\ Goto(r, "body", "release")
             /\ progress' = [progress EXCEPT !.running = FALSE, !.finished = TRUE,
                                             !.error = r \in trouble]
             /\ UNCHANGED <<busy, dist, lock, trouble, kills>>

(* The seed first deletes every object it lists: the lock object, which is *)
(* one of them, goes too.                                                  *)
SeedWipes(r) == /\ r \in Seeds /\ Goto(r, "body", "wiped")
                /\ lock' = {}
                /\ UNCHANGED <<busy, dist, progress, trouble, kills>>

(* The seed returns or raises: finally calls end() either way. *)
SeedEnds(r) == /\ r \in Seeds
               /\ Goto(r, "body", "release") \/ Goto(r, "wiped", "release")
               /\ UNCHANGED <<busy, dist, lock, progress, trouble, kills>>

-----------------------------------------------------------------------------
(* end *)

(* Release the lock in _DIST, if there is one and the bucket still has it, *)
(* and forget it.                                                          *)
Release(r) == /\ Goto(r, "release", "unflag")
              /\ lock' = lock \ dist
              /\ dist' = {}
              /\ UNCHANGED <<busy, progress, trouble, kills>>

(* release raises, before or after its delete: the finally clause forgets  *)
(* the lock, and the exception skips the reset of the flag.                *)
ReleaseRaises(r) == /\ "lock" \in Faults
                    /\ Goto(r, "release", "failed")
                    /\ lock' \in {lock, lock \ dist}
                    /\ dist' = {}
                    /\ UNCHANGED <<busy, progress, trouble, kills>>

(* Mutant of Unflag: the flag is left set. *)
UnflagForgotten(r) == /\ Goto(r, "unflag", "done")
                      /\ UNCHANGED <<busy, dist, lock, progress, trouble, kills>>

Unflag(r) == /\ Goto(r, "unflag", "done")
             /\ busy' = {}
             /\ UNCHANGED <<dist, lock, progress, trouble, kills>>

-----------------------------------------------------------------------------
(* The world around the server. *)

OtherEnters(o) == /\ Goto(o, "start", "body")
                  /\ lock = {} /\ lock' = {o}
                  /\ UNCHANGED <<busy, dist, progress, trouble, kills>>

(* It releases the lock, or dies and leaves it. *)
OtherLeaves(o) == /\ \/ Goto(o, "body", "done") /\ lock' = lock \ {o}
                     \/ Goto(o, "body", "killed") /\ UNCHANGED lock
                  /\ UNCHANGED <<busy, dist, progress, trouble, kills>>

(* The TTL of an abandoned lock passes: the next acquire takes it over,    *)
(* which is as good as finding no lock.                                    *)
Expire == /\ \E x \in lock : ~Inside(x)
          /\ lock' = {}
          /\ UNCHANGED <<pc, busy, dist, progress, trouble, kills>>

(* The server dies and is started again: its memory is fresh, and requests *)
(* that have not come yet meet the new one.                                *)
Kill == /\ kills < MaxKills
        /\ kills' = kills + 1
        /\ pc' = [x \in Everyone |->
                     IF x \in Others \/ pc[x] = "start" \/ Ended(x) THEN pc[x]
                     ELSE IF Inside(x) \/ pc[x] = "unflag" THEN "killed" ELSE "dropped"]
        /\ busy' = {} /\ dist' = {} /\ progress' = Fresh
        /\ UNCHANGED <<lock, trouble>>

-----------------------------------------------------------------------------
Handle(r) == \/ Claim(r) \/ RejectLocal(r) \/ Acquire(r) \/ LockedOut(r)
             \/ TryBeginRaises(r) \/ Unclaim(r) \/ StoreLock(r)
             \/ ResetProgress(r) \/ Spawn(r) \/ SpawnRaises(r)
             \/ CleanFails(r) \/ Finish(r) \/ SeedWipes(r) \/ SeedEnds(r)
             \/ Release(r) \/ ReleaseRaises(r) \/ Unflag(r)

Next == \/ \E r \in Requests : Handle(r)
        \/ \E o \in Others : OtherEnters(o) \/ OtherLeaves(o)
        \/ Expire \/ Kill

Spec == Init /\ [][Next]_vars

(* Threads of a living server keep running.  Nobody has to come back for   *)
(* the lock, and other processes may work as long as they like.            *)
LiveSpec == Spec /\ \A r \in Requests : WF_vars(Handle(r))

-----------------------------------------------------------------------------
TypeOK == /\ pc \in [Everyone -> Steps]
          /\ busy \in SUBSET Requests
          /\ dist \in SUBSET Requests
          /\ lock \in SUBSET Everyone
          /\ progress \in [run : SUBSET Runs, running : BOOLEAN,
                           finished : BOOLEAN, error : BOOLEAN]
          /\ trouble \in SUBSET Runs
          /\ kills \in 0..MaxKills

(* "So a second server, a CLI run, or a cron job cannot race us either"    *)
(* (server.py:353-364): the flag and the lock object together are one lock *)
(* for this server's requests and everyone else, and implement RunLock.    *)
(* From the acquire to the release a run, with its background thread, is   *)
(* alone in the bucket, also across kills and restarts of the server.  A   *)
(* seed is, until it deletes the lock object it works under.               *)
Alone(x) == \/ pc[x] \in {"claimed", "reset", "spawn", "body"}
            \/ pc[x] = "release" /\ x \notin Seeds
stageBar == [x \in Everyone |->
                IF Alone(x) THEN "inside"
                ELSE IF pc[x] \in {"start", "acquire", "unclaim", "rejected", "dropped"}
                THEN "waiting" ELSE "out"]
Abstract == INSTANCE RunLock WITH Runs <- Everyone, stage <- stageBar
OneMutator == Abstract!Spec

(* "Only ONE may be in flight at a time" (server.py:355-358).  False while *)
(* a seed goes on after it has deleted the lock object.                    *)
OneInFlight == \A x, y \in Everyone : Inside(x) /\ Inside(y) => x = y

(* The page that started a run polls PROGRESS (server.py:411-413): from    *)
(* the start of the thread to the end of end() it is about that run, and   *)
(* not about a request that was turned away meanwhile.                     *)
ProgressIsMine ==
    \A r \in Runs : pc[r] \in {"spawn", "body", "release", "unflag"}
                        => progress.run = {r} /\ progress.running = (pc[r] \in {"spawn", "body"})

(* end() releases the lock of the request that calls it, and no other's    *)
(* (server.py:400-406): the flag keeps _DIST the caller's own.             *)
EndReleasesItsOwn == [][\A r \in Requests : Release(r) => dist = {r}]_vars

(* A request does not stay in the gate (server.py:550-551, 590-596): once  *)
(* it set the flag, the flag is reset or the server dies.  Only when a call*)
(* of the lock or the thread's start raises (server.py:390, 404, 584) does *)
(* the flag outlive its request.                                           *)
GateOpens == \A r \in Requests : r \in busy ~> (r \notin busy \/ pc[r] = "failed")

(* The page's poll comes to an end: a run whose thread started is reported *)
(* as finished, with an error if one of its cleans had one, unless the     *)
(* server dies.                                                            *)
RunIsReported ==
    \A r \in Runs : pc[r] = "body" ~> (pc[r] = "killed" \/ (/\ progress.run = {r} /\ progress.finished
                                                 /\ progress.error = (r \in trouble)))
=============================================================================
