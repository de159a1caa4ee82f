------------------------------ MODULE RunLock ------------------------------
(***************************************************************************)
(* What the bucket lock promises (lock.py:1-23): every mutating run first  *)
(* waits outside, at most one run at a time is inside, and a run leaves    *)
(* once.  BucketLock is shown to implement this module as long as         *)
(* take-overs meet no other create or delete; a run that outlives its TTL  *)
(* counts as having left.                                                  *)
(***************************************************************************)
CONSTANT Runs

VARIABLE stage  \* of each run: waiting, inside, out

Init == stage = [r \in Runs |-> "waiting"]

(* A run goes in, if nobody is inside. *)
Enter(r) == /\ stage[r] = "waiting"
            /\ \A q \in Runs : stage[q] # "inside"
            /\ stage' = [stage EXCEPT ![r] = "inside"]

(* A run is refused or dies outside, or it finishes or dies inside. *)
Leave(r) == /\ stage[r] # "out"
            /\ stage' = [stage EXCEPT ![r] = "out"]

Next == \E r \in Runs : Enter(r) \/ Leave(r)

Spec == Init /\ [][Next]_stage
=============================================================================
