------------------------------ MODULE MCUiRun ------------------------------
(* An instance of UiRun for TLC, with fewer buckets to start from: one     *)
(* object uploaded in parts and one small one are enough to see that dedup *)
(* leaves them, and an old batch of one key that it is restored; one of    *)
(* two keys comes with an empty bucket.                                    *)
EXTENDS UiRun

CONSTANT Large

Twin(m) == [content |-> Large, whole |-> TRUE, modified |-> m]

MCInit == /\ RunInit
          /\ bucket[1] \in Maybe({Twin(0), Twin(1), [Twin(0) EXCEPT !.whole = FALSE]})
          /\ \A o \in bucket[2] : o.whole /\ (o.content # Large => o.modified = 0)
          /\ bucket[3] \in Maybe({Twin(1)})
          /\ bucket[4] \in Maybe({Twin(0)})
          /\ HeldIn("old") \subseteq {1} \/ \A k \in Keys : bucket[k] = {}

MCSpec == MCInit /\ [][RunNext]_runVars
=============================================================================
