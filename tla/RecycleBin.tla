----------------------------- MODULE RecycleBin -----------------------------
(***************************************************************************)
(* What the quarantine promises (README.md:17-29, quarantine.py:3-6), with *)
(* no jobs, manifests or storage calls: every object is in the bucket or in*)
(* some batch, moves between them by being copied before it is dropped, and*)
(* leaves its last place only when its owner deletes it or by a purge of a *)
(* batch that is due or that somebody insists on.                          *)
(***************************************************************************)
EXTENDS Integers

CONSTANTS
    Keys,       \* objects
    Batches,    \* natural numbers: a batch is named by the second it was made in
    Versions,   \* what an owner may store
    Retention   \* seconds before a batch may be purged

VARIABLES
    version,    \* key -> what its owner last left, as a set of at most one
    places,     \* key -> where that version is: the bucket, batches
    disputed,   \* keys the promise no longer covers
    forced,     \* batches somebody insists on purging
    time

vars == <<version, places, disputed, forced, time>>

Bucket == -1                          \* a place that is no batch

Init == /\ version \in [Keys -> SUBSET Versions]
        /\ \A k \in Keys : \A v, w \in version[k] : v = w
        /\ places = [k \in Keys |-> IF version[k] = {} THEN {} ELSE {Bucket}]
        /\ disputed = {} /\ forced = {} /\ time = 0

Copy(k, b) == /\ places[k] # {}
              /\ \E to \in {Bucket, b} : places' = [places EXCEPT ![k] = @ \cup {to}]
              /\ UNCHANGED <<version, disputed, forced, time>>

Drop(k, b) == /\ \E from \in {Bucket, b} :
                    /\ places[k] \ {from} # {}
                    /\ places' = [places EXCEPT ![k] = @ \ {from}]
              /\ UNCHANGED <<version, disputed, forced, time>>

(* What is only in the batch is gone for good. *)
Purge(b, K) ==
    /\ b \in forced \/ b + Retention <= time
    /\ places' = [k \in Keys |-> IF k \in K THEN places[k] \ {b} ELSE places[k]]
    /\ version' = [k \in Keys |-> IF k \in K /\ places'[k] = {} THEN {} ELSE version[k]]
    /\ UNCHANGED <<disputed, forced, time>>

(* An owner stores or deletes; one who does so while a copy is in a batch  *)
(* may lose what he stores, and the promise ends.                          *)
Owner(k) ==
    /\ \/ \E S \in {{v} : v \in Versions} \cup {{}} :
             /\ version' = [version EXCEPT ![k] = S]
             /\ places' = [places EXCEPT ![k] = IF S = {} THEN {} ELSE {Bucket}]
             /\ UNCHANGED disputed
       \/ /\ places[k] \ {Bucket} # {}
          /\ version' = [version EXCEPT ![k] = {}]
          /\ places' = [places EXCEPT ![k] = {}]
          /\ disputed' = disputed \cup {k}
    /\ UNCHANGED <<forced, time>>

Insist == \E F \in SUBSET Batches : forced' = F /\ UNCHANGED <<version, places, disputed, time>>

Pass == time' = time + 1 /\ UNCHANGED <<version, places, disputed, forced>>

Next == \/ \E k \in Keys : Owner(k) \/ \E b \in Batches : Copy(k, b) \/ Drop(k, b)
        \/ \E b \in Batches, K \in SUBSET Keys : Purge(b, K)
        \/ Insist \/ Pass

Spec == Init /\ [][Next]_vars
=============================================================================
