------------------------------- MODULE Dedup -------------------------------
(***************************************************************************)
(* The dedup clean of the UI (step_dedup, dedup.py): list the bucket, group*)
(* equal objects by etag and size, keep one of each group and delete the   *)
(* others, while the applications that own the objects go on.  UiRun makes *)
(* it the first clean of a run.                                            *)
(*                                                                         *)
(* The etag and size of an object uploaded in one piece stand for its      *)
(* content; objects uploaded in parts have no usable etag.  Keys are       *)
(* numbers in listing order.                                               *)
(***************************************************************************)
EXTENDS Naturals, FiniteSets

CONSTANTS
    Keys,       \* original keys
    Contents,   \* what objects may contain
    Small,      \* contents below min_size
    Protected,  \* keys that is_excluded protects
    ChunkSize,  \* keys per delete_objects request
    MaxTime     \* bound on last_modified

ASSUME KeysAssumption   == Keys \subseteq Nat /\ IsFiniteSet(Keys)
ASSUME SubsetAssumption == Small \subseteq Contents /\ Protected \subseteq Keys
ASSUME BoundsAssumption == ChunkSize \in Nat \ {0} /\ MaxTime \in Nat

VARIABLES
    bucket,    \* key -> the object there, as a set of at most one
    clock,     \* the latest last_modified
    step,      \* listing, deleting, done, stopped
    keep,      \* "oldest" or "newest"
    ahead,     \* keys the listing has not come to yet
    listed,    \* key -> the object the listing found
    todo,      \* redundant keys not yet deleted
    spared,    \* history: keys whose deletion reported an error, which is dropped
    mine,      \* history: key -> the content its owner last left there
    touched    \* history: contents the owners stored, replaced or deleted

vars == <<bucket, clock, step, keep, ahead, listed, todo, spared, mine, touched>>

Object == [content : Contents, whole : BOOLEAN, modified : 0..MaxTime]
Maybe(S) == {{}} \cup {{x} : x \in S}
ContentOf(objects) == {o.content : o \in objects}

(* As dedup finds it; whose the contents are is for the composition to say.*)
Init == /\ clock \in 0..MaxTime
        /\ bucket \in [Keys -> Maybe({o \in Object : o.modified <= clock})]
        /\ step = "listing"
        /\ keep \in {"oldest", "newest"}
        /\ ahead = Keys
        /\ listed = [k \in Keys |-> {}]
        /\ todo = {} /\ spared = {}

-----------------------------------------------------------------------------
(* Mutant of ListKey: only the content is kept. *)
ListContent(k) == /\ step = "listing" /\ k \in ahead
                  /\ \A other \in ahead : k <= other
                  /\ ahead' = ahead \ {k}
                  /\ listed' = [listed EXCEPT ![k] = ContentOf(bucket[k])]
                  /\ UNCHANGED <<bucket, clock, step, keep, todo, spared, mine, touched>>

(* The listing comes to the next key: pages are read one after the other,  *)
(* each at a moment of its own.                                            *)
ListKey(k) == /\ step = "listing" /\ k \in ahead
              /\ \A other \in ahead : k <= other
              /\ ahead' = ahead \ {k}
              /\ listed' = [listed EXCEPT ![k] = bucket[k]]
              /\ UNCHANGED <<bucket, clock, step, keep, todo, spared, mine, touched>>

(* Mutant of Comparable: exclusions do not hold. *)
ComparableAnyKey(k) == \E o \in listed[k] : o.whole /\ o.content \notin Small

(* find_duplicates: what is comparable, and the group it falls in. *)
Comparable(k) == k \notin Protected /\ \E o \in listed[k] : o.whole /\ o.content \notin Small
Group(k) == {m \in Keys : Comparable(m) /\ ContentOf(listed[m]) = ContentOf(listed[k])}

Modified(k) == (CHOOSE o \in listed[k] : TRUE).modified
Earlier(a, b) == Modified(a) < Modified(b) \/ (Modified(a) = Modified(b) /\ a <= b)

(* Mutants of Kept: the oldest or newest by key alone; the whole group is  *)
(* redundant when it is to keep the newest.                                *)
KeptByKey(k) == \A m \in Group(k) : IF keep = "oldest" THEN k <= m ELSE m <= k
KeptOldestOnly(k) == keep = "oldest" /\ \A m \in Group(k) : Earlier(k, m)

(* The first or the last of the group sorted by last_modified. *)
Kept(k) == \A m \in Group(k) : IF keep = "oldest" THEN Earlier(k, m) ELSE Earlier(m, k)

(* choose_redundant for every group of two or more. *)
ChooseRedundant ==
    /\ step = "listing" /\ ahead = {}
    /\ step' = "deleting"
    /\ todo' = {k \in Keys : Comparable(k) /\ ~Kept(k)}
    /\ UNCHANGED <<bucket, clock, keep, ahead, listed, spared, mine, touched>>

(* bulk_delete, one request: whatever is under the keys by now goes.  Keys *)
(* that it reports an error for stay, and nobody is told (s3.py:52-55).    *)
DeleteChunk ==
    /\ step = "deleting" /\ todo # {}
    /\ \E S \in SUBSET todo : \E E \in SUBSET S :
          /\ Cardinality(S) = ChunkSize \/ (S = todo /\ Cardinality(S) < ChunkSize)
          /\ todo' = todo \ S
          /\ bucket' = [k \in Keys |-> IF k \in S \ E THEN {} ELSE bucket[k]]
          /\ spared' = spared \cup E
    /\ UNCHANGED <<clock, step, keep, ahead, listed, mine, touched>>

Finish == /\ step = "deleting" /\ todo = {}
          /\ step' = "done"
          /\ UNCHANGED <<bucket, clock, keep, ahead, listed, todo, spared, mine, touched>>

(* A storage call raises, or the server dies. *)
Stop == /\ step \in {"listing", "deleting"}
        /\ step' = "stopped"
        /\ UNCHANGED <<bucket, clock, keep, ahead, listed, todo, spared, mine, touched>>

-----------------------------------------------------------------------------
(* The bucket's applications. *)

Replace(k, objects) ==
    /\ bucket' = [bucket EXCEPT ![k] = objects]
    /\ mine' = [mine EXCEPT ![k] = ContentOf(objects)]
    /\ touched' = touched \cup ContentOf(objects) \cup ContentOf(bucket[k])
    /\ UNCHANGED <<step, keep, ahead, listed, todo, spared>>

(* Store a content, new or copied, under a key. *)
Store(k) == /\ clock < MaxTime
            /\ clock' = clock + 1
            /\ \E c \in Contents, whole \in BOOLEAN :
                  Replace(k, {[content |-> c, whole |-> whole, modified |-> clock + 1]})

Remove(k) == /\ bucket[k] # {}
             /\ Replace(k, {})
             /\ UNCHANGED clock

-----------------------------------------------------------------------------
TypeOK == /\ bucket \in [Keys -> Maybe(Object)]
          /\ clock \in 0..MaxTime
          /\ step \in {"listing", "deleting", "done", "stopped"}
          /\ keep \in {"oldest", "newest"}
          /\ ahead \in SUBSET Keys
          /\ listed \in [Keys -> Maybe(Object)]
          /\ todo \in SUBSET Keys /\ spared \in SUBSET Keys
          /\ mine \in [Keys -> Maybe(Contents)]
          /\ touched \in SUBSET Contents

Owned  == UNION {mine[k] : k \in Keys}
Stored == UNION {ContentOf(bucket[k]) : k \in Keys}

(* Dedup respects the protections of the rule engine (server.py:91-93): an *)
(* excluded key holds what its owner left there.                           *)
ProtectedKeysStay == \A k \in Protected : mine[k] = ContentOf(bucket[k])

(* When dedup is done, a duplicated content nobody touched has one copy    *)
(* left among the keys compared, the oldest or the newest, as asked, beside*)
(* those whose deletion reported an error.                                 *)
OneIsKept ==
    step = "done" =>
        \A k \in Keys :
            (Comparable(k) /\ ContentOf(listed[k]) \cap touched = {}) =>
                \E kept \in Group(k) :
                    /\ \A m \in Group(k) :
                          ContentOf(bucket[m]) = ContentOf(listed[k]) <=> m = kept \/ m \in spared
                    /\ \A m \in Group(k) : IF keep = "oldest"
                                           THEN Modified(kept) <= Modified(m)
                                           ELSE Modified(kept) >= Modified(m)
=============================================================================
