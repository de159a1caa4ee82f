---------------------------- MODULE UiRunProofs ----------------------------
(***************************************************************************)
(* Theorems of UiRun: for any keys, contents, rules, protections, sizes of *)
(* an old batch and of delete requests, whatever cleans are ticked, where- *)
(* ever they fail, and whatever the owners do meanwhile.                   *)
(***************************************************************************)
EXTENDS UiRun, FiniteSetTheorems, TLAPS

(* The contents under a key and in quarantine. *)
Here(k)   == ContentOf(bucket[k])
Vaults(k) == UNION {vault[b][k] : b \in Batches}

-----------------------------------------------------------------------------
(* Sets of at most one, the order of the cleans, and types. *)

LEMMA OneAtMost ==
  ASSUME NEW S, NEW M
  PROVE  M \in Maybe(S) <=> M = {} \/ \E x \in S : M = {x}
  BY DEF Maybe

LEMMA ContentType ==
  ASSUME NEW M \in Maybe(Object)
  PROVE  /\ ContentOf(M) \in Maybe(Contents)
         /\ M = {} <=> ContentOf(M) = {}
  <1>1. CASE M = {}
    BY <1>1, OneAtMost DEF ContentOf
  <1>2. CASE \E o \in Object : M = {o}
    <2>1. PICK o \in Object : M = {o}
      BY <1>2
    <2>2. ContentOf(M) = {o.content} /\ o.content \in Contents
      BY <2>1 DEF ContentOf, Object
    <2> QED
      BY <2>1, <2>2, OneAtMost
  <1> QED
    BY <1>1, <1>2, OneAtMost

LEMMA Order ==
  /\ DOMAIN RunOrder = {"none", "dedup", "multipart", "quarantine", "purge", "restore"}
  /\ RunOrder["none"] = 0 /\ RunOrder["dedup"] = 1 /\ RunOrder["multipart"] = 2
  /\ RunOrder["quarantine"] = 3 /\ RunOrder["purge"] = 4 /\ RunOrder["restore"] = 5
  BY DEF RunOrder

LEMMA TypeInit == RunInit => RunTypeOK
  <1> SUFFICES ASSUME RunInit PROVE RunTypeOK
    OBVIOUS
  <1>1. /\ bucket \in [Keys -> Maybe(Object)] /\ clock \in 0..MaxTime
        /\ step = "listing" /\ keep \in {"oldest", "newest"} /\ ahead = Keys
        /\ todo = {} /\ spared = {} /\ dropped = {}
    <2>1. bucket \in [Keys -> Maybe({o \in Object : o.modified <= clock})]
      BY DEF RunInit, Init
    <2>2. \A k \in Keys : bucket[k] \in Maybe(Object)
      BY <2>1 DEF Maybe
    <2> QED
      BY <2>1, <2>2 DEF RunInit, Init
  <1>2. listed \in [Keys -> Maybe(Object)]
    BY OneAtMost DEF RunInit, Init
  <1>3. PICK H \in [Matched -> Maybe(Contents)] :
           vault = [b \in Batches |-> [k \in Keys |->
                      IF b = "old" /\ k \in Matched THEN H[k] ELSE {}]]
    BY DEF RunInit
  <1>4. vault \in [Batches -> [Keys -> Maybe(Contents)]]
    BY <1>3, OneAtMost
  <1>5. \A k \in Keys : ContentOf(bucket[k]) \in Maybe(Contents)
    BY <1>1, ContentType
  <1>6. mine \in [Keys -> Maybe(Contents)]
    BY <1>4, <1>5 DEF RunInit, Batches
  <1>7. touched \in SUBSET Contents
    BY <1>5, OneAtMost DEF RunInit, HeldIn
  <1>8. manifest \in [Batches -> Maybe(SUBSET Keys)]
    BY OneAtMost DEF RunInit, HeldIn
  <1>9. clean \in DOMAIN RunOrder /\ busy \in BOOLEAN /\ failed \in BOOLEAN
    BY Order DEF RunInit
  <1> QED
    BY <1>1, <1>2, <1>4, <1>6, <1>7, <1>8, <1>9 DEF RunInit, RunTypeOK, TypeOK

(* The bucket beside the cleans: what dedup and the owners do. *)
LEMMA TypeDedup ==
  ASSUME RunTypeOK, DedupStep
  PROVE  RunTypeOK'
  <1> USE DEF RunTypeOK
  <1>1. busy' \in BOOLEAN /\ failed' \in BOOLEAN
    BY DEF DedupStep, GoOn, Return, Fail
  <1>2. UNCHANGED <<clean, vault, manifest, cands, rest, purged, dropped>>
    BY DEF DedupStep
  <1>3. ASSUME NEW k \in Keys, ListKey(k)
        PROVE  TypeOK'
    BY <1>3 DEF ListKey, TypeOK
  <1>4. ASSUME ChooseRedundant
        PROVE  TypeOK'
    BY <1>4 DEF ChooseRedundant, TypeOK
  <1>5. ASSUME DeleteChunk
        PROVE  TypeOK'
    <2>1. PICK S \in SUBSET todo, E \in SUBSET todo :
             /\ todo' = todo \ S /\ spared' = spared \cup E
             /\ bucket' = [k \in Keys |-> IF k \in S \ E THEN {} ELSE bucket[k]]
      BY <1>5 DEF DeleteChunk
    <2>2. {} \in Maybe(Object)
      BY OneAtMost
    <2> QED
      BY <1>5, <2>1, <2>2 DEF DeleteChunk, TypeOK
  <1>6. ASSUME Finish \/ Stop
        PROVE  TypeOK'
    BY <1>6 DEF Finish, Stop, TypeOK
  <1>7. TypeOK'
    BY <1>3, <1>4, <1>5, <1>6 DEF DedupStep
  <1>8. outbid' \in SUBSET Keys
    <2>1. CASE ChooseRedundant /\ outbid' = {k \in todo' \ Matched : \E m \in Group(k) \cap Matched : Kept(m)}
      BY <1>7, <2>1 DEF TypeOK
    <2>2. CASE UNCHANGED outbid
      BY <2>2
    <2> QED
      BY <2>1, <2>2 DEF DedupStep
  <1> QED
    BY <1>1, <1>2, <1>7, <1>8

LEMMA TypeOwner ==
  ASSUME RunTypeOK, NEW k \in Keys, Owner(k)
  PROVE  RunTypeOK'
  <1>1. ASSUME NEW objects \in Maybe(Object), Replace(k, objects), clock' \in 0..MaxTime
        PROVE  TypeOK'
    <2>1. ContentOf(objects) \in Maybe(Contents) /\ ContentOf(bucket[k]) \in Maybe(Contents)
      BY <1>1, ContentType DEF RunTypeOK, TypeOK
    <2>2. ContentOf(objects) \cup ContentOf(bucket[k]) \subseteq Contents
      BY <2>1, OneAtMost
    <2> QED
      BY <1>1, <2>1, <2>2 DEF Replace, RunTypeOK, TypeOK
  <1>2. CASE Store(k)
    <2>1. clock + 1 \in 0..MaxTime /\ clock' = clock + 1
      BY <1>2, BoundsAssumption DEF Store, RunTypeOK, TypeOK
    <2>2. PICK c \in Contents, whole \in BOOLEAN :
             Replace(k, {[content |-> c, whole |-> whole, modified |-> clock + 1]})
      BY <1>2 DEF Store
    <2>3. {[content |-> c, whole |-> whole, modified |-> clock + 1]} \in Maybe(Object)
      BY <2>1, OneAtMost DEF Object
    <2> QED
      BY <1>1, <2>1, <2>2, <2>3 DEF Owner, run, RunTypeOK
  <1>3. CASE Remove(k)
    <2>1. {} \in Maybe(Object)
      BY OneAtMost
    <2> QED
      BY <1>1, <1>3, <2>1 DEF Remove, Owner, run, RunTypeOK, TypeOK
  <1> QED
    BY <1>2, <1>3 DEF Owner

LEMMA TypeBegin ==
  ASSUME RunTypeOK, NEW name \in DOMAIN RunOrder, Begin(name)
  PROVE  TypeOK' /\ clean' \in DOMAIN RunOrder
  <1>1. [k \in Keys |-> {}] \in [Keys -> Maybe(Object)]
    BY OneAtMost
  <1> QED
    BY <1>1 DEF Begin, RunTypeOK, TypeOK

LEMMA TypeClean ==
  ASSUME RunTypeOK, RunNext, ~DedupStep, \A k \in Keys : ~Owner(k)
  PROVE  RunTypeOK'
  <1> USE DEF RunTypeOK
  <1>1. CASE BeginDedup
    BY <1>1, Order, TypeBegin DEF BeginDedup
  <1>2. CASE MultipartClean
    BY <1>2, Order, TypeBegin DEF MultipartClean, Return, Fail
  <1>3. CASE BeginQuarantine
    BY <1>3, Order, TypeBegin DEF BeginQuarantine, Return, Fail
  <1>4. CASE BeginPurge
    BY <1>4, Order, TypeBegin DEF BeginPurge, BeginBatches, Listed
  <1>5. CASE BeginRestore
    BY <1>5, Order, TypeBegin DEF BeginRestore, BeginBatches, Listed
  <1>6. CASE WriteManifest
    <2>1. {HeldIn("new")} \in Maybe(SUBSET Keys)
      BY OneAtMost DEF HeldIn
    <2> QED
      BY <1>6, <2>1 DEF WriteManifest, Return, vars, TypeOK
  <1>7. CASE NoMoreBatches \/ Raise
    BY <1>7 DEF NoMoreBatches, Raise, Return, Fail, vars, TypeOK
  <1>8. ASSUME NEW k \in Keys, MoveOut(k)
        PROVE  RunTypeOK'
    <2>1. ContentOf(bucket[k]) \in Maybe(Contents) /\ {} \in Maybe(Object)
      BY ContentType, OneAtMost DEF TypeOK
    <2>2. vault' \in [Batches -> [Keys -> Maybe(Contents)]]
      BY <1>8, <2>1 DEF MoveOut
    <2>3. bucket' \in [Keys -> Maybe(Object)] /\ cands' \in SUBSET Matched
      BY <1>8, <2>1 DEF MoveOut, TypeOK
    <2> QED
      BY <1>8, <2>2, <2>3 DEF MoveOut, TypeOK, GoOn, Fail
  <1>9. ASSUME NEW b \in Batches, PurgeBatch(b)
        PROVE  RunTypeOK'
    <2>1. PICK gone \in SUBSET Keys :
             /\ vault' = [vault EXCEPT ![b] = [k \in Keys |-> IF k \in gone THEN {} ELSE @[k]]]
             /\ purged' = purged \cup LastOf(b, gone)
      <3>1. \A keys \in manifest[b] : keys \in SUBSET Keys
        BY OneAtMost
      <3> QED
        BY <1>9, <3>1 DEF PurgeBatch
    <2>2. {} \in Maybe(Contents) /\ {} \in Maybe(SUBSET Keys)
      BY OneAtMost
    <2>3. vault' \in [Batches -> [Keys -> Maybe(Contents)]]
      BY <2>1, <2>2
    <2>4. purged' \in SUBSET Contents
      <3>1. \A k \in gone : vault[b][k] \in SUBSET Contents
        BY OneAtMost
      <3> QED
        BY <2>1, <3>1 DEF LastOf
    <2>5. /\ manifest' \in [Batches -> Maybe(SUBSET Keys)] /\ rest' \in SUBSET Batches
          /\ dropped' \in SUBSET Batches
      BY <1>9, <2>2 DEF PurgeBatch, Answered
    <2>6. busy' \in BOOLEAN /\ failed' \in BOOLEAN
      BY <1>9 DEF PurgeBatch, Answered, GoOn, Fail
    <2>7. UNCHANGED <<vars, clean, cands, outbid>>
      BY <1>9 DEF PurgeBatch
    <2> QED
      BY <2>3, <2>4, <2>5, <2>6, <2>7 DEF vars, TypeOK
  <1>10. ASSUME NEW b \in Batches, NEW k \in Keys, RestoreOne(b, k)
         PROVE  RunTypeOK'
    <2> DEFINE back == {[content |-> c, whole |-> TRUE, modified |-> clock] : c \in vault[b][k]}
    <2>1. back \in Maybe(Object)
      <3>1. PICK c \in Contents : vault[b][k] = {c}
        <4>1. vault[b][k] \in Maybe(Contents) /\ vault[b][k] # {}
          BY <1>10 DEF RestoreOne
        <4> QED
          BY <4>1, OneAtMost
      <3>2. back = {[content |-> c, whole |-> TRUE, modified |-> clock]}
        BY <3>1
      <3>3. [content |-> c, whole |-> TRUE, modified |-> clock] \in Object
        BY DEF Object, TypeOK
      <3> QED
        BY <3>2, <3>3, OneAtMost
    <2>2. bucket' = [bucket EXCEPT ![k] = back]
      BY <1>10 DEF RestoreOne
    <2> HIDE DEF back
    <2>3. {} \in Maybe(Contents)
      BY OneAtMost
    <2>4. vault' \in [Batches -> [Keys -> Maybe(Contents)]]
      <3>1. vault' = [vault EXCEPT ![b][k] = {}] \/ UNCHANGED vault
        BY <1>10 DEF RestoreOne
      <3>2. [vault[b] EXCEPT ![k] = {}] \in [Keys -> Maybe(Contents)]
        BY <2>3
      <3> QED
        BY <3>1, <3>2
    <2>5. rest' \in SUBSET Batches
      BY <1>10 DEF RestoreOne
    <2>6. /\ UNCHANGED <<clock, step, keep, ahead, listed, todo, spared, mine, touched>>
          /\ UNCHANGED <<clean, manifest, cands, purged, outbid, dropped>>
          /\ busy' \in BOOLEAN /\ failed' \in BOOLEAN
      BY <1>10 DEF RestoreOne, GoOn, Fail
    <2>7. bucket' \in [Keys -> Maybe(Object)]
      BY <2>1, <2>2 DEF TypeOK
    <2>8. TypeOK'
      BY <2>6, <2>7 DEF TypeOK
    <2> QED
      BY <2>4, <2>5, <2>6, <2>8
  <1>11. ASSUME NEW b \in Batches, DropManifest(b)
         PROVE  RunTypeOK'
    <2>1. {} \in Maybe(SUBSET Keys)
      BY OneAtMost
    <2> QED
      BY <1>11, <2>1 DEF DropManifest, vars, TypeOK, GoOn
  <1> QED
    BY <1>1, <1>2, <1>3, <1>4, <1>5, <1>6, <1>7, <1>8, <1>9, <1>10, <1>11 DEF RunNext

LEMMA TypeStep == RunTypeOK /\ [RunNext]_runVars => RunTypeOK'
  <1>1. ASSUME RunTypeOK, UNCHANGED runVars
        PROVE  RunTypeOK'
    BY <1>1 DEF runVars, vars, run, RunTypeOK, TypeOK
  <1> QED
    BY <1>1, TypeDedup, TypeOwner, TypeClean

(* Objects, copies and manifests keep their types, and a key has at most   *)
(* one object, a batch at most one manifest.                               *)
THEOREM TypeCorrect == RunSpec => []RunTypeOK
  BY TypeInit, TypeStep, PTL DEF RunSpec

-----------------------------------------------------------------------------
(* Where quarantine and dedup stand in the run. *)
Stage == /\ RunOrder[clean] < 3 => \A k \in Keys : vault["new"][k] = {}
         /\ \A k \in cands : At("quarantine") /\ vault["new"][k] = {}
         /\ clean = "none" => step = "listing"
         /\ step = "listing" =>
               todo = {} /\ spared = {} /\ outbid = {} /\ (ahead # Keys => At("dedup"))
         /\ todo \cap spared = {}
         /\ step = "done" => todo = {}
         /\ clean # "dedup" => \A k \in Keys : listed[k] = {}

(* Only matched keys are in quarantine, and no protected one is redundant. *)
InBounds == /\ \A b \in Batches, k \in Keys : vault[b][k] # {} => k \in Matched
            /\ todo \cap Protected = {}

(* Before the restore, an untouched content in the bucket has no other in  *)
(* quarantine under its key.                                               *)
Beside == RunOrder[clean] < 5 =>
             \A k \in Keys : \A c \in Here(k) \ touched : Vaults(k) \subseteq {c}

(* What was listed is still there, unless touched.                         *)
ListedIsHere == step = "listing" =>
                   \A k \in Keys \ ahead, c \in Contents \ touched :
                      c \in ContentOf(listed[k]) <=> c \in Here(k)

(* What dedup is about to delete has a twin it keeps, an unmatched one if  *)
(* the key is unmatched and was not outbid.                                *)
Twins == At("dedup") =>
            \A k \in todo : \A c \in Here(k) \ touched :
               /\ \E m \in Keys \ todo : c \in Here(m)
               /\ k \notin Matched \cup outbid =>
                     \E m \in Keys \ (todo \cup Matched) : c \in Here(m)

(* Of a group one is there as it was listed; the others are to go, have    *)
(* stayed for an error, or are gone.                                       *)
Choice == step \in {"deleting", "done"} =>
             \A k \in Keys : Comparable(k) =>
                \A c \in ContentOf(listed[k]) \ touched :
                   IF Kept(k) THEN k \notin todo \cup spared /\ c \in Here(k)
                              ELSE k \in todo \cup spared <=> c \in Here(k)

CleanInv == Stage /\ InBounds /\ Beside /\ ListedIsHere /\ Twins /\ Choice

(* A content is safe under its own key, where there is nothing else, or    *)
(* under another that no later clean takes it from, or was purged.         *)
Own(k, c)  == Here(k) \cup Vaults(k) = {c}
Firm(m, c) == /\ Vaults(m) \subseteq {c}
              /\ \/ c \in Here(m) \cup vault["new"][m]
                 \/ RunOrder[clean] > 3 /\ c \in vault["old"][m]
Safe == \A k \in Keys : \A c \in mine[k] \ touched :
           c \in purged \/ Own(k, c) \/ \E m \in Keys : Firm(m, c)

(* An unmatched key's content is under it, or was left by dedup under a    *)
(* key that is unmatched too.                                              *)
Settled == \A k \in (Keys \ Matched) \ outbid : \A c \in mine[k] \ touched :
              \/ c \in Here(k)
              \/ step # "listing" /\ \E m \in Keys \ (Matched \cup todo) : c \in Here(m)

(* What a run without failures has written down, but for batches an error  *)
(* was dropped at.                                                         *)
AllListed(b) == HeldIn(b) \subseteq UNION manifest[b]
AllHeld(b)   == UNION manifest[b] \subseteq HeldIn(b)
Adds == ~failed =>
           /\ \A b \in Batches \ dropped :
                 /\ (b = "new" /\ At("quarantine")) \/ AllListed(b)
                 /\ At("restore") \/ AllHeld(b)
           /\ At("restore") => Listed \subseteq rest
           /\ clean = "restore" /\ ~busy => Listed = {}

-----------------------------------------------------------------------------
(* Every group has one that is kept: a finite set has a first and a last.  *)

Ranks(a, b) == IF keep = "oldest" THEN Earlier(a, b) ELSE Earlier(b, a)

LEMMA Ranked ==
  ASSUME RunTypeOK, NEW a \in Keys, NEW b \in Keys, NEW c \in Keys,
         Comparable(a), Comparable(b), Comparable(c)
  PROVE  /\ Ranks(a, a)
         /\ Ranks(a, b) \/ Ranks(b, a)
         /\ Ranks(a, b) /\ Ranks(b, a) => a = b
         /\ Ranks(a, b) /\ Ranks(b, c) => Ranks(a, c)
         /\ Ranks(a, b) => IF keep = "oldest" THEN Modified(a) <= Modified(b)
                                              ELSE Modified(a) >= Modified(b)
  <1>1. ASSUME NEW k \in Keys, Comparable(k)
        PROVE  k \in Int /\ Modified(k) \in Int
    <2>1. PICK o \in Object : listed[k] = {o}
      BY <1>1, OneAtMost DEF RunTypeOK, TypeOK, Comparable
    <2>2. Modified(k) = o.modified
      BY <2>1 DEF Modified
    <2> QED
      BY <2>2, KeysAssumption, BoundsAssumption DEF Object
  <1>2. a \in Int /\ Modified(a) \in Int /\ b \in Int /\ Modified(b) \in Int
        /\ c \in Int /\ Modified(c) \in Int
    BY <1>1
  <1> QED
    BY <1>2 DEF Ranks, Earlier

LEMMA KeptExists ==
  ASSUME RunTypeOK, NEW k \in Keys, Comparable(k)
  PROVE  \E m \in Group(k) : Kept(m)
  <1> DEFINE G == Group(k)
             Above(m) == {x \in G : x # m /\ Ranks(x, m)}
             T == {Above(m) : m \in G}
  <1>1. k \in G /\ G \subseteq Keys /\ \A m \in G : Comparable(m) /\ Group(m) = G
    BY DEF Group
  <1>2. \A m \in G : Above(m) \in SUBSET G
    OBVIOUS
  <1>3. T \subseteq FiniteSubsetsOf(G) /\ T # {}
    <2>1. IsFiniteSet(G)
      BY <1>1, KeysAssumption, FS_Subset
    <2>2. \A m \in G : IsFiniteSet(Above(m))
      BY <1>2, <2>1, FS_Subset
    <2> HIDE DEF Above, G
    <2> QED
      BY <1>1, <1>2, <2>2 DEF FiniteSubsetsOf
  <1>4. PICK B \in T : \A C \in T : ~(<<C, B>> \in StrictSubsetOrdering(G))
    <2>1. IsWellFoundedOn(StrictSubsetOrdering(G), FiniteSubsetsOf(G))
      BY FS_StrictSubsetOrderingWellFounded
    <2> HIDE DEF T, G
    <2> QED
      BY <1>3, <2>1, WFMin
  <1>5. PICK m \in G : B = Above(m)
    OBVIOUS
  <1>6. ASSUME NEW x \in Above(m)
        PROVE  FALSE
    <2>1. x \in G /\ x # m /\ Ranks(x, m) /\ x \in Keys /\ m \in Keys
      BY <1>1, <1>6
    <2>2. \A y \in Above(x) : y \in G /\ y # x /\ Ranks(y, x) /\ y \in Keys
      BY <1>1
    <2>3. \A y \in Above(x) : Ranks(y, m) /\ y # m
      BY <1>1, <2>1, <2>2, Ranked
    <2>4. Above(x) \subseteq Above(m) /\ Above(x) # Above(m)
      BY <1>6, <2>2, <2>3
    <2>5. Above(x) \in T /\ Above(x) \in SUBSET G /\ Above(m) \in SUBSET G
      BY <2>1
    <2> HIDE DEF Above, T, G
    <2>6. <<Above(x), Above(m)>> \in StrictSubsetOrdering(G)
      BY <2>4, <2>5 DEF StrictSubsetOrdering
    <2> QED
      BY <1>4, <1>5, <2>5, <2>6
  <1>7. \A y \in G : Ranks(m, y)
    <2> SUFFICES ASSUME NEW y \in G PROVE Ranks(m, y)
      OBVIOUS
    <2>1. y = m \/ ~Ranks(y, m)
      BY <1>6
    <2>2. m \in Keys /\ y \in Keys /\ Comparable(m) /\ Comparable(y)
      BY <1>1
    <2> QED
      BY <2>1, <2>2, Ranked
  <1>8. Kept(m)
    BY <1>1, <1>7 DEF Kept, Ranks
  <1> QED
    BY <1>8

-----------------------------------------------------------------------------
(* The invariants hold at the start, ... *)
RunInv == CleanInv /\ Safe /\ Settled /\ Adds /\ ProtectedKeysStay

LEMMA RunInvInit == RunInit => RunInv
  <1> SUFFICES ASSUME RunInit PROVE RunInv
    OBVIOUS
  <1>1. RunTypeOK
    BY TypeInit
  <1>2. /\ clean = "none" /\ ~busy /\ ~failed /\ step = "listing" /\ ahead = Keys
        /\ todo = {} /\ spared = {} /\ cands = {} /\ rest = {} /\ purged = {} /\ outbid = {}
        /\ \A k \in Keys : listed[k] = {}
    BY DEF RunInit, Init
  <1>3. PICK H \in [Matched -> Maybe(Contents)] :
           vault = [b \in Batches |-> [k \in Keys |->
                      IF b = "old" /\ k \in Matched THEN H[k] ELSE {}]]
    BY DEF RunInit
  <1>4. \A k \in Keys : /\ vault["new"][k] = {}
                        /\ vault["old"][k] # {} => k \in Matched
                        /\ Vaults(k) = vault["old"][k]
    BY <1>3 DEF Vaults, Batches
  <1>5. \A k \in Keys : /\ mine[k] = IF bucket[k] = {} THEN vault["old"][k] ELSE Here(k)
                        /\ vault["old"][k] # {} => Here(k) \subseteq touched
                        /\ bucket[k] = {} <=> Here(k) = {}
    <2> SUFFICES ASSUME NEW k \in Keys
                 PROVE  /\ mine[k] = IF bucket[k] = {} THEN vault["old"][k] ELSE Here(k)
                        /\ vault["old"][k] # {} => Here(k) \subseteq touched
                        /\ bucket[k] = {} <=> Here(k) = {}
      OBVIOUS
    <2>1. mine[k] = IF bucket[k] = {} THEN vault["old"][k] ELSE Here(k)
      BY DEF RunInit, Here
    <2>2. vault["old"][k] # {} => Here(k) \subseteq touched
      BY DEF RunInit, HeldIn, Here
    <2>3. bucket[k] = {} <=> Here(k) = {}
      BY DEF Here, ContentOf
    <2> QED
      BY <2>1, <2>2, <2>3
  <1>6. Stage
    BY <1>2, <1>4 DEF Stage
  <1>7. InBounds
    BY <1>2, <1>4 DEF InBounds, Batches
  <1>8. Beside
    BY <1>4, <1>5 DEF Beside
  <1>9. ListedIsHere /\ Twins /\ Choice
    BY <1>2 DEF ListedIsHere, Twins, Choice, At
  <1>10. Safe
    <2> SUFFICES ASSUME NEW k \in Keys, NEW c \in mine[k] \ touched
                 PROVE  Own(k, c)
      BY DEF Safe
    <2>1. mine[k] = {c}
      BY <1>1, OneAtMost DEF RunTypeOK, TypeOK
    <2> QED
      BY <1>4, <1>5, <2>1 DEF Own
  <1>11. Settled
    BY <1>4, <1>5 DEF Settled
  <1>12. Adds
    <2>1. \A b \in Batches : UNION manifest[b] = HeldIn(b)
      BY DEF RunInit
    <2> QED
      BY <1>2, <2>1 DEF Adds, AllListed, AllHeld, At
  <1>13. ProtectedKeysStay
    BY <1>4, <1>5, SubsetAssumption, MatchedAssumption DEF ProtectedKeysStay, Here
  <1> QED
    BY <1>6, <1>7, <1>8, <1>9, <1>10, <1>11, <1>12, <1>13 DEF RunInv, CleanInv

(* ... and steps keep them: those that begin a clean, ... *)
LEMMA BeginKeeps ==
  ASSUME RunTypeOK, RunInv, NEW name \in DOMAIN RunOrder, Begin(name),
         UNCHANGED <<vault, purged, outbid>>, RunTypeOK',
         cands' = cands \/ (name = "quarantine" /\ busy')
  PROVE  CleanInv' /\ Safe' /\ Settled' /\ ProtectedKeysStay'
  <1>1. /\ clean' = name /\ RunOrder[name] > RunOrder[clean] /\ ~busy
        /\ \A k \in Keys : listed'[k] = {}
        /\ ahead' = Keys /\ todo' = {} /\ spared' = {}
        /\ UNCHANGED <<bucket, clock, step, keep, mine, touched>>
    BY DEF Begin
  <1>2. /\ RunOrder[clean] \in Nat /\ RunOrder[name] \in Nat /\ name # "none"
        /\ name = "dedup" => clean = "none"
    BY <1>1, Order DEF RunTypeOK
  <1>3. cands = {} /\ (step = "listing" => ahead = Keys)
    BY <1>1 DEF RunInv, CleanInv, Stage, At
  <1>4. Stage'
    <2>1. \A k \in cands' : At("quarantine")' /\ vault'["new"][k] = {}
      <3>1. CASE cands' = cands
        BY <1>3, <3>1
      <3>2. CASE name = "quarantine" /\ busy'
        <4>1. RunOrder[clean] < 3
          BY <1>1, <3>2, Order
        <4>2. \A k \in cands' : k \in Keys
          BY MatchedAssumption DEF RunTypeOK
        <4> QED
          BY <1>1, <3>2, <4>1, <4>2 DEF RunInv, CleanInv, Stage, At
      <3> QED
        BY <3>1, <3>2
    <2>2. RunOrder[clean'] < 3 => \A k \in Keys : vault'["new"][k] = {}
      BY <1>1, <1>2 DEF RunInv, CleanInv, Stage
    <2> QED
      BY <1>1, <1>2, <1>3, <2>1, <2>2 DEF RunInv, CleanInv, Stage
  <1>5. InBounds'
    BY <1>1 DEF RunInv, CleanInv, InBounds, Batches
  <1>6. Beside'
    BY <1>1, <1>2 DEF RunInv, CleanInv, Beside, Here, Vaults, Batches
  <1>7. ListedIsHere'
    BY <1>1, <1>3 DEF ListedIsHere
  <1>8. Twins'
    <2>1. At("dedup")' => todo' = {}
      BY <1>1, <1>2 DEF RunInv, CleanInv, Stage, At
    <2> QED
      BY <2>1 DEF Twins
  <1>9. Choice'
    BY <1>1 DEF Choice, Comparable
  <1>10. \A k \in Keys : Here(k)' = Here(k) /\ Vaults(k)' = Vaults(k)
    BY <1>1 DEF Here, Vaults, Batches
  <1>11. ASSUME NEW m \in Keys, NEW c, Firm(m, c)
         PROVE  Firm(m, c)'
    BY <1>1, <1>2, <1>10, <1>11 DEF Firm
  <1>12. Safe'
    BY <1>1, <1>10, <1>11 DEF RunInv, Safe, Own
  <1>13. Settled' /\ ProtectedKeysStay'
    BY <1>1, <1>10 DEF RunInv, Settled, ProtectedKeysStay
  <1> QED
    BY <1>4, <1>5, <1>6, <1>7, <1>8, <1>9, <1>12, <1>13 DEF CleanInv

(* ... those that only write down how far it has come, ... *)
LEMMA QuietKeeps ==
  ASSUME RunInv, UNCHANGED <<vars, clean, vault, purged, outbid>>,
         busy' = busy \/ (clean # "dedup" /\ cands' = {}),
         cands' = cands \/ cands' = {}
  PROVE  CleanInv' /\ Safe' /\ Settled' /\ ProtectedKeysStay'
  <1> USE DEF vars
  <1>1. \A k \in Keys : Here(k)' = Here(k) /\ Vaults(k)' = Vaults(k)
    BY DEF Here, Vaults, Batches
  <1>2. Stage'
    BY DEF RunInv, CleanInv, Stage, At
  <1>3. InBounds' /\ Beside' /\ ListedIsHere'
    BY <1>1 DEF RunInv, CleanInv, InBounds, Beside, ListedIsHere, Batches
  <1>4. Twins'
    <2>1. At("dedup")' => At("dedup")
      BY DEF At
    <2>2. /\ todo' = todo /\ touched' = touched /\ outbid' = outbid
          /\ \A k \in todo : Here(k)' = Here(k)
      BY DEF Here
    <2> QED
      BY <1>1, <2>1, <2>2 DEF RunInv, CleanInv, Twins
  <1>5. Choice'
    BY <1>1 DEF RunInv, CleanInv, Choice, Comparable, Kept, Group, Earlier, Modified
  <1>6. Safe'
    BY <1>1 DEF RunInv, Safe, Own, Firm
  <1>7. Settled' /\ ProtectedKeysStay'
    BY <1>1 DEF RunInv, Settled, ProtectedKeysStay
  <1> QED
    BY <1>2, <1>3, <1>4, <1>5, <1>6, <1>7 DEF CleanInv

(* ... those of dedup, before it deletes and after, ... *)
LEMMA DedupLooks ==
  ASSUME RunTypeOK, RunInv, At("dedup"), NEW k \in Keys, ListKey(k), UNCHANGED run
  PROVE  CleanInv' /\ Safe' /\ Settled' /\ ProtectedKeysStay'
  <1> USE DEF run
  <1>1. /\ step = "listing" /\ ahead' = ahead \ {k}
        /\ listed' = [listed EXCEPT ![k] = bucket[k]]
        /\ UNCHANGED <<bucket, clock, step, keep, todo, spared, mine, touched>>
    BY DEF ListKey
  <1>2. \A x \in Keys : Here(x)' = Here(x) /\ Vaults(x)' = Vaults(x)
    BY <1>1 DEF Here, Vaults, Batches
  <1>3. Stage'
    <2>1. /\ clean = "dedup" /\ clean' = "dedup" /\ At("dedup")' /\ cands = {} /\ cands' = {}
          /\ todo' = {} /\ spared' = {} /\ outbid' = {} /\ step' = "listing"
      BY <1>1 DEF RunInv, CleanInv, Stage, At
    <2>2. RunOrder[clean'] < 3 => \A x \in Keys : vault'["new"][x] = {}
      BY DEF RunInv, CleanInv, Stage
    <2> QED
      BY <2>1, <2>2 DEF Stage
  <1>4. InBounds' /\ Beside'
    BY <1>1, <1>2 DEF RunInv, CleanInv, InBounds, Beside, Batches
  <1>5. ListedIsHere'
    <2> SUFFICES ASSUME NEW x \in Keys \ ahead', NEW c \in Contents \ touched
                 PROVE  c \in ContentOf(listed'[x]) <=> c \in Here(x)
      BY <1>1, <1>2 DEF ListedIsHere
    <2>1. CASE x = k
      BY <1>1, <2>1 DEF RunTypeOK, TypeOK, Here
    <2>2. CASE x # k
      <3>1. listed'[x] = listed[x] /\ x \in Keys \ ahead
        BY <1>1, <2>2 DEF RunTypeOK, TypeOK
      <3> QED
        BY <1>1, <3>1 DEF RunInv, CleanInv, ListedIsHere
    <2> QED
      BY <2>1, <2>2
  <1>6. Twins' /\ Choice'
    BY <1>1 DEF RunInv, CleanInv, Stage, Twins, Choice
  <1>7. Safe' /\ Settled' /\ ProtectedKeysStay'
    BY <1>1, <1>2 DEF RunInv, Safe, Own, Firm, Settled, ProtectedKeysStay
  <1> QED
    BY <1>3, <1>4, <1>5, <1>6, <1>7 DEF CleanInv

LEMMA DedupChooses ==
  ASSUME RunTypeOK, RunInv, At("dedup"), ChooseRedundant,
         UNCHANGED <<clean, busy, vault, cands, purged>>,
         outbid' = {k \in todo' \ Matched : \E m \in Group(k) \cap Matched : Kept(m)}
  PROVE  CleanInv' /\ Safe' /\ Settled' /\ ProtectedKeysStay'
  <1>1. /\ step = "listing" /\ step' = "deleting" /\ ahead = {}
        /\ todo' = {k \in Keys : Comparable(k) /\ ~Kept(k)}
        /\ spared = {}
        /\ UNCHANGED <<bucket, clock, keep, ahead, listed, spared, mine, touched>>
    BY DEF ChooseRedundant, RunInv, CleanInv, Stage
  <1>2. \A x \in Keys : Here(x)' = Here(x) /\ Vaults(x)' = Vaults(x)
    BY <1>1 DEF Here, Vaults, Batches
  <1>3. \A x \in Keys : /\ Comparable(x)' <=> Comparable(x)
                        /\ Kept(x)' <=> Kept(x)
    BY <1>1 DEF Comparable, Kept, Group, Earlier, Modified
  <1>4. \A x \in Keys : \A c \in Contents \ touched : c \in ContentOf(listed[x]) <=> c \in Here(x)
    BY <1>1 DEF RunInv, CleanInv, ListedIsHere
  <1>5. Stage'
    BY <1>1 DEF RunInv, CleanInv, Stage, At
  <1>6. InBounds'
    <2>1. todo' \cap Protected = {}
      BY <1>1 DEF Comparable
    <2> QED
      BY <2>1 DEF RunInv, CleanInv, InBounds, Batches
  <1>7. Beside' /\ ListedIsHere'
    BY <1>1, <1>2 DEF RunInv, CleanInv, Beside, ListedIsHere
  <1>8. Twins'
    <2> SUFFICES ASSUME NEW k \in todo', NEW c \in Here(k) \ touched
                 PROVE  /\ \E m \in Keys \ todo' : c \in Here(m)
                        /\ k \notin Matched \cup outbid' =>
                              \E m \in Keys \ (todo' \cup Matched) : c \in Here(m)
      <3>1. todo' \subseteq Keys
        BY <1>1
      <3> QED
        BY <1>1, <1>2, <3>1 DEF Twins
    <2>1. k \in Keys /\ Comparable(k) /\ c \in Contents
      <3>1. Here(k) \in Maybe(Contents)
        BY <1>1, ContentType DEF Here, RunTypeOK, TypeOK
      <3> QED
        BY <1>1, <3>1, OneAtMost
    <2>2. PICK m \in Group(k) : Kept(m)
      BY <2>1, KeptExists
    <2>3. m \in Keys /\ ContentOf(listed[m]) = ContentOf(listed[k])
      BY DEF Group
    <2>4. c \in Here(m) /\ m \notin todo'
      BY <1>1, <1>4, <2>1, <2>2, <2>3
    <2>5. m \in Matched => k \in Matched \cup outbid'
      BY <2>2
    <2> QED
      BY <2>3, <2>4, <2>5
  <1>9. Choice'
    <2> SUFFICES ASSUME NEW k \in Keys, Comparable(k), NEW c \in ContentOf(listed[k]) \ touched
                 PROVE  IF Kept(k) THEN k \notin todo' \cup spared' /\ c \in Here(k)
                                   ELSE k \in todo' \cup spared' <=> c \in Here(k)
      BY <1>1, <1>2, <1>3 DEF Choice
    <2>1. c \in Contents
      <3>1. ContentOf(listed[k]) \in Maybe(Contents)
        BY ContentType DEF RunTypeOK, TypeOK
      <3> QED
        BY <3>1, OneAtMost
    <2> QED
      BY <1>1, <1>4, <2>1
  <1>10. Safe' /\ ProtectedKeysStay'
    BY <1>1, <1>2 DEF RunInv, Safe, Own, Firm, ProtectedKeysStay
  <1>11. Settled'
    BY <1>1, <1>2 DEF RunInv, CleanInv, Stage, Settled
  <1> QED
    BY <1>5, <1>6, <1>7, <1>8, <1>9, <1>10, <1>11 DEF CleanInv

LEMMA DedupEnds ==
  ASSUME RunTypeOK, RunInv, At("dedup"), Finish \/ Stop, ~busy',
         UNCHANGED <<clean, vault, cands, purged, outbid>>
  PROVE  CleanInv' /\ Safe' /\ Settled' /\ ProtectedKeysStay'
  <1>1. /\ (step' = "done" /\ step = "deleting" /\ todo = {}) \/ step' = "stopped"
        /\ UNCHANGED <<bucket, clock, keep, ahead, listed, todo, spared, mine, touched>>
    BY DEF Finish, Stop
  <1>2. \A x \in Keys : Here(x)' = Here(x) /\ Vaults(x)' = Vaults(x)
    BY <1>1 DEF Here, Vaults, Batches
  <1>3. \A x \in Keys : /\ Comparable(x)' <=> Comparable(x)
                        /\ Kept(x)' <=> Kept(x)
    BY <1>1 DEF Comparable, Kept, Group, Earlier, Modified
  <1>4. Stage'
    BY <1>1 DEF RunInv, CleanInv, Stage, At
  <1>5. InBounds' /\ Beside' /\ ListedIsHere'
    BY <1>1, <1>2 DEF RunInv, CleanInv, InBounds, Beside, ListedIsHere, Batches
  <1>6. Twins'
    BY DEF Twins, At
  <1>7. Choice'
    <2>1. step' # "done" => step' \notin {"deleting", "done"}
      BY <1>1
    <2>2. CASE step' = "done"
      BY <1>1, <1>2, <1>3, <2>2 DEF RunInv, CleanInv, Choice
    <2> QED
      BY <2>1, <2>2 DEF Choice
  <1>8. Safe' /\ Settled' /\ ProtectedKeysStay'
    BY <1>1, <1>2 DEF RunInv, Safe, Own, Firm, Settled, ProtectedKeysStay
  <1> QED
    BY <1>4, <1>5, <1>6, <1>7, <1>8 DEF CleanInv

(* ... its deletes, which leave a twin of all that is untouched, ... *)
LEMMA DedupDeletes ==
  ASSUME RunTypeOK, RunInv, At("dedup"), DeleteChunk, UNCHANGED run
  PROVE  CleanInv' /\ Safe' /\ Settled' /\ ProtectedKeysStay'
  <1> USE DEF run
  <1>1. PICK S \in SUBSET todo, E \in SUBSET todo :
           /\ E \subseteq S /\ todo' = todo \ S /\ spared' = spared \cup E
           /\ bucket' = [k \in Keys |-> IF k \in S \ E THEN {} ELSE bucket[k]]
    BY DEF DeleteChunk
  <1>2. /\ step = "deleting"
        /\ UNCHANGED <<clock, step, keep, ahead, listed, mine, touched>>
    BY DEF DeleteChunk
  <1>3. \A x \in Keys : /\ x \in S \ E => Here(x)' = {}
                        /\ x \notin S \ E => Here(x)' = Here(x)
                        /\ Vaults(x)' = Vaults(x)
    BY <1>1 DEF Here, ContentOf, Vaults, Batches
  <1>4. \A x \in Keys : /\ Comparable(x)' <=> Comparable(x)
                        /\ Kept(x)' <=> Kept(x)
    BY <1>2 DEF Comparable, Kept, Group, Earlier, Modified
  <1>t. todo \subseteq Keys
    BY DEF RunTypeOK, TypeOK
  <1>5. Stage'
    BY <1>1, <1>2 DEF RunInv, CleanInv, Stage, At
  <1>6. InBounds' /\ ListedIsHere'
    BY <1>1, <1>2 DEF RunInv, CleanInv, InBounds, ListedIsHere, Batches
  <1>7. Beside'
    BY <1>2, <1>3 DEF RunInv, CleanInv, Beside
  <1>8. Twins'
    <2> SUFFICES ASSUME NEW k \in todo \ S, NEW c \in Here(k) \ touched
                 PROVE  /\ \E m \in Keys \ todo' : c \in Here(m)'
                        /\ k \notin Matched \cup outbid =>
                              \E m \in Keys \ (todo' \cup Matched) : c \in Here(m)'
      BY <1>1, <1>2, <1>3, <1>t DEF Twins
    <2>1. /\ \E m \in Keys \ todo : c \in Here(m)
          /\ k \notin Matched \cup outbid => \E m \in Keys \ (todo \cup Matched) : c \in Here(m)
      BY DEF RunInv, CleanInv, Twins
    <2> QED
      BY <1>1, <1>3, <2>1
  <1>9. Choice'
    <2> SUFFICES ASSUME NEW k \in Keys, Comparable(k), NEW c \in ContentOf(listed[k]) \ touched
                 PROVE  IF Kept(k) THEN k \notin todo' \cup spared' /\ c \in Here(k)'
                                   ELSE k \in todo' \cup spared' <=> c \in Here(k)'
      BY <1>2, <1>4 DEF Choice
    <2>1. IF Kept(k) THEN k \notin todo \cup spared /\ c \in Here(k)
                     ELSE k \in todo \cup spared <=> c \in Here(k)
      BY <1>2 DEF RunInv, CleanInv, Choice
    <2>2. todo \cap spared = {}
      BY DEF RunInv, CleanInv, Stage
    <2>3. CASE k \in S \ E
      BY <1>1, <1>3, <2>1, <2>2, <2>3
    <2>4. CASE k \notin S \ E
      BY <1>1, <1>3, <2>1, <2>4
    <2> QED
      BY <2>3, <2>4
  <1>10. ASSUME NEW c, c \notin touched, NEW k \in S, c \in Here(k)
         PROVE  \E m \in Keys : Firm(m, c)'
    <2>1. PICK m \in Keys \ todo : c \in Here(m)
      BY <1>10 DEF RunInv, CleanInv, Twins
    <2>2. Vaults(m) \subseteq {c}
      BY <1>10, <2>1, Order DEF RunInv, CleanInv, Beside, At
    <2>3. Vaults(m)' = Vaults(m) /\ Here(m)' = Here(m)
      BY <1>3, <2>1
    <2> QED
      BY <2>1, <2>2, <2>3 DEF Firm
  <1>11. ASSUME NEW c, c \notin touched, NEW m \in Keys, Firm(m, c)
         PROVE  \E x \in Keys : Firm(x, c)'
    <2>1. CASE m \in S /\ c \in Here(m)
      BY <1>10, <1>11, <2>1
    <2>2. CASE m \notin S \ E \/ c \notin Here(m)
      BY <1>3, <1>11, <2>2 DEF Firm
    <2> QED
      BY <2>1, <2>2
  <1>12. Safe'
    <2> SUFFICES ASSUME NEW k \in Keys, NEW c \in mine[k] \ touched
                 PROVE  c \in purged \/ Own(k, c)' \/ \E m \in Keys : Firm(m, c)'
      BY <1>2 DEF Safe
    <2>1. CASE Own(k, c)
      <3>1. CASE k \in S /\ c \in Here(k)
        BY <1>10, <3>1
      <3>2. CASE k \notin S \ E \/ Here(k) = {}
        BY <1>3, <2>1, <3>2 DEF Own
      <3> QED
        BY <2>1, <3>1, <3>2 DEF Own
    <2>2. CASE \E m \in Keys : Firm(m, c)
      BY <1>11, <2>2
    <2> QED
      BY <2>1, <2>2 DEF RunInv, Safe
  <1>13. Settled'
    <2> SUFFICES ASSUME NEW k \in (Keys \ Matched) \ outbid, NEW c \in mine[k] \ touched
                 PROVE  \/ c \in Here(k)'
                        \/ \E m \in Keys \ (Matched \cup todo') : c \in Here(m)'
      BY <1>2 DEF Settled
    <2>1. CASE c \in Here(k)
      <3>1. CASE k \in S
        <4>1. \E m \in Keys \ (todo \cup Matched) : c \in Here(m)
          BY <2>1, <3>1 DEF RunInv, CleanInv, Twins
        <4> QED
          BY <1>1, <1>3, <4>1
      <3>2. CASE k \notin S
        BY <1>3, <2>1, <3>2
      <3> QED
        BY <3>1, <3>2
    <2>2. CASE \E m \in Keys \ (Matched \cup todo) : c \in Here(m)
      BY <1>1, <1>3, <2>2
    <2> QED
      BY <2>1, <2>2 DEF RunInv, Settled
  <1>14. ProtectedKeysStay'
    <2>1. \A k \in Protected : k \in Keys /\ k \notin S
      BY SubsetAssumption DEF RunInv, CleanInv, InBounds
    <2> QED
      BY <1>2, <1>3, <2>1 DEF RunInv, ProtectedKeysStay, Here
  <1> QED
    BY <1>5, <1>6, <1>7, <1>8, <1>9, <1>12, <1>13, <1>14 DEF CleanInv
(* ... the owners, who touch what they replace, ... *)
LEMMA OwnerKeeps ==
  ASSUME RunTypeOK, RunInv, NEW x \in Keys, Owner(x)
  PROVE  CleanInv' /\ Safe' /\ Settled' /\ ProtectedKeysStay'
  <1>1. PICK objects :
           /\ bucket' = [bucket EXCEPT ![x] = objects]
           /\ mine' = [mine EXCEPT ![x] = ContentOf(objects)]
           /\ touched' = touched \cup ContentOf(objects) \cup ContentOf(bucket[x])
           /\ UNCHANGED <<step, keep, ahead, listed, todo, spared>>
    BY DEF Owner, Store, Remove, Replace
  <1>2. UNCHANGED run
    BY DEF Owner
  <1> USE DEF run
  <1>3. /\ touched \subseteq touched' /\ Here(x) \subseteq touched'
        /\ Here(x)' \subseteq touched' /\ mine'[x] = Here(x)'
        /\ \A y \in Keys : Vaults(y)' = Vaults(y)
        /\ \A y \in Keys \ {x} : Here(y)' = Here(y) /\ mine'[y] = mine[y]
    BY <1>1, <1>2 DEF RunTypeOK, TypeOK, Here, Vaults, Batches
  <1>4. Stage' /\ InBounds'
    BY <1>1, <1>2 DEF RunInv, CleanInv, Stage, InBounds, At, Batches
  <1>5. Beside'
    BY <1>2, <1>3 DEF RunInv, CleanInv, Beside
  <1>6. ListedIsHere'
    BY <1>1, <1>3 DEF RunInv, CleanInv, ListedIsHere
  <1>7. Twins'
    <2>1. todo \subseteq Keys
      BY DEF RunTypeOK, TypeOK
    <2>2. At("dedup")' <=> At("dedup")
      BY <1>2 DEF At
    <2> QED
      BY <1>1, <1>2, <1>3, <2>1, <2>2 DEF RunInv, CleanInv, Twins
  <1>8. Choice'
    <2>1. \A k \in Keys : /\ Comparable(k)' <=> Comparable(k)
                          /\ Kept(k)' <=> Kept(k)
      BY <1>1 DEF Comparable, Kept, Group, Earlier, Modified
    <2> QED
      BY <1>1, <1>3, <2>1 DEF RunInv, CleanInv, Choice
  <1>9. Safe'
    <2> SUFFICES ASSUME NEW k \in Keys, NEW c \in mine'[k] \ touched'
                 PROVE  c \in purged \/ Own(k, c)' \/ \E m \in Keys : Firm(m, c)'
      BY <1>2 DEF Safe
    <2>1. k # x /\ c \in mine[k] \ touched
      BY <1>3
    <2>2. \A m \in Keys : Firm(m, c) => Firm(m, c)'
      BY <1>2, <1>3 DEF Firm
    <2> QED
      BY <1>3, <2>1, <2>2 DEF RunInv, Safe, Own
  <1>10. Settled'
    BY <1>1, <1>2, <1>3 DEF RunInv, Settled
  <1>11. ProtectedKeysStay'
    BY <1>3, SubsetAssumption DEF RunInv, ProtectedKeysStay, Here
  <1> QED
    BY <1>4, <1>5, <1>6, <1>7, <1>8, <1>9, <1>10, <1>11 DEF CleanInv

(* ... and the cleans after dedup, which have nothing listed. *)
LEMMA DedupIsOver ==
  ASSUME RunInv, busy, clean # "dedup", UNCHANGED <<clean, step, ahead, listed, keep>>
  PROVE  ListedIsHere' /\ Twins' /\ Choice'
  <1>1. ListedIsHere'
    BY DEF RunInv, CleanInv, Stage, At, ListedIsHere
  <1>2. Twins'
    BY DEF Twins, At
  <1>3. Choice'
    BY DEF RunInv, CleanInv, Stage, Choice, Comparable
  <1> QED
    BY <1>1, <1>2, <1>3

LEMMA MoveKeeps ==
  ASSUME RunTypeOK, RunInv, NEW k \in Keys, MoveOut(k)
  PROVE  CleanInv' /\ Safe' /\ Settled' /\ ProtectedKeysStay'
  <1>1. /\ At("quarantine") /\ k \in cands /\ clean = "quarantine" /\ busy
        /\ vault' = [vault EXCEPT !["new"][k] = Here(k)]
        /\ \/ bucket' = [bucket EXCEPT ![k] = {}] /\ cands' = cands \ {k} /\ GoOn
           \/ UNCHANGED bucket /\ cands' = {}
        /\ UNCHANGED <<clock, step, keep, ahead, listed, todo, spared, mine, touched>>
        /\ UNCHANGED <<clean, manifest, rest, purged, outbid>>
    BY DEF MoveOut, At, Here
  <1>2. k \in Matched /\ vault["new"][k] = {} /\ RunOrder[clean] = 3
    BY <1>1, Order DEF RunTypeOK, RunInv, CleanInv, Stage
  <1>3. /\ vault'["new"][k] = Here(k) /\ vault'["old"][k] = vault["old"][k]
        /\ \A b \in Batches : \A y \in Keys \ {k} : vault'[b][y] = vault[b][y]
    BY <1>1 DEF RunTypeOK, Batches
  <1>4. /\ Here(k)' = Here(k) \/ Here(k)' = {}
        /\ Vaults(k)' = Vaults(k) \cup Here(k)
        /\ \A y \in Keys \ {k} : /\ Here(y)' = Here(y) /\ Vaults(y)' = Vaults(y)
                                /\ bucket'[y] = bucket[y]
    BY <1>1, <1>2, <1>3 DEF RunTypeOK, TypeOK, Here, ContentOf, Vaults, Batches
  <1>5. Here(k) \in Maybe(Contents)
    BY ContentType DEF RunTypeOK, TypeOK, Here
  <1>6. Stage'
    <2>1. \A y \in cands' : At("quarantine")' /\ vault'["new"][y] = {}
      <3>1. \A y \in cands' : y \in cands /\ y # k /\ y \in Keys /\ UNCHANGED busy
        BY <1>1, MatchedAssumption DEF RunTypeOK, GoOn
      <3> QED
        BY <1>1, <1>3, <3>1 DEF RunInv, CleanInv, Stage, At, Batches
    <2> QED
      BY <1>1, <1>2, <2>1 DEF RunInv, CleanInv, Stage, At
  <1>7. InBounds'
    BY <1>1, <1>2, <1>3 DEF RunInv, CleanInv, InBounds
  <1>8. Beside'
    <2> SUFFICES ASSUME NEW y \in Keys, NEW c \in Here(y)' \ touched
                 PROVE  Vaults(y)' \subseteq {c}
      BY <1>1 DEF Beside
    <2>1. c \in Here(y) /\ Vaults(y) \subseteq {c}
      BY <1>2, <1>4 DEF RunInv, CleanInv, Beside
    <2> QED
      BY <1>4, <1>5, <2>1, OneAtMost
  <1>9. ListedIsHere' /\ Twins' /\ Choice'
    BY <1>1, DedupIsOver
  <1>10. \A m \in Keys, c \in Contents : Firm(m, c) => Firm(m, c)'
    <2> SUFFICES ASSUME NEW m \in Keys, NEW c \in Contents, Firm(m, c)
                 PROVE  Firm(m, c)'
      OBVIOUS
    <2>1. CASE m = k
      <3>1. c \in Here(k) /\ Vaults(k) \subseteq {c}
        BY <1>2, <2>1 DEF Firm
      <3>2. Here(k) = {c}
        BY <1>5, <3>1, OneAtMost
      <3> QED
        BY <1>3, <1>4, <2>1, <3>1, <3>2 DEF Firm
    <2>2. CASE m # k
      BY <1>1, <1>3, <1>4, <2>2 DEF Firm, Batches
    <2> QED
      BY <2>1, <2>2
  <1>11. \A m \in Keys, c \in Contents : Own(m, c) => Own(m, c)'
    BY <1>4 DEF Own
  <1>12. Safe'
    <2>1. \A y \in Keys : mine[y] \subseteq Contents
      BY OneAtMost DEF RunTypeOK, TypeOK
    <2> QED
      BY <1>1, <1>10, <1>11, <2>1 DEF RunInv, Safe
  <1>13. Settled'
    BY <1>1, <1>2, <1>4 DEF RunInv, Settled
  <1>14. ProtectedKeysStay'
    <2>1. \A p \in Protected : p \in Keys \ {k}
      BY <1>2, SubsetAssumption, MatchedAssumption
    <2> QED
      BY <1>1, <1>4, <2>1 DEF RunInv, ProtectedKeysStay
  <1> QED
    BY <1>6, <1>7, <1>8, <1>9, <1>12, <1>13, <1>14 DEF CleanInv

LEMMA PurgeKeeps ==
  ASSUME RunTypeOK, RunInv, NEW b \in Batches, PurgeBatch(b)
  PROVE  CleanInv' /\ Safe' /\ Settled' /\ ProtectedKeysStay'
  <1> USE DEF vars
  <1>1. /\ At("purge") /\ busy /\ clean = "purge" /\ RunOrder[clean] = 4
        /\ UNCHANGED <<vars, clean, cands, outbid>>
    BY Order DEF PurgeBatch, At
  <1>2. PICK gone \in SUBSET Keys :
           /\ vault' = [vault EXCEPT ![b] = [k \in Keys |-> IF k \in gone THEN {} ELSE @[k]]]
           /\ purged \subseteq purged'
           /\ \A k \in gone : vault[b][k] \ Stored \subseteq purged'
    <2>1. \A keys \in manifest[b] : keys \in SUBSET Keys
      BY OneAtMost DEF RunTypeOK
    <2>2. PICK gone \in SUBSET Keys :
             /\ vault' = [vault EXCEPT ![b] = [k \in Keys |-> IF k \in gone THEN {} ELSE @[k]]]
             /\ purged' = purged \cup LastOf(b, gone)
      BY <2>1 DEF PurgeBatch
    <2>3. \A k \in gone : vault[b][k] \ Stored \subseteq LastOf(b, gone)
      <3> SUFFICES ASSUME NEW j \in gone, NEW c \in vault[b][j], c \notin Stored
                   PROVE  c \in LastOf(b, gone)
        OBVIOUS
      <3>1. c \in UNION {vault[b][k] : k \in gone}
        OBVIOUS
      <3> QED
        BY <3>1, Zenon DEF LastOf
    <2> QED
      BY <2>2, <2>3
  <1>3. \A a \in Batches, y \in Keys :
           /\ vault'[a][y] \subseteq vault[a][y]
           /\ vault'[a][y] = vault[a][y] \/ (a = b /\ y \in gone)
    BY <1>2 DEF RunTypeOK
  <1>4. \A y \in Keys : Here(y)' = Here(y) /\ Vaults(y)' \subseteq Vaults(y)
    BY <1>1, <1>3 DEF Here, Vaults, Batches
  <1>5. cands = {}
    BY <1>1 DEF RunInv, CleanInv, Stage, At
  <1>6. Stage'
    BY <1>1, <1>5 DEF RunInv, CleanInv, Stage, At
  <1>7. InBounds'
    BY <1>1, <1>3 DEF RunInv, CleanInv, InBounds, Batches
  <1>8. Beside'
    BY <1>1, <1>4 DEF RunInv, CleanInv, Beside
  <1>9. ListedIsHere' /\ Twins' /\ Choice'
    BY <1>1, DedupIsOver
  <1>10. ASSUME NEW y \in Keys, NEW c, c \notin touched, c \in Here(y) \cup Vaults(y)
         PROVE  c \in purged' \/ c \in Here(y)' \cup Vaults(y)' \/ \E m \in Keys : Firm(m, c)'
    <2>1. CASE c \in Here(y)
      BY <1>4, <2>1
    <2>2. CASE c \in vault[b][y] /\ y \in gone
      <3>1. c \in purged' \/ c \in Stored
        BY <1>2, <2>2
      <3>2. ASSUME c \in Stored
            PROVE  \E m \in Keys : Firm(m, c)'
        <4>1. PICK m \in Keys : c \in Here(m)
          BY <3>2 DEF Stored, Here
        <4>2. Vaults(m) \subseteq {c}
          BY <1>1, <1>10, <4>1 DEF RunInv, CleanInv, Beside
        <4> QED
          BY <1>4, <4>1, <4>2 DEF Firm
      <3> QED
        BY <3>1, <3>2
    <2>3. CASE \E a \in Batches : c \in vault[a][y] /\ ~(a = b /\ y \in gone)
      BY <1>3, <2>3 DEF Vaults
    <2> QED
      BY <1>10, <2>1, <2>2, <2>3 DEF Vaults
  <1>11. ASSUME NEW m \in Keys, NEW c, Vaults(m) \subseteq {c}, c \in Here(m)' \cup Vaults(m)'
         PROVE  Firm(m, c)'
    BY <1>1, <1>4, <1>11 DEF Firm, Vaults, Batches
  <1>12. Safe'
    <2> SUFFICES ASSUME NEW k \in Keys, NEW c \in mine[k] \ touched
                 PROVE  c \in purged' \/ Own(k, c)' \/ \E m \in Keys : Firm(m, c)'
      BY <1>1 DEF Safe
    <2>1. CASE c \in purged
      BY <1>2, <2>1
    <2>2. CASE Own(k, c)
      BY <1>10, <1>11, <2>2 DEF Own
    <2>3. CASE \E m \in Keys : Firm(m, c)
      <3>1. PICK m \in Keys : Firm(m, c)
        BY <2>3
      <3>2. Vaults(m) \subseteq {c} /\ c \in Here(m) \cup Vaults(m)
        BY <3>1 DEF Firm, Vaults, Batches
      <3> QED
        BY <1>10, <1>11, <3>2
    <2> QED
      BY <2>1, <2>2, <2>3 DEF RunInv, Safe
  <1>13. Settled' /\ ProtectedKeysStay'
    BY <1>1, <1>4 DEF RunInv, Settled, ProtectedKeysStay
  <1> QED
    BY <1>6, <1>7, <1>8, <1>9, <1>12, <1>13 DEF CleanInv

LEMMA RestoreKeeps ==
  ASSUME RunTypeOK, RunInv, NEW b \in Batches, NEW k \in Keys, RestoreOne(b, k)
  PROVE  CleanInv' /\ Safe' /\ Settled' /\ ProtectedKeysStay'
  <1> DEFINE back == {[content |-> c, whole |-> TRUE, modified |-> clock] : c \in vault[b][k]}
  <1>1. /\ At("restore") /\ busy /\ clean = "restore" /\ RunOrder[clean] = 5
        /\ vault[b][k] # {}
        /\ bucket' = [bucket EXCEPT ![k] = back]
        /\ vault' = [vault EXCEPT ![b][k] = {}] \/ UNCHANGED vault
        /\ UNCHANGED <<clock, step, keep, ahead, listed, todo, spared, mine, touched>>
        /\ UNCHANGED <<clean, manifest, cands, purged, outbid>>
    BY Order DEF RestoreOne, At
  <1>2. ContentOf(back) = vault[b][k]
    <2>1. \A c \in vault[b][k] : c \in ContentOf(back)
      <3> SUFFICES ASSUME NEW c \in vault[b][k] PROVE c \in ContentOf(back)
        OBVIOUS
      <3>1. [content |-> c, whole |-> TRUE, modified |-> clock] \in back
        OBVIOUS
      <3> HIDE DEF back
      <3> QED
        BY <3>1 DEF ContentOf
    <2>2. \A o \in back : o.content \in vault[b][k]
      OBVIOUS
    <2> HIDE DEF back
    <2> QED
      BY <2>1, <2>2 DEF ContentOf
  <1> HIDE DEF back
  <1>3. k \in Matched /\ cands = {}
    BY <1>1 DEF RunInv, CleanInv, InBounds, Stage, At
  <1>4. \A a \in Batches, y \in Keys :
           /\ vault'[a][y] \subseteq vault[a][y]
           /\ y # k => vault'[a][y] = vault[a][y]
    BY <1>1 DEF RunTypeOK
  <1>5. /\ Here(k)' = vault[b][k] /\ Vaults(k)' \subseteq Vaults(k)
        /\ vault[b][k] \subseteq Vaults(k)
        /\ \A y \in Keys \ {k} : /\ Here(y)' = Here(y) /\ Vaults(y)' = Vaults(y)
                                /\ bucket'[y] = bucket[y]
    BY <1>1, <1>2, <1>4 DEF RunTypeOK, TypeOK, Here, Vaults
  <1>6. Stage'
    BY <1>1, <1>3 DEF RunInv, CleanInv, Stage, At
  <1>7. InBounds'
    BY <1>1, <1>4 DEF RunInv, CleanInv, InBounds
  <1>8. Beside'
    BY <1>1 DEF Beside
  <1>9. ListedIsHere' /\ Twins' /\ Choice'
    BY <1>1, DedupIsOver
  <1>10. ASSUME NEW c, Vaults(k) \subseteq {c}
         PROVE  Here(k)' = {c} /\ Vaults(k)' \subseteq {c}
    BY <1>1, <1>5, <1>10
  <1>11. Safe'
    <2>1. \A y \in Keys : \A c \in mine[y] : Own(y, c) => Own(y, c)'
      BY <1>5, <1>10 DEF Own
    <2>2. ASSUME NEW m \in Keys, NEW c, Firm(m, c)
          PROVE  Firm(m, c)'
      <3>1. CASE m = k
        BY <1>10, <2>2, <3>1 DEF Firm
      <3>2. CASE m # k
        BY <1>1, <1>4, <1>5, <2>2, <3>2 DEF Firm, Batches
      <3> QED
        BY <3>1, <3>2
    <2> QED
      BY <1>1, <2>1, <2>2 DEF RunInv, Safe
  <1>12. Settled'
    BY <1>1, <1>3, <1>5 DEF RunInv, Settled
  <1>13. ProtectedKeysStay'
    <2>1. \A p \in Protected : p \in Keys \ {k}
      BY <1>3, SubsetAssumption, MatchedAssumption
    <2> QED
      BY <1>1, <1>5, <2>1 DEF RunInv, ProtectedKeysStay
  <1> QED
    BY <1>6, <1>7, <1>8, <1>9, <1>11, <1>12, <1>13 DEF CleanInv
(* What is written down, step by step: nothing new has failed. *)
LEMMA AddsKeeps ==
  ASSUME RunTypeOK, RunInv, RunNext
  PROVE  Adds'
  <1> SUFFICES ASSUME ~failed'
               PROVE  /\ \A b \in Batches \ dropped' :
                            /\ (b = "new" /\ At("quarantine")') \/ AllListed(b)'
                            /\ At("restore")' \/ AllHeld(b)'
                      /\ At("restore")' => Listed' \subseteq rest'
                      /\ clean' = "restore" /\ ~busy' => Listed' = {}
    BY DEF Adds
  <1>1. ~failed
    BY DEF RunNext, BeginDedup, DedupStep, MultipartClean, BeginQuarantine, MoveOut, WriteManifest,
           BeginPurge, BeginRestore, BeginBatches, NoMoreBatches, PurgeBatch, Answered, RestoreOne,
           DropManifest, Raise, Owner, run, Return, Fail, GoOn
  <1>2. /\ \A b \in Batches \ dropped :
              /\ (b = "new" /\ At("quarantine")) \/ AllListed(b)
              /\ At("restore") \/ AllHeld(b)
        /\ At("restore") => Listed \subseteq rest
        /\ clean = "restore" /\ ~busy => Listed = {}
    BY <1>1 DEF RunInv, Adds
  <1>3. ASSUME UNCHANGED <<vault, manifest>>
        PROVE  Listed' = Listed /\ \A b \in Batches : (AllListed(b)' <=> AllListed(b)) /\ (AllHeld(b)' <=> AllHeld(b))
    BY <1>3 DEF AllListed, AllHeld, HeldIn, Listed
  <1>4. ASSUME NEW name \in DOMAIN RunOrder, Begin(name), UNCHANGED <<vault, manifest, dropped>>,
               name # "restore" \/ (busy' /\ rest' = Listed)
        PROVE  Adds'
    BY <1>2, <1>3, <1>4 DEF Begin, At, Adds
  <1>u. (\A b \in Batches : ~PurgeBatch(b)) => UNCHANGED dropped
    BY DEF RunNext, BeginDedup, DedupStep, MultipartClean, BeginQuarantine, MoveOut, WriteManifest,
           BeginPurge, BeginRestore, BeginBatches, NoMoreBatches, RestoreOne, DropManifest,
           Raise, Owner, run
  <1>5. CASE BeginDedup \/ MultipartClean \/ BeginQuarantine \/ BeginPurge \/ BeginRestore
    BY <1>4, <1>5, Order DEF BeginDedup, MultipartClean, BeginQuarantine, BeginPurge, BeginRestore,
                             BeginBatches, Adds
  <1>6. CASE DedupStep \/ \E k \in Keys : Owner(k)
    <2>1. /\ UNCHANGED <<clean, vault, manifest, rest, dropped>>
          /\ UNCHANGED busy \/ clean = "dedup"
      BY <1>6 DEF DedupStep, Owner, run, At
    <2> QED
      BY <1>2, <1>3, <2>1 DEF At
  <1>7. ASSUME NEW k \in Keys, MoveOut(k)
        PROVE  Adds'
    <2>1. /\ At("quarantine") /\ GoOn /\ UNCHANGED <<clean, manifest, rest, dropped>>
          /\ vault' = [vault EXCEPT !["new"][k] = Here(k)] /\ bucket[k] # {}
      BY <1>7 DEF MoveOut, Fail, Here
    <2>2. Here(k) # {}
      BY <2>1, ContentType DEF RunTypeOK, TypeOK, Here
    <2>3. HeldIn("old")' = HeldIn("old") /\ HeldIn("new") \subseteq HeldIn("new")'
      BY <2>1, <2>2 DEF RunTypeOK, HeldIn, Batches
    <2>4. \A b \in Batches : (b = "new" \/ (AllListed(b) => AllListed(b)')) /\ (AllHeld(b) => AllHeld(b)')
      BY <2>1, <2>3 DEF AllListed, AllHeld, Batches
    <2>5. Listed' = Listed
      BY <2>1 DEF Listed
    <2> QED
      BY <1>2, <2>1, <2>4, <2>5 DEF At, GoOn, Adds
  <1>8. CASE WriteManifest
    <2>1. /\ At("quarantine") /\ ~busy' /\ UNCHANGED <<clean, vault, rest, dropped>>
          /\ manifest' = [manifest EXCEPT !["new"] = {HeldIn("new")}]
      BY <1>8 DEF WriteManifest, Return
    <2>2. \A b \in Batches : HeldIn(b)' = HeldIn(b)
      BY <2>1 DEF HeldIn
    <2>3. manifest'["new"] = {HeldIn("new")} /\ manifest'["old"] = manifest["old"]
      BY <2>1 DEF RunTypeOK, Batches
    <2>4. AllListed("new")' /\ AllHeld("new")'
      BY <2>2, <2>3 DEF AllListed, AllHeld, Batches
    <2>5. (AllListed("old")' <=> AllListed("old")) /\ (AllHeld("old")' <=> AllHeld("old"))
      BY <2>2, <2>3 DEF AllListed, AllHeld, Batches
    <2>6. ~At("quarantine")' /\ ~At("restore")' /\ ~At("restore") /\ clean' # "restore"
      BY <2>1 DEF At
    <2> QED
      BY <1>2, <2>1, <2>4, <2>5, <2>6 DEF Batches
  <1>9. CASE NoMoreBatches
    <2>1. /\ At("purge") \/ At("restore")
          /\ rest = {} /\ ~busy' /\ UNCHANGED <<clean, vault, manifest, dropped>>
      BY <1>9 DEF NoMoreBatches, Return
    <2>2. At("restore") => \A b \in Batches : manifest[b] = {}
      BY <1>2, <2>1 DEF Listed
    <2>3. At("restore") => Listed = {} /\ \A b \in Batches : AllHeld(b)
      BY <2>2 DEF Listed, AllHeld
    <2>4. ~At("restore")' /\ ~At("quarantine")' /\ ~At("quarantine")
      BY <2>1 DEF At
    <2> QED
      BY <1>2, <1>3, <2>1, <2>3, <2>4 DEF At
  <1>10. CASE Raise
    BY <1>10 DEF Raise, Fail
  <1>11. ASSUME NEW b \in Batches, PurgeBatch(b)
         PROVE  Adds'
    <2>1. /\ At("purge") /\ At("purge")' /\ dropped \subseteq dropped'
          /\ ~At("quarantine")' /\ ~At("restore")' /\ clean' # "restore"
      BY <1>11 DEF PurgeBatch, Answered, GoOn, Fail, At
    <2>k. PICK keys \in manifest[b] : \E gone \in SUBSET keys :
             /\ vault' = [vault EXCEPT ![b] = [k \in Keys |-> IF k \in gone THEN {} ELSE @[k]]]
             /\ Answered(b, gone = keys)
      BY <1>11 DEF PurgeBatch, Fail
    <2>2. PICK gone \in SUBSET keys :
             /\ vault' = [vault EXCEPT ![b] = [k \in Keys |-> IF k \in gone THEN {} ELSE @[k]]]
             /\ Answered(b, gone = keys)
      BY <2>k
    <2>3. \A a \in Batches \ {b} : HeldIn(a)' = HeldIn(a) /\ manifest'[a] = manifest[a]
      BY <2>2 DEF Answered, HeldIn, RunTypeOK
    <2>4. \A a \in Batches \ {b} : (AllListed(a) => AllListed(a)') /\ (AllHeld(a) => AllHeld(a)')
      BY <2>3 DEF AllListed, AllHeld
    <2>5. CASE b \in dropped'
      BY <1>2, <2>1, <2>4, <2>5 DEF At, Adds
    <2>6. CASE b \notin dropped'
      <3>1. gone = keys /\ manifest' = [manifest EXCEPT ![b] = {}] /\ b \notin dropped
        BY <2>1, <2>2, <2>6 DEF Answered
      <3>2. manifest[b] = {keys}
        BY OneAtMost DEF RunTypeOK
      <3>3. HeldIn(b) \subseteq keys
        BY <1>2, <2>1, <3>1, <3>2 DEF At, AllListed
      <3>4. HeldIn(b)' = {} /\ manifest'[b] = {}
        BY <2>2, <3>1, <3>3 DEF HeldIn, RunTypeOK
      <3>5. AllListed(b)' /\ AllHeld(b)'
        BY <3>4 DEF AllListed, AllHeld
      <3> QED
        BY <1>2, <2>1, <2>4, <3>5 DEF At, Adds
    <2> QED
      BY <2>5, <2>6
  <1>12. ASSUME NEW b \in Batches, NEW k \in Keys, RestoreOne(b, k)
         PROVE  Adds'
    <2>1. /\ At("restore") /\ UNCHANGED <<clean, busy, manifest, rest, dropped>>
          /\ vault' = [vault EXCEPT ![b][k] = {}]
      BY <1>12 DEF RestoreOne, Fail, GoOn
    <2>2. \A a \in Batches : HeldIn(a)' \subseteq HeldIn(a)
      BY <2>1 DEF RunTypeOK, HeldIn
    <2>3. Listed' = Listed /\ \A a \in Batches : AllListed(a) => AllListed(a)'
      BY <2>1, <2>2 DEF Listed, AllListed
    <2> QED
      BY <1>2, <2>1, <2>3 DEF At, Adds
  <1>13. ASSUME NEW b \in Batches, DropManifest(b)
         PROVE  Adds'
    <2>1. /\ At("restore") /\ UNCHANGED <<clean, busy, vault, dropped>>
          /\ \A keys \in manifest[b] : keys \cap HeldIn(b) = {}
          /\ manifest' = [manifest EXCEPT ![b] = {}]
          /\ rest' = rest \ {b}
      BY <1>13 DEF DropManifest, GoOn
    <2>2. b \in dropped \/ HeldIn(b) = {}
      BY <1>2, <2>1 DEF At, AllListed
    <2>3. \A a \in Batches : HeldIn(a)' = HeldIn(a)
      BY <2>1 DEF HeldIn
    <2>4. manifest'[b] = {} /\ \A a \in Batches \ {b} : manifest'[a] = manifest[a]
      BY <2>1 DEF RunTypeOK
    <2>5. Listed' \subseteq rest'
      BY <1>2, <2>1, <2>4 DEF Listed
    <2>6. \A a \in Batches \ dropped : AllListed(a) => AllListed(a)'
      BY <2>2, <2>3, <2>4 DEF AllListed
    <2> QED
      BY <1>2, <2>1, <2>5, <2>6 DEF At, Adds
  <1> QED
    BY <1>5, <1>6, <1>7, <1>8, <1>9, <1>10, <1>11, <1>12, <1>13 DEF RunNext, Adds

LEMMA RunInvStep == RunTypeOK /\ RunTypeOK' /\ RunInv /\ [RunNext]_runVars => RunInv'
  <1> SUFFICES ASSUME RunTypeOK, RunTypeOK', RunInv, [RunNext]_runVars
               PROVE  RunInv'
    OBVIOUS
  <1> DEFINE Kept4 == CleanInv /\ Safe /\ Settled /\ ProtectedKeysStay
  <1>1. ASSUME RunNext
        PROVE  Kept4'
    <2>1. CASE BeginDedup
      BY <2>1, BeginKeeps, Order DEF BeginDedup
    <2>2. CASE DedupStep
      <3>1. At("dedup") /\ UNCHANGED <<clean, vault, manifest, cands, rest, purged, dropped>>
        BY <2>2 DEF DedupStep
      <3>2. CASE (\E k \in Keys : ListKey(k)) /\ GoOn /\ UNCHANGED outbid
        BY <3>1, <3>2, DedupLooks DEF GoOn, run
      <3>3. CASE /\ ChooseRedundant /\ GoOn
                 /\ outbid' = {k \in todo' \ Matched : \E m \in Group(k) \cap Matched : Kept(m)}
        BY <3>1, <3>3, DedupChooses DEF GoOn
      <3>4. CASE DeleteChunk /\ GoOn /\ UNCHANGED outbid
        BY <3>1, <3>4, DedupDeletes DEF GoOn, run
      <3>5. CASE (Finish \/ Stop) /\ ~busy' /\ UNCHANGED outbid
        BY <3>1, <3>5, DedupEnds
      <3> QED
        BY <2>2, <3>2, <3>3, <3>4, <3>5 DEF DedupStep, Return, Fail
    <2>3. CASE MultipartClean
      BY <2>3, BeginKeeps, Order DEF MultipartClean
    <2>4. CASE BeginQuarantine
      BY <2>4, BeginKeeps, Order DEF BeginQuarantine
    <2>5. CASE BeginPurge \/ BeginRestore
      BY <2>5, BeginKeeps, Order DEF BeginPurge, BeginRestore, BeginBatches
    <2>6. CASE WriteManifest \/ NoMoreBatches \/ Raise
      <3>1. CASE WriteManifest
        BY <3>1, QuietKeeps DEF WriteManifest, Return, At
      <3>2. CASE NoMoreBatches
        <4>1. cands = {}
          BY <3>2 DEF NoMoreBatches, RunInv, CleanInv, Stage, At
        <4> QED
          BY <3>2, <4>1, QuietKeeps DEF NoMoreBatches, Return, At
      <3>3. CASE Raise
        BY <3>3, QuietKeeps DEF Raise, Fail
      <3> QED
        BY <2>6, <3>1, <3>2, <3>3
    <2>7. ASSUME NEW k \in Keys, MoveOut(k) \/ Owner(k)
          PROVE  Kept4'
      BY <2>7, MoveKeeps, OwnerKeeps
    <2>8. ASSUME NEW b \in Batches, PurgeBatch(b) \/ DropManifest(b) \/ \E k \in Keys : RestoreOne(b, k)
          PROVE  Kept4'
      <3>1. CASE DropManifest(b)
        BY <3>1, QuietKeeps DEF DropManifest, GoOn
      <3> QED
        BY <2>8, <3>1, PurgeKeeps, RestoreKeeps
    <2> QED
      BY <1>1, <2>1, <2>2, <2>3, <2>4, <2>5, <2>6, <2>7, <2>8 DEF RunNext
  <1>2. CASE RunNext
    BY <1>1, <1>2, AddsKeeps DEF RunInv
  <1>3. CASE UNCHANGED runVars
    <2>1. UNCHANGED <<vars, clean, vault, purged, outbid, busy, cands, manifest, rest, failed,
                    dropped>>
      BY <1>3 DEF runVars, run
    <2>2. CleanInv' /\ Safe' /\ Settled' /\ ProtectedKeysStay'
      BY <2>1, QuietKeeps
    <2>3. Adds'
      BY <2>1 DEF RunInv, Adds, AllListed, AllHeld, At, HeldIn, Listed
    <2> QED
      BY <2>2, <2>3 DEF RunInv
  <1> QED
    BY <1>2, <1>3
LEMMA RunInvariant == RunSpec => [](RunTypeOK /\ RunInv)
  <1>1. RunInit => RunTypeOK /\ RunInv
    BY TypeInit, RunInvInit
  <1>2. RunTypeOK /\ RunInv /\ [RunNext]_runVars => (RunTypeOK /\ RunInv)'
    BY TypeStep, RunInvStep
  <1> QED
    BY <1>1, <1>2, PTL DEF RunSpec

-----------------------------------------------------------------------------
(* Whatever cleans a run does, in which of them it fails and what the      *)
(* owners do meanwhile, a content they did not touch is in the bucket or   *)
(* in quarantine, unless a purge deleted a copy when the bucket had none.  *)
THEOREM QuietContentsSurvive == RunSpec => []QuietContentsStay
  <1>1. RunInv => QuietContentsStay
    <2> SUFFICES ASSUME RunInv, NEW k \in Keys, NEW c \in mine[k] \ touched
                 PROVE  c \in Stored \cup InVault \cup purged
      BY DEF QuietContentsStay, Owned
    <2>1. ASSUME NEW m \in Keys, c \in Here(m)
          PROVE  c \in Stored
      BY <2>1 DEF Stored, Here
    <2>2. ASSUME NEW m \in Keys, NEW b \in Batches, c \in vault[b][m]
          PROVE  c \in InVault
      BY <2>2 DEF InVault
    <2>3. CASE Own(k, c)
      BY <2>1, <2>2, <2>3 DEF Own, Vaults
    <2>4. CASE \E m \in Keys : Firm(m, c)
      BY <2>1, <2>2, <2>4 DEF Firm, Batches
    <2> QED
      BY <2>3, <2>4 DEF RunInv, Safe
  <1> QED
    BY <1>1, RunInvariant, PTL

(* What no rule matches, and dedup did not give up for a matched key, has  *)
(* its content in the bucket throughout the run.                           *)
THEOREM UnmatchedContentsSurvive == RunSpec => []UnmatchedContentsStay
  <1>1. RunInv => UnmatchedContentsStay
    BY DEF RunInv, Settled, UnmatchedContentsStay, Stored, Here
  <1> QED
    BY <1>1, RunInvariant, PTL

(* After every clean of a run without failures the manifests list just     *)
(* what is in quarantine, and after a restore no batch is left: but for    *)
(* what a purge left of batches at which an error was dropped.             *)
THEOREM RunsAddUp == RunSpec => []RunAddsUp
  <1>1. RunTypeOK /\ RunInv => RunAddsUp
    <2> SUFFICES ASSUME RunTypeOK, RunInv, ~busy, ~failed
                 PROVE  /\ \A b \in Batches \ dropped : HeldIn(b) = UNION manifest[b]
                        /\ clean = "restore" =>
                              /\ Listed = {}
                              /\ Owned \ (touched \cup purged) \subseteq Stored \cup LeftIn(dropped)
      BY DEF RunAddsUp
    <2>1. \A b \in Batches \ dropped : HeldIn(b) = UNION manifest[b]
      BY DEF RunInv, Adds, AllListed, AllHeld, At
    <2>2. ASSUME clean = "restore"
          PROVE  Listed = {} /\ Owned \ (touched \cup purged) \subseteq Stored \cup LeftIn(dropped)
      <3>1. Listed = {}
        BY <2>2 DEF RunInv, Adds
      <3>2. \A b \in Batches \ dropped : HeldIn(b) = {}
        BY <2>1, <3>1 DEF Listed
      <3>3. \A b \in Batches \ dropped, k \in Keys : vault[b][k] = {}
        BY <3>2 DEF HeldIn
      <3>4. ASSUME NEW k \in Keys, NEW c \in mine[k] \ touched, c \notin purged
            PROVE  \E m \in Keys : c \in Here(m) \/ \E b \in dropped : c \in vault[b][m]
        <4>1. Own(k, c) \/ \E m \in Keys : Firm(m, c)
          BY <3>4 DEF RunInv, Safe
        <4>2. \E m \in Keys : c \in Here(m) \/ \E b \in Batches : c \in vault[b][m]
          BY <4>1 DEF Own, Firm, Vaults, Batches
        <4> QED
          BY <3>3, <4>2
      <3>5. ASSUME NEW c, NEW m \in Keys, c \in Here(m)
            PROVE  c \in Stored
        BY <3>5 DEF Stored, Here
      <3>6. ASSUME NEW c, NEW m \in Keys, NEW b \in dropped, c \in vault[b][m]
            PROVE  c \in LeftIn(dropped)
        BY <3>6 DEF LeftIn
      <3> QED
        BY <3>1, <3>4, <3>5, <3>6 DEF Owned
    <2> QED
      BY <2>1, <2>2
  <1> QED
    BY <1>1, RunInvariant, PTL

(* When dedup is done, every group of equal objects that nobody touched    *)
(* has one left, its oldest or newest as asked, beside just those whose    *)
(* deletion reported an error.                                             *)
THEOREM OneCopyIsKept == RunSpec => []OneIsKept
  <1>1. RunTypeOK /\ RunInv => OneIsKept
    <2> SUFFICES ASSUME RunTypeOK, RunInv, step = "done", NEW k \in Keys, Comparable(k),
                        ContentOf(listed[k]) \cap touched = {}
                 PROVE  \E kept \in Group(k) :
                          /\ \A m \in Group(k) :
                                ContentOf(bucket[m]) = ContentOf(listed[k])
                                   <=> m = kept \/ m \in spared
                          /\ \A m \in Group(k) : IF keep = "oldest"
                                                 THEN Modified(kept) <= Modified(m)
                                                 ELSE Modified(kept) >= Modified(m)
      BY DEF OneIsKept
    <2>1. PICK kept \in Group(k) : Kept(kept)
      BY KeptExists
    <2>2. PICK c : ContentOf(listed[k]) = {c}
      <3>1. listed[k] # {} /\ listed[k] \in Maybe(Object)
        BY DEF Comparable, RunTypeOK, TypeOK
      <3> QED
        BY <3>1, ContentType, OneAtMost
    <2>3. \A m \in Group(k) : /\ m \in Keys /\ Comparable(m) /\ Group(m) = Group(k)
                              /\ ContentOf(listed[m]) = {c}
      BY <2>2 DEF Group
    <2>4. \A m \in Group(k) : Kept(m) => m = kept
      BY <2>1, <2>3, Ranked DEF Kept, Ranks
    <2>5. \A m \in Group(k) : ContentOf(bucket[m]) = {c} <=> m = kept \/ m \in spared
      <3> SUFFICES ASSUME NEW m \in Group(k)
                   PROVE  Here(m) = {c} <=> m = kept \/ m \in spared
        BY DEF Here
      <3>1. c \notin touched /\ todo = {}
        BY <2>2 DEF RunInv, CleanInv, Stage
      <3>2. IF Kept(m) THEN c \in Here(m) ELSE m \in spared <=> c \in Here(m)
        BY <2>3, <3>1 DEF RunInv, CleanInv, Choice
      <3>3. Here(m) \in Maybe(Contents)
        BY <2>3, ContentType DEF Here, RunTypeOK, TypeOK
      <3>4. c \in Here(m) <=> Here(m) = {c}
        BY <3>3, OneAtMost
      <3> QED
        BY <2>1, <2>4, <3>2, <3>4
    <2>6. \A m \in Group(k) : Ranks(kept, m)
      BY <2>1, <2>3 DEF Kept, Ranks
    <2>7. \A m \in Group(k) : IF keep = "oldest" THEN Modified(kept) <= Modified(m)
                                                 ELSE Modified(kept) >= Modified(m)
      BY <2>3, <2>6, Ranked
    <2> QED
      BY <2>2, <2>5, <2>7
  <1> QED
    BY <1>1, RunInvariant, PTL

(* No clean of a run changes what is under a protected key. *)
THEOREM ProtectionsHold == RunSpec => []ProtectedKeysStay
  BY RunInvariant, PTL DEF RunInv
=============================================================================
