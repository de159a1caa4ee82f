--------------------------- MODULE MultipartProofs ---------------------------
(***************************************************************************)
(* Theorems of Multipart: for any uploads and keys, any number of cleans   *)
(* at once, from the CLI or the UI, with any age limits, and whatever the  *)
(* clients do meanwhile.                                                   *)
(***************************************************************************)
EXTENDS Multipart, FiniteSetTheorems, TLAPS

(* The old uploads that have ended and that a clean has not before it. *)
Passed(c) == Ended(c) \ run[c].found

(* What a clean has found, and will abort, is old; what was there when it  *)
(* began and is old, it has still to come to, has found, or is gone; what  *)
(* it aborted was old; and it has counted what it aborted and perhaps some *)
(* of the old ones that ended, none of which it will come to again.        *)
CleanerInv(c) ==
    /\ run[c].pc = "idle" => run[c].found = {} /\ there[c] = {} /\ run[c].count = 0
    /\ run[c].pc \in {"found", "aborting"} => run[c].apply
    /\ run[c].pc # "listing" => run[c].ahead = {}
    /\ run[c].pc = "done" => run[c].found = {}
    /\ \A u \in run[c].found : upload[u] # "none" /\ OldEnough(c, u)
    /\ \A u \in there[c] : upload[u] # "none"
    /\ \A u \in there[c] \cap Open : OldEnough(c, u) => u \in run[c].ahead \cup run[c].found
    /\ \A u \in Mine(c) : /\ upload[u] = "aborted" /\ run[c].pc # "idle"
                          /\ run[c].apply /\ OldEnough(c, u)
    /\ Cardinality(Mine(c)) <= run[c].count /\ run[c].count <= Cardinality(Passed(c))
    /\ strict => run[c].count = Cardinality(Mine(c))

LockInv == lock = {} \/ \E c \in Cleaners : lock = {c}

Inv == TypeOK /\ LockInv /\ \A c \in Cleaners : CleanerInv(c)

-----------------------------------------------------------------------------
LEMMA Counting ==
  ASSUME NEW S \in SUBSET Uploads
  PROVE  /\ IsFiniteSet(S) /\ Cardinality(S) \in Nat
         /\ Cardinality(S) <= Cardinality(Uploads) /\ Cardinality(Uploads) \in Nat
         /\ \A T \in SUBSET S : Cardinality(T) <= Cardinality(S)
  BY UploadsAssumption, FS_Subset, FS_CardinalityType

LEMMA Subsets ==
  ASSUME NEW c
  PROVE  /\ Mine(c) \in SUBSET Uploads /\ Ended(c) \in SUBSET Uploads
         /\ Passed(c) \in SUBSET Uploads
  BY DEF Mine, Ended, Passed

LEMMA LockType == LockInv => lock \in SUBSET Cleaners /\ Cardinality(lock) <= 1
  <1>1. CASE lock = {}
    <2>1. Cardinality(lock) = 0
      BY <1>1, FS_EmptySet
    <2> QED
      BY <1>1, <2>1
  <1>2. ASSUME NEW c \in Cleaners, lock = {c}
        PROVE  lock \in SUBSET Cleaners /\ Cardinality(lock) <= 1
    <2>1. Cardinality({c}) = 1
      BY FS_Singleton
    <2>2. lock \subseteq Cleaners
      BY <1>2
    <2> QED
      BY <1>2, <2>1, <2>2
  <1> QED
    BY <1>1, <1>2 DEF LockInv

LEMMA SetRun ==
  ASSUME TypeOK, NEW c \in Cleaners, NEW new \in Run, Set(c, new)
  PROVE  /\ run' \in [Cleaners -> Run] /\ run'[c] = new
         /\ \A x \in Cleaners \ {c} : run'[x] = run[x]
  BY DEF TypeOK, Set

LEMMA InvInit == Init => Inv
  <1> SUFFICES ASSUME Init PROVE Inv
    OBVIOUS
  <1>1. LockInv
    BY DEF Init, LockInv
  <1>2. Cardinality(Uploads) \in Nat
    BY UploadsAssumption, FS_CardinalityType
  <1>3. TypeOK
    <2>1. run \in [Cleaners -> Run]
      BY <1>2, BoundsAssumption DEF Init, Run, Pcs
    <2>2. lock \in SUBSET Cleaners /\ Cardinality(lock) <= 1
      BY <1>1, LockType
    <2>3. 0 \in 0..MaxTime
      BY BoundsAssumption
    <2>4. /\ upload \in [Uploads -> {"none", "open", "completed", "aborted"}]
          /\ began \in [Uploads -> 0..MaxTime] /\ now \in 0..MaxTime /\ strict \in BOOLEAN
          /\ there \in [Cleaners -> SUBSET Uploads] /\ by \in [Uploads -> SUBSET Cleaners]
      BY <2>3 DEF Init
    <2> QED
      BY <2>1, <2>2, <2>4 DEF TypeOK
  <1>4. ASSUME NEW c \in Cleaners PROVE CleanerInv(c)
    <2>1. Mine(c) = {} /\ Passed(c) = {}
      BY DEF Mine, Passed, Ended, Init
    <2>2. Cardinality(Mine(c)) = 0 /\ Cardinality(Passed(c)) = 0
      BY <2>1, FS_EmptySet
    <2> QED
      BY <2>1, <2>2 DEF Init, CleanerInv
  <1> QED
    BY <1>1, <1>3, <1>4 DEF Inv

-----------------------------------------------------------------------------
(* A clean that does not move keeps what it knows: uploads do not open     *)
(* again, and others' aborts are not its own.                              *)
Onward(c) == /\ \A u \in Uploads :
                   /\ upload[u] # "none" => /\ upload'[u] # "none" /\ began'[u] = began[u]
                                            /\ upload'[u] = "open" => upload[u] = "open"
                   /\ upload[u] \in {"completed", "aborted"} => upload'[u] = upload[u]
             /\ Mine(c)' = Mine(c) /\ strict' = strict

LEMMA Rests ==
  ASSUME TypeOK, NEW c \in Cleaners, CleanerInv(c), Onward(c),
         run'[c] = run[c], there'[c] = there[c]
  PROVE  CleanerInv(c)'
  <1>1. /\ run[c].found \subseteq Uploads /\ there[c] \subseteq Uploads /\ Mine(c) \subseteq Uploads
        /\ Open \subseteq Uploads
    BY DEF TypeOK, Run, Mine, Open
  <1>2. \A u \in Uploads : upload[u] # "none" => (OldEnough(c, u)' <=> OldEnough(c, u))
    BY DEF Onward, OldEnough
  <1>3. \A u \in there[c] : u \in Open' => u \in Open
    BY <1>1 DEF CleanerInv, Onward, Open
  <1>4. \A u \in Mine(c) : upload[u] # "none" /\ upload'[u] = "aborted"
    BY <1>1 DEF CleanerInv, Onward
  <1>5. \A u \in there[c] \cap Open' : OldEnough(c, u)' => u \in run[c].ahead \cup run[c].found
    BY <1>1, <1>2, <1>3 DEF CleanerInv
  <1>6. \A u \in run[c].found : upload'[u] # "none" /\ OldEnough(c, u)'
    BY <1>1, <1>2 DEF CleanerInv, Onward
  <1>7. \A u \in Mine(c)' : upload'[u] = "aborted" /\ run[c].pc # "idle" /\ run[c].apply /\ OldEnough(c, u)'
    BY <1>1, <1>2, <1>4 DEF CleanerInv, Onward
  <1>8. Passed(c) \in SUBSET Passed(c)'
    <2>1. \A u \in Ended(c) : u \in Ended(c)'
      BY <1>2 DEF Ended, Onward
    <2> QED
      BY <2>1 DEF Passed
  <1>9. /\ Cardinality(Passed(c)) <= Cardinality(Passed(c)')
        /\ Cardinality(Passed(c)) \in Nat /\ Cardinality(Passed(c)') \in Nat
    <2>1. Passed(c)' \in SUBSET Uploads
      BY DEF Passed, Ended
    <2> QED
      BY <1>8, <2>1, Counting, Subsets
  <1>10. run[c].count <= Cardinality(Passed(c)')
    <2>1. run[c].count \in Nat
      BY Counting, Subsets DEF TypeOK, Run
    <2> QED
      BY <1>9, <2>1 DEF CleanerInv
  <1> QED
    BY <1>1, <1>5, <1>6, <1>7, <1>10 DEF CleanerInv, Onward

(* A clean that goes from one stage to another. *)
LEMMA GoesOn ==
  ASSUME TypeOK, NEW c \in Cleaners, CleanerInv(c), UNCHANGED <<upload, began, strict, history>>,
         NEW p \in Pcs \ {"idle", "listing"}, Set(c, [run[c] EXCEPT !.pc = p]),
         run[c].ahead = {},
         p \in {"found", "aborting"} => run[c].apply,
         p = "done" => run[c].found = {}
  PROVE  /\ run' \in [Cleaners -> Run]
         /\ \A x \in Cleaners \ {c} : run'[x] = run[x]
         /\ CleanerInv(c)'
  <1>1. [run[c] EXCEPT !.pc = p] \in Run
    <2>1. run[c] \in Run /\ p \in Pcs
      BY DEF TypeOK
    <2> QED
      BY <2>1 DEF Run
  <1>2. /\ run' \in [Cleaners -> Run] /\ run'[c] = [run[c] EXCEPT !.pc = p]
        /\ \A x \in Cleaners \ {c} : run'[x] = run[x]
    BY <1>1, SetRun
  <1>3. /\ run'[c].pc = p
        /\ run'[c].apply = run[c].apply /\ run'[c].older = run[c].older
        /\ run'[c].start = run[c].start /\ run'[c].ahead = run[c].ahead
        /\ run'[c].found = run[c].found /\ run'[c].count = run[c].count
    BY <1>2 DEF TypeOK, Run
  <1>4. Mine(c)' = Mine(c) /\ Open' = Open
    BY DEF Mine, Open, history
  <1>5. \A u \in Uploads : OldEnough(c, u)' <=> OldEnough(c, u)
    BY <1>3 DEF OldEnough
  <1>6. \A u \in run[c].found \cup there[c] \cup Mine(c) : u \in Uploads
    BY DEF TypeOK, Run, Mine
  <1>7. Passed(c)' = Passed(c)
    BY <1>3, <1>5 DEF Passed, Ended
  <1> QED
    BY <1>2, <1>3, <1>4, <1>5, <1>6, <1>7 DEF CleanerInv, history

-----------------------------------------------------------------------------
(* The listing and the aborts. *)
LEMMA StartKeeps ==
  ASSUME TypeOK, NEW c \in Cleaners, CleanerInv(c), Start(c)
  PROVE  /\ run' \in [Cleaners -> Run] /\ there' \in [Cleaners -> SUBSET Uploads]
         /\ \A x \in Cleaners \ {c} : run'[x] = run[x] /\ there'[x] = there[x]
         /\ CleanerInv(c)'
  <1>1. PICK via \in {"cli", "ui"}, apply \in BOOLEAN, older \in {AnyAge} \cup 0..MaxAge :
           Set(c, [run[c] EXCEPT !.pc = "listing", !.via = via, !.apply = apply,
                     !.older = older, !.start = now, !.ahead = Uploads])
    BY DEF Start
  <1> DEFINE new == [run[c] EXCEPT !.pc = "listing", !.via = via, !.apply = apply,
                       !.older = older, !.start = now, !.ahead = Uploads]
  <1>a. run[c] \in Run /\ now \in 0..MaxTime /\ Uploads \in SUBSET Uploads
    BY DEF TypeOK
  <1>b. "listing" \in Pcs
    BY DEF Pcs
  <1>2. /\ new \in Run /\ new.pc = "listing" /\ new.ahead = Uploads
        /\ new.found = run[c].found /\ new.count = run[c].count
    BY <1>a, <1>b DEF Run
  <1> HIDE DEF new
  <1>3. /\ run' \in [Cleaners -> Run] /\ run'[c] = new
        /\ \A x \in Cleaners \ {c} : run'[x] = run[x]
    BY <1>1, <1>2, SetRun DEF new
  <1>4. /\ there'[c] = Open /\ \A x \in Cleaners \ {c} : there'[x] = there[x]
        /\ there' \in [Cleaners -> SUBSET Uploads]
        /\ UNCHANGED <<upload, strict, by>>
    BY DEF Start, TypeOK, Open
  <1>5. Mine(c)' = Mine(c) /\ Mine(c) = {} /\ run[c].found = {} /\ run[c].count = 0
    BY <1>4 DEF Mine, CleanerInv, Start
  <1>6. \A u \in Open : u \in Uploads /\ upload[u] # "none"
    BY DEF Open
  <1>7. Cardinality(Mine(c)') = 0 /\ 0 <= Cardinality(Passed(c)')
    <2>1. Passed(c)' \in SUBSET Uploads
      BY DEF Passed, Ended
    <2> QED
      BY <1>5, <2>1, Counting, FS_EmptySet
  <1> QED
    BY <1>2, <1>3, <1>4, <1>5, <1>6, <1>7 DEF CleanerInv, Open

LEMMA ListKeeps ==
  ASSUME TypeOK, NEW c \in Cleaners, CleanerInv(c), NEW u \in Uploads, ListNext(c, u)
  PROVE  /\ run' \in [Cleaners -> Run]
         /\ \A x \in Cleaners \ {c} : run'[x] = run[x]
         /\ CleanerInv(c)'
  <1> DEFINE more == IF u \in Open /\ OldEnough(c, u) THEN run[c].found \cup {u} ELSE run[c].found
             new  == [run[c] EXCEPT !.ahead = run[c].ahead \ {u}, !.found = more]
  <1>1. Set(c, new) /\ run[c].pc = "listing" /\ UNCHANGED <<upload, began, strict, there, by>>
    BY DEF ListNext, history
  <1>2. more \in SUBSET Uploads
    BY DEF TypeOK, Run
  <1>3. /\ new \in Run /\ new.pc = "listing" /\ new.ahead = run[c].ahead \ {u} /\ new.found = more
        /\ new.apply = run[c].apply /\ new.older = run[c].older /\ new.start = run[c].start
        /\ new.count = run[c].count
    <2>1. run[c] \in Run /\ run[c].ahead \ {u} \in SUBSET Uploads
      BY DEF TypeOK, Run
    <2>2. new \in Run
      BY <1>2, <2>1 DEF Run
    <2> QED
      BY <1>1, <2>1, <2>2 DEF Run
  <1>4. \A v \in more : v \in run[c].found \/ (v = u /\ u \in Open /\ OldEnough(c, u))
    OBVIOUS
  <1>5. run[c].found \subseteq more /\ (u \in Open /\ OldEnough(c, u) => u \in more)
    OBVIOUS
  <1> HIDE DEF new, more
  <1>6. /\ run' \in [Cleaners -> Run] /\ run'[c] = new
        /\ \A x \in Cleaners \ {c} : run'[x] = run[x]
    BY <1>1, <1>3, SetRun
  <1>7. Mine(c)' = Mine(c) /\ Open' = Open /\ there' = there /\ upload' = upload
    BY <1>1 DEF Mine, Open
  <1>8. \A v \in Uploads : OldEnough(c, v)' <=> OldEnough(c, v)
    BY <1>1, <1>3, <1>6 DEF OldEnough
  <1>9. \A v \in more : upload[v] # "none" /\ OldEnough(c, v)'
    BY <1>2, <1>4, <1>8 DEF CleanerInv, Open
  <1>10. \A v \in there[c] \cap Open : OldEnough(c, v)' => v \in new.ahead \cup more
    <2>1. \A v \in Open : v \in Uploads
      BY DEF Open
    <2> QED
      BY <1>3, <1>5, <1>8, <2>1 DEF CleanerInv
  <1>11. \A v \in Mine(c) : upload[v] = "aborted" /\ run[c].apply /\ OldEnough(c, v)'
    BY <1>8 DEF CleanerInv, Mine
  <1>12. Passed(c)' = Passed(c)
    <2>1. Ended(c)' = Ended(c)
      BY <1>7, <1>8 DEF Ended
    <2>2. u \in Open => u \notin Ended(c)
      BY DEF Open, Ended
    <2>3. Ended(c) \ more = Ended(c) \ run[c].found
      BY <1>4, <1>5, <2>2
    <2> QED
      BY <1>3, <1>6, <2>1, <2>3 DEF Passed
  <1> QED
    BY <1>1, <1>3, <1>6, <1>7, <1>9, <1>10, <1>11, <1>12 DEF CleanerInv

LEMMA AbortKeeps ==
  ASSUME TypeOK, \A x \in Cleaners : CleanerInv(x), NEW c \in Cleaners, NEW u \in Uploads, Abort(c, u)
  PROVE  TypeOK' /\ \A x \in Cleaners : CleanerInv(x)'
  <1> DEFINE new == [run[c] EXCEPT !.found = run[c].found \ {u}, !.count = run[c].count + 1]
  <1>1. /\ run[c].pc = "aborting" /\ u \in run[c].found /\ upload[u] = "open"
        /\ upload' = [upload EXCEPT ![u] = "aborted"]
        /\ by' = [by EXCEPT ![u] = {c}]
        /\ Set(c, new) /\ UNCHANGED <<began, now, strict, lock, there>>
    BY DEF Abort, Turn
  <1>2. \A x \in Cleaners : u \notin Mine(x)
    BY <1>1 DEF CleanerInv
  <1>3. /\ by'[u] = {c} /\ by' \in [Uploads -> SUBSET Cleaners]
        /\ \A v \in Uploads \ {u} : by'[v] = by[v]
    BY <1>1 DEF TypeOK
  <1>4. /\ Mine(c)' = Mine(c) \cup {u}
        /\ \A x \in Cleaners \ {c} : Mine(x)' = Mine(x)
    BY <1>2, <1>3 DEF Mine
  <1>5. Cardinality(Mine(c)') = Cardinality(Mine(c)) + 1
    BY <1>2, <1>4, Counting, Subsets, FS_AddElement
  <1>a. run[c].count + 1 <= Cardinality(Passed(c) \cup {u})
    <2>1. u \notin Passed(c)
      BY <1>1 DEF Passed
    <2>2. Cardinality(Passed(c) \cup {u}) = Cardinality(Passed(c)) + 1
      BY <2>1, Counting, Subsets, FS_AddElement
    <2>3. run[c].count \in Nat /\ Cardinality(Passed(c)) \in Nat
      BY Counting, Subsets DEF TypeOK, Run
    <2> QED
      BY <2>2, <2>3 DEF CleanerInv
  <1>b. Cardinality(Passed(c) \cup {u}) <= Cardinality(Uploads)
    BY Counting, Subsets
  <1>c. run[c].count + 1 \in 0..Cardinality(Uploads)
    <2>1. /\ run[c].count \in Nat /\ Cardinality(Uploads) \in Nat
          /\ Cardinality(Passed(c) \cup {u}) \in Nat
      BY Counting, Subsets DEF TypeOK, Run
    <2> QED
      BY <1>a, <1>b, <2>1
  <1>6. /\ new \in Run /\ new.pc = "aborting" /\ new.ahead = run[c].ahead
        /\ new.found = run[c].found \ {u} /\ new.count = run[c].count + 1
        /\ new.apply = run[c].apply /\ new.older = run[c].older /\ new.start = run[c].start
    <2>1. run[c] \in Run /\ run[c].found \ {u} \in SUBSET Uploads
      BY DEF TypeOK, Run
    <2>2. new \in Run
      BY <1>c, <2>1 DEF Run
    <2> QED
      BY <1>1, <2>1, <2>2 DEF Run
  <1> HIDE DEF new
  <1>7. /\ run' \in [Cleaners -> Run] /\ run'[c] = new
        /\ \A x \in Cleaners \ {c} : run'[x] = run[x]
    BY <1>1, <1>6, SetRun
  <1>8. /\ upload' \in [Uploads -> {"none", "open", "completed", "aborted"}]
        /\ upload'[u] = "aborted" /\ \A v \in Uploads \ {u} : upload'[v] = upload[v]
    BY <1>1 DEF TypeOK
  <1>9. TypeOK'
    BY <1>1, <1>3, <1>7, <1>8 DEF TypeOK
  <1>10. ASSUME NEW x \in Cleaners \ {c} PROVE CleanerInv(x)'
    <2>1. Onward(x)
      BY <1>1, <1>4, <1>8 DEF Onward
    <2> QED
      BY <1>1, <1>7, <2>1, Rests
  <1>11. CleanerInv(c)'
    <2>1. \A v \in Uploads : OldEnough(c, v)' <=> OldEnough(c, v)
      BY <1>1, <1>6, <1>7 DEF OldEnough
    <2>2. /\ run[c].found \subseteq Uploads /\ there[c] \subseteq Uploads /\ Mine(c) \subseteq Uploads
      BY DEF TypeOK, Run, Mine
    <2>3. Open' = Open \ {u} /\ Open \subseteq Uploads
      BY <1>1, <1>8 DEF Open
    <2>4. \A v \in new.found : upload'[v] # "none" /\ OldEnough(c, v)'
      BY <1>6, <1>8, <2>1, <2>2 DEF CleanerInv
    <2>5. \A v \in there[c] : upload'[v] # "none"
      BY <1>8, <2>2 DEF CleanerInv
    <2>6. \A v \in there[c] \cap Open' : OldEnough(c, v)' => v \in new.ahead \cup new.found
      BY <1>6, <2>1, <2>2, <2>3 DEF CleanerInv
    <2>7. \A v \in Mine(c)' : upload'[v] = "aborted" /\ new.apply /\ OldEnough(c, v)'
      BY <1>1, <1>4, <1>6, <1>8, <2>1, <2>2 DEF CleanerInv
    <2>8. new.apply /\ new.ahead = {}
      BY <1>1, <1>6 DEF CleanerInv
    <2>9. run'[c].count <= Cardinality(Passed(c)')
      <3>1. Passed(c)' = Passed(c) \cup {u}
        <4>1. Ended(c)' = Ended(c) \cup {u}
          <5>1. OldEnough(c, u)'
            BY <1>1, <2>1 DEF CleanerInv
          <5> QED
            BY <1>8, <2>1, <5>1 DEF Ended
        <4> QED
          BY <1>6, <1>7, <4>1 DEF Passed
      <3> QED
        BY <1>a, <1>6, <1>7, <3>1
    <2>10. /\ Cardinality(Mine(c)') <= run'[c].count
           /\ strict' => run'[c].count = Cardinality(Mine(c)')
      <3>1. run[c].count \in Nat /\ Cardinality(Mine(c)) \in Nat
        BY Counting, Subsets DEF TypeOK, Run
      <3> QED
        BY <1>1, <1>5, <1>6, <1>7, <3>1 DEF CleanerInv
    <2> QED
      BY <1>1, <1>6, <1>7, <2>4, <2>5, <2>6, <2>7, <2>8, <2>9, <2>10 DEF CleanerInv
  <1> QED
    BY <1>9, <1>10, <1>11

(* A store that does not refuse: one more is counted, of those that ended. *)
LEMMA PassKeeps ==
  ASSUME TypeOK, NEW c \in Cleaners, CleanerInv(c), NEW u \in Uploads, AbortPasses(c, u)
  PROVE  /\ run' \in [Cleaners -> Run]
         /\ \A x \in Cleaners \ {c} : run'[x] = run[x]
         /\ CleanerInv(c)'
  <1> DEFINE new == [run[c] EXCEPT !.found = run[c].found \ {u}, !.count = run[c].count + 1]
  <1>1. /\ run[c].pc = "aborting" /\ u \in run[c].found /\ upload[u] # "open" /\ ~strict
        /\ Set(c, new) /\ UNCHANGED <<upload, began, strict, there, by>>
    BY DEF AbortPasses, Turn, history
  <1>2. u \in Ended(c) /\ u \notin Passed(c)
    <2>1. upload[u] \in {"completed", "aborted"}
      BY <1>1 DEF TypeOK, CleanerInv
    <2> QED
      BY <1>1, <2>1 DEF CleanerInv, Ended, Passed
  <1>3. /\ run[c].count \in Nat /\ Cardinality(Passed(c)) \in Nat
        /\ Cardinality(Mine(c)) \in Nat /\ Cardinality(Uploads) \in Nat
        /\ Cardinality(Passed(c) \cup {u}) <= Cardinality(Uploads)
    BY Counting, Subsets DEF TypeOK, Run
  <1>4. /\ run[c].count + 1 <= Cardinality(Passed(c) \cup {u})
        /\ run[c].count + 1 \in 0..Cardinality(Uploads)
        /\ Cardinality(Mine(c)) <= run[c].count + 1
    <2>1. Cardinality(Passed(c) \cup {u}) = Cardinality(Passed(c)) + 1
      BY <1>2, Counting, Subsets, FS_AddElement
    <2> QED
      BY <1>3, <2>1 DEF CleanerInv
  <1>5. /\ new \in Run /\ new.pc = "aborting" /\ new.ahead = run[c].ahead
        /\ new.found = run[c].found \ {u} /\ new.count = run[c].count + 1
        /\ new.apply = run[c].apply /\ new.older = run[c].older /\ new.start = run[c].start
    <2>1. run[c] \in Run /\ run[c].found \ {u} \in SUBSET Uploads
      BY DEF TypeOK, Run
    <2>2. new \in Run
      BY <1>4, <2>1 DEF Run
    <2> QED
      BY <1>1, <2>1, <2>2 DEF Run
  <1> HIDE DEF new
  <1>6. /\ run' \in [Cleaners -> Run] /\ run'[c] = new
        /\ \A x \in Cleaners \ {c} : run'[x] = run[x]
    BY <1>1, <1>5, SetRun
  <1>7. \A v \in Uploads : OldEnough(c, v)' <=> OldEnough(c, v)
    BY <1>1, <1>5, <1>6 DEF OldEnough
  <1>8. Mine(c)' = Mine(c) /\ Open' = Open /\ Ended(c)' = Ended(c)
    BY <1>1, <1>7 DEF Mine, Open, Ended
  <1>9. Passed(c)' = Passed(c) \cup {u}
    BY <1>2, <1>5, <1>6, <1>8 DEF Passed
  <1>10. /\ \A v \in new.found : upload[v] # "none" /\ OldEnough(c, v)'
         /\ \A v \in Mine(c) : upload[v] = "aborted" /\ new.apply /\ OldEnough(c, v)'
    <2>1. run[c].found \subseteq Uploads /\ Mine(c) \subseteq Uploads
      BY DEF TypeOK, Run, Mine
    <2> QED
      BY <1>5, <1>7, <2>1 DEF CleanerInv
  <1>11. \A v \in there[c] \cap Open : OldEnough(c, v)' => v \in new.ahead \cup new.found
    <2>1. u \notin Open /\ Open \subseteq Uploads
      BY <1>1 DEF Open
    <2> QED
      BY <1>5, <1>7, <2>1 DEF CleanerInv
  <1>12. new.apply /\ new.ahead = {}
    BY <1>1, <1>5 DEF CleanerInv
  <1> QED
    BY <1>1, <1>4, <1>5, <1>6, <1>8, <1>9, <1>10, <1>11, <1>12 DEF CleanerInv

-----------------------------------------------------------------------------
LEMMA LockKeeps ==
  ASSUME LockInv, Next
  PROVE  LockInv'
  <1>1. ASSUME NEW c \in Cleaners, Clean(c)
        PROVE  lock' = lock \/ lock' = {c} \/ lock' = lock \ {c}
    BY <1>1 DEF Clean, Start, Return, Proceed, TakeLock, Refuse, Finish, ListNext, Abort, AbortRaises,
             AbortPasses
  <1>2. CASE \E c \in Cleaners : Clean(c)
    BY <1>1, <1>2 DEF LockInv
  <1>3. CASE (\E u \in Uploads : Begin(u) \/ End(u)) \/ Tick
    BY <1>3 DEF Begin, End, Tick, LockInv
  <1> QED
    BY <1>2, <1>3 DEF Next

LEMMA InvStep == Inv /\ [Next]_vars => Inv'
  <1> SUFFICES ASSUME Inv, [Next]_vars PROVE Inv'
    OBVIOUS
  <1> USE DEF Inv
  <1>0. LockInv'
    BY LockKeeps DEF vars, LockInv
  <1>l. lock' \in SUBSET Cleaners /\ Cardinality(lock') <= 1
    <2>1. (LockInv => lock \in SUBSET Cleaners /\ Cardinality(lock) <= 1)'
      BY LockType, PTL
    <2> QED
      BY <1>0, <2>1
  <1>1. ASSUME NEW c \in Cleaners, run' \in [Cleaners -> Run], there' \in [Cleaners -> SUBSET Uploads],
               UNCHANGED <<upload, began, now, strict, by>>,
               \A x \in Cleaners \ {c} : run'[x] = run[x] /\ there'[x] = there[x],
               CleanerInv(c)'
        PROVE  Inv'
    <2>1. TypeOK'
      BY <1>1, <1>l DEF TypeOK
    <2>2. ASSUME NEW x \in Cleaners \ {c} PROVE CleanerInv(x)'
      <3>1. Onward(x)
        BY <1>1 DEF Onward, Mine
      <3> QED
        BY <1>1, <3>1, Rests
    <2> QED
      BY <1>0, <1>1, <2>1, <2>2
  <1>2. ASSUME NEW c \in Cleaners, UNCHANGED <<upload, began, now, strict, history>>,
               NEW p \in Pcs \ {"idle", "listing"}, Set(c, [run[c] EXCEPT !.pc = p]),
               run[c].ahead = {},
               p \in {"found", "aborting"} => run[c].apply,
               p = "done" => run[c].found = {}
        PROVE  Inv'
    <2>1. there' \in [Cleaners -> SUBSET Uploads] /\ there' = there /\ by' = by
      BY <1>2 DEF TypeOK, history
    <2> QED
      BY <1>1, <1>2, <2>1, GoesOn
  <1>3. ASSUME NEW c \in Cleaners, Clean(c)
        PROVE  Inv'
    <2>1. CASE Start(c)
      BY <1>1, <2>1, StartKeeps DEF Start
    <2>2. CASE Return(c)
      BY <1>2, <2>2 DEF Return, Listed, Pcs
    <2>3. CASE Proceed(c)
      BY <1>2, <2>3 DEF Proceed, Listed, Pcs
    <2>4. CASE TakeLock(c)
      <3>1. run[c].ahead = {} /\ run[c].apply
        BY <2>4 DEF TakeLock, CleanerInv
      <3> QED
        BY <1>2, <2>4, <3>1 DEF TakeLock, Pcs
    <2>5. CASE Refuse(c)
      <3>1. run[c].ahead = {}
        BY <2>5 DEF Refuse, CleanerInv
      <3> QED
        BY <1>2, <2>5, <3>1 DEF Refuse, Pcs
    <2>6. CASE Finish(c)
      <3>1. run[c].ahead = {}
        BY <2>6 DEF Finish, CleanerInv
      <3> QED
        BY <1>2, <2>6, <3>1 DEF Finish, Pcs
    <2>7. ASSUME NEW u \in Uploads, ListNext(c, u)
          PROVE  Inv'
      <3>1. there' \in [Cleaners -> SUBSET Uploads] /\ there' = there
            /\ UNCHANGED <<upload, began, now, strict, by>>
        BY <2>7 DEF ListNext, history, TypeOK
      <3> QED
        BY <1>1, <2>7, <3>1, ListKeeps
    <2>8. ASSUME NEW u \in Uploads, Abort(c, u)
          PROVE  Inv'
      BY <1>0, <2>8, AbortKeeps
    <2>9. ASSUME NEW u \in Uploads, AbortRaises(c, u)
          PROVE  Inv'
      <3>1. run[c].ahead = {}
        BY <2>9 DEF AbortRaises, Turn, CleanerInv
      <3> QED
        BY <1>2, <2>9, <3>1 DEF AbortRaises, Pcs
    <2>10. ASSUME NEW u \in Uploads, AbortPasses(c, u)
           PROVE  Inv'
      <3>1. there' \in [Cleaners -> SUBSET Uploads] /\ there' = there
            /\ UNCHANGED <<upload, began, now, strict, by>>
        BY <2>10 DEF AbortPasses, history, TypeOK
      <3> QED
        BY <1>1, <2>10, <3>1, PassKeeps
    <2> QED
      BY <1>3, <2>1, <2>2, <2>3, <2>4, <2>5, <2>6, <2>7, <2>8, <2>9, <2>10 DEF Clean
  <1>4. ASSUME UNCHANGED <<strict, run, history>>, TypeOK',
               \A u \in Uploads :
                  /\ upload[u] # "none" => /\ upload'[u] # "none" /\ began'[u] = began[u]
                                           /\ upload'[u] = "open" => upload[u] = "open"
                  /\ upload[u] \in {"completed", "aborted"} => upload'[u] = upload[u]
        PROVE  Inv'
    <2>1. ASSUME NEW x \in Cleaners PROVE CleanerInv(x)'
      <3>1. Onward(x)
        BY <1>4 DEF Onward, Mine, history
      <3> QED
        BY <1>4, <3>1, Rests DEF history
    <2> QED
      BY <1>0, <1>4, <2>1
  <1>5. ASSUME NEW u \in Uploads, Begin(u) \/ End(u)
        PROVE  Inv'
    BY <1>4, <1>5, <1>l DEF Begin, End, TypeOK, history
  <1>6. CASE Tick
    <2>1. now' \in 0..MaxTime
      BY <1>6, BoundsAssumption DEF Tick, TypeOK
    <2> QED
      BY <1>4, <1>6, <2>1 DEF Tick, TypeOK, history
  <1>7. CASE UNCHANGED vars
    BY <1>4, <1>7 DEF vars, TypeOK, history
  <1> QED
    BY <1>3, <1>5, <1>6, <1>7 DEF Next

LEMMA Invariant == Spec => []Inv
  BY InvInit, InvStep, PTL DEF Spec

-----------------------------------------------------------------------------
(* Types, and at most one clean that holds the lock; a run never counts    *)
(* more aborts than there are uploads.                                     *)
THEOREM TypeCorrect == Spec => []TypeOK
  BY Invariant, PTL DEF Inv

(* However many cleans list at once, and whatever clients begin and end    *)
(* meanwhile, only uploads known to be old enough are aborted.             *)
THEOREM YoungOnesAreSafe == Spec => []OnlyOldOnesGo
  <1>1. Inv => OnlyOldOnesGo
    <2> SUFFICES ASSUME Inv, NEW u \in Uploads, NEW c \in Cleaners, c \in by[u]
                 PROVE  /\ run[c].apply
                        /\ run[c].older # AnyAge =>
                              u \notin Undated /\ began[u] + run[c].older <= run[c].start
      BY DEF OnlyOldOnesGo
    <2>1. run[c].apply /\ OldEnough(c, u)
      BY DEF Inv, CleanerInv, Mine
    <2>2. /\ began[u] \in Int /\ run[c].start \in Int
          /\ run[c].older # AnyAge => run[c].older \in Int
      BY BoundsAssumption DEF Inv, TypeOK, Run
    <2> QED
      BY <2>1, <2>2 DEF OldEnough
  <1> QED
    BY <1>1, Invariant, PTL

(* A clean that ends well has left none of the old uploads it found, who-  *)
(* ever else was at it.                                                    *)
THEOREM NoOldOneIsLeft == Spec => []OldOnesAreGone
  <1>1. Inv => OldOnesAreGone
    <2> SUFFICES ASSUME Inv, NEW c \in Cleaners, run[c].pc = "done", NEW u \in there[c] \cap Open
                 PROVE  run[c].older # AnyAge /\
                           (u \in Undated \/ began[u] + run[c].older > run[c].start)
      BY DEF OldOnesAreGone
    <2>1. ~OldEnough(c, u)
      BY DEF Inv, CleanerInv
    <2>2. /\ u \in Uploads
          /\ began[u] \in Int /\ run[c].start \in Int
          /\ run[c].older # AnyAge => run[c].older \in Int
      BY BoundsAssumption DEF Inv, TypeOK, Run, Open
    <2> QED
      BY <2>1, <2>2 DEF OldEnough
  <1> QED
    BY <1>1, Invariant, PTL

(* A clean counts one for each upload it aborts and at most one for each   *)
(* old upload that has ended, and only the former if the store refuses to  *)
(* abort what is no longer there.                                          *)
THEOREM CountsAddUp == Spec => []CountsAreTrue
  <1>1. Inv => CountsAreTrue
    <2> SUFFICES ASSUME Inv, NEW c \in Cleaners
                 PROVE  run[c].count <= Cardinality(Ended(c))
      BY DEF Inv, CleanerInv, CountsAreTrue
    <2>1. run[c].count \in Nat /\ run[c].count <= Cardinality(Passed(c))
      BY Counting, Subsets DEF Inv, CleanerInv, TypeOK, Run
    <2>2. Passed(c) \in SUBSET Ended(c)
      BY DEF Passed
    <2>3. Cardinality(Passed(c)) <= Cardinality(Ended(c))
      BY <2>2, Counting, Subsets
    <2>4. Cardinality(Passed(c)) \in Nat /\ Cardinality(Ended(c)) \in Nat
      BY Counting, Subsets
    <2> QED
      BY <2>1, <2>3, <2>4
  <1> QED
    BY <1>1, Invariant, PTL
=============================================================================
