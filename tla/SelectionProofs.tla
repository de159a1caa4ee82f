-------------------------- MODULE SelectionProofs --------------------------
(***************************************************************************)
(* Theorems of Selection: for any number of keys, rules and groups, any    *)
(* ages, sizes, exclusions and limits, and any number of runs at any times.*)
(***************************************************************************)
EXTENDS Selection, DataTheorems

LEMMA TypeInit == Init => TypeOK
  BY BoundsAssumption DEF Init, TypeOK, RuleNumbers

LEMMA TypeStep == TypeOK /\ [Next]_vars => TypeOK'
  <1> SUFFICES ASSUME TypeOK, [Next]_vars PROVE TypeOK'
    OBVIOUS
  <1> USE DEF TypeOK
  <1>1. CASE Scan
    <2>1. candidates' \subseteq Candidate
      BY <1>1 DEF Scan, Candidate
    <2> QED
      BY <1>1, <2>1 DEF Scan, input
  <1>2. CASE KeepNewest
    <2>1. next' \in 1..(RuleCount + 1)
      BY <1>2, BoundsAssumption DEF KeepNewest, RuleNumbers
    <2>2. candidates' \subseteq Candidate
      BY <1>2 DEF KeepNewest
    <2> QED
      BY <1>2, <2>1, <2>2 DEF KeepNewest, input
  <1>3. CASE NothingToDo \/ Refuse \/ Move
    BY <1>3 DEF NothingToDo, Refuse, Move, Decide, input
  <1>4. CASE RunAgain
    <2>1. run' \in 1..MaxRuns /\ next' \in 1..(RuleCount + 1)
      BY <1>4, BoundsAssumption DEF RunAgain
    <2>2. now' \in Times
      BY <1>4, BoundsAssumption DEF RunAgain, Times
    <2> QED
      BY <1>4, <2>1, <2>2 DEF RunAgain, input
  <1>5. CASE UNCHANGED vars
    BY <1>5 DEF vars, input
  <1> QED
    BY <1>1, <1>2, <1>3, <1>4, <1>5 DEF Next

-----------------------------------------------------------------------------
(* Sorting.  Newer is a strict total order, every set of keys has an       *)
(* oldest, and so an order newest first.                                   *)
LEMMA NewerIsAnOrder ==
  ASSUME TypeOK, NEW a \in Keys, NEW b \in Keys, NEW c \in Keys
  PROVE  /\ ~Newer(a, a)
         /\ a # b => Newer(a, b) \/ Newer(b, a)
         /\ ~(Newer(a, b) /\ Newer(b, a))
         /\ Newer(a, b) /\ Newer(b, c) => Newer(a, c)
  <1>1. /\ a \in Nat /\ b \in Nat /\ c \in Nat
        /\ modified[a] \in Int /\ modified[b] \in Int /\ modified[c] \in Int
    BY KeysAssumption, BoundsAssumption DEF TypeOK
  <1> QED
    BY <1>1 DEF Newer

LEMMA OldestExists ==
  ASSUME TypeOK, NEW T \in SUBSET Keys, T # {}
  PROVE  \E x \in T : \A y \in T \ {x} : Newer(y, x)
  <1> DEFINE times == {modified[x] : x \in T}
  <1>1. times \subseteq Nat /\ times # {}
    BY BoundsAssumption DEF TypeOK
  <1>2. PICK t \in times : \A u \in times : t <= u
    <2> HIDE DEF times
    <2> QED
      BY <1>1, LeastOf
  <1> DEFINE first == {x \in T : modified[x] = t}
  <1>3. first \subseteq Nat /\ first # {}
    BY KeysAssumption
  <1>4. PICK x \in first : \A y \in first : x <= y
    <2> HIDE DEF first
    <2> QED
      BY <1>3, LeastOf
  <1>5. ASSUME NEW y \in T \ {x}
        PROVE  Newer(y, x)
    <2>1. /\ modified[x] = t /\ t <= modified[y] /\ (modified[y] = t => x <= y)
          /\ t \in Nat /\ modified[y] \in Nat /\ x \in Nat /\ y \in Nat /\ x # y
      BY <1>1, <1>2, <1>4, KeysAssumption
    <2> QED
      BY <2>1 DEF Newer
  <1> QED
    BY <1>4, <1>5

InOrder(s) == \A m, n \in DOMAIN s : m < n => Newer(s[m], s[n])

LEMMA SortExists ==
  ASSUME TypeOK, NEW S \in SUBSET Keys
  PROVE  \E s \in SetToSeqs(S) : InOrder(s)
  <1> DEFINE F == {T \in SUBSET S : \E s \in SetToSeqs(T) : InOrder(s)}
  <1>1. IsFiniteSet(S)
    BY KeysAssumption, FS_Subset
  <1>2. ASSUME NEW T \in SUBSET S, \A U \in SUBSET T : U # T => U \in F
        PROVE  T \in F
    <2>1. CASE T = {}
      <3> DEFINE s == [p \in 1..0 |-> 0]
      <3>1. Cardinality(T) = 0
        BY <2>1, FS_EmptySet
      <3>2. s \in SetToSeqs(T)
        BY <3>1 DEF SetToSeqs
      <3>3. InOrder(s)
        BY DEF InOrder
      <3> QED
        BY <3>2, <3>3
    <2>2. CASE T # {}
      <3>1. PICK x \in T : \A y \in T \ {x} : Newer(y, x)
        BY <2>2, OldestExists
      <3> DEFINE U == T \ {x}
                 n == Cardinality(T)
      <3>2. IsFiniteSet(T) /\ n \in Nat /\ Cardinality(U) = n - 1
        BY <1>1, <3>1, FS_Subset, FS_CardinalityType, FS_RemoveElement
      <3>3. PICK r \in SetToSeqs(U) : InOrder(r)
        BY <1>2, <3>1
      <3>4. /\ r \in [1..(n - 1) -> U]
            /\ \A i, j \in 1..(n - 1) : i # j => r[i] # r[j]
            /\ \A i, j \in 1..(n - 1) : i < j => Newer(r[i], r[j])
        BY <3>2, <3>3 DEF SetToSeqs, InOrder
      <3> DEFINE s == [p \in 1..n |-> IF p = n THEN x ELSE r[p]]
      <3>5. \A p \in 1..n : p # n => p \in 1..(n - 1)
        BY <3>2
      <3>6. s \in [1..n -> T] /\ DOMAIN s = 1..n
        BY <3>1, <3>4, <3>5
      <3>7. \A i, j \in 1..n : i # j => s[i] # s[j]
        BY <3>1, <3>4, <3>5
      <3>8. \A i, j \in 1..n : i < j => Newer(s[i], s[j])
        <4> SUFFICES ASSUME NEW i \in 1..n, NEW j \in 1..n, i < j
                     PROVE  Newer(s[i], s[j])
          OBVIOUS
        <4>1. i # n /\ i \in 1..(n - 1) /\ s[i] = r[i] /\ r[i] \in T \ {x}
          BY <3>2, <3>4, <3>5
        <4>2. CASE j = n
          BY <3>1, <4>1, <4>2
        <4>3. CASE j # n
          BY <3>4, <3>5, <4>1, <4>3
        <4> QED
          BY <4>2, <4>3
      <3>9. s \in SetToSeqs(T)
        BY <3>6, <3>7 DEF SetToSeqs
      <3>10. InOrder(s)
        BY <3>6, <3>8 DEF InOrder
      <3> QED
        BY <3>9, <3>10
    <2> QED
      BY <2>1, <2>2
  <1> HIDE DEF F
  <1>3. S \in F
    BY <1>1, <1>2, SubsetInduction
  <1> QED
    BY <1>3 DEF F

(* NewestFirst is such an order, and has every member. *)
LEMMA Sorted ==
  ASSUME TypeOK, NEW S \in SUBSET Keys, NEW s, s = NewestFirst(S)
  PROVE  /\ Cardinality(S) \in Nat /\ s \in [1..Cardinality(S) -> S]
         /\ Len(s) = Cardinality(S)
         /\ \A i, j \in 1..Cardinality(S) : i # j => s[i] # s[j]
         /\ \A i, j \in 1..Cardinality(S) : i < j => Newer(s[i], s[j])
         /\ \A x \in S : \E i \in 1..Cardinality(S) : s[i] = x
  <1> DEFINE n == Cardinality(S)
  <1>1. IsFiniteSet(S) /\ n \in Nat
    BY KeysAssumption, FS_Subset, FS_CardinalityType
  <1>2. s \in SetToSeqs(S) /\ InOrder(s)
    BY SortExists DEF NewestFirst, InOrder
  <1>3. /\ s \in [1..n -> S] /\ DOMAIN s = 1..n
        /\ \A i, j \in 1..n : i # j => s[i] # s[j]
    BY <1>2 DEF SetToSeqs
  <1>4. \A i, j \in 1..n : i < j => Newer(s[i], s[j])
    BY <1>2, <1>3 DEF InOrder
  <1>5. Len(s) = n
    BY <1>1, <1>3
  <1>6. \A x \in S : \E i \in 1..n : s[i] = x
    <2>1. s \in Injection(1..n, S)
      BY <1>3 DEF Injection, IsInjective
    <2>2. IsFiniteSet(1..n) /\ Cardinality(1..n) = n
      BY <1>1, FS_Interval
    <2>3. s \in Surjection(1..n, S)
      BY <1>1, <2>1, <2>2, FS_Injection
    <2> QED
      BY <2>3 DEF Surjection
  <1> QED
    BY <1>1, <1>3, <1>4, <1>5, <1>6

(* The place of a member is by how many others are newer. *)
LEMMA Place ==
  ASSUME TypeOK, NEW S \in SUBSET Keys, NEW p \in 1..Cardinality(S)
  PROVE  Cardinality({m \in S : Newer(m, NewestFirst(S)[p])}) = p - 1
  <1> DEFINE n == Cardinality(S)
             s == NewestFirst(S)
             newer == {m \in S : Newer(m, s[p])}
  <1>1. /\ n \in Nat /\ s \in [1..n -> S]
        /\ \A i, j \in 1..n : i # j => s[i] # s[j]
        /\ \A i, j \in 1..n : i < j => Newer(s[i], s[j])
        /\ \A x \in S : \E i \in 1..n : s[i] = x
    BY Sorted
  <1> HIDE DEF s
  <1> DEFINE f == [i \in 1..(p - 1) |-> s[i]]
  <1>2. \A i \in 1..(p - 1) : i \in 1..n /\ s[i] \in S /\ Newer(s[i], s[p])
    BY <1>1
  <1>3. f \in [1..(p - 1) -> newer]
    BY <1>2
  <1>4. \A i, j \in 1..(p - 1) : i # j => f[i] # f[j]
    BY <1>1, <1>2
  <1>5. ASSUME NEW m \in newer
        PROVE  \E i \in 1..(p - 1) : f[i] = m
    <2>1. PICK i \in 1..n : s[i] = m
      BY <1>1
    <2>2. Newer(s[i], s[p]) /\ s[i] \in Keys /\ s[p] \in Keys
      BY <1>1, <2>1
    <2>3. ~(p < i) /\ i # p
      BY <1>1, <2>2, NewerIsAnOrder
    <2>4. i \in 1..(p - 1)
      BY <2>3
    <2> QED
      BY <2>1, <2>4
  <1>6. f \in Bijection(1..(p - 1), newer)
    <2> HIDE DEF f, newer
    <2> QED
      BY <1>3, <1>4, <1>5 DEF Bijection, Injection, IsInjective, Surjection
  <1>7. ExistsBijection(1..(p - 1), newer)
    BY <1>6 DEF ExistsBijection
  <1>8. p - 1 \in Nat
    BY <1>1
  <1> HIDE DEF newer
  <1>9. Cardinality(newer) = p - 1
    BY <1>7, <1>8, FS_CountingElements
  <1> QED
    BY <1>9 DEF newer, s

(* What lies behind the newest ones, by counting. *)
LEMMA RestIs ==
  ASSUME TypeOK, NEW i \in RuleNumbers, NEW g, rules[i].keep # PerObject
  PROVE  Rest(i, g) = {k \in Members(i, g) :
                          rules[i].keep <= Cardinality({m \in Members(i, g) : Newer(m, k)})}
  <1> DEFINE S == Members(i, g)
             n == Cardinality(S)
             s == NewestFirst(S)
  <1>1. S \in SUBSET Keys
    BY DEF Members, TypeOK
  <1>2. rules[i].keep \in Nat
    BY BoundsAssumption DEF TypeOK, Rule
  <1>3. Rest(i, g) = {s[p] : p \in (rules[i].keep + 1)..Len(s)}
    BY DEF Rest
  <1> HIDE DEF S
  <1>4. /\ n \in Nat /\ s \in [1..n -> S] /\ Len(s) = n
        /\ \A x \in S : \E p \in 1..n : s[p] = x
    BY <1>1, Sorted
  <1>5. \A p \in 1..n : Cardinality({m \in S : Newer(m, s[p])}) = p - 1
    BY <1>1, Place
  <1> HIDE DEF s, n
  <1>6. ASSUME NEW p \in 1..n
        PROVE  p \in (rules[i].keep + 1)..n
                 <=> rules[i].keep <= Cardinality({m \in S : Newer(m, s[p])})
    BY <1>2, <1>4, <1>5
  <1>7. \A p \in (rules[i].keep + 1)..n : p \in 1..n
    BY <1>2, <1>4
  <1>8. Rest(i, g) = {k \in S : rules[i].keep <= Cardinality({m \in S : Newer(m, k)})}
    BY <1>3, <1>4, <1>6, <1>7
  <1> QED
    BY <1>8 DEF S

-----------------------------------------------------------------------------
(* What the rules mean: one rule at most for a key, and one if any finds   *)
(* it.                                                                     *)
LEMMA RuleTypes ==
  ASSUME TypeOK, NEW i \in RuleNumbers
  PROVE  /\ i \in Nat /\ (rules[i].keep # PerObject => rules[i].keep \in Nat)
         /\ \A k \in Keys : rules[i].group[k] \in Groups \cup {NoGroup}
  BY BoundsAssumption DEF TypeOK, Rule, RuleNumbers

LEMMA MeantOnce ==
  ASSUME NEW live, NEW t, NEW c \in Meant(live, t), NEW d \in Meant(live, t), c.key = d.key
  PROVE  c = d
  <1>1. /\ c \in [key : live, rule : RuleNumbers] /\ d \in [key : live, rule : RuleNumbers]
        /\ c.rule \in Int /\ d.rule \in Int
    BY DEF Meant, RuleNumbers
  <1>2. CASE ByObject(c.rule, c.key, t) /\ ByObject(d.rule, d.key, t)
    <2>1. ~(c.rule < d.rule) /\ ~(d.rule < c.rule)
      BY <1>1, <1>2 DEF ByObject
    <2> QED
      BY <1>1, <2>1
  <1>3. CASE ~ByObject(c.rule, c.key, t) \/ ~ByObject(d.rule, d.key, t)
    <2>1. \A m \in RuleNumbers : ~ByObject(m, c.key, t)
      BY <1>3 DEF Meant
    <2>2. /\ Surplus(c.rule, c.key, live, t) /\ Surplus(d.rule, c.key, live, t)
          /\ ~(c.rule < d.rule) /\ ~(d.rule < c.rule)
      BY <1>1, <2>1 DEF Meant
    <2> QED
      BY <1>1, <2>2
  <1> QED
    BY <1>2, <1>3

(* The first keep-newest rule that finds a key chooses it. *)
LEMMA FirstSurplus ==
  ASSUME NEW live, NEW t, NEW k \in live, NEW i \in RuleNumbers, Surplus(i, k, live, t),
         \A m \in RuleNumbers : ~ByObject(m, k, t)
  PROVE  \E c \in Meant(live, t) : c.key = k /\ c.rule <= i /\ rules[c.rule].keep # PerObject
  <1> DEFINE those == {m \in RuleNumbers : Surplus(m, k, live, t)}
  <1>1. those \subseteq Nat /\ those # {}
    BY DEF RuleNumbers
  <1>2. PICK m \in those : \A n \in those : m <= n
    <2> HIDE DEF those
    <2> QED
      BY <1>1, LeastOf
  <1>3. m \in RuleNumbers /\ m <= i /\ \A n \in RuleNumbers : n < m => ~Surplus(n, k, live, t)
    BY <1>2 DEF RuleNumbers
  <1> DEFINE c == [key |-> k, rule |-> m]
  <1>4. c \in [key : live, rule : RuleNumbers] /\ c.key = k /\ c.rule = m
    BY <1>3
  <1>5. Surplus(c.rule, c.key, live, t)
    BY <1>2, <1>4
  <1>6. c \in Meant(live, t)
    BY <1>3, <1>4, <1>5 DEF Meant
  <1> QED
    BY <1>2, <1>3, <1>4, <1>6 DEF Surplus

(* A key that is not chosen, no rule finds. *)
LEMMA LeftAlone ==
  ASSUME NEW live, NEW t, NEW k \in live, \A c \in Meant(live, t) : c.key # k,
         NEW i \in RuleNumbers
  PROVE  ~ByObject(i, k, t) /\ ~Surplus(i, k, live, t)
  <1>1. ASSUME NEW m \in RuleNumbers, ByObject(m, k, t)
        PROVE  FALSE
    <2> DEFINE c == [key |-> k, rule |-> m]
    <2>1. c \in [key : live, rule : RuleNumbers] /\ c.key = k /\ c.rule = m
      OBVIOUS
    <2>2. c \in Meant(live, t)
      BY <1>1, <2>1 DEF Meant
    <2> QED
      BY <2>1, <2>2
  <1> QED
    BY <1>1, FirstSurplus

(* With fewer members a key is outnumbered by fewer. *)
LEMMA FewerMembers ==
  ASSUME TypeOK, NEW live \in SUBSET Keys, NEW left \in SUBSET live, NEW t, NEW k,
         NEW i \in RuleNumbers, Surplus(i, k, left, t)
  PROVE  Surplus(i, k, live, t)
  <1> DEFINE ahead(S) == {m \in S : /\ Accepts(i, m, t) /\ Newer(m, k)
                                    /\ rules[i].group[m] = rules[i].group[k]}
  <1>1. ahead(left) \in SUBSET ahead(live) /\ ahead(live) \in SUBSET Keys
    OBVIOUS
  <1>2. rules[i].keep \in Nat /\ rules[i].keep <= Cardinality(ahead(left))
    BY RuleTypes DEF Surplus, Outnumbered
  <1> HIDE DEF ahead
  <1>3. IsFiniteSet(ahead(live))
    BY <1>1, KeysAssumption, FS_Subset
  <1>4. /\ Cardinality(ahead(left)) <= Cardinality(ahead(live))
        /\ Cardinality(ahead(left)) \in Nat /\ Cardinality(ahead(live)) \in Nat
    BY <1>1, <1>3, FS_Subset, FS_CardinalityType
  <1>5. rules[i].keep <= Cardinality(ahead(live))
    BY <1>2, <1>4
  <1> QED
    BY <1>5 DEF ahead, Surplus, Outnumbered

(* Once everything meant has gone, nothing else is. *)
LEMMA NothingLeft ==
  ASSUME TypeOK, NEW live \in SUBSET Keys, NEW t,
         NEW left \in SUBSET live, \A c \in Meant(live, t) : c.key \notin left
  PROVE  Meant(left, t) = {}
  <1> SUFFICES ASSUME NEW c \in Meant(left, t) PROVE FALSE
    OBVIOUS
  <1>1. c.key \in left /\ c.key \in live /\ c.rule \in RuleNumbers
    BY DEF Meant
  <1>2. ~ByObject(c.rule, c.key, t) /\ ~Surplus(c.rule, c.key, live, t)
    BY <1>1, LeftAlone
  <1>3. Surplus(c.rule, c.key, left, t)
    BY <1>2 DEF Meant
  <1> QED
    BY <1>1, <1>2, <1>3, FewerMembers

LEMMA MeantTypes ==
  ASSUME NEW live \in SUBSET Keys, NEW t
  PROVE  Meant(live, t) \subseteq {c \in Candidate : c.key \in live \ excluded}
  BY DEF Meant, Candidate, ByObject, Surplus, Accepts

-----------------------------------------------------------------------------
(* The candidates are what is meant by the rules the pass has come to; a   *)
(* move leaves nothing that was meant at its time.                         *)
Chosen == {c \in Meant(bucket, now) : rules[c.rule].keep = PerObject \/ c.rule < next}

SelInv == /\ step = "scan" => candidates = {} /\ next = 1
          /\ step = "keep" => candidates = Chosen
          /\ already_selected \cap excluded = {}
          /\ excluded \subseteq bucket
          /\ Gone = {} <=> batches = 0
          /\ movedAt # Never => Meant(bucket, movedAt) = {}

Inv == TypeOK /\ SelInv /\ BlastRadius

LEMMA InvInit == Init => Inv
  <1> SUFFICES ASSUME Init PROVE Inv
    OBVIOUS
  <1>1. TypeOK
    BY TypeInit
  <1>2. SelInv
    BY DEF Init, SelInv, already_selected, Gone
  <1>3. BlastRadius
    BY DEF Init, BlastRadius, Gone
  <1> QED
    BY <1>1, <1>2, <1>3 DEF Inv

(* The rules and the objects stay, and so does what the rules mean. *)
LEMMA SameMeaning ==
  ASSUME UNCHANGED <<input, bucket>>
  PROVE  /\ UNCHANGED now => Meant(bucket, now)' = Meant(bucket, now)
         /\ UNCHANGED movedAt => Meant(bucket, movedAt)' = Meant(bucket, movedAt)
         /\ Gone' = Gone
  <1>1. rules' = rules /\ excluded' = excluded /\ modified' = modified /\ bucket' = bucket
    BY DEF input
  <1>2. ASSUME now' = now
        PROVE  Meant(bucket, now)' = Meant(bucket, now)
    BY <1>1, <1>2 DEF Meant, ByObject, Surplus, Outnumbered, Accepts, Newer
  <1>3. ASSUME movedAt' = movedAt
        PROVE  Meant(bucket, movedAt)' = Meant(bucket, movedAt)
    BY <1>1, <1>3 DEF Meant, ByObject, Surplus, Outnumbered, Accepts, Newer
  <1> QED
    BY <1>1, <1>2, <1>3 DEF Gone

(* The per-object rules. *)
LEMMA MatchedIsMeant ==
  ASSUME TypeOK, NEW c \in [key : bucket, rule : RuleNumbers]
  PROVE  Matched(c.rule, c.key) <=> c \in Meant(bucket, now) /\ rules[c.rule].keep = PerObject
  <1>1. c.rule \in RuleNumbers
    OBVIOUS
  <1>2. \A m : m \in 1..(c.rule - 1) <=> m \in RuleNumbers /\ m < c.rule
    BY <1>1, BoundsAssumption DEF RuleNumbers
  <1>3. Matched(c.rule, c.key) <=> ByObject(c.rule, c.key, now)
    BY <1>1, <1>2 DEF Matched, Hits, ByObject, Accepts
  <1>4. ByObject(c.rule, c.key, now) => rules[c.rule].keep = PerObject
    BY DEF ByObject
  <1>5. Surplus(c.rule, c.key, bucket, now) => rules[c.rule].keep # PerObject
    BY DEF Surplus
  <1> QED
    BY <1>3, <1>4, <1>5 DEF Meant

LEMMA ScanKeeps ==
  ASSUME Inv, Scan
  PROVE  SelInv'
  <1>1. /\ Meant(bucket, now)' = Meant(bucket, now) /\ Gone' = Gone
        /\ Meant(bucket, movedAt)' = Meant(bucket, movedAt)
    BY SameMeaning DEF Scan
  <1>2. /\ candidates' = {c \in [key : bucket, rule : RuleNumbers] : Matched(c.rule, c.key)}
        /\ step' = "keep" /\ next' = 1 /\ rules' = rules /\ movedAt' = movedAt
        /\ excluded' = excluded /\ bucket' = bucket /\ batches' = batches
    BY DEF Scan, Inv, SelInv, input
  <1>3. candidates' = {c \in Meant(bucket, now) : rules[c.rule].keep = PerObject}
    <2>1. \A c \in Meant(bucket, now) : c \in [key : bucket, rule : RuleNumbers]
      BY DEF Meant
    <2> QED
      BY <1>2, <2>1, MatchedIsMeant DEF Inv
  <1>4. \A c \in Meant(bucket, now) : ~(c.rule < 1)
    BY DEF Meant, RuleNumbers
  <1>5. candidates' = Chosen'
    BY <1>1, <1>2, <1>3, <1>4 DEF Chosen
  <1>6. already_selected' \cap excluded' = {}
    BY <1>2, <1>3, MeantTypes DEF already_selected, Inv, TypeOK
  <1> QED
    BY <1>1, <1>2, <1>5, <1>6 DEF Inv, SelInv

(* The keep-newest rules: what lies behind the newest is what outnumbers.  *)
LEMMA RestIsSurplus ==
  ASSUME TypeOK, NEW i \in RuleNumbers, rules[i].keep # PerObject, NEW k \in Keys
  PROVE  (\E g \in Groups : k \in Rest(i, g)) <=> k \in bucket /\ Surplus(i, k, bucket, now)
  <1> DEFINE g0 == rules[i].group[k]
             ahead == {m \in bucket : /\ Accepts(i, m, now) /\ Newer(m, k)
                                      /\ rules[i].group[m] = g0}
  <1>1. ASSUME NEW g, g = g0
        PROVE  {m \in Members(i, g) : Newer(m, k)} = ahead
    BY <1>1 DEF Members, Accepts
  <1>2. \A g : k \in Rest(i, g) <=> /\ k \in Members(i, g)
                                   /\ rules[i].keep <= Cardinality({m \in Members(i, g) : Newer(m, k)})
    BY RestIs
  <1>3. \A g : k \in Members(i, g) <=> k \in bucket /\ Accepts(i, k, now) /\ g = g0
    BY DEF Members, Accepts
  <1>4. g0 \in Groups <=> g0 # NoGroup
    BY RuleTypes, GroupAssumption
  <1>5. Outnumbered(i, k, bucket, now) <=> rules[i].keep <= Cardinality(ahead)
    BY DEF Outnumbered
  <1> HIDE DEF ahead, g0
  <1>6. \A g : k \in Rest(i, g) <=> /\ k \in bucket /\ Accepts(i, k, now) /\ g = g0
                                   /\ Outnumbered(i, k, bucket, now)
    BY <1>1, <1>2, <1>3, <1>5
  <1> QED
    BY <1>4, <1>6 DEF Surplus, g0

LEMMA KeepNewestKeeps ==
  ASSUME Inv, KeepNewest
  PROVE  SelInv'
  <1>1. /\ Meant(bucket, now)' = Meant(bucket, now) /\ Gone' = Gone
        /\ Meant(bucket, movedAt)' = Meant(bucket, movedAt)
    BY SameMeaning DEF KeepNewest
  <1> DEFINE added == {c \in Candidate : /\ c.rule = next /\ rules[next].keep # PerObject
                                         /\ c.key \notin already_selected
                                         /\ \E g \in Groups : c.key \in Rest(next, g)}
             meant == Meant(bucket, now)
  <1>2. /\ candidates' = candidates \cup added
        /\ next \in RuleNumbers /\ next' = next + 1 /\ step = "keep" /\ step' = "keep"
        /\ bucket' = bucket /\ batches' = batches /\ rules' = rules /\ movedAt' = movedAt
        /\ excluded' = excluded
    BY DEF KeepNewest, input
  <1>3. TypeOK /\ SelInv /\ candidates = Chosen /\ bucket \in SUBSET Keys
    BY <1>2 DEF Inv, SelInv, TypeOK
  <1>4. ASSUME NEW c \in added
        PROVE  c \in meant /\ c.rule = next
    <2>1. /\ c \in Candidate /\ c.rule = next /\ c.key \in bucket
          /\ Surplus(next, c.key, bucket, now)
      BY <1>2, <1>3, <1>4, RestIsSurplus DEF Candidate
    <2>2. \A d \in meant : d.key = c.key => rules[d.rule].keep # PerObject /\ ~(d.rule < next)
      BY <1>3, <1>4 DEF already_selected, Chosen
    <2>3. ASSUME NEW m \in RuleNumbers, ByObject(m, c.key, now)
          PROVE  FALSE
      <3> DEFINE d == [key |-> c.key, rule |-> m]
      <3>1. d \in [key : bucket, rule : RuleNumbers] /\ d.key = c.key /\ d.rule = m
        BY <2>1
      <3>2. d \in meant
        BY <2>3, <3>1 DEF Meant
      <3> QED
        BY <2>2, <2>3, <3>1, <3>2 DEF ByObject
    <2>4. ASSUME NEW m \in RuleNumbers, m < next, Surplus(m, c.key, bucket, now)
          PROVE  FALSE
      <3>1. PICK d \in meant : d.key = c.key /\ d.rule <= m
        BY <2>1, <2>3, <2>4, FirstSurplus
      <3>2. d.rule \in Int /\ next \in Int /\ m \in Int
        BY <1>2 DEF Meant, RuleNumbers
      <3>3. d.rule < next
        BY <2>4, <3>1, <3>2
      <3> QED
        BY <2>2, <3>1, <3>3
    <2>5. c \in [key : bucket, rule : RuleNumbers]
      BY <2>1 DEF Candidate
    <2> QED
      BY <2>1, <2>3, <2>4, <2>5 DEF Meant
  <1>5. ASSUME NEW c \in meant, c.rule = next, rules[next].keep # PerObject
        PROVE  c \in added
    <2>1. c \in Candidate /\ c.key \in Keys /\ c.key \in bucket
      BY <1>3, MeantTypes DEF Candidate
    <2>2. Surplus(next, c.key, bucket, now)
      BY <1>5 DEF Meant, ByObject
    <2>3. \E g \in Groups : c.key \in Rest(next, g)
      BY <1>2, <1>3, <1>5, <2>1, <2>2, RestIsSurplus
    <2>4. c.key \notin already_selected
      <3> SUFFICES ASSUME NEW d \in Chosen, d.key = c.key PROVE FALSE
        BY <1>3 DEF already_selected
      <3>1. d = c
        BY MeantOnce DEF Chosen
      <3>2. ~(next < next)
        BY <1>2 DEF RuleNumbers
      <3> QED
        BY <1>5, <3>1, <3>2 DEF Chosen
    <2> QED
      BY <1>5, <2>1, <2>3, <2>4
  <1>6. \A c \in meant : c.rule < next' <=> c.rule < next \/ c.rule = next
    BY <1>2 DEF Meant, RuleNumbers
  <1>7. \A c : c \in Chosen' <=> c \in meant /\ (rules[c.rule].keep = PerObject \/ c.rule < next')
    BY <1>1, <1>2 DEF Chosen
  <1>8. candidates' = Chosen'
    <2> HIDE DEF added, meant
    <2>1. \A c \in Chosen : c \in meant /\ (rules[c.rule].keep = PerObject \/ c.rule < next)
      BY DEF Chosen, meant
    <2>2. \A c \in meant : (rules[c.rule].keep = PerObject \/ c.rule < next) => c \in Chosen
      BY DEF Chosen, meant
    <2>3. \A c \in Chosen \cup added : c \in Chosen'
      BY <1>4, <1>6, <1>7, <2>1
    <2>4. \A c \in Chosen' : c \in Chosen \cup added
      BY <1>5, <1>6, <1>7, <2>2
    <2> QED
      BY <1>2, <1>3, <2>3, <2>4
  <1>9. already_selected' \cap excluded' = {}
    <2>1. candidates' \subseteq meant
      BY <1>7, <1>8
    <2> HIDE DEF added
    <2> QED
      BY <1>2, <1>3, <2>1, MeantTypes DEF already_selected
  <1> HIDE DEF added, meant
  <1> QED
    BY <1>1, <1>2, <1>3, <1>8, <1>9 DEF SelInv

-----------------------------------------------------------------------------
(* When the pass has ended. *)
LEMMA PassEnded ==
  ASSUME Inv, step = "keep", next \notin RuleNumbers
  PROVE  candidates = Meant(bucket, now)
  <1>1. next = RuleCount + 1
    BY BoundsAssumption DEF Inv, TypeOK, RuleNumbers
  <1>2. \A c \in Meant(bucket, now) : c.rule < next
    BY <1>1, BoundsAssumption DEF Meant, RuleNumbers
  <1> QED
    BY <1>2 DEF Inv, SelInv, Chosen

LEMMA DecideKeeps ==
  ASSUME Inv, NothingToDo \/ Refuse
  PROVE  SelInv'
  <1>1. /\ step' = "done" /\ candidates' = candidates /\ bucket' = bucket /\ batches' = batches
        /\ excluded' = excluded /\ movedAt' = movedAt
    BY DEF NothingToDo, Refuse, Decide, input
  <1>2. Meant(bucket, movedAt)' = Meant(bucket, movedAt) /\ Gone' = Gone
    BY SameMeaning DEF NothingToDo, Refuse, Decide
  <1> QED
    BY <1>1, <1>2 DEF Inv, SelInv, already_selected

LEMMA MoveKeeps ==
  ASSUME Inv, Move
  PROVE  SelInv' /\ Gone' = Gone \cup already_selected /\ already_selected \subseteq bucket
  <1>1. /\ step = "keep" /\ step' = "done" /\ next \notin RuleNumbers /\ candidates' = candidates
        /\ candidates # {} /\ bucket' = bucket \ already_selected /\ batches' = batches + 1
        /\ movedAt' = now /\ excluded' = excluded
    BY DEF Move, Decide, input
  <1>2. candidates = Meant(bucket, now) /\ bucket \in SUBSET Keys
    BY <1>1, PassEnded DEF Inv, TypeOK
  <1>3. already_selected \subseteq bucket /\ already_selected \cap excluded = {} /\ already_selected # {}
    BY <1>1, <1>2, MeantTypes DEF already_selected
  <1>4. Gone' = Gone \cup already_selected /\ Gone' # {}
    BY <1>1, <1>2, <1>3 DEF Gone
  <1>5. batches' # 0
    BY <1>1 DEF Inv, TypeOK
  <1>6. Meant(bucket', now) = {}
    <2>1. bucket' \in SUBSET bucket /\ \A c \in Meant(bucket, now) : c.key \notin bucket'
      BY <1>1, <1>2 DEF already_selected
    <2> QED
      BY <1>2, <2>1, NothingLeft DEF Inv
  <1>7. Meant(bucket, movedAt)' = Meant(bucket', now)
    BY <1>1 DEF Move, Decide, input, Meant, ByObject, Surplus, Outnumbered, Accepts, Newer
  <1>8. already_selected' = already_selected
    BY <1>1 DEF already_selected
  <1>9. excluded' \subseteq bucket'
    BY <1>1, <1>3 DEF Inv, SelInv
  <1> QED
    BY <1>1, <1>3, <1>4, <1>5, <1>6, <1>7, <1>8, <1>9 DEF SelInv

(* Each key is a candidate once. *)
LEMMA CandidatesCount ==
  ASSUME Inv, step = "keep", next \notin RuleNumbers
  PROVE  /\ IsFiniteSet(candidates) /\ Cardinality(candidates) \in Nat
         /\ Cardinality(already_selected) = Cardinality(candidates)
  <1>1. /\ candidates \subseteq Candidate /\ \A c, d \in candidates : c.key = d.key => c = d
    BY PassEnded, MeantOnce, MeantTypes DEF Inv, TypeOK
  <1> DEFINE f == [c \in candidates |-> c.key]
  <1>2. f \in [candidates -> Keys] /\ f \in [candidates -> already_selected]
    BY <1>1 DEF already_selected, Candidate
  <1>3. f \in Injection(candidates, Keys) /\ f \in Bijection(candidates, already_selected)
    <2>1. \A c, d \in candidates : f[c] = f[d] => c = d
      BY <1>1
    <2>2. \A k \in already_selected : \E c \in candidates : f[c] = k
      BY DEF already_selected
    <2> HIDE DEF f
    <2> QED
      BY <1>2, <2>1, <2>2 DEF Injection, IsInjective, Bijection, Surjection
  <1> HIDE DEF f
  <1>4. IsFiniteSet(candidates)
    BY <1>3, KeysAssumption, FS_Injection
  <1>5. ExistsBijection(candidates, already_selected)
    BY <1>3 DEF ExistsBijection
  <1> QED
    BY <1>4, <1>5, FS_CardinalityType, FS_Bijection

LEMMA BytesType ==
  ASSUME NEW S \in SUBSET Keys
  PROVE  Bytes(S) \in Nat
  <1>1. IsFiniteSet(S)
    BY KeysAssumption, FS_Subset
  <1>a. \A k \in S : Size[k] \in Int /\ Size[k] >= 0
    BY SizeAssumption
  <1>2. SumFunctionOnSet(Size, S) \in Int /\ SumFunctionOnSet(Size, S) >= 0
    BY <1>1, <1>a, SumType
  <1> QED
    BY <1>2 DEF Bytes

LEMMA DisjointUnion ==
  ASSUME NEW S, IsFiniteSet(S), NEW T, IsFiniteSet(T), S \cap T = {}
  PROVE  Cardinality(S \cup T) = Cardinality(S) + Cardinality(T)
  <1>1. Cardinality(S \cap T) = 0 /\ Cardinality(S) \in Nat /\ Cardinality(T) \in Nat
    BY FS_EmptySet, FS_CardinalityType
  <1>2. Cardinality(S \cup T) = Cardinality(S) + Cardinality(T) - Cardinality(S \cap T)
    BY FS_Union
  <1> QED
    BY <1>1, <1>2

(* What a move adds to what is gone. *)
LEMMA MoveAdds ==
  ASSUME Inv, Move
  PROVE  /\ Cardinality(Gone)' = Cardinality(Gone) + Cardinality(candidates)
         /\ Bytes(Gone)' = Bytes(Gone) + Bytes(already_selected)
  <1>1. /\ Gone' = Gone \cup already_selected /\ Gone \cap already_selected = {}
        /\ Gone \in SUBSET Keys /\ already_selected \in SUBSET Keys
    BY MoveKeeps DEF Gone, Inv, TypeOK
  <1>2. IsFiniteSet(Gone) /\ IsFiniteSet(already_selected) /\ IsFiniteSet(Gone \cup already_selected)
    BY <1>1, KeysAssumption, FS_Subset
  <1>3. Cardinality(already_selected) = Cardinality(candidates) /\ Cardinality(candidates) \in Nat
    BY CandidatesCount DEF Move, Decide
  <1>4. Cardinality(Gone \cup already_selected) = Cardinality(Gone) + Cardinality(candidates)
    BY <1>1, <1>2, <1>3, DisjointUnion
  <1>5. Bytes(Gone \cup already_selected) = Bytes(Gone) + Bytes(already_selected)
    <2>1. \A k \in Gone \cup already_selected : Size[k] \in Int
      BY <1>1, SizeAssumption
    <2>2. /\ (Gone \cup already_selected) \ Gone = already_selected
          /\ Gone \in SUBSET (Gone \cup already_selected)
      BY <1>1
    <2> QED
      BY <1>2, <2>1, <2>2, SumUnion DEF Bytes
  <1>6. Bytes(Gone)' = Bytes(Gone \cup already_selected)
    BY <1>1 DEF Bytes
  <1> QED
    BY <1>1, <1>4, <1>5, <1>6

(* What a scan counts: the keys there were at first and the cleaner's own. *)
LEMMA ScannedCount ==
  ASSUME TypeOK
  PROVE  /\ scanned_count = Cardinality(Keys) + batches + (IF batches = 0 THEN 1 ELSE 2)
         /\ Cardinality(Keys) \in Nat
  <1>1. bucket \in SUBSET Keys /\ Gone \in SUBSET Keys /\ bucket \cup Gone = Keys /\ bucket \cap Gone = {}
    BY DEF TypeOK, Gone
  <1>2. /\ IsFiniteSet(bucket) /\ IsFiniteSet(Gone) /\ IsFiniteSet(Keys)
    BY <1>1, KeysAssumption, FS_Subset
  <1>3. /\ Cardinality(bucket) \in Nat /\ Cardinality(Gone) \in Nat /\ Cardinality(Keys) \in Nat
    BY <1>2, FS_CardinalityType
  <1>4. Cardinality(Keys) = Cardinality(bucket) + Cardinality(Gone)
    BY <1>1, <1>2, DisjointUnion
  <1> QED
    BY <1>3, <1>4 DEF scanned_count

(* The sums: k batches, and one more. *)
LEMMA OneMoreTime ==
  ASSUME NEW l \in Int, NEW k \in Nat
  PROVE  (k + 1) * l = k * l + l
  OBVIOUS

LEMMA NotNegative ==
  ASSUME NEW f \in Int, NEW s \in Nat, s > 0, NEW x \in Int, x > 0, x <= f * s
  PROVE  f \in Nat
  <1>1. f < 0 => f * s <= 0
    OBVIOUS
  <1> QED
    BY <1>1

LEMMA OneMoreBatch ==
  ASSUME NEW f \in Nat, NEW k \in Nat, NEW keys \in Nat, NEW gone \in Int, NEW more \in Int,
         k = 0 => gone <= 0,
         k # 0 => gone <= f * (k * (keys + k)),
         more <= f * (keys + k + (IF k = 0 THEN 1 ELSE 2))
  PROVE  gone + more <= f * ((k + 1) * (keys + (k + 1)))
  <1> DEFINE before == k * (keys + k)
             scanned == keys + k + (IF k = 0 THEN 1 ELSE 2)
             after == (k + 1) * (keys + (k + 1))
  <1>1. after = before + k + (keys + k + 1)
    OBVIOUS
  <1>2. before \in Nat /\ scanned \in Nat /\ after \in Nat
    OBVIOUS
  <1>3. before + scanned <= after /\ (k = 0 => before = 0)
    BY <1>1, <1>2
  <1>4. gone <= f * before /\ more <= f * scanned
    BY <1>3
  <1> HIDE DEF before, scanned, after
  <1>5. f * before + f * scanned = f * (before + scanned)
    BY <1>2
  <1>6. f * (before + scanned) <= f * after
    BY <1>2, <1>3
  <1>7. f * before \in Int /\ f * scanned \in Int /\ f * after \in Int
    BY <1>2
  <1>8. gone + more <= f * after
    BY <1>4, <1>5, <1>6, <1>7
  <1> QED
    BY <1>8 DEF after

LEMMA MoveIsWithin ==
  ASSUME Inv, Move
  PROVE  BlastRadius'
  <1> DEFINE n == Cardinality(candidates)
             gone == Cardinality(Gone)
             keys == Cardinality(Keys)
  <1>1. /\ step = "keep" /\ next \notin RuleNumbers /\ candidates # {} /\ ~Trips
        /\ batches' = batches + 1 /\ limit' = limit /\ batches \in Nat
    BY DEF Move, Decide, input, Inv, TypeOK
  <1>2. /\ Cardinality(Gone)' = gone + n
        /\ Bytes(Gone)' = Bytes(Gone) + Bytes(already_selected)
    BY MoveAdds
  <1>3. Gone \in SUBSET Keys /\ already_selected \in SUBSET Keys
    BY MoveKeeps DEF Gone, Inv, TypeOK
  <1>4. /\ IsFiniteSet(candidates) /\ n \in Nat /\ n # 0
        /\ gone \in Nat /\ keys \in Nat /\ (batches = 0 => gone = 0)
    <2>1. IsFiniteSet(candidates) /\ n \in Nat
      BY <1>1, CandidatesCount
    <2>2. n # 0
      BY <1>1, <2>1, FS_EmptySet
    <2>3. gone \in Nat /\ keys \in Nat
      BY <1>3, KeysAssumption, FS_Subset, FS_CardinalityType
    <2>4. batches = 0 => gone = 0
      BY FS_EmptySet DEF Inv, SelInv
    <2> QED
      BY <2>1, <2>2, <2>3, <2>4
  <1>5. Bytes(Gone) \in Nat /\ Bytes(already_selected) \in Nat /\ (batches = 0 => Bytes(Gone) = 0)
    BY <1>3, BytesType, SumEmpty DEF Bytes, Inv, SelInv
  <1>6. limit.fraction \in Int /\ limit.objects \in Int /\ limit.bytes \in Int /\ Parts \in Nat \ {0}
    BY LimitsAssumption, BoundsAssumption DEF Inv, TypeOK
  <1>7. /\ batches # 0 => Gone # {}
        /\ scanned_count = keys + batches + (IF batches = 0 THEN 1 ELSE 2)
    BY ScannedCount DEF Inv, SelInv
  <1>8. ASSUME limit.fraction # NoLimit
        PROVE  (gone + n) * Parts <= limit.fraction * ((batches + 1) * (keys + (batches + 1)))
    <2>1. n * Parts <= limit.fraction * (keys + batches + (IF batches = 0 THEN 1 ELSE 2))
      BY <1>1, <1>4, <1>6, <1>7, <1>8 DEF Trips
    <2>2. n * Parts > 0 /\ n * Parts \in Int /\ gone * Parts \in Int
      BY <1>4, <1>6
    <2>3. keys + batches + (IF batches = 0 THEN 1 ELSE 2) > 0
      BY <1>1, <1>4
    <2>4. limit.fraction \in Nat
      <3>1. keys + batches + (IF batches = 0 THEN 1 ELSE 2) \in Nat
        BY <1>1, <1>4
      <3> QED
        BY <1>6, <2>1, <2>2, <2>3, <3>1, NotNegative
    <2>5. batches # 0 => gone * Parts <= limit.fraction * (batches * (keys + batches))
      BY <1>7, <1>8 DEF Inv, BlastRadius
    <2>6. batches = 0 => gone * Parts <= 0
      BY <1>4, <1>6
    <2>7. gone * Parts + n * Parts <= limit.fraction * ((batches + 1) * (keys + (batches + 1)))
      BY <1>1, <1>4, <2>1, <2>2, <2>4, <2>5, <2>6, OneMoreBatch
    <2>8. (gone + n) * Parts = gone * Parts + n * Parts
      BY <1>4, <1>6
    <2> QED
      BY <2>7, <2>8
  <1>9. ASSUME limit.objects # NoLimit
        PROVE  gone + n <= (batches + 1) * limit.objects
    <2>1. n <= limit.objects
      BY <1>1, <1>4, <1>6, <1>9 DEF Trips
    <2>2. gone <= batches * limit.objects
      BY <1>1, <1>4, <1>6, <1>7, <1>9 DEF Inv, BlastRadius
    <2>3. (batches + 1) * limit.objects = batches * limit.objects + limit.objects
      BY <1>1, <1>6, OneMoreTime
    <2> QED
      BY <1>1, <1>4, <1>6, <2>1, <2>2, <2>3
  <1>10. ASSUME limit.bytes # NoLimit
         PROVE  Bytes(Gone) + Bytes(already_selected) <= (batches + 1) * limit.bytes
    <2>1. Bytes(already_selected) <= limit.bytes
      BY <1>1, <1>5, <1>6, <1>10 DEF Trips
    <2>2. Bytes(Gone) <= batches * limit.bytes
      BY <1>1, <1>5, <1>6, <1>7, <1>10 DEF Inv, BlastRadius
    <2>3. (batches + 1) * limit.bytes = batches * limit.bytes + limit.bytes
      BY <1>1, <1>6, OneMoreTime
    <2> QED
      BY <1>1, <1>5, <1>6, <2>1, <2>2, <2>3
  <1> QED
    BY <1>1, <1>2, <1>8, <1>9, <1>10 DEF BlastRadius

LEMMA StaysWithin ==
  ASSUME BlastRadius, bucket' = bucket, limit' = limit, batches' = batches
  PROVE  BlastRadius'
  <1>1. Gone' = Gone /\ Bytes(Gone)' = Bytes(Gone)
    BY DEF Gone, Bytes
  <1> QED
    BY <1>1 DEF BlastRadius

LEMMA InvStep == Inv /\ [Next]_vars => Inv'
  <1> SUFFICES ASSUME Inv, [Next]_vars PROVE Inv'
    OBVIOUS
  <1>1. TypeOK'
    BY TypeStep DEF Inv
  <1>2. CASE Scan
    BY <1>1, <1>2, ScanKeeps, StaysWithin DEF Inv, Scan, input
  <1>3. CASE KeepNewest
    BY <1>1, <1>3, KeepNewestKeeps, StaysWithin DEF Inv, KeepNewest, input
  <1>4. CASE NothingToDo \/ Refuse
    <2>1. bucket' = bucket /\ limit' = limit /\ batches' = batches
      BY <1>4 DEF NothingToDo, Refuse, Decide, input
    <2> QED
      BY <1>1, <1>4, <2>1, DecideKeeps, StaysWithin DEF Inv
  <1>5. CASE Move
    BY <1>1, <1>5, MoveKeeps, MoveIsWithin DEF Inv
  <1>6. CASE RunAgain
    <2>1. /\ bucket' = bucket /\ limit' = limit /\ batches' = batches /\ excluded' = excluded
          /\ movedAt' = movedAt /\ step' = "scan" /\ next' = 1 /\ candidates' = {}
      BY <1>6 DEF RunAgain, input
    <2>2. Meant(bucket, movedAt)' = Meant(bucket, movedAt) /\ Gone' = Gone
      BY <1>6, SameMeaning DEF RunAgain
    <2>3. SelInv'
      BY <2>1, <2>2 DEF Inv, SelInv, already_selected
    <2> QED
      BY <1>1, <2>1, <2>3, StaysWithin DEF Inv
  <1>7. CASE UNCHANGED vars
    <2>1. /\ Meant(bucket, now)' = Meant(bucket, now) /\ Gone' = Gone
          /\ Meant(bucket, movedAt)' = Meant(bucket, movedAt)
      BY <1>7, SameMeaning DEF vars
    <2>2. Chosen' = Chosen
      BY <1>7, <2>1 DEF Chosen, vars, input
    <2>3. SelInv'
      BY <1>7, <2>1, <2>2 DEF Inv, SelInv, vars, input, already_selected
    <2> QED
      BY <1>1, <1>7, <2>3, StaysWithin DEF Inv, vars, input
  <1> QED
    BY <1>2, <1>3, <1>4, <1>5, <1>6, <1>7 DEF Next

LEMMA Invariant == Spec => []Inv
  BY InvInit, InvStep, PTL DEF Spec

-----------------------------------------------------------------------------
(* Types. *)
THEOREM TypeCorrect == Spec => []TypeOK
  BY Invariant, PTL DEF Inv

(* No protected key is ever selected or leaves the bucket, in any of the   *)
(* passes and in any run.                                                  *)
THEOREM ExclusionsAlwaysWin == Spec => []ExclusionsWin
  <1>1. Inv => ExclusionsWin
    BY DEF Inv, SelInv, ExclusionsWin
  <1> QED
    BY <1>1, Invariant, PTL

(* Every scan, its slices of sorted members and its passes in rule order,  *)
(* selects exactly what the rules mean by counting, at its own time and of *)
(* what the runs before it have left.                                      *)
THEOREM SelectsWhatIsMeant == Spec => []SelectionIsExact
  <1>1. Inv => SelectionIsExact
    BY PassEnded DEF SelectionIsExact
  <1> QED
    BY <1>1, Invariant, PTL

(* Once candidates were moved, a later run finds none unless the rules say *)
(* something else of a live key than they did then.                        *)
THEOREM RepeatsFindNothing == Spec => RepeatFindsNothing
  <1> DEFINE Same == \A i \in RuleNumbers, k \in bucket : Accepts(i, k, now) <=> Accepts(i, k, movedAt)
  <1>1. Inv /\ [Next]_vars =>
           [/\ movedAt # Never /\ step = "keep" /\ step' = "done" /\ Same
            => verdict' = "nothing"]_vars
    <2> SUFFICES ASSUME Inv, [Next]_vars, movedAt # Never, step = "keep", step' = "done", Same
                 PROVE  verdict' = "nothing"
      OBVIOUS
    <2>1. NothingToDo \/ Refuse \/ Move
      BY DEF Next, Scan, KeepNewest, RunAgain, vars
    <2>2. candidates = Meant(bucket, now)
      BY <2>1, PassEnded DEF NothingToDo, Refuse, Move, Decide
    <2>3. Meant(bucket, movedAt) = {}
      BY DEF Inv, SelInv
    <2>4. ASSUME NEW k \in bucket, NEW i \in RuleNumbers
          PROVE  /\ ByObject(i, k, now) <=> ByObject(i, k, movedAt)
                 /\ Surplus(i, k, bucket, now) <=> Surplus(i, k, bucket, movedAt)
      <3>1. Accepts(i, k, now) <=> Accepts(i, k, movedAt)
        OBVIOUS
      <3>2. {m \in bucket : /\ Accepts(i, m, now) /\ Newer(m, k)
                            /\ rules[i].group[m] = rules[i].group[k]}
              = {m \in bucket : /\ Accepts(i, m, movedAt) /\ Newer(m, k)
                                /\ rules[i].group[m] = rules[i].group[k]}
        OBVIOUS
      <3>3. ByObject(i, k, now) <=> ByObject(i, k, movedAt)
        BY DEF ByObject
      <3> QED
        BY <3>1, <3>2, <3>3 DEF Surplus, Outnumbered
    <2>5. Meant(bucket, now) = Meant(bucket, movedAt)
      <3> HIDE DEF Same
      <3> QED
        BY <2>4 DEF Meant
    <2> QED
      BY <2>1, <2>2, <2>3, <2>5 DEF NothingToDo, Refuse, Move, Decide
  <1> QED
    BY <1>1, Invariant, PTL DEF Spec, RepeatFindsNothing

(* What all batches together have taken keeps within so many times the     *)
(* limits, however much each scan counts that is no longer live.           *)
THEOREM RunsStayWithinLimits == Spec => []BlastRadius
  BY Invariant, PTL DEF Inv
=============================================================================
