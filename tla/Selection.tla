----------------------------- MODULE Selection -----------------------------
(***************************************************************************)
(* One `quarantine --apply' after the other on a quiet bucket: the scan of *)
(* the rule engine (rules.py), its keep-newest pass, the blast-radius      *)
(* guardrail (guardrail.py) and the move of the candidates (cli.py).       *)
(*                                                                         *)
(* A rule's conditions are abstracted to the set of keys they accept, one  *)
(* set for each time: every run takes its own now and counts older_than    *)
(* back from it, and a tree with `not' may also give up a key with age.    *)
(* Keys are numbers, in key order.                                         *)
(***************************************************************************)
EXTENDS Integers, FiniteSets, SequencesExt

CONSTANTS
    Keys,      \* the objects' keys
    Size,      \* key -> bytes
    Groups,    \* values of group_by
    NoGroup,   \* a key that group_by does not match
    MaxKeep,   \* bound on keep_newest
    RuleCount, \* number of rules in the configuration
    MaxTime,   \* bound on last_modified
    MaxNow,    \* bound on the times of the runs
    Limits,    \* guardrail settings to choose from; --force is NoLimit in each
    Parts,     \* max_fraction is counted in Parts-th parts
    MaxRuns    \* bound on the number of quarantine runs

PerObject == -1     \* keep_newest is None
NoLimit   == -1     \* a limit that is None
Never     == -1     \* nothing has been moved yet
Times     == 0..MaxNow

ASSUME KeysAssumption   == Keys \subseteq Nat /\ IsFiniteSet(Keys)
ASSUME SizeAssumption   == Size \in [Keys -> Nat]
ASSUME GroupAssumption  == NoGroup \notin Groups
ASSUME BoundsAssumption == /\ MaxKeep \in Nat /\ RuleCount \in Nat /\ MaxTime \in Nat
                           /\ MaxNow \in Nat /\ Parts \in Nat \ {0} /\ MaxRuns \in Nat \ {0}
ASSUME LimitsAssumption == Limits \subseteq [fraction : Int, objects : Int, bytes : Int]

VARIABLES
    rules,       \* config.rules, in order
    limit,       \* config.quarantine.guardrail
    excluded,    \* keys that is_excluded protects
    modified,    \* key -> last_modified
    now,         \* the engine's now, one for each run
    bucket,      \* the keys still live
    batches,     \* number of batches in quarantine
    step,        \* scan, keep (the keep-newest pass), done
    next,        \* the next rule of the keep-newest pass
    candidates,  \* result.candidates: keys with the number of the rule that chose them
    verdict,     \* of the last run: none yet, nothing to do, refused, moved
    run,         \* number of the current run
    movedAt      \* history: the now of the last run that moved anything

input == <<rules, limit, excluded, modified>>
vars  == <<input, now, bucket, batches, step, next, candidates, verdict, run, movedAt>>

RuleNumbers == 1..RuleCount

(* named is FALSE when the name is empty, which loads. *)
Rule == [keep    : {PerObject} \cup 0..MaxKeep,
         named   : BOOLEAN,
         accepts : [Times -> SUBSET Keys],
         group   : [Keys -> Groups \cup {NoGroup}]]

Candidate == [key : Keys, rule : RuleNumbers]

already_selected == {c.key : c \in candidates}

Init == /\ rules \in [RuleNumbers -> Rule]
        /\ limit \in Limits
        /\ excluded \in SUBSET Keys
        /\ modified \in [Keys -> 1..MaxTime]
        /\ now \in Times
        /\ bucket = Keys /\ batches = 0
        /\ step = "scan" /\ next = 1 /\ candidates = {}
        /\ verdict = "none" /\ run = 1
        /\ movedAt = Never

-----------------------------------------------------------------------------
(* Per-object rule i matches key k. *)
Hits(i, k) == rules[i].keep = PerObject /\ k \in rules[i].accepts[now]

(* Rule i is the first one to match k, which no exclusion protects, and has*)
(* a name: a match by a nameless rule keeps later ones from k and is then  *)
(* dropped by `if rule_name'.                                              *)
Matched(i, k) == /\ k \notin excluded
                 /\ Hits(i, k) /\ rules[i].named
                 /\ \A m \in 1..(i - 1) : ~Hits(m, k)

(* Mutant of Scan: the rules are numbered from zero. *)
ScanFromZero == /\ step = "scan"
                /\ candidates' = {c \in [key : bucket, rule : 0..(RuleCount - 1)] :
                                    Matched(c.rule + 1, c.key)}
                /\ step' = "keep"
                /\ UNCHANGED <<input, now, bucket, batches, next, verdict, run, movedAt>>

Scan == /\ step = "scan"
        /\ candidates' = {c \in [key : bucket, rule : RuleNumbers] : Matched(c.rule, c.key)}
        /\ step' = "keep"
        /\ UNCHANGED <<input, now, bucket, batches, next, verdict, run, movedAt>>

(* Mutant of Members: exclusions do not hold in the keep-newest pass. *)
MembersExcluded(i, g) ==
    {k \in bucket : k \in rules[i].accepts[now] /\ rules[i].group[k] = g}

(* The keys of group g that keep-newest rule i considers. *)
Members(i, g) ==
    {k \in bucket : /\ k \notin excluded
                    /\ k \in rules[i].accepts[now] /\ rules[i].group[k] = g}

Newer(a, b) == \/ modified[a] > modified[b]
               \/ modified[a] = modified[b] /\ a > b

(* The members in the order of their sort, newest first. *)
NewestFirst(members) ==
    CHOOSE s \in SetToSeqs(members) : \A m, n \in DOMAIN s : m < n => Newer(s[m], s[n])

(* Mutants of Rest: one member, where the slice takes all of the rest; the *)
(* members sorted the other way round.                                     *)
NextOnly(i, g) ==
    LET members == NewestFirst(Members(i, g))
    IN  {members[n] : n \in {rules[i].keep + 1} \cap DOMAIN members}
OldestFirst(i, g) ==
    LET members == Reverse(NewestFirst(Members(i, g)))
    IN  {members[n] : n \in (rules[i].keep + 1)..Len(members)}

(* members[keep_newest:] *)
Rest(i, g) == LET members == NewestFirst(Members(i, g))
              IN  {members[n] : n \in (rules[i].keep + 1)..Len(members)}

(* One keep-newest rule's part of the pass; per-object rules have none. *)
KeepNewest ==
    /\ step = "keep" /\ next \in RuleNumbers
    /\ candidates' = candidates \cup
          {c \in Candidate : /\ c.rule = next /\ rules[next].keep # PerObject
                             /\ c.key \notin already_selected
                             /\ \E g \in Groups : c.key \in Rest(next, g)}
    /\ next' = next + 1
    /\ UNCHANGED <<input, now, bucket, batches, step, verdict, run, movedAt>>

-----------------------------------------------------------------------------
Bytes(S) == SumFunctionOnSet(Size, S)

Gone == Keys \ bucket

(* The listing has no prefix and the batches are in the same bucket, so    *)
(* the scan counts their copies as well, with the lock object, one manifest*)
(* for each batch and, once there is one, the audit log.                   *)
scanned_count == Cardinality(bucket) + Cardinality(Gone) + batches
                   + (IF batches = 0 THEN 1 ELSE 2)

(* Mutant of Trips: a run may go one object over its limits. *)
TripsLate ==
    \/ /\ limit.fraction # NoLimit
       /\ (Cardinality(candidates) - 1) * Parts > limit.fraction * scanned_count
    \/ limit.objects # NoLimit /\ Cardinality(candidates) > limit.objects + 1
    \/ limit.bytes # NoLimit /\ Bytes(already_selected) > limit.bytes

(* check_guardrail raises.  The lock object is there: scanned_count > 0. *)
Trips ==
    \/ /\ limit.fraction # NoLimit
       /\ Cardinality(candidates) * Parts > limit.fraction * scanned_count
    \/ limit.objects # NoLimit /\ Cardinality(candidates) > limit.objects
    \/ limit.bytes # NoLimit /\ Bytes(already_selected) > limit.bytes

Decide(answer) ==
    /\ step = "keep" /\ next \notin RuleNumbers
    /\ step' = "done" /\ verdict' = answer
    /\ UNCHANGED <<input, now, next, candidates, run>>

NothingToDo == /\ candidates = {} /\ Decide("nothing")
               /\ UNCHANGED <<bucket, batches, movedAt>>

Refuse == /\ candidates # {} /\ Trips /\ Decide("refused")
          /\ UNCHANGED <<bucket, batches, movedAt>>

Move == /\ candidates # {} /\ ~Trips /\ Decide("moved")
        /\ bucket' = bucket \ already_selected
        /\ batches' = batches + 1
        /\ movedAt' = now

(* The command is run again, from cron say: the objects have not changed,  *)
(* but it may be later.                                                    *)
RunAgain == /\ step = "done" /\ run < MaxRuns
            /\ run' = run + 1
            /\ now' \in now..MaxNow
            /\ step' = "scan" /\ next' = 1 /\ candidates' = {}
            /\ UNCHANGED <<input, bucket, batches, verdict, movedAt>>

Next == Scan \/ KeepNewest \/ NothingToDo \/ Refuse \/ Move \/ RunAgain

Spec == Init /\ [][Next]_vars

-----------------------------------------------------------------------------
TypeOK == /\ rules \in [RuleNumbers -> Rule]
          /\ limit \in Limits
          /\ excluded \in SUBSET Keys
          /\ modified \in [Keys -> 1..MaxTime]
          /\ now \in Times
          /\ bucket \in SUBSET Keys
          /\ batches \in Nat
          /\ step \in {"scan", "keep", "done"}
          /\ next \in 1..(RuleCount + 1)
          /\ candidates \in SUBSET Candidate
          /\ verdict \in {"none", "nothing", "refused", "moved"}
          /\ run \in 1..MaxRuns
          /\ movedAt \in Times \cup {Never}

(* exclude patterns always win over rules (README.md:84, rules.py:3-5): a  *)
(* protected key never leaves the bucket, whatever rules, passes and runs. *)
ExclusionsWin == excluded \subseteq bucket /\ excluded \cap already_selected = {}

(* What the rules mean for the live keys at time t, by counting: a key that*)
(* is not protected is chosen by the first per-object rule that accepts it,*)
(* if that rule has a name, else by the first keep-newest rule in whose    *)
(* group at least keep_newest of the live members are newer.               *)
Accepts(i, k, t) == k \notin excluded /\ k \in rules[i].accepts[t]
Outnumbered(i, k, live, t) ==
    rules[i].keep <= Cardinality({m \in live : /\ Accepts(i, m, t) /\ Newer(m, k)
                                               /\ rules[i].group[m] = rules[i].group[k]})
ByObject(i, k, t) ==
    /\ rules[i].keep = PerObject /\ rules[i].named /\ Accepts(i, k, t)
    /\ \A m \in RuleNumbers : m < i /\ rules[m].keep = PerObject => ~Accepts(m, k, t)
Surplus(i, k, live, t) ==
    /\ rules[i].keep # PerObject /\ rules[i].group[k] # NoGroup
    /\ Accepts(i, k, t) /\ Outnumbered(i, k, live, t)
Meant(live, t) ==
    {c \in [key : live, rule : RuleNumbers] :
        \/ ByObject(c.rule, c.key, t)
        \/ /\ Surplus(c.rule, c.key, live, t)
           /\ \A m \in RuleNumbers : /\ ~ByObject(m, c.key, t)
                                     /\ m < c.rule => ~Surplus(m, c.key, live, t)}

(* Every scan selects exactly that, of the bucket as the runs before it    *)
(* have left it and at its own time.                                       *)
SelectionIsExact ==
    (step = "keep" /\ next \notin RuleNumbers) => candidates = Meant(bucket, now)

(* Repeating the command moves nothing more while the rules accept what    *)
(* they accepted: after a move, a run at whose time they say the same of   *)
(* the live keys finds nothing, although those that were kept have moved up*)
(* among the newest of their groups' remaining members.  (With older_than  *)
(* a later run may well find more.)                                        *)
RepeatFindsNothing ==
    [][/\ movedAt # Never /\ step = "keep" /\ step' = "done"
       /\ \A i \in RuleNumbers, k \in bucket : Accepts(i, k, now) <=> Accepts(i, k, movedAt)
       => verdict' = "nothing"]_vars

(* What all runs together have taken: k batches take at most k times the   *)
(* limits, the fraction being one of the keys there were at first and k    *)
(* objects of the cleaner's own.  The limits are for one run               *)
(* (guardrail.py:3-9): runs that find more as the objects grow older may   *)
(* together take more than one run may.  But although each batch makes the *)
(* next scan count more objects that are not live, it widens what the next *)
(* may take by no more than this.  A limit below zero lets nothing through.*)
BlastRadius == Gone # {} =>
    /\ limit.fraction # NoLimit =>
          Cardinality(Gone) * Parts <= limit.fraction * (batches * (Cardinality(Keys) + batches))
    /\ limit.objects # NoLimit => Cardinality(Gone) <= batches * limit.objects
    /\ limit.bytes # NoLimit => Bytes(Gone) <= batches * limit.bytes
=============================================================================
