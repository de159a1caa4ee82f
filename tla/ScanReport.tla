----------------------------- MODULE ScanReport -----------------------------
(***************************************************************************)
(* `cloudcleaner scan' with one rule, from the configuration file to the   *)
(* savings report: load_config validates the rule, RuleEngine compiles it  *)
(* and runs it over the listing, estimate_savings prices the outcome.      *)
(* Exclusions and several rules together are in Selection.                 *)
(***************************************************************************)
EXTENDS RuleMatch, Pricing

CONSTANTS
    Rules,       \* the rules that may stand in the configuration
    Conditions,  \* the bags of conditions a rule may be narrowed by
    Buckets,     \* the listings: sets of objects
    Overrides,   \* the price overrides that may stand in the configuration
    KeyOrder     \* key -> its place in string order

ASSUME RulesAssumption ==
    \A r \in Rules : /\ r = [flat |-> r.flat, match |-> r.match, keep_newest |-> r.keep_newest,
                              group_by |-> r.group_by]
                     /\ DOMAIN r.flat \subseteq RULE_CONDITION_FIELDS
                     /\ r.match \subseteq Nodes /\ r.keep_newest \in Int
                     /\ \A by \in r.group_by : \/ DOMAIN by = {"depth"} /\ by.depth \in Int
                                               \/ DOMAIN by = {"regex"}
ASSUME BucketsAssumption ==
    \A B \in Buckets : /\ IsFiniteSet(B)
                       /\ \A o \in B : o.key \in Seq(DOMAIN Lower) /\ o.size_bytes \in Nat
(* Prices may be negotiated, but are not negative. *)
ASSUME OverridesAssumption == \A f \in Overrides : \A c \in DOMAIN f : f[c] \in Nat
ASSUME GroupsAssumption    == /\ NoGroup \notin Seq(DOMAIN Lower)
                              /\ Partial \notin Seq(DOMAIN Lower) \cup {NoGroup}

VARIABLES
    rule, bucket, overrides,
    step,        \* written, refused, loaded, raised, scanned, reported
    candidates,  \* the objects selected
    monthly      \* the savings reported

input == <<rule, bucket, overrides>>
vars  == <<input, step, candidates, monthly>>

Init == /\ rule \in Rules /\ bucket \in Buckets /\ overrides \in Overrides
        /\ step = "written" /\ candidates = {} /\ monthly = 0

Load == /\ step = "written" /\ ValidRule(rule)
        /\ step' = "loaded"
        /\ UNCHANGED <<input, candidates, monthly>>

Reject == /\ step = "written" /\ ~ValidRule(rule)
          /\ step' = "refused"
          /\ UNCHANGED <<input, candidates, monthly>>

Newer(p, o) == \/ p.last_modified > o.last_modified
               \/ p.last_modified = o.last_modified /\ KeyOrder[p.key] > KeyOrder[o.key]

(* The objects of scope in o's group. *)
Group(by, scope, o) == {p \in scope : GroupOf(by, p.key) = GroupOf(by, o.key)}

(* In each group, all but the keep newest. *)
Superseded(by, keep, scope) ==
    {o \in scope : /\ GroupOf(by, o.key) # NoGroup
                   /\ Cardinality({p \in Group(by, scope, o) : Newer(p, o)}) >= keep}

Select(r, objects) ==
    LET scope == {o \in objects : InScope(r, o)}
    IN IF r.keep_newest = None THEN scope
       ELSE UNION {Superseded(by, r.keep_newest, scope) : by \in r.group_by}

(* "".join(m.groups()) has a None to join. *)
GroupRaises(r, objects) == \E o \in objects, by \in r.group_by :
                              InScope(r, o) /\ GroupOf(by, o.key) = Partial

EngineRaises == /\ step = "loaded" /\ CompileRaises(rule)
                /\ step' = "raised"
                /\ UNCHANGED <<input, candidates, monthly>>

(* A bag that may raise does, or does not: that is for the order of its    *)
(* elements and of the other conditions to say.                            *)
ScanRaises == /\ step = "loaded" /\ ~CompileRaises(rule)
              /\ \/ GroupRaises(rule, bucket)
                 \/ \E bag \in TreeLeaves(rule) \cup {rule.flat} : MayRaise(bag)
              /\ step' = "raised"
              /\ UNCHANGED <<input, candidates, monthly>>

Scan == /\ step = "loaded"
        /\ ~CompileRaises(rule) /\ ~GroupRaises(rule, bucket)
        /\ candidates' = Select(rule, bucket)
        /\ step' = "scanned"
        /\ UNCHANGED <<input, monthly>>

(* Bytes per storage class: scanned_by_class, candidates_by_class. *)
ByClass(objects) ==
    [c \in {o.storage_class : o \in objects} |->
        LET those == {o \in objects : o.storage_class = c}
        IN SumFunctionOnSet([o \in those |-> o.size_bytes], those)]

Report == /\ step = "scanned"
          /\ monthly' = Savings(ByClass(bucket), ByClass(candidates), overrides)
          /\ step' = "reported"
          /\ UNCHANGED <<input, candidates>>

Next == Load \/ Reject \/ EngineRaises \/ ScanRaises \/ Scan \/ Report

Spec == Init /\ [][Next]_vars

-----------------------------------------------------------------------------
(* Some list condition is not a list of texts. *)
Untyped(bag) == \E f \in DOMAIN bag \cap ListConditions :
                   bag[f] = NotList \/ NotText \in bag[f]

(* What the validator lets pass, the engine can compile and run, however   *)
(* deep in a match tree the condition sits (config.py:28-31).  There are   *)
(* three exceptions, which no validation looks at: a list condition that is*)
(* not a list of texts, a leaf all of whose conditions are empty, and a    *)
(* group_by regex with a capture group that may take no part in a match.   *)
LoadedRulesRun ==
    step = "raised" =>
        \/ \E bag \in TreeLeaves(rule) \cup {rule.flat} : Untyped(bag)
        \/ \E leaf \in TreeLeaves(rule) : ~HasConditions(leaf)
        \/ \E by \in rule.group_by, o \in bucket :
              "regex" \in DOMAIN by /\ Captures[by.regex][o.key] = Partial

(* A match tree as set algebra over the bucket: the meaning that rules.py  *)
(* gives to any_of (OR), all_of (AND) and none_of, not (negation).  What   *)
(* several conditions or operators say together is their intersection.     *)
Fitting(bag) == {o \in bucket : \A f \in DOMAIN bag :
                                   Builds(f, bag[f]) => Satisfies(o, f, bag[f])}
Combined(op, sets) ==
    CASE op = "any_of" -> UNION sets
      [] op = "all_of" -> {o \in bucket : \A s \in sets : o \in s}
      [] op \in {"none_of", "not"} -> bucket \ UNION sets
NodeMeans(meaning, node) ==
    IF IsLeaf(node) THEN Fitting(node)
    ELSE {o \in bucket : \A op \in DOMAIN node \cap MATCH_GROUP_OPS :
                            o \in Combined(op, {meaning[child] : child \in node[op]})}
Meaning[node \in Nodes] == NodeMeans(Meaning, node)

(* A per-object rule selects the objects that its conditions and its tree  *)
(* both mean; a keep-newest rule nothing outside of them (rules.py:1-18).  *)
SelectsWhatItMeans ==
    step = "scanned" =>
        LET meant == {o \in Fitting(rule.flat) : \A node \in rule.match : o \in Meaning[node]}
        IN IF rule.keep_newest = None THEN candidates = meant
           ELSE candidates \subseteq meant

(* Rule r with more conditions. *)
Narrowed(r, more) ==
    [r EXCEPT !.flat = [f \in DOMAIN r.flat \cup DOMAIN more |->
                            IF f \in DOMAIN r.flat THEN r.flat[f] ELSE more[f]]]

(* Narrowing a rule by one more condition never selects an object that it  *)
(* did not select before: also not in keep-newest rules, where fewer       *)
(* objects compete for the newest places (rules.py:258-293).               *)
MoreConditionsSelectLess ==
    step = "scanned" =>
        \A more \in Conditions :
            /\ DOMAIN more \cap DOMAIN rule.flat = {}
            /\ ValidRule(Narrowed(rule, more)) /\ ~CompileRaises(Narrowed(rule, more))
            => Select(Narrowed(rule, more), bucket) \subseteq candidates

(* A finer group_by prefix keeps at least what the coarser one keeps: each *)
(* group has its own newest, and too short a key is left alone.            *)
FinerGroupsKeepMore ==
    step = "scanned" =>
        \A by \in rule.group_by : "depth" \in DOMAIN by =>
            Select([rule EXCEPT !.group_by = {[depth |-> by.depth + 1]}], bucket)
                \subseteq candidates

(* A cleanup never costs, and saves at most what its candidates alone      *)
(* would cost: the tiers make the last gigabytes the cheapest, which is    *)
(* why the cost is computed on the remaining volume (pricing.py:87-89).    *)
SavingsAreMarginal ==
    step = "reported" =>
        /\ monthly >= 0
        /\ monthly <= MonthlyCost(ByClass(candidates), overrides)
=============================================================================
