----------------------------- MODULE RuleMatch -----------------------------
(***************************************************************************)
(* What one cleanup rule selects: its validation when the configuration is *)
(* loaded (config.py), the compilation of its conditions and of its match  *)
(* tree into predicates, and its group_by (rules.py).                      *)
(*                                                                         *)
(* A key is a sequence of path segments; `contains', `starts with' and     *)
(* `ends with' look at whole segments, and Lower is str.lower.  What a     *)
(* regular expression finds is a constant.  A list of conditions or of     *)
(* child nodes is a set: their order plays no part in any()/all().  Nobody *)
(* looks at what the configuration gives as a list: it may be no list, or  *)
(* have elements that are no text.                                         *)
(*                                                                         *)
(* A function over match trees is defined by a step, which says what it is *)
(* of a node, given what it is of the node's children.                     *)
(***************************************************************************)
EXTENDS Integers, FiniteSets, SequencesExt

CONSTANTS
    Nodes,       \* the nodes of match trees
    Depth,       \* node -> how deep the tree below it nests
    Lower,       \* segment -> its lower case
    Finds,       \* regex that compiles -> the keys it is found in
    Captures,    \* group_by regex that compiles -> key -> group, NoGroup or Partial
    NoGroup,     \* the regex is not found in the key
    Partial,     \* found, with a capture group that took no part in the match
    NotText,     \* an element of a list that is no text
    NotList,     \* the value of a list condition that cannot be iterated
    Now          \* the engine's `now', in days

None == -1       \* a scalar condition that is null
Bad  == -2       \* text that is no period, date or size

ListConditions == {"keywords", "prefixes", "suffixes", "storage_classes"}
RULE_CONDITION_FIELDS == ListConditions \cup {"match_regex", "older_than", "min_size"}
MATCH_GROUP_OPS == {"any_of", "all_of", "none_of", "not"}

(* A document is finite: a node contains only smaller ones. *)
ASSUME NodesAssumption ==
    /\ Depth \in [Nodes -> Nat]
    /\ \A node \in Nodes : \A op \in DOMAIN node \cap MATCH_GROUP_OPS : \A child \in node[op] :
          child \in Nodes /\ Depth[child] < Depth[node]

IsLeaf(node) == DOMAIN node \cap MATCH_GROUP_OPS = {}

Compiles(regex) == regex = "" \/ regex \in DOMAIN Finds

-----------------------------------------------------------------------------
(* Validation.  A bag of conditions maps the fields it has to their values. *)

ValidConditions(bag) ==
    /\ "match_regex" \in DOMAIN bag => Compiles(bag.match_regex)
    /\ "older_than"  \in DOMAIN bag => bag.older_than # Bad
    /\ "min_size"    \in DOMAIN bag => bag.min_size # Bad

(* Mutant of NodeIsValid: the children of none_of and not are not visited. *)
NodeIsValidShallow(valid, node) ==
    /\ DOMAIN node # {}
    /\ \/ /\ DOMAIN node \subseteq RULE_CONDITION_FIELDS
          /\ ValidConditions(node)
       \/ /\ DOMAIN node \subseteq MATCH_GROUP_OPS
          /\ \A op \in DOMAIN node \cap {"any_of", "all_of"} :
                \A child \in node[op] : valid[child]

NodeIsValid(valid, node) ==
    /\ DOMAIN node # {}
    /\ \/ /\ DOMAIN node \subseteq RULE_CONDITION_FIELDS
          /\ ValidConditions(node)
       \/ /\ DOMAIN node \subseteq MATCH_GROUP_OPS
          /\ \A op \in DOMAIN node : /\ node[op] # {}
                                     /\ \A child \in node[op] : valid[child]

ValidNode[node \in Nodes] == NodeIsValid(ValidNode, node)

ValidGroupBy(by) == \/ "depth" \in DOMAIN by /\ by.depth >= 1
                    \/ "regex" \in DOMAIN by /\ by.regex \in DOMAIN Captures

(* A condition Python takes for true. *)
Truthy(field, value) ==
    CASE field \in ListConditions -> value # {}
      [] field = "match_regex"    -> value # ""
      [] field = "older_than"     -> value # None
      [] field = "min_size"       -> value \notin {None, 0}

HasConditions(bag) == \E f \in DOMAIN bag : Truthy(f, bag[f])

(* A rule's match and group_by are sets of at most one: the empty set is None. *)
ValidRule(rule) ==
    /\ \A node \in rule.match : ValidNode[node]
    /\ IF rule.keep_newest = None
       THEN rule.group_by = {} /\ (HasConditions(rule.flat) \/ rule.match # {})
       ELSE /\ rule.keep_newest >= 0 /\ rule.group_by # {}
            /\ \A by \in rule.group_by : ValidGroupBy(by)
    /\ ValidConditions(rule.flat)

-----------------------------------------------------------------------------
(* Compilation. *)

(* The builder of the field makes a predicate of the value. *)
Builds(field, value) ==
    CASE field \in ListConditions -> value # {}
      [] field = "match_regex"    -> value # ""
      [] OTHER                    -> value # None

(* The predicate that the builder of the field makes. *)
Satisfies(obj, field, value) ==
    CASE field = "keywords"        -> \E k \in value, i \in DOMAIN obj.key :
                                         Lower[obj.key[i]] = Lower[k]
      [] field = "match_regex"     -> obj.key \in Finds[value]
      [] field = "prefixes"        -> Head(obj.key) \in value
      [] field = "suffixes"        -> \E s \in value : Lower[Last(obj.key)] = Lower[s]
      [] field = "older_than"      -> obj.last_modified < Now - value
      [] field = "min_size"        -> obj.size_bytes >= value
      [] field = "storage_classes" -> obj.storage_class \in value

(* Mutant of AllOf: one condition of several is enough. *)
AnyOf(bag, obj) == \E f \in DOMAIN bag : Builds(f, bag[f]) /\ Satisfies(obj, f, bag[f])

AllOf(bag, obj) == \A f \in DOMAIN bag : Builds(f, bag[f]) => Satisfies(obj, f, bag[f])

(* Mutant of NodeMatches: `not' over a list rejects only what all of it    *)
(* matches.                                                                *)
NodeMatchesNotAll(matches, node, obj) ==
    IF IsLeaf(node) THEN AllOf(node, obj)
    ELSE \A op \in DOMAIN node \cap MATCH_GROUP_OPS :
           CASE op = "any_of"  -> \E child \in node[op] : matches[child]
             [] op = "all_of"  -> \A child \in node[op] : matches[child]
             [] op = "none_of" -> ~ \E child \in node[op] : matches[child]
             [] op = "not"     -> ~ \A child \in node[op] : matches[child]

NodeMatches(matches, node, obj) ==
    IF IsLeaf(node) THEN AllOf(node, obj)
    ELSE \A op \in DOMAIN node \cap MATCH_GROUP_OPS :
           CASE op = "any_of" -> \E child \in node[op] : matches[child]
             [] op = "all_of" -> \A child \in node[op] : matches[child]
             [] op \in {"none_of", "not"} -> ~ \E child \in node[op] : matches[child]

(* What the nodes' predicates say of obj. *)
Matches(obj) == LET matches[node \in Nodes] == NodeMatches(matches, node, obj) IN matches

HasNotText(bag, fields) ==
    \E f \in DOMAIN bag \cap fields : bag[f] # NotList /\ NotText \in bag[f]

(* Compiling a bag of conditions raises: the builders of keywords and      *)
(* suffixes lower their elements, those of the other lists only copy them. *)
Raises(bag) == \/ "match_regex" \in DOMAIN bag /\ ~Compiles(bag.match_regex)
               \/ \E f \in DOMAIN bag \cap {"older_than", "min_size"} : bag[f] = Bad
               \/ \E f \in DOMAIN bag \cap ListConditions : bag[f] = NotList
               \/ HasNotText(bag, {"keywords", "suffixes"})

(* Trying the predicate on an object may raise when startswith comes to an *)
(* element that is no text; an unhashable storage class raises earlier.    *)
MayRaise(bag) == HasNotText(bag, {"prefixes", "storage_classes"})

(* The leaves of a tree. *)
NodeLeaves(leaves, node) ==
    IF IsLeaf(node) THEN {node}
    ELSE UNION {leaves[child] : child \in UNION {node[op] : op \in DOMAIN node \cap MATCH_GROUP_OPS}}

Leaves[node \in Nodes] == NodeLeaves(Leaves, node)

TreeLeaves(rule) == UNION {Leaves[node] : node \in rule.match}

(* Each leaf becomes a rule of its own, which a rule without conditions    *)
(* must not be.                                                            *)
CompileRaises(rule) == \/ Raises(rule.flat)
                       \/ \E leaf \in TreeLeaves(rule) : Raises(leaf) \/ ~HasConditions(leaf)

(* The object passes every predicate of the rule: compile_rule. *)
InScope(rule, obj) == AllOf(rule.flat, obj) /\ \A node \in rule.match : Matches(obj)[node]

(* Mutant of GroupOf: only the last of the first segments is compared. *)
GroupOfSegment(by, key) ==
    IF "depth" \in DOMAIN by
    THEN IF Len(key) < by.depth THEN NoGroup ELSE <<key[by.depth]>>
    ELSE Captures[by.regex][key]

(* The group of a key: its first segments, or what the regex captures. *)
GroupOf(by, key) ==
    IF "depth" \in DOMAIN by
    THEN IF Len(key) < by.depth THEN NoGroup ELSE SubSeq(key, 1, by.depth)
    ELSE Captures[by.regex][key]
=============================================================================
