-------------------------- MODULE ScanReportProofs --------------------------
(***************************************************************************)
(* Theorems of ScanReport: for any rules with trees of any depth and width,*)
(* any finite listing, and any price list whose tiers get cheaper.         *)
(***************************************************************************)
EXTENDS ScanReport, DataTheorems

LEMMA Children ==
  ASSUME NEW node \in Nodes, NEW op \in DOMAIN node \cap MATCH_GROUP_OPS, NEW c \in node[op]
  PROVE  c \in Nodes /\ Depth[c] < Depth[node]
  BY NodesAssumption

-----------------------------------------------------------------------------
(* The functions over match trees are what their steps say.                *)

LEMMA ValidNodeIs ==
  \A node \in Nodes : ValidNode[node] <=> NodeIsValid(ValidNode, node)
  <1> DEFINE recur == [p \in Nodes \X [Nodes -> BOOLEAN] |-> NodeIsValid(p[2], p[1])]
  <1>1. ASSUME NEW x \in Nodes, NEW f, NEW g,
               \A y \in Nodes : Depth[y] < Depth[x] => f[y] = g[y]
        PROVE  NodeIsValid(f, x) = NodeIsValid(g, x)
    <2>1. \A op \in DOMAIN x \cap MATCH_GROUP_OPS : \A c \in x[op] : f[c] = g[c]
      BY <1>1, Children
    <2> QED
      BY <2>1 DEF NodeIsValid
  <1>2. /\ recur \in [Nodes \X [Nodes -> BOOLEAN] -> BOOLEAN]
        /\ \A x \in Nodes, f \in [Nodes -> BOOLEAN] : recur[<<x, f>>] = NodeIsValid(f, x)
    <2>1. \A f, x : NodeIsValid(f, x) \in BOOLEAN
      BY DEF NodeIsValid
    <2> QED
      BY <2>1
  <1>3. Recurses(Nodes, Depth, BOOLEAN, recur)
    <2> HIDE DEF recur
    <2>1. ASSUME NEW x \in Nodes, NEW f \in [Nodes -> BOOLEAN], NEW g \in [Nodes -> BOOLEAN],
                 \A y \in Nodes : Depth[y] < Depth[x] => f[y] = g[y]
          PROVE  recur[<<x, f>>] = recur[<<x, g>>]
      BY <1>1, <1>2, <2>1
    <2> QED
      BY <1>2, <2>1, NodesAssumption DEF Recurses
  <1> HIDE DEF recur
  <1>4. PICK f \in [Nodes -> BOOLEAN] : \A node \in Nodes : f[node] = recur[<<node, f>>]
    BY <1>3, Recursion
  <1>5. f = [node \in Nodes |-> NodeIsValid(f, node)]
    BY <1>2, <1>4
  <1>6. ValidNode = [node \in Nodes |-> NodeIsValid(ValidNode, node)]
    BY <1>5 DEF ValidNode
  <1> QED
    BY <1>6

(* The leaves of a tree are bags of conditions. *)
LeafNodes == {node \in Nodes : IsLeaf(node)}

LEMMA LeavesIs ==
  \A node \in Nodes : Leaves[node] = NodeLeaves(Leaves, node)
  <1> DEFINE recur == [p \in Nodes \X [Nodes -> SUBSET LeafNodes] |-> NodeLeaves(p[2], p[1])]
  <1>1. ASSUME NEW x \in Nodes, NEW f, NEW g,
               \A y \in Nodes : Depth[y] < Depth[x] => f[y] = g[y]
        PROVE  NodeLeaves(f, x) = NodeLeaves(g, x)
    <2> DEFINE below == UNION {x[op] : op \in DOMAIN x \cap MATCH_GROUP_OPS}
    <2>1. \A c \in below : f[c] = g[c]
      BY <1>1, Children
    <2> HIDE DEF below
    <2>2. {f[c] : c \in below} = {g[c] : c \in below}
      BY <2>1
    <2> QED
      BY <2>2 DEF NodeLeaves, below
  <1>2. ASSUME NEW x \in Nodes, NEW f \in [Nodes -> SUBSET LeafNodes]
        PROVE  NodeLeaves(f, x) \in SUBSET LeafNodes
    <2> DEFINE below == UNION {x[op] : op \in DOMAIN x \cap MATCH_GROUP_OPS}
    <2>1. \A c \in below : f[c] \in SUBSET LeafNodes
      BY Children
    <2> HIDE DEF below
    <2>2. UNION {f[c] : c \in below} \subseteq LeafNodes
      BY <2>1
    <2>3. {x} \subseteq LeafNodes \/ ~IsLeaf(x)
      BY DEF LeafNodes
    <2> QED
      BY <2>2, <2>3 DEF NodeLeaves, below
  <1>3. /\ recur \in [Nodes \X [Nodes -> SUBSET LeafNodes] -> SUBSET LeafNodes]
        /\ \A x \in Nodes, f \in [Nodes -> SUBSET LeafNodes] : recur[<<x, f>>] = NodeLeaves(f, x)
    BY <1>2
  <1>4. Recurses(Nodes, Depth, SUBSET LeafNodes, recur)
    <2> HIDE DEF recur
    <2>1. ASSUME NEW x \in Nodes, NEW f \in [Nodes -> SUBSET LeafNodes],
                 NEW g \in [Nodes -> SUBSET LeafNodes],
                 \A y \in Nodes : Depth[y] < Depth[x] => f[y] = g[y]
          PROVE  recur[<<x, f>>] = recur[<<x, g>>]
      BY <1>1, <1>3, <2>1
    <2> QED
      BY <1>3, <2>1, NodesAssumption DEF Recurses
  <1> HIDE DEF recur
  <1>5. PICK f \in [Nodes -> SUBSET LeafNodes] : \A node \in Nodes : f[node] = recur[<<node, f>>]
    BY <1>4, Recursion
  <1>6. f = [node \in Nodes |-> NodeLeaves(f, node)]
    BY <1>3, <1>5
  <1>7. Leaves = [node \in Nodes |-> NodeLeaves(Leaves, node)]
    BY <1>6 DEF Leaves
  <1> QED
    BY <1>7

LEMMA MatchesIs ==
  ASSUME NEW obj
  PROVE  \A node \in Nodes : Matches(obj)[node] <=> NodeMatches(Matches(obj), node, obj)
  <1> DEFINE recur == [p \in Nodes \X [Nodes -> BOOLEAN] |-> NodeMatches(p[2], p[1], obj)]
  <1>1. ASSUME NEW x \in Nodes, NEW f, NEW g,
               \A y \in Nodes : Depth[y] < Depth[x] => f[y] = g[y]
        PROVE  NodeMatches(f, x, obj) = NodeMatches(g, x, obj)
    <2>1. \A op \in DOMAIN x \cap MATCH_GROUP_OPS : \A c \in x[op] : f[c] = g[c]
      BY <1>1, Children
    <2>2. \A op \in DOMAIN x \cap MATCH_GROUP_OPS :
             /\ (\E c \in x[op] : f[c]) <=> (\E c \in x[op] : g[c])
             /\ (\A c \in x[op] : f[c]) <=> (\A c \in x[op] : g[c])
      BY <2>1
    <2> QED
      BY <2>2 DEF NodeMatches, MATCH_GROUP_OPS
  <1>2. /\ recur \in [Nodes \X [Nodes -> BOOLEAN] -> BOOLEAN]
        /\ \A x \in Nodes, f \in [Nodes -> BOOLEAN] : recur[<<x, f>>] = NodeMatches(f, x, obj)
    <2>1. \A f, x : NodeMatches(f, x, obj) \in BOOLEAN
      BY DEF NodeMatches, AllOf
    <2> QED
      BY <2>1
  <1>3. Recurses(Nodes, Depth, BOOLEAN, recur)
    <2> HIDE DEF recur
    <2>1. ASSUME NEW x \in Nodes, NEW f \in [Nodes -> BOOLEAN], NEW g \in [Nodes -> BOOLEAN],
                 \A y \in Nodes : Depth[y] < Depth[x] => f[y] = g[y]
          PROVE  recur[<<x, f>>] = recur[<<x, g>>]
      BY <1>1, <1>2, <2>1
    <2> QED
      BY <1>2, <2>1, NodesAssumption DEF Recurses
  <1> HIDE DEF recur
  <1>4. PICK f \in [Nodes -> BOOLEAN] : \A node \in Nodes : f[node] = recur[<<node, f>>]
    BY <1>3, Recursion
  <1>5. f = [node \in Nodes |-> NodeMatches(f, node, obj)]
    BY <1>2, <1>4
  <1>6. Matches(obj) = [node \in Nodes |-> NodeMatches(Matches(obj), node, obj)]
    BY <1>5 DEF Matches
  <1> QED
    BY <1>6

LEMMA MeaningIs ==
  \A node \in Nodes : Meaning[node] = NodeMeans(Meaning, node)
  <1> DEFINE recur == [p \in Nodes \X [Nodes -> SUBSET bucket] |-> NodeMeans(p[2], p[1])]
  <1>1. ASSUME NEW x \in Nodes, NEW f, NEW g,
               \A y \in Nodes : Depth[y] < Depth[x] => f[y] = g[y]
        PROVE  NodeMeans(f, x) = NodeMeans(g, x)
    <2>1. \A op \in DOMAIN x \cap MATCH_GROUP_OPS : \A c \in x[op] : f[c] = g[c]
      BY <1>1, Children
    <2>2. \A op \in DOMAIN x \cap MATCH_GROUP_OPS :
              {f[c] : c \in x[op]} = {g[c] : c \in x[op]}
      BY <2>1
    <2> QED
      BY <2>2 DEF NodeMeans
  <1>2. /\ recur \in [Nodes \X [Nodes -> SUBSET bucket] -> SUBSET bucket]
        /\ \A x \in Nodes, f \in [Nodes -> SUBSET bucket] : recur[<<x, f>>] = NodeMeans(f, x)
    <2>1. \A f, x : NodeMeans(f, x) \in SUBSET bucket
      BY DEF NodeMeans, Fitting
    <2> QED
      BY <2>1
  <1>3. Recurses(Nodes, Depth, SUBSET bucket, recur)
    <2> HIDE DEF recur
    <2>1. ASSUME NEW x \in Nodes, NEW f \in [Nodes -> SUBSET bucket], NEW g \in [Nodes -> SUBSET bucket],
                 \A y \in Nodes : Depth[y] < Depth[x] => f[y] = g[y]
          PROVE  recur[<<x, f>>] = recur[<<x, g>>]
      BY <1>1, <1>2, <2>1
    <2> QED
      BY <1>2, <2>1, NodesAssumption DEF Recurses
  <1> HIDE DEF recur
  <1>4. PICK f \in [Nodes -> SUBSET bucket] : \A node \in Nodes : f[node] = recur[<<node, f>>]
    BY <1>3, Recursion
  <1>5. f = [node \in Nodes |-> NodeMeans(f, node)]
    BY <1>2, <1>4
  <1>6. Meaning = [node \in Nodes |-> NodeMeans(Meaning, node)]
    BY <1>5 DEF Meaning
  <1> QED
    BY <1>6
-----------------------------------------------------------------------------
(* Trees that the validator lets pass: a leaf's conditions are good, and   *)
(* so are the children of a group.                                         *)

LEMMA ValidLeaf ==
  ASSUME NEW node \in Nodes, ValidNode[node], IsLeaf(node)
  PROVE  ValidConditions(node)
  BY ValidNodeIs DEF NodeIsValid, IsLeaf

LEMMA ValidChildren ==
  ASSUME NEW node \in Nodes, ValidNode[node], ~IsLeaf(node),
         NEW op \in DOMAIN node \cap MATCH_GROUP_OPS, NEW c \in node[op]
  PROVE  ValidNode[c]
  <1>1. ~(DOMAIN node \subseteq RULE_CONDITION_FIELDS)
    BY DEF IsLeaf, RULE_CONDITION_FIELDS, ListConditions, MATCH_GROUP_OPS
  <1> QED
    BY <1>1, ValidNodeIs DEF NodeIsValid

(* What is valid and a list of texts wherever it should be, compiles.      *)
LEMMA ValidConditionsCompile ==
  ASSUME NEW bag, ValidConditions(bag), Raises(bag)
  PROVE  Untyped(bag)
  BY DEF ValidConditions, Raises, Untyped, HasNotText, ListConditions

LEMMA ValidLeaves ==
  \A node \in Nodes : ValidNode[node] => \A leaf \in Leaves[node] : ValidConditions(leaf)
  <1> DEFINE F == {node \in Nodes : ValidNode[node] =>
                      \A leaf \in Leaves[node] : ValidConditions(leaf)}
  <1>1. ASSUME NEW node \in Nodes, \A c \in Nodes : Depth[c] < Depth[node] => c \in F
        PROVE  node \in F
    <2> SUFFICES ASSUME ValidNode[node], NEW leaf \in Leaves[node] PROVE ValidConditions(leaf)
      OBVIOUS
    <2>1. leaf \in NodeLeaves(Leaves, node)
      BY LeavesIs
    <2>2. CASE IsLeaf(node)
      BY <2>1, <2>2, ValidLeaf DEF NodeLeaves
    <2>3. CASE ~IsLeaf(node)
      <3>1. PICK op \in DOMAIN node \cap MATCH_GROUP_OPS : \E c \in node[op] : leaf \in Leaves[c]
        BY <2>1, <2>3 DEF NodeLeaves
      <3>2. PICK c \in node[op] : leaf \in Leaves[c]
        BY <3>1
      <3>3. c \in F /\ ValidNode[c]
        BY <1>1, <2>3, Children, ValidChildren
      <3> QED
        BY <3>2, <3>3
    <2> QED
      BY <2>2, <2>3
  <1>2. Nodes \subseteq F
    <2> HIDE DEF F
    <2> QED
      BY <1>1, NodesAssumption, DepthInduction
  <1> QED
    BY <1>2

(* The predicate that is compiled from a tree is true of the objects that  *)
(* the tree means.                                                         *)
LEMMA MatchesWhatItMeans ==
  \A node \in Nodes : ValidNode[node] =>
      \A o \in bucket : o \in Meaning[node] <=> Matches(o)[node]
  <1> DEFINE F == {node \in Nodes : ValidNode[node] =>
                      \A o \in bucket : o \in Meaning[node] <=> Matches(o)[node]}
  <1>1. ASSUME NEW node \in Nodes, \A c \in Nodes : Depth[c] < Depth[node] => c \in F
        PROVE  node \in F
    <2> SUFFICES ASSUME ValidNode[node], NEW o \in bucket
                 PROVE  o \in Meaning[node] <=> Matches(o)[node]
      OBVIOUS
    <2>1. Matches(o)[node] <=> NodeMatches(Matches(o), node, o)
      BY MatchesIs
    <2>2. Meaning[node] = NodeMeans(Meaning, node)
      BY MeaningIs
    <2>3. CASE IsLeaf(node)
      BY <2>1, <2>2, <2>3 DEF NodeMatches, NodeMeans, Fitting, AllOf
    <2>4. CASE ~IsLeaf(node)
      <3>1. ASSUME NEW op \in DOMAIN node \cap MATCH_GROUP_OPS, NEW c \in node[op]
            PROVE  o \in Meaning[c] <=> Matches(o)[c]
        <4>1. c \in F
          BY <1>1, Children
        <4> QED
          BY <2>4, <4>1, ValidChildren
      <3> DEFINE sets(op) == {Meaning[c] : c \in node[op]}
      <3>2. ASSUME NEW op \in DOMAIN node \cap MATCH_GROUP_OPS
            PROVE  o \in Combined(op, sets(op)) <=>
                      CASE op = "any_of" -> \E c \in node[op] : Matches(o)[c]
                        [] op = "all_of" -> \A c \in node[op] : Matches(o)[c]
                        [] op \in {"none_of", "not"} -> ~ \E c \in node[op] : Matches(o)[c]
        <4>1. o \in UNION sets(op) <=> \E c \in node[op] : Matches(o)[c]
          BY <3>1
        <4>2. (\A s \in sets(op) : o \in s) <=> \A c \in node[op] : Matches(o)[c]
          BY <3>1
        <4> HIDE DEF sets
        <4>3. CASE op = "any_of"
          BY <4>1, <4>3 DEF Combined
        <4>4. CASE op = "all_of"
          BY <4>2, <4>4 DEF Combined
        <4>5. CASE op \in {"none_of", "not"}
          BY <4>1, <4>5 DEF Combined
        <4> QED
          BY <4>3, <4>4, <4>5 DEF MATCH_GROUP_OPS
      <3>3. o \in NodeMeans(Meaning, node) <=>
               \A op \in DOMAIN node \cap MATCH_GROUP_OPS : o \in Combined(op, sets(op))
        BY <2>4 DEF NodeMeans
      <3> HIDE DEF sets
      <3> QED
        BY <2>1, <2>2, <2>4, <3>2, <3>3 DEF NodeMatches
    <2> QED
      BY <2>3, <2>4
  <1>2. Nodes \subseteq F
    <2> HIDE DEF F
    <2> QED
      BY <1>1, NodesAssumption, DepthInduction
  <1> QED
    BY <1>2
-----------------------------------------------------------------------------
(* Each step of the command does its part on what was read at the start.   *)
ScanInv ==
    /\ rule \in Rules /\ bucket \in Buckets /\ overrides \in Overrides
    /\ step \in {"written", "refused", "loaded", "raised", "scanned", "reported"}
    /\ step \in {"loaded", "raised", "scanned", "reported"} => ValidRule(rule)
    /\ step = "raised" => \/ CompileRaises(rule) \/ GroupRaises(rule, bucket)
                          \/ \E bag \in TreeLeaves(rule) \cup {rule.flat} : MayRaise(bag)
    /\ step \in {"scanned", "reported"} => candidates = Select(rule, bucket)
    /\ step = "reported" => monthly = Savings(ByClass(bucket), ByClass(candidates), overrides)

LEMMA ScanInvariant == Spec => []ScanInv
  <1>1. Init => ScanInv
    BY DEF Init, ScanInv
  <1>2. ScanInv /\ [Next]_vars => ScanInv'
    <2> SUFFICES ASSUME ScanInv, [Next]_vars PROVE ScanInv'
      OBVIOUS
    <2>1. CASE Load \/ Reject
      BY <2>1 DEF ScanInv, Load, Reject, input
    <2>2. CASE EngineRaises \/ ScanRaises
      BY <2>2 DEF ScanInv, EngineRaises, ScanRaises, input
    <2>3. CASE Scan
      BY <2>3 DEF ScanInv, Scan, input
    <2>4. CASE Report
      BY <2>4 DEF ScanInv, Report, input
    <2>5. CASE UNCHANGED vars
      BY <2>5 DEF ScanInv, vars, input
    <2> QED
      BY <2>1, <2>2, <2>3, <2>4, <2>5 DEF Next
  <1> QED
    BY <1>1, <1>2, PTL DEF Spec

-----------------------------------------------------------------------------
(* Groups.  What is a prefix of a key is no group of another kind. *)
LEMMA PrefixGroup ==
  ASSUME NEW by, "depth" \in DOMAIN by, by.depth \in Nat \ {0}, NEW key \in Seq(DOMAIN Lower)
  PROVE  /\ Len(key) < by.depth => GroupOf(by, key) = NoGroup
         /\ Len(key) >= by.depth => /\ GroupOf(by, key) = SubSeq(key, 1, by.depth)
                                    /\ GroupOf(by, key) \in Seq(DOMAIN Lower)
         /\ GroupOf(by, key) # Partial
         /\ GroupOf(by, key) = NoGroup <=> Len(key) < by.depth
  <1>1. Len(key) \in Nat
    OBVIOUS
  <1>2. CASE Len(key) < by.depth
    BY <1>1, <1>2, GroupsAssumption DEF GroupOf
  <1>3. CASE Len(key) >= by.depth
    <2>1. GroupOf(by, key) = SubSeq(key, 1, by.depth)
      BY <1>1, <1>3 DEF GroupOf
    <2>2. SubSeq(key, 1, by.depth) \in Seq(DOMAIN Lower)
      BY <1>1, <1>3
    <2>3. GroupOf(by, key) # NoGroup /\ GroupOf(by, key) # Partial
      BY <2>1, <2>2, GroupsAssumption
    <2> QED
      BY <1>1, <1>3, <2>1, <2>2, <2>3
  <1> QED
    BY <1>1, <1>2, <1>3

(* A rule that loads raises only where no validation looks. *)
LEMMA ValidRaises ==
  ASSUME ScanInv, ValidRule(rule),
         \/ CompileRaises(rule) \/ GroupRaises(rule, bucket)
         \/ \E bag \in TreeLeaves(rule) \cup {rule.flat} : MayRaise(bag)
  PROVE  \/ \E bag \in TreeLeaves(rule) \cup {rule.flat} : Untyped(bag)
         \/ \E leaf \in TreeLeaves(rule) : ~HasConditions(leaf)
         \/ \E by \in rule.group_by, o \in bucket :
               "regex" \in DOMAIN by /\ Captures[by.regex][o.key] = Partial
  <1>1. CASE CompileRaises(rule)
    <2>1. CASE Raises(rule.flat)
      BY <2>1, ValidConditionsCompile DEF ValidRule
    <2>2. CASE \E leaf \in TreeLeaves(rule) : Raises(leaf) \/ ~HasConditions(leaf)
      <3>1. PICK leaf \in TreeLeaves(rule) : Raises(leaf) \/ ~HasConditions(leaf)
        BY <2>2
      <3>2. PICK node \in rule.match : leaf \in Leaves[node]
        BY DEF TreeLeaves
      <3>3. node \in Nodes /\ ValidNode[node]
        BY RulesAssumption DEF ScanInv, ValidRule
      <3>4. ValidConditions(leaf)
        BY <3>2, <3>3, ValidLeaves
      <3> QED
        BY <3>1, <3>4, ValidConditionsCompile
    <2> QED
      BY <1>1, <2>1, <2>2 DEF CompileRaises
  <1>m. CASE \E bag \in TreeLeaves(rule) \cup {rule.flat} : MayRaise(bag)
    <2>1. \A bag : MayRaise(bag) => Untyped(bag)
      BY DEF MayRaise, HasNotText, Untyped, ListConditions
    <2> QED
      BY <1>m, <2>1
  <1>2. CASE GroupRaises(rule, bucket)
    <2>1. PICK o \in bucket, by \in rule.group_by : GroupOf(by, o.key) = Partial
      BY <1>2 DEF GroupRaises
    <2>2. ValidGroupBy(by)
      BY DEF ValidRule
    <2>3. CASE "depth" \in DOMAIN by /\ by.depth >= 1
      <3>1. by.depth \in Nat \ {0} /\ o.key \in Seq(DOMAIN Lower)
        BY <2>3, RulesAssumption, BucketsAssumption DEF ScanInv
      <3> QED
        BY <2>1, <2>3, <3>1, PrefixGroup
    <2>4. CASE "regex" \in DOMAIN by
      <3>1. "depth" \notin DOMAIN by
        BY <2>4, RulesAssumption DEF ScanInv
      <3> QED
        BY <2>1, <2>4, <3>1 DEF GroupOf
    <2> QED
      BY <2>2, <2>3, <2>4 DEF ValidGroupBy
  <1> QED
    BY <1>1, <1>2, <1>m

(* A rule that loads can be compiled and run, but for a list condition that*)
(* is not a list of texts, a leaf all of whose conditions are empty, and a *)
(* group_by regex with a group that took no part in a match.               *)
THEOREM WhatLoadsRuns == Spec => []LoadedRulesRun
  <1>1. ScanInv => LoadedRulesRun
    BY ValidRaises DEF ScanInv, LoadedRulesRun
  <1> QED
    BY <1>1, ScanInvariant, PTL

-----------------------------------------------------------------------------
LEMMA SelectedAreInScope ==
  ASSUME NEW r, NEW objects, NEW o \in Select(r, objects)
  PROVE  o \in objects /\ InScope(r, o)
  BY DEF Select, Superseded

LEMMA InScopeIsMeant ==
  ASSUME ScanInv, ValidRule(rule), NEW o \in bucket
  PROVE  InScope(rule, o) <=> /\ o \in Fitting(rule.flat)
                              /\ \A node \in rule.match : o \in Meaning[node]
  <1>1. \A node \in rule.match : o \in Meaning[node] <=> Matches(o)[node]
    BY RulesAssumption, MatchesWhatItMeans DEF ScanInv, ValidRule
  <1>2. AllOf(rule.flat, o) <=> o \in Fitting(rule.flat)
    BY DEF AllOf, Fitting
  <1> QED
    BY <1>1, <1>2 DEF InScope

(* What a rule selects is what its conditions and its tree mean, and for a *)
(* keep-newest rule nothing else.                                          *)
THEOREM SelectsTheMeant == Spec => []SelectsWhatItMeans
  <1>1. ASSUME ScanInv, step = "scanned" PROVE SelectsWhatItMeans
    <2>1. candidates = Select(rule, bucket) /\ ValidRule(rule)
      BY <1>1 DEF ScanInv
    <2> DEFINE meant == {o \in Fitting(rule.flat) :
                            \A node \in rule.match : o \in Meaning[node]}
    <2>2. Fitting(rule.flat) \subseteq bucket
      BY DEF Fitting
    <2>3. meant = {o \in bucket : InScope(rule, o)}
      BY <1>1, <2>1, <2>2, InScopeIsMeant
    <2> HIDE DEF meant
    <2>4. candidates \subseteq meant
      BY <2>1, <2>3, SelectedAreInScope
    <2>5. rule.keep_newest = None => candidates = meant
      BY <2>1, <2>3 DEF Select
    <2> QED
      BY <2>4, <2>5 DEF SelectsWhatItMeans, meant
  <1>2. ScanInv => SelectsWhatItMeans
    BY <1>1 DEF SelectsWhatItMeans
  <1> QED
    BY <1>2, ScanInvariant, PTL
-----------------------------------------------------------------------------
(* Fewer competitors, or smaller groups, and no more objects go. *)
LEMMA FewerAreNewer ==
  ASSUME NEW S, NEW T, IsFiniteSet(T), S \subseteq T, NEW keep \in Int, Cardinality(S) >= keep
  PROVE  Cardinality(T) >= keep
  <1>1. Cardinality(S) <= Cardinality(T) /\ IsFiniteSet(S)
    BY FS_Subset
  <1>2. Cardinality(S) \in Nat /\ Cardinality(T) \in Nat
    BY <1>1, FS_CardinalityType
  <1> QED
    BY <1>1, <1>2

LEMMA SupersededIn ==
  ASSUME NEW scope, IsFiniteSet(scope), NEW small, small \subseteq scope,
         NEW by, NEW finer, NEW keep \in Int, NEW o \in Superseded(finer, keep, small),
         GroupOf(by, o.key) # NoGroup,
         Group(finer, small, o) \subseteq Group(by, scope, o)
  PROVE  o \in Superseded(by, keep, scope)
  <1> DEFINE S == {p \in Group(finer, small, o) : Newer(p, o)}
             T == {p \in Group(by, scope, o) : Newer(p, o)}
  <1>1. o \in scope /\ Cardinality(S) >= keep
    BY DEF Superseded
  <1>2. T \subseteq scope /\ S \subseteq T
    BY DEF Group
  <1>3. IsFiniteSet(T)
    BY <1>2, FS_Subset
  <1> HIDE DEF S
  <1>4. Cardinality(T) >= keep
    <2> HIDE DEF T
    <2> QED
      BY <1>1, <1>2, <1>3, FewerAreNewer
  <1> QED
    BY <1>1, <1>4 DEF Superseded

LEMMA NarrowedScope ==
  ASSUME NEW r \in Rules, NEW more, NEW o, InScope(Narrowed(r, more), o)
  PROVE  InScope(r, o)
  <1> DEFINE n == Narrowed(r, more)
  <1>1. /\ n.match = r.match
        /\ n.flat = [f \in DOMAIN r.flat \cup DOMAIN more |->
                       IF f \in DOMAIN r.flat THEN r.flat[f] ELSE more[f]]
    BY RulesAssumption DEF Narrowed
  <1>2. \A f \in DOMAIN r.flat : f \in DOMAIN n.flat /\ n.flat[f] = r.flat[f]
    BY <1>1
  <1>3. AllOf(n.flat, o) /\ \A node \in n.match : Matches(o)[node]
    BY DEF InScope
  <1> HIDE DEF n
  <1>4. AllOf(r.flat, o)
    BY <1>2, <1>3 DEF AllOf
  <1> QED
    BY <1>1, <1>3, <1>4 DEF InScope

(* One more condition never adds an object to what a rule selects, also not*)
(* where fewer objects compete for the newest places.                      *)
THEOREM NarrowerSelectsLess == Spec => []MoreConditionsSelectLess
  <1>1. ASSUME ScanInv, step = "scanned", NEW more
        PROVE  Select(Narrowed(rule, more), bucket) \subseteq candidates
    <2> DEFINE n == Narrowed(rule, more)
               small == {o \in bucket : InScope(n, o)}
               scope == {o \in bucket : InScope(rule, o)}
    <2>1. candidates = Select(rule, bucket) /\ rule \in Rules /\ bucket \in Buckets
      BY <1>1 DEF ScanInv
    <2>2. small \subseteq scope
      BY <2>1, NarrowedScope
    <2>3. n.keep_newest = rule.keep_newest /\ n.group_by = rule.group_by
          /\ rule.keep_newest \in Int
      BY <2>1, RulesAssumption DEF Narrowed
    <2>4. IsFiniteSet(scope)
      BY <2>1, BucketsAssumption, FS_Subset
    <2>5. Select(n, bucket) = IF rule.keep_newest = None THEN small
                              ELSE UNION {Superseded(by, rule.keep_newest, small) : by \in rule.group_by}
      BY <2>3 DEF Select
    <2>6. candidates = IF rule.keep_newest = None THEN scope
                       ELSE UNION {Superseded(by, rule.keep_newest, scope) : by \in rule.group_by}
      BY <2>1 DEF Select
    <2> HIDE DEF small, scope, n
    <2>7. ASSUME NEW by \in rule.group_by, NEW o \in Superseded(by, rule.keep_newest, small)
          PROVE  o \in Superseded(by, rule.keep_newest, scope)
      <3>1. GroupOf(by, o.key) # NoGroup
        BY DEF Superseded
      <3>2. Group(by, small, o) \subseteq Group(by, scope, o)
        BY <2>2 DEF Group
      <3> QED
        BY <2>2, <2>3, <2>4, <3>1, <3>2, SupersededIn
    <2>8. Select(n, bucket) \subseteq candidates
      BY <2>2, <2>5, <2>6, <2>7
    <2> QED
      BY <2>8 DEF n
  <1>2. ScanInv => MoreConditionsSelectLess
    BY <1>1 DEF MoreConditionsSelectLess
  <1> QED
    BY <1>2, ScanInvariant, PTL

(* Keys alike in their first d + 1 segments are so in their first d. *)
LEMMA PrefixOfPrefix ==
  ASSUME NEW S, NEW k \in Seq(S), NEW l \in Seq(S), NEW d \in Nat,
         Len(k) >= d + 1, Len(l) >= d + 1, SubSeq(k, 1, d + 1) = SubSeq(l, 1, d + 1)
  PROVE  SubSeq(k, 1, d) = SubSeq(l, 1, d)
  <1>1. \A i \in 1..(d + 1) : k[i] = SubSeq(k, 1, d + 1)[i] /\ l[i] = SubSeq(l, 1, d + 1)[i]
    OBVIOUS
  <1>2. \A i \in 1..d : k[i] = l[i]
    BY <1>1
  <1>3. /\ SubSeq(k, 1, d) = [i \in 1..d |-> k[i]]
        /\ SubSeq(l, 1, d) = [i \in 1..d |-> l[i]]
    OBVIOUS
  <1> QED
    BY <1>2, <1>3

(* A finer prefix keeps at least what the coarser one keeps. *)
THEOREM FinerGroupsSelectLess == Spec => []FinerGroupsKeepMore
  <1>1. ASSUME ScanInv, step = "scanned", NEW by \in rule.group_by, "depth" \in DOMAIN by
        PROVE  Select([rule EXCEPT !.group_by = {[depth |-> by.depth + 1]}], bucket)
                   \subseteq candidates
    <2> DEFINE finer == [depth |-> by.depth + 1]
               n == [rule EXCEPT !.group_by = {finer}]
               scope == {o \in bucket : InScope(rule, o)}
               keep == rule.keep_newest
    <2>1. /\ candidates = Select(rule, bucket) /\ rule \in Rules /\ bucket \in Buckets
          /\ ValidRule(rule)
      BY <1>1 DEF ScanInv
    <2>2. keep # None /\ ValidGroupBy(by)
      BY <2>1 DEF ValidRule
    <2>3. by.depth \in Nat \ {0}
      BY <1>1, <2>1, <2>2, RulesAssumption DEF ValidGroupBy
    <2>4. /\ n.flat = rule.flat /\ n.match = rule.match /\ n.keep_newest = keep
          /\ n.group_by = {finer} /\ keep \in Int
      BY <2>1, RulesAssumption
    <2>5. IsFiniteSet(scope) /\ scope \subseteq bucket
      BY <2>1, BucketsAssumption, FS_Subset
    <2>6. "depth" \in DOMAIN finer /\ finer.depth = by.depth + 1 /\ finer.depth \in Nat \ {0}
      BY <2>3
    <2> HIDE DEF finer, n, keep
    <2>7. Select(n, bucket) = Superseded(finer, keep, scope)
      <3>1. \A o : InScope(n, o) <=> InScope(rule, o)
        BY <2>4 DEF InScope
      <3> QED
        BY <2>2, <2>4, <3>1 DEF Select
    <2>8. Superseded(by, keep, scope) \subseteq candidates
      BY <1>1, <2>1, <2>2 DEF Select, keep
    <2> HIDE DEF scope
    <2>9. ASSUME NEW o \in Superseded(finer, keep, scope)
          PROVE  o \in Superseded(by, keep, scope)
      <3>1. \A p \in scope : p.key \in Seq(DOMAIN Lower) /\ Len(p.key) \in Nat
        BY <2>1, <2>5, BucketsAssumption
      <3>2. o \in scope /\ GroupOf(finer, o.key) # NoGroup
        BY DEF Superseded
      <3>3. Len(o.key) >= by.depth + 1
        BY <2>3, <2>6, <3>1, <3>2, PrefixGroup
      <3>4. GroupOf(by, o.key) = SubSeq(o.key, 1, by.depth) /\ GroupOf(by, o.key) # NoGroup
        <4>1. Len(o.key) >= by.depth /\ ~(Len(o.key) < by.depth)
          BY <2>3, <3>1, <3>2, <3>3
        <4> QED
          BY <1>1, <2>3, <3>1, <3>2, <4>1, PrefixGroup
      <3>5. ASSUME NEW p \in scope, GroupOf(finer, p.key) = GroupOf(finer, o.key)
            PROVE  GroupOf(by, p.key) = GroupOf(by, o.key)
        <4>1. Len(p.key) >= by.depth + 1
          BY <2>3, <2>6, <3>1, <3>2, <3>5, PrefixGroup
        <4>2. SubSeq(p.key, 1, by.depth + 1) = SubSeq(o.key, 1, by.depth + 1)
          BY <2>6, <3>1, <3>2, <3>3, <3>5, <4>1, PrefixGroup
        <4>3. SubSeq(p.key, 1, by.depth) = SubSeq(o.key, 1, by.depth)
          <5>1. /\ by.depth \in Nat /\ Len(p.key) >= by.depth + 1 /\ Len(o.key) >= by.depth + 1
                /\ p.key \in Seq(DOMAIN Lower) /\ o.key \in Seq(DOMAIN Lower)
            BY <2>3, <3>1, <3>2, <3>3, <4>1
          <5> QED
            BY <4>2, <5>1, PrefixOfPrefix
        <4>4. Len(p.key) >= by.depth
          BY <2>3, <3>1, <4>1
        <4>5. GroupOf(by, p.key) = SubSeq(p.key, 1, by.depth)
          BY <1>1, <2>3, <3>1, <4>4, PrefixGroup
        <4> QED
          BY <3>4, <4>3, <4>5
      <3>6. Group(finer, scope, o) \subseteq Group(by, scope, o)
        BY <3>5 DEF Group
      <3> QED
        BY <2>4, <2>5, <3>4, <3>6, SupersededIn
    <2>10. Select(n, bucket) \subseteq candidates
      BY <2>7, <2>8, <2>9
    <2> QED
      BY <2>10 DEF n, finer
  <1>2. ScanInv => FinerGroupsKeepMore
    BY <1>1 DEF FinerGroupsKeepMore
  <1> QED
    BY <1>2, ScanInvariant, PTL
-----------------------------------------------------------------------------
(* The cost of a volume, gigabyte by gigabyte: each has the price of the   *)
(* tier that it lies in, and later ones are no dearer.                     *)
Tiers == DOMAIN STANDARD_TIERS

Part(i, gb) == IF gb > Floor(i)
               THEN (Least(gb, STANDARD_TIERS[i].ceiling) - Floor(i)) * STANDARD_TIERS[i].price
               ELSE 0

TierOf(gb) == {i \in Tiers : Floor(i) <= gb /\ gb < STANDARD_TIERS[i].ceiling}

(* The price of the gigabyte that follows the first gb. *)
PriceAfter(gb) == IF TierOf(gb) = {} THEN 0
                  ELSE STANDARD_TIERS[CHOOSE i \in TierOf(gb) : TRUE].price

LEMMA TierTypes ==
  /\ IsFiniteSet(Tiers) /\ 1 \in Tiers
  /\ \A i \in Tiers : /\ i \in Nat \ {0} /\ (i # 1 => i - 1 \in Tiers)
                       /\ STANDARD_TIERS[i].ceiling \in Nat /\ STANDARD_TIERS[i].price \in Nat
                       /\ Floor(i) \in Nat /\ Floor(i) <= STANDARD_TIERS[i].ceiling
  <1>1. PICK n \in Nat : Tiers = 1..n
    BY TiersAssumption DEF Tiers
  <1>2. n # 0
    BY <1>1, TiersAssumption DEF Tiers
  <1>3. IsFiniteSet(Tiers)
    BY <1>1, FS_Interval
  <1>4. \A i \in Tiers : /\ i \in Nat \ {0} /\ (i # 1 => i - 1 \in Tiers)
    BY <1>1
  <1>5. \A i \in Tiers : STANDARD_TIERS[i].ceiling \in Nat /\ STANDARD_TIERS[i].price \in Nat
    <2> DEFINE S == [ceiling : Nat, price : Nat]
    <2>1. STANDARD_TIERS \in Seq(S)
      BY TiersAssumption
    <2>2. \A i \in Tiers : STANDARD_TIERS[i] \in S
      <3> HIDE DEF S
      <3> QED
        BY <2>1 DEF Tiers
    <2> QED
      BY <2>2
  <1>6. \A i \in Tiers : Floor(i) \in Nat /\ Floor(i) <= STANDARD_TIERS[i].ceiling
    <2> SUFFICES ASSUME NEW i \in Tiers
                 PROVE  Floor(i) \in Nat /\ Floor(i) <= STANDARD_TIERS[i].ceiling
      OBVIOUS
    <2>1. CASE i = 1
      BY <1>5, <2>1 DEF Floor
    <2>2. CASE i # 1
      <3>1. i - 1 \in Tiers /\ i - 1 < i
        BY <1>4, <2>2
      <3>2. STANDARD_TIERS[i - 1].ceiling < STANDARD_TIERS[i].ceiling
        BY <3>1, TiersAssumption DEF Tiers
      <3> QED
        BY <1>5, <2>2, <3>1, <3>2 DEF Floor
    <2> QED
      BY <2>1, <2>2
  <1> QED
    BY <1>1, <1>2, <1>3, <1>4, <1>5, <1>6

LEMMA Tiered ==
  \A i, j \in Tiers : i < j => /\ STANDARD_TIERS[i].ceiling <= STANDARD_TIERS[j].ceiling
                               /\ STANDARD_TIERS[i].price >= STANDARD_TIERS[j].price
  <1> SUFFICES ASSUME NEW i \in Tiers, NEW j \in Tiers, i < j
               PROVE  /\ STANDARD_TIERS[i].ceiling <= STANDARD_TIERS[j].ceiling
                      /\ STANDARD_TIERS[i].price >= STANDARD_TIERS[j].price
    OBVIOUS
  <1>1. /\ STANDARD_TIERS[i].ceiling < STANDARD_TIERS[j].ceiling
        /\ STANDARD_TIERS[i].price >= STANDARD_TIERS[j].price
    BY TiersAssumption DEF Tiers
  <1>2. STANDARD_TIERS[i].ceiling \in Nat /\ STANDARD_TIERS[j].ceiling \in Nat
    BY TierTypes
  <1> QED
    BY <1>1, <1>2

LEMMA PartType == \A i \in Tiers, gb \in Nat : Part(i, gb) \in Nat
  <1> SUFFICES ASSUME NEW i \in Tiers, NEW gb \in Nat PROVE Part(i, gb) \in Nat
    OBVIOUS
  <1> DEFINE width == Least(gb, STANDARD_TIERS[i].ceiling) - Floor(i)
  <1>1. gb > Floor(i) => width \in Nat
    BY TierTypes DEF Least
  <1>2. \A m, n \in Nat : m * n \in Nat
    OBVIOUS
  <1> HIDE DEF width
  <1>3. gb > Floor(i) => width * STANDARD_TIERS[i].price \in Nat
    BY <1>1, <1>2, TierTypes
  <1> QED
    BY <1>3 DEF Part, width

LEMMA CostIsSum ==
  ASSUME NEW gb \in Nat
  PROVE  /\ TieredStandardCost(gb) = SumFunctionOnSet([i \in Tiers |-> Part(i, gb)], Tiers)
         /\ TieredStandardCost(gb) \in Nat
  <1> DEFINE reached == {i \in Tiers : gb > Floor(i)}
             Cost(i) == (Least(gb, STANDARD_TIERS[i].ceiling) - Floor(i)) * STANDARD_TIERS[i].price
             f == [i \in reached |-> Cost(i)]
             h == [i \in Tiers |-> Part(i, gb)]
  <1>1. TieredStandardCost(gb) = SumFunctionOnSet(f, reached)
    BY DEF TieredStandardCost, Tiers
  <1>2. \A i \in Tiers : h[i] \in Nat
    BY PartType
  <1>3. \A i \in reached : f[i] = h[i]
    BY DEF Part
  <1>4. \A i \in Tiers \ reached : h[i] = 0
    BY DEF Part
  <1>5. reached \in SUBSET Tiers
    OBVIOUS
  <1> HIDE DEF f, h, reached
  <1>6. SumFunctionOnSet(h, Tiers) = SumFunctionOnSet(f, reached)
    <2>1. \A i \in reached : f[i] \in Int /\ h[i] = f[i]
      BY <1>2, <1>3, <1>5
    <2> QED
      BY <1>4, <1>5, <2>1, TierTypes, SumOverPart
  <1>7. SumFunctionOnSet(h, Tiers) \in Nat
    BY <1>2, TierTypes, SumOfPart
  <1> QED
    BY <1>1, <1>6, <1>7 DEF h

LEMMA OneTier ==
  ASSUME NEW gb \in Nat, NEW i \in TierOf(gb), NEW j \in TierOf(gb)
  PROVE  i = j
  <1>1. \A k, m \in TierOf(gb) : ~(k < m)
    <2> SUFFICES ASSUME NEW k \in TierOf(gb), NEW m \in TierOf(gb), k < m PROVE FALSE
      OBVIOUS
    <2>1. /\ k \in Tiers /\ m \in Tiers /\ gb < STANDARD_TIERS[k].ceiling /\ Floor(m) <= gb
      BY DEF TierOf
    <2>2. m # 1 /\ m - 1 \in Tiers /\ Floor(m) = STANDARD_TIERS[m - 1].ceiling
      BY <2>1, TierTypes DEF Floor
    <2>3. STANDARD_TIERS[k].ceiling <= STANDARD_TIERS[m - 1].ceiling
      <3>1. k = m - 1 \/ k < m - 1
        BY <2>1, TierTypes
      <3> QED
        BY <2>1, <2>2, <3>1, Tiered, TierTypes
    <2> QED
      BY <2>1, <2>2, <2>3, TierTypes
  <1>2. i \in Nat /\ j \in Nat
    BY TierTypes DEF TierOf
  <1> QED
    BY <1>1, <1>2
(* One gigabyte more costs what the tier it lies in says. *)
LEMMA UnitCost ==
  ASSUME NEW gb \in Nat
  PROVE  /\ TieredStandardCost(gb + 1) = TieredStandardCost(gb) + PriceAfter(gb)
         /\ PriceAfter(gb) \in Nat
  <1> DEFINE f == [i \in Tiers |-> Part(i, gb)]
             h == [i \in Tiers |-> Part(i, gb + 1)]
             price(i) == STANDARD_TIERS[i].price
  <1>1. gb + 1 \in Nat
    OBVIOUS
  <1>2. /\ TieredStandardCost(gb) = SumFunctionOnSet(f, Tiers)
        /\ TieredStandardCost(gb + 1) = SumFunctionOnSet(h, Tiers)
        /\ SumFunctionOnSet(f, Tiers) \in Nat
    BY <1>1, CostIsSum
  <1>3. \A i \in Tiers : f[i] \in Int /\ h[i] \in Int
    BY <1>1, PartType
  <1>4. ASSUME NEW i \in Tiers, i \notin TierOf(gb)
        PROVE  h[i] = f[i]
    <2>1. /\ Floor(i) \in Nat /\ STANDARD_TIERS[i].ceiling \in Nat
          /\ Floor(i) <= STANDARD_TIERS[i].ceiling
      BY TierTypes
    <2>2. CASE gb < Floor(i)
      <3>1. ~(gb > Floor(i)) /\ ~(gb + 1 > Floor(i))
        BY <2>1, <2>2
      <3> QED
        BY <3>1 DEF Part
    <2>3. CASE gb >= STANDARD_TIERS[i].ceiling
      <3>1. /\ Least(gb, STANDARD_TIERS[i].ceiling) = STANDARD_TIERS[i].ceiling
            /\ Least(gb + 1, STANDARD_TIERS[i].ceiling) = STANDARD_TIERS[i].ceiling
            /\ gb + 1 > Floor(i)
        BY <2>1, <2>3 DEF Least
      <3>2. CASE gb > Floor(i)
        BY <3>1, <3>2 DEF Part
      <3>3. CASE ~(gb > Floor(i))
        <4>1. STANDARD_TIERS[i].ceiling - Floor(i) = 0
          BY <2>1, <2>3, <3>3
        <4>2. (STANDARD_TIERS[i].ceiling - Floor(i)) * price(i) = 0
          BY <4>1, TierTypes
        <4> QED
          BY <3>1, <3>3, <4>2 DEF Part
      <3> QED
        BY <3>2, <3>3
    <2> QED
      BY <1>4, <2>1, <2>2, <2>3 DEF TierOf
  <1>5. ASSUME NEW i \in TierOf(gb)
        PROVE  h[i] = f[i] + price(i)
    <2>1. /\ i \in Tiers /\ Floor(i) \in Nat /\ STANDARD_TIERS[i].ceiling \in Nat
          /\ price(i) \in Nat /\ Floor(i) <= gb /\ gb < STANDARD_TIERS[i].ceiling
      BY TierTypes DEF TierOf
    <2>2. PICK w \in Nat : w = gb - Floor(i)
      BY <2>1
    <2>3. /\ Least(gb, STANDARD_TIERS[i].ceiling) = gb
          /\ Least(gb + 1, STANDARD_TIERS[i].ceiling) = gb + 1
          /\ gb + 1 > Floor(i) /\ gb + 1 - Floor(i) = w + 1
          /\ gb > Floor(i) \/ w = 0
      BY <2>1, <2>2 DEF Least
    <2> DEFINE p == price(i)
    <2>4. p \in Nat
      BY <2>1
    <2>5. f[i] = w * p
      <3>1. 0 * p = 0
        BY <2>4
      <3> QED
        BY <2>1, <2>2, <2>3, <3>1 DEF Part
    <2>6. h[i] = (w + 1) * p
      BY <2>1, <2>3 DEF Part
    <2> HIDE DEF p, f, h
    <2>7. (w + 1) * p = w * p + p
      BY <2>4
    <2> QED
      BY <2>5, <2>6, <2>7 DEF p
  <1> HIDE DEF f, h
  <1>6. CASE TierOf(gb) = {}
    <2>1. \A i \in Tiers : h[i] = f[i]
      BY <1>4, <1>6
    <2>2. SumFunctionOnSet(h, Tiers) = SumFunctionOnSet(f, Tiers)
      BY <1>3, <2>1, TierTypes, SumSame
    <2> QED
      BY <1>2, <1>6, <2>2 DEF PriceAfter
  <1>7. CASE TierOf(gb) # {}
    <2>1. PICK i \in TierOf(gb) : i = CHOOSE j \in TierOf(gb) : TRUE
      BY <1>7
    <2>2. i \in Tiers /\ price(i) \in Nat /\ PriceAfter(gb) = price(i)
      BY <1>7, <2>1, TierTypes DEF TierOf, PriceAfter
    <2>3. \A j \in Tiers \ {i} : h[j] = f[j]
      BY <1>4, <2>1, OneTier
    <2>4. SumFunctionOnSet(h, Tiers) = SumFunctionOnSet(f, Tiers) + (h[i] - f[i])
      BY <1>3, <2>2, <2>3, TierTypes, SumReplace
    <2>5. h[i] - f[i] = price(i)
      BY <1>3, <1>5, <2>1, <2>2
    <2> QED
      BY <1>2, <2>2, <2>4, <2>5
  <1> QED
    BY <1>6, <1>7

(* Later gigabytes are no dearer. *)
LEMMA Cheaper ==
  ASSUME NEW m \in Nat, NEW gb \in Nat, m <= gb
  PROVE  PriceAfter(gb) <= PriceAfter(m)
  <1>1. CASE TierOf(gb) = {}
    <2>1. PriceAfter(gb) = 0 /\ PriceAfter(m) \in Nat
      BY <1>1, UnitCost DEF PriceAfter
    <2> QED
      BY <2>1
  <1>2. CASE TierOf(gb) # {}
    <2>1. PICK i \in TierOf(gb) : PriceAfter(gb) = STANDARD_TIERS[i].price
      BY <1>2 DEF PriceAfter
    <2> DEFINE T == {j \in Tiers : m < STANDARD_TIERS[j].ceiling}
    <2>2. i \in T
      BY <2>1, TierTypes DEF TierOf
    <2>3. T \subseteq Nat
      BY TierTypes
    <2>4. PICK j \in T : \A k \in T : j <= k
      <3> HIDE DEF T
      <3> QED
        BY <2>2, <2>3, LeastOf
    <2>5. Floor(j) <= m
      <3>1. CASE j = 1
        BY <3>1 DEF Floor
      <3>2. CASE j # 1
        <4>1. j - 1 \in Tiers /\ j - 1 \notin T
          BY <2>3, <2>4, <3>2, TierTypes
        <4>2. STANDARD_TIERS[j - 1].ceiling <= m
          BY <4>1, TierTypes
        <4> QED
          BY <3>2, <4>2 DEF Floor
      <3> QED
        BY <3>1, <3>2
    <2>6. j \in TierOf(m)
      BY <2>4, <2>5 DEF TierOf
    <2>7. PriceAfter(m) = STANDARD_TIERS[j].price
      BY <2>6, OneTier DEF PriceAfter
    <2>8. i \in Tiers /\ j \in Tiers /\ (j = i \/ j < i)
      BY <2>2, <2>3, <2>4
    <2>9. STANDARD_TIERS[i].price \in Nat
      BY <2>8, TierTypes
    <2> QED
      BY <2>1, <2>7, <2>8, <2>9, Tiered
  <1> QED
    BY <1>1, <1>2

(* The last gigabytes of a volume cost no more than they would alone. *)
LEMMA TieredIsMarginal ==
  ASSUME NEW a \in Nat, NEW b \in Nat
  PROVE  /\ TieredStandardCost(a) <= TieredStandardCost(a + b)
         /\ TieredStandardCost(a + b) - TieredStandardCost(a) <= TieredStandardCost(b)
  <1> DEFINE C(n) == TieredStandardCost(n)
             F == {n \in Nat : C(a) <= C(a + n) /\ C(a + n) - C(a) <= C(n)}
  <1>1. \A n \in Nat : C(n) \in Nat
    BY CostIsSum
  <1>2. 0 \in F
    <2>1. {i \in DOMAIN STANDARD_TIERS : 0 > Floor(i)} = {}
      BY TierTypes DEF Tiers
    <2>2. C(0) = 0
      BY <2>1, SumEmpty DEF TieredStandardCost
    <2>3. a + 0 = a /\ C(a) \in Nat
      BY <1>1
    <2> HIDE DEF C
    <2> QED
      BY <2>2, <2>3
  <1>3. ASSUME NEW n \in Nat, n \in F
        PROVE  n + 1 \in F
    <2>1. C(n + 1) = C(n) + PriceAfter(n) /\ PriceAfter(n) \in Nat
      BY UnitCost
    <2>2. a + n \in Nat /\ a + (n + 1) = (a + n) + 1 /\ n <= a + n
      OBVIOUS
    <2>3. C((a + n) + 1) = C(a + n) + PriceAfter(a + n) /\ PriceAfter(a + n) \in Nat
      BY <2>2, UnitCost
    <2>4. PriceAfter(a + n) <= PriceAfter(n)
      BY <2>2, Cheaper
    <2>5. C(a) \in Nat /\ C(a + n) \in Nat /\ C(n) \in Nat
      BY <1>1, <2>2
    <2>6. C(a) <= C(a + n) /\ C(a + n) - C(a) <= C(n)
      BY <1>3
    <2> HIDE DEF C
    <2> QED
      BY <2>1, <2>2, <2>3, <2>4, <2>5, <2>6
  <1>4. Nat \subseteq F
    <2> HIDE DEF F
    <2> QED
      BY <1>2, <1>3, NumberInduction
  <1> QED
    BY <1>4
LEMMA ClassIsMarginal ==
  ASSUME NEW f \in Overrides, NEW class, NEW a \in Nat, NEW b \in Nat
  PROVE  /\ ClassCost(class, a, f) \in Nat
         /\ ClassCost(class, a, f) <= ClassCost(class, a + b, f)
         /\ ClassCost(class, a + b, f) - ClassCost(class, a, f) <= ClassCost(class, b, f)
  <1>1. CASE class \notin DOMAIN f /\ class = "STANDARD"
    <2>1. \A n : ClassCost(class, n, f) = TieredStandardCost(n)
      BY <1>1 DEF ClassCost
    <2> QED
      BY <2>1, CostIsSum, TieredIsMarginal
  <1>2. CASE ~(class \notin DOMAIN f /\ class = "STANDARD")
    <2>1. PICK price \in Nat : \A n : ClassCost(class, n, f) = n * price
      <3>1. CASE class \in DOMAIN f
        <4>1. f[class] \in Nat
          BY <3>1, OverridesAssumption
        <4> QED
          BY <3>1, <4>1 DEF ClassCost
      <3>2. CASE class \notin DOMAIN f
        <4> DEFINE price == IF class \in DOMAIN FLAT_PRICES THEN FLAT_PRICES[class]
                            ELSE STANDARD_TIERS[1].price
        <4>1. price \in Nat
          BY PricesAssumption, TierTypes
        <4>2. \A n : ClassCost(class, n, f) = n * price
          BY <1>2, <3>2 DEF ClassCost
        <4> HIDE DEF price
        <4> QED
          BY <4>1, <4>2
      <3> QED
        BY <3>1, <3>2
    <2>2. a * price \in Nat /\ b * price \in Nat /\ (a + b) * price = a * price + b * price
      OBVIOUS
    <2>3. PICK m \in Nat, n \in Nat :
             m = a * price /\ n = b * price /\ (a + b) * price = m + n
      BY <2>2
    <2>4. /\ ClassCost(class, a, f) = m /\ ClassCost(class, b, f) = n
          /\ ClassCost(class, a + b, f) = m + n
      BY <2>1, <2>3
    <2> QED
      BY <2>4
  <1> QED
    BY <1>1, <1>2

-----------------------------------------------------------------------------
(* Volumes by class. *)
Classes(objects) == {o.storage_class : o \in objects}

LEMMA ByClassTypes ==
  ASSUME NEW B \in Buckets, NEW objects \in SUBSET B
  PROVE  /\ DOMAIN ByClass(objects) = Classes(objects) /\ IsFiniteSet(Classes(objects))
         /\ \A c \in Classes(objects) :
               /\ ByClass(objects)[c] \in Nat
               /\ c \in Classes(B) /\ ByClass(objects)[c] <= ByClass(B)[c]
  <1>1. IsFiniteSet(objects) /\ IsFiniteSet(B) /\ \A o \in B : o.size_bytes \in Nat
    BY BucketsAssumption, FS_Subset
  <1>2. IsFiniteSet(Classes(objects))
    <2>1. \A S : IsFiniteSet(S) => IsFiniteSet({o.storage_class : o \in S})
      <3> SUFFICES ASSUME NEW S, IsFiniteSet(S) PROVE IsFiniteSet({o.storage_class : o \in S})
        OBVIOUS
      <3> DEFINE g == [o \in S |-> o.storage_class]
      <3>1. g \in Surjection(S, {o.storage_class : o \in S})
        BY DEF Surjection
      <3> QED
        BY <3>1, FS_Surjection
    <2> QED
      BY <1>1, <2>1 DEF Classes
  <1>3. ASSUME NEW c \in Classes(objects)
        PROVE  /\ ByClass(objects)[c] \in Nat
               /\ c \in Classes(B) /\ ByClass(objects)[c] <= ByClass(B)[c]
    <2> DEFINE R == {o \in objects : o.storage_class = c}
               S == {o \in B : o.storage_class = c}
               f == [o \in R |-> o.size_bytes]
               h == [o \in S |-> o.size_bytes]
    <2>1. c \in Classes(B)
      BY DEF Classes
    <2>2. ByClass(objects)[c] = SumFunctionOnSet(f, R) /\ ByClass(B)[c] = SumFunctionOnSet(h, S)
      BY <1>3, <2>1 DEF ByClass, Classes
    <2>3. R \in SUBSET S /\ IsFiniteSet(R) /\ IsFiniteSet(S)
      BY <1>1, FS_Subset
    <2>4. /\ \A o \in S : h[o] \in Nat
          /\ \A o \in R : f[o] \in Int /\ h[o] = f[o]
      BY <1>1
    <2> HIDE DEF R, S, f, h
    <2>5. SumFunctionOnSet(f, R) = SumFunctionOnSet(h, R)
      BY <2>3, <2>4, SumSame
    <2>6. /\ SumFunctionOnSet(h, R) \in Nat
          /\ SumFunctionOnSet(h, R) <= SumFunctionOnSet(h, S)
      BY <2>3, <2>4, SumOfPart
    <2> QED
      BY <2>1, <2>2, <2>5, <2>6
  <1>4. DOMAIN ByClass(objects) = Classes(objects)
    BY DEF ByClass, Classes
  <1> QED
    BY <1>2, <1>3, <1>4

LEMMA SavingsBounds ==
  ASSUME NEW B \in Buckets, NEW gone \in SUBSET B, NEW prices \in Overrides
  PROVE  /\ Savings(ByClass(B), ByClass(gone), prices) >= 0
         /\ Savings(ByClass(B), ByClass(gone), prices) <= MonthlyCost(ByClass(gone), prices)
  <1> DEFINE s == ByClass(B)
             k == ByClass(gone)
             r == Remaining(s, k)
             D == Classes(B)
             K == Classes(gone)
             before == [c \in D |-> ClassCost(c, s[c], prices)]
             after  == [c \in D |-> ClassCost(c, r[c], prices)]
             saved  == [c \in K |-> ClassCost(c, k[c], prices)]
             most   == [c \in D |-> IF c \in K THEN saved[c] ELSE 0]
             both   == [c \in D |-> after[c] + most[c]]
  <1>1. /\ DOMAIN s = D /\ DOMAIN k = K /\ IsFiniteSet(D) /\ IsFiniteSet(K) /\ K \subseteq D
        /\ \A c \in D : s[c] \in Nat
        /\ \A c \in K : k[c] \in Nat /\ k[c] <= s[c]
    BY ByClassTypes
  <1>2. /\ DOMAIN r = D
        /\ \A c \in D : r[c] = s[c] - (IF c \in K THEN k[c] ELSE 0)
    BY <1>1 DEF Remaining
  <1>3. /\ MonthlyCost(s, prices) = SumFunctionOnSet(before, D)
        /\ MonthlyCost(r, prices) = SumFunctionOnSet(after, D)
        /\ MonthlyCost(k, prices) = SumFunctionOnSet(saved, K)
    <2> HIDE DEF D, K, s, k, r
    <2> QED
      BY <1>1, <1>2 DEF MonthlyCost
  <1> HIDE DEF s, k, r, D, K
  <1>4. ASSUME NEW c \in D
        PROVE  /\ before[c] \in Int /\ after[c] \in Int /\ most[c] \in Int
               /\ after[c] <= before[c] /\ before[c] <= after[c] + most[c]
    <2>1. CASE c \in K
      <3>1. k[c] \in Nat /\ r[c] \in Nat /\ s[c] = r[c] + k[c]
        BY <1>1, <1>2, <2>1
      <3>2. /\ ClassCost(c, r[c], prices) \in Nat /\ ClassCost(c, k[c], prices) \in Nat
            /\ ClassCost(c, s[c], prices) \in Nat
            /\ ClassCost(c, r[c], prices) <= ClassCost(c, s[c], prices)
            /\ ClassCost(c, s[c], prices) - ClassCost(c, r[c], prices)
                  <= ClassCost(c, k[c], prices)
        BY <1>1, <3>1, ClassIsMarginal
      <3>3. most[c] = ClassCost(c, k[c], prices)
        BY <2>1
      <3> QED
        BY <3>2, <3>3
    <2>2. CASE c \notin K
      <3>1. r[c] = s[c] /\ s[c] \in Nat
        BY <1>1, <1>2, <2>2
      <3>2. ClassCost(c, s[c], prices) \in Nat
        BY <3>1, ClassIsMarginal
      <3> QED
        BY <2>2, <3>1, <3>2
    <2> QED
      BY <2>1, <2>2
  <1>5. \A c \in K : saved[c] \in Int /\ most[c] = saved[c]
    BY <1>1, <1>4
  <1>6. \A c \in D \ K : most[c] = 0
    OBVIOUS
  <1>7. \A c \in D : both[c] \in Int /\ both[c] = after[c] + most[c] /\ before[c] <= both[c]
    BY <1>4
  <1> HIDE DEF before, after, saved, most, both
  <1>8. SumFunctionOnSet(after, D) <= SumFunctionOnSet(before, D)
    BY <1>1, <1>4, SumMonotone
  <1>9. SumFunctionOnSet(before, D) <= SumFunctionOnSet(both, D)
    BY <1>1, <1>4, <1>7, SumMonotone
  <1>10. SumFunctionOnSet(both, D) = SumFunctionOnSet(after, D) + SumFunctionOnSet(most, D)
    BY <1>1, <1>4, <1>7, SumAdd
  <1>11. SumFunctionOnSet(most, D) = SumFunctionOnSet(saved, K)
    BY <1>1, <1>5, <1>6, SumOverPart
  <1>12. /\ SumFunctionOnSet(before, D) \in Int /\ SumFunctionOnSet(after, D) \in Int
         /\ SumFunctionOnSet(most, D) \in Int
    BY <1>1, <1>4, SumType
  <1>13. Savings(s, k, prices) = SumFunctionOnSet(before, D) - SumFunctionOnSet(after, D)
    BY <1>3 DEF Savings, r
  <1>14. /\ Savings(s, k, prices) >= 0
         /\ Savings(s, k, prices) <= MonthlyCost(k, prices)
    BY <1>3, <1>8, <1>9, <1>10, <1>11, <1>12, <1>13
  <1> QED
    BY <1>14 DEF s, k

(* A cleanup never costs, and saves at most what its candidates alone would*)
(* cost.                                                                   *)
THEOREM SavingsStayMarginal == Spec => []SavingsAreMarginal
  <1>1. ASSUME ScanInv, step = "reported" PROVE SavingsAreMarginal
    <2>1. /\ bucket \in Buckets /\ overrides \in Overrides /\ candidates \subseteq bucket
          /\ monthly = Savings(ByClass(bucket), ByClass(candidates), overrides)
      BY <1>1, SelectedAreInScope DEF ScanInv
    <2> QED
      BY <2>1, SavingsBounds DEF SavingsAreMarginal
  <1>2. ScanInv => SavingsAreMarginal
    BY <1>1 DEF SavingsAreMarginal
  <1> QED
    BY <1>2, ScanInvariant, PTL
=============================================================================
