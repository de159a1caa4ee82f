---------------------------- MODULE MCScanReport ----------------------------
(* Six objects, some twenty bags of conditions, and trees two groups deep. *)
EXTENDS ScanReport

Segments == {"Tmp", "TMP", "tmp", "a", "b", "LOG", "log"}
MCLower  == [s \in Segments |-> CASE s \in {"Tmp", "TMP"} -> "tmp" [] s = "LOG" -> "log" [] OTHER -> s]

Keys6 == << <<"tmp", "a", "log">>, <<"tmp", "b", "LOG">>, <<"Tmp", "a">>,
            <<"a", "b">>, <<"a", "log">>, <<"log">> >>
MCKeyOrder == [k \in {Keys6[i] : i \in 1..6} |-> CHOOSE i \in 1..6 : Keys6[i] = k]

MCFinds == [r \in {"a$", "g"} |->
              {k \in DOMAIN MCKeyOrder : IF r = "a$" THEN Last(k) = "a"
                                         ELSE Last(k) \in {"log", "LOG"}}]
MCCaptures == "last" :> [k \in DOMAIN MCKeyOrder |-> <<Last(k)>>]
           @@ "a|(b)" :> [k \in DOMAIN MCKeyOrder |->
                           IF "a" \in ToSet(k) THEN Partial
                           ELSE IF "b" \in ToSet(k) THEN <<"b">> ELSE NoGroup]

Object(k, day, gb, class) == [key |-> k, last_modified |-> day, size_bytes |-> gb,
                              storage_class |-> class]
MCBuckets ==
    {{Object(Keys6[1], d, 2, "STANDARD"), Object(Keys6[2], 2, 3, "GLACIER"),
      Object(Keys6[3], 3, 1, "STANDARD"), Object(Keys6[4], d, 4, "STANDARD"),
      Object(Keys6[5], 1, 1, "TAPE"), Object(Keys6[6], 4, 2, "GLACIER")} : d \in {1, 3}}

MCOverrides == {<<>>, [STANDARD |-> 5, TAPE |-> 1]}
MCTiers == <<[ceiling |-> 2, price |-> 9], [ceiling |-> 5, price |-> 7],
             [ceiling |-> 20, price |-> 4]>>
MCPrices == [GLACIER |-> 1]

Bags == {[keywords |-> {"TMP"}], [keywords |-> {}], [prefixes |-> {"tmp"}],
         [suffixes |-> {"LOG"}], [match_regex |-> "a$"], [match_regex |-> "("],
         [match_regex |-> ""], [older_than |-> 2], [older_than |-> None],
         [older_than |-> Bad], [min_size |-> 0], [min_size |-> 2],
         [storage_classes |-> {"STANDARD"}], [keywords |-> {"a", NotText}],
         [prefixes |-> {"tmp", NotText}], [suffixes |-> NotList],
         [storage_classes |-> {"GLACIER", NotText}],
         [suffixes |-> {"log"}, older_than |-> 3]}

SmallLeaves == {[prefixes |-> {"tmp"}], [suffixes |-> {"LOG"}], [older_than |-> 3],
                [min_size |-> Bad], [keywords |-> {}], [suffixes |-> {"log", NotText}]}
Groups(nodes) == {op :> cs : op \in MATCH_GROUP_OPS,
                             cs \in {c \in SUBSET nodes : Cardinality(c) <= 2}}
Flat == Groups(SmallLeaves)
Nested == {"any_of" :> {x} @@ "not" :> {y} : x \in SmallLeaves, y \in Flat}
          \cup {"none_of" :> {x, y} : x \in SmallLeaves, y \in Flat}
Mixed == {<<>>, [prefixes |-> {"a"}, not |-> {[older_than |-> 1]}]}
Trees == Bags \cup Flat \cup Nested \cup Mixed
MCNodes == Trees \cup SmallLeaves \cup {[older_than |-> 1], [suffixes |-> {"log"}],
                                   [not |-> {[suffixes |-> {"log"}]}]}
MCDepth == [n \in MCNodes |-> IF IsLeaf(n) THEN 0 ELSE IF n \in Nested THEN 2 ELSE 1]

ARule(flat, match, keep, by) ==
    [flat |-> flat, match |-> match, keep_newest |-> keep, group_by |-> by]

By == {{}, {[depth |-> 0]}, {[depth |-> 1]}, {[depth |-> 2]},
       {[regex |-> "last"]}, {[regex |-> "a|(b)"]}, {[regex |-> "("]}}

MCRules ==
    {ARule(<<>>, {t}, None, {}) : t \in Trees}
    \cup {ARule(b, m, k, g) : b \in Bags \cup {<<>>},
                              m \in {{}, {[not |-> {[suffixes |-> {"log"}]}]}},
                              k \in {Bad, None, 0, 1, 2}, g \in By}
=============================================================================
