---------------------------- MODULE MCSelection ----------------------------
(* Instances of Selection for TLC. *)
EXTENDS Selection

MCSize == [k \in Keys |-> k]

Unlimited == [fraction |-> NoLimit, objects |-> NoLimit, bytes |-> NoLimit]

MCLimits == {Unlimited,
             [fraction |-> 1, objects |-> NoLimit, bytes |-> NoLimit],
             [fraction |-> NoLimit, objects |-> 2, bytes |-> 4]}

(* What the conditions accept: any keys at first, and the same, all or none*)
(* of them when it is later.                                               *)
Conditions == {[t \in Times |-> IF t = 0 THEN a ELSE b] :
                  a \in SUBSET Keys, b \in {{}, Keys}}
              \cup {[t \in Times |-> a] : a \in SUBSET Keys}

Grouped == [k \in Keys |-> CHOOSE g \in Groups : TRUE]
Without(k) == [Grouped EXCEPT ![k] = NoGroup]

(* group_by is for keep-newest rules, and their names make no difference.  *)
(* One of them keeps none and does not group key 1, the others keep some   *)
(* and group every key.                                                    *)
MCRules ==
    {[keep |-> PerObject, named |-> b, accepts |-> a, group |-> Grouped] :
        b \in BOOLEAN, a \in Conditions}
    \cup {[keep |-> n, named |-> TRUE, accepts |-> a,
           group |-> IF n = 0 THEN Without(1) ELSE Grouped] :
        n \in 0..MaxKeep, a \in Conditions}

MCInit == /\ rules \in [RuleNumbers -> MCRules]
          /\ excluded \in {{}, {2}}
          /\ now = 0
          /\ Init

MCSpec == MCInit /\ [][Next]_vars
=============================================================================
