---------------------------- MODULE MCMultipart ----------------------------
(* All uploads are for one key. *)
EXTENDS Multipart, TLC

MCKeyOf == [u \in Uploads |-> "a"]
Symmetry == Permutations(Cleaners)

(* A dry run aborts nothing, whatever its age limit: it has none here. *)
DryRunsHaveNoLimit == \A c \in Cleaners :
    run[c].pc # "idle" => run[c].apply \/ run[c].older = AnyAge

MCSpec == Init /\ [][Next /\ DryRunsHaveNoLimit']_vars
=============================================================================
