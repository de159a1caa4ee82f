------------------------------ MODULE Pricing ------------------------------
(***************************************************************************)
(* The monthly cost of a bucket and the savings of a cleanup (pricing.py). *)
(* Volumes are whole gigabytes and prices whole numbers.                   *)
(***************************************************************************)
EXTENDS Integers, FiniteSets, SequencesExt

CONSTANTS
    STANDARD_TIERS,   \* [ceiling, price], cheaper as the volume grows
    FLAT_PRICES       \* storage class -> price

(* The last tier has no ceiling: it ends at Volume, the bound on the input. *)
CONSTANT Volume

ASSUME TiersAssumption ==
    /\ STANDARD_TIERS \in Seq([ceiling : Nat, price : Nat]) /\ STANDARD_TIERS # <<>>
    /\ \A i, j \in DOMAIN STANDARD_TIERS : i < j =>
          /\ STANDARD_TIERS[i].ceiling < STANDARD_TIERS[j].ceiling
          /\ STANDARD_TIERS[i].price >= STANDARD_TIERS[j].price
    /\ Last(STANDARD_TIERS).ceiling >= Volume

ASSUME PricesAssumption == \A c \in DOMAIN FLAT_PRICES : FLAT_PRICES[c] \in Nat

Least(a, b) == IF a < b THEN a ELSE b

(* Where tier i begins. *)
Floor(i) == IF i = 1 THEN 0 ELSE STANDARD_TIERS[i - 1].ceiling

(* Mutant of TieredStandardCost: the tier of the volume prices all of it. *)
CliffCost(gb) ==
    LET reached == {i \in DOMAIN STANDARD_TIERS : gb > Floor(i)}
    IN IF reached = {} THEN 0 ELSE gb * STANDARD_TIERS[Cardinality(reached)].price

(* Each tier's price for the part of the volume that lies in it. *)
TieredStandardCost(gb) ==
    LET Cost(i) == (Least(gb, STANDARD_TIERS[i].ceiling) - Floor(i)) * STANDARD_TIERS[i].price
        reached == {i \in DOMAIN STANDARD_TIERS : gb > Floor(i)}
    IN SumFunctionOnSet([i \in reached |-> Cost(i)], reached)

ClassCost(class, gb, overrides) ==
    CASE class \in DOMAIN overrides                  -> gb * overrides[class]
      [] class \notin DOMAIN overrides /\ class = "STANDARD" -> TieredStandardCost(gb)
      [] OTHER -> gb * (IF class \in DOMAIN FLAT_PRICES THEN FLAT_PRICES[class]
                        ELSE STANDARD_TIERS[1].price)

MonthlyCost(byClass, overrides) ==
    SumFunctionOnSet([c \in DOMAIN byClass |-> ClassCost(c, byClass[c], overrides)],
                     DOMAIN byClass)

(* What the scanned classes still hold once the candidates are gone. *)
Remaining(scanned, candidates) ==
    [c \in DOMAIN scanned |->
        scanned[c] - (IF c \in DOMAIN candidates THEN candidates[c] ELSE 0)]

Savings(scanned, candidates, overrides) ==
    MonthlyCost(scanned, overrides)
      - MonthlyCost(Remaining(scanned, candidates), overrides)
=============================================================================
