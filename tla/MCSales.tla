------------------------------ MODULE MCSales -------------------------------
(***************************************************************************)
(* Instances of module Sales for TLC.                                      *)
(***************************************************************************)
EXTENDS Sales, TLC

CONSTANTS i1, i2, s1, s2, s3, k1, h1, h2

\* Two items, sold together or alone.
TwoItemCarts == {[i \in {i1, i2} |-> 1], [i \in {i1, i2} |-> IF i = i1 THEN 1 ELSE 0]}

Moves == {-1, 1}

SaleSymmetry == Permutations(SaleIds) \cup Permutations(Handlers)
=============================================================================
