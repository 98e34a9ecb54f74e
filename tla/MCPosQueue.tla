----------------------------- MODULE MCPosQueue -----------------------------
(***************************************************************************)
(* Instances of module PosQueue for TLC.                                   *)
(***************************************************************************)
EXTENDS PosQueue, TLC

CONSTANTS i1, s1, s2, k1, k2, h1, h2, t1, t2

\* Every sale takes one piece of the one item.
OnePiece == {[i \in {i1} |-> 1]}

\* A delivery of one piece.
Delivery == {1}

PosSymmetry ==
  Permutations(SaleIds) \cup Permutations(Handlers) \cup Permutations(Keys) \cup Permutations(Tabs)
=============================================================================
