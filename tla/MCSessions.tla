----------------------------- MODULE MCSessions -----------------------------
(* Browsers and requests are interchangeable. *)
EXTENDS Sessions, TLC

CONSTANTS b1, c1, c2

Symmetry == Permutations(Browsers) \cup Permutations(Calls)

=============================================================================
