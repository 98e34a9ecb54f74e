----------------------------- MODULE MCPayments -----------------------------
(***************************************************************************)
(* Instances of Payments for TLC.  The tasks, payments and tenants of one  *)
(* kind are interchangeable where no fairness is stated.                   *)
(***************************************************************************)
EXTENDS Payments, TLC

CONSTANTS t1, t2, p1, p2, n1, n2, i1, i2, s1, s2, r1, basic, pro

Symmetry == Permutations(Tenants) \cup Permutations(Payments) \cup Permutations(Plans)
            \cup Permutations(Initiators) \cup Permutations(Ipns) \cup Permutations(Sweeps)
=============================================================================
