------------------------------ MODULE MCBilling -----------------------------
(***************************************************************************)
(* Instances of Billing for TLC.                                           *)
(***************************************************************************)
EXTENDS Billing

CONSTANTS t1, p1, p2, n1, i1, basic
=============================================================================
