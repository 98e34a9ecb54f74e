------------------------------ MODULE MCDrafts ------------------------------
(***************************************************************************)
(* Instances of module Drafts for TLC.                                     *)
(***************************************************************************)
EXTENDS Drafts

CONSTANTS ph1, ph2, m1, m2
=============================================================================
