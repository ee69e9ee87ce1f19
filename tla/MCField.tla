------------------------------ MODULE MCField ------------------------------
(* A small instance of FieldCompanion for TLC.                             *)
EXTENDS FieldCompanion, TLC

Symmetry == Permutations(Flushers)
=============================================================================
