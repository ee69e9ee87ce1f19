----------------------- MODULE MCContactOrchestration -----------------------
(* Instances of ContactOrchestration for TLC.                              *)
EXTENDS ContactOrchestration, TLC

CONSTANT Kinds   \* the inputs of the run, one of each kind

MCInputs == [id : {1}, kind : Kinds]

Symmetry == Permutations(Workers)
=============================================================================
