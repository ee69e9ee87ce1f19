-------------------------- MODULE MCCommandCenter --------------------------
(* A small instance of CommandCenter for TLC.                              *)
EXTENDS CommandCenter, TLC

Symmetry == Permutations(SessionIds) \cup Permutations(Submissions)
              \cup Permutations(Transmissions)
=============================================================================
