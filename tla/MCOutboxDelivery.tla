-------------------------- MODULE MCOutboxDelivery --------------------------
(* Small instances of OutboxDelivery for TLC.                              *)
EXTENDS OutboxDelivery, TLC

CONSTANTS w1, w2

Symmetry == Permutations(Workers)
=============================================================================
