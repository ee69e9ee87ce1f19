------------------------- MODULE MCDeliveryPipeline -------------------------
(* A small instance of DeliveryPipeline for TLC.                           *)
EXTENDS DeliveryPipeline

CONSTANTS w1, w2, c1, c2
=============================================================================
