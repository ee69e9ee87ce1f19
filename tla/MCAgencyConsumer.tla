-------------------------- MODULE MCAgencyConsumer --------------------------
(* Small instances of AgencyConsumer for TLC.                              *)
EXTENDS AgencyConsumer

CONSTANTS c1, c2
=============================================================================
