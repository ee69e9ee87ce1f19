-------------------------- MODULE MCServiceRuntime --------------------------
(* A small instance of ServiceRuntime for TLC.                             *)
EXTENDS ServiceRuntime

MCReleases == {<<"a">>}
=============================================================================
