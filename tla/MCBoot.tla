------------------------------- MODULE MCBoot -------------------------------
(* An old and a new version of the server, which has one more migration.    *)
EXTENDS Boot, TLC

CONSTANTS old, new

MCKnown == (old :> 2) @@ (new :> 3)
=============================================================================
