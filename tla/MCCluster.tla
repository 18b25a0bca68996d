------------------------------ MODULE MCCluster ------------------------------
(* An instance of Cluster for TLC. *)
EXTENDS Cluster

CONSTANTS a, w1
=============================================================================
