------------------------------ MODULE MCCluster ------------------------------
(***************************************************************************)
(* Cluster with the Nodes and specs of MCIPPoolController.                 *)
(***************************************************************************)
EXTENDS Cluster, MCIPPoolController
=============================================================================
