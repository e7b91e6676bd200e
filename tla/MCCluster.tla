------------------------------ MODULE MCCluster ------------------------------
(****************************************************************************)
(* Small instances of Cluster for TLC.  The callers are interchangeable: no *)
(* action or property tells one from another.                               *)
(****************************************************************************)
EXTENDS Cluster, TLC

Callers == Permutations(Proc)

=============================================================================
