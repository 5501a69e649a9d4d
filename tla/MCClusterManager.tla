-------------------------- MODULE MCClusterManager --------------------------
(* Model checking of ClusterManager on small clusters.                     *)
EXTENDS ClusterManager

=============================================================================
