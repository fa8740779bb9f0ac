--------------------------- MODULE MCGrainCluster ---------------------------
(* Small instances of GrainCluster for TLC.                                *)
EXTENDS GrainCluster, TLC
=============================================================================
