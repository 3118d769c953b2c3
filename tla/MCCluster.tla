----------------------------- MODULE MCCluster -----------------------------
(* Instances of Cluster for TLC: one handler on each of the first instances. *)
EXTENDS Cluster, TLC

CONSTANTS i1, i2, h1, h2, k1

MCHome == [h \in Handlers |-> IF h = h1 THEN i1 ELSE i2]
=============================================================================
