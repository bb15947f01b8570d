--------------------------- MODULE MCClusterStatus ---------------------------
(* An instance of ClusterStatus for TLC.  The nodes of the clusters do not  *)
(* matter: only whose they are.                                             *)
EXTENDS ClusterStatus

CONSTANTS r1, r2, c1, c2, v1

MCNameOf == <<>>
=============================================================================
