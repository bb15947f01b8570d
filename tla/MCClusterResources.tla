-------------------------- MODULE MCClusterResources -------------------------
(* Instances of ClusterResources for TLC.                                   *)
EXTENDS ClusterResources, TLC

CONSTANTS r1, r2, c1, n1, n2, n3, v1, v2

(* Three machines, two of which carry one name. *)
MCNameOf == n1 :> "master" @@ n3 :> "master" @@ n2 :> "worker"
MCNodeLists == {<<>>, <<n1>>, <<n3, n2>>}
Symmetry == Permutations({r1, r2}) \cup Permutations({v1, v2})
=============================================================================
