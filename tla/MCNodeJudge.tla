------------------------------ MODULE MCNodeJudge -----------------------------
(* Instances of NodeJudge for TLC.                                          *)
EXTENDS NodeJudge, TLC

CONSTANTS c1, c2, n1, n2, v1

(* Two machines that carry one name and have different addresses. *)
MCNameOf == n1 :> "master" @@ n2 :> "master"
(* ... or two names. *)
MCNameOfClaimed == n1 :> "master" @@ n2 :> "worker"
MCAddressOf == n1 :> "10.0.0.1" @@ n2 :> "10.0.0.2"
MCNodeLists == {<<n1>>, <<n1, n2>>}
Symmetry == Permutations({c1, c2})
=============================================================================
