---------------------------- MODULE MCClusterLog ----------------------------
(* Instances of ClusterLog for TLC: one step of an installation             *)
(* and two Events that end a stream.                                        *)
EXTENDS ClusterLog, TLC

CONSTANTS step, done, done2

MCKind == step :> "log" @@ done :> "finish" @@ done2 :> "finish"
=============================================================================
