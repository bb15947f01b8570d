----------------------------- MODULE ClusterStore -----------------------------
(***************************************************************************)
(* What everybody else may rely on about the resources of the clusters:     *)
(* how the namespaces, BKEClusters and BKENodes that installer-service      *)
(* writes may change, one step at a time.  ClusterResources, with all its   *)
(* requests, failures and restarts, implements it; NodeJudge reads it.      *)
(***************************************************************************)
CONSTANTS
    Clusters,   \* cluster names, which name their namespaces too
    Nodes,      \* machines
    NameOf,     \* the host name of each, which names its BKENode
    Versions,
    Absent

Cluster == [ver : Versions, reset : BOOLEAN]

VARIABLES
    ns,       \* the namespaces that exist
    bke,      \* the BKECluster of each cluster, or Absent
    nodes     \* the BKENodes of each

store == <<ns, bke, nodes>>

StoreInit ==
    /\ ns = {}
    /\ bke = [c \in Clusters |-> Absent]
    /\ nodes = [c \in Clusters |-> {}]

CreateNamespace(c) ==
    /\ c \notin ns
    /\ ns' = ns \cup {c}
    /\ UNCHANGED <<bke, nodes>>

(* A namespace comes first, and a host name is used once in a cluster.      *)
CreateNode(c, n) ==
    /\ c \in ns
    /\ \A m \in nodes[c] : NameOf[m] # NameOf[n]
    /\ nodes' = [nodes EXCEPT ![c] = @ \cup {n}]
    /\ UNCHANGED <<ns, bke>>

DeleteNode(c, n) ==
    /\ n \in nodes[c]
    /\ nodes' = [nodes EXCEPT ![c] = {m \in @ : NameOf[m] # NameOf[n]}]
    /\ UNCHANGED <<ns, bke>>

(* A cluster begins unmarked, is upgraded or marked, one of them at a time, *)
(* and is removed only once marked.                                         *)
CreateCluster(c, v) ==
    /\ c \in ns /\ bke[c] = Absent
    /\ bke' = [bke EXCEPT ![c] = [ver |-> v, reset |-> FALSE]]
    /\ UNCHANGED <<ns, nodes>>

Upgrade(c, v) ==
    /\ bke[c] # Absent
    /\ bke' = [bke EXCEPT ![c] = [@ EXCEPT !.ver = v]]
    /\ UNCHANGED <<ns, nodes>>

Mark(c) ==
    /\ bke[c] # Absent
    /\ bke' = [bke EXCEPT ![c] = [@ EXCEPT !.reset = TRUE]]
    /\ UNCHANGED <<ns, nodes>>

Remove(c) ==
    /\ bke[c] # Absent /\ bke[c].reset
    /\ bke' = [bke EXCEPT ![c] = Absent]
    /\ nodes' = [nodes EXCEPT ![c] = {}]
    /\ UNCHANGED ns

StoreNext ==
    \E c \in Clusters :
        \/ CreateNamespace(c) \/ Mark(c) \/ Remove(c)
        \/ \E n \in Nodes : CreateNode(c, n) \/ DeleteNode(c, n)
        \/ \E v \in Versions : CreateCluster(c, v) \/ Upgrade(c, v)

StoreSpec == StoreInit /\ [][StoreNext]_store
=============================================================================
