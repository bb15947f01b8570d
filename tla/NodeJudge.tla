------------------------------ MODULE NodeJudge ------------------------------
(***************************************************************************)
(* POST /nodes/validate (JudgeClusterNode): may these machines become nodes *)
(* of this cluster?  The validation reads all clusters, the nodes of each,  *)
(* and then the nodes of the one named, call by call, while ClusterStore    *)
(* goes on changing, and compares what it has collected with the request.   *)
(*                                                                          *)
(* GetNodes asks a cluster itself for its nodes and, when it cannot be      *)
(* reached, takes the BKENodes of the management cluster instead.  Which    *)
(* machines have joined a cluster and whether it answers is external.       *)
(***************************************************************************)
EXTENDS ClusterStore, Naturals, Sequences

CONSTANTS
    AddressOf,   \* the address of each machine
    NodeLists    \* the node lists that requests carry

ASSUME NodeListsAssumption == NodeLists \subseteq Seq(Nodes)

Rest == {"idle", "ok", "refused", "error"}
Active == {"clusters", "remote", "local", "probe", "balance"}

VARIABLES
    joined,    \* the machines each cluster itself lists
    reach,     \* the clusters whose API answers
    pc,        \* where the validation is
    asked,     \* the nodes of the request
    own,       \* the cluster of the request
    phase,     \* what is compared: "addresses", then "names"
    left,      \* the clusters whose nodes are still to be read
    at,        \* the one in hand (own when there is none)
    seen,      \* the nodes collected
    standing,  \* history: the clusters that have existed since the request,
    shown      \* and the BKENodes that have, and that their cluster has listed
               \* itself whenever it answered; without the clusters whose nodes
               \* the validation could not list

cluster == <<joined, reach>>
judge == <<pc, asked, own, phase, left, at, seen>>
history == <<standing, shown>>
vars == <<store, cluster, judge, history>>

Init ==
    /\ StoreInit
    /\ joined = [c \in Clusters |-> {}] /\ reach = {}
    /\ pc = "idle" /\ asked = <<>> /\ own \in Clusters /\ phase = "addresses"
    /\ left = {} /\ at = own /\ seen = {}
    /\ standing = {} /\ shown = {}

-----------------------------------------------------------------------------
(* History.                                                                 *)

Standing == {c \in Clusters : bke[c] # Absent}
Shown == {p \in Clusters \X Nodes :
            p[2] \in nodes[p[1]] /\ (p[1] \in reach => p[2] \in joined[p[1]])}

Lasting == IF pc \in Active
           THEN standing' = standing \cap Standing' /\ shown' = shown \cap Shown'
           ELSE UNCHANGED history

-----------------------------------------------------------------------------
(* The validation.                                                          *)

Begin ==
    /\ pc \in Rest
    /\ pc' = "clusters"
    /\ asked' \in NodeLists /\ own' \in Clusters /\ at' = own'
    /\ standing' = Standing /\ shown' = Shown
    /\ UNCHANGED <<store, cluster, phase, left, seen>>

(* The answer; the locals go with it.                                       *)
Return(result) ==
    /\ pc' = result
    /\ phase' = "addresses" /\ at' = own
    /\ left' = {} /\ seen' = {}
    /\ standing' = {} /\ shown' = {}
    /\ UNCHANGED <<asked, own>>

(* GetClusters; an error ends the validation.                               *)
ListClusters ==
    /\ pc = "clusters"
    /\ \/ /\ pc' = "remote" /\ left' = Standing
          /\ UNCHANGED <<asked, own, phase, at, seen, history>>
       \/ Return("error")

(* GetNodes of the next cluster: its BKECluster, its token and its API, any *)
(* of which may fail (the order of the list of clusters is left open).      *)
ReadRemote ==
    /\ pc = "remote"
    /\ \E c \in left :
        \/ /\ c \in reach /\ bke[c] # Absent
           /\ seen' = seen \cup joined[c] /\ left' = left \ {c}
           /\ UNCHANGED <<pc, at>>
        \/ /\ pc' = "local" /\ at' = c
           /\ UNCHANGED <<seen, left>>
    /\ UNCHANGED <<asked, own, phase, history>>

(* Fault: the nodes read replace those of the clusters before.              *)
ReadLocalForgets ==
    /\ pc = "local" /\ pc' = "remote" /\ left' = left \ {at} /\ at' = own
    /\ seen' = nodes[at]
    /\ UNCHANGED <<asked, own, phase, history>>
(* ... and its fallback.  A cluster whose nodes cannot be listed counts as  *)
(* one without nodes.                                                       *)
ReadLocal ==
    /\ pc = "local" /\ pc' = "remote" /\ left' = left \ {at} /\ at' = own
    /\ \/ seen' = seen \cup nodes[at] /\ UNCHANGED history
       \/ /\ standing' = standing \ {at} /\ shown' = {p \in shown : p[1] # at}
          /\ UNCHANGED seen
    /\ UNCHANGED <<asked, own, phase>>

KeyOf(n) == IF phase = "addresses" THEN AddressOf[n] ELSE NameOf[n]
(* A node of the request has the address (the name) of a node collected or  *)
(* of an earlier one of the request.                                        *)
Clash ==
    \E i \in DOMAIN asked :
        \/ \E n \in seen : KeyOf(n) = KeyOf(asked[i])
        \/ \E j \in 1 .. i - 1 : KeyOf(asked[j]) = KeyOf(asked[i])

(* Fault: the names are compared with the nodes read for the addresses.     *)
CompareKeepsSeen ==
    /\ pc = "remote" /\ left = {}
    /\ IF Clash THEN Return("refused")
       ELSE /\ IF phase = "addresses"
               THEN phase' = "names" /\ UNCHANGED pc
               ELSE pc' = "probe" /\ UNCHANGED phase
            /\ UNCHANGED <<asked, own, left, at, seen, history>>
(* IsNodeIpOk, then IsNodeNameOk, once what they compare with is read.      *)
Compare ==
    /\ pc = "remote" /\ left = {}
    /\ \/ Clash /\ Return("refused")
       \/ /\ ~Clash
          /\ IF phase = "addresses"
             THEN phase' = "names" /\ left' = {own} /\ seen' = {} /\ UNCHANGED pc
             ELSE pc' = "probe" /\ UNCHANGED <<phase, left, seen>>
          /\ UNCHANGED <<asked, own, at, history>>

(* IsNodeInfoOk logs in to every machine and compares the clocks; if the    *)
(* request names a balancer, IsBalanceIpOk wants its address unanswered.    *)
Probe ==
    /\ pc = "probe"
    /\ \/ Return("ok") \/ Return("refused")
       \/ /\ pc' = "balance"
          /\ UNCHANGED <<asked, own, phase, left, at, seen, history>>
PingBalancer == pc = "balance" /\ (Return("ok") \/ Return("refused"))

Judge ==
    /\ ListClusters \/ ReadRemote \/ ReadLocal \/ Compare \/ Probe \/ PingBalancer
    /\ UNCHANGED <<store, cluster>>

-----------------------------------------------------------------------------
(* The clusters themselves.                                                 *)

Join(c, n) ==
    /\ bke[c] # Absent /\ n \in nodes[c] \ joined[c]
    /\ joined' = [joined EXCEPT ![c] = @ \cup {n}]
    /\ UNCHANGED reach
Leave(c, n) ==
    /\ n \in joined[c] \ nodes[c]
    /\ joined' = [joined EXCEPT ![c] = @ \ {n}]
    /\ UNCHANGED reach
Answer(c) ==
    /\ bke[c] # Absent /\ joined[c] # {} /\ c \notin reach
    /\ reach' = reach \cup {c} /\ UNCHANGED joined
FallSilent(c) ==
    /\ c \in reach
    /\ reach' = reach \ {c} /\ UNCHANGED joined

ClusterMoves ==
    /\ \E c \in Clusters :
        \/ Answer(c) \/ FallSilent(c)
        \/ \E n \in Nodes : Join(c, n) \/ Leave(c, n)
    /\ UNCHANGED <<store, judge>> /\ Lasting
StoreMoves == StoreNext /\ UNCHANGED <<cluster, judge>> /\ Lasting

Next == Begin \/ Judge \/ ClusterMoves \/ StoreMoves
Spec == Init /\ [][Next]_vars
(* Nothing moves while a validation is in progress.                         *)
QuietNext == Begin \/ Judge \/ (pc \in Rest /\ (ClusterMoves \/ StoreMoves))
QuietSpec == Init /\ [][QuietNext]_vars

-----------------------------------------------------------------------------
(* PROPERTIES                                                               *)

Asked == {asked[i] : i \in DOMAIN asked}
Accept == pc # "ok" /\ pc' = "ok"

(* "1. node addresses, no duplicates": an accepted request has no address   *)
(* twice, nor that of a node that could be seen all the while, wherever it  *)
(* was read from, and whether its cluster answered, fell silent or answered *)
(* again between two reads.                                                 *)
AcceptedAddressesFree ==
    [][Accept =>
        /\ \A i, j \in DOMAIN asked : i # j => AddressOf[asked[i]] # AddressOf[asked[j]]
        /\ \A p \in shown : p[1] \in standing =>
              \A n \in Asked : AddressOf[n] # AddressOf[p[2]]]_vars

(* "2. node names, no duplicates in the cluster", likewise, also when the   *)
(* cluster has no BKECluster yet.                                           *)
AcceptedNamesFree ==
    [][Accept =>
        /\ \A i, j \in DOMAIN asked : i # j => NameOf[asked[i]] # NameOf[asked[j]]
        /\ \A p \in shown : p[1] = own =>
              \A n \in Asked : NameOf[n] # NameOf[p[2]]]_vars

(* "1. node addresses must not be duplicated in all clusters".  They may be,*)
(* with every list read and nothing moving: a BKENode is not looked at      *)
(* while its cluster answers, so a machine that a scale-up has claimed, and *)
(* that has not joined yet, is accepted once more.                          *)
ClaimedAddressesRefused ==
    [][Accept =>
        \A c \in standing : \A m \in nodes[c] :
            \A n \in Asked : AddressOf[n] # AddressOf[m]]_vars
=============================================================================
