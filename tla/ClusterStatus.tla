---------------------------- MODULE ClusterStatus ----------------------------
(***************************************************************************)
(* The queries on clusters and the status processors they keep:             *)
(* GET /clusters (GetClustersByQuery), GET /clusters/{name}                 *)
(* (GetClusterFull) and DELETE /clusters/{name} (DeleteCluster).            *)
(*                                                                          *)
(* statusProcessors is a sync.Map with a processor for each cluster that a  *)
(* query has met.  No event tells the service that a cluster is gone: every *)
(* listing first removes the processors of the clusters it did not find,    *)
(* while other listings, with lists read earlier or later, do the same and  *)
(* store new ones.  A processor's only field is never read, so that it is   *)
(* left out.  The clusters change meanwhile as ClusterStore says.           *)
(***************************************************************************)
EXTENDS ClusterStore

CONSTANTS
    Requests,   \* the HTTP requests that may be in progress at a time
    None        \* no cluster

ASSUME NoneAssumption == None \notin Clusters

Ops == {"list", "detail", "delete"}
Active == {"list", "sweep", "item", "count", "nodes", "held", "get",
           "keep", "ha", "mark", "drop"}
Rest == {"idle", "ok", "error"}

VARIABLES
    procs,    \* statusProcessors: the clusters that have one
    pc,       \* where each request is
    op,       \* the operation it performs
    cl,       \* the cluster it names, or whose item it makes
    listed,   \* the clusters in the list it read
    keys,     \* the keys Range has not visited
    left,     \* the clusters it has still to make an item of
    sum       \* nodeSum: the cluster whose BKENodes were counted, or None for 0

request == <<op, cl, listed, keys, left, sum>>
vars == <<store, procs, pc, request>>

Init ==
    /\ StoreInit
    /\ procs = {}
    /\ pc = [r \in Requests |-> "idle"]
    /\ op = [r \in Requests |-> "list"]
    /\ cl = [r \in Requests |-> None]
    /\ listed = [r \in Requests |-> {}]
    /\ keys = [r \in Requests |-> {}]
    /\ left = [r \in Requests |-> {}]
    /\ sum = [r \in Requests |-> None]

-----------------------------------------------------------------------------
At(r, l) == pc[r] = l
Goto(r, l) == pc' = [pc EXCEPT ![r] = l]
Standing == {c \in Clusters : bke[c] # Absent}

(* The answer; the locals go with it.                                       *)
Return(r, result) ==
    /\ Goto(r, result)
    /\ cl' = [cl EXCEPT ![r] = None]
    /\ listed' = [listed EXCEPT ![r] = {}]
    /\ keys' = [keys EXCEPT ![r] = {}]
    /\ left' = [left EXCEPT ![r] = {}]
    /\ sum' = [sum EXCEPT ![r] = None]
    /\ UNCHANGED <<store, procs, op>>

Begin(r) ==
    /\ pc[r] \in Rest
    /\ \E o \in Ops, c \in Clusters :
        /\ op' = [op EXCEPT ![r] = o]
        /\ cl' = [cl EXCEPT ![r] = IF o = "list" THEN None ELSE c]
        /\ Goto(r, IF o = "list" THEN "list" ELSE "get")
    /\ UNCHANGED <<store, procs, listed, keys, left, sum>>

(* Fault: an item without a name is taken for a cluster.                    *)
ListNameless(r) ==
    /\ At(r, "list") /\ Goto(r, "sweep")
    /\ listed' = [listed EXCEPT ![r] = Standing \cup {None}]
    /\ keys' = [keys EXCEPT ![r] = Clusters]
    /\ left' = [left EXCEPT ![r] = Standing \cup {None}]
    /\ UNCHANGED <<store, procs, op, cl, sum>>

(* GetClusters.                                                             *)
List(r) ==
    /\ At(r, "list") /\ Goto(r, "sweep")
    /\ listed' = [listed EXCEPT ![r] = Standing]
    /\ keys' = [keys EXCEPT ![r] = Clusters]
    /\ left' = [left EXCEPT ![r] = Standing]
    /\ UNCHANGED <<store, procs, op, cl, sum>>

(* Fault: only the keys of the list are looked at.                          *)
SweepListed(r) ==
    /\ At(r, "sweep")
    /\ \E c \in keys[r] : keys' = [keys EXCEPT ![r] = @ \ {c}]
    /\ UNCHANGED <<store, procs, pc, op, cl, listed, left, sum>>

(* cleanupStatusProcessors: Range visits a key once, in any order, and may  *)
(* or may not meet one that is stored while it runs.                        *)
Sweep(r) ==
    /\ At(r, "sweep")
    /\ \E c \in keys[r] :
        /\ keys' = [keys EXCEPT ![r] = @ \ {c}]
        /\ procs' = IF c \in listed[r] THEN procs ELSE procs \ {c}
    /\ UNCHANGED <<store, pc, op, cl, listed, left, sum>>
(* Fault: the map is visited until it has no key that is not in the list.   *)
SweptClean(r) ==
    /\ At(r, "sweep") /\ keys[r] = {}
    /\ IF procs \subseteq listed[r]
       THEN Goto(r, "item") /\ listed' = [listed EXCEPT ![r] = {}] /\ UNCHANGED keys
       ELSE keys' = [keys EXCEPT ![r] = Clusters] /\ UNCHANGED <<pc, listed>>
    /\ UNCHANGED <<store, procs, op, cl, left, sum>>
Swept(r) ==
    /\ At(r, "sweep") /\ keys[r] = {} /\ Goto(r, "item")
    /\ listed' = [listed EXCEPT ![r] = {}]
    /\ UNCHANGED <<store, procs, op, cl, keys, left, sum>>

(* Fault: nodeSum is declared outside of the loop.                          *)
ItemKeepsSum(r) ==
    /\ At(r, "item")
    /\ \E c \in left[r] :
        /\ cl' = [cl EXCEPT ![r] = c]
        /\ left' = [left EXCEPT ![r] = @ \ {c}]
        /\ procs' = procs \cup {c}
    /\ Goto(r, "count")
    /\ UNCHANGED <<store, op, listed, keys, sum>>

(* One turn of the loop over the list: LoadOrStore, then getBKENodeCount,   *)
(* whose error leaves the sum, and GetNodes.                                *)
Item(r) ==
    /\ At(r, "item")
    /\ \E c \in left[r] :
        /\ cl' = [cl EXCEPT ![r] = c]
        /\ left' = [left EXCEPT ![r] = @ \ {c}]
        /\ sum' = [sum EXCEPT ![r] = None]
        /\ procs' = procs \cup {c}
    /\ Goto(r, "count")
    /\ UNCHANGED <<store, op, listed, keys>>
Count(r) ==
    /\ At(r, "count") /\ Goto(r, "nodes")
    /\ \/ sum' = [sum EXCEPT ![r] = cl[r]]
       \/ UNCHANGED sum
    /\ UNCHANGED <<store, procs, op, cl, listed, keys, left>>
Listed(r) == At(r, "item") /\ left[r] = {} /\ Return(r, "ok")

(* GetClustersByName, and LoadOrStore by the name found.                    *)
Get(r) ==
    /\ At(r, "get") /\ bke[cl[r]] # Absent
    /\ Goto(r, IF op[r] = "delete" THEN "mark" ELSE "keep")
    /\ UNCHANGED <<store, procs, request>>
Keep(r) ==
    /\ At(r, "keep") /\ Goto(r, "ha")
    /\ procs' = procs \cup {cl[r]}
    /\ UNCHANGED <<store, request>>
(* isHA and GetDefaultConfig: reads whose errors are dropped.               *)
IsHA(r) ==
    /\ At(r, "ha") /\ Goto(r, "nodes")
    /\ UNCHANGED <<store, procs, request>>

(* GetNodes asks the cluster itself, without a timeout: one that takes the  *)
(* connection and says nothing holds the request up.  If the cluster cannot *)
(* be asked its BKENodes are taken; when these cannot be listed either, a   *)
(* listing does without and a detail ends with an error.                    *)
GetNodes(r) ==
    /\ At(r, "nodes") \/ At(r, "held")
    /\ IF op[r] = "list"
       THEN Goto(r, "item") /\ UNCHANGED <<store, procs, request>>
       ELSE \E result \in {"ok", "error"} : Return(r, result)
Hold(r) ==
    /\ At(r, "nodes") /\ Goto(r, "held")
    /\ UNCHANGED <<store, procs, request>>

(* DeleteCluster marks the cluster, which the BKE controller removes later, *)
(* and drops its processor now.                                             *)
MarkCluster(r) ==
    /\ At(r, "mark") /\ Mark(cl[r]) /\ Goto(r, "drop")
    /\ UNCHANGED <<procs, request>>
Drop(r) ==
    /\ At(r, "drop") /\ Goto(r, "ok")
    /\ procs' = procs \ {cl[r]}
    /\ cl' = [cl EXCEPT ![r] = None]
    /\ UNCHANGED <<store, op, listed, keys, left, sum>>

(* A call fails, or the cluster is not found or no longer what was read.    *)
Refused(r) == pc[r] \in {"list", "get", "mark"} /\ Return(r, "error")

Handle(r) ==
    \/ List(r) \/ Sweep(r) \/ Swept(r) \/ Item(r) \/ Count(r) \/ Listed(r)
    \/ Get(r) \/ Keep(r) \/ IsHA(r) \/ GetNodes(r)
    \/ MarkCluster(r) \/ Drop(r) \/ Refused(r)

(* The clusters come and go.                                                *)
Elsewhere == StoreNext /\ UNCHANGED <<procs, pc, request>>

Next == Elsewhere \/ \E r \in Requests : Begin(r) \/ Handle(r) \/ Hold(r)

(* Calls to the management cluster return; those to the others need not.    *)
Fairness == \A r \in Requests : WF_vars(~At(r, "held") /\ Handle(r))
Spec == Init /\ [][Next]_vars /\ Fairness

-----------------------------------------------------------------------------
(* PROPERTIES                                                               *)

TypeOK ==
    /\ procs \in SUBSET Clusters
    /\ pc \in [Requests -> Active \cup Rest]
    /\ op \in [Requests -> Ops]
    /\ cl \in [Requests -> Clusters \cup {None}]
    /\ listed \in [Requests -> SUBSET Clusters]
    /\ keys \in [Requests -> SUBSET Clusters]
    /\ left \in [Requests -> SUBSET Clusters]
    /\ sum \in [Requests -> Clusters \cup {None}]
    /\ \A r \in Requests :
        cl[r] = None => pc[r] \in Rest \cup {"list", "sweep", "item"}

(* The nodes of an item that GetNodes fails for are those counted for it,   *)
(* or none, and never those of the cluster before it in the list.           *)
CountsOwnNodes ==
    \A r \in Requests : pc[r] \in {"nodes", "held"} => sum[r] \in {None, cl[r]}

(* The processors follow the clusters in the end: as long as listings are   *)
(* answered, a cluster that is gone for good has none at last, and one that *)
(* stays and is not deleted again has one, though a delete drops it while   *)
(* the cluster is still there, and requests with older lists store it again *)
(* or remove it.                                                            *)
Deleting(c) == \E r \in Requests : op[r] = "delete" /\ cl[r] = c
ListingAnswered == \E r \in Requests : Listed(r)
ProcessorsSettle ==
    []<><<ListingAnswered>>_vars =>
        \A c \in Clusters :
            /\ <>[](bke[c] = Absent) => <>[](c \notin procs)
            /\ <>[](bke[c] # Absent /\ ~Deleting(c)) => <>[](c \in procs)

(* A request is answered unless a cluster that does not answer holds it up  *)
(* for ever: the sweeps and loops end, whatever the others store meanwhile. *)
QueriesEnd ==
    \A r \in Requests :
        ([]<>~At(r, "held")) => (pc[r] \in Active ~> pc[r] \in Rest)
=============================================================================
