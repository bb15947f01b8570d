-------------------------- MODULE ClusterResources --------------------------
(***************************************************************************)
(* The resources of the clusters installer-service manages, and the         *)
(* requests that write them: POST /clusters (CreateCluster), POST           *)
(* .../scale-up and .../scale-down (createBKENodes, DeleteBKENodes),        *)
(* DELETE /clusters/{name} (DeleteCluster) and POST .../upgrade             *)
(* (UpgradeOpenFuyao).                                                      *)
(*                                                                          *)
(* A cluster is a BKECluster and the BKENodes of the namespace named after  *)
(* it.  A create sends the documents of a YAML stream one by one, the nodes *)
(* first and the BKECluster last, and for each of them looks at the         *)
(* namespace first; nothing is undone when a document fails.  A call to the *)
(* API server is one action.  The patches a create applies to the           *)
(* BKECluster come from the catalog, which PatchCatalog models: here they   *)
(* succeed or fail.  The BKE controller is external.                        *)
(***************************************************************************)
EXTENDS Naturals, Sequences, FiniteSets

CONSTANTS
    Requests,   \* the HTTP requests that may be in progress at a time
    Clusters,   \* cluster names, which name their namespaces too
    Nodes,      \* the machines that requests describe
    NameOf,     \* the host name of each, which names its BKENode
    NodeLists,  \* the node lists that requests carry
    Versions,
    Absent

ASSUME NodeListsAssumption == NodeLists \subseteq Seq(Nodes)
Cluster == [ver : Versions, reset : BOOLEAN]
ASSUME AbsentAssumption == Absent \notin Cluster

Ops == {"create", "scaleUp", "scaleDown", "delete", "upgrade"}
Active == {"discover", "patch", "check", "namespace", "make", "add", "drop",
           "get", "write", "set"}
(* "skipped" is answered as a success, "lost" is not answered at all.       *)
Rest == {"idle", "ok", "skipped", "error", "lost"}

VARIABLES
    up,       \* the process runs
    ns,       \* the namespaces that exist
    bke,      \* the BKECluster of each cluster, or Absent
    nodes,    \* the BKENodes of each
    fresh,    \* the deletes whose copy has the current resourceVersion
    pc,       \* where each request is
    op,       \* the operation it performs
    cl,       \* the cluster it is about
    asked,    \* the nodes its caller listed
    ver,      \* the version its caller named (create, upgrade)
    todo,     \* the nodes still to be created or deleted
    failed,   \* scaleDown: a delete failed
    copy,     \* delete: the BKECluster as it was read
    undone    \* history: another actor has taken back part of what the
              \* request does, since it began

objects == <<ns, bke, nodes>>
request == <<op, cl, asked, ver>>
local == <<todo, failed, copy>>
vars == <<up, objects, fresh, pc, request, local, undone>>

Init ==
    /\ up = TRUE
    /\ ns = {} /\ fresh = {}
    /\ bke = [c \in Clusters |-> Absent]
    /\ nodes = [c \in Clusters |-> {}]
    /\ pc = [r \in Requests |-> "idle"]
    /\ op = [r \in Requests |-> "create"]
    /\ cl \in [Requests -> Clusters]
    /\ asked = [r \in Requests |-> <<>>]
    /\ ver \in [Requests -> Versions]
    /\ todo = asked
    /\ failed = [r \in Requests |-> FALSE]
    /\ copy = [r \in Requests |-> Absent]
    /\ undone = [r \in Requests |-> FALSE]

-----------------------------------------------------------------------------
(* Helpers of the actions.                                                  *)

At(r, l) == pc[r] = l
Goto(r, l) == pc' = [pc EXCEPT ![r] = l]
Named(c, name) == {n \in nodes[c] : NameOf[n] = name}
Exists(c, n) == Named(c, NameOf[n]) # {}

(* History.  Creations on a cluster undo its scale-downs, removals undo its *)
(* creates and scale-ups.                                                   *)
UndoneBy(c, who, ops) ==
    undone' = [r \in Requests |->
                 undone[r] \/ (r # who /\ cl[r] = c /\ op[r] \in ops)]
Added(c, who) == UndoneBy(c, who, {"scaleDown"})
Removed(c, who) == UndoneBy(c, who, {"create", "scaleUp"})

(* The BKECluster of c is written; copies of it are stale if it changes.    *)
PutCluster(c, b) ==
    /\ bke' = [bke EXCEPT ![c] = b]
    /\ fresh' = IF b = bke[c] THEN fresh ELSE {r \in fresh : cl[r] # c}

(* The process ends, and with it every request.                             *)
Die ==
    /\ up' = FALSE
    /\ pc' = [r \in Requests |-> IF pc[r] \in Active THEN "lost" ELSE pc[r]]
    /\ fresh' = {}
    /\ UNCHANGED <<objects, request, local, undone>>

FirstStep == [create |-> "discover", scaleUp |-> "add", scaleDown |-> "drop",
              delete |-> "get", upgrade |-> "set"]
Begin(r) ==
    /\ up /\ pc[r] \in Rest
    /\ \E o \in Ops, c \in Clusters, s \in NodeLists, v \in Versions :
        /\ o \in {"scaleUp", "scaleDown"} => s # <<>>
        /\ o \in {"delete", "upgrade"} => s = <<>>
        /\ o \notin {"create", "upgrade"} => v = ver[r]
        /\ Goto(r, FirstStep[o])
        /\ op' = [op EXCEPT ![r] = o] /\ cl' = [cl EXCEPT ![r] = c]
        /\ asked' = [asked EXCEPT ![r] = s] /\ todo' = [todo EXCEPT ![r] = s]
        /\ ver' = [ver EXCEPT ![r] = v]
    /\ failed' = [failed EXCEPT ![r] = FALSE]
    /\ copy' = [copy EXCEPT ![r] = Absent]
    /\ undone' = [undone EXCEPT ![r] = FALSE]
    /\ fresh' = fresh \ {r}
    /\ UNCHANGED <<up, objects>>

-----------------------------------------------------------------------------
(* CreateCluster.  The document in hand is the first of the nodes left, and *)
(* the BKECluster when none is left.                                        *)

NextDocument(list) == IF list # <<>> THEN "check" ELSE "patch"

Discover(r) ==
    /\ At(r, "discover")
    /\ Goto(r, NextDocument(todo[r]))
    /\ UNCHANGED <<up, objects, fresh, request, local, undone>>
(* Without the API groups CreateCluster returns nil: success.               *)
DiscoverFails(r) ==
    /\ At(r, "discover")
    /\ Goto(r, "skipped")
    /\ UNCHANGED <<up, objects, fresh, request, local, undone>>

(* patchVersion, patchAddonsInfo and patchCoreDNSAntiAffinity: only the     *)
(* BKECluster is patched.                                                   *)
PatchCluster(r) ==
    /\ At(r, "patch")
    /\ Goto(r, "check") \/ Goto(r, "error")
    /\ UNCHANGED <<up, objects, fresh, request, local, undone>>

(* createResourcesOnCrateCluster, for one document: is there a namespace?   *)
CheckNamespace(r) ==
    /\ At(r, "check")
    /\ Goto(r, IF cl[r] \in ns THEN "make" ELSE "namespace")
    /\ UNCHANGED <<up, objects, fresh, request, local, undone>>
(* Any error of the Get is taken to mean that there is none.                *)
CheckNamespaceFails(r) ==
    /\ At(r, "check")
    /\ Goto(r, "namespace")
    /\ UNCHANGED <<up, objects, fresh, request, local, undone>>

(* A namespace that is there by now is an error, and an error is fatal: not *)
(* to the request, to the process.                                          *)
MakeNamespace(r) ==
    /\ At(r, "namespace")
    /\ \/ /\ cl[r] \notin ns
          /\ ns' = ns \cup {cl[r]}
          /\ Goto(r, "make")
          /\ UNCHANGED <<up, bke, nodes, fresh, request, local, undone>>
       \/ cl[r] \in ns /\ Die
MakeNamespaceFails(r) == At(r, "namespace") /\ Die

(* Faults: a node that exists ends the create; a node that cannot be        *)
(* created is left out.                                                     *)
MakeNodeStops(r) ==
    /\ At(r, "make") /\ todo[r] # <<>>
    /\ LET c == cl[r]  n == Head(todo[r]) IN
        IF Exists(c, n)
        THEN Goto(r, "ok") /\ UNCHANGED <<nodes, undone, todo>>
        ELSE /\ nodes' = [nodes EXCEPT ![c] = @ \cup {n}] /\ Added(c, r)
             /\ todo' = [todo EXCEPT ![r] = Tail(@)]
             /\ Goto(r, NextDocument(Tail(todo[r])))
    /\ UNCHANGED <<up, ns, bke, fresh, request, failed, copy>>
MakeNodeSkips(r) ==
    /\ At(r, "make") /\ todo[r] # <<>>
    /\ todo' = [todo EXCEPT ![r] = Tail(@)]
    /\ Goto(r, NextDocument(Tail(todo[r])))
    /\ \/ nodes' = [nodes EXCEPT ![cl[r]] = @ \cup {Head(todo[r])}] /\ Added(cl[r], r)
       \/ UNCHANGED <<nodes, undone>>
    /\ UNCHANGED <<up, ns, bke, fresh, request, failed, copy>>

(* Fault: the name is stored for the machine. *)
PutNodeName(r) ==
    LET c == cl[r]  n == Head(todo[r]) IN
    /\ todo' = [todo EXCEPT ![r] = Tail(@)]
    /\ nodes' = [nodes EXCEPT ![c] = @ \cup {NameOf[n]}] /\ Added(c, r)
    /\ UNCHANGED <<up, ns, bke, fresh, request, failed, copy>>

(* A BKENode is created, or one of that name is left as it is.              *)
PutNode(r) ==
    LET c == cl[r]  n == Head(todo[r]) IN
    /\ todo' = [todo EXCEPT ![r] = Tail(@)]
    /\ IF Exists(c, n)
       THEN UNCHANGED <<nodes, undone>>
       ELSE nodes' = [nodes EXCEPT ![c] = @ \cup {n}] /\ Added(c, r)
    /\ UNCHANGED <<up, ns, bke, fresh, request, failed, copy>>

MakeNode(r) ==
    /\ At(r, "make") /\ todo[r] # <<>>
    /\ Goto(r, NextDocument(Tail(todo[r])))
    /\ PutNode(r)

(* The BKECluster, too, is left as it is if it exists: the create is        *)
(* acknowledged all the same.                                               *)
MakeCluster(r) ==
    /\ At(r, "make") /\ todo[r] = <<>>
    /\ Goto(r, "ok")
    /\ IF bke[cl[r]] = Absent
       THEN PutCluster(cl[r], [ver |-> ver[r], reset |-> FALSE])
       ELSE UNCHANGED <<bke, fresh>>
    /\ UNCHANGED <<up, ns, nodes, request, local, undone>>

-----------------------------------------------------------------------------
(* The other operations.                                                    *)

(* createBKENodes does not look for the namespace: without it a create is   *)
(* refused.                                                                 *)
AddNode(r) ==
    /\ At(r, "add") /\ cl[r] \in ns
    /\ Goto(r, IF Tail(todo[r]) = <<>> THEN "ok" ELSE "add")
    /\ PutNode(r)
AddNodeRefused(r) ==
    /\ At(r, "add") /\ cl[r] \notin ns
    /\ Goto(r, "error")
    /\ UNCHANGED <<up, objects, fresh, request, local, undone>>

(* DeleteBKENodes goes on after an error and reports the first at the end.  *)
AfterDrop(r, err) ==
    IF Tail(todo[r]) # <<>> THEN "drop"
    ELSE IF failed[r] \/ err THEN "error" ELSE "ok"
DropNode(r) ==
    LET c == cl[r]  gone == Named(c, NameOf[Head(todo[r])]) IN
    /\ At(r, "drop")
    /\ todo' = [todo EXCEPT ![r] = Tail(@)]
    /\ Goto(r, AfterDrop(r, FALSE))
    /\ nodes' = [nodes EXCEPT ![c] = @ \ gone]
    /\ IF gone = {} THEN UNCHANGED undone ELSE Removed(c, r)
    /\ UNCHANGED <<up, ns, bke, fresh, request, failed, copy>>

(* Fault: only an error of the last delete is reported. *)
DropNodeFailsForgets(r) ==
    /\ At(r, "drop")
    /\ todo' = [todo EXCEPT ![r] = Tail(@)]
    /\ Goto(r, AfterDrop(r, TRUE))
    /\ UNCHANGED <<up, objects, fresh, request, failed, copy, undone>>
DropNodeFails(r) ==
    /\ At(r, "drop")
    /\ todo' = [todo EXCEPT ![r] = Tail(@)]
    /\ failed' = [failed EXCEPT ![r] = TRUE]
    /\ Goto(r, AfterDrop(r, TRUE))
    /\ UNCHANGED <<up, objects, fresh, request, copy, undone>>

(* DeleteCluster reads the BKECluster, sets spec.reset and writes it back.  *)
GetForDelete(r) ==
    /\ At(r, "get")
    /\ IF bke[cl[r]] = Absent
       THEN Goto(r, "error") /\ UNCHANGED <<copy, fresh>>
       ELSE /\ Goto(r, "write")
            /\ copy' = [copy EXCEPT ![r] = bke[cl[r]]]
            /\ fresh' = fresh \cup {r}
    /\ UNCHANGED <<up, objects, request, todo, failed, undone>>

(* Fault: the copy is written whatever its resourceVersion. *)
WriteResetForced(r) ==
    /\ At(r, "write") /\ bke[cl[r]] # Absent
    /\ PutCluster(cl[r], [copy[r] EXCEPT !.reset = TRUE]) /\ Goto(r, "ok")
    /\ UNCHANGED <<up, ns, nodes, request, local, undone>>
WriteReset(r) ==
    /\ At(r, "write")
    /\ IF r \in fresh
       THEN PutCluster(cl[r], [copy[r] EXCEPT !.reset = TRUE]) /\ Goto(r, "ok")
       ELSE Goto(r, "error") /\ UNCHANGED <<bke, fresh>>
    /\ UNCHANGED <<up, ns, nodes, request, local, undone>>

(* Fault: the patch replaces the spec. *)
SetVersionReplaces(r) ==
    /\ At(r, "set") /\ bke[cl[r]] # Absent
    /\ PutCluster(cl[r], [ver |-> ver[r], reset |-> FALSE]) /\ Goto(r, "ok")
    /\ UNCHANGED <<up, ns, nodes, request, local, undone>>
(* UpgradeOpenFuyao merges the version, which need not be an offered one.   *)
SetVersion(r) ==
    /\ At(r, "set")
    /\ IF bke[cl[r]] # Absent
       THEN PutCluster(cl[r], [bke[cl[r]] EXCEPT !.ver = ver[r]]) /\ Goto(r, "ok")
       ELSE Goto(r, "error") /\ UNCHANGED <<bke, fresh>>
    /\ UNCHANGED <<up, ns, nodes, request, local, undone>>

-----------------------------------------------------------------------------
(* What goes wrong, and what others do.                                     *)

(* A call fails, or its answer is lost, in a step that has no way of its    *)
(* own to go on: the request is answered with an error.                     *)
Abort(r) ==
    /\ pc[r] \in {"patch", "make", "add", "get", "write", "set"}
    /\ Goto(r, "error")
    /\ UNCHANGED <<up, objects, fresh, request, local, undone>>
CallFails(r) ==
    \/ Abort(r) \/ DiscoverFails(r) \/ CheckNamespaceFails(r)
    \/ MakeNamespaceFails(r) \/ DropNodeFails(r)

Kill == up /\ Die
Restart ==
    /\ ~up /\ up' = TRUE
    /\ UNCHANGED <<objects, fresh, pc, request, local, undone>>

(* The BKE controller writes the status of a BKECluster, and removes a      *)
(* cluster that is to be reset, its nodes with it.                          *)
Reconcile(c) ==
    /\ bke[c] # Absent /\ \E r \in fresh : cl[r] = c
    /\ fresh' = {r \in fresh : cl[r] # c}
    /\ UNCHANGED <<up, objects, pc, request, local, undone>>
Reap(c) ==
    /\ bke[c] # Absent /\ bke[c].reset
    /\ PutCluster(c, Absent)
    /\ nodes' = [nodes EXCEPT ![c] = {}]
    /\ undone' = [r \in Requests |-> undone[r] \/ cl[r] = c]
    /\ UNCHANGED <<up, ns, pc, request, local>>

Create(r) ==
    \/ Discover(r) \/ PatchCluster(r) \/ CheckNamespace(r) \/ MakeNamespace(r)
    \/ MakeNode(r) \/ MakeCluster(r)
Handle(r) ==
    \/ Create(r) \/ AddNode(r) \/ AddNodeRefused(r) \/ DropNode(r)
    \/ GetForDelete(r) \/ WriteReset(r) \/ SetVersion(r)

ReliableNext ==
    \/ \E r \in Requests : Begin(r) \/ Handle(r)
    \/ \E c \in Clusters : Reconcile(c) \/ Reap(c)
Next ==
    \/ ReliableNext
    \/ \E r \in Requests : CallFails(r)
    \/ Kill \/ Restart

Spec == Init /\ [][Next]_vars
(* No call fails and nobody stops the process.                              *)
ReliableSpec == Init /\ [][ReliableNext]_vars

-----------------------------------------------------------------------------
(* PROPERTIES                                                               *)

TypeOK ==
    /\ up \in BOOLEAN /\ ns \in SUBSET Clusters
    /\ bke \in [Clusters -> Cluster \cup {Absent}]
    /\ nodes \in [Clusters -> SUBSET Nodes]
    /\ fresh \in SUBSET Requests
    /\ pc \in [Requests -> Active \cup Rest]
    /\ op \in [Requests -> Ops] /\ cl \in [Requests -> Clusters]
    /\ asked \in [Requests -> Seq(Nodes)] /\ todo \in [Requests -> Seq(Nodes)]
    /\ ver \in [Requests -> Versions]
    /\ failed \in [Requests -> BOOLEAN] /\ undone \in [Requests -> BOOLEAN]
    /\ copy \in [Requests -> Cluster \cup {Absent}]

AllThere(r) == \A i \in DOMAIN asked[r] : Exists(cl[r], asked[r][i])

(* Every node of a create or of a scale-up that succeeded exists, and so    *)
(* does the cluster of the create, unless somebody removes them: whatever   *)
(* earlier requests left half done, and with other creates of the same      *)
(* cluster in progress.                                                     *)
AckedCreateComplete ==
    \A r \in Requests : op[r] \in {"create", "scaleUp"} /\ At(r, "ok") /\ ~undone[r] =>
        /\ AllThere(r)
        /\ op[r] = "create" => bke[cl[r]] # Absent

(* The BKE controller never sees a cluster before the nodes it was created  *)
(* with: a create writes the BKECluster only once they all exist.           *)
ClusterAfterNodes ==
    [][\A r \in Requests :
        /\ At(r, "make") /\ todo[r] = <<>> /\ ~undone[r]
        /\ bke[cl[r]] = Absent /\ bke'[cl[r]] # Absent
        => AllThere(r)]_vars

(* None of the nodes of a scale-down that succeeded exists, unless somebody *)
(* creates it again: a delete that failed is reported, even if later ones   *)
(* succeed.                                                                 *)
AckedScaleDownComplete ==
    \A r \in Requests : op[r] = "scaleDown" /\ At(r, "ok") /\ ~undone[r] =>
        \A i \in DOMAIN asked[r] : ~Exists(cl[r], asked[r][i])

(* The version of a cluster changes only to the one an upgrade asks for: a  *)
(* delete, which writes back the whole object it read, reverts no upgrade   *)
(* made in between, and a create of a cluster that exists changes nothing.  *)
VersionOnlyByUpgrade ==
    [][\A c \in Clusters :
        bke[c] # Absent /\ bke'[c] # Absent /\ bke'[c].ver # bke[c].ver =>
            \E r \in Requests : /\ op[r] = "upgrade" /\ At(r, "set")
                                /\ cl[r] = c /\ ver[r] = bke'[c].ver]_vars

(* Whatever requests are in progress, fail or are lost, the resources       *)
(* change only as ClusterStore says: in particular a host name is never     *)
(* used twice in a cluster, a cluster marked for deletion stays marked      *)
(* until it is gone, and no step both upgrades and marks.                   *)
Store == INSTANCE ClusterStore
ImplementsStore == Store!StoreSpec

(* "Several resources can be created concurrently": with no call failing    *)
(* and nobody stopping it, the service stays up.  It does not: two creates  *)
(* of one cluster may both find that the namespace is missing.              *)
ServiceStaysUp == up
=============================================================================
