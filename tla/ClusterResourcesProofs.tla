------------------------ MODULE ClusterResourcesProofs ------------------------
(***************************************************************************)
(* Proofs about ClusterResources, for any requests, clusters, machines,     *)
(* host names, node lists and versions: type correctness, that the          *)
(* resources change only as ClusterStore says, which step may change a      *)
(* version, and what success answers promise.                               *)
(***************************************************************************)
EXTENDS ClusterResources, TLAPS

-----------------------------------------------------------------------------
(* THE INDUCTIVE INVARIANT                                                  *)

(* Where a request may be, given its operation.  In a create the nodes come *)
(* first; a scale-up or scale-down in progress has a node in hand; a        *)
(* document is only created once its namespace exists, and namespaces stay. *)
Placed ==
    \A r \in Requests :
        /\ pc[r] \in {"discover", "patch", "check", "namespace", "make"} => op[r] = "create"
        /\ pc[r] = "patch" => todo[r] = <<>>
        /\ pc[r] = "add" => op[r] = "scaleUp" /\ todo[r] # <<>>
        /\ pc[r] = "drop" => op[r] = "scaleDown" /\ todo[r] # <<>>
        /\ pc[r] \in {"get", "write"} => op[r] = "delete"
        /\ pc[r] = "set" => op[r] = "upgrade"
        /\ pc[r] = "make" => cl[r] \in ns

(* The copy a delete may still write back is the object as it is.           *)
CopyCurrent ==
    \A r \in fresh : pc[r] = "write" => bke[cl[r]] # Absent /\ copy[r] = bke[cl[r]]

Typed == TypeOK /\ Placed /\ CopyCurrent

LEMMA InitTyped == Init => Typed
<1> SUFFICES ASSUME Init PROVE Typed
  OBVIOUS
<1>1. TypeOK
  BY DEF Init, TypeOK, Ops, Rest
<1>2. Placed /\ CopyCurrent
  BY DEF Init, Placed, CopyCurrent
<1> QED BY <1>1, <1>2 DEF Typed

(* A BKECluster is written: copies that stay fresh stay current.            *)
LEMMA PutClusterTyped ==
    ASSUME Typed, NEW c \in Clusters, NEW b \in Cluster \cup {Absent}, PutCluster(c, b)
    PROVE  /\ bke' \in [Clusters -> Cluster \cup {Absent}]
           /\ fresh' \in SUBSET Requests
           /\ \A r \in fresh' : r \in fresh /\ bke'[cl[r]] = bke[cl[r]]
BY DEF Typed, TypeOK, PutCluster

(* The steps that only move a request on.                                   *)
LEMMA MoveTyped ==
    ASSUME Typed, NEW r \in Requests, NEW l \in Active \cup Rest, Goto(r, l),
           l # "write",
           l \in {"discover", "check", "namespace", "make", "patch"} => op[r] = "create",
           l = "patch" => todo[r] = <<>>,
           l = "make" => cl[r] \in ns,
           l \notin {"add", "drop", "get", "set"},
           UNCHANGED <<up, objects, fresh, request, local, undone>>
    PROVE  Typed'
<1> USE DEF Goto, objects, request, local
<1>1. TypeOK'
  BY DEF Typed, TypeOK
<1>2. Placed'
  BY DEF Typed, TypeOK, Placed
<1>3. CopyCurrent'
  BY DEF Typed, TypeOK, CopyCurrent
<1> QED BY <1>1, <1>2, <1>3 DEF Typed

LEMMA BeginTyped == ASSUME Typed, NEW r \in Requests, Begin(r) PROVE Typed'
<1> USE DEF Goto, objects, request, local
<1>1. PICK o \in Ops, c \in Clusters, s \in NodeLists, v \in Versions :
        /\ o \in {"scaleUp", "scaleDown"} => s # <<>>
        /\ o \in {"delete", "upgrade"} => s = <<>>
        /\ o \notin {"create", "upgrade"} => v = ver[r]
        /\ Goto(r, FirstStep[o])
        /\ op' = [op EXCEPT ![r] = o] /\ cl' = [cl EXCEPT ![r] = c]
        /\ asked' = [asked EXCEPT ![r] = s] /\ todo' = [todo EXCEPT ![r] = s]
        /\ ver' = [ver EXCEPT ![r] = v]
  BY DEF Begin
<1>0. s \in Seq(Nodes)
  BY NodeListsAssumption
<1>2. /\ failed' = [failed EXCEPT ![r] = FALSE]
      /\ copy' = [copy EXCEPT ![r] = Absent]
      /\ undone' = [undone EXCEPT ![r] = FALSE]
      /\ fresh' = fresh \ {r}
      /\ UNCHANGED <<up, ns, bke, nodes>>
  BY DEF Begin
<1>3. PICK l \in {"discover", "add", "drop", "get", "set"} :
        /\ pc' = [pc EXCEPT ![r] = l]
        /\ l = "discover" => o = "create"
        /\ l = "add" => o = "scaleUp"
        /\ l = "drop" => o = "scaleDown"
        /\ l = "get" => o = "delete"
        /\ l = "set" => o = "upgrade"
  <2>1. pc' = [pc EXCEPT ![r] = FirstStep[o]]
    BY <1>1
  <2>2. FirstStep[o] \in {"discover", "add", "drop", "get", "set"}
    BY DEF FirstStep, Ops
  <2>3. /\ FirstStep[o] = "discover" => o = "create"
        /\ FirstStep[o] = "add" => o = "scaleUp"
        /\ FirstStep[o] = "drop" => o = "scaleDown"
        /\ FirstStep[o] = "get" => o = "delete"
        /\ FirstStep[o] = "set" => o = "upgrade"
    BY DEF FirstStep, Ops
  <2> QED BY <2>1, <2>2, <2>3
<1>4. TypeOK'
  BY <1>0, <1>1, <1>2, <1>3 DEF Typed, TypeOK, Active
<1>5. Placed'
  BY <1>1, <1>2, <1>3 DEF Typed, TypeOK, Placed
<1>6. CopyCurrent'
  BY <1>1, <1>2, <1>3 DEF Typed, TypeOK, CopyCurrent
<1> QED BY <1>4, <1>5, <1>6 DEF Typed

(* The first steps of a create, and the steps that fail.                    *)
LEMMA EarlyTyped ==
    ASSUME Typed, NEW r \in Requests,
           \/ Discover(r) \/ DiscoverFails(r) \/ PatchCluster(r)
           \/ CheckNamespace(r) \/ CheckNamespaceFails(r) \/ Abort(r)
           \/ AddNodeRefused(r)
    PROVE  Typed'
<1> USE DEF Typed, TypeOK, Placed, At, Active, Rest
<1>1. CASE Discover(r)
  BY <1>1, MoveTyped DEF Discover, NextDocument
<1>2. CASE DiscoverFails(r)
  BY <1>2, MoveTyped DEF DiscoverFails
<1>3. CASE PatchCluster(r)
  BY <1>3, MoveTyped DEF PatchCluster
<1>4. CASE CheckNamespace(r)
  BY <1>4, MoveTyped DEF CheckNamespace
<1>5. CASE CheckNamespaceFails(r)
  BY <1>5, MoveTyped DEF CheckNamespaceFails
<1>6. CASE Abort(r)
  BY <1>6, MoveTyped DEF Abort
<1>7. CASE AddNodeRefused(r)
  BY <1>7, MoveTyped DEF AddNodeRefused
<1> QED BY <1>1, <1>2, <1>3, <1>4, <1>5, <1>6, <1>7

LEMMA DieTyped == ASSUME Typed, Die PROVE Typed'
<1> USE DEF objects, request, local
<1>1. /\ up' = FALSE /\ fresh' = {}
      /\ pc' = [r \in Requests |-> IF pc[r] \in Active THEN "lost" ELSE pc[r]]
      /\ UNCHANGED <<ns, bke, nodes, op, cl, asked, ver, todo, failed, copy, undone>>
  BY DEF Die
<1>2. TypeOK'
  BY <1>1 DEF Typed, TypeOK, Active, Rest
<1>3. Placed'
  BY <1>1 DEF Typed, TypeOK, Placed, Active, Rest
<1>4. CopyCurrent'
  BY <1>1 DEF CopyCurrent
<1> QED BY <1>2, <1>3, <1>4 DEF Typed

(* A request takes the node in hand off its list and goes on; the nodes of  *)
(* its cluster may change.                                                  *)
LEMMA NodeStepTyped ==
    ASSUME Typed, NEW r \in Requests, todo[r] # <<>>, pc[r] \in {"make", "add", "drop"},
           todo' = [todo EXCEPT ![r] = Tail(@)],
           NEW l \in {"check", "patch", "add", "drop", "ok", "error"}, Goto(r, l),
           l \in {"check", "patch"} => op[r] = "create",
           l = "patch" => Tail(todo[r]) = <<>>,
           l = "add" => op[r] = "scaleUp" /\ Tail(todo[r]) # <<>>,
           l = "drop" => op[r] = "scaleDown" /\ Tail(todo[r]) # <<>>,
           nodes' \in [Clusters -> SUBSET Nodes],
           undone' \in [Requests -> BOOLEAN],
           failed' \in [Requests -> BOOLEAN],
           UNCHANGED <<up, ns, bke, fresh, request, copy>>
    PROVE  Typed'
<1> USE DEF Goto, request
<1>1. todo' \in [Requests -> Seq(Nodes)]
  BY DEF Typed, TypeOK
<1>2. TypeOK'
  BY <1>1 DEF Typed, TypeOK, Active, Rest
<1>3. Placed'
  BY DEF Typed, TypeOK, Placed
<1>4. CopyCurrent'
  BY DEF Typed, TypeOK, CopyCurrent
<1> QED BY <1>2, <1>3, <1>4 DEF Typed

LEMMA UndoneTyped ==
    ASSUME Typed, NEW c, NEW who, NEW ops, UndoneBy(c, who, ops)
    PROVE  undone' \in [Requests -> BOOLEAN]
BY DEF UndoneBy, Typed, TypeOK

(* What creating the node in hand leaves.                                   *)
LEMMA PutNodeEffect ==
    ASSUME Typed, NEW r \in Requests, todo[r] # <<>>, PutNode(r)
    PROVE  /\ todo' = [todo EXCEPT ![r] = Tail(@)]
           /\ nodes' \in [Clusters -> SUBSET Nodes]
           /\ undone' \in [Requests -> BOOLEAN]
           /\ failed' \in [Requests -> BOOLEAN]
           /\ UNCHANGED <<up, ns, bke, fresh, request, copy>>
<1>1. Head(todo[r]) \in Nodes
  BY DEF Typed, TypeOK
<1>2. nodes' \in [Clusters -> SUBSET Nodes]
  <2>1. cl[r] \in Clusters /\ nodes \in [Clusters -> SUBSET Nodes]
    BY DEF Typed, TypeOK
  <2>2. nodes' = nodes \/ nodes' = [nodes EXCEPT ![cl[r]] = @ \cup {Head(todo[r])}]
    BY DEF PutNode
  <2> QED BY <1>1, <2>1, <2>2
<1>3. undone' \in [Requests -> BOOLEAN]
  BY UndoneTyped DEF PutNode, Added, Typed, TypeOK
<1>4. failed' \in [Requests -> BOOLEAN]
  BY DEF PutNode, Typed, TypeOK
<1> QED BY <1>2, <1>3, <1>4 DEF PutNode

LEMMA MakeNodeTyped == ASSUME Typed, NEW r \in Requests, MakeNode(r) PROVE Typed'
<1>1. /\ pc[r] = "make" /\ todo[r] # <<>>
      /\ Goto(r, NextDocument(Tail(todo[r])))
      /\ PutNode(r)
  BY DEF MakeNode, At
<1>2. op[r] = "create"
  BY <1>1 DEF Typed, Placed
<1> DEFINE l == NextDocument(Tail(todo[r]))
<1>3. l \in {"check", "patch"} /\ (l = "patch" => Tail(todo[r]) = <<>>)
  BY DEF NextDocument
<1> QED BY <1>1, <1>2, <1>3, PutNodeEffect, NodeStepTyped

LEMMA AddNodeTyped == ASSUME Typed, NEW r \in Requests, AddNode(r) PROVE Typed'
<1> DEFINE l == IF Tail(todo[r]) = <<>> THEN "ok" ELSE "add"
<1>1. pc[r] = "add" /\ Goto(r, l) /\ PutNode(r)
  BY DEF AddNode, At
<1>2. op[r] = "scaleUp" /\ todo[r] # <<>>
  BY <1>1 DEF Typed, Placed
<1>3. l \in {"add", "ok"} /\ (l = "add" => Tail(todo[r]) # <<>>)
  OBVIOUS
<1> HIDE DEF l
<1> QED BY <1>1, <1>2, <1>3, PutNodeEffect, NodeStepTyped

LEMMA DropNodeTyped ==
    ASSUME Typed, NEW r \in Requests, DropNode(r) \/ DropNodeFails(r) PROVE Typed'
<1>1. pc[r] = "drop" /\ op[r] = "scaleDown" /\ todo[r] # <<>>
  BY DEF DropNode, DropNodeFails, At, Typed, Placed
<1>2. PICK e \in BOOLEAN : Goto(r, AfterDrop(r, e))
  BY DEF DropNode, DropNodeFails
<1>3. /\ AfterDrop(r, e) \in {"drop", "error", "ok"}
      /\ AfterDrop(r, e) = "drop" => Tail(todo[r]) # <<>>
  BY DEF AfterDrop
<1>4. nodes' \in [Clusters -> SUBSET Nodes]
  <2>1. nodes \in [Clusters -> SUBSET Nodes]
    BY DEF Typed, TypeOK
  <2>2. CASE DropNode(r)
    BY <2>1, <2>2 DEF DropNode
  <2>3. CASE DropNodeFails(r)
    BY <2>1, <2>3 DEF DropNodeFails, objects
  <2> QED BY <2>2, <2>3
<1>5. undone' \in [Requests -> BOOLEAN]
  <2>1. undone \in [Requests -> BOOLEAN]
    BY DEF Typed, TypeOK
  <2>2. CASE DropNode(r)
    BY <2>1, <2>2, UndoneTyped DEF DropNode, Removed
  <2>3. CASE DropNodeFails(r)
    BY <2>1, <2>3 DEF DropNodeFails
  <2> QED BY <2>2, <2>3
<1>6. failed' \in [Requests -> BOOLEAN]
  BY DEF DropNode, DropNodeFails, Typed, TypeOK
<1>7. /\ todo' = [todo EXCEPT ![r] = Tail(@)]
      /\ UNCHANGED <<up, ns, bke, fresh, request, copy>>
  BY DEF DropNode, DropNodeFails, objects
<1> QED BY <1>1, <1>2, <1>3, <1>4, <1>5, <1>6, <1>7, NodeStepTyped

LEMMA MakeNamespaceTyped ==
    ASSUME Typed, NEW r \in Requests, MakeNamespace(r) PROVE Typed'
<1>1. CASE cl[r] \in ns /\ Die
  BY <1>1, DieTyped
<1>2. CASE /\ ns' = ns \cup {cl[r]} /\ Goto(r, "make")
           /\ UNCHANGED <<up, bke, nodes, fresh, request, local, undone>>
  <2> USE DEF Goto, request, local
  <2>1. pc[r] = "namespace" /\ cl[r] \in Clusters
    BY DEF MakeNamespace, At, Typed, TypeOK
  <2>2. TypeOK'
    BY <1>2, <2>1 DEF Typed, TypeOK, Active
  <2>3. Placed'
    BY <1>2, <2>1 DEF Typed, TypeOK, Placed
  <2>4. CopyCurrent'
    BY <1>2 DEF Typed, TypeOK, CopyCurrent
  <2> QED BY <2>2, <2>3, <2>4 DEF Typed
<1> QED BY <1>1, <1>2 DEF MakeNamespace

(* A request ends, having written the BKECluster or not.                    *)
LEMMA ClusterStepTyped ==
    ASSUME Typed, NEW r \in Requests, NEW l \in {"ok", "error"}, Goto(r, l),
           NEW b \in Cluster \cup {Absent},
           PutCluster(cl[r], b) \/ UNCHANGED <<bke, fresh>>,
           UNCHANGED <<up, ns, nodes, request, local, undone>>
    PROVE  Typed'
<1> USE DEF Goto, request, local
<1>1. cl[r] \in Clusters
  BY DEF Typed, TypeOK
<1>2. /\ bke' \in [Clusters -> Cluster \cup {Absent}]
      /\ fresh' \in SUBSET Requests
      /\ \A q \in fresh' : q \in fresh /\ bke'[cl[q]] = bke[cl[q]]
  BY <1>1, PutClusterTyped DEF Typed, TypeOK
<1>3. TypeOK'
  BY <1>2 DEF Typed, TypeOK, Rest
<1>4. Placed'
  BY DEF Typed, TypeOK, Placed
<1>5. CopyCurrent'
  BY <1>2 DEF Typed, TypeOK, CopyCurrent
<1> QED BY <1>3, <1>4, <1>5 DEF Typed

LEMMA MakeClusterTyped ==
    ASSUME Typed, NEW r \in Requests, MakeCluster(r) PROVE Typed'
<1>1. ver[r] \in Versions
  BY DEF Typed, TypeOK
<1>2. [ver |-> ver[r], reset |-> FALSE] \in Cluster
  BY <1>1 DEF Cluster
<1> QED BY <1>2, ClusterStepTyped DEF MakeCluster

LEMMA SetVersionTyped ==
    ASSUME Typed, NEW r \in Requests, SetVersion(r) PROVE Typed'
<1>1. CASE bke[cl[r]] # Absent
  <2>1. bke[cl[r]] \in Cluster /\ ver[r] \in Versions
    <3>1. /\ bke \in [Clusters -> Cluster \cup {Absent}]
          /\ cl \in [Requests -> Clusters]
          /\ ver \in [Requests -> Versions]
      BY DEF Typed, TypeOK
    <3> QED BY <1>1, <3>1
  <2>2. [bke[cl[r]] EXCEPT !.ver = ver[r]] \in Cluster
    BY <2>1 DEF Cluster
  <2> QED BY <1>1, <2>2, ClusterStepTyped DEF SetVersion
<1>2. CASE bke[cl[r]] = Absent
  BY <1>2, ClusterStepTyped DEF SetVersion
<1> QED BY <1>1, <1>2

(* A delete whose copy is fresh writes back the object as it is, marked.    *)
LEMMA WriteResetEffect ==
    ASSUME Typed, NEW r \in Requests, WriteReset(r), r \in fresh
    PROVE  /\ bke[cl[r]] \in Cluster
           /\ PutCluster(cl[r], [bke[cl[r]] EXCEPT !.reset = TRUE])
           /\ Goto(r, "ok")
BY DEF WriteReset, At, Typed, TypeOK, CopyCurrent

LEMMA WriteResetTyped ==
    ASSUME Typed, NEW r \in Requests, WriteReset(r) PROVE Typed'
<1>1. CASE r \in fresh
  <2>1. [bke[cl[r]] EXCEPT !.reset = TRUE] \in Cluster
    BY <1>1, WriteResetEffect DEF Cluster
  <2> QED BY <1>1, <2>1, WriteResetEffect, ClusterStepTyped DEF WriteReset
<1>2. CASE r \notin fresh
  BY <1>2, ClusterStepTyped DEF WriteReset
<1> QED BY <1>1, <1>2

LEMMA GetForDeleteTyped ==
    ASSUME Typed, NEW r \in Requests, GetForDelete(r) PROVE Typed'
<1> USE DEF Goto, objects, request
<1>1. pc[r] = "get" /\ op[r] = "delete" /\ cl[r] \in Clusters
  BY DEF GetForDelete, At, Typed, TypeOK, Placed
<1>2. TypeOK'
  <2>1. bke[cl[r]] \in Cluster \cup {Absent}
    BY <1>1 DEF Typed, TypeOK
  <2>2. /\ pc' \in [Requests -> Active \cup Rest]
        /\ copy' \in [Requests -> Cluster \cup {Absent}]
        /\ fresh' \in SUBSET Requests
    <3>1. /\ pc \in [Requests -> Active \cup Rest]
          /\ copy \in [Requests -> Cluster \cup {Absent}]
          /\ fresh \in SUBSET Requests
      BY DEF Typed, TypeOK
    <3>2. {"error", "write"} \subseteq Active \cup Rest
      BY DEF Active, Rest
    <3>3. CASE bke[cl[r]] = Absent
      BY <3>1, <3>2, <3>3 DEF GetForDelete
    <3>4. CASE bke[cl[r]] # Absent
      BY <2>1, <3>1, <3>2, <3>4 DEF GetForDelete
    <3> QED BY <3>3, <3>4
  <2> QED BY <2>2 DEF GetForDelete, Typed, TypeOK
<1>3. Placed'
  BY <1>1 DEF GetForDelete, Typed, TypeOK, Placed
<1>4. CopyCurrent'
  <2>1. CASE bke[cl[r]] = Absent
    BY <1>1, <2>1 DEF GetForDelete, Typed, TypeOK, CopyCurrent
  <2>2. CASE bke[cl[r]] # Absent
    <3>1. /\ pc' = [pc EXCEPT ![r] = "write"]
          /\ copy' = [copy EXCEPT ![r] = bke[cl[r]]]
          /\ fresh' = fresh \cup {r}
          /\ UNCHANGED <<bke, cl>>
      BY <2>2 DEF GetForDelete
    <3>2. /\ pc \in [Requests -> Active \cup Rest]
          /\ copy \in [Requests -> Cluster \cup {Absent}]
          /\ fresh \in SUBSET Requests
          /\ CopyCurrent
      BY DEF Typed, TypeOK
    <3> QED BY <2>2, <3>1, <3>2 DEF CopyCurrent
  <2> QED BY <2>1, <2>2
<1> QED BY <1>2, <1>3, <1>4 DEF Typed

LEMMA OthersTyped ==
    ASSUME Typed, Restart \/ \E c \in Clusters : Reconcile(c) \/ Reap(c)
    PROVE  Typed'
<1> USE DEF objects, request, local
<1>1. CASE Restart
  BY <1>1 DEF Restart, Typed, TypeOK, Placed, CopyCurrent
<1>2. ASSUME NEW c \in Clusters, Reconcile(c) PROVE Typed'
  BY <1>2 DEF Reconcile, Typed, TypeOK, Placed, CopyCurrent
<1>3. ASSUME NEW c \in Clusters, Reap(c) PROVE Typed'
  <2>1. PutCluster(c, Absent)
    BY <1>3 DEF Reap
  <2>2. /\ bke' \in [Clusters -> Cluster \cup {Absent}]
        /\ fresh' \in SUBSET Requests
        /\ \A q \in fresh' : q \in fresh /\ bke'[cl[q]] = bke[cl[q]]
    BY <2>1, PutClusterTyped
  <2>3. TypeOK'
    BY <1>3, <2>2 DEF Reap, Typed, TypeOK
  <2>4. Placed'
    BY <1>3 DEF Reap, Typed, Placed
  <2>5. CopyCurrent'
    BY <1>3, <2>2 DEF Reap, Typed, TypeOK, CopyCurrent
  <2> QED BY <2>3, <2>4, <2>5 DEF Typed
<1> QED BY <1>1, <1>2, <1>3

LEMMA StutterTyped == Typed /\ UNCHANGED vars => Typed'
BY DEF vars, objects, request, local, Typed, TypeOK, Placed, CopyCurrent

LEMMA NextTyped == Typed /\ [Next]_vars => Typed'
<1> SUFFICES ASSUME Typed, [Next]_vars PROVE Typed'
  OBVIOUS
<1>1. ASSUME NEW r \in Requests, Begin(r) \/ Handle(r) PROVE Typed'
  BY <1>1, BeginTyped, EarlyTyped, MakeNamespaceTyped, MakeNodeTyped,
     MakeClusterTyped, AddNodeTyped, DropNodeTyped, GetForDeleteTyped,
     WriteResetTyped, SetVersionTyped DEF Handle, Create
<1>2. ASSUME NEW r \in Requests, CallFails(r) PROVE Typed'
  BY <1>2, EarlyTyped, DieTyped, DropNodeTyped DEF CallFails, MakeNamespaceFails
<1>3. CASE Kill
  BY <1>3, DieTyped DEF Kill
<1>4. CASE Restart \/ \E c \in Clusters : Reconcile(c) \/ Reap(c)
  BY <1>4, OthersTyped
<1>5. CASE UNCHANGED vars
  BY <1>5, StutterTyped
<1> QED BY <1>1, <1>2, <1>3, <1>4, <1>5 DEF Next, ReliableNext

LEMMA AlwaysTyped == Spec => []Typed
BY InitTyped, NextTyped, PTL DEF Spec

(* Every reachable state is well typed: in particular the nodes of a        *)
(* cluster are machines somebody listed, and no list runs out of nodes in   *)
(* the middle of a scale-up or scale-down.                                  *)
THEOREM TypeCorrect == Spec => []TypeOK
<1>1. Typed => TypeOK
  BY DEF Typed
<1> QED BY <1>1, AlwaysTyped, PTL

-----------------------------------------------------------------------------
(* THE STORE                                                                *)

LEMMA PutNodeStores ==
    ASSUME Typed, NEW r \in Requests, todo[r] # <<>>, cl[r] \in ns, PutNode(r)
    PROVE  Store!StoreNext \/ UNCHANGED Store!store
<1> DEFINE c == cl[r]
           n == Head(todo[r])
<1>1. c \in Clusters /\ n \in Nodes
  BY DEF Typed, TypeOK
<1>2. CASE Exists(c, n)
  BY <1>2 DEF PutNode, Store!store
<1>3. CASE ~Exists(c, n)
  <2>1. \A m \in nodes[c] : NameOf[m] # NameOf[n]
    BY <1>3 DEF Exists, Named
  <2>2. nodes' = [nodes EXCEPT ![c] = @ \cup {n}] /\ UNCHANGED <<ns, bke>>
    BY <1>3 DEF PutNode
  <2>3. Store!CreateNode(c, n)
    BY <2>1, <2>2 DEF Store!CreateNode
  <2> QED BY <1>1, <2>3 DEF Store!StoreNext
<1> QED BY <1>2, <1>3

LEMMA DropNodeStores ==
    ASSUME Typed, NEW r \in Requests, DropNode(r)
    PROVE  Store!StoreNext \/ UNCHANGED Store!store
<1> DEFINE c == cl[r]
           h == Head(todo[r])
           gone == Named(c, NameOf[h])
<1>1. c \in Clusters /\ nodes \in [Clusters -> SUBSET Nodes]
  BY DEF Typed, TypeOK
<1>2. nodes' = [nodes EXCEPT ![c] = @ \ gone] /\ UNCHANGED <<ns, bke>>
  BY DEF DropNode
<1>3. CASE gone = {}
  BY <1>1, <1>2, <1>3 DEF Store!store
<1>4. CASE gone # {}
  <2>1. PICK n \in nodes[c] : NameOf[n] = NameOf[h]
    BY <1>4 DEF Named
  <2>2. nodes[c] \ gone = {m \in nodes[c] : NameOf[m] # NameOf[n]}
    BY <2>1 DEF Named
  <2>3. Store!DeleteNode(c, n)
    BY <1>2, <2>1, <2>2 DEF Store!DeleteNode
  <2> QED BY <1>1, <2>1, <2>3 DEF Store!StoreNext
<1> QED BY <1>3, <1>4

LEMMA ClusterStores ==
    ASSUME Typed, NEW r \in Requests, MakeCluster(r) \/ WriteReset(r) \/ SetVersion(r)
    PROVE  Store!StoreNext \/ UNCHANGED Store!store
<1>1. cl[r] \in Clusters /\ ver[r] \in Versions
  BY DEF Typed, TypeOK
<1>2. CASE MakeCluster(r)
  <2>1. cl[r] \in ns
    BY <1>2 DEF MakeCluster, At, Typed, Placed
  <2>2. CASE bke[cl[r]] = Absent
    BY <1>1, <1>2, <2>1, <2>2 DEF MakeCluster, PutCluster, Store!StoreNext, Store!CreateCluster
  <2>3. CASE bke[cl[r]] # Absent
    BY <1>2, <2>3 DEF MakeCluster, Store!store
  <2> QED BY <2>2, <2>3
<1>3. CASE WriteReset(r)
  <2>1. CASE r \in fresh
    <3>1. bke[cl[r]] # Absent
      BY <1>3, <2>1, WriteResetEffect, AbsentAssumption
    <3>2. bke' = [bke EXCEPT ![cl[r]] = [@ EXCEPT !.reset = TRUE]]
      BY <1>3, <2>1, WriteResetEffect DEF PutCluster
    <3> QED BY <1>1, <1>3, <3>1, <3>2 DEF WriteReset, Store!StoreNext, Store!Mark
  <2>2. CASE r \notin fresh
    BY <1>3, <2>2 DEF WriteReset, Store!store
  <2> QED BY <2>1, <2>2
<1>4. CASE SetVersion(r)
  <2>1. CASE bke[cl[r]] # Absent
    <3>1. Store!Upgrade(cl[r], ver[r])
      BY <1>4, <2>1 DEF SetVersion, PutCluster, Store!Upgrade
    <3> QED BY <1>1, <3>1 DEF Store!StoreNext
  <2>2. CASE bke[cl[r]] = Absent
    BY <1>4, <2>2 DEF SetVersion, Store!store
  <2> QED BY <2>1, <2>2
<1> QED BY <1>2, <1>3, <1>4

LEMMA NextStores == Typed /\ [Next]_vars => [Store!StoreNext]_Store!store
<1> SUFFICES ASSUME Typed, [Next]_vars PROVE Store!StoreNext \/ UNCHANGED Store!store
  OBVIOUS
<1> USE DEF Store!store, objects
<1>1. ASSUME NEW r \in Requests, MakeNamespace(r)
      PROVE  Store!StoreNext \/ UNCHANGED Store!store
  <2>1. cl[r] \in Clusters
    BY DEF Typed, TypeOK
  <2> QED BY <1>1, <2>1 DEF MakeNamespace, Die, Store!StoreNext, Store!CreateNamespace
<1>2. ASSUME NEW r \in Requests, MakeNode(r)
      PROVE  Store!StoreNext \/ UNCHANGED Store!store
  BY <1>2, PutNodeStores DEF MakeNode, At, Typed, Placed
<1>3. ASSUME NEW r \in Requests, AddNode(r)
      PROVE  Store!StoreNext \/ UNCHANGED Store!store
  BY <1>3, PutNodeStores DEF AddNode, At, Typed, Placed
<1>4. ASSUME NEW r \in Requests,
             \/ Begin(r) \/ Discover(r) \/ PatchCluster(r) \/ CheckNamespace(r)
             \/ AddNodeRefused(r) \/ GetForDelete(r) \/ CallFails(r)
      PROVE  UNCHANGED Store!store
  BY <1>4 DEF Begin, Discover, PatchCluster, CheckNamespace, AddNodeRefused,
     GetForDelete, CallFails, Abort, DiscoverFails, CheckNamespaceFails,
     MakeNamespaceFails, Die, DropNodeFails
<1>5. ASSUME NEW r \in Requests, Begin(r) \/ Handle(r)
      PROVE  Store!StoreNext \/ UNCHANGED Store!store
  BY <1>1, <1>2, <1>3, <1>4, <1>5, DropNodeStores, ClusterStores DEF Handle, Create
<1>6. ASSUME NEW c \in Clusters, Reconcile(c) \/ Reap(c)
      PROVE  Store!StoreNext \/ UNCHANGED Store!store
  BY <1>6 DEF Reconcile, Reap, PutCluster, Store!StoreNext, Store!Remove
<1>7. CASE Kill \/ Restart \/ UNCHANGED vars
  BY <1>7 DEF Kill, Die, Restart, vars
<1> QED BY <1>4, <1>5, <1>6, <1>7 DEF Next, ReliableNext

(* ClusterResources implements ClusterStore: whatever requests are in       *)
(* progress, fail or are lost, each step of theirs is one step of the       *)
(* store, or none.                                                          *)
THEOREM Refinement == Spec => ImplementsStore
<1>1. Init => Store!StoreInit
  BY DEF Init, Store!StoreInit
<1> QED BY <1>1, AlwaysTyped, NextStores, PTL DEF Spec, ImplementsStore, Store!StoreSpec

(* Only an upgrade changes a version, and only to the one it asks for.      *)
LEMMA NextKeepsVersion ==
    ASSUME Typed, [Next]_vars, NEW c \in Clusters,
           bke[c] # Absent, bke'[c] # Absent, bke'[c].ver # bke[c].ver
    PROVE  \E r \in Requests : /\ op[r] = "upgrade" /\ At(r, "set")
                               /\ cl[r] = c /\ ver[r] = bke'[c].ver
<1>0. bke \in [Clusters -> Cluster \cup {Absent}] /\ bke[c] \in Cluster
  BY DEF Typed, TypeOK
<1>1. bke' # bke
  OBVIOUS
<1>2. ASSUME NEW r \in Requests, MakeCluster(r) PROVE FALSE
  BY <1>0, <1>2 DEF MakeCluster, PutCluster
<1>3. ASSUME NEW r \in Requests, WriteReset(r) PROVE FALSE
  <2>1. r \in fresh
    BY <1>1, <1>3 DEF WriteReset
  <2>2. /\ cl[r] \in Clusters /\ bke[cl[r]] \in Cluster
        /\ bke' = [bke EXCEPT ![cl[r]] = [bke[cl[r]] EXCEPT !.reset = TRUE]]
    BY <1>3, <2>1, WriteResetEffect DEF PutCluster, Typed, TypeOK
  <2>3. [bke[cl[r]] EXCEPT !.reset = TRUE].ver = bke[cl[r]].ver
    BY <2>2 DEF Cluster
  <2>4. bke'[c].ver = bke[c].ver
    BY <1>0, <2>2, <2>3
  <2> QED BY <2>4
<1>4. ASSUME NEW d \in Clusters, Reap(d) PROVE FALSE
  BY <1>0, <1>4 DEF Reap, PutCluster
<1>5. PICK r \in Requests : SetVersion(r)
  <2>1. ASSUME NEW r \in Requests, Handle(r), ~SetVersion(r) PROVE FALSE
    BY <1>1, <1>2, <1>3, <2>1 DEF Handle, Create, Discover, PatchCluster,
       CheckNamespace, MakeNamespace, Die, MakeNode, PutNode, AddNode,
       AddNodeRefused, DropNode, GetForDelete, objects
  <2>2. ASSUME NEW r \in Requests, Begin(r) PROVE FALSE
    BY <1>1, <2>2 DEF Begin, objects
  <2>3. ASSUME NEW r \in Requests, CallFails(r) PROVE FALSE
    BY <1>1, <2>3 DEF CallFails, Abort, DiscoverFails, CheckNamespaceFails,
       MakeNamespaceFails, Die, DropNodeFails, objects
  <2>4. CASE Kill \/ Restart \/ UNCHANGED vars
    BY <1>1, <2>4 DEF Kill, Die, Restart, vars, objects
  <2>5. ASSUME NEW d \in Clusters, Reconcile(d) PROVE FALSE
    BY <1>1, <2>5 DEF Reconcile, objects
  <2> QED BY <1>4, <2>1, <2>2, <2>3, <2>4, <2>5 DEF Next, ReliableNext
<1>6. /\ At(r, "set") /\ cl[r] \in Clusters /\ bke[cl[r]] # Absent
      /\ bke' = [bke EXCEPT ![cl[r]] = [bke[cl[r]] EXCEPT !.ver = ver[r]]]
  BY <1>1, <1>5 DEF SetVersion, PutCluster, Typed, TypeOK
<1>7. cl[r] = c
  BY <1>0, <1>6
<1>8. bke'[c].ver = ver[r]
  BY <1>0, <1>6, <1>7 DEF Cluster
<1>9. op[r] = "upgrade"
  BY <1>6 DEF At, Typed, Placed
<1> QED BY <1>6, <1>7, <1>8, <1>9

(* The version of a cluster changes only by an upgrade, and only to the     *)
(* version it asks for: no delete reverts one.                              *)
THEOREM VersionKept == Spec => VersionOnlyByUpgrade
<1>1. Typed /\ [Next]_vars =>
        [\A c \in Clusters :
            bke[c] # Absent /\ bke'[c] # Absent /\ bke'[c].ver # bke[c].ver =>
                \E r \in Requests : /\ op[r] = "upgrade" /\ At(r, "set")
                                    /\ cl[r] = c /\ ver[r] = bke'[c].ver]_vars
  BY NextKeepsVersion
<1> QED BY <1>1, AlwaysTyped, PTL DEF Spec, VersionOnlyByUpgrade

-----------------------------------------------------------------------------
(* WHAT SUCCESS ANSWERS PROMISE                                             *)

(* A host name is in use among the machines s.                              *)
Has(s, m) == \E x \in s : NameOf[x] = NameOf[m]

(* The positions of the list of r that it has dealt with.                   *)
Behind(r) == 1 .. (Len(asked[r]) - Len(todo[r]))

(* The nodes left are the last ones of the list.                            *)
LastOf(t, a) ==
    /\ Len(t) <= Len(a)
    /\ \A i \in 1 .. Len(t) : t[i] = a[i + (Len(a) - Len(t))]
Suffixed == \A r \in Requests : LastOf(todo[r], asked[r])

(* A success answer is given only when none is left, and no delete failed.  *)
Finished ==
    \A r \in Requests : pc[r] = "ok" =>
        /\ op[r] \in {"create", "scaleUp", "scaleDown"} => todo[r] = <<>>
        /\ op[r] = "scaleDown" => ~failed[r]

Provided ==
    \A r \in Requests : op[r] \in {"create", "scaleUp"} /\ ~undone[r] =>
        /\ \A i \in Behind(r) : Has(nodes[cl[r]], asked[r][i])
        /\ op[r] = "create" /\ pc[r] = "ok" => bke[cl[r]] # Absent

Dropped ==
    \A r \in Requests : op[r] = "scaleDown" /\ ~undone[r] /\ ~failed[r] =>
        \A i \in Behind(r) : ~Has(nodes[cl[r]], asked[r][i])

Progress == Suffixed /\ Finished /\ Provided /\ Dropped

LEMMA InitProgress == Init => Progress
<1> SUFFICES ASSUME Init PROVE Progress
  OBVIOUS
<1>1. \A r \in Requests : asked[r] = <<>> /\ todo[r] = <<>> /\ pc[r] = "idle" /\ op[r] = "create"
  BY DEF Init
<1>2. \A r \in Requests : Len(asked[r]) = 0 /\ Len(todo[r]) = 0
  BY <1>1
<1>3. Suffixed
  <2> SUFFICES ASSUME NEW r \in Requests
               PROVE  LastOf(todo[r], asked[r])
    BY DEF Suffixed
  <2>1. Len(asked[r]) = 0 /\ Len(todo[r]) = 0 /\ 1 .. 0 = {}
    BY <1>2
  <2> QED BY <2>1 DEF LastOf
<1>4. Finished
  BY <1>1 DEF Finished
<1>5. Provided
  BY <1>1, <1>2 DEF Provided, Behind
<1>6. Dropped
  BY <1>1 DEF Dropped
<1> QED BY <1>3, <1>4, <1>5, <1>6 DEF Progress

(* The steps that change no node and no list, and remove no cluster.        *)
LEMMA QuietProgress ==
    ASSUME Typed, Progress, UNCHANGED <<nodes, request, todo, failed, undone>>,
           \A c \in Clusters : bke[c] # Absent => bke'[c] # Absent,
           \A q \in Requests : pc'[q] = "ok" =>
               \/ pc[q] = "ok" \/ op[q] \in {"delete", "upgrade"}
               \/ op[q] = "create" /\ todo[q] = <<>> /\ bke'[cl[q]] # Absent
    PROVE  Progress'
<1> USE DEF request
<1>0. \A q \in Requests : cl[q] \in Clusters
  BY DEF Typed, TypeOK
<1>1. Suffixed'
  BY DEF Progress, Suffixed
<1>2. Finished'
  BY DEF Progress, Finished
<1>3. Provided'
  BY <1>0 DEF Progress, Provided, Behind
<1>4. Dropped'
  BY DEF Progress, Dropped, Behind
<1> QED BY <1>1, <1>2, <1>3, <1>4 DEF Progress

(* Taking the node in hand off the list moves one position behind.          *)
LEMMA TakeOne ==
    ASSUME Typed, Suffixed, NEW r \in Requests, todo[r] # <<>>,
           todo' = [todo EXCEPT ![r] = Tail(@)], UNCHANGED asked
    PROVE  /\ Suffixed'
           /\ \A q \in Requests \ {r} : todo'[q] = todo[q] /\ Behind(q)' = Behind(q)
           /\ \A i \in Behind(r)' : i \in Behind(r) \/ asked[r][i] = Head(todo[r])
<1> DEFINE a == asked[r]
           t == todo[r]
<1>1. a \in Seq(Nodes) /\ t \in Seq(Nodes) /\ t # <<>>
  BY DEF Typed, TypeOK
<1>2. todo'[r] = Tail(t) /\ \A q \in Requests \ {r} : todo'[q] = todo[q]
  BY DEF Typed, TypeOK
<1>3. /\ Len(t) \in Nat \ {0} /\ Len(a) \in Nat /\ Len(Tail(t)) = Len(t) - 1
      /\ Head(t) = t[1]
      /\ \A i \in 1 .. (Len(t) - 1) : Tail(t)[i] = t[i + 1]
  BY <1>1
<1>4. /\ Len(t) <= Len(a)
      /\ \A i \in 1 .. Len(t) : t[i] = a[i + (Len(a) - Len(t))]
  BY DEF Suffixed, LastOf
<1> HIDE DEF a, t
<1>5. \A i \in 1 .. (Len(t) - 1) : Tail(t)[i] = a[i + (Len(a) - (Len(t) - 1))]
  <2> TAKE i \in 1 .. (Len(t) - 1)
  <2>1. i + 1 \in 1 .. Len(t)
    BY <1>3
  <2>2. Tail(t)[i] = t[i + 1] /\ t[i + 1] = a[(i + 1) + (Len(a) - Len(t))]
    BY <1>3, <1>4, <2>1
  <2>3. (i + 1) + (Len(a) - Len(t)) = i + (Len(a) - (Len(t) - 1))
    BY <1>3
  <2> QED BY <2>2, <2>3
<1>6. Suffixed'
  <2> SUFFICES ASSUME NEW q \in Requests
               PROVE  LastOf(todo'[q], asked[q])
    BY DEF Suffixed
  <2>1. CASE q # r
    <3>1. todo'[q] = todo[q]
      BY <1>2, <2>1
    <3> QED BY <3>1 DEF Suffixed
  <2>2. CASE q = r
    <3>1. Len(Tail(t)) <= Len(a)
      BY <1>3, <1>4
    <3>2. \A i \in 1 .. Len(Tail(t)) : Tail(t)[i] = a[i + (Len(a) - Len(Tail(t)))]
      BY <1>3, <1>5
    <3>3. asked[q] = a /\ todo'[q] = Tail(t)
      BY <1>2, <2>2 DEF a, t
    <3> QED BY <3>1, <3>2, <3>3 DEF LastOf
  <2> QED BY <2>1, <2>2
<1>7. \A q \in Requests \ {r} : Behind(q)' = Behind(q)
  BY <1>2 DEF Behind
<1>8. \A i \in Behind(r)' : i \in Behind(r) \/ asked[r][i] = Head(todo[r])
  <2> TAKE i \in Behind(r)'
  <2>1. i \in 1 .. (Len(a) - (Len(t) - 1))
    BY <1>2, <1>3 DEF Behind, a, t
  <2>2. CASE i \in 1 .. (Len(a) - Len(t))
    BY <2>2 DEF Behind, a, t
  <2>3. CASE i = 1 + (Len(a) - Len(t))
    <3>1. 1 \in 1 .. Len(t)
      BY <1>3
    <3>2. t[1] = a[i]
      BY <1>4, <2>3, <3>1
    <3> QED BY <1>3, <3>2 DEF a, t
  <2>4. i \in 1 .. (Len(a) - Len(t)) \/ i = 1 + (Len(a) - Len(t))
    BY <1>3, <1>4, <2>1
  <2> QED BY <2>2, <2>3, <2>4
<1> QED BY <1>2, <1>6, <1>7, <1>8

LEMMA BeginProgress ==
    ASSUME Typed, Progress, NEW r \in Requests, Begin(r) PROVE Progress'
<1> USE DEF objects
<1>1. PICK s \in Seq(Nodes) : asked' = [asked EXCEPT ![r] = s] /\ todo' = [todo EXCEPT ![r] = s]
  BY NodeListsAssumption DEF Begin
<1>2. PICK o \in Ops, c \in Clusters :
        /\ op' = [op EXCEPT ![r] = o] /\ cl' = [cl EXCEPT ![r] = c]
        /\ pc' = [pc EXCEPT ![r] = FirstStep[o]]
  BY DEF Begin, Goto
<1>3. failed' = [failed EXCEPT ![r] = FALSE] /\ undone' = [undone EXCEPT ![r] = FALSE]
      /\ UNCHANGED <<ns, bke, nodes>>
  BY DEF Begin
<1>4. FirstStep[o] # "ok"
  BY DEF FirstStep, Ops
<1>5. asked'[r] = s /\ todo'[r] = s /\ pc'[r] # "ok"
  BY <1>1, <1>2, <1>4 DEF Typed, TypeOK
<1>6. \A q \in Requests \ {r} :
        /\ asked'[q] = asked[q] /\ todo'[q] = todo[q] /\ op'[q] = op[q]
        /\ cl'[q] = cl[q] /\ pc'[q] = pc[q] /\ failed'[q] = failed[q]
        /\ undone'[q] = undone[q] /\ Behind(q)' = Behind(q)
  BY <1>1, <1>2, <1>3 DEF Typed, TypeOK, Behind
<1>7. LastOf(s, s) /\ Behind(r)' = {}
  <2>1. Len(s) \in Nat /\ Len(s) - Len(s) = 0 /\ 1 .. 0 = {}
    OBVIOUS
  <2>2. \A i \in 1 .. Len(s) : i + 0 = i
    BY <2>1
  <2> QED BY <1>5, <2>1, <2>2 DEF LastOf, Behind
<1>8. Suffixed'
  BY <1>5, <1>6, <1>7 DEF Progress, Suffixed
<1>9. Finished'
  BY <1>5, <1>6 DEF Progress, Finished
<1>10. Provided'
  BY <1>3, <1>5, <1>6, <1>7 DEF Progress, Provided
<1>11. Dropped'
  BY <1>3, <1>6, <1>7 DEF Progress, Dropped
<1> QED BY <1>8, <1>9, <1>10, <1>11 DEF Progress

(* A node is created: the ones dealt with exist, and the scale-downs it may *)
(* concern are marked undone.                                               *)
LEMMA PutNodeProgress ==
    ASSUME Typed, Progress, NEW r \in Requests, MakeNode(r) \/ AddNode(r)
    PROVE  Progress'
<1> DEFINE c == cl[r]
           n == Head(todo[r])
<1>1. /\ todo[r] # <<>> /\ op[r] \in {"create", "scaleUp"}
      /\ c \in Clusters /\ nodes \in [Clusters -> SUBSET Nodes]
      /\ PutNode(r)
  BY DEF MakeNode, AddNode, At, Typed, TypeOK, Placed
<1>2. /\ todo' = [todo EXCEPT ![r] = Tail(@)]
      /\ UNCHANGED <<bke, op, cl, asked, failed>>
  BY <1>1 DEF PutNode, request
<1>3. \A q \in Requests : pc'[q] = "ok" =>
        \/ q # r /\ pc[q] = "ok"
        \/ q = r /\ op[r] = "scaleUp" /\ todo'[r] = <<>>
  <2>1. CASE MakeNode(r)
    BY <1>2, <2>1 DEF MakeNode, Goto, NextDocument, Typed, TypeOK
  <2>2. CASE AddNode(r)
    <3>1. op[r] = "scaleUp"
      BY <2>2 DEF AddNode, At, Typed, Placed
    <3> QED BY <1>2, <2>2, <3>1 DEF AddNode, Goto, Typed, TypeOK
  <2> QED BY <2>1, <2>2
<1>4. /\ Suffixed'
      /\ \A q \in Requests \ {r} : todo'[q] = todo[q] /\ Behind(q)' = Behind(q)
      /\ \A i \in Behind(r)' : i \in Behind(r) \/ asked[r][i] = n
  BY <1>1, <1>2, TakeOne DEF Progress
<1>5. \/ Has(nodes[c], n) /\ UNCHANGED <<nodes, undone>>
      \/ /\ nodes' = [nodes EXCEPT ![c] = @ \cup {n}]
         /\ undone' = [q \in Requests |->
                          undone[q] \/ (q # r /\ cl[q] = c /\ op[q] \in {"scaleDown"})]
  BY <1>1 DEF PutNode, Added, UndoneBy, Exists, Named, Has
<1>6. /\ Has(nodes'[c], n)
      /\ \A d \in Clusters : \A m : Has(nodes[d], m) => Has(nodes'[d], m)
  BY <1>1, <1>5 DEF Has
<1>7. \A q \in Requests : ~undone'[q] => ~undone[q]
  BY <1>5
<1>8. Finished'
  BY <1>2, <1>3, <1>4 DEF Progress, Finished
<1>9. Provided'
  <2> SUFFICES ASSUME NEW q \in Requests, op[q] \in {"create", "scaleUp"}, ~undone'[q]
               PROVE  /\ \A i \in Behind(q)' : Has(nodes'[cl[q]], asked[q][i])
                      /\ op[q] = "create" /\ pc'[q] = "ok" => bke[cl[q]] # Absent
    BY <1>2 DEF Provided
  <2>1. /\ \A i \in Behind(q) : Has(nodes[cl[q]], asked[q][i])
        /\ op[q] = "create" /\ pc[q] = "ok" => bke[cl[q]] # Absent
        /\ cl[q] \in Clusters
    BY <1>7 DEF Progress, Provided, Typed, TypeOK
  <2>2. \A i \in Behind(q) : Has(nodes'[cl[q]], asked[q][i])
    BY <1>2, <1>6, <2>1
  <2>3. \A i \in Behind(q)' : Has(nodes'[cl[q]], asked[q][i])
    BY <1>2, <1>4, <1>6, <2>2
  <2> QED BY <1>3, <2>1, <2>3
<1>10. Dropped'
  <2> SUFFICES ASSUME NEW q \in Requests, op[q] = "scaleDown", ~undone'[q], ~failed[q],
                      NEW i \in Behind(q)'
               PROVE  ~Has(nodes'[cl[q]], asked[q][i])
    BY <1>2 DEF Dropped
  <2>1. q # r /\ i \in Behind(q)
    BY <1>1, <1>4
  <2>2. ~Has(nodes[cl[q]], asked[q][i])
    BY <1>7, <2>1 DEF Progress, Dropped
  <2>3. cl[q] = c => UNCHANGED nodes
    BY <1>5, <2>1
  <2>4. nodes'[cl[q]] = nodes[cl[q]]
    BY <1>1, <1>5, <2>3 DEF Typed, TypeOK
  <2> QED BY <1>2, <2>2, <2>4
<1> QED BY <1>4, <1>8, <1>9, <1>10 DEF Progress

(* A node is deleted, or its delete fails: the creates and scale-ups it     *)
(* may concern are marked undone.                                           *)
LEMMA DropNodeProgress ==
    ASSUME Typed, Progress, NEW r \in Requests, DropNode(r) \/ DropNodeFails(r)
    PROVE  Progress'
<1> DEFINE c == cl[r]
           n == Head(todo[r])
<1>1. /\ todo[r] # <<>> /\ op[r] = "scaleDown"
      /\ c \in Clusters /\ nodes \in [Clusters -> SUBSET Nodes]
  BY DEF DropNode, DropNodeFails, At, Typed, TypeOK, Placed
<1>2. /\ todo' = [todo EXCEPT ![r] = Tail(@)]
      /\ UNCHANGED <<bke, op, cl, asked>>
  BY DEF DropNode, DropNodeFails, request, objects
<1>3. /\ Suffixed'
      /\ \A q \in Requests \ {r} : todo'[q] = todo[q] /\ Behind(q)' = Behind(q)
      /\ \A i \in Behind(r)' : i \in Behind(r) \/ asked[r][i] = n
  BY <1>1, <1>2, TakeOne DEF Progress
<1>4. /\ \A q \in Requests \ {r} : failed'[q] = failed[q]
      /\ ~failed'[r] => ~failed[r] /\ DropNode(r)
  BY DEF DropNode, DropNodeFails, Typed, TypeOK
<1>5. \A q \in Requests : pc'[q] = "ok" =>
        \/ q # r /\ pc[q] = "ok"
        \/ q = r /\ todo'[r] = <<>> /\ ~failed'[r]
  <2>1. todo'[r] = Tail(todo[r])
    BY <1>2 DEF Typed, TypeOK
  <2>2. CASE DropNode(r)
    BY <2>1, <2>2 DEF DropNode, Goto, AfterDrop, Typed, TypeOK
  <2>3. CASE DropNodeFails(r)
    BY <2>1, <2>3 DEF DropNodeFails, Goto, AfterDrop, Typed, TypeOK
  <2> QED BY <2>2, <2>3
<1>6. \/ UNCHANGED <<nodes, undone>> /\ (DropNode(r) => ~Has(nodes[c], n))
      \/ /\ nodes' = [nodes EXCEPT ![c] = @ \ Named(c, NameOf[n])]
         /\ undone' = [q \in Requests |->
                undone[q] \/ (q # r /\ cl[q] = c /\ op[q] \in {"create", "scaleUp"})]
  <2>1. CASE DropNode(r)
    <3>1. CASE Named(c, NameOf[n]) = {}
      BY <1>1, <2>1, <3>1 DEF DropNode, Named, Has
    <3>2. CASE Named(c, NameOf[n]) # {}
      BY <2>1, <3>2 DEF DropNode, Removed, UndoneBy
    <3> QED BY <3>1, <3>2
  <2>2. CASE DropNodeFails(r) /\ ~DropNode(r)
    BY <2>2 DEF DropNodeFails, objects
  <2> QED BY <2>1, <2>2
<1>7. /\ DropNode(r) => ~Has(nodes'[c], n)
      /\ \A d \in Clusters : \A m : ~Has(nodes[d], m) => ~Has(nodes'[d], m)
  BY <1>1, <1>6 DEF Has, Named
<1>8. \A q \in Requests : ~undone'[q] => ~undone[q]
  BY <1>6
<1>9. Finished'
  BY <1>1, <1>2, <1>3, <1>4, <1>5 DEF Progress, Finished
<1>10. Provided'
  <2> SUFFICES ASSUME NEW q \in Requests, op[q] \in {"create", "scaleUp"}, ~undone'[q]
               PROVE  /\ \A i \in Behind(q)' : Has(nodes'[cl[q]], asked[q][i])
                      /\ op[q] = "create" /\ pc'[q] = "ok" => bke[cl[q]] # Absent
    BY <1>2 DEF Provided
  <2>1. q # r /\ Behind(q)' = Behind(q)
    BY <1>1, <1>3
  <2>2. /\ \A i \in Behind(q) : Has(nodes[cl[q]], asked[q][i])
        /\ op[q] = "create" /\ pc[q] = "ok" => bke[cl[q]] # Absent
    BY <1>8 DEF Progress, Provided
  <2>3. nodes'[cl[q]] = nodes[cl[q]]
    <3>1. cl[q] = c => UNCHANGED nodes
      BY <1>6, <2>1
    <3> QED BY <1>1, <1>6, <3>1 DEF Typed, TypeOK
  <2>4. \A i \in Behind(q) : Has(nodes'[cl[q]], asked[q][i])
    BY <1>2, <2>2, <2>3
  <2> QED BY <1>5, <2>1, <2>2, <2>4
<1>11. Dropped'
  <2> SUFFICES ASSUME NEW q \in Requests, op[q] = "scaleDown", ~undone'[q], ~failed'[q],
                      NEW i \in Behind(q)'
               PROVE  ~Has(nodes'[cl[q]], asked[q][i])
    BY <1>2 DEF Dropped
  <2>1. cl[q] \in Clusters /\ ~failed[q] /\ ~undone[q]
    BY <1>4, <1>8 DEF Typed, TypeOK
  <2>2. CASE i \in Behind(q)
    <3>1. ~Has(nodes[cl[q]], asked[q][i])
      BY <2>1, <2>2 DEF Progress, Dropped
    <3> QED BY <1>2, <1>7, <2>1, <3>1
  <2>3. CASE q = r /\ asked[r][i] = n
    BY <1>2, <1>4, <1>7, <2>3
  <2> QED BY <1>3, <2>2, <2>3
<1> QED BY <1>3, <1>9, <1>10, <1>11 DEF Progress

LEMMA ReapProgress ==
    ASSUME Typed, Progress, NEW c \in Clusters, Reap(c) PROVE Progress'
<1> USE DEF request
<1>1. /\ UNCHANGED <<pc, op, cl, asked, todo, failed>>
      /\ bke' = [bke EXCEPT ![c] = Absent]
      /\ nodes' = [nodes EXCEPT ![c] = {}]
      /\ undone' = [r \in Requests |-> undone[r] \/ cl[r] = c]
  BY DEF Reap, PutCluster, local
<1>2. Suffixed' /\ Finished'
  BY <1>1 DEF Progress, Suffixed, Finished
<1>3. \A q \in Requests : ~undone'[q] =>
        /\ ~undone[q]
        /\ nodes'[cl[q]] = nodes[cl[q]] /\ bke'[cl[q]] = bke[cl[q]]
  BY <1>1 DEF Typed, TypeOK
<1>4. Provided'
  BY <1>1, <1>3 DEF Progress, Provided, Behind
<1>5. Dropped'
  BY <1>1, <1>3 DEF Progress, Dropped, Behind
<1> QED BY <1>2, <1>4, <1>5 DEF Progress

LEMMA NextProgress == Typed /\ Progress /\ [Next]_vars => Progress'
<1> SUFFICES ASSUME Typed, Progress, [Next]_vars PROVE Progress'
  OBVIOUS
<1> USE DEF objects, request, local
<1>0. /\ pc \in [Requests -> Active \cup Rest]
      /\ bke \in [Clusters -> Cluster \cup {Absent}]
      /\ \A r \in Requests : cl[r] \in Clusters
  BY DEF Typed, TypeOK
<1>1. ASSUME NEW r \in Requests,
             \/ Discover(r) \/ PatchCluster(r) \/ CheckNamespace(r) \/ AddNodeRefused(r)
             \/ GetForDelete(r) \/ DiscoverFails(r) \/ CheckNamespaceFails(r) \/ Abort(r)
      PROVE  Progress'
  <2>1. UNCHANGED <<nodes, request, todo, failed, undone, bke>>
    BY <1>1 DEF Discover, PatchCluster, CheckNamespace, AddNodeRefused,
       GetForDelete, DiscoverFails, CheckNamespaceFails, Abort
  <2>2. \A q \in Requests : pc'[q] = "ok" => pc[q] = "ok"
    BY <1>0, <1>1 DEF Discover, PatchCluster, CheckNamespace, AddNodeRefused,
       GetForDelete, DiscoverFails, CheckNamespaceFails, Abort, Goto, NextDocument
  <2> QED BY <2>1, <2>2, QuietProgress
<1>2. CASE Die
  BY <1>2, QuietProgress DEF Die, Active
<1>3. ASSUME NEW r \in Requests, MakeNamespace(r) PROVE Progress'
  <2>1. CASE Goto(r, "make") /\ UNCHANGED <<bke, nodes, request, local, undone>>
    BY <1>0, <2>1, QuietProgress DEF Goto
  <2> QED BY <1>2, <1>3, <2>1 DEF MakeNamespace
<1>4. ASSUME NEW r \in Requests, MakeCluster(r) \/ WriteReset(r) \/ SetVersion(r)
      PROVE  Progress'
  <2>1. UNCHANGED <<nodes, request, todo, failed, undone>>
    BY <1>4 DEF MakeCluster, WriteReset, SetVersion
  <2>2. \A c \in Clusters : bke[c] # Absent => bke'[c] # Absent
    <3>1. CASE MakeCluster(r)
      BY <1>0, <3>1 DEF MakeCluster, PutCluster
    <3>2. CASE WriteReset(r)
      <4>1. CASE r \in fresh
        <5>1. [bke[cl[r]] EXCEPT !.reset = TRUE] # Absent
          BY <3>2, <4>1, WriteResetEffect, AbsentAssumption DEF Cluster
        <5> QED BY <1>0, <3>2, <4>1, <5>1, WriteResetEffect DEF PutCluster
      <4>2. CASE r \notin fresh
        BY <3>2, <4>2 DEF WriteReset
      <4> QED BY <4>1, <4>2
    <3>3. CASE SetVersion(r)
      <4>1. CASE bke[cl[r]] # Absent
        <5>1. [bke[cl[r]] EXCEPT !.ver = ver[r]] # Absent
          BY <1>0, <4>1, AbsentAssumption DEF Typed, TypeOK, Cluster
        <5>2. bke' = [bke EXCEPT ![cl[r]] = [bke[cl[r]] EXCEPT !.ver = ver[r]]]
          BY <3>3, <4>1 DEF SetVersion, PutCluster
        <5> QED BY <1>0, <4>1, <5>1, <5>2
      <4>2. CASE bke[cl[r]] = Absent
        BY <3>3, <4>2 DEF SetVersion
      <4> QED BY <4>1, <4>2
    <3> QED BY <1>4, <3>1, <3>2, <3>3
  <2>3. \A q \in Requests : pc'[q] = "ok" =>
          \/ pc[q] = "ok" \/ op[q] \in {"delete", "upgrade"}
          \/ op[q] = "create" /\ todo[q] = <<>> /\ bke'[cl[q]] # Absent
    <3>1. CASE MakeCluster(r)
      <4>1. op[r] = "create" /\ todo[r] = <<>>
        BY <3>1 DEF MakeCluster, At, Typed, Placed
      <4>2. bke'[cl[r]] # Absent
        <5>1. [ver |-> ver[r], reset |-> FALSE] # Absent
          <6>1. ver[r] \in Versions
            BY DEF Typed, TypeOK
          <6>2. [ver |-> ver[r], reset |-> FALSE] \in Cluster
            BY <6>1 DEF Cluster
          <6> QED BY <6>2, AbsentAssumption
        <5>2. CASE bke[cl[r]] = Absent
          <6>1. bke' = [bke EXCEPT ![cl[r]] = [ver |-> ver[r], reset |-> FALSE]]
            BY <3>1, <5>2 DEF MakeCluster, PutCluster
          <6> QED BY <1>0, <5>1, <6>1
        <5>3. CASE bke[cl[r]] # Absent
          BY <3>1, <5>3 DEF MakeCluster
        <5> QED BY <5>2, <5>3
      <4> QED BY <1>0, <3>1, <4>1, <4>2 DEF MakeCluster, Goto
    <3>2. CASE WriteReset(r)
      BY <1>0, <3>2 DEF WriteReset, At, Goto, Typed, Placed
    <3>3. CASE SetVersion(r)
      BY <1>0, <3>3 DEF SetVersion, At, Goto, Typed, Placed
    <3> QED BY <1>4, <3>1, <3>2, <3>3
  <2> QED BY <2>1, <2>2, <2>3, QuietProgress
<1>5. ASSUME NEW r \in Requests, Begin(r) \/ Handle(r) PROVE Progress'
  BY <1>1, <1>3, <1>4, <1>5, BeginProgress, PutNodeProgress, DropNodeProgress
     DEF Handle, Create
<1>6. ASSUME NEW r \in Requests, CallFails(r) PROVE Progress'
  BY <1>1, <1>2, <1>6, DropNodeProgress DEF CallFails, MakeNamespaceFails
<1>7. ASSUME NEW c \in Clusters, Reconcile(c) \/ Reap(c) PROVE Progress'
  BY <1>7, QuietProgress, ReapProgress DEF Reconcile
<1>8. CASE Restart \/ UNCHANGED vars
  BY <1>8, QuietProgress DEF Restart, vars
<1> QED BY <1>2, <1>5, <1>6, <1>7, <1>8 DEF Next, ReliableNext, Kill

LEMMA AlwaysProgress == Spec => [](Typed /\ Progress)
BY InitTyped, InitProgress, NextTyped, NextProgress, PTL DEF Spec

(* When no node is left, the whole list is behind.                          *)
LEMMA AllBehind ==
    ASSUME Typed, NEW r \in Requests, todo[r] = <<>>
    PROVE  DOMAIN asked[r] = Behind(r)
<1>1. asked[r] \in Seq(Nodes) /\ Len(todo[r]) = 0
  BY DEF Typed, TypeOK
<1>2. Len(asked[r]) \in Nat /\ DOMAIN asked[r] = 1 .. Len(asked[r])
  BY <1>1
<1> QED BY <1>1, <1>2 DEF Behind

LEMMA ProvidedAll ==
    ASSUME Typed, Progress, NEW r \in Requests, todo[r] = <<>>, ~undone[r],
           op[r] \in {"create", "scaleUp"}
    PROVE  AllThere(r)
<1>1. \A i \in DOMAIN asked[r] : Has(nodes[cl[r]], asked[r][i])
  BY AllBehind DEF Progress, Provided
<1> QED BY <1>1 DEF AllThere, Exists, Named, Has

(* Every node of a create or scale-up that succeeded exists, and so does    *)
(* the cluster of the create, unless somebody removes them: for any number  *)
(* of requests, clusters and nodes, with failures, kills and restarts.      *)
THEOREM AckedCreate == Spec => []AckedCreateComplete
<1>1. Typed /\ Progress => AckedCreateComplete
  BY ProvidedAll DEF AckedCreateComplete, At, Progress, Finished, Provided
<1> QED BY <1>1, AlwaysProgress, PTL

(* None of the nodes of a scale-down that succeeded exists, unless somebody *)
(* creates it again.                                                        *)
THEOREM AckedScaleDown == Spec => []AckedScaleDownComplete
<1>1. ASSUME Typed, Progress PROVE AckedScaleDownComplete
  <2> SUFFICES ASSUME NEW r \in Requests, op[r] = "scaleDown", pc[r] = "ok", ~undone[r],
                      NEW i \in DOMAIN asked[r]
               PROVE  ~Exists(cl[r], asked[r][i])
    BY DEF AckedScaleDownComplete, At
  <2>1. todo[r] = <<>> /\ ~failed[r]
    BY <1>1 DEF Progress, Finished
  <2>2. i \in Behind(r)
    BY <1>1, <2>1, AllBehind
  <2>3. ~Has(nodes[cl[r]], asked[r][i])
    BY <1>1, <2>1, <2>2 DEF Progress, Dropped
  <2> QED BY <2>3 DEF Exists, Named, Has
<1> QED BY <1>1, AlwaysProgress, PTL

(* The BKE controller never sees a cluster before the nodes it is created   *)
(* with.                                                                    *)
THEOREM NodesFirst == Spec => ClusterAfterNodes
<1>1. Typed /\ Progress =>
        [\A r \in Requests :
            /\ At(r, "make") /\ todo[r] = <<>> /\ ~undone[r]
            /\ bke[cl[r]] = Absent /\ bke'[cl[r]] # Absent
            => AllThere(r)]_vars
  BY ProvidedAll DEF At, Typed, Placed
<1> QED BY <1>1, AlwaysProgress, PTL DEF Spec, ClusterAfterNodes
=============================================================================
