------------------------- MODULE ClusterStatusProofs -------------------------
(***************************************************************************)
(* What is proved of ClusterStatus, for any requests and clusters, while    *)
(* the clusters come and go: its typing, and that an item of a listing      *)
(* counts the nodes of its own cluster.                                     *)
(***************************************************************************)
EXTENDS ClusterStatus, TLAPS

(* A sum is of the cluster in hand or none; only a listing, between two     *)
(* items, still has that of the one before.                                 *)
Sums ==
    \A r \in Requests :
        IF pc[r] \in {"nodes", "held"} THEN sum[r] \in {None, cl[r]}
        ELSE pc[r] # "item" => sum[r] = None

(* What every operation starts from and ends with.                          *)
LEMMA ReturnKept ==
    ASSUME TypeOK, Sums, NEW r \in Requests, NEW result \in Rest, Return(r, result)
    PROVE  TypeOK' /\ Sums'
<1>1. TypeOK'
  BY DEF TypeOK, Return, Goto, Rest
<1>2. Sums'
  BY DEF TypeOK, Sums, Return, Goto, Rest
<1> QED BY <1>1, <1>2

LEMMA BeginKept ==
    ASSUME TypeOK, Sums, NEW r \in Requests, Begin(r)
    PROVE  TypeOK' /\ Sums'
<1>1. PICK o \in Ops, c \in Clusters :
          /\ op' = [op EXCEPT ![r] = o]
          /\ cl' = [cl EXCEPT ![r] = IF o = "list" THEN None ELSE c]
          /\ Goto(r, IF o = "list" THEN "list" ELSE "get")
  BY DEF Begin
<1>2. pc[r] \in Rest /\ UNCHANGED <<procs, listed, keys, left, sum>>
  BY DEF Begin
<1>3. TypeOK'
  BY <1>1, <1>2, NoneAssumption DEF TypeOK, Goto, Active
<1>4. Sums'
  BY <1>1, <1>2 DEF TypeOK, Sums, Goto, Rest
<1> QED BY <1>3, <1>4

LEMMA HandleKept ==
    ASSUME TypeOK, Sums, NEW r \in Requests, Handle(r)
    PROVE  TypeOK' /\ Sums'
<1> USE DEF At, Goto, request
<1>1. CASE List(r)
  <2>1. Standing \in SUBSET Clusters
    BY DEF Standing
  <2>2. TypeOK'
    BY <1>1, <2>1 DEF List, TypeOK, Active
  <2>3. Sums'
    BY <1>1 DEF List, TypeOK, Sums
  <2> QED BY <2>2, <2>3
<1>2. CASE Sweep(r)
  <2>1. PICK c \in keys[r] :
            /\ keys' = [keys EXCEPT ![r] = @ \ {c}]
            /\ procs' = IF c \in listed[r] THEN procs ELSE procs \ {c}
    BY <1>2 DEF Sweep
  <2>2. TypeOK'
    BY <1>2, <2>1 DEF Sweep, TypeOK
  <2>3. Sums'
    BY <1>2 DEF Sweep, Sums
  <2> QED BY <2>2, <2>3
<1>3. CASE Swept(r)
  <2>1. TypeOK'
    BY <1>3 DEF Swept, TypeOK, Active
  <2>2. Sums'
    BY <1>3 DEF Swept, TypeOK, Sums
  <2> QED BY <2>1, <2>2
<1>4. CASE Item(r)
  <2>1. PICK c \in left[r] :
            /\ cl' = [cl EXCEPT ![r] = c]
            /\ left' = [left EXCEPT ![r] = @ \ {c}]
            /\ sum' = [sum EXCEPT ![r] = None]
            /\ procs' = procs \cup {c}
    BY <1>4 DEF Item
  <2>2. c \in Clusters /\ c # None
    BY NoneAssumption DEF TypeOK
  <2>3. TypeOK'
    BY <1>4, <2>1, <2>2 DEF Item, TypeOK, Active
  <2>4. Sums'
    BY <1>4, <2>1 DEF Item, TypeOK, Sums
  <2> QED BY <2>3, <2>4
<1>5. CASE Count(r)
  <2>1. TypeOK'
    BY <1>5 DEF Count, TypeOK, Active, Rest
  <2>2. Sums'
    BY <1>5 DEF Count, TypeOK, Sums
  <2> QED BY <2>1, <2>2
<1>6. CASE Listed(r)
  BY <1>6, ReturnKept DEF Listed, Rest
<1>7. CASE Get(r) \/ IsHA(r)
  <2>1. TypeOK'
    BY <1>7 DEF Get, IsHA, TypeOK, Active, Rest
  <2>2. Sums'
    BY <1>7 DEF Get, IsHA, TypeOK, Sums
  <2> QED BY <2>1, <2>2
<1>8. CASE Keep(r)
  <2>1. cl[r] \in Clusters
    BY <1>8 DEF Keep, TypeOK, Rest
  <2>2. TypeOK'
    BY <1>8, <2>1 DEF Keep, TypeOK, Active, Rest
  <2>3. Sums'
    BY <1>8 DEF Keep, TypeOK, Sums
  <2> QED BY <2>2, <2>3
<1>9. CASE GetNodes(r)
  <2>1. CASE op[r] = "list"
    <3>1. pc' = [pc EXCEPT ![r] = "item"] /\ UNCHANGED <<procs, op, cl, listed, keys, left, sum>>
      BY <1>9, <2>1 DEF GetNodes
    <3>2. TypeOK'
      BY <3>1 DEF TypeOK, Active
    <3>3. Sums'
      BY <3>1 DEF TypeOK, Sums
    <3> QED BY <3>2, <3>3
  <2>2. CASE op[r] # "list"
    BY <1>9, <2>2, ReturnKept DEF GetNodes, Rest
  <2> QED BY <2>1, <2>2
<1>10. CASE MarkCluster(r)
  <2>1. TypeOK'
    BY <1>10 DEF MarkCluster, TypeOK, Active, Rest
  <2>2. Sums'
    BY <1>10 DEF MarkCluster, TypeOK, Sums
  <2> QED BY <2>1, <2>2
<1>11. CASE Drop(r)
  <2>1. TypeOK'
    BY <1>11 DEF Drop, TypeOK, Rest
  <2>2. Sums'
    BY <1>11 DEF Drop, TypeOK, Sums
  <2> QED BY <2>1, <2>2
<1>12. CASE Refused(r)
  BY <1>12, ReturnKept DEF Refused, Rest
<1> QED BY <1>1, <1>2, <1>3, <1>4, <1>5, <1>6, <1>7, <1>8, <1>9, <1>10, <1>11, <1>12 DEF Handle

LEMMA InvInvariant == Spec => [](TypeOK /\ Sums)
<1>1. Init => TypeOK /\ Sums
  BY DEF Init, TypeOK, Sums, Ops, Rest
<1>2. TypeOK /\ Sums /\ [Next]_vars => TypeOK' /\ Sums'
  <2> SUFFICES ASSUME TypeOK, Sums, [Next]_vars
               PROVE  TypeOK' /\ Sums'
    OBVIOUS
  <2>1. CASE Elsewhere \/ UNCHANGED vars
    <3>1. UNCHANGED <<procs, pc, op, cl, listed, keys, left, sum>>
      BY <2>1 DEF Elsewhere, vars, request
    <3> QED BY <3>1 DEF TypeOK, Sums
  <2>2. ASSUME NEW r \in Requests, Begin(r) \/ Handle(r)
        PROVE  TypeOK' /\ Sums'
    BY <2>2, BeginKept, HandleKept
  <2>3. ASSUME NEW r \in Requests, Hold(r)
        PROVE  TypeOK' /\ Sums'
    <3>1. TypeOK'
      BY <2>3 DEF Hold, At, Goto, request, TypeOK, Active, Rest
    <3>2. Sums'
      BY <2>3 DEF Hold, At, Goto, request, TypeOK, Sums
    <3> QED BY <3>1, <3>2
  <2> QED BY <2>1, <2>2, <2>3 DEF Next
<1> QED BY <1>1, <1>2, PTL DEF Spec

-----------------------------------------------------------------------------
(* THEOREMS                                                                 *)

(* The types, and that a request has a cluster in hand wherever it uses one.*)
THEOREM TypeCorrect == Spec => []TypeOK
BY InvInvariant, PTL

(* The nodes shown for a cluster that GetNodes fails for are its own.       *)
THEOREM OwnNodesCounted == Spec => []CountsOwnNodes
<1>1. Sums => CountsOwnNodes
  BY DEF Sums, CountsOwnNodes
<1> QED BY <1>1, InvInvariant, PTL
=============================================================================
