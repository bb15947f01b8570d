-------------------------- MODULE NodeJudgeProofs --------------------------
(***************************************************************************)
(* What is proved of NodeJudge, for any clusters, machines, names,          *)
(* addresses and requests, while clusters and nodes come and go, answer and *)
(* fall silent between the reads of a validation: what it accepts is free.  *)
(***************************************************************************)
EXTENDS NodeJudge, TLAPS

AddressesFree ==
    /\ \A i, j \in DOMAIN asked : i # j => AddressOf[asked[i]] # AddressOf[asked[j]]
    /\ \A p \in shown : p[1] \in standing =>
          \A n \in Asked : AddressOf[n] # AddressOf[p[2]]
NamesFree ==
    /\ \A i, j \in DOMAIN asked : i # j => NameOf[asked[i]] # NameOf[asked[j]]
    /\ \A p \in shown : p[1] = own =>
          \A n \in Asked : NameOf[n] # NameOf[p[2]]

Places ==
    /\ asked \in Seq(Nodes)
    /\ pc \in Active \cup Rest
    /\ phase \in {"addresses", "names"}
    /\ pc \in {"clusters"} \cup Rest => phase = "addresses"
    /\ pc \in {"probe", "balance"} => phase = "names"
    /\ pc = "local" => at \in left

(* The history is what it says: it has existed, and can be seen, now too.   *)
Kept == pc \in Active => standing \subseteq Standing /\ shown \subseteq Shown

(* What could be seen all the while has been collected, or is of a cluster  *)
(* still to be read, whichever way it will be read: that is why Shown asks  *)
(* for both.                                                                *)
Reading == {"remote", "local"}
Collected(p) == p[1] \in left \/ p[2] \in seen
CollectedAll ==
    pc \in Reading =>
        /\ phase = "addresses" => \A p \in shown : p[1] \in standing => Collected(p)
        /\ phase = "names" => \A p \in shown : p[1] = own => Collected(p)

(* What has been compared stays free, for the history only shrinks.         *)
Compared ==
    /\ phase = "names" => AddressesFree
    /\ pc \in {"probe", "balance"} => NamesFree

Inv == Places /\ Kept /\ CollectedAll /\ Compared

-----------------------------------------------------------------------------
(* A comparison without a clash, of lists of keys.                          *)
LEMMA NoClash ==
    ASSUME asked \in Seq(Nodes), ~Clash
    PROVE  /\ \A i, j \in DOMAIN asked : i # j => KeyOf(asked[i]) # KeyOf(asked[j])
           /\ \A n \in Asked, m \in seen : KeyOf(n) # KeyOf(m)
<1>1. \A i \in DOMAIN asked, m \in seen : KeyOf(m) # KeyOf(asked[i])
  BY DEF Clash
<1>2. \A i \in DOMAIN asked : \A j \in 1..i - 1 : KeyOf(asked[j]) # KeyOf(asked[i])
  BY DEF Clash
<1>3. DOMAIN asked = 1..Len(asked) /\ Len(asked) \in Nat
  OBVIOUS
<1>4. ASSUME NEW i \in DOMAIN asked, NEW j \in DOMAIN asked, i # j
      PROVE  KeyOf(asked[i]) # KeyOf(asked[j])
  <2>1. j \in 1..i - 1 \/ i \in 1..j - 1
    BY <1>3, <1>4
  <2> QED BY <1>2, <2>1
<1> QED BY <1>1, <1>4 DEF Asked

(* The clusters move, and the history shrinks.                              *)
LEMMA Elsewhere ==
    ASSUME Inv, UNCHANGED judge, Lasting
    PROVE  Inv'
<1>1. Places'
  BY DEF Inv, Places, judge
<1>2. CASE pc \in Active
  <2>1. /\ standing' \subseteq standing /\ standing' \subseteq Standing'
        /\ shown' \subseteq shown /\ shown' \subseteq Shown'
    BY <1>2 DEF Lasting
  <2>2. Kept'
    BY <2>1 DEF Kept
  <2>3. CollectedAll'
    BY <2>1 DEF Inv, CollectedAll, Collected, judge
  <2>4. Compared'
    BY <2>1 DEF Inv, Compared, AddressesFree, NamesFree, Asked, judge
  <2> QED BY <1>1, <2>2, <2>3, <2>4 DEF Inv
<1>3. CASE pc \notin Active
  <2>1. UNCHANGED history /\ pc' \notin Active
    BY <1>3 DEF Lasting, judge
  <2>2. Kept'
    BY <2>1 DEF Kept
  <2>3. CollectedAll'
    BY <2>1 DEF CollectedAll, Reading, Active
  <2>4. Compared'
    BY <2>1 DEF Inv, Compared, AddressesFree, NamesFree, Asked, judge, history
  <2> QED BY <1>1, <2>2, <2>3, <2>4 DEF Inv
<1> QED BY <1>2, <1>3

(* An answer leaves nothing to be kept.                                     *)
LEMMA Answered ==
    ASSUME Inv, NEW result \in Rest, Return(result)
    PROVE  Inv'
<1>1. Places'
  BY DEF Inv, Places, Return, Rest
<1>2. Kept' /\ CollectedAll' /\ Compared'
  BY DEF Kept, CollectedAll, Compared, Return, Rest, Active, Reading
<1> QED BY <1>1, <1>2 DEF Inv

LEMMA BeginKept ==
    ASSUME Inv, Begin
    PROVE  Inv'
<1>1. Places'
  BY NodeListsAssumption DEF Inv, Places, Begin, Active
<1>2. Kept'
  BY DEF Kept, Begin, Standing, Shown, store, cluster
<1>3. CollectedAll' /\ Compared'
  BY DEF Inv, Places, CollectedAll, Compared, Begin, Reading
<1> QED BY <1>1, <1>2, <1>3 DEF Inv

-----------------------------------------------------------------------------
(* The steps of the validation.  They leave the clusters alone.             *)

LEMMA ListClustersKept ==
    ASSUME Inv, ListClusters, UNCHANGED <<store, cluster>>
    PROVE  Inv'
<1>1. CASE Return("error")
  BY <1>1, Answered DEF Rest
<1>2. CASE pc' = "remote" /\ left' = Standing /\ UNCHANGED <<asked, own, phase, at, seen, history>>
  <2> USE DEF history
  <2>1. pc = "clusters" /\ phase = "addresses" /\ standing \subseteq Standing
    BY DEF ListClusters, Inv, Places, Kept, Active
  <2>2. Places'
    BY <1>2, <2>1 DEF Inv, Places, Active
  <2>3. Kept'
    BY <1>2, <2>1 DEF Inv, Kept, Active, Standing, Shown, store, cluster
  <2>4. CollectedAll'
    BY <1>2, <2>1 DEF CollectedAll, Collected, Reading
  <2>5. Compared'
    BY <1>2, <2>1 DEF Compared
  <2> QED BY <2>2, <2>3, <2>4, <2>5 DEF Inv
<1> QED BY <1>1, <1>2 DEF ListClusters

(* A read leaves nothing to be seen behind: what its cluster lists has been *)
(* collected, or is no longer of the history.                               *)
LEMMA ReadKept ==
    ASSUME Inv, UNCHANGED <<store, cluster, asked, own, phase>>,
           pc \in Reading, pc' \in Reading, pc' = "local" => at' \in left',
           standing' \subseteq standing, shown' \subseteq shown,
           \A p \in shown' : p[1] \in standing' \/ phase = "names" =>
               (Collected(p) => Collected(p)')
    PROVE  Inv'
<1>1. Places'
  BY DEF Inv, Places, Reading, Active, Rest
<1>2. Kept'
  BY DEF Inv, Kept, Reading, Active, Standing, Shown, store, cluster
<1>3. CollectedAll'
  BY DEF Inv, CollectedAll
<1>4. Compared'
  BY DEF Inv, Compared, AddressesFree, NamesFree, Asked, Reading
<1> QED BY <1>1, <1>2, <1>3, <1>4 DEF Inv

LEMMA ReadRemoteKept ==
    ASSUME Inv, ReadRemote, UNCHANGED <<store, cluster>>
    PROVE  Inv'
<1>1. /\ pc = "remote" /\ UNCHANGED <<asked, own, phase, standing, shown>>
      /\ shown \subseteq Shown
  BY DEF ReadRemote, history, Inv, Kept, Active
<1>2. PICK c \in left :
          \/ /\ c \in reach /\ bke[c] # Absent
             /\ seen' = seen \cup joined[c] /\ left' = left \ {c}
             /\ UNCHANGED <<pc, at>>
          \/ /\ pc' = "local" /\ at' = c
             /\ UNCHANGED <<seen, left>>
  BY DEF ReadRemote
<1>3. ASSUME NEW p \in shown, Collected(p)
      PROVE  Collected(p)'
  <2>1. p[1] \in reach => p[2] \in joined[p[1]]
    BY <1>1 DEF Shown
  <2> QED BY <1>2, <1>3, <2>1 DEF Collected
<1> QED BY <1>1, <1>2, <1>3, ReadKept DEF Reading

LEMMA ReadLocalKept ==
    ASSUME Inv, ReadLocal, UNCHANGED <<store, cluster>>
    PROVE  Inv'
<1>1. /\ pc = "local" /\ pc' = "remote" /\ left' = left \ {at}
      /\ UNCHANGED <<asked, own, phase>> /\ shown \subseteq Shown
  BY DEF ReadLocal, Inv, Kept, Active
<1>2. \/ seen' = seen \cup nodes[at] /\ UNCHANGED <<standing, shown>>
      \/ /\ standing' = standing \ {at} /\ shown' = {p \in shown : p[1] # at}
         /\ UNCHANGED seen
  BY DEF ReadLocal, history
<1>3. ASSUME NEW p \in shown', Collected(p)
      PROVE  Collected(p)'
  <2>1. p[2] \in nodes[p[1]]
    BY <1>1, <1>2 DEF Shown
  <2> QED BY <1>1, <1>2, <1>3, <2>1 DEF Collected
<1> QED BY <1>1, <1>2, <1>3, ReadKept DEF Reading

(* When nothing is left to be read, what has been seen is all there was to  *)
(* see, and a comparison with it settles the matter.                        *)
LEMMA CompareKept ==
    ASSUME Inv, Compare, UNCHANGED <<store, cluster>>
    PROVE  Inv'
<1>1. CASE Return("refused")
  BY <1>1, Answered DEF Rest
<1>2. CASE ~Clash /\ ~Return("refused")
  <2>1. /\ pc = "remote" /\ left = {} /\ asked \in Seq(Nodes)
        /\ UNCHANGED <<asked, own, at, standing, shown>>
        /\ IF phase = "addresses"
           THEN phase' = "names" /\ left' = {own} /\ seen' = {} /\ UNCHANGED pc
           ELSE pc' = "probe" /\ UNCHANGED <<phase, left, seen>>
    BY <1>2 DEF Compare, history, Inv, Places
  <2>2. Kept'
    BY <2>1 DEF Inv, Kept, Active, Standing, Shown, store, cluster
  <2>3. CASE phase = "addresses"
    <3>a. /\ \A i, j \in DOMAIN asked : i # j => AddressOf[asked[i]] # AddressOf[asked[j]]
          /\ \A n \in Asked, m \in seen : AddressOf[n] # AddressOf[m]
      BY <1>2, <2>1, <2>3, NoClash DEF KeyOf
    <3>b. \A p \in shown : p[1] \in standing => p[2] \in seen
      BY <2>1, <2>3 DEF Inv, CollectedAll, Collected, Reading
    <3>1. AddressesFree
      BY <3>a, <3>b DEF AddressesFree
    <3>2. Places'
      BY <2>1, <2>3 DEF Inv, Places, Rest
    <3>3. CollectedAll'
      BY <2>1, <2>3 DEF CollectedAll, Collected
    <3>4. Compared'
      BY <2>1, <2>3, <3>1 DEF Compared, AddressesFree, Asked
    <3> QED BY <2>2, <3>2, <3>3, <3>4 DEF Inv
  <2>4. CASE phase = "names"
    <3>a. /\ \A i, j \in DOMAIN asked : i # j => NameOf[asked[i]] # NameOf[asked[j]]
          /\ \A n \in Asked, m \in seen : NameOf[n] # NameOf[m]
      BY <1>2, <2>1, <2>4, NoClash DEF KeyOf
    <3>b. \A p \in shown : p[1] = own => p[2] \in seen
      BY <2>1, <2>4 DEF Inv, CollectedAll, Collected, Reading
    <3>c. \A p \in shown : p[1] = own => \A n \in Asked : NameOf[n] # NameOf[p[2]]
      BY <3>a, <3>b
    <3>1. NamesFree
      BY <3>a, <3>c DEF NamesFree
    <3>2. Places'
      BY <2>1, <2>4 DEF Inv, Places, Rest, Active
    <3>3. CollectedAll'
      BY <2>1, <2>4 DEF CollectedAll, Reading
    <3>4. Compared'
      BY <2>1, <2>4, <3>1 DEF Inv, Compared, AddressesFree, NamesFree, Asked
    <3> QED BY <2>2, <3>2, <3>3, <3>4 DEF Inv
  <2> QED BY <2>3, <2>4 DEF Inv, Places
<1> QED BY <1>1, <1>2 DEF Compare

LEMMA ProbeKept ==
    ASSUME Inv, Probe \/ PingBalancer, UNCHANGED <<store, cluster>>
    PROVE  Inv'
<1>1. CASE Return("ok") \/ Return("refused")
  BY <1>1, Answered DEF Rest
<1>2. CASE /\ pc = "probe" /\ pc' = "balance"
           /\ UNCHANGED <<asked, own, phase, left, at, seen, history>>
  <2> USE <1>2 DEF history
  <2>1. Places'
    BY DEF Inv, Places, Active, Rest
  <2>2. Kept'
    BY DEF Inv, Kept, Active, Standing, Shown, store, cluster
  <2>3. CollectedAll'
    BY DEF CollectedAll, Reading
  <2>4. Compared'
    BY DEF Inv, Compared, AddressesFree, NamesFree, Asked
  <2> QED BY <2>1, <2>2, <2>3, <2>4 DEF Inv
<1> QED BY <1>1, <1>2 DEF Probe, PingBalancer

-----------------------------------------------------------------------------
(* THEOREMS                                                                 *)

LEMMA StepKept ==
    ASSUME Inv, [Next]_vars
    PROVE  Inv'
<1>1. CASE Begin
  BY <1>1, BeginKept
<1>2. CASE Judge
  BY <1>2, ListClustersKept, ReadRemoteKept, ReadLocalKept, CompareKept, ProbeKept DEF Judge
<1>3. CASE ClusterMoves \/ StoreMoves
  BY <1>3, Elsewhere DEF ClusterMoves, StoreMoves
<1>4. CASE UNCHANGED vars
  <2>1. UNCHANGED <<store, cluster, judge, history>>
    BY <1>4 DEF vars
  <2>2. Places' /\ CollectedAll' /\ Compared'
    BY <2>1 DEF Inv, Places, CollectedAll, Collected, Compared, AddressesFree, NamesFree, Asked,
                judge, history
  <2>3. Kept'
    BY <2>1 DEF Inv, Kept, Standing, Shown, store, cluster, judge, history
  <2> QED BY <2>2, <2>3 DEF Inv
<1> QED BY <1>1, <1>2, <1>3, <1>4 DEF Next

LEMMA InvInvariant == Spec => []Inv
<1>1. Init => Inv
  <2> SUFFICES ASSUME Init PROVE Inv
    OBVIOUS
  <2>1. asked \in Seq(Nodes)
    BY DEF Init
  <2> QED BY <2>1 DEF Init, Inv, Places, Kept, CollectedAll, Compared, Active, Rest, Reading
<1>2. Inv /\ [Next]_vars => Inv'
  BY StepKept
<1> QED BY <1>1, <1>2, PTL DEF Spec

(* A validation answers ok only from where both comparisons are behind it.  *)
LEMMA AcceptedFree ==
    ASSUME Inv, [Next]_vars, Accept
    PROVE  AddressesFree /\ NamesFree
<1>1. pc \in {"probe", "balance"}
  BY DEF Accept, Next, Begin, Judge, ListClusters, ReadRemote, ReadLocal, Compare, Probe,
         PingBalancer, Return, ClusterMoves, StoreMoves, vars, judge
<1> QED BY <1>1 DEF Inv, Places, Compared

(* What is accepted has no address twice and none of a node that could be   *)
(* seen all the while, on whichever path each cluster was read.             *)
THEOREM AddressesAccepted == Spec => AcceptedAddressesFree
<1>1. Inv /\ [Next]_vars =>
          (Accept =>
              /\ \A i, j \in DOMAIN asked : i # j => AddressOf[asked[i]] # AddressOf[asked[j]]
              /\ \A p \in shown : p[1] \in standing =>
                    \A n \in Asked : AddressOf[n] # AddressOf[p[2]])
  BY AcceptedFree DEF AddressesFree
<1> QED BY <1>1, InvInvariant, PTL DEF Spec, AcceptedAddressesFree

(* ... and no name twice, and none of such a node of its own cluster.       *)
THEOREM NamesAccepted == Spec => AcceptedNamesFree
<1>1. Inv /\ [Next]_vars =>
          (Accept =>
              /\ \A i, j \in DOMAIN asked : i # j => NameOf[asked[i]] # NameOf[asked[j]]
              /\ \A p \in shown : p[1] = own =>
                    \A n \in Asked : NameOf[n] # NameOf[p[2]])
  BY AcceptedFree DEF NamesFree
<1> QED BY <1>1, InvInvariant, PTL DEF Spec, AcceptedNamesFree
=============================================================================
