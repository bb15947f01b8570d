------------------------- MODULE PatchCatalogProofs -------------------------
(***************************************************************************)
(* What is proved of PatchCatalog, for any requests, versions, files and    *)
(* remote repository: its typing and the argument that the resourceVersion  *)
(* check keeps a listing from dropping entries it never read.               *)
(***************************************************************************)
EXTENDS PatchCatalog, TLAPS

(* A request that stores has an entry in hand, and only an upload has one   *)
(* from the start.  With TypeOK this is inductive: it types Head1 in the    *)
(* actions that use it.                                                     *)
Storing == {"lookup", "delete", "make", "publish"}
Cleaning == {"fetch", "clean", "update"}
Placed ==
    \A r \in Requests :
        /\ pc[r] \in Storing \/ (pc[r] = "read" /\ op[r] = "upload")
            => todo[r] # <<>>
        /\ pc[r] \in Cleaning => op[r] # "upload"
        /\ pc[r] \in {"resolve", "apply"} => op[r] = "create"
Typed == TypeOK /\ Placed

(* An entry in hand names a version and a file. *)
LEMMA HeadEntry ==
    ASSUME TypeOK, NEW r \in Requests, todo[r] # <<>>
    PROVE  /\ Head1(r).ver \in Versions
           /\ Head1(r).file \in Files
           /\ Tail(todo[r]) \in Seq(Entry)
<1>1. todo[r] \in Seq(Entry)
  BY DEF TypeOK
<1>2. Head(todo[r]) \in Entry /\ Tail(todo[r]) \in Seq(Entry)
  BY <1>1
<1> QED BY <1>2 DEF Head1, Entry

(* The versions of a list of entries are versions. *)
LEMMA ListedTyped ==
    ASSUME NEW s \in Seq(Entry)
    PROVE  ListedVersions(s) \in SUBSET Versions
<1>1. \A i \in DOMAIN s : s[i] \in Entry
  OBVIOUS
<1> QED BY <1>1 DEF ListedVersions, Entry

(* Where a request with its list goes next is a place. *)
LEMMA AfterListingTyped ==
    ASSUME NEW r \in Requests, NEW list
    PROVE  /\ AfterListing(r, list) \in {"ok", "resolve", "error"}
           /\ AfterListing(r, list) = "resolve" => op[r] = "create"
BY DEF AfterListing

(* An aborted request keeps the types. *)
LEMMA FailTyped ==
    ASSUME Typed, NEW r \in Requests, Fail(r)
    PROVE  Typed'
<1> USE DEF Typed, TypeOK, Fail, Forget, Goto, shared, call
<1>1. <<>> \in Seq(Entry)
  OBVIOUS
<1>2. TypeOK'
  BY <1>1 DEF Rest
<1>3. Placed'
  BY DEF Placed, Storing, Cleaning
<1> QED BY <1>2, <1>3

(* Every step of a handler keeps the types. *)
LEMMA HandleTyped ==
    ASSUME Typed, NEW r \in Requests, Handle(r)
    PROVE  Typed'
<1> USE DEF At, Goto, shared, call, built
<1>fail. Fail(r) => Typed'
  BY FailTyped
<1>1. CASE ReadForUpload(r)
  <2>1. pc' = [pc EXCEPT ![r] = "error"] \/ pc' = [pc EXCEPT ![r] = "lookup"]
    BY <1>1 DEF ReadForUpload
  <2>2. TypeOK'
    BY <1>1, <2>1 DEF ReadForUpload, Typed, TypeOK, Active, Rest
  <2>3. Placed'
    BY <1>1, <2>1 DEF ReadForUpload, Typed, Placed, Storing, Cleaning, TypeOK
  <2> QED BY <2>2, <2>3 DEF Typed
<1>2. CASE ReadSource(r)
  <2> DEFINE next == IF online THEN "fetch" ELSE AfterListing(r, index)
  <2>1. /\ next \in {"fetch", "ok", "resolve", "error"}
        /\ next = "resolve" => op[r] = "create"
    BY AfterListingTyped
  <2>2. pc' = [pc EXCEPT ![r] = next]
    BY <1>2 DEF ReadSource
  <2> HIDE DEF next
  <2>3. /\ seen' = [seen EXCEPT ![r] = index]
        /\ left' = left \/ left' = [left EXCEPT ![r] = index]
        /\ offered' = offered \/ offered' = [offered EXCEPT ![r] = index]
        /\ fresh' = fresh \/ fresh' = fresh \cup {r}
        /\ op[r] # "upload"
        /\ UNCHANGED <<shared, call, todo, built>>
    BY <1>2 DEF ReadSource
  <2>4. TypeOK'
    BY <2>1, <2>2, <2>3 DEF Typed, TypeOK, Active, Rest
  <2>5. Placed'
    BY <2>1, <2>2, <2>3 DEF Typed, Placed, Storing, Cleaning, TypeOK
  <2> QED BY <2>4, <2>5 DEF Typed
<1>3. CASE FetchIndex(r)
  <2>1. Repo[RemotePath(r)] \in Seq(Entry)
    BY RepoAssumption DEF RemotePath, Paths
  <2>2. TypeOK'
    BY <1>3, <2>1 DEF FetchIndex, Typed, TypeOK, Active
  <2>3. Placed'
    BY <1>3 DEF FetchIndex, Typed, Placed, Storing, Cleaning, TypeOK
  <2> QED BY <2>2, <2>3 DEF Typed
<1>4. CASE CleanOne(r)
  <2>1. PICK v \in left[r] :
          \/ /\ cms' = [cms EXCEPT ![v] = Nothing]
             /\ left' = [left EXCEPT ![r] = @ \ {v}]
             /\ UNCHANGED <<online, index, fresh, pc, call, seen, todo, offered, built>>
          \/ Fail(r)
    BY <1>4 DEF CleanOne
  <2>2. CASE ~Fail(r)
    <3> DEFINE rest == left[r] \ {v}
    <3>0. rest \in SUBSET Versions
      BY DEF Typed, TypeOK
    <3> HIDE DEF rest
    <3>a. cms' = [cms EXCEPT ![v] = Nothing] /\ left' = [left EXCEPT ![r] = rest]
      BY <2>1, <2>2 DEF rest
    <3>1. TypeOK'
      BY <2>1, <2>2, <3>0, <3>a DEF Typed, TypeOK
    <3>2. Placed'
      BY <2>1, <2>2 DEF Typed, Placed
    <3> QED BY <3>1, <3>2 DEF Typed
  <2> QED BY <2>2, <1>fail
<1>5. CASE CleanDone(r)
  <2>1. TypeOK'
    BY <1>5 DEF CleanDone, Typed, TypeOK, Active
  <2>2. Placed'
    BY <1>5 DEF CleanDone, Typed, Placed, Storing, Cleaning, TypeOK
  <2> QED BY <2>1, <2>2 DEF Typed
<1>6. CASE UpdateConfig(r)
  <2>1. CASE Updated(r, {})
    <3> DEFINE list == ListedVersions(todo[r])
               next == NextStore(r, todo[r], list)
    <3>1. list \in SUBSET Versions
      BY ListedTyped DEF Typed, TypeOK
    <3>2. /\ next \in {"lookup", "ok", "resolve", "error"}
          /\ next = "lookup" => todo[r] # <<>>
          /\ next = "resolve" => op[r] = "create"
      BY AfterListingTyped DEF NextStore
    <3> HIDE DEF list, next
    <3>3. /\ index' = {} /\ fresh' \in SUBSET fresh
          /\ offered' = [offered EXCEPT ![r] = list]
          /\ pc' = [pc EXCEPT ![r] = next]
          /\ UNCHANGED <<online, cms, call, seen, left, todo, built>>
      BY <2>1 DEF Updated, list, next
    <3>4. TypeOK'
      BY <3>1, <3>2, <3>3 DEF Typed, TypeOK, Active, Rest
    <3>5. Placed'
      BY <3>2, <3>3 DEF Typed, Placed, Storing, Cleaning, TypeOK
    <3> QED BY <3>4, <3>5 DEF Typed
  <2> QED BY <1>6, <2>1, <1>fail DEF UpdateConfig
<1>7. CASE Lookup(r)
  <2>1. pc' = [pc EXCEPT ![r] = "delete"] \/ pc' = [pc EXCEPT ![r] = "make"]
    BY <1>7 DEF Lookup
  <2>2. TypeOK'
    BY <1>7, <2>1 DEF Lookup, Typed, TypeOK, Active
  <2>3. Placed'
    BY <1>7, <2>1 DEF Lookup, Typed, Placed, Storing, Cleaning, TypeOK
  <2> QED BY <2>2, <2>3 DEF Typed
<1>8. CASE DeleteOld(r)
  <2>1. CASE ~Fail(r)
    <3>1. TypeOK'
      BY <1>8, <2>1 DEF DeleteOld, Typed, TypeOK, Active
    <3>2. Placed'
      BY <1>8, <2>1 DEF DeleteOld, Typed, Placed, Storing, Cleaning, TypeOK
    <3> QED BY <3>1, <3>2 DEF Typed
  <2> QED BY <2>1, <1>fail
<1>9. CASE CreateNew(r)
  <2>1. CASE ~Fail(r)
    <3>1. Head1(r).file \in Files
      BY <1>9, HeadEntry DEF CreateNew, Typed, Placed, Storing, Cleaning
    <3>2. TypeOK'
      BY <1>9, <2>1, <3>1 DEF CreateNew, Typed, TypeOK, Active
    <3>3. Placed'
      BY <1>9, <2>1 DEF CreateNew, Typed, Placed, Storing, Cleaning, TypeOK
    <3> QED BY <3>2, <3>3 DEF Typed
  <2> QED BY <2>1, <1>fail
<1>10. CASE Publish(r)
  <2> DEFINE rest == Tail(todo[r])
             next == NextStore(r, rest, offered[r])
  <2>1. Head1(r).ver \in Versions /\ rest \in Seq(Entry)
    BY <1>10, HeadEntry DEF Publish, Typed, Placed, Storing, Cleaning
  <2>2. /\ next \in {"lookup", "ok", "resolve", "error"}
        /\ next = "lookup" => rest # <<>>
        /\ next = "resolve" => op[r] = "create"
    BY AfterListingTyped DEF NextStore
  <2> HIDE DEF rest, next
  <2>3. /\ index' = index \cup {Head1(r).ver} /\ fresh' \in SUBSET fresh
        /\ todo' = [todo EXCEPT ![r] = rest]
        /\ pc' = [pc EXCEPT ![r] = next]
        /\ UNCHANGED <<online, cms, call, seen, left, offered, built>>
    BY <1>10 DEF Publish, rest, next
  <2>4. TypeOK'
    BY <2>1, <2>2, <2>3 DEF Typed, TypeOK, Active, Rest
  <2>5. Placed'
    BY <2>2, <2>3 DEF Typed, Placed, Storing, Cleaning, TypeOK
  <2> QED BY <2>4, <2>5 DEF Typed
<1>11. CASE Resolve(r)
  <2>1. pc' = [pc EXCEPT ![r] = "apply"] \/ pc' = [pc EXCEPT ![r] = "error"]
    BY <1>11 DEF Resolve
  <2>2. TypeOK'
    BY <1>11, <2>1 DEF Resolve, Typed, TypeOK, Active, Rest
  <2>3. Placed'
    BY <1>11, <2>1 DEF Resolve, Typed, Placed, Storing, Cleaning, TypeOK
  <2> QED BY <2>2, <2>3 DEF Typed
<1>12. CASE ApplyVersion(r)
  <2>1. CASE ~Fail(r)
    <3>1. Declares[cms[want[r]]] \in Versions
      BY <1>12, <2>1, DeclaresAssumption DEF ApplyVersion
    <3>2. TypeOK'
      BY <1>12, <2>1, <3>1 DEF ApplyVersion, Typed, TypeOK, Active, Files
    <3>3. Placed'
      BY <1>12, <2>1 DEF ApplyVersion, Typed, Placed, Storing, Cleaning, TypeOK
    <3> QED BY <3>2, <3>3 DEF Typed
  <2> QED BY <2>1, <1>fail
<1>13. CASE ApplyAddons(r)
  <2>1. CASE ~Fail(r)
    <3>1. TypeOK'
      BY <1>13, <2>1 DEF ApplyAddons, Typed, TypeOK, Rest
    <3>2. Placed'
      BY <1>13, <2>1 DEF ApplyAddons, Typed, Placed, Storing, Cleaning, TypeOK
    <3> QED BY <3>1, <3>2 DEF Typed
  <2> QED BY <2>1, <1>fail
<1> QED
  BY <1>1, <1>2, <1>3, <1>4, <1>5, <1>6, <1>7, <1>8, <1>9, <1>10, <1>11, <1>12, <1>13
  DEF Handle, Clean, Store, Apply

(* Entering a handler keeps the types. *)
LEMMA BeginTyped ==
    ASSUME Typed, NEW r \in Requests, Begin(r)
    PROVE  Typed'
<1> USE DEF Typed, TypeOK, Begin, Forget, Goto, shared
<1>1. PICK o \in Ops, v \in Versions, f \in Files :
        /\ op' = [op EXCEPT ![r] = o]
        /\ asked' = [asked EXCEPT ![r] = v]
        /\ want' = [want EXCEPT ![r] = v]
        /\ todo' = [todo EXCEPT ![r] =
                      IF o = "upload" THEN <<[ver |-> v, file |-> f]>> ELSE <<>>]
  OBVIOUS
<1> DEFINE first == IF o = "upload" THEN <<[ver |-> v, file |-> f]>> ELSE <<>>
<1>2. first \in Seq(Entry) /\ (o = "upload" => first # <<>>)
  <2> DEFINE e == [ver |-> v, file |-> f]
  <2>1. e \in Entry
    BY DEF Entry
  <2> HIDE DEF e
  <2>2. <<e>> \in Seq(Entry) /\ <<>> \in Seq(Entry) /\ <<e>> # <<>>
    BY <2>1
  <2> QED BY <2>2 DEF e
<1> HIDE DEF first
<1>3. todo' = [todo EXCEPT ![r] = first]
  BY <1>1 DEF first
<1>4. TypeOK'
  BY <1>1, <1>2, <1>3 DEF Active
<1>5. Placed'
  BY <1>1, <1>2, <1>3 DEF Placed, Storing, Cleaning
<1> QED BY <1>4, <1>5

LEMMA InitTyped == Init => Typed
<1> SUFFICES ASSUME Init PROVE Typed
  OBVIOUS
<1>1. TypeOK
  BY DEF Init, TypeOK, Rest, Ops
<1>2. Placed
  BY DEF Init, Placed, Storing, Cleaning
<1> QED BY <1>1, <1>2 DEF Typed

LEMMA NextTyped == Typed /\ [Next]_vars => Typed'
<1> SUFFICES ASSUME Typed, [Next]_vars PROVE Typed'
  OBVIOUS
<1>1. CASE \E r \in Requests : Begin(r)
  BY <1>1, BeginTyped
<1>2. CASE \E r \in Requests : Handle(r)
  BY <1>2, HandleTyped
<1>3. CASE \E r \in Requests : Abort(r)
  BY <1>3, FailTyped DEF Abort
<1>4. CASE SwitchMode
  <2>1. TypeOK'
    BY <1>4 DEF SwitchMode, Typed, TypeOK, call, built
  <2>2. Placed'
    BY <1>4 DEF SwitchMode, Typed, Placed, call, built
  <2> QED BY <2>1, <2>2 DEF Typed
<1>5. CASE UNCHANGED vars
  BY <1>5 DEF vars, shared, call, built, Typed, TypeOK, Placed
<1> QED BY <1>1, <1>2, <1>3, <1>4, <1>5 DEF Next

(* The variables keep their types, whatever the requests, the crashes, the  *)
(* operator's edits and the remote repository.                              *)
THEOREM TypeCorrect == Spec => []TypeOK
<1>1. Typed => TypeOK
  BY DEF Typed
<1> QED BY InitTyped, NextTyped, <1>1, PTL DEF Spec

-----------------------------------------------------------------------------
(* A step keeps FreshCopyIsCurrent: it changes the index or the mode only   *)
(* together with the resourceVersion.                                       *)
LEMMA FailFresh ==
    ASSUME Typed, FreshCopyIsCurrent, NEW r \in Requests, Fail(r)
    PROVE  FreshCopyIsCurrent'
BY DEF Fail, Forget, Goto, shared, FreshCopyIsCurrent, Typed, TypeOK

LEMMA HandleFresh ==
    ASSUME Typed, FreshCopyIsCurrent, NEW r \in Requests, Handle(r)
    PROVE  FreshCopyIsCurrent'
<1> USE DEF At, Goto, shared, call, built, FreshCopyIsCurrent, Typed, TypeOK
<1>fail. Fail(r) => FreshCopyIsCurrent'
  BY FailFresh
<1>1. CASE ReadForUpload(r)
  <2>1. pc' = [pc EXCEPT ![r] = "error"] \/ pc' = [pc EXCEPT ![r] = "lookup"]
    BY <1>1 DEF ReadForUpload
  <2> QED BY <1>1, <2>1 DEF ReadForUpload
<1>2. CASE ReadSource(r)
  <2>1. CASE online
    BY <1>2, <2>1 DEF ReadSource
  <2>2. CASE ~online
    <3>1. pc' = [pc EXCEPT ![r] = AfterListing(r, index)]
      BY <1>2, <2>2 DEF ReadSource
    <3>2. AfterListing(r, index) \in {"ok", "resolve", "error"}
      BY AfterListingTyped
    <3>3. /\ fresh' = fresh /\ index' = index /\ online' = online
          /\ seen' = [seen EXCEPT ![r] = index]
      BY <1>2, <2>2 DEF ReadSource
    <3> QED BY <3>1, <3>2, <3>3
  <2> QED BY <2>1, <2>2
<1>3. CASE FetchIndex(r)
  BY <1>3 DEF FetchIndex
<1>4. CASE CleanOne(r)
  <2>1. Fail(r) \/ UNCHANGED <<online, index, fresh, pc, seen>>
    BY <1>4 DEF CleanOne
  <2> QED BY <2>1, <1>fail
<1>5. CASE CleanDone(r)
  BY <1>5 DEF CleanDone
<1>6. CASE UpdateConfig(r)
  <2>1. CASE Updated(r, {})
    <3> DEFINE next == NextStore(r, todo[r], ListedVersions(todo[r]))
    <3>1. next \in {"lookup", "ok", "resolve", "error"}
      BY AfterListingTyped DEF NextStore
    <3> HIDE DEF next
    <3>2. /\ pc' = [pc EXCEPT ![r] = next] /\ seen' = seen /\ online' = online
          /\ fresh' = {} \/ (index' = index /\ fresh' = fresh \ {r})
      BY <2>1 DEF Updated, next
    <3> QED BY <3>1, <3>2
  <2> QED BY <1>6, <2>1, <1>fail DEF UpdateConfig
<1>7. CASE Store(r)
  <2>1. CASE Lookup(r)
    <3>1. pc' = [pc EXCEPT ![r] = "delete"] \/ pc' = [pc EXCEPT ![r] = "make"]
      BY <2>1 DEF Lookup
    <3> QED BY <2>1, <3>1 DEF Lookup
  <2>2. CASE DeleteOld(r)
    BY <2>2, <1>fail DEF DeleteOld
  <2>3. CASE CreateNew(r)
    BY <2>3, <1>fail DEF CreateNew
  <2>4. CASE Publish(r)
    <3> DEFINE next == NextStore(r, Tail(todo[r]), offered[r])
    <3>1. next \in {"lookup", "ok", "resolve", "error"}
      BY AfterListingTyped DEF NextStore
    <3> HIDE DEF next
    <3>2. /\ pc' = [pc EXCEPT ![r] = next] /\ seen' = seen /\ online' = online
          /\ fresh' = {} \/ (index' = index /\ fresh' = fresh)
      BY <2>4 DEF Publish, next
    <3> QED BY <3>1, <3>2
  <2> QED BY <1>7, <2>1, <2>2, <2>3, <2>4 DEF Store
<1>8. CASE Apply(r)
  <2>1. CASE Resolve(r)
    <3>1. pc' = [pc EXCEPT ![r] = "apply"] \/ pc' = [pc EXCEPT ![r] = "error"]
      BY <2>1 DEF Resolve
    <3> QED BY <2>1, <3>1 DEF Resolve
  <2>2. CASE ApplyVersion(r)
    BY <2>2, <1>fail DEF ApplyVersion
  <2>3. CASE ApplyAddons(r)
    BY <2>3, <1>fail DEF ApplyAddons
  <2> QED BY <1>8, <2>1, <2>2, <2>3 DEF Apply
<1> QED BY <1>1, <1>2, <1>3, <1>4, <1>5, <1>6, <1>7, <1>8 DEF Handle, Clean

Fresh == Typed /\ FreshCopyIsCurrent

LEMMA NextFresh == Fresh /\ [Next]_vars => Fresh'
<1> SUFFICES ASSUME Typed, FreshCopyIsCurrent, [Next]_vars PROVE FreshCopyIsCurrent'
  BY NextTyped DEF Fresh
<1>1. CASE \E r \in Requests : Begin(r)
  BY <1>1 DEF Begin, Forget, Goto, shared, FreshCopyIsCurrent, Typed, TypeOK
<1>2. CASE \E r \in Requests : Handle(r)
  BY <1>2, HandleFresh
<1>3. CASE \E r \in Requests : Abort(r)
  BY <1>3, FailFresh DEF Abort
<1>4. CASE SwitchMode
  BY <1>4 DEF SwitchMode, FreshCopyIsCurrent
<1>5. CASE UNCHANGED vars
  BY <1>5 DEF vars, shared, FreshCopyIsCurrent
<1> QED BY <1>1, <1>2, <1>3, <1>4, <1>5 DEF Next

LEMMA SpecFresh == Spec => []Fresh
<1>1. Init => Fresh
  BY InitTyped DEF Init, FreshCopyIsCurrent, Fresh
<1> QED BY <1>1, NextFresh, PTL DEF Spec

(* A copy of bke-config with the current resourceVersion is the current     *)
(* index, at every moment at which it may still be written back.            *)
THEOREM FreshCorrect == Spec => []FreshCopyIsCurrent
<1>1. Fresh => FreshCopyIsCurrent
  BY DEF Fresh
<1> QED BY SpecFresh, <1>1, PTL

(* The index loses entries only to a clean-up that had read exactly them:   *)
(* no listing drops what another request published after its read.          *)
THEOREM EntriesKept == Spec => NoLostEntry
<1> DEFINE Kept ==
      \/ index \subseteq index'
      \/ \E r \in Requests : /\ At(r, "update") /\ op[r] # "upload"
                             /\ index = seen[r] /\ index' = {}
<1>1. Fresh /\ [Next]_vars => [Kept]_vars
  <2> SUFFICES ASSUME Fresh, Next PROVE Kept
    OBVIOUS
  <2>1. CASE SwitchMode
    BY <2>1 DEF SwitchMode
  <2>2. ASSUME NEW r \in Requests, Begin(r) \/ Fail(r) PROVE Kept
    BY <2>2 DEF Begin, Fail, shared
  <2>3. ASSUME NEW r \in Requests, UpdateConfig(r) PROVE Kept
    <3>1. CASE r \in fresh /\ Updated(r, {})
      <4>1. /\ At(r, "update") /\ op[r] # "upload"
            /\ index = seen[r] /\ index' = {}
        BY <2>3, <3>1
        DEF UpdateConfig, Updated, At, Fresh, FreshCopyIsCurrent, Typed, Placed, Cleaning
      <4> QED BY <4>1
    <3> QED BY <2>3, <3>1, <2>2 DEF UpdateConfig
  <2>4. ASSUME NEW r \in Requests, Handle(r), ~UpdateConfig(r) PROVE Kept
    <3>1. index \subseteq index'
      BY <2>4 DEF Handle, Clean, Store, Apply, ReadForUpload, ReadSource, FetchIndex,
        CleanOne, CleanDone, Lookup, DeleteOld, CreateNew, Publish, Resolve,
        ApplyVersion, ApplyAddons, Fail, shared
    <3> QED BY <3>1
  <2> QED BY <2>1, <2>2, <2>3, <2>4 DEF Next, Abort
<1> QED BY SpecFresh, <1>1, PTL DEF Spec, NoLostEntry

(* bke-config, seen through the mapping of ImplementsConfig.  A request     *)
(* that is done drops its copy; a change of the object drops every copy.    *)
LEMMA ForgetDrops ==
    ASSUME Typed, NEW r \in Requests, Forget(r), index' = index
    PROVE  Config!Drop(r)
<1>1. seen \in [Requests -> SUBSET Versions]
  BY DEF Typed, TypeOK
<1>2. fresh' = fresh \ {r} /\ seen' = [seen EXCEPT ![r] = {}]
  BY DEF Forget
<1> QED BY <1>1, <1>2 DEF Config!Drop

LEMMA OutdatedCopies ==
    ASSUME fresh' = {} PROVE Config!Outdate
BY DEF Config!Outdate, Config!NoCopy

LEMMA HandleConfig ==
    ASSUME Fresh, NEW r \in Requests, Handle(r)
    PROVE  Config!ObjectNext \/ UNCHANGED Config!object
<1> USE DEF Config!object
<1>1. Typed /\ seen \in [Requests -> SUBSET Versions]
  BY DEF Fresh, Typed, TypeOK
<1>2. CASE Fail(r)
  BY <1>1, <1>2, ForgetDrops DEF Fail, shared, Config!ObjectNext
<1>3. CASE UNCHANGED <<index, fresh, seen>>
  BY <1>3
<1>4. CASE ReadSource(r)
  <2>1. index' = index /\ seen' = [seen EXCEPT ![r] = index]
    BY <1>4 DEF ReadSource, shared
  <2>2. CASE fresh' = fresh \cup {r}
    <3>1. Config!Get(r)
      BY <1>1, <2>1, <2>2 DEF Config!Get
    <3> QED BY <3>1 DEF Config!ObjectNext
  <2>3. CASE fresh' = fresh /\ r \notin fresh
    BY <1>1, <2>1, <2>3
  <2> QED BY <1>4, <2>2, <2>3 DEF ReadSource
<1>5. CASE UpdateConfig(r) /\ ~Fail(r)
  <2>1. r \in fresh /\ Updated(r, {}) /\ pc[r] = "update"
    BY <1>5 DEF UpdateConfig, At
  <2>2. seen' = seen /\ index' = {} /\ seen[r] = index
    BY <1>1, <2>1 DEF Updated, Fresh, FreshCopyIsCurrent
  <2>3. CASE index = {}
    <3>1. fresh' = fresh \ {r}
      BY <2>1, <2>3 DEF Updated
    <3>2. Config!Drop(r)
      BY <1>1, <2>2, <2>3, <3>1 DEF Config!Drop
    <3> QED BY <3>2 DEF Config!ObjectNext
  <2>4. CASE index # {}
    <3>1. fresh' = {}
      BY <2>1, <2>4 DEF Updated
    <3>2. Config!WriteBack(r)
      BY <2>1, <2>2, <3>1, OutdatedCopies DEF Config!WriteBack
    <3> QED BY <3>2 DEF Config!ObjectNext
  <2> QED BY <2>3, <2>4
<1>6. CASE Publish(r)
  <2>1. todo[r] # <<>> /\ seen' = seen
    BY <1>6, <1>1 DEF Publish, Typed, Placed, Storing, At
  <2>2. Head1(r).ver \in Versions
    BY <1>1, <2>1, HeadEntry DEF Typed
  <2>3. CASE Head1(r).ver \in index
    <3>1. UNCHANGED <<index, fresh>>
      BY <1>6, <2>3 DEF Publish
    <3> QED BY <2>1, <3>1, <1>3
  <2>4. CASE Head1(r).ver \notin index
    <3>1. Config!Merge(Head1(r).ver)
      BY <1>6, <2>4, OutdatedCopies DEF Publish, Config!Merge
    <3> QED BY <2>2, <3>1 DEF Config!ObjectNext
  <2> QED BY <2>3, <2>4
<1>7. Handle(r) => \/ Fail(r) \/ ReadSource(r) \/ UpdateConfig(r) \/ Publish(r)
                   \/ UNCHANGED <<index, fresh, seen>>
  BY DEF Handle, Clean, Store, Apply, ReadForUpload, FetchIndex, CleanOne,
     CleanDone, Lookup, DeleteOld, CreateNew, Resolve, ApplyVersion, ApplyAddons,
     shared
<1> QED BY <1>2, <1>3, <1>4, <1>5, <1>6, <1>7

(* The keys of bke-config behave as one object under optimistic             *)
(* concurrency, with calls that fail, kills and switches of the mode: every *)
(* step of a request is one step of ConfigObject or none.                   *)
THEOREM ConfigRefinement == Spec => ImplementsConfig
<1>1. Init => Config!ObjectInit
  BY DEF Init, Config!ObjectInit, Config!NoCopy
<1>2. Fresh /\ [Next]_vars => [Config!ObjectNext]_(Config!object)
  <2> SUFFICES ASSUME Fresh, [Next]_vars
               PROVE  Config!ObjectNext \/ UNCHANGED Config!object
    OBVIOUS
  <2>1. ASSUME NEW r \in Requests, Begin(r) \/ Abort(r)
        PROVE  Config!ObjectNext
    <3>1. Forget(r) /\ index' = index
      BY <2>1 DEF Begin, Abort, Fail, shared
    <3> QED BY <3>1, ForgetDrops DEF Fresh, Config!ObjectNext
  <2>2. ASSUME NEW r \in Requests, Handle(r)
        PROVE  Config!ObjectNext \/ UNCHANGED Config!object
    BY <2>2, HandleConfig
  <2>3. CASE SwitchMode
    BY <2>3, OutdatedCopies DEF SwitchMode, Config!Touch, Config!ObjectNext
  <2>4. CASE UNCHANGED vars
    BY <2>4 DEF vars, shared, Config!object
  <2> QED BY <2>1, <2>2, <2>3, <2>4 DEF Next
<1> QED BY <1>1, <1>2, SpecFresh, PTL DEF Spec, ImplementsConfig, Config!ObjectSpec

-----------------------------------------------------------------------------
(* The service offline.  Nothing is cleaned, so a version once published    *)
(* stays covered: its ConfigMap is there, or an upload that deleted it is   *)
(* about to create it.                                                      *)
Covered(v) == Present(v) \/ Replacing(v)
Offline ==
    /\ online = FALSE
    /\ \A r \in Requests : pc[r] \notin Cleaning
(* An upload stores one entry, under the version its caller named.          *)
UploadInHand ==
    \A r \in Requests :
        /\ pc[r] \in Storing => op[r] = "upload"
        /\ op[r] = "upload" /\ pc[r] \in Storing \cup {"read"} =>
              Head1(r).ver = asked[r] /\ Tail(todo[r]) = <<>>
OfflineInv ==
    /\ Typed /\ Offline /\ UploadInHand
    /\ \A v \in index : Covered(v)
    /\ \A r \in Requests : At(r, "publish") => Covered(Head1(r).ver)
    /\ \A r \in Requests : op[r] = "upload" /\ At(r, "ok") => asked[r] \in index

(* Coverage is lost by no step: the request between delete and create       *)
(* leaves that place only by creating, or by finding the ConfigMap there.   *)
LEMMA CoveredKept ==
    ASSUME Typed, Offline, ReliableNext, NEW v \in Versions, Covered(v)
    PROVE  Covered(v)'
<1> USE DEF At, Goto, shared, call, built, Covered, Present, Replacing, Typed, TypeOK
<1>1. PICK r \in Requests : Begin(r) \/ Handle(r)
  BY DEF ReliableNext
<1>2. CASE UNCHANGED cms /\ pc[r] # "make"
  <2>1. /\ \A q \in Requests \ {r} : pc'[q] = pc[q] /\ todo'[q] = todo[q]
    BY <1>1 DEF Begin, Handle, Clean, Store, Apply, ReadForUpload, ReadSource,
      FetchIndex, CleanOne, CleanDone, UpdateConfig, Updated, Lookup, DeleteOld,
      CreateNew, Publish, Resolve, ApplyVersion, ApplyAddons, Fail, Forget
  <2> QED BY <1>2, <2>1 DEF Head1
<1>3. CASE DeleteOld(r)
  <2>1. /\ pc[r] = "delete"
        /\ \A q \in Requests \ {r} : pc'[q] = pc[q] /\ todo'[q] = todo[q]
    BY <1>3 DEF DeleteOld, Fail, Forget
  <2>2. CASE Fail(r)
    BY <2>1, <2>2 DEF Fail, Head1
  <2>3. CASE ~Fail(r)
    <3>1. pc'[r] = "make" /\ todo' = todo
      BY <1>3, <2>3 DEF DeleteOld
    <3>2. v # Head1(r).ver => cms'[v] = cms[v]
      BY <1>3, <2>3 DEF DeleteOld
    <3> QED BY <2>1, <3>1, <3>2 DEF Head1
  <2> QED BY <2>2, <2>3
<1>4. CASE CreateNew(r)
  <2>1. \A q \in Requests \ {r} : pc'[q] = pc[q] /\ todo'[q] = todo[q]
    BY <1>4 DEF CreateNew, Fail, Forget
  <2>2. Head1(r).file \in Files
    BY <1>4, HeadEntry DEF CreateNew, Placed, Storing
  <2>3. CASE v = Head1(r).ver
    BY <1>4, <2>2, <2>3, NothingAssumption DEF CreateNew, Fail
  <2>4. CASE v # Head1(r).ver
    <3>1. cms'[v] = cms[v]
      BY <1>4, <2>4 DEF CreateNew, Fail
    <3> QED BY <1>4, <2>1, <2>4, <3>1 DEF CreateNew, Head1
  <2> QED BY <2>3, <2>4
<1>5. (UNCHANGED cms /\ pc[r] # "make") \/ DeleteOld(r) \/ CreateNew(r)
  BY <1>1 DEF Offline, Cleaning, Begin, Handle, Clean, Store, Apply, ReadForUpload,
    ReadSource, FetchIndex, CleanOne, CleanDone, UpdateConfig, Updated, Lookup,
    Publish, Resolve, ApplyVersion, ApplyAddons, Fail, Rest
<1> QED BY <1>1, <1>2, <1>3, <1>4, <1>5

(* The actions a request can take offline, by what they do to the places    *)
(* and the index.                                                           *)
LEMMA OfflineHandle ==
    ASSUME Offline, NEW r \in Requests, Handle(r)
    PROVE  \/ ReadForUpload(r) \/ ReadSource(r) \/ Store(r) \/ Apply(r)
BY DEF Offline, Cleaning, Handle, Clean, FetchIndex, CleanOne, CleanDone,
  UpdateConfig, At

LEMMA OfflineStep ==
    ASSUME OfflineInv, ReliableNext
    PROVE  OfflineInv'
<1> USE DEF At, Goto, shared, call, built
<1>typed. Typed'
  BY NextTyped DEF ReliableNext, Next, OfflineInv
<1>idx. index \subseteq Versions
  BY DEF OfflineInv, Typed, TypeOK
<1>kept. \A v \in Versions : Covered(v) => Covered(v)'
  BY CoveredKept DEF OfflineInv
<1>1. PICK r \in Requests : Begin(r) \/ Handle(r)
  BY DEF ReliableNext
<1>others. \A q \in Requests \ {r} : /\ pc'[q] = pc[q] /\ todo'[q] = todo[q]
                                     /\ op'[q] = op[q] /\ asked'[q] = asked[q]
  <2> USE DEF OfflineInv, Typed, TypeOK
  <2>1. CASE Begin(r)
    BY <2>1 DEF Begin
  <2>2. CASE Fail(r)
    BY <2>2 DEF Fail
  <2>3. CASE ReadForUpload(r) \/ ReadSource(r)
    BY <2>3 DEF ReadForUpload, ReadSource
  <2>4. CASE Store(r) /\ ~Fail(r)
    BY <2>4 DEF Store, Lookup, DeleteOld, CreateNew, Publish
  <2>5. CASE Apply(r) /\ ~Fail(r)
    BY <2>5 DEF Apply, Resolve, ApplyVersion, ApplyAddons
  <2> QED BY <1>1, <2>1, <2>2, <2>3, <2>4, <2>5, OfflineHandle
(* It is enough to look at the request that moves, and at the index.        *)
<1>2. ASSUME /\ online' = online /\ index \subseteq index'
             /\ \A v \in index' \ index : v \in Versions /\ Covered(v)
             /\ pc'[r] \notin Cleaning
             /\ pc'[r] \in Storing => op'[r] = "upload"
             /\ op'[r] = "upload" /\ pc'[r] \in Storing \cup {"read"} =>
                  Head1(r)'.ver = asked'[r] /\ Tail(todo'[r]) = <<>>
             /\ pc'[r] = "publish" => Covered(Head1(r).ver)' /\ todo'[r] = todo[r]
             /\ op'[r] = "upload" /\ pc'[r] = "ok" => asked'[r] \in index'
      PROVE  OfflineInv'
  <2>1. Offline'
    BY <1>2, <1>others DEF OfflineInv, Offline
  <2>2. UploadInHand'
    BY <1>2, <1>others DEF OfflineInv, UploadInHand, Head1
  <2>3. \A v \in index' : Covered(v)'
    BY <1>2, <1>kept, <1>idx DEF OfflineInv
  <2>4. ASSUME NEW q \in Requests, At(q, "publish")' PROVE Covered(Head1(q).ver)'
    <3>1. CASE q = r
      BY <1>2, <2>4, <3>1
    <3>2. CASE q # r
      <4>1. pc[q] = "publish" /\ todo'[q] = todo[q]
        BY <2>4, <3>2, <1>others
      <4>2. Head1(q).ver \in Versions /\ Covered(Head1(q).ver)
        BY <4>1, HeadEntry DEF OfflineInv, Typed, Placed, Storing
      <4>3. \A v \in Versions : v = Head1(q).ver => Head1(q)'.ver = v
        BY <4>1 DEF Head1
      <4>4. \A v \in Versions : v = Head1(q).ver => Covered(v)'
        BY <4>2, <1>kept
      <4> QED BY <4>2, <4>3, <4>4 DEF Covered, Present, Replacing, Head1
    <3> QED BY <3>1, <3>2
  <2>5. \A q \in Requests : op'[q] = "upload" /\ pc'[q] = "ok" => asked'[q] \in index'
    BY <1>2, <1>others DEF OfflineInv
  <2> QED BY <1>typed, <2>1, <2>2, <2>3, <2>4, <2>5 DEF OfflineInv
<1> USE DEF Storing, Cleaning
<1>3. CASE Begin(r)
  BY <1>2, <1>3 DEF Begin, Forget, OfflineInv, Typed, TypeOK, Head1
<1>4. CASE Fail(r)
  BY <1>2, <1>4 DEF Fail, Forget, OfflineInv, Typed, TypeOK
<1>5. CASE ReadForUpload(r)
  <2>1. pc'[r] \in {"lookup", "error"}
    BY <1>5 DEF ReadForUpload, OfflineInv, Typed, TypeOK
  <2> QED BY <1>2, <1>5, <2>1
    DEF ReadForUpload, OfflineInv, UploadInHand, Typed, TypeOK, Head1
<1>6. CASE ReadSource(r)
  <2>1. /\ pc'[r] \in {"ok", "resolve", "error"} /\ op[r] # "upload"
        /\ UNCHANGED <<online, index, cms, op, asked, todo>>
    BY <1>6, AfterListingTyped
    DEF ReadSource, OfflineInv, Offline, Typed, TypeOK
  <2> QED BY <1>2, <2>1
<1>7. CASE Apply(r) /\ ~Fail(r)
  <2>1. /\ op[r] = "create"
        /\ UNCHANGED <<online, index, cms, op, asked, todo>>
    BY <1>7 DEF Apply, Resolve, ApplyVersion, ApplyAddons, OfflineInv, Typed, Placed
  <2>2. pc'[r] \in {"apply", "error", "read", "ok"}
    BY <1>7 DEF Apply, Resolve, ApplyVersion, ApplyAddons, OfflineInv, Typed, TypeOK
  <2> QED BY <1>2, <2>1, <2>2
<1>8. CASE (Lookup(r) \/ DeleteOld(r)) /\ ~Fail(r)
  <2>1. /\ UNCHANGED <<online, index, op, asked, todo>>
        /\ pc[r] \in Storing
    BY <1>8 DEF Lookup, DeleteOld
  <2>2. pc'[r] \in {"delete", "make"}
    BY <1>8 DEF Lookup, DeleteOld, OfflineInv, Typed, TypeOK
  <2> QED BY <1>2, <2>1, <2>2 DEF OfflineInv, UploadInHand, Head1
<1>9. CASE CreateNew(r) /\ ~Fail(r)
  <2>1. /\ UNCHANGED <<online, index, op, asked, todo>>
        /\ pc[r] \in Storing /\ pc'[r] = "publish"
        /\ cms' = [cms EXCEPT ![Head1(r).ver] = Head1(r).file]
    BY <1>9 DEF CreateNew, OfflineInv, Typed, TypeOK
  <2>2. Head1(r).ver \in Versions /\ Head1(r).file \in Files
    BY <2>1, HeadEntry DEF OfflineInv, Typed, Placed
  <2>3. cms'[Head1(r).ver] # Nothing
    BY <2>1, <2>2, NothingAssumption DEF OfflineInv, Typed, TypeOK
  <2>4. Covered(Head1(r).ver)'
    BY <2>1, <2>3 DEF Covered, Present, Head1
  <2> QED BY <1>2, <2>1, <2>4 DEF OfflineInv, UploadInHand, Head1
<1>10. CASE Publish(r)
  <2>1. /\ pc[r] = "publish" /\ op[r] = "upload" /\ Tail(todo[r]) = <<>>
        /\ Head1(r).ver = asked[r]
        /\ Head1(r).ver \in Versions /\ Covered(Head1(r).ver)
    BY <1>10, HeadEntry DEF Publish, OfflineInv, UploadInHand, Typed, Placed
  <2>2. NextStore(r, Tail(todo[r]), offered[r]) = "ok"
    BY <2>1 DEF NextStore, AfterListing
  <2>3. /\ pc'[r] = "ok" /\ index' = index \cup {Head1(r).ver}
        /\ UNCHANGED <<online, op, asked>>
    BY <1>10, <2>2 DEF Publish, OfflineInv, Typed, TypeOK
  <2> QED BY <1>2, <2>1, <2>3
<1> QED
  BY <1>1, <1>3, <1>4, <1>5, <1>6, <1>7, <1>8, <1>9, <1>10, OfflineHandle
  DEF Store, Apply, OfflineInv

(* With the mode left alone it stays what it is.                            *)
LEMMA ModeKept == [ReliableNext]_vars => online' = online
BY DEF ReliableNext, Begin, Handle, Clean, Store, Apply, ReadForUpload,
  ReadSource, FetchIndex, CleanOne, CleanDone, UpdateConfig, Updated, Lookup,
  DeleteOld, CreateNew, Publish, Resolve, ApplyVersion, ApplyAddons, Fail,
  vars, shared

LEMMA StableTyped == StableSpec => []Typed
<1>1. Typed /\ [ReliableNext]_vars => Typed'
  BY NextTyped DEF ReliableNext, Next
<1> QED BY InitTyped, <1>1, PTL DEF StableSpec

LEMMA OfflineSafe == StableSpec => [](online = FALSE => OfflineInv)
<1>1. Init => (online = FALSE => OfflineInv)
  <2> SUFFICES ASSUME Init, online = FALSE PROVE OfflineInv
    OBVIOUS
  <2>1. Typed
    BY InitTyped
  <2>2. Offline /\ UploadInHand
    BY DEF Init, Offline, UploadInHand, Storing, Cleaning
  <2> QED BY <2>1, <2>2 DEF Init, OfflineInv, At
<1>2. (online = FALSE => OfflineInv) /\ [ReliableNext]_vars
        => (online = FALSE => OfflineInv)'
  <2> SUFFICES ASSUME OfflineInv, [ReliableNext]_vars PROVE OfflineInv'
    BY ModeKept
  <2>1. CASE ReliableNext
    BY <2>1, OfflineStep
  <2>2. CASE UNCHANGED vars
    <3>1. OfflineInv => Typed'
      BY <2>2, NextTyped DEF OfflineInv
    <3> QED BY <2>2, <3>1 DEF vars, shared, call, OfflineInv, Offline, UploadInHand,
      Covered, Present, Replacing, At, Head1
  <2> QED BY <2>1, <2>2
<1> QED BY <1>1, <1>2, PTL DEF StableSpec

(* Offline, with no call failing, a version is listed without its ConfigMap *)
(* only while an upload of that version is about to create it again.        *)
THEOREM DanglingCorrect == StableSpec => []DanglingIsTransient
<1>1. Typed /\ (online = FALSE => OfflineInv) => DanglingIsTransient
  BY DEF Typed, TypeOK, OfflineInv, DanglingIsTransient, Dangling, Covered
<1> QED BY StableTyped, OfflineSafe, <1>1, PTL

(* Offline an upload that was acknowledged stays listed, and its ConfigMap  *)
(* is there or being replaced, whatever the other requests do.              *)
THEOREM AckedCorrect == StableSpec => []AckedUploadKept
<1>1. Typed /\ (online = FALSE => OfflineInv) => AckedUploadKept
  BY DEF Typed, TypeOK, OfflineInv, AckedUploadKept, Covered
<1> QED BY StableTyped, OfflineSafe, <1>1, PTL

-----------------------------------------------------------------------------
(* The service online, blocked on a version.                                *)
LEMMA BlockedStep ==
    ASSUME Typed, NEW v \in Versions, BlockedOn(v), [ReliableNext]_vars
    PROVE  BlockedOn(v)'
<1> USE DEF At, Goto, shared, call, built, BlockedOn, Dangling, Present, Rest, Typed, TypeOK
<1>0. CASE UNCHANGED vars
  BY <1>0 DEF vars
<1> SUFFICES ASSUME ReliableNext PROVE BlockedOn(v)'
  BY <1>0
<1>1. PICK r \in Requests : Begin(r) \/ Handle(r)
  BY DEF ReliableNext
<1>2. CASE Begin(r)
  BY <1>2 DEF Begin, Forget
<1>3. CASE Fail(r)
  BY <1>3 DEF Fail, Forget
<1>4. CASE ReadForUpload(r)
  <2>1. pc' = [pc EXCEPT ![r] = "error"]
    BY <1>4 DEF ReadForUpload
  <2> QED BY <1>4, <2>1 DEF ReadForUpload
<1>5. CASE ReadSource(r) \/ FetchIndex(r)
  <2>1. CASE ReadSource(r)
    BY <2>1 DEF ReadSource
  <2>2. CASE FetchIndex(r)
    BY <2>2 DEF FetchIndex
  <2> QED BY <1>5, <2>1, <2>2
<1>6. CASE CleanOne(r) /\ ~Fail(r)
  <2>1. PICK w \in left[r] : /\ Present(w)
                             /\ cms' = [cms EXCEPT ![w] = Nothing]
                             /\ left' = [left EXCEPT ![r] = @ \ {w}]
    BY <1>6 DEF CleanOne
  <2>2. w # v /\ UNCHANGED <<online, index, pc>>
    BY <1>6, <2>1 DEF CleanOne
  <2> QED BY <2>1, <2>2
<1>7. ~CleanDone(r) /\ ~UpdateConfig(r) /\ ~Store(r) /\ ~Apply(r)
  BY DEF CleanDone, UpdateConfig, Store, Lookup, DeleteOld, CreateNew, Publish,
    Apply, Resolve, ApplyVersion, ApplyAddons
<1> QED BY <1>1, <1>2, <1>3, <1>4, <1>5, <1>6, <1>7 DEF Handle, Clean

(* The defect, for any number of requests and versions: the service, once   *)
(* online and at rest with a version whose ConfigMap is missing, is blocked *)
(* on that version, and it stays so for ever.                               *)
THEOREM WedgeStays ==
    StableSpec => WedgeIsPermanent /\ [](Wedged => [](Dangling # {}))
<1> DEFINE Blocked == Typed /\ \E v \in Versions : BlockedOn(v)
<1>1. Typed /\ [ReliableNext]_vars => [\A v \in Versions : BlockedOn(v) => BlockedOn(v)']_vars
  BY BlockedStep
<1>2. Typed /\ Wedged => Blocked
  <2> SUFFICES ASSUME Typed, Wedged PROVE Blocked
    OBVIOUS
  <2>1. PICK v \in Versions : v \in Dangling
    BY DEF Wedged, Dangling, Typed, TypeOK
  <2> QED BY <2>1 DEF Wedged, AtRest, BlockedOn, Rest
<1>3. Blocked /\ Typed' /\ [ReliableNext]_vars => Blocked'
  BY BlockedStep
<1>4. Blocked => Dangling # {}
  BY DEF BlockedOn
<1> QED BY StableTyped, <1>1, <1>2, <1>3, <1>4, PTL DEF StableSpec, WedgeIsPermanent
=============================================================================
