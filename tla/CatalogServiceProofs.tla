------------------------ MODULE CatalogServiceProofs ------------------------
(***************************************************************************)
(* What is proved of CatalogService, for any versions, files and remote     *)
(* repository, and for any number of callers that take turns: the listings  *)
(* contradict each other on no catalog; its halves agree on all but what a  *)
(* failed request left half done; an online listing mirrors the remote      *)
(* index; and a create takes what it is offered, in both its listings, with *)
(* the add-ons asked for.                                                   *)
(***************************************************************************)
EXTENDS CatalogService, PatchCatalogProofs, VersionFilterProofs, WellFoundedInduction

LEMMA StepIsNext == [ServiceNext]_<<vars, service>> => [Next]_vars
  BY DEF ServiceNext, Next, vars, service

LEMMA ServiceTyped == ServiceSpec => []Typed
  BY InitTyped, NextTyped, StepIsNext, PTL DEF ServiceSpec, ServiceInit

LEMMA IndexListable == Typed => index \in SUBSET Listable
  BY VersionsAssumption DEF Typed, TypeOK, Listable

(* Offline the answers of the two listings do not contradict each other,    *)
(* whatever was uploaded, removed or left half done.                        *)
THEOREM OffersAgree == ServiceSpec => []InstallableIsOffered
<1>1. Typed => InstallableIsOffered
  BY IndexListable, FiltersAlwaysAgree DEF InstallableIsOffered
<1> QED BY <1>1, ServiceTyped, PTL

(* Offline a later version whose line has its first release in the catalog  *)
(* can be reached from every cluster by the upgrades that are offered.      *)
THEOREM NoDeadEnds == ServiceSpec => []NoDeadEnd
<1>1. Typed => NoDeadEnd
  BY IndexListable, NothingOutOfReach DEF NoDeadEnd
<1> QED BY <1>1, ServiceTyped, PTL

-----------------------------------------------------------------------------
(* ONE REQUEST AT A TIME                                                    *)

Sole == \A r, q \in Requests : r # q /\ pc[r] \in Active => pc[q] \in Rest

(* What a request in progress knows of the two halves.                      *)
Halves(r) ==
    /\ pc[r] \in Cleaning => seen[r] = index
    /\ pc[r] = "fetch" => left[r] = seen[r]
    /\ pc[r] = "clean" => left[r] \subseteq seen[r]
    /\ pc[r] \in {"clean", "update"} => \A v \in seen[r] \ left[r] : ~Present(v)
    /\ pc[r] = "update" => left[r] = {}
    /\ pc[r] = "make" => ~Present(Head1(r).ver)
    /\ pc[r] \in {"delete", "publish"} => Present(Head1(r).ver)
ExactBut(set) == \A v \in Versions \ set : v \in index <=> Present(v)

(* They agree but for what the request in progress would leave apart if it  *)
(* ended now.                                                               *)
Settled ==
    /\ AtRest => ExactBut(cut)
    /\ \A r \in Requests : pc[r] \in Active => Halves(r) /\ ExactBut(cut \cup Spoils(r))
Exact == Sole /\ Settled

LEMMA ActiveRest == Active \cap Rest = {}
  BY DEF Active, Rest

LEMMA SpoilsAt ==
    ASSUME NEW r \in Requests
    PROVE  /\ pc[r] = "clean" => Spoils(r) = seen[r] \ left[r]
           /\ pc[r] = "update" => Spoils(r) = seen[r]
           /\ pc[r] = "make" => Spoils(r) = {Head1(r).ver} \cap index
           /\ pc[r] = "publish" => Spoils(r) = {Head1(r).ver} \ index
           /\ pc[r] \notin {"clean", "update", "make", "publish"} => Spoils(r) = {}
  BY DEF Spoils, At

LEMMA SpoilsNext ==
    ASSUME NEW r \in Requests
    PROVE  /\ pc'[r] = "clean" => Spoils(r)' = seen'[r] \ left'[r]
           /\ pc'[r] = "update" => Spoils(r)' = seen'[r]
           /\ pc'[r] = "make" => Spoils(r)' = {Head1(r)'.ver} \cap index'
           /\ pc'[r] = "publish" => Spoils(r)' = {Head1(r)'.ver} \ index'
           /\ pc'[r] \notin {"clean", "update", "make", "publish"} => Spoils(r)' = {}
  BY DEF Spoils, At

LEMMA HealsAt ==
    ASSUME NEW r \in Requests
    PROVE  /\ pc[r] = "update" => Heals(r) = seen[r]
           /\ pc[r] = "publish" => Heals(r) = {Head1(r).ver}
           /\ pc[r] \notin {"update", "publish"} => Heals(r) = {}
  BY DEF Heals, At

(* A request moves nothing but itself, and only one that is in progress     *)
(* has a step to make.                                                      *)
LEMMA OnlyItself ==
    ASSUME Typed, NEW r \in Requests, Begin(r) \/ Handle(r) \/ Abort(r)
    PROVE  /\ \A q \in Requests \ {r} : pc'[q] = pc[q]
           /\ Handle(r) \/ Abort(r) => pc[r] \in Active
           /\ pc'[r] \in Active \cup Rest
<1> USE DEF At, Goto, Fail
<1>1. \E l : pc' = [pc EXCEPT ![r] = l]
  <2>1. CASE Begin(r) \/ Abort(r)
    BY <2>1 DEF Begin, Abort
  <2>2. CASE Clean(r)
    <3>1. CASE UpdateConfig(r)
      BY <3>1 DEF UpdateConfig, Updated
    <3>2. CASE ~UpdateConfig(r)
      <4>1. pc \in [Requests -> Active \cup Rest]
        BY DEF Typed, TypeOK
      <4>2. pc = [pc EXCEPT ![r] = pc[r]]
        BY <4>1
      <4> QED BY <2>2, <3>2, <4>2 DEF Clean, FetchIndex, CleanOne, CleanDone
    <3> QED BY <3>1, <3>2
  <2>3. CASE Store(r)
    BY <2>3 DEF Store, Lookup, DeleteOld, CreateNew, Publish
  <2>4. CASE Apply(r)
    BY <2>4 DEF Apply, Resolve, ApplyVersion, ApplyAddons
  <2>5. CASE ReadForUpload(r) \/ ReadSource(r)
    BY <2>5 DEF ReadForUpload, ReadSource
  <2> QED BY <2>1, <2>2, <2>3, <2>4, <2>5 DEF Handle
<1>2. \A q \in Requests \ {r} : pc'[q] = pc[q]
  BY <1>1 DEF Typed, TypeOK
<1>3. Handle(r) \/ Abort(r) => pc[r] \in Active
  BY DEF Handle, Abort, Clean, Store, Apply, ReadForUpload, ReadSource, FetchIndex,
         CleanOne, CleanDone, UpdateConfig, Lookup, DeleteOld, CreateNew, Publish,
         Resolve, ApplyVersion, ApplyAddons, Active
<1>4. Typed'
  BY BeginTyped, HandleTyped, FailTyped DEF Abort
<1>5. pc'[r] \in Active \cup Rest
  BY <1>4 DEF Typed, TypeOK
<1> QED BY <1>2, <1>3, <1>5

LEMMA SoleKept ==
    ASSUME Typed, Sole, ServiceNext
    PROVE  Sole'
<1>1. CASE SwitchMode
  BY <1>1 DEF SwitchMode, Sole
<1>2. CASE \E r \in Requests : Begin(r) /\ AtRest
  <2>1. PICK r \in Requests : Begin(r) /\ AtRest
    BY <1>2
  <2>2. \A q \in Requests \ {r} : pc'[q] \in Rest
    BY <2>1, OnlyItself DEF AtRest
  <2> QED BY <2>2, ActiveRest DEF Sole
<1>3. CASE \E r \in Requests : Handle(r) \/ Abort(r)
  <2>1. PICK r \in Requests : Handle(r) \/ Abort(r)
    BY <1>3
  <2>2. \A q \in Requests \ {r} : pc'[q] \in Rest
    BY <2>1, OnlyItself DEF Sole
  <2> QED BY <2>2, ActiveRest DEF Sole
<1> QED BY <1>1, <1>2, <1>3 DEF ServiceNext

(* What has to be shown of the one request in progress.                     *)
LEMMA Turn ==
    ASSUME Typed, Sole, NEW r \in Requests,
           (Begin(r) /\ AtRest) \/ Handle(r) \/ Abort(r),
           ExactBut(cut \cup Spoils(r))', pc'[r] \in Active => Halves(r)'
    PROVE  Settled'
<1>1. \A q \in Requests \ {r} : pc'[q] \in Rest
  BY OnlyItself DEF Sole, AtRest
<1>2. pc'[r] \in Rest => Spoils(r)' = {}
  BY SpoilsNext DEF Rest
<1>3. AtRest' => ExactBut(cut)'
  BY <1>2 DEF AtRest, ExactBut
<1>4. ASSUME NEW q \in Requests, pc'[q] \in Active
      PROVE  Halves(q)' /\ ExactBut(cut \cup Spoils(q))'
  <2>1. q = r
    BY <1>1, <1>4, ActiveRest
  <2> QED BY <1>4, <2>1
<1> QED BY <1>3, <1>4 DEF Settled

LEMMA FailSettled ==
    ASSUME Typed, Exact, NEW r \in Requests, Handle(r) \/ Abort(r), Fail(r), Track(r)
    PROVE  Settled'
<1>1. pc'[r] = "error" /\ UNCHANGED <<index, cms>> /\ cut' = cut \cup Spoils(r)
  BY DEF Fail, Goto, shared, Track, Typed, TypeOK
<1>2. ExactBut(cut \cup Spoils(r))
  BY OnlyItself DEF Exact, Settled
<1>3. Spoils(r)' = {}
  BY <1>1, SpoilsNext
<1>4. ExactBut(cut \cup Spoils(r))'
  BY <1>1, <1>2, <1>3 DEF ExactBut, Present
<1>5. pc'[r] \notin Active
  BY <1>1 DEF Active
<1> QED BY <1>4, <1>5, Turn DEF Exact

LEMMA BeginSettled ==
    ASSUME Typed, Exact, NEW r \in Requests, Begin(r), AtRest, UNCHANGED cut
    PROVE  Settled'
<1>1. pc'[r] = "read" /\ UNCHANGED <<index, cms>>
  BY DEF Begin, Goto, shared, Typed, TypeOK
<1>2. Spoils(r)' = {} /\ Halves(r)'
  BY <1>1, SpoilsNext DEF Halves, Cleaning
<1>3. ExactBut(cut \cup Spoils(r))'
  BY <1>1, <1>2 DEF Exact, Settled, ExactBut, Present
<1> QED BY <1>2, <1>3, Turn DEF Exact

(* Steps that change neither half, and after which nothing would be spoilt. *)
LEMMA ReadsSettled ==
    ASSUME Typed, Exact, NEW r \in Requests, ~Fail(r), Track(r),
           \/ ReadForUpload(r) \/ ReadSource(r) \/ FetchIndex(r) \/ CleanDone(r)
           \/ Lookup(r) \/ Apply(r)
    PROVE  Settled'
<1> USE DEF At, Goto, call, built, shared
<1>h. pc[r] \in Active /\ Halves(r) /\ ExactBut(cut \cup Spoils(r))
  <2>1. Handle(r)
    BY DEF Handle, Clean, Store
  <2> QED BY <2>1, OnlyItself DEF Exact, Settled
<1>c. cut' = cut \ Heals(r)
  BY DEF Track
<1>1. UNCHANGED <<index, cms>>
  BY DEF ReadForUpload, ReadSource, FetchIndex, CleanDone, Lookup, Apply, Resolve,
         ApplyVersion, ApplyAddons
<1>s. ASSUME Spoils(r) = {}, Spoils(r)' = {}, Heals(r) = {}, Halves(r)'
      PROVE  Settled'
  <2>1. ExactBut(cut \cup Spoils(r))'
    BY <1>h, <1>c, <1>1, <1>s DEF ExactBut, Present
  <2>2. Handle(r)
    BY DEF Handle, Clean, Store
  <2> QED BY <1>s, <2>1, <2>2, Turn DEF Exact
<1>2. CASE ReadForUpload(r)
  <2>1. pc[r] = "read" /\ pc'[r] \in {"error", "lookup"}
    BY <1>2 DEF ReadForUpload, Typed, TypeOK
  <2> QED BY <1>s, <2>1, SpoilsAt, SpoilsNext, HealsAt DEF Halves, Cleaning
<1>3. CASE ReadSource(r)
  <2>1. pc[r] = "read" /\ pc'[r] \in {"fetch", "ok", "resolve", "error"}
    BY <1>3, AfterListingTyped DEF ReadSource, Typed, TypeOK
  <2>2. pc'[r] = "fetch" => seen'[r] = index /\ left'[r] = index
    <3>1. pc'[r] = IF online THEN "fetch" ELSE AfterListing(r, index)
      BY <1>3 DEF ReadSource, Typed, TypeOK
    <3>2. pc'[r] = "fetch" => online
      BY <3>1, AfterListingTyped
    <3> QED BY <1>3, <3>2 DEF ReadSource, Typed, TypeOK
  <2> QED BY <1>s, <1>1, <2>1, <2>2, SpoilsAt, SpoilsNext, HealsAt DEF Halves, Cleaning
<1>4. CASE FetchIndex(r)
  <2>1. pc[r] = "fetch" /\ pc'[r] = "clean" /\ seen' = seen /\ left' = left
    BY <1>4 DEF FetchIndex, Typed, TypeOK
  <2>2. left[r] = seen[r] /\ seen[r] = index
    BY <1>h, <2>1 DEF Halves, Cleaning
  <2>3. Spoils(r)' = {}
    BY <2>1, <2>2, SpoilsNext
  <2> QED BY <1>s, <1>1, <2>1, <2>2, <2>3, SpoilsAt, HealsAt DEF Halves, Cleaning
<1>5. CASE CleanDone(r)
  <2>1. /\ pc[r] = "clean" /\ pc'[r] = "update" /\ seen' = seen /\ left' = left
        /\ left[r] = {}
    BY <1>5 DEF CleanDone, Typed, TypeOK
  <2>2. Spoils(r)' = Spoils(r) /\ Heals(r) = {}
    <3>1. seen[r] \ left[r] = seen[r]
      BY <2>1
    <3> QED BY <2>1, <3>1, SpoilsAt, SpoilsNext, HealsAt
  <2>3. Halves(r)'
    <3>1. seen[r] = index /\ \A v \in seen[r] : ~Present(v)
      BY <1>h, <2>1 DEF Halves, Cleaning
    <3>2. seen'[r] = index' /\ \A v \in seen'[r] : ~Present(v)'
      BY <1>1, <2>1, <3>1 DEF Present
    <3> QED BY <2>1, <3>2 DEF Halves, Cleaning
  <2>4. ExactBut(cut \cup Spoils(r))'
    BY <1>h, <1>c, <1>1, <2>2 DEF ExactBut, Present
  <2>5. Handle(r)
    BY <1>5 DEF Handle, Clean
  <2> QED BY <2>3, <2>4, <2>5, Turn DEF Exact
<1>6. CASE Lookup(r)
  <2>1. pc[r] = "lookup" /\ todo' = todo
    BY <1>6 DEF Lookup
  <2>2. pc'[r] = IF Present(Head1(r).ver) THEN "delete" ELSE "make"
    BY <1>6 DEF Lookup, Typed, TypeOK
  <2>3. Head1(r)' = Head1(r) /\ Head1(r).ver \in Versions
    BY <2>1, HeadEntry DEF Head1, Typed, Placed, Storing
  <2>4. CASE pc'[r] = "delete"
    <3>1. Present(Head1(r).ver)'
      BY <1>1, <2>2, <2>3, <2>4 DEF Present
    <3>2. Halves(r)'
      BY <2>4, <3>1 DEF Halves, Cleaning
    <3> QED BY <1>s, <2>1, <2>4, <3>2, SpoilsAt, SpoilsNext, HealsAt
  <2>5. CASE pc'[r] = "make"
    <3>1. ~Present(Head1(r).ver) /\ Spoils(r) = {} /\ Heals(r) = {}
      BY <2>1, <2>2, <2>5, SpoilsAt, HealsAt
    <3>2. Spoils(r)' = {Head1(r).ver} \cap index
      BY <1>1, <2>3, <2>5, SpoilsNext
    <3>3. ExactBut(cut \cup Spoils(r))'
      BY <1>h, <1>c, <1>1, <3>1, <3>2 DEF ExactBut, Present
    <3>4. Halves(r)'
      BY <1>1, <2>3, <2>5, <3>1 DEF Halves, Cleaning, Present
    <3>5. Handle(r)
      BY <1>6 DEF Handle, Store
    <3> QED BY <3>3, <3>4, <3>5, Turn DEF Exact
  <2> QED BY <2>2, <2>4, <2>5
<1>7. CASE Apply(r)
  <2>1. pc[r] \in {"resolve", "apply"}
    BY <1>7 DEF Apply, Resolve, ApplyVersion, ApplyAddons
  <2>2. pc'[r] \in {"apply", "error", "read", "ok"}
    <3>1. pc \in [Requests -> Active \cup Rest]
      BY DEF Typed, TypeOK
    <3> QED BY <1>7, <3>1 DEF Apply, Resolve, ApplyVersion, ApplyAddons
  <2> QED BY <1>s, <2>1, <2>2, SpoilsAt, SpoilsNext, HealsAt DEF Halves, Cleaning
<1> QED BY <1>2, <1>3, <1>4, <1>5, <1>6, <1>7

(* The clean-up, version by version, and the write that ends it.            *)
LEMMA CleansSettled ==
    ASSUME Typed, Exact, NEW r \in Requests, ~Fail(r), Track(r),
           CleanOne(r) \/ UpdateConfig(r)
    PROVE  Settled'
<1> USE DEF At, Goto, call, built, shared
<1>e. Handle(r)
  BY DEF Handle, Clean
<1>h. pc[r] \in Active /\ Halves(r) /\ ExactBut(cut \cup Spoils(r))
  BY <1>e, OnlyItself DEF Exact, Settled
<1>c. cut' = cut \ Heals(r)
  BY DEF Track
<1>1. CASE CleanOne(r)
  <2>1. PICK v \in left[r] :
            /\ Present(v)
            /\ cms' = [cms EXCEPT ![v] = Nothing]
            /\ left' = [left EXCEPT ![r] = @ \ {v}]
            /\ UNCHANGED <<online, index, fresh, pc, call, seen, todo, offered, built>>
    BY <1>1 DEF CleanOne
  <2>2. pc[r] = "clean"
    BY <1>1 DEF CleanOne
  <2>3. v \in Versions /\ left'[r] = left[r] \ {v}
    BY <2>1 DEF Typed, TypeOK
  <2>4. \A u \in Versions : Present(u)' <=> Present(u) /\ u # v
    BY <2>1, <2>3 DEF Present, Typed, TypeOK
  <2>5. seen[r] = index /\ index \in SUBSET Versions
    BY <1>h, <2>2 DEF Halves, Cleaning, Typed, TypeOK
  <2>6. \A u \in seen[r] \ left[r] : ~Present(u)
    BY <1>h, <2>2 DEF Halves
  <2>7. Halves(r)'
    <3>1. left[r] \subseteq seen[r]
      BY <1>h, <2>2 DEF Halves
    <3>2. \A u \in seen[r] \ left'[r] : ~Present(u)'
      BY <2>3, <2>4, <2>5, <2>6
    <3> QED BY <2>1, <2>2, <2>3, <2>5, <3>1, <3>2 DEF Halves, Cleaning
  <2>8. Spoils(r) = seen[r] \ left[r] /\ Spoils(r)' = seen[r] \ left'[r] /\ Heals(r) = {}
    BY <2>1, <2>2, SpoilsAt, SpoilsNext, HealsAt
  <2>9. ExactBut(cut \cup Spoils(r))'
    <3> SUFFICES ASSUME NEW u \in Versions, u \notin cut, u \notin seen[r] \ left'[r]
                 PROVE  u \in index <=> Present(u)'
      BY <1>c, <2>1, <2>8 DEF ExactBut
    <3>1. u \notin seen[r] \ left[r]
      BY <2>3
    <3>2. u \in index <=> Present(u)
      BY <1>h, <2>8, <3>1 DEF ExactBut
    <3>3. u = v => u \notin seen[r]
      BY <2>3
    <3> QED BY <2>4, <2>5, <3>2, <3>3
  <2> QED BY <1>e, <2>7, <2>9, Turn DEF Exact
<1>2. CASE UpdateConfig(r)
  <2>1. pc[r] = "update" /\ Updated(r, {})
    BY <1>2 DEF UpdateConfig
  <2>2. index' = {} /\ cms' = cms /\ cut' = cut \ seen[r]
    BY <1>c, <2>1, HealsAt DEF Updated
  <2>3. seen[r] = index /\ \A u \in index : ~Present(u)
    BY <1>h, <2>1 DEF Halves, Cleaning
  <2>4. pc'[r] \in {"lookup", "ok", "resolve", "error"}
    BY <2>1, AfterListingTyped DEF Updated, NextStore, Typed, TypeOK
  <2>5. Halves(r)' /\ Spoils(r)' = {}
    BY <2>4, SpoilsNext DEF Halves, Cleaning
  <2>6. ExactBut(cut \cup Spoils(r))'
    <3> SUFFICES ASSUME NEW u \in Versions, u \notin cut \ seen[r]
                 PROVE  ~Present(u)
      BY <2>2, <2>5 DEF ExactBut, Present
    <3>1. CASE u \in seen[r]
      BY <2>3, <3>1
    <3>2. CASE u \notin seen[r]
      <4>1. u \notin cut \cup Spoils(r)
        BY <2>1, <3>2, SpoilsAt
      <4> QED BY <1>h, <2>3, <3>2, <4>1 DEF ExactBut
    <3> QED BY <3>1, <3>2
  <2> QED BY <1>e, <2>5, <2>6, Turn DEF Exact
<1> QED BY <1>1, <1>2

(* An entry is stored: the ConfigMap first, then its key.                   *)
LEMMA StoresSettled ==
    ASSUME Typed, Exact, NEW r \in Requests, ~Fail(r), Track(r),
           DeleteOld(r) \/ CreateNew(r) \/ Publish(r)
    PROVE  Settled'
<1> USE DEF At, Goto, call, built, shared
<1>e. Handle(r)
  BY DEF Handle, Store
<1>h. pc[r] \in Active /\ Halves(r) /\ ExactBut(cut \cup Spoils(r))
  BY <1>e, OnlyItself DEF Exact, Settled
<1>c. cut' = cut \ Heals(r)
  BY DEF Track
<1>t. Head1(r).ver \in Versions /\ Head1(r).file \in Files
  BY HeadEntry DEF DeleteOld, CreateNew, Publish, Typed, Placed, Storing
<1>v. PICK v \in Versions : v = Head1(r).ver
  BY <1>t
<1>1. CASE DeleteOld(r)
  <2>1. /\ pc[r] = "delete" /\ pc'[r] = "make" /\ cms' = [cms EXCEPT ![v] = Nothing]
        /\ UNCHANGED <<index, todo>>
    BY <1>v, <1>1 DEF DeleteOld, Typed, TypeOK
  <2>2. \A u \in Versions : Present(u)' <=> Present(u) /\ u # v
    BY <1>v, <2>1 DEF Present, Typed, TypeOK
  <2>3. Head1(r)' = Head1(r)
    BY <2>1 DEF Head1
  <2>4. Halves(r)'
    <3>1. ~Present(v)'
      BY <1>v, <2>2
    <3> QED BY <1>v, <2>1, <2>3, <3>1 DEF Halves, Cleaning
  <2>5. Spoils(r)' = {v} \cap index /\ Spoils(r) = {} /\ Heals(r) = {}
    BY <1>v, <2>1, <2>3, SpoilsAt, SpoilsNext, HealsAt
  <2>6. ExactBut(cut \cup Spoils(r))'
    <3> SUFFICES ASSUME NEW u \in Versions, u \notin cut, u \notin {v} \cap index
                 PROVE  u \in index <=> Present(u)'
      BY <1>c, <2>1, <2>5 DEF ExactBut
    <3>1. u \in index <=> Present(u)
      BY <1>h, <2>5 DEF ExactBut
    <3> QED BY <2>2, <3>1
  <2> QED BY <1>e, <2>4, <2>6, Turn DEF Exact
<1>2. CASE CreateNew(r)
  <2>1. /\ pc[r] = "make" /\ pc'[r] = "publish" /\ cms' = [cms EXCEPT ![v] = Head1(r).file]
        /\ UNCHANGED <<index, todo>>
    BY <1>v, <1>2 DEF CreateNew, Typed, TypeOK
  <2>2. \A u \in Versions : Present(u)' <=> Present(u) \/ u = v
    BY <1>v, <1>t, <2>1, NothingAssumption DEF Present, Typed, TypeOK
  <2>3. Head1(r)' = Head1(r)
    BY <2>1 DEF Head1
  <2>4. Halves(r)'
    <3>1. Present(v)'
      BY <1>v, <2>2
    <3> QED BY <1>v, <2>1, <2>3, <3>1 DEF Halves, Cleaning
  <2>5. Spoils(r)' = {v} \ index /\ Spoils(r) = {v} \cap index /\ Heals(r) = {}
    BY <1>v, <2>1, <2>3, SpoilsAt, SpoilsNext, HealsAt
  <2>6. ExactBut(cut \cup Spoils(r))'
    <3> SUFFICES ASSUME NEW u \in Versions, u \notin cut, u \notin {v} \ index
                 PROVE  u \in index <=> Present(u)'
      BY <1>c, <2>1, <2>5 DEF ExactBut
    <3>1. CASE u = v
      BY <1>v, <2>2, <3>1
    <3>2. CASE u # v
      <4>1. u \in index <=> Present(u)
        BY <1>h, <2>5, <3>2 DEF ExactBut
      <4> QED BY <2>2, <3>2, <4>1
    <3> QED BY <3>1, <3>2
  <2> QED BY <1>e, <2>4, <2>6, Turn DEF Exact
<1>3. CASE Publish(r)
  <2>1. /\ pc[r] = "publish" /\ index' = index \cup {v} /\ cms' = cms
        /\ cut' = cut \ {v}
    BY <1>v, <1>3, <1>c, HealsAt DEF Publish
  <2>2. pc'[r] \in {"lookup", "ok", "resolve", "error"}
    BY <1>v, <1>3, AfterListingTyped DEF Publish, NextStore, Typed, TypeOK
  <2>3. Halves(r)' /\ Spoils(r)' = {}
    BY <1>v, <2>2, SpoilsNext DEF Halves, Cleaning
  <2>4. Present(v)
    BY <1>v, <1>h, <2>1 DEF Halves
  <2>5. ExactBut(cut \cup Spoils(r))'
    <3> SUFFICES ASSUME NEW u \in Versions, u \notin cut \ {v}
                 PROVE  u \in index \cup {v} <=> Present(u)
      BY <2>1, <2>3 DEF ExactBut, Present
    <3>1. CASE u = v
      BY <2>4, <3>1
    <3>2. CASE u # v
      <4>1. u \notin cut \cup Spoils(r)
        BY <1>v, <2>1, <3>2, SpoilsAt
      <4> QED BY <1>h, <3>2, <4>1 DEF ExactBut
    <3> QED BY <3>1, <3>2
  <2> QED BY <1>e, <2>3, <2>5, Turn DEF Exact
<1> QED BY <1>1, <1>2, <1>3

LEMMA ExactStep == Typed /\ Exact /\ [ServiceNext]_<<vars, service>> => Exact'
<1> SUFFICES ASSUME Typed, Exact, [ServiceNext]_<<vars, service>> PROVE Exact'
  OBVIOUS
<1>1. CASE ServiceNext
  <2>1. Sole'
    BY <1>1, SoleKept DEF Exact
  <2>2. ASSUME NEW r \in Requests, Begin(r), AtRest, UNCHANGED cut PROVE Settled'
    BY <2>2, BeginSettled
  <2>3. ASSUME NEW r \in Requests, Handle(r), Track(r) PROVE Settled'
    <3>1. CASE Fail(r)
      BY <2>3, <3>1, FailSettled
    <3>2. CASE ~Fail(r)
      BY <2>3, <3>2, ReadsSettled, CleansSettled, StoresSettled DEF Handle, Clean, Store
    <3> QED BY <3>1, <3>2
  <2>4. ASSUME NEW r \in Requests, Abort(r), Track(r) PROVE Settled'
    BY <2>4, FailSettled DEF Abort
  <2>5. ASSUME SwitchMode, UNCHANGED cut PROVE Settled'
    BY <2>5 DEF SwitchMode, Exact, Settled, AtRest, Halves, Spoils, ExactBut, Present, Head1, At
  <2>6. Settled'
    BY <1>1, <2>2, <2>3, <2>4, <2>5 DEF ServiceNext
  <2> QED BY <2>1, <2>6 DEF Exact
<1>2. CASE UNCHANGED <<vars, service>>
  BY <1>2 DEF vars, service, shared, call, built, Exact, Sole, Settled, AtRest, Halves, Spoils,
              ExactBut, Present, Head1, At
<1> QED BY <1>1, <1>2

LEMMA InitExact == ServiceInit => Exact
<1> SUFFICES ASSUME ServiceInit PROVE Exact
  OBVIOUS
<1>1. \A r \in Requests : pc[r] \in Rest
  BY DEF ServiceInit, Init, Rest
<1>2. ExactBut(cut)
  BY DEF ServiceInit, Init, ExactBut, Present
<1> QED BY <1>1, <1>2, ActiveRest DEF Exact, Sole, Settled

LEMMA ExactHolds == ServiceSpec => [](Typed /\ Exact)
  BY ServiceTyped, InitExact, ExactStep, PTL DEF ServiceSpec

(* Between requests a version is in the index just if it has its ConfigMap, *)
(* but for those that a failed request left half done: whatever the calls   *)
(* that fail, the kills and the edits of the mode.                          *)
THEOREM HalvesAgree == ServiceSpec => []CatalogExact
<1>1. Typed /\ Exact => CatalogExact
  BY DEF Exact, Settled, CatalogExact, ExactBut
<1> QED BY <1>1, ExactHolds, PTL

-----------------------------------------------------------------------------
(* WHAT A LOAD MAKES OF THE CATALOG                                         *)

(* Of the entries for a version there is a last one: that which LastFile    *)
(* takes.                                                                   *)
LEMMA LastEntry ==
    ASSUME NEW s \in Seq(Entry), NEW v \in ListedVersions(s)
    PROVE  \E i \in DOMAIN s : /\ s[i].ver = v
                               /\ \A j \in DOMAIN s : s[j].ver = v => j <= i
                               /\ LastFile(s, v) = s[i].file
<1> DEFINE T == {Len(s) - i : i \in {j \in DOMAIN s : s[j].ver = v}}
<1>1. Len(s) \in Nat /\ DOMAIN s = 1 .. Len(s)
  OBVIOUS
<1>2. T \subseteq Nat
  BY <1>1
<1>3. T # {}
  BY DEF ListedVersions
<1>4. IsWellFoundedOn(OpToRel(<, Nat), Nat)
  BY NatLessThanWellFounded
<1>5. \E x \in T : \A y \in T : ~(<<y, x>> \in OpToRel(<, Nat))
  <2> HIDE DEF T
  <2> QED BY <1>2, <1>3, <1>4, WFMin
<1>6. PICK x \in T : \A y \in T : ~(<<y, x>> \in OpToRel(<, Nat))
  BY <1>5
<1>7. \A y \in T : ~(y < x)
  BY <1>2, <1>6 DEF OpToRel
<1>8. PICK i \in DOMAIN s : s[i].ver = v /\ x = Len(s) - i
  BY <1>6
<1>9. ASSUME NEW j \in DOMAIN s, s[j].ver = v PROVE j <= i
  <2>1. ~(Len(s) - j < Len(s) - i)
    BY <1>7, <1>8, <1>9
  <2> QED BY <1>1, <2>1
<1> DEFINE Last(l) == s[l].ver = v /\ \A j \in DOMAIN s : s[j].ver = v => j <= l
<1>10. Last(i)
  BY <1>8, <1>9
<1> DEFINE c == CHOOSE l \in DOMAIN s : Last(l)
<1>11. c \in DOMAIN s /\ Last(c)
  BY <1>10
<1>12. LastFile(s, v) = s[c].file
  BY DEF LastFile
<1> QED BY <1>11, <1>12

(* The catalog is what the first n entries of a list make it; the files     *)
(* perhaps but for that of version v.                                       *)
Keys(s, n) == {s[i].ver : i \in 1 .. n}
LastOf(s, n, i) == \A j \in (i + 1) .. n : s[j].ver # s[i].ver
FilesBut(s, n, v) ==
    \A i \in 1 .. n : LastOf(s, n, i) /\ s[i].ver # v => cms[s[i].ver] = s[i].file
FilesAll(s, n) == \A i \in 1 .. n : LastOf(s, n, i) => cms[s[i].ver] = s[i].file

Mirrors(s) == index = ListedVersions(s) /\ \A v \in index : cms[v] = LastFile(s, v)

LEMMA LoadedLast ==
    ASSUME NEW s \in Seq(Entry), NEW files,
           \A i \in 1 .. Len(s) : LastOf(s, Len(s), i) => files[s[i].ver] = s[i].file
    PROVE  /\ Keys(s, Len(s)) = ListedVersions(s)
           /\ \A v \in ListedVersions(s) : files[v] = LastFile(s, v)
<1>1. Len(s) \in Nat /\ DOMAIN s = 1 .. Len(s)
  OBVIOUS
<1>2. Keys(s, Len(s)) = ListedVersions(s)
  BY <1>1 DEF Keys, ListedVersions
<1>3. ASSUME NEW v \in ListedVersions(s) PROVE files[v] = LastFile(s, v)
  <2>1. PICK i \in DOMAIN s : /\ s[i].ver = v
                              /\ \A j \in DOMAIN s : s[j].ver = v => j <= i
                              /\ LastFile(s, v) = s[i].file
    BY LastEntry
  <2>2. LastOf(s, Len(s), i)
    BY <1>1, <2>1 DEF LastOf
  <2> QED BY <1>1, <2>1, <2>2
<1> QED BY <1>2, <1>3

(* How far a request has come with its load.                                *)
Entries(r) == Repo[RemotePath(r)]
Stored(r) == Len(Entries(r)) - Len(todo[r])
Remaining(r) ==
    /\ Len(todo[r]) <= Len(Entries(r))
    /\ \A j \in 1 .. Len(todo[r]) : todo[r][j] = Entries(r)[Stored(r) + j]
Loading(r) ==
    op[r] # "upload" =>
        /\ pc[r] \in {"clean", "update"} => todo[r] = Entries(r)
        /\ pc[r] \in Storing =>
              /\ Remaining(r) /\ index = Keys(Entries(r), Stored(r))
              /\ offered[r] = ListedVersions(Entries(r))
              /\ FilesBut(Entries(r), Stored(r), Head1(r).ver)
        /\ pc[r] = "lookup" => FilesAll(Entries(r), Stored(r))
        /\ pc[r] = "publish" => cms[Head1(r).ver] = Head1(r).file
AllLoading == \A r \in Requests : pc[r] \in Active => Loading(r)

LEMMA EntriesTyped ==
    ASSUME NEW r \in Requests
    PROVE  /\ Entries(r) \in Seq(Entry) /\ Len(Entries(r)) \in Nat
           /\ DOMAIN Entries(r) = 1 .. Len(Entries(r))
           /\ op[r] # "versions" => Entries(r) = Repo["patch"]
<1>1. Entries(r) \in Seq(Entry)
  BY RepoAssumption DEF Entries, RemotePath, Paths
<1> QED BY <1>1 DEF Entries, RemotePath

(* A load starts from nothing.                                              *)
LEMMA LoadStarts ==
    ASSUME Typed, NEW r \in Requests, pc[r] = "update", op[r] # "upload", Loading(r),
           Updated(r, {})
    PROVE  /\ pc'[r] \in {"lookup", "ok", "resolve", "error"}
           /\ pc'[r] # "lookup" => todo[r] = <<>> /\ Mirrors(Entries(r))'
           /\ offered'[r] = ListedVersions(Entries(r))
           /\ pc'[r] = NextStore(r, todo[r], offered'[r])
           /\ Loading(r)'
<1> USE DEF call, shared, built, Goto
<1>1. todo[r] = Entries(r)
  BY DEF Loading
<1>2. /\ index' = {} /\ UNCHANGED <<cms, op, todo>>
      /\ offered'[r] = ListedVersions(Entries(r))
      /\ pc'[r] = NextStore(r, todo[r], offered'[r])
  BY <1>1 DEF Updated, Typed, TypeOK
<1>3. pc'[r] \in {"lookup", "ok", "resolve", "error"} /\ (pc'[r] # "lookup" => todo[r] = <<>>)
  BY <1>2, AfterListingTyped DEF NextStore
<1>4. Entries(r)' = Entries(r) /\ Stored(r)' = 0
  BY <1>1, <1>2, EntriesTyped DEF Entries, RemotePath, Stored
<1>5. Keys(Entries(r), 0) = {} /\ FilesAll(Entries(r), 0)'
  BY DEF Keys, FilesAll
<1>6. Loading(r)'
  <2>1. Remaining(r)'
    BY <1>1, <1>2, <1>4, EntriesTyped DEF Remaining
  <2>2. index' = Keys(Entries(r), Stored(r))'
    BY <1>2, <1>4, <1>5 DEF Keys
  <2>3. FilesAll(Entries(r), Stored(r))' /\ FilesBut(Entries(r), Stored(r), Head1(r).ver)'
    BY <1>4 DEF FilesAll, FilesBut
  <2> QED BY <1>2, <1>3, <1>4, <2>1, <2>2, <2>3 DEF Loading, Storing
<1>7. ASSUME pc'[r] # "lookup" PROVE Mirrors(Entries(r))'
  <2>1. Entries(r) = <<>>
    BY <1>1, <1>3, <1>7
  <2> QED BY <1>2, <1>4, <2>1 DEF Mirrors, ListedVersions
<1> QED BY <1>2, <1>3, <1>6, <1>7

(* Publishing the entry in hand completes the load of one more.             *)
LEMMA LoadGoesOn ==
    ASSUME Typed, NEW r \in Requests, pc[r] = "publish", op[r] # "upload", Loading(r),
           Publish(r)
    PROVE  /\ pc'[r] \in {"lookup", "ok", "resolve", "error"}
           /\ pc'[r] # "lookup" => Mirrors(Entries(r))' /\ Tail(todo[r]) = <<>>
           /\ offered' = offered /\ offered[r] = ListedVersions(Entries(r))
           /\ pc'[r] = NextStore(r, Tail(todo[r]), offered[r])
           /\ Loading(r)'
<1> USE DEF call, shared, built, Goto
<1>s. PICK s \in Seq(Entry) : s = Entries(r) /\ s = Entries(r)'
  <2>1. Entries(r)' = Entries(r)
    BY DEF Publish, Entries, RemotePath
  <2> QED BY <2>1, EntriesTyped
<1>t. /\ Len(s) \in Nat /\ todo[r] # <<>> /\ todo[r] \in Seq(Entry)
      /\ Len(todo[r]) \in Nat /\ Len(todo[r]) >= 1
  <2>1. todo[r] # <<>> /\ todo[r] \in Seq(Entry)
    BY DEF Typed, TypeOK, Placed, Storing
  <2> QED BY <2>1
<1>m. Len(todo[r]) <= Len(s)
  BY <1>s DEF Loading, Storing, Remaining
<1>l. PICK size \in Nat, rest \in Nat : size = Len(s) /\ rest + 1 = Len(todo[r])
  <2>1. Len(todo[r]) - 1 \in Nat /\ (Len(todo[r]) - 1) + 1 = Len(todo[r])
    BY <1>t
  <2> QED BY <1>t, <2>1
<1>n. PICK n \in Nat : n = Stored(r) /\ n + rest + 1 = size
  <2>1. size - (rest + 1) \in Nat /\ (size - (rest + 1)) + rest + 1 = size
    BY <1>l, <1>m
  <2> QED BY <1>s, <1>l, <2>1 DEF Stored
<1>1. /\ Remaining(r) /\ index = Keys(s, n) /\ offered[r] = ListedVersions(s)
      /\ FilesBut(s, n, Head1(r).ver) /\ cms[Head1(r).ver] = Head1(r).file
  BY <1>s, <1>n DEF Loading, Storing
<1>r. \A j \in 1 .. Len(todo[r]) : todo[r][j] = s[n + j]
  BY <1>s, <1>n, <1>1 DEF Remaining
<1>2. n + 1 <= Len(s) /\ Head1(r) = s[n + 1]
  <2>1. Head1(r) = todo[r][1] /\ 1 \in 1 .. Len(todo[r])
    BY <1>t DEF Head1
  <2>2. n + 1 <= size
    BY <1>n
  <2>3. todo[r][1] = s[n + 1]
    BY <1>r, <2>1
  <2> QED BY <1>l, <2>1, <2>2, <2>3
<1>3. /\ index' = index \cup {s[n + 1].ver} /\ UNCHANGED <<cms, op, offered>>
      /\ todo'[r] = Tail(todo[r])
      /\ pc'[r] = NextStore(r, Tail(todo[r]), offered[r])
  BY <1>2 DEF Publish, Typed, TypeOK
<1>4. /\ Tail(todo[r]) \in Seq(Entry) /\ Len(Tail(todo[r])) = rest
      /\ \A j \in 1 .. Len(Tail(todo[r])) : Tail(todo[r])[j] = todo[r][j + 1]
  <2>1. Len(Tail(todo[r])) = (rest + 1) - 1
    BY <1>t, <1>l
  <2>2. \A j \in 1 .. Len(Tail(todo[r])) : Tail(todo[r])[j] = todo[r][j + 1]
    BY <1>t
  <2> QED BY <1>t, <2>1, <2>2
<1>5. Stored(r)' = n + 1
  <2>1. Stored(r)' = size - rest
    BY <1>s, <1>l, <1>3, <1>4 DEF Stored
  <2> QED BY <1>n, <2>1
<1>6. Remaining(r)'
  <2>1. ASSUME NEW j \in 1 .. Len(Tail(todo[r]))
        PROVE  Tail(todo[r])[j] = s[(n + 1) + j]
    <3>1. j + 1 \in 1 .. Len(todo[r]) /\ n + (j + 1) = (n + 1) + j
      BY <1>l, <1>4
    <3>2. todo[r][j + 1] = s[n + (j + 1)]
      BY <1>r, <3>1
    <3> QED BY <1>4, <3>1, <3>2
  <2>2. Len(Tail(todo[r])) <= Len(s)
    BY <1>l, <1>n, <1>4
  <2> QED BY <1>s, <1>3, <1>5, <2>1, <2>2 DEF Remaining
<1>7. index' = Keys(s, n + 1)
  <2>1. 1 .. (n + 1) = (1 .. n) \cup {n + 1}
    BY <1>2
  <2> QED BY <1>1, <1>3, <2>1 DEF Keys
<1>8. FilesAll(s, n + 1)
  <2> SUFFICES ASSUME NEW i \in 1 .. (n + 1), LastOf(s, n + 1, i)
               PROVE  cms[s[i].ver] = s[i].file
    BY DEF FilesAll
  <2>1. CASE i = n + 1
    BY <1>1, <1>2, <2>1
  <2>2. CASE i # n + 1
    <3>1. i \in 1 .. n /\ n + 1 \in (i + 1) .. (n + 1)
      BY <1>2, <2>2
    <3>2. s[i].ver # s[n + 1].ver /\ LastOf(s, n, i)
      BY <1>2, <3>1 DEF LastOf
    <3> QED BY <1>1, <1>2, <3>1, <3>2 DEF FilesBut
  <2> QED BY <2>1, <2>2
<1>9. pc'[r] \in {"lookup", "ok", "resolve", "error"}
      /\ (pc'[r] # "lookup" => Tail(todo[r]) = <<>>)
  BY <1>3, AfterListingTyped DEF NextStore
<1>10. FilesAll(Entries(r), Stored(r))' /\ index' = Keys(Entries(r), Stored(r))'
  BY <1>s, <1>3, <1>5, <1>7, <1>8 DEF FilesAll, Keys, LastOf
<1>11. FilesBut(Entries(r), Stored(r), Head1(r).ver)'
  BY <1>10 DEF FilesBut, FilesAll
<1>12. Loading(r)'
  BY <1>s, <1>1, <1>3, <1>6, <1>9, <1>10, <1>11 DEF Loading, Storing
<1>13. ASSUME pc'[r] # "lookup" PROVE Mirrors(Entries(r))'
  <2>1. rest = 0
    <3>1. Len(<<>>) = 0
      OBVIOUS
    <3>2. Tail(todo[r]) = <<>>
      BY <1>9, <1>13
    <3> QED BY <1>4, <3>1, <3>2
  <2>2. n + 1 = Len(s)
    BY <1>l, <1>n, <2>1
  <2>3. index' = Keys(s, Len(s)) /\ FilesAll(s, Len(s)) /\ cms' = cms
    BY <1>3, <1>7, <1>8, <2>2
  <2>4. Keys(s, Len(s)) = ListedVersions(s)
        /\ \A v \in ListedVersions(s) : cms[v] = LastFile(s, v)
    BY <2>3, LoadedLast DEF FilesAll
  <2> QED BY <1>s, <2>3, <2>4 DEF Mirrors
<1> QED BY <1>s, <1>1, <1>3, <1>9, <1>12, <1>13

(* Replacing one file leaves those of the other versions.                   *)
LEMMA OtherFiles ==
    ASSUME Typed, NEW r \in Requests, todo[r] # <<>>, op[r] # "upload", pc[r] \in Storing,
           Loading(r), NEW file, cms' = [cms EXCEPT ![Head1(r).ver] = file],
           UNCHANGED <<index, op, todo, offered>>
    PROVE  /\ Remaining(r)' /\ index' = Keys(Entries(r), Stored(r))'
           /\ offered'[r] = ListedVersions(Entries(r))'
           /\ FilesBut(Entries(r), Stored(r), Head1(r).ver)'
           /\ cms'[Head1(r)'.ver] = file
<1>s. PICK s \in Seq(Entry) : s = Entries(r) /\ s = Entries(r)'
  <2>1. Entries(r)' = Entries(r)
    BY DEF Entries, RemotePath
  <2> QED BY <2>1, EntriesTyped
<1>n. PICK n : n = Stored(r) /\ n = Stored(r)'
  <2>1. Stored(r)' = Stored(r)
    BY <1>s DEF Stored
  <2> QED BY <2>1
<1>v. PICK v \in Versions : v = Head1(r).ver /\ v = Head1(r)'.ver
  <2>1. Head1(r)' = Head1(r)
    BY DEF Head1
  <2> QED BY <2>1, HeadEntry DEF Typed
<1>1. /\ Remaining(r) /\ index = Keys(s, n) /\ offered[r] = ListedVersions(s)
      /\ FilesBut(s, n, v)
  BY <1>s, <1>n, <1>v DEF Loading
<1>2. Remaining(r)'
  BY <1>s, <1>n, <1>1 DEF Remaining
<1>3. cms' = [cms EXCEPT ![v] = file] /\ cms'[v] = file
  BY <1>v DEF Typed, TypeOK
<1>4. FilesBut(s, n, v)'
  <2> SUFFICES ASSUME NEW i \in 1 .. n, LastOf(s, n, i), s[i].ver # v
               PROVE  cms'[s[i].ver] = s[i].file
    BY DEF FilesBut
  <2>1. cms[s[i].ver] = s[i].file
    BY <1>1 DEF FilesBut
  <2>2. cms'[s[i].ver] = cms[s[i].ver]
    <3>1. cms = [u \in Versions |-> cms[u]]
      BY DEF Typed, TypeOK
    <3>2. CASE s[i].ver \in Versions
      BY <1>3, <3>1, <3>2
    <3>3. CASE s[i].ver \notin Versions
      <4>1. s[i].ver \in Keys(s, n)
        BY DEF Keys
      <4> QED BY <1>1, <3>3, <4>1 DEF Typed, TypeOK
    <3> QED BY <3>2, <3>3
  <2> QED BY <2>1, <2>2
<1>5. index' = Keys(Entries(r), Stored(r))' /\ offered'[r] = ListedVersions(Entries(r))'
  BY <1>s, <1>n, <1>1
<1>6. FilesBut(Entries(r), Stored(r), Head1(r).ver)'
  BY <1>s, <1>n, <1>v, <1>4 DEF FilesBut
<1> QED BY <1>2, <1>3, <1>5, <1>6, <1>v

LEMMA OwnLoading ==
    ASSUME Typed, NEW r \in Requests, Loading(r), Handle(r), pc'[r] \in Active
    PROVE  Loading(r)'
<1> USE DEF At, Goto, call, built, shared
<1>f. ~Fail(r)
  BY DEF Fail, Active, Typed, TypeOK
<1>o. op' = op
  BY <1>f DEF Handle, Clean, Store, Apply, ReadForUpload, ReadSource, FetchIndex,
         CleanOne, CleanDone, UpdateConfig, Updated, Lookup, DeleteOld, CreateNew, Publish,
         Resolve, ApplyVersion, ApplyAddons
<1>e. Entries(r)' = Entries(r)
  BY <1>o DEF Entries, RemotePath
<1>u. CASE op[r] = "upload"
  BY <1>u, <1>o DEF Loading
<1>1. CASE ReadForUpload(r)
  BY <1>1, <1>o DEF ReadForUpload, Loading
<1>2. CASE ReadSource(r) \/ Apply(r)
  <2>1. pc'[r] \in {"fetch", "ok", "resolve", "error", "read", "apply"}
    <3>1. pc \in [Requests -> Active \cup Rest]
      BY DEF Typed, TypeOK
    <3> QED BY <1>2, <1>f, <3>1, AfterListingTyped
            DEF ReadSource, Apply, Resolve, ApplyVersion, ApplyAddons
  <2> QED BY <2>1 DEF Loading, Storing
<1>3. CASE FetchIndex(r)
  <2>1. pc'[r] = "clean" /\ todo'[r] = Entries(r)
    BY <1>3 DEF FetchIndex, Entries, Typed, TypeOK
  <2> QED BY <1>e, <2>1 DEF Loading, Storing
<1>4. CASE CleanOne(r) \/ CleanDone(r)
  <2>1. pc[r] = "clean" /\ pc'[r] \in {"clean", "update"} /\ todo' = todo
    BY <1>4, <1>f DEF CleanOne, CleanDone, Typed, TypeOK
  <2> QED BY <1>e, <1>o, <2>1 DEF Loading, Storing
<1>5. CASE UpdateConfig(r) /\ op[r] # "upload"
  <2>1. pc[r] = "update" /\ Updated(r, {})
    BY <1>5, <1>f DEF UpdateConfig
  <2> QED BY <1>5, <2>1, LoadStarts
<1>6. CASE Lookup(r) /\ op[r] # "upload"
  <2>1. /\ pc[r] = "lookup" /\ pc'[r] \in {"delete", "make"}
        /\ UNCHANGED <<index, cms, todo, offered>>
    BY <1>6 DEF Lookup, Typed, TypeOK
  <2>2. Stored(r)' = Stored(r) /\ Head1(r)' = Head1(r) /\ (Remaining(r)' <=> Remaining(r))
    BY <1>e, <2>1 DEF Stored, Head1, Remaining
  <2>3. FilesBut(Entries(r), Stored(r), Head1(r).ver)'
    BY <1>6, <1>e, <2>1, <2>2 DEF Loading, FilesBut, Storing
  <2>4. index' = Keys(Entries(r), Stored(r))'
    BY <1>6, <1>e, <2>1, <2>2 DEF Loading, Keys, Storing
  <2> QED BY <1>6, <1>e, <2>1, <2>2, <2>3, <2>4 DEF Loading, Storing
<1>7. CASE DeleteOld(r) /\ op[r] # "upload"
  <2>1. /\ pc[r] = "delete" /\ pc'[r] = "make" /\ todo[r] # <<>>
        /\ cms' = [cms EXCEPT ![Head1(r).ver] = Nothing]
        /\ UNCHANGED <<index, todo, offered>>
    BY <1>7, <1>f DEF DeleteOld, Typed, TypeOK, Placed, Storing
  <2>2. pc[r] \in Storing
    BY <2>1 DEF Storing
  <2> QED BY <1>7, <1>o, <2>1, <2>2, OtherFiles DEF Loading
<1>8. CASE CreateNew(r) /\ op[r] # "upload"
  <2>1. /\ pc[r] = "make" /\ pc'[r] = "publish" /\ todo[r] # <<>>
        /\ cms' = [cms EXCEPT ![Head1(r).ver] = Head1(r).file]
        /\ UNCHANGED <<index, todo, offered>>
    BY <1>8, <1>f DEF CreateNew, Typed, TypeOK, Placed, Storing
  <2>2. pc[r] \in Storing /\ Head1(r)' = Head1(r)
    BY <2>1 DEF Storing, Head1
  <2> QED BY <1>8, <1>o, <2>1, <2>2, OtherFiles DEF Loading
<1>9. CASE Publish(r) /\ op[r] # "upload"
  BY <1>9, LoadGoesOn DEF Publish
<1> QED BY <1>u, <1>1, <1>2, <1>3, <1>4, <1>5, <1>6, <1>7, <1>8, <1>9
        DEF Handle, Clean, Store

LEMMA LoadingStep ==
    ASSUME Typed, Sole, AllLoading, [ServiceNext]_<<vars, service>>
    PROVE  AllLoading'
<1> SUFFICES ASSUME NEW r \in Requests, pc'[r] \in Active PROVE Loading(r)'
  BY DEF AllLoading
<1>1. CASE \E q \in Requests : (Begin(q) /\ AtRest) \/ Handle(q) \/ Abort(q)
  <2>1. PICK q \in Requests : (Begin(q) /\ AtRest) \/ Handle(q) \/ Abort(q)
    BY <1>1
  <2>2. q = r
    BY <2>1, OnlyItself, ActiveRest DEF Sole, AtRest
  <2>3. CASE Begin(r)
    BY <2>3 DEF Begin, Goto, Loading, Storing, Typed, TypeOK
  <2>4. CASE Handle(r)
    BY <2>4, OnlyItself, OwnLoading DEF AllLoading
  <2>5. CASE Abort(r)
    BY <2>5 DEF Abort, Fail, Goto, Active, Typed, TypeOK
  <2> QED BY <2>1, <2>2, <2>3, <2>4, <2>5
<1>2. CASE SwitchMode \/ UNCHANGED <<vars, service>>
  <2>1. UNCHANGED <<index, cms, pc, op, todo, offered>>
    BY <1>2 DEF SwitchMode, vars, shared, call
  <2>2. Loading(r)
    BY <2>1 DEF AllLoading
  <2>3. Entries(r)' = Entries(r) /\ Stored(r)' = Stored(r) /\ Head1(r)' = Head1(r)
    BY <2>1 DEF Entries, RemotePath, Stored, Head1
  <2>4. /\ Remaining(r)' <=> Remaining(r)
        /\ FilesBut(Entries(r), Stored(r), Head1(r).ver)' <=> FilesBut(Entries(r), Stored(r), Head1(r).ver)
        /\ FilesAll(Entries(r), Stored(r))' <=> FilesAll(Entries(r), Stored(r))
        /\ Keys(Entries(r), Stored(r))' = Keys(Entries(r), Stored(r))
    BY <2>1, <2>3 DEF Remaining, FilesBut, FilesAll, Keys
  <2> QED BY <2>1, <2>2, <2>3, <2>4 DEF Loading
<1> QED BY <1>1, <1>2 DEF ServiceNext

LEMMA LoadingHolds == ServiceSpec => [](Typed /\ Exact /\ AllLoading)
<1>1. ServiceInit => AllLoading
  BY ActiveRest DEF ServiceInit, Init, AllLoading, Rest
<1>2. Typed /\ Exact /\ AllLoading /\ [ServiceNext]_<<vars, service>> => AllLoading'
  BY LoadingStep DEF Exact
<1> QED BY <1>1, <1>2, ExactHolds, PTL DEF ServiceSpec
(* A request answered with success was in progress, and its handler made    *)
(* the step.                                                                *)
LEMMA Answered ==
    ASSUME Typed, [ServiceNext]_<<vars, service>>, NEW r \in Requests,
           ~At(r, "ok"), pc'[r] = "ok"
    PROVE  /\ Handle(r) /\ ~Fail(r) /\ pc[r] \in Active
           /\ UNCHANGED <<online, call, disturbed>>
<1> USE DEF At, Goto, call, shared, built
<1>1. Handle(r) /\ UNCHANGED disturbed
  <2>1. CASE SwitchMode
    BY <2>1 DEF SwitchMode
  <2>2. CASE \E q \in Requests : \/ Begin(q) \/ Abort(q)
                                 \/ Handle(q) /\ UNCHANGED disturbed
    <3>1. PICK q \in Requests : Begin(q) \/ Abort(q) \/ (Handle(q) /\ UNCHANGED disturbed)
      BY <2>2
    <3>2. q = r
      BY <3>1, OnlyItself
    <3>3. ~(Begin(r) \/ Abort(r))
      BY DEF Begin, Abort, Fail, Typed, TypeOK
    <3> QED BY <3>1, <3>2, <3>3
  <2>3. CASE UNCHANGED <<vars, service>>
    BY <2>3 DEF vars
  <2> QED BY <2>1, <2>2, <2>3 DEF ServiceNext
<1>2. ~Fail(r)
  BY DEF Fail, Typed, TypeOK
<1>3. UNCHANGED <<online, call>>
  BY <1>1, <1>2 DEF Handle, Clean, Store, Apply, ReadForUpload, ReadSource, FetchIndex,
         CleanOne, CleanDone, UpdateConfig, Updated, Lookup, DeleteOld, CreateNew, Publish,
         Resolve, ApplyVersion, ApplyAddons
<1> QED BY <1>1, <1>2, <1>3, OnlyItself

(* Online a listing ends where there is nothing to load, or with the last   *)
(* entry.                                                                   *)
LEMMA MirroredStep ==
    ASSUME Typed, AllLoading, [ServiceNext]_<<vars, service>>, NEW r \in Requests,
           ~At(r, "ok"), pc'[r] = "ok", op[r] \in Listings, online
    PROVE  /\ Mirrors(Entries(r))' /\ Entries(r)' = Entries(r)
           /\ offered'[r] = ListedVersions(Entries(r))
<1> USE DEF At, Goto, call, shared, built
<1>1. /\ Handle(r) /\ ~Fail(r) /\ Loading(r) /\ op' = op
      /\ op[r] # "upload" /\ op[r] # "create"
  BY Answered DEF AllLoading, Listings
<1>2. Entries(r)' = Entries(r)
  BY <1>1 DEF Entries, RemotePath
<1>3. CASE UpdateConfig(r)
  <2>1. pc[r] = "update" /\ Updated(r, {})
    BY <1>1, <1>3 DEF UpdateConfig
  <2> QED BY <1>1, <1>2, <2>1, LoadStarts
<1>4. CASE Publish(r)
  <2>1. pc[r] = "publish"
    BY <1>4 DEF Publish
  <2> QED BY <1>1, <1>2, <1>4, <2>1, LoadGoesOn
<1>5. CASE ReadForUpload(r) \/ ReadSource(r) \/ FetchIndex(r) \/ CleanOne(r) \/ CleanDone(r)
  BY <1>1, <1>5 DEF ReadForUpload, ReadSource, FetchIndex, CleanOne, CleanDone, Typed, TypeOK
<1>6. CASE Lookup(r) \/ DeleteOld(r) \/ CreateNew(r)
  BY <1>1, <1>6 DEF Lookup, DeleteOld, CreateNew, Typed, TypeOK
<1>7. CASE Apply(r)
  BY <1>1, <1>7 DEF Apply, Resolve, ApplyVersion, ApplyAddons, Typed, Placed
<1> QED BY <1>1, <1>3, <1>4, <1>5, <1>6, <1>7 DEF Handle, Clean, Store

(* A listing answered online has made the catalog what the remote index     *)
(* lists, each version with the file listed last, whatever was there.       *)
THEOREM ListingsMirror == ServiceSpec => RepoMirrored
<1> DEFINE Mirrored ==
      \A r \in Requests :
        ~At(r, "ok") /\ pc'[r] = "ok" /\ op[r] \in Listings /\ online =>
            LET entries == Repo[RemotePath(r)] IN
            /\ offered[r]' = ListedVersions(entries) /\ index' = offered[r]'
            /\ \A v \in index' : cms'[v] = LastFile(entries, v)
<1>1. Typed /\ AllLoading /\ [ServiceNext]_<<vars, service>> => Mirrored
  <2> SUFFICES ASSUME Typed, AllLoading, [ServiceNext]_<<vars, service>>,
                      NEW r \in Requests,
                      ~At(r, "ok"), pc'[r] = "ok", op[r] \in Listings, online
               PROVE  /\ offered[r]' = ListedVersions(Repo[RemotePath(r)])
                      /\ index' = offered[r]'
                      /\ \A v \in index' : cms'[v] = LastFile(Repo[RemotePath(r)], v)
    OBVIOUS
  <2> QED BY MirroredStep DEF Mirrors, Entries
<1>2. Typed /\ AllLoading /\ [ServiceNext]_<<vars, service>> => [Mirrored]_vars
  BY <1>1
<1> QED BY <1>2, LoadingHolds, PTL DEF ServiceSpec, RepoMirrored
-----------------------------------------------------------------------------
(* WHAT A CREATE MAKES OF THE CATALOG                                       *)

(* What a create that nothing disturbed knows: its copy of bke-config can   *)
(* be written back; offline it never leaves the path of a read; its version *)
(* was found in a list that is still the catalog; and the file that gave    *)
(* the component versions is still that of the version asked for.           *)
Created(r) ==
    /\ online /\ pc[r] \in Cleaning => r \in fresh
    /\ ~online => pc[r] \in {"read", "resolve", "apply"}
    /\ pc[r] \in {"resolve", "apply"} =>
          want[r] \in Source /\ (online => Mirrors(Repo["patch"]))
    /\ stage[r] = "version" => want[r] = asked[r]
    /\ stage[r] = "addons" =>
          /\ asked[r] \in Source /\ base[r] = FileFor(asked[r]) /\ base[r] \in Patches
          /\ want[r] = Declares[base[r]]
AllCreated ==
    \A r \in Requests \ disturbed : pc[r] \in Active /\ op[r] = "create" => Created(r)

(* Where a create finds its version and its file.                           *)
LEMMA FoundAs ==
    ASSUME NEW v \in Source, online => Mirrors(Repo["patch"])
    PROVE  v \in index /\ FileFor(v) = cms[v]
  BY DEF Source, FileFor, Mirrors

LEMMA SourceKept ==
    ASSUME UNCHANGED online, online \/ UNCHANGED <<index, cms>>
    PROVE  Source' = Source /\ \A v : FileFor(v)' = FileFor(v)
  BY DEF Source, FileFor

(* The steps of a create in its loop and before its list is there.          *)
LEMMA CreatedLoads ==
    ASSUME Typed, NEW r \in Requests, op[r] = "create", Created(r), Loading(r),
           ReadSource(r) \/ Clean(r) \/ Store(r), pc'[r] \in Active
    PROVE  Created(r)'
<1> USE DEF At, Goto, call, shared, built
<1>f. ~Fail(r)
  BY DEF Fail, Active, Typed, TypeOK
<1>1. UNCHANGED <<online, op, asked, want, stage, base>>
  BY <1>f DEF Clean, Store, ReadSource, FetchIndex, CleanOne, CleanDone, UpdateConfig,
              Updated, Lookup, DeleteOld, CreateNew, Publish
<1>2. Entries(r) = Repo["patch"] /\ Entries(r)' = Repo["patch"]
  BY <1>1, EntriesTyped DEF Entries, RemotePath
<1>3. online \/ ReadSource(r)
  <2>1. pc[r] \notin {"read", "resolve", "apply"} \/ ReadSource(r)
    BY DEF Clean, Store, FetchIndex, CleanOne, CleanDone, UpdateConfig, Lookup, DeleteOld,
           CreateNew, Publish
  <2> QED BY <2>1 DEF Created
<1>4. Source' = Source /\ \A v : FileFor(v)' = FileFor(v)
  <2>1. online \/ UNCHANGED <<index, cms>>
    BY <1>3 DEF ReadSource
  <2> QED BY <1>1, <2>1, SourceKept
<1>5. ASSUME /\ online /\ pc'[r] \in Cleaning => r \in fresh'
             /\ ~online => pc'[r] \in {"read", "resolve", "apply"}
             /\ pc'[r] \in {"resolve", "apply"} =>
                    want[r] \in Source /\ (online => Mirrors(Repo["patch"])')
      PROVE  Created(r)'
  <2>1. /\ stage'[r] = "version" => want'[r] = asked'[r]
        /\ stage'[r] = "addons" =>
              /\ asked'[r] \in Source' /\ base'[r] = FileFor(asked[r])'
              /\ base'[r] \in Patches /\ want'[r] = Declares[base'[r]]
    BY <1>1, <1>4 DEF Created
  <2> QED BY <1>1, <1>4, <1>5, <2>1 DEF Created
<1>6. CASE ReadSource(r)
  <2>1. pc'[r] = IF online THEN "fetch" ELSE AfterListing(r, index)
    BY <1>6 DEF ReadSource, Typed, TypeOK
  <2>2. CASE online
    BY <1>5, <1>6, <2>1, <2>2 DEF ReadSource, Cleaning
  <2>3. CASE ~online
    <3>1. pc'[r] = "resolve" /\ want[r] \in index
      BY <2>1, <2>3 DEF AfterListing, Active
    <3> QED BY <1>5, <2>3, <3>1 DEF Source, Cleaning
  <2> QED BY <2>2, <2>3
<1>7. CASE FetchIndex(r) \/ CleanOne(r) \/ CleanDone(r)
  <2>1. pc[r] \in Cleaning /\ pc'[r] \in {"clean", "update"} /\ fresh' = fresh
    BY <1>7, <1>f DEF FetchIndex, CleanOne, CleanDone, Cleaning, Typed, TypeOK
  <2>2. online /\ r \in fresh
    BY <2>1 DEF Created, Cleaning
  <2> QED BY <1>5, <2>1, <2>2
<1>8. CASE Lookup(r) \/ DeleteOld(r) \/ CreateNew(r)
  <2>1. pc[r] \in Storing /\ pc'[r] \in {"delete", "make", "publish"}
    BY <1>8, <1>f DEF Lookup, DeleteOld, CreateNew, Storing, Typed, TypeOK
  <2>2. online
    BY <2>1 DEF Created, Storing
  <2> QED BY <1>5, <2>1, <2>2 DEF Cleaning
<1>9. ASSUME pc'[r] \in {"lookup", "ok", "resolve", "error"}, online,
             pc'[r] # "lookup" => Mirrors(Repo["patch"])',
             pc'[r] = "resolve" => want[r] \in ListedVersions(Repo["patch"])
      PROVE  Created(r)'
  BY <1>5, <1>9 DEF Source, Cleaning
<1>10. CASE UpdateConfig(r)
  <2>1. pc[r] = "update" /\ Updated(r, {}) /\ online
    BY <1>10, <1>f DEF UpdateConfig, Created
  <2>2. /\ pc'[r] \in {"lookup", "ok", "resolve", "error"}
        /\ pc'[r] # "lookup" => todo[r] = <<>> /\ Mirrors(Entries(r))'
        /\ offered'[r] = ListedVersions(Entries(r))
        /\ pc'[r] = NextStore(r, todo[r], offered'[r])
    BY <2>1, LoadStarts
  <2>3. Mirrors(Entries(r))' => Mirrors(Repo["patch"])'
    BY <1>2 DEF Mirrors
  <2>4. pc'[r] = "resolve" => want[r] \in offered'[r]
    BY <2>2 DEF NextStore, AfterListing
  <2> QED BY <1>2, <1>9, <2>1, <2>2, <2>3, <2>4
<1>11. CASE Publish(r)
  <2>1. pc[r] = "publish" /\ online
    BY <1>11 DEF Publish, Created
  <2>2. /\ pc'[r] \in {"lookup", "ok", "resolve", "error"}
        /\ pc'[r] # "lookup" => Mirrors(Entries(r))' /\ Tail(todo[r]) = <<>>
        /\ offered[r] = ListedVersions(Entries(r))
        /\ pc'[r] = NextStore(r, Tail(todo[r]), offered[r])
    BY <1>11, <2>1, LoadGoesOn
  <2>3. Mirrors(Entries(r))' => Mirrors(Repo["patch"])'
    BY <1>2 DEF Mirrors
  <2>4. pc'[r] = "resolve" => want[r] \in offered[r]
    BY <2>2 DEF NextStore, AfterListing
  <2> QED BY <1>2, <1>9, <2>1, <2>2, <2>3, <2>4
<1> QED BY <1>6, <1>7, <1>8, <1>10, <1>11 DEF Clean, Store

(* The steps of a create that has its list.                                 *)
LEMMA CreatedApplies ==
    ASSUME Typed, NEW r \in Requests, op[r] = "create", Created(r), Apply(r),
           pc'[r] \in Active
    PROVE  Created(r)'
<1> USE DEF At, Goto, call, shared, built
<1>f. ~Fail(r) /\ pc'[r] # "ok" /\ pc'[r] # "error"
  BY DEF Fail, Active, Typed, TypeOK
<1>1. UNCHANGED <<online, index, cms, fresh, op, asked>>
  BY <1>f DEF Apply, Resolve, ApplyVersion, ApplyAddons
<1>2. Source' = Source /\ \A v : FileFor(v)' = FileFor(v)
  BY <1>1, SourceKept
<1>3. pc[r] \in {"resolve", "apply"} /\ want[r] \in Source
      /\ (online => Mirrors(Repo["patch"]))
  BY DEF Apply, Resolve, ApplyVersion, ApplyAddons, Created
<1>4. Mirrors(Repo["patch"])' <=> Mirrors(Repo["patch"])
  BY <1>1 DEF Mirrors
<1>5. CASE Resolve(r)
  <2>1. pc'[r] = "apply" /\ UNCHANGED <<want, stage, base>>
    <3>1. pc'[r] \in {"apply", "error"}
      BY <1>5 DEF Resolve, Typed, TypeOK
    <3> QED BY <1>5, <1>f, <3>1 DEF Resolve
  <2> QED BY <1>1, <1>2, <1>3, <1>4, <2>1 DEF Created, Cleaning
<1>6. CASE ApplyVersion(r)
  <2>1. /\ stage[r] = "version" /\ pc'[r] = "read" /\ stage'[r] = "addons"
        /\ cms[want[r]] \in Patches /\ base'[r] = cms[want[r]]
        /\ want'[r] = Declares[cms[want[r]]]
    BY <1>6, <1>f DEF ApplyVersion, Typed, TypeOK
  <2>2. want[r] = asked[r] /\ cms[want[r]] = FileFor(want[r])
    BY <1>3, <2>1, FoundAs DEF Created
  <2> QED BY <1>1, <1>2, <1>3, <2>1, <2>2 DEF Created, Cleaning
<1>7. CASE ApplyAddons(r)
  BY <1>7, <1>f DEF ApplyAddons, Typed, TypeOK
<1> QED BY <1>5, <1>6, <1>7 DEF Apply

LEMMA CreatedStep ==
    ASSUME Typed, Sole, AllLoading, AllCreated, [ServiceNext]_<<vars, service>>
    PROVE  AllCreated'
<1> SUFFICES ASSUME NEW r \in Requests, r \notin disturbed', pc'[r] \in Active,
                    op'[r] = "create"
             PROVE  Created(r)'
  BY DEF AllCreated
<1> USE DEF At, Goto, call, shared, built
<1>1. CASE UNCHANGED <<vars, service>>
  <2>1. Created(r) /\ UNCHANGED <<online, index, cms, fresh, pc, asked, want, stage, base>>
    BY <1>1 DEF vars, service, AllCreated
  <2> QED BY <2>1 DEF Created, Source, FileFor, Mirrors
<1>2. CASE SwitchMode /\ disturbed' = disturbed \cup {q \in Requests : pc[q] \in Active}
  BY <1>2 DEF SwitchMode
<1>3. CASE \E q \in Requests :
              \/ Begin(q) /\ AtRest
              \/ Handle(q) /\ UNCHANGED disturbed
              \/ Abort(q)
  <2>1. PICK q \in Requests : \/ Begin(q) /\ AtRest
                              \/ Handle(q) /\ UNCHANGED disturbed
                              \/ Abort(q)
    BY <1>3
  <2>2. q = r
    BY <2>1, OnlyItself, ActiveRest DEF Sole, AtRest
  <2>3. CASE Begin(r)
    <3>1. pc'[r] = "read" /\ stage'[r] = "version" /\ want'[r] = asked'[r]
      BY <2>3 DEF Begin, Forget, Typed, TypeOK
    <3> QED BY <3>1 DEF Created, Cleaning
  <2>4. CASE Abort(r)
    BY <2>4 DEF Abort, Fail, Active, Typed, TypeOK
  <2>5. CASE Handle(r) /\ UNCHANGED disturbed
    <3>1. ~Fail(r)
      BY DEF Fail, Active, Typed, TypeOK
    <3>2. op' = op
      BY <2>5, <3>1 DEF Handle, Clean, Store, Apply, ReadForUpload, ReadSource, FetchIndex,
         CleanOne, CleanDone, UpdateConfig, Updated, Lookup, DeleteOld, CreateNew, Publish,
         Resolve, ApplyVersion, ApplyAddons
    <3>3. op[r] = "create" /\ Created(r) /\ Loading(r)
      BY <2>5, <3>2, OnlyItself DEF AllCreated, AllLoading
    <3>4. ~ReadForUpload(r)
      BY <3>3 DEF ReadForUpload
    <3> QED BY <2>5, <3>3, <3>4, CreatedLoads, CreatedApplies DEF Handle
  <2> QED BY <2>1, <2>2, <2>3, <2>4, <2>5
<1> QED BY <1>1, <1>2, <1>3 DEF ServiceNext

(* The inductive invariant of the creates.                                  *)
ServiceInv == Typed /\ Exact /\ AllLoading /\ AllCreated
LEMMA ServiceInvHolds == ServiceSpec => []ServiceInv
<1>1. ServiceInit => AllCreated
  BY ActiveRest DEF ServiceInit, Init, AllCreated, Rest
<1>2. Typed /\ Exact /\ AllLoading /\ AllCreated /\ [ServiceNext]_<<vars, service>>
        => AllCreated'
  BY CreatedStep DEF Exact
<1> QED BY <1>1, <1>2, LoadingHolds, PTL DEF ServiceSpec, ServiceInv
(* A create is answered with success only by the step that patches the      *)
(* add-ons.                                                                 *)
LEMMA AddonsLast ==
    ASSUME Typed, [ServiceNext]_<<vars, service>>, NEW r \in Requests,
           op[r] = "create", ~At(r, "ok"), pc'[r] = "ok"
    PROVE  /\ pc[r] = "apply" /\ stage[r] = "addons" /\ Present(want[r])
           /\ addons'[r] = cms[want[r]]
           /\ UNCHANGED <<online, index, cms, op, asked, want, base, disturbed>>
<1> USE DEF At, Goto, call, shared, built
<1>1. Handle(r) /\ ~Fail(r) /\ UNCHANGED disturbed
  BY Answered
<1>t. pc \in [Requests -> Active \cup Rest]
  BY DEF Typed, TypeOK
<1>2. CASE ReadForUpload(r) \/ ReadSource(r) \/ FetchIndex(r) \/ CleanOne(r) \/ CleanDone(r)
  BY <1>1, <1>2, <1>t DEF ReadForUpload, ReadSource, AfterListing, FetchIndex, CleanOne, CleanDone
<1>3. CASE UpdateConfig(r) \/ Publish(r)
  <2>1. \A entries, list : NextStore(r, entries, list) # "ok"
    BY DEF NextStore, AfterListing
  <2> QED BY <1>1, <1>3, <1>t, <2>1 DEF UpdateConfig, Updated, Publish
<1>4. CASE Lookup(r) \/ DeleteOld(r) \/ CreateNew(r)
  BY <1>1, <1>4, <1>t DEF Lookup, DeleteOld, CreateNew
<1>5. CASE Resolve(r) \/ ApplyVersion(r)
  BY <1>1, <1>5, <1>t DEF Resolve, ApplyVersion
<1>6. CASE ApplyAddons(r)
  BY <1>1, <1>6 DEF ApplyAddons, Typed, TypeOK
<1> QED BY <1>1, <1>2, <1>3, <1>4, <1>5, <1>6 DEF Handle, Clean, Store, Apply

LEMMA CreateAnswered ==
    ASSUME ServiceInv, [ServiceNext]_<<vars, service>>, NEW r \in Requests \ disturbed,
           op[r] = "create", ~At(r, "ok"), pc'[r] = "ok"
    PROVE  /\ Created(r) /\ pc[r] = "apply" /\ stage[r] = "addons"
           /\ addons'[r] = cms[want[r]]
           /\ UNCHANGED <<online, index, cms, op, asked, want, base>>
<1>1. Typed /\ AllCreated
  BY DEF ServiceInv
<1>2. pc[r] \in Active
  BY <1>1, Answered
<1> QED BY <1>1, <1>2, AddonsLast DEF AllCreated

(* A create that nothing disturbed takes the component versions from the    *)
(* file of the version asked for and the add-ons from the file of the       *)
(* version declared there, both offered and both as they are offered: no    *)
(* file of an earlier catalog is mixed in, though the second listing        *)
(* replaced the catalog of the first.                                       *)
THEOREM CreatesFromCatalog == ServiceSpec => CreatedFromCatalog
<1> DEFINE FromCatalog ==
      \A r \in Requests \ disturbed :
        op[r] = "create" /\ ~At(r, "ok") /\ pc'[r] = "ok" =>
            /\ base'[r] = cms'[asked[r]] /\ want'[r] = Declares[base'[r]]
            /\ addons'[r] = cms'[want'[r]]
            /\ {asked[r], want'[r]} \subseteq index'
<1>1. ServiceInv /\ [ServiceNext]_<<vars, service>> => FromCatalog
  <2> SUFFICES ASSUME ServiceInv, [ServiceNext]_<<vars, service>>,
                      NEW r \in Requests \ disturbed,
                      op[r] = "create", ~At(r, "ok"), pc'[r] = "ok"
               PROVE  /\ base'[r] = cms'[asked[r]] /\ want'[r] = Declares[base'[r]]
                      /\ addons'[r] = cms'[want'[r]]
                      /\ {asked[r], want'[r]} \subseteq index'
    OBVIOUS
  <2>1. /\ Created(r) /\ pc[r] = "apply" /\ stage[r] = "addons"
        /\ addons'[r] = cms[want[r]]
        /\ UNCHANGED <<index, cms, want, base>>
    BY CreateAnswered
  <2>2. /\ want[r] \in Source /\ asked[r] \in Source /\ base[r] = FileFor(asked[r])
        /\ want[r] = Declares[base[r]] /\ (online => Mirrors(Repo["patch"]))
    BY <2>1 DEF Created
  <2>3. want[r] \in index /\ asked[r] \in index /\ FileFor(asked[r]) = cms[asked[r]]
    BY <2>2, FoundAs
  <2> QED BY <2>1, <2>2, <2>3
<1>2. ServiceInv /\ [ServiceNext]_<<vars, service>> => [FromCatalog]_vars
  BY <1>1
<1> QED BY <1>2, ServiceInvHolds, PTL DEF ServiceSpec, CreatedFromCatalog

(* With the catalog intact, a create whose versions and files are in order  *)
(* meets no error.                                                          *)
LEMMA CreateSucceeds ==
    ASSUME ServiceInv, NEW r \in Requests \ disturbed, op[r] = "create",
           pc[r] \in Active, Handle(r), cut = {}, Creatable(asked[r]),
           FileFor(Declares[FileFor(asked[r])]) \in Patches
    PROVE  pc'[r] \in Active \cup {"ok"}
<1> USE DEF At, Goto, call, shared, built
<1>1. Typed /\ Exact /\ AllLoading /\ AllCreated
  BY DEF ServiceInv
<1>2. Created(r) /\ Loading(r) /\ Halves(r) /\ ExactBut(cut \cup Spoils(r))
  BY <1>1 DEF AllCreated, AllLoading, Exact, Settled
<1>t. pc \in [Requests -> Active \cup Rest] /\ stage[r] \in {"version", "addons"}
  BY <1>1 DEF Typed, TypeOK
<1>3. want[r] \in Source /\ FileFor(want[r]) \in Patches
  BY <1>2, <1>t DEF Created, Creatable
<1>4. CASE ReadForUpload(r) \/ ReadSource(r)
  <2>1. pc'[r] = IF online THEN "fetch" ELSE AfterListing(r, index)
    BY <1>4, <1>t DEF ReadForUpload, ReadSource
  <2> QED BY <1>3, <2>1 DEF AfterListing, Source, Active
<1>5. CASE FetchIndex(r) \/ CleanDone(r) \/ Lookup(r)
  BY <1>5, <1>t DEF FetchIndex, CleanDone, Lookup, Active
<1>6. CASE CleanOne(r)
  <2>1. pc[r] = "clean" /\ left[r] \subseteq index /\ seen[r] = index
        /\ index \in SUBSET Versions
    BY <1>1, <1>2, <1>6 DEF CleanOne, Halves, Cleaning, Typed, TypeOK
  <2>2. \A v \in left[r] : Present(v)
    <3> SUFFICES ASSUME NEW v \in left[r] PROVE Present(v)
      OBVIOUS
    <3>1. v \in Versions /\ v \in index /\ v \notin cut \cup Spoils(r)
      BY <2>1, SpoilsAt
    <3> QED BY <1>2, <3>1 DEF ExactBut
  <2> QED BY <1>6, <2>1, <2>2 DEF CleanOne, Active
<1>7. \A list : want[r] \in list =>
         \A entries : NextStore(r, entries, list) \in {"lookup", "resolve"}
  BY DEF NextStore, AfterListing
<1>8. CASE UpdateConfig(r)
  <2>1. pc[r] = "update" /\ Updated(r, {}) /\ online
    BY <1>2, <1>8 DEF UpdateConfig, Created, Cleaning
  <2>2. /\ offered'[r] = ListedVersions(Entries(r))
        /\ pc'[r] = NextStore(r, todo[r], offered'[r])
    BY <1>1, <1>2, <2>1, LoadStarts
  <2>3. want[r] \in offered'[r]
    BY <1>3, <2>1, <2>2, EntriesTyped DEF Source
  <2> QED BY <1>7, <2>2, <2>3 DEF Active
<1>9. CASE Publish(r)
  <2>1. pc[r] = "publish" /\ online
    BY <1>2, <1>9 DEF Publish, Created
  <2>2. /\ offered[r] = ListedVersions(Entries(r))
        /\ pc'[r] = NextStore(r, Tail(todo[r]), offered[r])
    BY <1>1, <1>2, <1>9, <2>1, LoadGoesOn
  <2>3. want[r] \in offered[r]
    BY <1>3, <2>1, <2>2, EntriesTyped DEF Source
  <2> QED BY <1>7, <2>2, <2>3 DEF Active
<1>10. CASE DeleteOld(r) \/ CreateNew(r)
  <2>1. /\ pc[r] = "delete" => Present(Head1(r).ver)
        /\ pc[r] = "make" => ~Present(Head1(r).ver)
    BY <1>2 DEF Halves
  <2> QED BY <1>10, <1>t, <2>1 DEF DeleteOld, CreateNew, Active
<1>11. CASE Apply(r)
  <2>1. online => Mirrors(Repo["patch"])
    BY <1>2, <1>11 DEF Apply, Resolve, ApplyVersion, ApplyAddons, Created
  <2>2. want[r] \in index /\ cms[want[r]] \in Patches
    BY <1>3, <2>1, FoundAs
  <2> QED BY <1>11, <1>t, <2>2 DEF Apply, Resolve, ApplyVersion, ApplyAddons, Active
<1> QED BY <1>4, <1>5, <1>6, <1>8, <1>9, <1>10, <1>11 DEF Handle, Clean, Store

(* The answer to a create is predictable from the remote index (offline,    *)
(* from the catalog): the clean-up, the load and the two lookups, over two  *)
(* listings, introduce no error of their own and let no other version       *)
(* through.                                                                 *)
THEOREM CreatesPredictable == ServiceSpec => CreateEndsAsOffered
<1> DEFINE AsOffered ==
      \A r \in Requests :
        /\ op[r] = "create" /\ pc[r] \in Active /\ pc'[r] \in Rest
        /\ r \notin disturbed' /\ cut = {}
        => LET v == asked[r] IN
           /\ pc'[r] = "ok" => Creatable(v)
           /\ Creatable(v) /\ FileFor(Declares[FileFor(v)]) \in Patches => pc'[r] = "ok"
<1>1. ServiceInv /\ [ServiceNext]_<<vars, service>> => AsOffered
  <2> SUFFICES ASSUME ServiceInv, [ServiceNext]_<<vars, service>>, NEW r \in Requests,
                      op[r] = "create", pc[r] \in Active, pc'[r] \in Rest,
                      r \notin disturbed', cut = {}
               PROVE  /\ pc'[r] = "ok" => Creatable(asked[r])
                      /\ Creatable(asked[r])
                         /\ FileFor(Declares[FileFor(asked[r])]) \in Patches
                         => pc'[r] = "ok"
    OBVIOUS
  <2>1. Handle(r) /\ r \notin disturbed
    <3>1. ~UNCHANGED pc
      BY ActiveRest
    <3>2. PICK q \in Requests : \/ Begin(q) /\ AtRest
                                \/ Handle(q) /\ UNCHANGED disturbed
                                \/ Abort(q) /\ disturbed' = disturbed \cup {q}
      BY <3>1 DEF ServiceNext, SwitchMode, vars
    <3>3. Typed
      BY DEF ServiceInv
    <3>4. q = r
      BY <3>2, <3>3, OnlyItself, ActiveRest
    <3> QED BY <3>2, <3>4, ActiveRest DEF AtRest
  <2>2. ASSUME pc'[r] = "ok" PROVE Creatable(asked[r])
    <3>1. Created(r) /\ pc[r] = "apply" /\ stage[r] = "addons"
      BY <2>1, <2>2, CreateAnswered DEF At, Active
    <3> QED BY <3>1 DEF Created, Creatable
  <2>3. ASSUME Creatable(asked[r]), FileFor(Declares[FileFor(asked[r])]) \in Patches
        PROVE  pc'[r] = "ok"
    <3>1. pc'[r] \in Active \cup {"ok"}
      BY <2>1, <2>3, CreateSucceeds
    <3> QED BY <3>1, ActiveRest
  <2> QED BY <2>2, <2>3
<1>2. ServiceInv /\ [ServiceNext]_<<vars, service>> => [AsOffered]_vars
  BY <1>1
<1> QED BY <1>2, ServiceInvHolds, PTL DEF ServiceSpec, CreateEndsAsOffered
-----------------------------------------------------------------------------
(* THE ADD-ONS OF A CREATE                                                  *)

LEMMA LastOne ==
    ASSUME NEW n \in Nat, NEW I \in SUBSET (1 .. n), I # {}
    PROVE  \E i \in I : \A j \in I : j <= i
<1> DEFINE T == {n - i : i \in I}
<1>1. T \in SUBSET Nat /\ T # {}
  <2>1. \A i \in 1 .. n : n - i \in Nat
    OBVIOUS
  <2> QED BY <2>1
<1>2. \E x \in T : \A y \in T : ~(<<y, x>> \in OpToRel(<, Nat))
  <2> HIDE DEF T
  <2> QED BY <1>1, NatLessThanWellFounded, WFMin
<1>3. PICK i \in I : \A y \in T : ~(<<y, n - i>> \in OpToRel(<, Nat))
  BY <1>2
<1>4. ASSUME NEW j \in I PROVE j <= i
  <2>1. ~(<<n - j, n - i>> \in OpToRel(<, Nat))
    BY <1>3
  <2>2. ~(n - j < n - i)
    BY <2>1 DEF OpToRel
  <2> QED BY <2>2
<1> QED BY <1>4

(* Parameters over parameters: those of both, the upper ones hiding the     *)
(* lower.                                                                   *)
LEMMA OverIs ==
    ASSUME NEW f, NEW g
    PROVE  /\ DOMAIN Over(f, g) = DOMAIN f \cup DOMAIN g
           /\ \A k \in DOMAIN f : Over(f, g)[k] = f[k]
           /\ \A k \in DOMAIN g \ DOMAIN f : Over(f, g)[k] = g[k]
  BY DEF Over

LEMMA WithParamsIs ==
    ASSUME NEW t, IsAddon(t), NEW given
    PROVE  LET w == WithParams(t, given) IN
           /\ IsAddon(w) /\ w.name = t.name /\ w.version = t.version
           /\ w.param = IF t.name \in DOMAIN given
                        THEN Over(given[t.name], t.param) ELSE t.param
<1>1. PICK n, v, b, p : t = [name |-> n, version |-> v, block |-> b, param |-> p]
  BY DEF IsAddon
<1>2. CASE n \in DOMAIN given
  <2>1. WithParams(t, given) =
            [name |-> n, version |-> v, block |-> b, param |-> Over(given[n], p)]
    BY <1>1, <1>2 DEF WithParams
  <2> QED BY <1>1, <1>2, <2>1 DEF IsAddon
<1>3. CASE n \notin DOMAIN given
  BY <1>1, <1>3 DEF WithParams, IsAddon
<1> QED BY <1>2, <1>3

LEMMA PatchedIs ==
    ASSUME NEW a, IsAddon(a), NEW p
    PROVE  LET w == applyPatchToAddon(a, p) IN
           /\ IsAddon(w) /\ w.name = a.name
           /\ w.version = IF p.version = NoVersion THEN a.version ELSE p.version
           /\ w.param = Over(p.param, a.param)
<1>1. PICK n, v, b, q : a = [name |-> n, version |-> v, block |-> b, param |-> q]
  BY DEF IsAddon
<1>2. PICK x, y, z : /\ x = IF p.version = NoVersion THEN v ELSE p.version
                     /\ y = p.block /\ z = Over(p.param, q)
  OBVIOUS
<1>3. applyPatchToAddon(a, p) = [name |-> n, version |-> x, block |-> y, param |-> z]
  <2>1. applyPatchToAddon(a, p) = [a EXCEPT !.version = x, !.block = y, !.param = z]
    BY <1>1, <1>2 DEF applyPatchToAddon
  <2> QED BY <1>1, <2>1
<1> QED BY <1>1, <1>2, <1>3 DEF IsAddon

(* What the request makes of the built-in add-ons: the same names and       *)
(* parameters as AsRequested wants in the end, before any patch.            *)
Sourced(m, given) ==
    /\ IsAddon(m)
    /\ m.version = NoVersion => \A t \in Template : t.name # m.name
    /\ \A k \in DOMAIN m.param :
        IF m.name \in DOMAIN given /\ k \in DOMAIN given[m.name]
        THEN m.param[k] = given[m.name][k]
        ELSE \E t \in Template : t.name = m.name /\ m.param[k] = t.param[k]
    /\ m.name \in DOMAIN given => DOMAIN given[m.name] \subseteq DOMAIN m.param
Meant(given) ==
    {n \in (Names(Template) \ {System}) \cup DOMAIN given :
        n \in DOMAIN given => ~isAddonDisabled(given[n])}

LEMMA MergedAsRequested ==
    ASSUME NEW given
    PROVE  /\ \A a, b \in mergeAddons(given) : a.name = b.name => a = b
           /\ Names(mergeAddons(given)) = Meant(given)
           /\ \A m \in mergeAddons(given) : Sourced(m, given)
<1> DEFINE Builtin == {WithParams(t, given) : t \in Kept(given)}
           rest == {n \in DOMAIN given \ Names(Kept(given)) : Wanted(given, n)}
           Named == {Extra(given, n) : n \in rest}
<1>1. mergeAddons(given) = Builtin \cup Named
  BY DEF mergeAddons
<1>2. Kept(given) \subseteq Template /\ \A t \in Template : IsAddon(t)
  BY TemplateAssumption DEF Kept
<1>3. \A t \in Kept(given) : WithParams(t, given).name = t.name
  BY <1>2, WithParamsIs
<1>4. \A n \in rest : Extra(given, n).name = n
  BY DEF Extra
<1>5. ASSUME NEW a \in mergeAddons(given), NEW b \in mergeAddons(given), a.name = b.name
      PROVE  a = b
  <2>1. CASE a \in Builtin /\ b \in Builtin
    <3>1. PICK t \in Kept(given) : a = WithParams(t, given)
      BY <2>1
    <3>2. PICK u \in Kept(given) : b = WithParams(u, given)
      BY <2>1
    <3>3. t.name = u.name
      BY <1>3, <1>5, <3>1, <3>2
    <3>4. t = u
      BY <1>2, <3>3, TemplateAssumption
    <3> QED BY <3>1, <3>2, <3>4
  <2>2. CASE a \in Named /\ b \in Named
    BY <1>4, <1>5, <2>2
  <2>3. ASSUME NEW x \in Builtin, NEW y \in Named PROVE x.name # y.name
    <3>1. x.name \in Names(Kept(given))
      BY <1>3 DEF Names
    <3>2. y.name \notin Names(Kept(given))
      BY <1>4
    <3> QED BY <3>1, <3>2
  <2> QED BY <1>1, <1>5, <2>1, <2>2, <2>3
<1>6. Names(mergeAddons(given)) = Meant(given)
  <2>1. Names(mergeAddons(given)) = Names(Kept(given)) \cup rest
    <3>1. Names(Builtin) = Names(Kept(given))
      BY <1>3 DEF Names
    <3>2. Names(Named) = rest
      BY <1>4 DEF Names
    <3>3. Names(Builtin \cup Named) = Names(Builtin) \cup Names(Named)
      BY DEF Names
    <3> QED BY <1>1, <3>1, <3>2, <3>3
  <2>2. Names(Kept(given)) =
          {n \in Names(Template) :
             IF n \in DOMAIN given \/ n = System THEN Wanted(given, n) ELSE TRUE}
    BY DEF Names, Kept
  <2> HIDE DEF Builtin, Named
  <2> QED BY <2>1, <2>2 DEF Meant, Wanted
<1>7. ASSUME NEW m \in Builtin PROVE Sourced(m, given)
  <2>1. PICK t \in Kept(given) : m = WithParams(t, given)
    BY <1>7
  <2>2. t \in Template /\ IsAddon(t) /\ t.version # NoVersion
    BY <1>2, TemplateAssumption
  <2>3. /\ IsAddon(m) /\ m.name = t.name /\ m.version # NoVersion
        /\ m.param = IF t.name \in DOMAIN given
                     THEN Over(given[t.name], t.param) ELSE t.param
    BY <2>1, <2>2, WithParamsIs
  <2>4. CASE t.name \in DOMAIN given
    <3>1. PICK f, g : f = given[t.name] /\ g = t.param /\ m.param = Over(f, g)
      BY <2>3, <2>4
    <3>2. /\ DOMAIN m.param = DOMAIN f \cup DOMAIN g
          /\ \A k \in DOMAIN f : m.param[k] = f[k]
          /\ \A k \in DOMAIN g \ DOMAIN f : m.param[k] = g[k]
      <4>1. /\ DOMAIN Over(f, g) = DOMAIN f \cup DOMAIN g
            /\ \A k \in DOMAIN f : Over(f, g)[k] = f[k]
            /\ \A k \in DOMAIN g \ DOMAIN f : Over(f, g)[k] = g[k]
        BY OverIs
      <4> QED BY <3>1, <4>1
    <3> QED BY <2>2, <2>3, <2>4, <3>1, <3>2 DEF Sourced
  <2>5. CASE t.name \notin DOMAIN given
    BY <2>2, <2>3, <2>5 DEF Sourced
  <2> QED BY <2>4, <2>5
<1>8. ASSUME NEW m \in Named PROVE Sourced(m, given)
  <2>1. PICK n \in rest :
          m = [name |-> n, version |-> NoVersion, block |-> FALSE, param |-> given[n]]
    BY <1>8 DEF Extra
  <2>2. \A t \in Template : t.name # n
    <3> SUFFICES ASSUME NEW t \in Template, t.name = n PROVE FALSE
      OBVIOUS
    <3>1. t \in Kept(given)
      BY <2>1 DEF Kept
    <3> QED BY <2>1, <3>1 DEF Names
  <2> QED BY <2>1, <2>2 DEF Sourced, IsAddon
<1> QED BY <1>1, <1>5, <1>6, <1>7, <1>8
(* What the patch makes of it: an add-on that the patch names is patched by *)
(* the last of its entries.                                                 *)
NamedIn(patch, name) == {i \in DOMAIN patch : patch[i].name = name}
LastIn(patch, name) ==
    {patch[i] : i \in {j \in NamedIn(patch, name) : \A l \in NamedIn(patch, name) : l <= j}}
Patched(m, patch) ==
    IF NamedIn(patch, m.name) = {} THEN m
    ELSE applyPatchToAddon(m, patch[CHOOSE i \in NamedIn(patch, m.name) :
                                        \A j \in NamedIn(patch, m.name) : j <= i])

LEMMA PatchedOnce ==
    ASSUME NEW patch, IsList(patch), NEW m
    PROVE  \/ LastIn(patch, m.name) = {} /\ Patched(m, patch) = m
           \/ \E p : LastIn(patch, m.name) = {p} /\ Patched(m, patch) = applyPatchToAddon(m, p)
<1>1. PICK n \in Nat : DOMAIN patch = 1 .. n
  BY DEF IsList
<1>2. PICK I : I = NamedIn(patch, m.name)
  OBVIOUS
<1>3. I \in SUBSET (1 .. n)
  BY <1>1, <1>2 DEF NamedIn
<1>4. CASE I = {}
  BY <1>2, <1>4 DEF LastIn, Patched
<1>5. CASE I # {}
  <2> DEFINE Last(i) == \A j \in I : j <= i
  <2>1. \E i \in I : Last(i)
    BY <1>3, <1>5, LastOne
  <2>2. PICK c : c = CHOOSE i \in I : Last(i)
    OBVIOUS
  <2>3. c \in I /\ Last(c)
    BY <2>1, <2>2
  <2>4. \A i \in I : Last(i) => i = c
    BY <1>3, <2>3
  <2>5. {i \in I : Last(i)} = {c}
    BY <2>3, <2>4
  <2>6. LastIn(patch, m.name) = {patch[i] : i \in {i \in I : Last(i)}}
    BY <1>2 DEF LastIn
  <2>7. LastIn(patch, m.name) = {patch[c]}
    BY <2>5, <2>6
  <2>8. Patched(m, patch) = applyPatchToAddon(m, patch[c])
    BY <1>2, <1>5, <2>2 DEF Patched
  <2> QED BY <2>7, <2>8
<1> QED BY <1>4, <1>5

(* What AsRequested says of one add-on.                                     *)
InOrder(a, given, patches) ==
    /\ a.version = NoVersion =>
          /\ {t \in Template : t.name = a.name} = {}
          /\ \A p \in patches : p.version = NoVersion
    /\ \A k \in DOMAIN a.param :
        \/ \E p \in patches : k \in DOMAIN p.param /\ a.param[k] = p.param[k]
        \/ /\ \A p \in patches : k \notin DOMAIN p.param
           /\ IF a.name \in DOMAIN given /\ k \in DOMAIN given[a.name]
              THEN a.param[k] = given[a.name][k]
              ELSE \E t \in {t \in Template : t.name = a.name} : a.param[k] = t.param[k]
    /\ a.name \in DOMAIN given => DOMAIN given[a.name] \subseteq DOMAIN a.param

LEMMA PatchedInOrder ==
    ASSUME NEW patch, IsList(patch), NEW given, NEW m, Sourced(m, given)
    PROVE  /\ Patched(m, patch).name = m.name
           /\ InOrder(Patched(m, patch), given, LastIn(patch, m.name))
<1>1. CASE LastIn(patch, m.name) = {} /\ Patched(m, patch) = m
  BY <1>1 DEF InOrder, Sourced
<1>2. ASSUME NEW p, LastIn(patch, m.name) = {p}, Patched(m, patch) = applyPatchToAddon(m, p)
      PROVE  /\ Patched(m, patch).name = m.name
             /\ InOrder(Patched(m, patch), given, LastIn(patch, m.name))
  <2>1. PICK a, f, g : a = Patched(m, patch) /\ f = p.param /\ g = m.param
    OBVIOUS
  <2>2. /\ a.name = m.name /\ a.param = Over(f, g)
        /\ a.version = IF p.version = NoVersion THEN m.version ELSE p.version
    BY <1>2, <2>1, PatchedIs DEF Sourced
  <2>3. /\ DOMAIN a.param = DOMAIN f \cup DOMAIN g
        /\ \A k \in DOMAIN f : a.param[k] = f[k]
        /\ \A k \in DOMAIN g \ DOMAIN f : a.param[k] = g[k]
    <3>1. /\ DOMAIN Over(f, g) = DOMAIN f \cup DOMAIN g
          /\ \A k \in DOMAIN f : Over(f, g)[k] = f[k]
          /\ \A k \in DOMAIN g \ DOMAIN f : Over(f, g)[k] = g[k]
      BY OverIs
    <3> QED BY <2>2, <3>1
  <2>4. InOrder(a, given, {p})
    <3>1. a.version = NoVersion => p.version = NoVersion /\ \A t \in Template : t.name # a.name
      BY <2>2 DEF Sourced
    <3>2. ASSUME NEW k \in DOMAIN a.param
          PROVE  \/ k \in DOMAIN p.param /\ a.param[k] = p.param[k]
                 \/ /\ k \notin DOMAIN p.param
                    /\ IF a.name \in DOMAIN given /\ k \in DOMAIN given[a.name]
                       THEN a.param[k] = given[a.name][k]
                       ELSE \E t \in Template : t.name = a.name /\ a.param[k] = t.param[k]
      <4>1. CASE k \in DOMAIN f
        BY <2>1, <2>3, <4>1
      <4>2. CASE k \notin DOMAIN f
        BY <2>1, <2>2, <2>3, <3>2, <4>2 DEF Sourced
      <4> QED BY <4>1, <4>2
    <3>3. a.name \in DOMAIN given => DOMAIN given[a.name] \subseteq DOMAIN a.param
      BY <2>1, <2>2, <2>3 DEF Sourced
    <3> QED BY <3>1, <3>2, <3>3 DEF InOrder
  <2> QED BY <1>2, <2>1, <2>2, <2>4
<1> QED BY <1>1, <1>2, PatchedOnce

(* The last request of a name is the one that counts.                       *)
LEMMA LastAsked ==
    ASSUME NEW reqs, IsList(reqs)
    PROVE  /\ DOMAIN ReqMap(reqs) = {normalizeAddonName(reqs[i].name) : i \in DOMAIN reqs}
           /\ \A i \in DOMAIN reqs :
                (\A j \in DOMAIN reqs :
                    normalizeAddonName(reqs[j].name) = normalizeAddonName(reqs[i].name) => j <= i)
                => ReqMap(reqs)[normalizeAddonName(reqs[i].name)] = reqs[i].params
<1> DEFINE NameAt(i) == normalizeAddonName(reqs[i].name)
           At0(n) == {i \in DOMAIN reqs : NameAt(i) = n}
<1>1. PICK top \in Nat : DOMAIN reqs = 1 .. top
  BY DEF IsList
<1>2. ReqMap(reqs) = [n \in {NameAt(i) : i \in DOMAIN reqs} |->
         reqs[CHOOSE i \in At0(n) : \A j \in At0(n) : j <= i].params]
  BY DEF ReqMap
<1>3. ASSUME NEW i \in DOMAIN reqs, \A j \in DOMAIN reqs : NameAt(j) = NameAt(i) => j <= i
      PROVE  ReqMap(reqs)[NameAt(i)] = reqs[i].params
  <2>1. PICK I : I = At0(NameAt(i))
    OBVIOUS
  <2>2. i \in I /\ \A j \in I : j <= i
    BY <1>3, <2>1
  <2>3. I \subseteq 1 .. top
    BY <1>1, <2>1
  <2>4. (CHOOSE l \in I : \A j \in I : j <= l) = i
    <3>1. \A l \in I : (\A j \in I : j <= l) => l = i
      BY <2>2, <2>3
    <3> QED BY <2>2, <3>1
  <2>5. ReqMap(reqs)[NameAt(i)] = reqs[CHOOSE l \in I : \A j \in I : j <= l].params
    BY <1>2, <2>1
  <2> QED BY <2>4, <2>5
<1> QED BY <1>2, <1>3

(* For any request, any patch file and any built-in add-ons with versions   *)
(* and names of their own, the two merges give what AsRequested describes.  *)
THEOREM MergesAsRequested ==
    ASSUME NEW reqs, IsList(reqs), NEW patch, IsList(patch)
    PROVE  AsRequested(reqs, patch)
<1>1. PICK given : given = ReqMap(reqs)
  OBVIOUS
<1>2. PICK merged : merged = mergeAddons(given)
  OBVIOUS
<1>3. /\ \A a, b \in merged : a.name = b.name => a = b
      /\ Names(merged) = Meant(given)
      /\ \A m \in merged : Sourced(m, given)
  BY <1>2, MergedAsRequested
<1>4. PICK created : created = {Patched(m, patch) : m \in merged}
  OBVIOUS
<1>5. CreatedAddons(reqs, patch) = created
  BY <1>1, <1>2, <1>4 DEF CreatedAddons, updateCRDAddonsWithPatch, Patched, NamedIn
<1>6. \A m \in merged :
        Patched(m, patch).name = m.name /\ InOrder(Patched(m, patch), given, LastIn(patch, m.name))
  BY <1>3, PatchedInOrder
<1>7. \A a, b \in created : a.name = b.name => a = b
  BY <1>3, <1>4, <1>6
<1>8. Names(created) = Meant(given)
  BY <1>3, <1>4, <1>6 DEF Names
<1>9. \A a \in created : InOrder(a, given, LastIn(patch, a.name))
  BY <1>4, <1>6
<1>10. Names(created) = {n \in (Names(Template) \ {System}) \cup DOMAIN given :
                            n \in DOMAIN given => ~isAddonDisabled(given[n])}
  BY <1>8 DEF Meant
<1>11. /\ DOMAIN given = {normalizeAddonName(reqs[i].name) : i \in DOMAIN reqs}
       /\ \A i \in DOMAIN reqs :
            (\A j \in DOMAIN reqs :
                normalizeAddonName(reqs[j].name) = normalizeAddonName(reqs[i].name) => j <= i)
            => given[normalizeAddonName(reqs[i].name)] = reqs[i].params
  BY <1>1, LastAsked
<1> QED BY <1>1, <1>5, <1>7, <1>9, <1>10, <1>11 DEF AsRequested, InOrder, LastIn, NamedIn

(* A create that succeeded has a file behind its add-ons.                   *)
FileBehind == \A r \in Requests : op[r] = "create" /\ At(r, "ok") => addons[r] \in Files

(* The other requests keep what they found.                                 *)
LEMMA OthersKeep ==
    ASSUME NEW r \in Requests, Typed, Begin(r) \/ Handle(r) \/ Abort(r)
    PROVE  \A q \in Requests \ {r} : op'[q] = op[q] /\ addons'[q] = addons[q]
<1> USE DEF call, built
<1>1. CASE Begin(r) \/ Fail(r)
  BY <1>1 DEF Begin, Fail, Forget, Typed, TypeOK
<1>2. CASE Handle(r) /\ ~Fail(r)
  <2>1. op' = op /\ (addons' = addons \/ addons' = [addons EXCEPT ![r] = cms[want[r]]])
    BY <1>2 DEF Handle, Clean, Store, Apply, ReadForUpload, ReadSource, FetchIndex,
         CleanOne, CleanDone, UpdateConfig, Updated, Lookup, DeleteOld, CreateNew, Publish,
         Resolve, ApplyVersion, ApplyAddons
  <2> QED BY <2>1 DEF Typed, TypeOK
<1> QED BY <1>1, <1>2 DEF Abort

LEMMA FileBehindStep ==
    ASSUME Typed, FileBehind, [ServiceNext]_<<vars, service>>
    PROVE  FileBehind'
<1> SUFFICES ASSUME NEW r \in Requests, op'[r] = "create", pc'[r] = "ok"
             PROVE  addons'[r] \in Files
  BY DEF FileBehind, At
<1>1. CASE pc[r] # "ok"
  <2>1. op' = op
    BY <1>1, Answered DEF At, call
  <2>2. addons'[r] = cms[want[r]] /\ cms[want[r]] # Nothing
    BY <1>1, <2>1, AddonsLast DEF At, Present
  <2> QED BY <2>2 DEF Typed, TypeOK
<1>2. CASE pc[r] = "ok"
  <2>1. op'[r] = op[r] /\ addons'[r] = addons[r]
    <3>1. CASE SwitchMode \/ UNCHANGED <<vars, service>>
      BY <3>1 DEF SwitchMode, vars, call, built
    <3>2. CASE \E q \in Requests : Begin(q) \/ Handle(q) \/ Abort(q)
      <4>1. PICK q \in Requests : Begin(q) \/ Handle(q) \/ Abort(q)
        BY <3>2
      <4>2. q # r
        <5>1. ~(Handle(r) \/ Abort(r))
          BY <1>2, OnlyItself DEF Active
        <5>2. ~Begin(r)
          BY DEF Begin, Goto, Typed, TypeOK
        <5> QED BY <4>1, <5>1, <5>2
      <4> QED BY <4>1, <4>2, OthersKeep
    <3> QED BY <3>1, <3>2 DEF ServiceNext
  <2> QED BY <1>2, <2>1 DEF FileBehind, At
<1> QED BY <1>1, <1>2

(* A cluster that is created has the add-ons asked for and those built in,  *)
(* as the file of its version patches them: whatever the request and        *)
(* whatever the file.                                                       *)
THEOREM AddonsFollow == ServiceSpec => []AddonsAsRequested
<1>1. ServiceInit => FileBehind
  BY DEF ServiceInit, Init, FileBehind, At
<1>2. Typed /\ FileBehind /\ [ServiceNext]_<<vars, service>> => FileBehind'
  BY FileBehindStep
<1>3. FileBehind => AddonsAsRequested
  BY MergesAsRequested, AddonsAssumption DEF FileBehind, AddonsAsRequested
<1> QED BY <1>1, <1>2, <1>3, ServiceTyped, PTL DEF ServiceSpec
=============================================================================
