---------------------------- MODULE PatchCatalog ----------------------------
(***************************************************************************)
(* The patch catalog of installer-service: which openFuyao versions the     *)
(* service offers, and the patch file behind each.                          *)
(*                                                                          *)
(* The catalog is spread over two kinds of Kubernetes objects, which no     *)
(* transaction joins:                                                       *)
(*   - the ConfigMap bke-config holds, beside the mode (otherRepo and       *)
(*     onlineImage), one key "patch.<version>" per offered version: index;  *)
(*   - one ConfigMap "cm.<version>" in the namespace openfuyao-patch holds  *)
(*     the patch file itself: cms.                                          *)
(* Uploads write both, in two calls and more.  So do listings when the      *)
(* service is online: GET /versions and GET .../upgrade-versions, and       *)
(* POST /clusters through getPatchInfo, first remove the whole catalog and  *)
(* then load it again from the remote repository.  Every HTTP request runs  *)
(* in a goroutine of its own and no lock is held across its calls, so each  *)
(* call to the API server is one action here.                               *)
(***************************************************************************)
EXTENDS Naturals, Sequences, FiniteSets

CONSTANTS
    Requests,   \* the HTTP requests that may be in progress at a time
    Versions,   \* version names: index.yaml entries, stems of uploaded files
    Patches,    \* well-formed patch files
    Malformed,  \* files a check of validatePatchVersionInfo rejects
    Declares,   \* the openFuyaoVersion each well-formed patch file states
    Repo,       \* the index.yaml served at each of the two remote paths
    Nothing     \* no ConfigMap, no file

Files == Patches \cup Malformed
Entry == [ver : Versions, file : Files]
Paths == {"deploy", "patch"}

ASSUME DeclaresAssumption == Declares \in [Patches -> Versions]
ASSUME RepoAssumption == Repo \in [Paths -> Seq(Entry)]
ASSUME NothingAssumption == Nothing \notin Files

(* The operations: POST /patches, GET /versions, GET upgrade-versions and   *)
(* the patch part of POST /clusters.                                        *)
Ops == {"upload", "versions", "upgrades", "create"}
Listings == {"versions", "upgrades"}
(* The next call a request makes to the API server or the repository.       *)
Active == {"read", "fetch", "clean", "update", "lookup", "delete", "make",
           "publish", "resolve", "apply"}
Rest == {"idle", "ok", "error"}

VARIABLES
    online,   \* bke-config names a remote repository
    index,    \* the versions with a key "patch.<version>" in bke-config
    cms,      \* the file in the ConfigMap "cm.<version>", or Nothing
    fresh,    \* requests whose copy of bke-config, which they may write back,
              \* has its current resourceVersion
    pc,       \* where each request is
    op,       \* the operation it performs
    asked,    \* the version its caller named (upload, create)
    want,     \* create: the version now in the object under construction
    stage,    \* create: "version" in patchVersion, "addons" in patchAddonsInfo
    seen,     \* the index as the request read it
    left,     \* the keys cleanConfigMapPatches has still to remove
    todo,     \* the entries still to store, the one in hand first
    offered,  \* the version list the request ends up with
    base,     \* create: the file that gave the component versions
    addons    \* create: the file that gave the add-ons

shared == <<online, index, cms>>
built == <<want, stage, base, addons>>
call == <<op, asked>>
vars == <<shared, fresh, pc, call, seen, left, todo, offered, built>>

Present(v) == cms[v] # Nothing
Dangling == {v \in index : ~Present(v)}
Head1(r) == Head(todo[r])
AtRest == \A r \in Requests : pc[r] \in Rest

Init ==
    /\ online \in BOOLEAN
    /\ index = {}
    /\ cms = [v \in Versions |-> Nothing]
    /\ fresh = {}
    /\ pc = [r \in Requests |-> "idle"]
    /\ op = [r \in Requests |-> "versions"]
    /\ asked \in [Requests -> Versions]
    /\ want = asked
    /\ stage = [r \in Requests |-> "version"]
    /\ seen = [r \in Requests |-> {}]
    /\ left = [r \in Requests |-> {}]
    /\ todo = [r \in Requests |-> <<>>]
    /\ offered = [r \in Requests |-> {}]
    /\ base = [r \in Requests |-> Nothing]
    /\ addons = [r \in Requests |-> Nothing]

-----------------------------------------------------------------------------
(* Helpers of the actions.                                                  *)

At(r, l) == pc[r] = l
Goto(r, l) == pc' = [pc EXCEPT ![r] = l]
(* The request is answered with an error and its locals are gone; what it   *)
(* did to the catalog stays done.                                           *)
Forget(r) ==
    /\ seen' = [seen EXCEPT ![r] = {}]
    /\ left' = [left EXCEPT ![r] = {}]
    /\ offered' = [offered EXCEPT ![r] = {}]
    /\ stage' = [stage EXCEPT ![r] = "version"]
    /\ base' = [base EXCEPT ![r] = Nothing]
    /\ addons' = [addons EXCEPT ![r] = Nothing]
    /\ fresh' = fresh \ {r}
Fail(r) ==
    /\ Goto(r, "error")
    /\ want' = [want EXCEPT ![r] = asked[r]]
    /\ todo' = [todo EXCEPT ![r] = <<>>]
    /\ Forget(r)
    /\ UNCHANGED <<shared, call>>
(* Where a request goes with its version list: a listing answers it, a      *)
(* create looks for the wanted version in it.                               *)
AfterListing(r, list) ==
    IF op[r] # "create" THEN "ok"
    ELSE IF want[r] \in list THEN "resolve" ELSE "error"
(* Fault: a create looks its version up where GET /versions does. *)
RemotePathDeploy(r) == IF op[r] = "upgrades" THEN "patch" ELSE "deploy"
RemotePath(r) == IF op[r] = "versions" THEN "deploy" ELSE "patch"
ListedVersions(entries) == {entries[i].ver : i \in DOMAIN entries}

(* A handler is entered.  An upload carries a file and the version its file *)
(* name gives; nothing relates that version to the one in the file.         *)
Begin(r) ==
    /\ pc[r] \in Rest
    /\ Goto(r, "read")
    /\ \E o \in Ops, v \in Versions, f \in Files :
        /\ o \in Listings => v = asked[r]
        /\ op' = [op EXCEPT ![r] = o]
        /\ asked' = [asked EXCEPT ![r] = v]
        /\ want' = [want EXCEPT ![r] = v]
        /\ todo' = [todo EXCEPT ![r] =
                      IF o = "upload" THEN <<[ver |-> v, file |-> f]>> ELSE <<>>]
    /\ Forget(r)
    /\ UNCHANGED shared

(* UploadPatchFile reads the mode and validates the file before it stores.  *)
ReadForUpload(r) ==
    /\ At(r, "read") /\ op[r] = "upload"
    /\ Goto(r, IF online \/ Head1(r).file \in Malformed THEN "error" ELSE "lookup")
    /\ UNCHANGED <<shared, fresh, call, seen, left, todo, offered, built>>

(* getVersionsFromSource: offline the keys of bke-config are the answer,    *)
(* online they are what has to be cleaned.                                  *)
ReadSource(r) ==
    /\ At(r, "read") /\ op[r] # "upload"
    /\ seen' = [seen EXCEPT ![r] = index]
    /\ IF online
       THEN /\ Goto(r, "fetch")
            /\ left' = [left EXCEPT ![r] = index]
            /\ fresh' = fresh \cup {r}
            /\ UNCHANGED offered
       ELSE /\ Goto(r, AfterListing(r, index))
            /\ offered' = [offered EXCEPT ![r] = index]
            /\ UNCHANGED <<left, fresh>>
    /\ UNCHANGED <<shared, call, todo, built>>

(* getPatchIndexFromRemoteRepo. *)
FetchIndex(r) ==
    /\ At(r, "fetch")
    /\ Goto(r, "clean")
    /\ todo' = [todo EXCEPT ![r] = Repo[RemotePath(r)]]
    /\ UNCHANGED <<shared, fresh, call, seen, left, offered, built>>

(* Fault: a missing ConfigMap is taken for a deleted one. *)
CleanOneTolerant(r) ==
    /\ At(r, "clean")
    /\ \E v \in left[r] :
        /\ cms' = [cms EXCEPT ![v] = Nothing]
        /\ left' = [left EXCEPT ![r] = @ \ {v}]
    /\ UNCHANGED <<online, index, fresh, pc, call, seen, todo, offered, built>>

(* One turn of the loop of cleanConfigMapPatches, in the order of a Go map. *)
(* The ConfigMap is deleted by name; a missing one is an error.             *)
CleanOne(r) ==
    /\ At(r, "clean")
    /\ \E v \in left[r] :
        \/ /\ Present(v)
           /\ cms' = [cms EXCEPT ![v] = Nothing]
           /\ left' = [left EXCEPT ![r] = @ \ {v}]
           /\ UNCHANGED <<online, index, fresh, pc, call, seen, todo, offered, built>>
        \/ ~Present(v) /\ Fail(r)

CleanDone(r) ==
    /\ At(r, "clean") /\ left[r] = {}
    /\ Goto(r, "update")
    /\ UNCHANGED <<shared, fresh, call, seen, left, todo, offered, built>>

(* Where a request is when it has entries to store, or no more of them.     *)
NextStore(r, entries, list) ==
    IF entries # <<>> THEN "lookup" ELSE AfterListing(r, list)

(* A write that changes bke-config makes every copy of it stale.            *)
Updated(r, newIndex) ==
    /\ index' = newIndex
    /\ fresh' = IF newIndex = index THEN fresh \ {r} ELSE {}
    /\ offered' = [offered EXCEPT ![r] = ListedVersions(todo[r])]
    /\ Goto(r, NextStore(r, todo[r], ListedVersions(todo[r])))
    /\ UNCHANGED <<online, cms, call, seen, left, todo, built>>
(* Faults: the Update is made without the resourceVersion; it is made again *)
(* with the latest resourceVersion and the old data; the keys were not      *)
(* removed from the object first.                                           *)
UpdateConfigUnguarded(r) == At(r, "update") /\ Updated(r, {})
UpdateConfigRetried(r) ==
    /\ At(r, "update")
    /\ \/ r \in fresh /\ Updated(r, {})
       \/ /\ r \notin fresh /\ fresh' = fresh \cup {r}
          /\ UNCHANGED <<shared, pc, call, seen, left, todo, offered, built>>
UpdateConfigKeepsKeys(r) ==
    /\ At(r, "update")
    /\ (r \in fresh /\ Updated(r, index)) \/ (r \notin fresh /\ Fail(r))

(* The Update that ends the clean-up writes the whole object back, so it    *)
(* carries the resourceVersion the request read; a stale one is a conflict. *)
UpdateConfig(r) ==
    /\ At(r, "update")
    /\ (r \in fresh /\ Updated(r, {})) \/ (r \notin fresh /\ Fail(r))

(* Fault: a ConfigMap that is already there is left as it is. *)
LookupKeepsOld(r) ==
    /\ At(r, "lookup")
    /\ Goto(r, IF Present(Head1(r).ver) THEN "publish" ELSE "make")
    /\ UNCHANGED <<shared, fresh, call, seen, left, todo, offered, built>>

(* addPatchesToConfigMap: get, delete the old one if there is one, create.  *)
Lookup(r) ==
    /\ At(r, "lookup")
    /\ Goto(r, IF Present(Head1(r).ver) THEN "delete" ELSE "make")
    /\ UNCHANGED <<shared, fresh, call, seen, left, todo, offered, built>>

(* Fault: the new ConfigMap is not created after the old one is deleted. *)
DeleteOldOnly(r) ==
    /\ At(r, "delete")
    /\ cms' = [cms EXCEPT ![Head1(r).ver] = Nothing]
    /\ Goto(r, "publish")
    /\ UNCHANGED <<online, index, fresh, call, seen, left, todo, offered, built>>

DeleteOld(r) ==
    /\ At(r, "delete")
    /\ LET v == Head1(r).ver IN
        \/ /\ Present(v)
           /\ cms' = [cms EXCEPT ![v] = Nothing]
           /\ Goto(r, "make")
           /\ UNCHANGED <<online, index, fresh, call, seen, left, todo, offered, built>>
        \/ ~Present(v) /\ Fail(r)

(* Fault: the whole entry is stored where the file belongs. *)
CreateNewEntry(r) ==
    /\ At(r, "make")
    /\ cms' = [cms EXCEPT ![Head1(r).ver] = Head1(r)]
    /\ Goto(r, "publish")
    /\ UNCHANGED <<online, index, fresh, call, seen, left, todo, offered, built>>

CreateNew(r) ==
    /\ At(r, "make")
    /\ LET v == Head1(r).ver IN
        \/ /\ ~Present(v)
           /\ cms' = [cms EXCEPT ![v] = Head1(r).file]
           /\ Goto(r, "publish")
           /\ UNCHANGED <<online, index, fresh, call, seen, left, todo, offered, built>>
        \/ Present(v) /\ Fail(r)

(* Faults: the keys are written from the copy read before, not merged; the  *)
(* entry is not taken off the list.                                         *)
PublishCopy(r) ==
    /\ At(r, "publish")
    /\ index' = seen[r] \cup {Head1(r).ver}
    /\ fresh' = IF index' = index THEN fresh ELSE {}
    /\ todo' = [todo EXCEPT ![r] = Tail(@)]
    /\ Goto(r, NextStore(r, Tail(todo[r]), offered[r]))
    /\ UNCHANGED <<online, cms, call, seen, left, offered, built>>
PublishAgain(r) ==
    /\ At(r, "publish")
    /\ index' = index \cup {Head1(r).ver}
    /\ fresh' = IF Head1(r).ver \in index THEN fresh ELSE {}
    /\ Goto(r, NextStore(r, todo[r], offered[r]))
    /\ UNCHANGED <<online, cms, call, seen, left, todo, offered, built>>

(* addPatchInfoToConfigMap merges one key, whatever the resourceVersion; a  *)
(* key that is already there is no change to the object.                    *)
Publish(r) ==
    /\ At(r, "publish")
    /\ index' = index \cup {Head1(r).ver}
    /\ fresh' = IF Head1(r).ver \in index THEN fresh ELSE {}
    /\ todo' = [todo EXCEPT ![r] = Tail(@)]
    /\ Goto(r, NextStore(r, Tail(todo[r]), offered[r]))
    /\ UNCHANGED <<online, cms, call, seen, left, offered, built>>

(* getPatchInfo reads bke-config again for the key it found in the list.    *)
Resolve(r) ==
    /\ At(r, "resolve")
    /\ Goto(r, IF want[r] \in index THEN "apply" ELSE "error")
    /\ UNCHANGED <<shared, fresh, call, seen, left, todo, offered, built>>

(* Fault: the declared version is not written into the object. *)
ApplyVersionKeepsName(r) ==
    /\ At(r, "apply") /\ stage[r] = "version"
    /\ cms[want[r]] \in Patches
    /\ base' = [base EXCEPT ![r] = cms[want[r]]]
    /\ stage' = [stage EXCEPT ![r] = "addons"]
    /\ Goto(r, "read")
    /\ UNCHANGED <<shared, fresh, call, seen, left, todo, offered, want, addons>>

(* patchVersion: the file is read from its ConfigMap and the version it     *)
(* declares is written into the object, so patchAddonsInfo then looks for   *)
(* the declared version, through another listing.                           *)
ApplyVersion(r) ==
    /\ At(r, "apply") /\ stage[r] = "version"
    /\ \/ /\ cms[want[r]] \in Patches
          /\ base' = [base EXCEPT ![r] = cms[want[r]]]
          /\ want' = [want EXCEPT ![r] = Declares[cms[want[r]]]]
          /\ stage' = [stage EXCEPT ![r] = "addons"]
          /\ Goto(r, "read")
          /\ UNCHANGED <<shared, fresh, call, seen, left, todo, offered, addons>>
       \/ cms[want[r]] \notin Patches /\ Fail(r)

(* patchAddonsInfo: getAddonsFromPatchCM checks that the file is there and  *)
(* can be parsed, not that its versions are complete.                       *)
ApplyAddons(r) ==
    /\ At(r, "apply") /\ stage[r] = "addons"
    /\ \/ /\ Present(want[r])
          /\ addons' = [addons EXCEPT ![r] = cms[want[r]]]
          /\ Goto(r, "ok")
          /\ UNCHANGED <<shared, fresh, call, seen, left, todo, offered, want, stage, base>>
       \/ cms[want[r]] \notin Patches /\ Fail(r)

(* A call fails or its answer is lost, or the process is killed: the        *)
(* request ends where it is.  The call itself may have been carried out     *)
(* (the abort follows its action) or not (it comes before).                 *)
Abort(r) == pc[r] \in Active /\ Fail(r)

(* The operator edits bke-config to use a remote repository, or none.       *)
SwitchMode ==
    /\ online' = ~online
    /\ fresh' = {}
    /\ UNCHANGED <<index, cms, pc, call, seen, left, todo, offered, built>>

Store(r) == Lookup(r) \/ DeleteOld(r) \/ CreateNew(r) \/ Publish(r)
Clean(r) == FetchIndex(r) \/ CleanOne(r) \/ CleanDone(r) \/ UpdateConfig(r)
Apply(r) == Resolve(r) \/ ApplyVersion(r) \/ ApplyAddons(r)
Handle(r) ==
    ReadForUpload(r) \/ ReadSource(r) \/ Clean(r) \/ Store(r) \/ Apply(r)

Next ==
    \/ \E r \in Requests : Begin(r) \/ Handle(r) \/ Abort(r)
    \/ SwitchMode

Spec == Init /\ [][Next]_vars

(* No call fails, the process stays up and the mode stays what it is.       *)
ReliableNext == \E r \in Requests : Begin(r) \/ Handle(r)
(* A goroutine that has a call to make makes it, and calls return.          *)
Fairness == \A r \in Requests : WF_vars(Handle(r))
StableSpec == Init /\ [][ReliableNext]_vars /\ Fairness

-----------------------------------------------------------------------------
(* PROPERTIES                                                               *)

TypeOK ==
    /\ online \in BOOLEAN
    /\ index \in SUBSET Versions
    /\ cms \in [Versions -> Files \cup {Nothing}]
    /\ fresh \in SUBSET Requests
    /\ pc \in [Requests -> Active \cup Rest]
    /\ op \in [Requests -> Ops]
    /\ asked \in [Requests -> Versions]
    /\ want \in [Requests -> Versions]
    /\ stage \in [Requests -> {"version", "addons"}]
    /\ seen \in [Requests -> SUBSET Versions]
    /\ left \in [Requests -> SUBSET Versions]
    /\ todo \in [Requests -> Seq(Entry)]
    /\ offered \in [Requests -> SUBSET Versions]
    /\ base \in [Requests -> Files \cup {Nothing}]
    /\ addons \in [Requests -> Files \cup {Nothing}]

(* A request that may still write back its copy of bke-config holds, if the *)
(* copy has the current resourceVersion, the current index: the argument    *)
(* for NoLostEntry.  A no-op merge must be the only write that leaves the   *)
(* resourceVersion alone.                                                   *)
FreshCopyIsCurrent ==
    \A r \in fresh :
        pc[r] \in {"fetch", "clean", "update"} => seen[r] = index /\ online

(* Entries leave the index only through the Update that ends a clean-up,    *)
(* and that Update drops exactly the entries its request had read: an       *)
(* entry some other request published in between is never lost with them.   *)
NoLostEntry ==
    [][index \subseteq index' \/
        \E r \in Requests : /\ At(r, "update") /\ op[r] # "upload"
                            /\ index = seen[r] /\ index' = {}]_vars

(* ... and so bke-config is an object under optimistic concurrency: a       *)
(* clean-up, spread over many calls, writes back what is still the object,  *)
(* whatever the requests in between did, failed to do or left half done.    *)
Config == INSTANCE ConfigObject WITH
    Clients <- Requests, Keys <- Versions, keys <- index, holders <- fresh,
    copy <- [r \in Requests |-> IF r \in fresh THEN seen[r] ELSE {}]
ImplementsConfig == Config!ObjectSpec

(* Offline nothing is cleaned, and a version can be in the index without    *)
(* its ConfigMap only while an upload of that very version stands between   *)
(* its delete and its create.                                               *)
Replacing(v) == \E r \in Requests : At(r, "make") /\ Head1(r).ver = v
DanglingIsTransient == ~online => \A v \in Dangling : Replacing(v)

(* Offline an acknowledged upload stays: its version is offered, and its    *)
(* ConfigMap is there unless a later upload is replacing it.                *)
AckedUploadKept ==
    ~online => \A r \in Requests :
        op[r] = "upload" /\ At(r, "ok") =>
            asked[r] \in index /\ (Present(asked[r]) \/ Replacing(asked[r]))

(* ... and the replacement comes: offline a version without its ConfigMap   *)
(* gets one back.                                                           *)
DanglingHeals == \A v \in Versions : ~online /\ v \in Dangling ~> Present(v)

(* Every request is answered when no call fails: the loops of the clean-up  *)
(* and of the load end, whatever the other requests do.                     *)
EveryRequestEnds == \A r \in Requests : pc[r] \in Active ~> pc[r] \in Rest

(* The service is online and at rest with a version of the index that has   *)
(* no ConfigMap.                                                            *)
Wedged == online /\ AtRest /\ Dangling # {}

(* It never recovers.  Blocked on such a version, as it is when at rest, it  *)
(* stays blocked on it: every request that lists fails on that version in   *)
(* its clean-up, before it loads anything or drops the key.                 *)
BlockedOn(v) ==
    /\ online /\ v \in Dangling
    /\ \A r \in Requests :
        /\ pc[r] \in Rest \cup {"read", "fetch", "clean"}
        /\ pc[r] \in {"fetch", "clean"} => v \in left[r]
WedgeIsPermanent == [][\A v \in Versions : BlockedOn(v) => BlockedOn(v)']_vars

(* "2b. online mode: patch information is synchronized into ConfigMaps      *)
(* automatically": with the service online and no call failing, the catalog *)
(* can be listed whenever no request is in progress.  It cannot: two        *)
(* listings at a time leave it wedged.                                      *)
OnlineCatalogUsable == ~Wedged
=============================================================================
