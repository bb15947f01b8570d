# installer-service in TLA+

installer-service is a stateless HTTP front end, written in Go, between the openFuyao console and the
Kubernetes API of a management cluster. It creates, scales, upgrades and deletes clusters by writing
`BKECluster` and `BKENode` objects, which the BKE controller (another program) acts upon; it keeps the
catalog of installable versions in ConfigMaps; it streams the Events of a cluster to a websocket.
It holds no lock across calls and no queue: every request runs in a goroutine of its own and talks to
the API server call by call. What is hard about it is therefore what several requests do to shared
objects in between each other's calls, what a request leaves behind when a call fails or the process
ends, and what a success answer then still means.

## Inventory

| Component | Code | State | Operations | Hard parts |
|---|---|---|---|---|
| Patch catalog | `cluster.go` 1423-1541, 1623-1900; `utils.go` 40-73, 152-198, 260-272 | the keys `patch.<version>` of the ConfigMap `bke-config`, the ConfigMaps `cm.<version>`, the mode | upload, list for deployment, list for upgrade, look-ups of a create | two kinds of object without a transaction; GETs that delete and reload; a read-modify-write across a remote fetch; delete-then-create |
| Cluster resources | `cluster.go` 124-285, 502-713; `cluster_create.go` 129-185; `handler.go` | namespaces, BKEClusters, BKENodes | create, scale up, scale down, delete, upgrade | several documents per create and nothing undone; AlreadyExists taken for success; `log.Fatal`; a whole-object write-back |
| Cluster log stream | `cluster.go` 716-787; `handler.go` 93-116 | one informer, a stop channel, a flag and a connection per stream | open; the informer's callbacks | four goroutines; history against new events; a queue still to be drained when the stream ends |
| Node validation | `cluster.go` 287-500, 1058-1153 | none (reads every cluster) | `POST /nodes/validate` | reads of many objects while they change; nodes that have not joined; errors skipped |
| Cluster status | `cluster.go` 796-1056, 1241-1421 | the global map `statusProcessors` | list, detail and node queries, delete | clean-up against concurrent listings and deletes; sweeps of a map that others fill; clusters that do not answer |
| Version filters | `cluster.go` 1544-1621 | none | filters of the two version lists | two filters of one list; boundary cases of version segments |
| Create-request builder | `cluster_create.go`, `utils.go` 75-150, 200-258 | none | request to YAML documents, merging of add-ons and patches | values that are to be cleared; renamed add-ons; order of merging |
| Default configuration | `cluster.go` 1155-1239 | none | `GET /configs` | parsing |
| Auto-upgrade preparation | `auto_upgrade.go` | directories on the host | unpack an archive, push images, copy binaries | concurrent runs in one directory; a variable set in one mode only |
| Filter chain, routing | `pkg/server`, `register.go` | none | request info, dispatch, proxy | none beyond the decision itself |
| Bootstrap, clients, logging | `cmd`, `pkg/client`, `pkg/zlog` | a global logger | start-up | hot reload of the logger |

Interactions: a create (cluster resources) lists and reads the patch catalog twice before it writes the
BKECluster; the validation of nodes and the status queries read what cluster resources writes; the log
stream reads what the BKE controller records about it; auto-upgrade reads the catalog's mode and a
BKECluster. All of it goes through the API server.

What makes each component correct:

- *Patch catalog*: an offered version has its file; an acknowledged upload stays; a reload of the
  catalog drops nothing it had not read; a failed reload does not make the next one fail; a create uses
  the files of the versions it names.
- *Cluster resources*: a success answer means that what was asked for exists (or is gone); a repeated
  request completes what an earlier one left half done; no request reverts another's write; the
  controller never sees a cluster before its nodes; the service survives concurrent requests.
- *Log stream*: every event once; history ends nothing and is shown in full; a finish ends the stream; what is
  queued behind it is still written.
- *Node validation*: no address or name accepted twice among what can be seen.
- *Cluster status*: the processors follow the clusters; every query is answered; an item shows its own nodes.
- *Version filters*: the two lists agree, and no version in the catalog is out of a cluster's reach.
- *Create-request builder*: every add-on and parameter asked for in the cluster, what the version's patch
  file says on top, the built-in values elsewhere, nothing twice.
- *Auto-upgrade*: success means images pushed and binaries copied.

## Modules

### PatchCatalog

State: `index` (the versions with a key in bke-config), `cms` (the file in each `cm.<version>`),
`online`, and per request the program counter and locals of the handler. One action is one call to the
API server or the remote repository together with what the code does until the next one:

- `ReadForUpload`, `Lookup`, `DeleteOld`, `CreateNew`, `Publish` are `UploadPatchFile`;
- `ReadSource`, `FetchIndex`, `CleanOne`, `CleanDone`, `UpdateConfig`, then `Lookup` ... `Publish` for
  each entry of the remote index are `getVersionsFromSource`, online;
- `Resolve`, `ApplyVersion` and `ApplyAddons` are what a create does after each of its two listings;
- `Abort` ends a request at any call, whether the call was carried out or not; it stands for failed
  calls, lost answers and a killed process.

`fresh` models resourceVersions: a request is in it as long as the copy of bke-config it may write back
is the current one. Every write that changes bke-config empties it, a merge that changes nothing does
not. Files are atoms; `Declares` gives the version each well-formed one states, and nothing relates it
to the name under which the file is stored, exactly as in the code. The remote repository does not
change (`Repo`). Some requests may be `Begin`-ned again after they end, so a run is not limited to one
operation per request.

Specifications: `Spec` has failures and mode switches; `StableSpec` has neither and is weakly fair to
each handler (a goroutine that can go on does, and calls return: what Go's scheduler and the client's
timeouts give when nothing fails).

`ConfigObject` is what the writers of bke-config promise each other: an object under optimistic
concurrency, in which a key may be merged at any time, and from which keys are removed only by writing a
whole copy back, at once, with a copy that is the object as it stands. `ImplementsConfig` says that
`PatchCatalog` implements it: its keys are `index`, its holders `fresh`, and a holder's copy is what the
request has read (`seen`); a copy that may not be written back counts as empty. Failures and mode
switches are steps of the object too (`Drop`, `Touch`) or none at all.

### CatalogService, with VersionFilter and CreateRequest

`VersionFilter` has the two filters as operators on a set of versions, a version being its segments and a
pre-release number. The parser and the order are hashicorp/go-version's and external: a release has at least
three segments, which is an assumption of the module, a missing one is zero in a comparison, and
pre-releases count only between equal segments. `FiltersAgree` and `InReach` are what a list should come to.
The first has an exception: a version of four segments whose third is zero is never installable, but is
offered to clusters of earlier lines as if it were the first of its line (`cluster.go` 1567 against 1606).

`CreateRequest` has the add-ons of a create as operators: the built-in ones as the request changes them
(`mergeAddons`: a name and its alias, the last request of a name, parameters, what is turned off, what comes
without a version; `Over` is one set of parameters written over another), then as the patch file does (`updateCRDAddonsWithPatch`: version unless empty, flag,
parameters). `AsRequested` states the result by the two lists as they were given, not by the order of merging.
`patchCoreDNSAntiAffinity` is left out: it looks for nodes in the object, which has none, and so
changes nothing.

`CatalogService` extends `PatchCatalog` and composes the three: the catalog that requests one after the
other leave behind, the listings that are answered from it, and the clusters that are created from it. It
keeps the catalog's actions, lets a request begin only when no other is in progress, and lets calls fail and
the mode change at any time. Two history variables record what went wrong: `cut`, the versions whose key
and ConfigMap a failed request left apart, until a later one of that version (or a clean-up that removes
the key) sets them right; and `disturbed`, the requests that failed half-way or saw the mode change.

### ClusterStore and ClusterResources

`ClusterStore` is the abstract specification: how namespaces, BKEClusters and BKENodes may change, one
step at a time, with no request in sight. `ClusterResources` is the code, and `ImplementsStore` says that
it implements the store: the three object variables are the same, so the refinement mapping is the
identity on them and hides everything else.

State of `ClusterResources`: `ns`, `bke`, `nodes` (the API server's), `up` (the process), and per request program counter,
documents left and, for a delete, the copy of the BKECluster read. A machine has a name (`NameOf`), and
a BKENode is found by its name: a machine listed under a name in use is silently left out, as in the
code. `MakeNamespace` ends the process (`Die`) when the namespace exists by then: `log.Fatal`. A failed
`Get` of a namespace counts as a missing one, a failed discovery as a success without effect (`skipped`).
`Kill` and `Restart` are the platform's. `Reconcile` and `Reap`, the BKE controller's, are external:
it may write a cluster's status at any time, and remove a cluster that is marked for deletion.
`undone` is a history variable: it notes that somebody else has removed (or, for a scale-down, added)
something on the cluster of a request, so that properties of answers can be stated exactly.

### ClusterLog

State: the client-go informer as the code uses it (`reflector`, `wire`, `queue`, `store`, `listed`,
`owed`), the flag and the goroutine that sets it (`cacheSynced`, `syncer`), the stop channel, the
connection and its client. `Handle` is one turn of the informer's process loop: it pops an event and runs
`AddFunc` or `UpdateFunc`. The check of the stop channel and its close (751-752) are one step, `CloseStop`: nobody
else closes it while the loop runs, so that no other order of the two exists. `Return` is the end of `controller.Run`,
which waits for the loop and the reflector, with the deferred functions behind it: that of `GetClusterLog` finds the
channel closed, that of the handler closes the connection. A write to a connection that is closed, or to a client
that is gone, only logs; so what matters is that nothing is dropped that way (`HandledIsSent`). The informer, the API
server and the client are external; a client that stays but does not read, which would block a write, is left out.

### NodeJudge

Composed with `ClusterStore` (it extends it, and takes `StoreNext` as what goes on meanwhile): one
validation, `JudgeClusterNode`, call by call. `ListClusters` is `GetClusters`; `ReadRemote` and `ReadLocal` are
the two ways `GetNodes` has to list the nodes of a cluster, a failed read counting as a cluster without
nodes, as in `collectAllNodeIPs` and `IsNodeNameOk`; `Compare` is the two duplicate checks; `Probe` and
`PingBalancer` are the SSH, clock and ping checks by their outcomes. External: which machines have joined a
cluster (`joined`) and whether its API and token can be used (`reach`). A read of the BKECluster, the token
and the cluster's nodes is one action: when any of the three fails the code falls back to the BKENodes.
The model takes every node to have an internal address. `standing` and `shown` are history: what existed,
and could be seen whichever way it was read, all the time since the request.

### ClusterStatus

Composed with `ClusterStore` too. `procs` is the sync.Map `statusProcessors` (which clusters have a processor;
the only field of one is never read, and left out), and per request there is the program counter, the list
read, what `Range` has still to visit, what is left of the list, and `sum`, whose BKENodes were counted.
`List`, `Sweep`, `Swept`, `Item`, `Count`, `GetNodes` are a listing, `Get`, `Keep`, `IsHA`, `GetNodes` a detail,
`Get`, `MarkCluster`, `Drop` a delete. `Sweep` is one key visited by `Range`, once each, in any order, where a
key stored meanwhile may or may not be met. `Hold` is a cluster that takes the connection and does not
answer: the client for it has no timeout, so a held request may stay held. What the repository calls a
status, the conversion of a phase, a state and a health into a word, is not modelled.

### AutoUpgrade

State: the archives (`package`), the directory each unpacks into (`exists`, `dir`), the registry's directory
(`mount`), the mode, and per request where its script is. `Begin` is the checks of the service, `BuildScript`
the reads of the BKECluster and of the mode and the choice of the script; from `Check` to `Copied` an action
is one command of the bash script, and `OpenFile`, `CloseFile` and `Copy` one file of `tar` and of `cp`, for
nothing keeps two scripts from working in one directory. A command that fails ends the script (`set -e`,
`Abort`). Which part of the script defines `ABSOLUTE_PATCH_DIR` is in `Find`. A file carries the package it
is from and who is still writing it, which is all that the properties tell apart. `Find` takes only those files
into the loop whose path has no white space (`Unsplit`): the script goes over the words of an unquoted `$FILES`
(131) and passes over a word that is no file (132), so with white space in the path of the patch, which
`normalizePath` and `normalizeFileName` let pass, nothing is copied and the preparation succeeds. `Spaced` says which
paths and names have white space; that a word of such a path happens to be a file of its own is left out. An archive is taken to
unpack into the directory of its own name, as documented; one that does not leaves an empty directory, and
the preparation succeeds having copied nothing.

### Checking modules

`MCPatchCatalog`, `MCCatalogService`, `MCClusterResources`, `MCClusterLog`, `MCNodeJudge`, `MCClusterStatus` and
`MCAutoUpgrade` extend these and only define values for the constants and the symmetry sets. The definitions commented *Fault* are variants of an action with a
plausible mistake; no specification uses them, they are what PROJECT.json's mutants put in an action's
place to see that a property notices.

## What the runs check

| Run | Shows |
|---|---|
| `catalog_serial` | One request at a time, with failures and mode switches. Between requests index and ConfigMaps agree but for what a failed request left (`CatalogExact`); an online listing mirrors the remote index (`RepoMirrored`); a create that ends well has taken versions and add-ons from the right files, as they are then (`CreatedFromCatalog`), and its answer is predictable (`CreateEndsAsOffered`), though `GET /versions` reads another path; what it creates has the add-ons asked for (`AddonsAsRequested`). Offline the two version lists agree (`InstallableIsOffered`) and no version is out of reach (`NoDeadEnd`). |
| `catalog_stable` | Two requests interleaved, no failures, each mode. Offline: an acknowledged upload stays (`AckedUploadKept`), a version lacks its ConfigMap only during its replacement and gets it back (`DanglingIsTransient`, `DanglingHeals`). Online: a wedged catalog stays wedged (`WedgeIsPermanent`). A clean-up drops exactly what it had read (`NoLostEntry`), because a copy with the current resourceVersion is current (`FreshCopyIsCurrent`); bke-config is an object under optimistic concurrency (`ImplementsConfig`). Every request is answered (`EveryRequestEnds`). |
| `catalog_wedge` | *Violated.* Two listings can leave the online catalog wedged: keys whose ConfigMaps are gone. |
| `cluster_resources` | Two requests on one cluster, failures, kills, restarts. Success answers hold (`AckedCreateComplete`, `AckedScaleDownComplete`), whatever was left by earlier requests; a BKECluster appears only after its nodes (`ClusterAfterNodes`); only an upgrade changes a version (`VersionOnlyByUpgrade`); the resources change only as the store says (`ImplementsStore`): names are unique in a cluster, a deletion mark stays until the cluster is gone, no step upgrades and marks at once. |
| `cluster_fatal` | *Violated.* Two creates of one cluster can end the process, with no call failing. |
| `log_stream` | History never ends the stream, nor does a stream end before it has been shown in full (`HistoryStreamed`); no event is sent twice, none is lost over a broken watch, none between the queue and a client that stays, also behind the finish event that ends the stream (`HandledIsSent`); and a finish event handled after the flag is set ends the stream. |
| `log_finish_missed` | *Violated.* A finish event handled between the first list and the syncer's poll never ends the stream. |
| `node_judge` | What a validation accepts has no address of a node, and no name of a node of its cluster, that could be seen all the while (`AcceptedAddressesFree`, `AcceptedNamesFree`), though clusters come and go, answer and fall silent between its reads. |
| `node_judge_claimed` | *Violated.* With nothing moving, the address of a BKENode whose machine has not joined yet is accepted again. |
| `cluster_status` | Two queries or deletes interleaved while clusters come and go. As long as listings are answered, a cluster that is gone for good has no processor in the end and one that stays has one (`ProcessorsSettle`); a query ends unless a silent cluster holds it for ever (`QueriesEnd`); an item never counts another cluster's nodes (`CountsOwnNodes`). |
| `upgrade_prepare` | A preparation that succeeds alone has copied exactly the binaries of the archive it opened, but for those with white space in their path, complete, whatever an earlier one left (`PreparedExactly`). Where two overlap, no incomplete binary lasts unless one was answered with an error or the archive was replaced (`TruncatedIsTransient`). |
| `upgrade_online` | *Violated.* Online every preparation fails at its last step. |

The five violated properties state what the repository's documents and comments say; PROJECT.json's
findings quote them.

Bounds. Two requests are enough for the races that the code is exposed to: each of its conflicts is
between one request that has read something and one that changes it, and requests can begin again
without limit. Two versions let a request work on one while another is on the other; two files let a
file be replaced. Interleaving and failures together are not run for the catalog, where they are proved:
the theorems on `Spec` below hold for both, of any size. `catalog_serial` has one request, for its callers
take turns, and three versions, a malformed file that the remote index lists, and remote indexes that differ and list a version twice;
each version is of another kind for the filters (the first of a line, a patch, four segments), the clusters
that ask are of those versions, of one between, of lines on either side, a pre-release and one of four
segments; requests name up to two add-ons, which is enough for an alias to meet its name. `cluster_status`
has two requests, since a sweep meets one other writer at a time, two clusters, for a listing must
have one behind another, and no nodes, since only whose they are matters. `cluster_resources` has one cluster,
because nothing relates two of them, and three machines, two of which share a name; node lists have up
to two entries. `node_judge` has two clusters, that of the request and another one, and two machines of one name
and different addresses; one version, since nothing reads it, and one validation, since validations do
not write. `upgrade_prepare` has one archive path, as preparations meet only there, two packages of which one
lacks a kind of binary and has a binary with white space in its name, and two requests. `log_stream` has one event that is logged and two that end a stream, in any order and
with any of them in the history; `MaxBreaks` and `MaxRepeats` bound how often a watch is lost and an
event is updated (once each: a second one meets the same states). `CHECK_DEADLOCK FALSE` in the log's
configurations is there because a stream that has ended stays so.

Fairness is assumed for the steps of the code's own goroutines and for the informer's; never for
callers, the BKE controller, failures, or the client. `ClusterStatus` assumes it for handlers that wait for
the management cluster and not for one held by another cluster (`~At(r, "held")`), because the client
for those clusters has no timeout; `QueriesEnd` and `ProcessorsSettle` state what they need of them.

Two results besides. An upload offers the stem of its file's name and not the version the file declares
(`cluster.go` 1451, the comment at 1438 says otherwise): `CatalogExact` and `CreatedFromCatalog` are stated
for versions as the catalog names them, and `CreateEndsAsOffered` needs the version that the file declares to be
in the catalog as well. Nor do the two look-ups of a create ask the same of a file: that of the versions refuses one
that `validatePatchVersionInfo` would, that of the add-ons takes whatever it can parse. So `CreateEndsAsOffered`
leaves open how a create ends whose declared version has a malformed file. And `TruncatedIsTransient` needs its condition: without it TLC finds
overlapping preparations after which a truncated binary stays in the registry's directory. And of preparations that
overlap it says only that no binary is left incomplete: one whose directory was removed under it passes over the
files that are gone, and its success answer does not mean that they were copied.

## What is proved

Every invariant and every action property that a run checks to hold is also a theorem, for every value of the
constants that satisfies the modules' `ASSUME`s; the liveness properties are model-checked only.

| Proof module | Theorems |
|---|---|
| `PatchCatalogProofs` | `TypeCorrect`, `FreshCorrect`, `EntriesKept`, `ConfigRefinement`, `DanglingCorrect`, `AckedCorrect`, `WedgeStays` |
| `CatalogServiceProofs` | `HalvesAgree`, `ListingsMirror`, `CreatesFromCatalog`, `CreatesPredictable`, `OffersAgree`, `NoDeadEnds`, `MergesAsRequested`, `AddonsFollow` |
| `VersionFilterProofs` | `FiltersAlwaysAgree`, `NothingOutOfReach` |
| `ClusterResourcesProofs` | `TypeCorrect`, `Refinement`, `VersionKept`, `AckedCreate`, `AckedScaleDown`, `NodesFirst` |
| `ClusterLogProofs` | `TypeCorrect`, `HistoryHarmless`, `HistoryComplete`, `NothingDropped`, `SentAtMostOnce` |
| `NodeJudgeProofs` | `AddressesAccepted`, `NamesAccepted` |
| `ClusterStatusProofs` | `TypeCorrect`, `OwnNodesCounted` |
| `AutoUpgradeProofs` | `PreparesExactly`, `TruncatedGoes` |

### PatchCatalog

The proofs of `PatchCatalogProofs` assume about the constants only the three `ASSUME`s of
`PatchCatalog` (what the types of `Declares` and `Repo` are, and that `Nothing` is no file), so they
hold for any number of requests, versions and files and any remote index.

- `TypeCorrect`: `Spec => []TypeOK`. The invariant is `Typed`, that is `TypeOK` with `Placed`: where a
  request may be, given its operation, and that it has an entry in hand wherever the code takes the head
  of its list. Without `Placed`, `Head` and `Tail` could be applied to an empty list and `TypeOK` would
  not be inductive.
- `FreshCorrect` and `EntriesKept`: `Spec => []FreshCopyIsCurrent` and `Spec => NoLostEntry`. The
  inductive part is that what a fresh copy holds is the index itself: every action that changes the index
  empties `fresh`, and one that does not leaves both alone. The Update of a clean-up is then the only step
  that removes entries, and removes those it had read.
- `ConfigRefinement`: `Spec => ImplementsConfig`. Each action is a step of `ConfigObject` or a stutter. A GET
  is `Get` where it can be followed by an Update and else no step; `FreshCorrect`'s invariant is what
  makes the Update of a clean-up a `WriteBack`, the only step that may remove keys.
- `DanglingCorrect` and `AckedCorrect`: `StableSpec => []DanglingIsTransient` and `StableSpec =>
  []AckedUploadKept`. The invariant `OfflineInv` says that offline nobody is in a clean-up, that every
  listed version is covered (its ConfigMap exists or some request stands between its delete and its
  create), and that the version in the hand of a request about to publish is covered too. `CoveredKept`
  shows that no step loses coverage: the request between delete and create leaves that place only by
  creating, or because the ConfigMap is there again.
- `WedgeStays`: `StableSpec => WedgeIsPermanent /\ [](Wedged => [](Dangling # {}))`. For one version without
  a ConfigMap, every request that reads bke-config from then on has it among the keys it must clean and can
  never be done with them (`BlockedOn`). A wedged catalog is blocked on each version it lacks, and
  `BlockedOn` is kept by every step: the defect does not depend on the size of the instance.

### ClusterResources

The proofs of `ClusterResourcesProofs` assume that node lists are sequences of nodes and that `Absent` is
no cluster; they hold for any number of requests, clusters, machines, names and versions, under `Spec`, that
is with failures, kills and restarts.

- `TypeCorrect`: `Spec => []TypeOK`. The invariant is `Typed`: `TypeOK`, `Placed` (where a request may be,
  given its operation; that it has a node in hand wherever the code takes the next one; that a document is
  only created in a namespace that exists) and `CopyCurrent` (a copy whose resourceVersion is current equals the
  object).
- `Refinement`: `Spec => ImplementsStore`. Each step is a step of `ClusterStore` or leaves its variables alone;
  `Placed` gives the namespace of a create, `CopyCurrent` that a delete marks the object as it is.
- `VersionKept`: `Spec => VersionOnlyByUpgrade`, from the same invariant: the whole-object write of a delete
  carries the current version because its copy is current.
- `AckedCreate`, `AckedScaleDown`, `NodesFirst`: `Spec => []AckedCreateComplete`,
  `Spec => []AckedScaleDownComplete`, `Spec => ClusterAfterNodes`. The invariant adds `Progress`: the nodes a
  request has left are the last ones of its list (`Suffixed`); unless undone, every position behind it has
  its node (`Provided`) or, for a scale-down none of whose deletes failed, has none (`Dropped`); success is
  answered when none is left (`Finished`). `TakeOne` is the lemma on lists: taking the first of the nodes
  left moves exactly one position behind.

### VersionFilter

The proofs assume that a release has at least three segments, all natural numbers, and that the names "latest" and
"unparsable" are no releases; a list is any set of releases and of these two.

- `FiltersAlwaysAgree` and `NothingOutOfReach`: `FiltersAgree(list)` and `InReach(list)` for every list and a cluster
  of every version. What both rest on is `GreaterThan` on the segments that decide about lines: a version above
  another one of a different line is above it in its first two segments, and a first release (third segment
  zero) is above a version of its line only among pre-releases. The first filter looks at the third segment and
  the number of segments, the second at the lines, and between the two only the versions of four segments
  are left, which `FiltersAgree` names.

### CatalogService

Assumed besides: the versions of the catalog are names that `VersionFilter` knows, `AddonsOf` gives each file a list of add-ons,
requests are lists, and the built-in add-ons have versions and names of their own, as the built-in cluster has. `ServiceSpec` has any number of callers
who take turns, failures at any call, kills, and switches of the mode at any time.

- `OffersAgree`, `NoDeadEnds`: the theorems on the filters, with `Typed` of `PatchCatalogProofs` for the
  list.
- `HalvesAgree`: `ServiceSpec => []CatalogExact`. `CatalogExact` speaks of moments at which no request is in
  progress, so it is not inductive. `Exact` is: at most one request is in progress (`Sole`); and index and
  ConfigMaps agree on every version but the cut ones and those that the request in progress would leave apart
  if it ended now (`Spoils`: the keys whose ConfigMaps are gone already, the version between its delete and
  its key); and it knows which of the two halves of a version are there (`Halves`).
- `ListingsMirror`: `ServiceSpec => RepoMirrored`. The invariant `Loading` says how far a load has come: the
  index holds the versions of the entries stored, and each version the file of its last entry among those,
  but for the version in hand (`FilesBut`). `LoadStarts` and `LoadGoesOn` are its two ends: after the Update of
  the clean-up nothing is stored, and each key published makes it one entry more. `LastEntry` is the lemma that of the
  entries for a version there is a last one.
- `CreatesFromCatalog`, `CreatesPredictable`: `ServiceSpec => CreatedFromCatalog` and `ServiceSpec =>
  CreateEndsAsOffered`. The invariant `Created` says of a create that nothing disturbed that its copy of
  bke-config can be written back, that offline it never cleans, that what it looks a version up in is
  the catalog as it stands (online, what `Loading` makes of the remote index), and that the file which gave the component versions is still
  the file of the version asked for, although the second listing has removed and loaded the catalog again. That no
  step ends in an error takes `Halves` too: a clean-up of an intact catalog finds every ConfigMap it deletes, and a
  load finds none where it creates one.
- `MergesAsRequested`, `AddonsFollow`: `AsRequested(reqs, patch)` for every two lists, and `ServiceSpec =>
  []AddonsAsRequested`. `Sourced` states where the fields of an add-on come from after the first merge, `InOrder`
  after the second; add-ons are told apart by their names throughout. The invariant adds only that a create that succeeded
  has a file behind its add-ons (`FileBehind`).

### ClusterLog

Assumed: what the types of `Kind` and the two bounds are. Any number of Events, lost watches and updates; the
Events that exist when the stream opens are finitely many, for they are listed.

- `HistoryHarmless`: `Spec => []HistoryNeverCloses`. The invariant `History`: as long as the flag is not set,
  whatever of the first list has not been handled is among the first `owed` events of the queue; the flag
  is set only when none is owed; and only after it the channel is closed. The lemma behind it is that a list, in
  whatever order, has everything that is listed in it (`ListOfSet`).
- `NothingDropped`: `Spec => []HandledIsSent`. The connection is open as long as the process loop runs (`Open`), and
  whatever the loop handles for the first time it writes (`Turn`), before and after the channel is closed.
- `HistoryComplete`: `Spec => []HistoryStreamed` joins the two: when the channel is closed none of the first list is
  owed any more, so all of it has been handled (`History`), and what was handled has been written.
- `SentAtMostOnce`: what was written has been handled (`Handled`), so that it is an update when it comes again.
- `TypeCorrect` comes with them; the sequences of the informer are typed by `Typed`, which says that a
  list is finite.

### NodeJudge

`AddressesAccepted`, `NamesAccepted`: `Spec => AcceptedAddressesFree` and `Spec => AcceptedNamesFree`, for any
clusters, machines, addresses and names, and any steps of `ClusterStore` in between. The invariant
(`CollectedAll`): what could be seen all the while has been collected, or is of a cluster still to be read; a read
by either path keeps it because `Shown` asks for both, and the history only shrinks (`Kept`), so that what a
comparison has found free stays so (`Compared`) until the answer.

### ClusterStatus

`TypeCorrect` and `OwnNodesCounted`: `Spec => []TypeOK` and `Spec => []CountsOwnNodes`. The invariant (`Sums`) says of every place of a
handler whose nodes its sum may hold: the cluster's in hand or nobody's, and only between two items of a listing
those of the cluster before.

### AutoUpgrade

Assumed: an archive has some of the named files, each of which belongs to one of the components or to none, there is a component, and "nothing" is
no package, name, request or file; which paths and names have white space is left open.

- `PreparesExactly`: `Spec => PreparedExactly`. The invariant (`Exact`) follows a preparation that is alone in its
  directory through its script: what the directory holds is what the script has put there so far, at
  first nothing, then a part of the package it opened, then all of it; and what it has copied is what the loop over the
  components has come to.
- `TruncatedGoes`: `Spec => []TruncatedIsTransient`. The invariant speaks of all preparations at once: a file
  being written is what its writer is at (`Written`); and an incomplete binary will be copied again, by a request that has the
  file before it in its list and either finds it in the directory or puts it there first (`TruncatedIsDue`). It holds as
  long as no preparation failed and no archive was replaced under one (`Opened`).

### Only model-checked

Liveness is out of the prover's reach: `DanglingHeals`, `EveryRequestEnds`, `EveryEventStreamed`,
`FinishAfterSyncEnds`, `ProcessorsSettle` and `QueriesEnd` are checked by TLC on the instances above.

## Not modelled, and why

The table of components in PROJECT.json says it for each. In short:

- File contents and YAML are reduced to what decisions depend on. Of a create's documents the add-ons are
  modelled; the other fields are copied from the request one by one. The default configuration is string
  parsing whose result is shown and copied, and decides nothing.
- Of those fields, the two assignments of an empty `otherRepo` and `otherRepoIp` (`cluster_create.go` 160) have no
  effect, since `setIfNotEmpty` skips empty values: a cluster with a registry of its own keeps the built-in ones.
- The conversion of a cluster's phase and health into a status word (`getStatus`) is a table over values that the BKE
  controller chooses; nothing in the service depends on the word.
- The filter chain decides per request, on the path alone, whether to proxy it; bootstrap is straight-line.
- The namespaces' own life (termination) and the BKE controller are external; the deletion of Events does
  nothing in the code; `PatchYaml` and `ScaleDownCluster` are reached by no route.
- That an upgrade's version is among the offered ones is nowhere checked by the code, and so nothing is
  stated about it.

## Plan

1. *Done*: PatchCatalog with its proofs; ClusterResources with ClusterStore, their refinement and proofs;
   ClusterLog; NodeJudge on ClusterStore; AutoUpgrade.
2. *Done*: ClusterStatus on ClusterStore; VersionFilter and CreateRequest and their composition with the catalog,
   CatalogService; ConfigObject and the refinement, with its proof.
3. *Done*: proofs of every invariant and action property of the runs: the filters on every list, the merges of
   add-ons on every request and file, the catalog served in turns, the log stream, the validation of nodes, the
   status queries and the auto-upgrade.
4. What the liveness properties rest on, as action properties that can be proved: that each call of a handler brings
   its request nearer to its end, whatever the others do (for `EveryRequestEnds` and `QueriesEnd`), and that each
   sweep brings the processors nearer to the clusters listed (for `ProcessorsSettle`).
5. An abstract PatchLibrary (a map from versions to files, changed in one step) that the catalog implements
   when it serves one request at a time and nothing fails; the filter chain as a pure module.
