--------------------------- MODULE CatalogService ---------------------------
(***************************************************************************)
(* What the users of the catalog get: PatchCatalog together with the        *)
(* filters its listings are answered through (VersionFilter) and with the   *)
(* add-ons of the cluster that a create builds (CreateRequest), for callers *)
(* that wait for an answer before they ask again.  Calls fail, the service  *)
(* is killed, and the mode is edited at any time.                           *)
(*                                                                          *)
(* Two history variables say what happened: which versions a request that   *)
(* ended early left half done, and which requests did not run undisturbed.  *)
(***************************************************************************)
EXTENDS PatchCatalog, VersionFilter, CreateRequest

CONSTANTS
    AddonsOf,       \* the add-ons each file names
    AddonRequests   \* the add-ons that a POST /clusters may ask for

ASSUME AddonsAssumption ==
    /\ DOMAIN AddonsOf = Files
    /\ \A f \in Files : IsList(AddonsOf[f])
    /\ \A reqs \in AddonRequests : IsList(reqs)
ASSUME VersionsAssumption == Versions \subseteq Releases \cup {Latest, Unparsable}

VARIABLES
    cut,        \* versions whose key and ConfigMap a failed request left apart
    disturbed   \* requests that failed half-way or saw the mode change
service == <<cut, disturbed>>

(* Where a request that ends now leaves a key without its ConfigMap, or a   *)
(* ConfigMap without its key; and where it sets a version right.            *)
Spoils(r) ==
    CASE At(r, "clean") -> seen[r] \ left[r]
      [] At(r, "update") -> seen[r]
      [] At(r, "make") -> {Head1(r).ver} \cap index
      [] At(r, "publish") -> {Head1(r).ver} \ index
      [] OTHER -> {}
Heals(r) ==
    CASE At(r, "update") -> seen[r]
      [] At(r, "publish") -> {Head1(r).ver}
      [] OTHER -> {}
Track(r) == cut' = IF Fail(r) THEN cut \cup Spoils(r) ELSE cut \ Heals(r)

ServiceInit == Init /\ cut = {} /\ disturbed = {}
ServiceNext ==
    \/ \E r \in Requests :
        \/ Begin(r) /\ AtRest /\ UNCHANGED cut /\ disturbed' = disturbed \ {r}
        \/ Handle(r) /\ Track(r) /\ UNCHANGED disturbed
        \/ Abort(r) /\ Track(r) /\ disturbed' = disturbed \cup {r}
    \/ /\ SwitchMode /\ UNCHANGED cut
       /\ disturbed' = disturbed \cup {r \in Requests : pc[r] \in Active}
ServiceSpec == ServiceInit /\ [][ServiceNext]_<<vars, service>>

-----------------------------------------------------------------------------
(* PROPERTIES                                                               *)

(* Between requests the two halves of the catalog agree on every version    *)
(* but those that a failed request left half done, and a later one of that  *)
(* version or a clean-up has not set right.                                 *)
CatalogExact == AtRest => \A v \in Versions \ cut : v \in index <=> Present(v)

(* A listing answered online has made the catalog what the remote index     *)
(* lists: those versions, each with the file listed last.                   *)
LastFile(entries, v) ==
    entries[CHOOSE i \in DOMAIN entries :
        /\ entries[i].ver = v
        /\ \A j \in DOMAIN entries : entries[j].ver = v => j <= i].file
RepoMirrored ==
    [][\A r \in Requests :
        ~At(r, "ok") /\ pc'[r] = "ok" /\ op[r] \in Listings /\ online =>
            LET entries == Repo[RemotePath(r)] IN
            /\ offered[r]' = ListedVersions(entries) /\ index' = offered[r]'
            /\ \A v \in index' : cms'[v] = LastFile(entries, v)]_vars

(* A create that nothing disturbed has taken the component versions from    *)
(* the file of the version asked for, and the add-ons from the file of the  *)
(* version which that one declares, both offered when it ends.              *)
CreatedFromCatalog ==
    [][\A r \in Requests \ disturbed :
        op[r] = "create" /\ ~At(r, "ok") /\ pc'[r] = "ok" =>
            /\ base'[r] = cms'[asked[r]] /\ want'[r] = Declares[base'[r]]
            /\ addons'[r] = cms'[want'[r]]
            /\ {asked[r], want'[r]} \subseteq index']_vars

(* ... and its answer is predictable, though the version in a file may not  *)
(* be the one it is offered under, and GET /versions reads another path of  *)
(* the repository than a create does: with the catalog intact, a create     *)
(* succeeds only if its version is on the path for upgrades (offline, in    *)
(* the catalog) with a well-formed file and so, with any file, is the       *)
(* version which that file declares; and if that file is well-formed too,   *)
(* it does succeed.                                                         *)
Source == IF online THEN ListedVersions(Repo["patch"]) ELSE index
FileFor(v) == IF online THEN LastFile(Repo["patch"], v) ELSE cms[v]
Creatable(v) ==
    /\ v \in Source /\ FileFor(v) \in Patches
    /\ Declares[FileFor(v)] \in Source
CreateEndsAsOffered ==
    [][\A r \in Requests :
        /\ op[r] = "create" /\ pc[r] \in Active /\ pc'[r] \in Rest
        /\ r \notin disturbed' /\ cut = {}
        => LET v == asked[r] IN
           /\ pc'[r] = "ok" => Creatable(v)
           /\ Creatable(v) /\ FileFor(Declares[FileFor(v)]) \in Patches => pc'[r] = "ok"]_vars

(* Offline the two listings answer from one list, through different         *)
(* filters, and do not contradict each other.                               *)
InstallableIsOffered == ~online => FiltersAgree(index)

(* Offline no version of the catalog is out of a cluster's reach.           *)
NoDeadEnd == ~online => InReach(index)

(* A cluster that is created has the add-ons asked for and those built in,  *)
(* as the file of its version patches them.                                 *)
AddonsAsRequested ==
    \A r \in Requests : op[r] = "create" /\ At(r, "ok") =>
        \A reqs \in AddonRequests : AsRequested(reqs, AddonsOf[addons[r]])
=============================================================================
