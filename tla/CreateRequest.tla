---------------------------- MODULE CreateRequest ----------------------------
(***************************************************************************)
(* The add-ons of a cluster under creation: those of the built-in cluster   *)
(* (defaultClusterYaml) as the request of POST /clusters changes them       *)
(* (mergeAddons), and then as the patch file of the version does            *)
(* (updateCRDAddonsWithPatch).                                              *)
(*                                                                          *)
(* An add-on has a name, a version or NoVersion, a flag and parameters, a   *)
(* function on some of the keys.  A request names an add-on and gives       *)
(* parameters; a patch file gives all four.  The order of the add-ons of a  *)
(* cluster is that of a Go map at its end, so that they are a set.          *)
(***************************************************************************)
EXTENDS Naturals, Sequences

CONSTANTS
    Template,   \* the add-ons of the built-in cluster, a set
    Alias,      \* the name "openFuyao-cores", which a request may use
    System,     \* for "openfuyao-system-controller", of the built-in ones
    Enabled,    \* the parameter "enabled" of a request
    Off,        \* its values that mean no: "false", "0" and "no"
    NoVersion   \* no version, or an empty one

(* An add-on has these four fields; every built-in one has a version and a  *)
(* name of its own.                                                         *)
IsAddon(a) ==
    a = [name |-> a.name, version |-> a.version, block |-> a.block, param |-> a.param]
ASSUME TemplateAssumption ==
    /\ \A a, b \in Template : a.name = b.name => a = b
    /\ \A a \in Template : IsAddon(a) /\ a.version # NoVersion

IsList(s) == s \in Seq({s[i] : i \in DOMAIN s})
Names(addons) == {a.name : a \in addons}
normalizeAddonName(name) == IF name = Alias THEN System ELSE name

(* The parameters asked for by name: the last of a name counts.             *)
ReqMap(reqs) ==
    LET NameAt(i) == normalizeAddonName(reqs[i].name)
        At(n) == {i \in DOMAIN reqs : NameAt(i) = n} IN
    [n \in {NameAt(i) : i \in DOMAIN reqs} |->
        reqs[CHOOSE i \in At(n) : \A j \in At(n) : j <= i].params]
isAddonDisabled(params) == Enabled \in DOMAIN params /\ params[Enabled] \in Off
Wanted(asked, name) == name \in DOMAIN asked /\ ~isAddonDisabled(asked[name])

(* Parameters f written over the parameters g.                              *)
Over(f, g) ==
    [k \in DOMAIN f \cup DOMAIN g |-> IF k \in DOMAIN f THEN f[k] ELSE g[k]]

(* A built-in add-on stays unless the request turns it off; the system      *)
(* controller has to be asked for.  What else the request names comes       *)
(* without a version.                                                       *)
Kept(asked) ==
    {a \in Template : IF a.name \in DOMAIN asked \/ a.name = System
                      THEN Wanted(asked, a.name) ELSE TRUE}
WithParams(a, asked) ==
    IF a.name \in DOMAIN asked THEN [a EXCEPT !.param = Over(asked[a.name], @)] ELSE a
Extra(asked, name) ==
    [name |-> name, version |-> NoVersion, block |-> FALSE, param |-> asked[name]]

(* Fault: what was merged is added again. *)
mergeAddonsTwice(asked) ==
    {WithParams(a, asked) : a \in Kept(asked)} \cup
    {Extra(asked, n) : n \in {m \in DOMAIN asked : Wanted(asked, m)}}

(* What is left over is added in the order of a map. *)
mergeAddons(asked) ==
    {WithParams(a, asked) : a \in Kept(asked)} \cup
    {Extra(asked, n) : n \in {m \in DOMAIN asked \ Names(Kept(asked)) : Wanted(asked, m)}}

(* The patch file has the last word on what it names: its version, unless   *)
(* it is empty, its flag, given or not, and its parameters.                 *)
applyPatchToAddon(a, p) ==
    [a EXCEPT !.version = IF p.version = NoVersion THEN @ ELSE p.version,
              !.block = p.block, !.param = Over(p.param, @)]
updateCRDAddonsWithPatch(addons, patch) ==
    LET At(n) == {i \in DOMAIN patch : patch[i].name = n} IN
    {IF At(a.name) = {} THEN a
     ELSE applyPatchToAddon(a, patch[CHOOSE i \in At(a.name) : \A j \in At(a.name) : j <= i]) :
        a \in addons}

CreatedAddons(reqs, patch) == updateCRDAddonsWithPatch(mergeAddons(ReqMap(reqs)), patch)

-----------------------------------------------------------------------------
(* What the created cluster should have, from the two lists as they were    *)
(* given: each add-on once; of those nobody turned off, the built-in ones   *)
(* and those asked for, under either name of the system controller, the     *)
(* last request of a name counting; each parameter from the patch, else     *)
(* from the request, else built in; and a version, unless the add-on is     *)
(* neither built in nor in the patch.                                       *)
AsRequested(reqs, patch) ==
    LET created == CreatedAddons(reqs, patch)
        asked == ReqMap(reqs)
        NameAt(i) == normalizeAddonName(reqs[i].name)
        builtin == Names(Template) \ {System} IN
    /\ DOMAIN asked = {NameAt(i) : i \in DOMAIN reqs}
    /\ \A i \in DOMAIN reqs :
        (\A j \in DOMAIN reqs : NameAt(j) = NameAt(i) => j <= i)
            => asked[NameAt(i)] = reqs[i].params
    /\ \A a, b \in created : a.name = b.name => a = b
    /\ Names(created) = {n \in builtin \cup DOMAIN asked :
                            n \in DOMAIN asked => ~isAddonDisabled(asked[n])}
    /\ \A a \in created :
        LET At == {i \in DOMAIN patch : patch[i].name = a.name}
            patches == {patch[i] : i \in {j \in At : \A l \in At : l <= j}}
            old == {t \in Template : t.name = a.name} IN
        /\ a.version = NoVersion => old = {} /\ \A p \in patches : p.version = NoVersion
        /\ \A k \in DOMAIN a.param :
            \/ \E p \in patches : k \in DOMAIN p.param /\ a.param[k] = p.param[k]
            \/ /\ \A p \in patches : k \notin DOMAIN p.param
               /\ IF a.name \in DOMAIN asked /\ k \in DOMAIN asked[a.name]
                  THEN a.param[k] = asked[a.name][k]
                  ELSE \E t \in old : a.param[k] = t.param[k]
        /\ a.name \in DOMAIN asked => DOMAIN asked[a.name] \subseteq DOMAIN a.param
=============================================================================
