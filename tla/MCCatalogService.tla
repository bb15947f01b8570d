-------------------------- MODULE MCCatalogService --------------------------
(* An instance of CatalogService for TLC.                                   *)
EXTENDS CatalogService, TLC

CONSTANTS r1, a, b, bad, alias, system, dns, extra, enabled, mode, off, x, y, one, two

Release(major, minor, patch) == [seg |-> <<major, minor, patch>>, pre |-> 0]
V1 == Release(26, 1, 0)
V2 == Release(26, 1, 2)
(* Four segments: a patch to one filter, the first of a line to the other.  *)
V3 == [seg |-> <<26, 2, 0, 1>>, pre |-> 0]
MCVersions == {V1, V2, V3}
(* Lines on either side of the catalog's, by both segments, and what lies   *)
(* next to its versions.                                                    *)
MCReleases ==
    MCVersions \cup {Release(25, 10, 3), Release(26, 0, 0), Release(26, 1, 1)} \cup
    {[V1 EXCEPT !.pre = 1], [V1 EXCEPT !.seg = Append(@, 1)]}

(* File a declares V1 and file b declares V3; either can be uploaded or     *)
(* listed under any name.  The two remote paths list different versions,    *)
(* the patch path lists one twice and one with a malformed file.            *)
MCDeclares == a :> V1 @@ b :> V3
MCRepo ==
    "deploy" :> <<[ver |-> V2, file |-> b]>> @@
    "patch" :> <<[ver |-> V1, file |-> b], [ver |-> V2, file |-> b],
                 [ver |-> V3, file |-> bad], [ver |-> V1, file |-> a]>>

Addon(name, version, block, param) ==
    [name |-> name, version |-> version, block |-> block, param |-> param]
MCTemplate ==
    {Addon(dns, one, TRUE, mode :> x), Addon(system, one, FALSE, <<>>)}
MCAddonsOf ==
    a :> <<Addon(dns, two, FALSE, mode :> y), Addon(extra, two, TRUE, <<>>)>> @@
    b :> <<Addon(system, NoVersion, FALSE, mode :> y)>> @@
    bad :> <<>>
(* Up to two add-ons, by any name, turned off, with a parameter or none.    *)
MCAddonRequest ==
    [name : {alias, system, dns, extra},
     params : {<<>>, enabled :> off, mode :> x, enabled :> y @@ mode :> y}]
MCAddonRequests == UNION {[1..n -> MCAddonRequest] : n \in 0..2}
=============================================================================
