---------------------------- MODULE VersionFilter ----------------------------
(***************************************************************************)
(* Which of the catalog's versions GET /versions offers for installation    *)
(* (GetOpenFuyaoVersions), and which GET .../upgrade-versions offers to a   *)
(* cluster of a given version (GetOpenFuyaoUpgradeVersions).                *)
(*                                                                          *)
(* A version name is parsed by hashicorp/go-version, which is external: a   *)
(* release has at least three segments (26.1 is 26.1.0) and may be a        *)
(* pre-release, numbered in order from 1, 0 being none.  Names that cannot  *)
(* be parsed are all alike, but for "latest".  A list is a set: no filter   *)
(* looks at its order.                                                      *)
(***************************************************************************)
EXTENDS Naturals, Sequences

CONSTANTS
    Releases,   \* the versions that can be parsed
    Latest,     \* the version name "latest"
    Unparsable  \* any other name that is no version

Version == [seg : Seq(Nat), pre : Nat]
ASSUME ReleasesAssumption == \A v \in Releases : v \in Version /\ Len(v.seg) >= 3
ASSUME NamesAssumption == Latest \notin Version /\ Unparsable \notin Version

Parsable(v) == v \notin {Latest, Unparsable}
Major(v) == v.seg[1]
Minor(v) == v.seg[2]
Patch(v) == v.seg[3]
SameLine(v, w) == Major(v) = Major(w) /\ Minor(v) = Minor(w)

(* Version.GreaterThan: the first segment that differs decides, a missing   *)
(* one being zero.  Pre-releases count only between versions whose segments *)
(* are the same, their number included: 26.1.0-rc is not below 26.1.0.0.    *)
Segment(v, i) == IF i \in DOMAIN v.seg THEN v.seg[i] ELSE 0
SegmentsLess(v, w) ==
    \E i \in DOMAIN v.seg \cup DOMAIN w.seg :
        /\ Segment(v, i) < Segment(w, i)
        /\ \A j \in 1..(i - 1) : Segment(v, j) = Segment(w, j)
GreaterThan(v, w) ==
    \/ SegmentsLess(w, v)
    \/ v.seg = w.seg /\ w.pre # 0 /\ (v.pre = 0 \/ v.pre > w.pre)

(* A release that is not the first of its line, or that has a segment more, *)
(* patches another one and cannot be installed.                             *)
IsPatch(v) == Patch(v) > 0 \/ Len(v.seg) > 3
GetOpenFuyaoVersions(list) ==
    {v \in list : v = Latest \/ (Parsable(v) /\ ~IsPatch(v))}

(* Faults: lines are told apart by their second segment only; a patch is    *)
(* offered to no cluster.                                                   *)
OffersByMinor(current, v) ==
    SameLine(current, v) \/ (Minor(current) < Minor(v) /\ Patch(v) = 0)
OffersFirstOnly(current, v) ==
    (SameLine(current, v) \/ Major(current) <= Major(v)) /\ Patch(v) = 0

(* Later patches of the same line, and the first releases of later lines.   *)
(* A cluster of version "latest" is offered nothing; one whose version      *)
(* cannot be parsed is answered with an error.                              *)
Offers(current, v) ==
    \/ SameLine(current, v)
    \/ /\ \/ Major(current) = Major(v) /\ Minor(current) < Minor(v)
          \/ Major(current) < Major(v)
       /\ Patch(v) = 0
GetOpenFuyaoUpgradeVersions(current, list) ==
    IF current = Latest THEN {}
    ELSE {v \in list : Parsable(v) /\ GreaterThan(v, current) /\ Offers(current, v)}

-----------------------------------------------------------------------------
(* What a list should come to: the two filters agree on it.  What they      *)
(* offer for installation is offered to every cluster of an earlier         *)
(* version, and a cluster is offered nothing but what can be installed and  *)
(* the patches of its own line.  The exception is a version of four         *)
(* segments, which one filter takes for a patch and the other, if its third *)
(* is zero, for the first release of a line.                                *)
FiltersAgree(list) ==
    \A c \in Releases :
        LET installable == GetOpenFuyaoVersions(list)
            upgrades == GetOpenFuyaoUpgradeVersions(c, list) IN
        /\ {v \in installable \ {Latest} : GreaterThan(v, c)} \subseteq upgrades
        /\ \A v \in upgrades : \/ v \in installable \/ SameLine(c, v)
                               \/ Patch(v) = 0 /\ Len(v.seg) > 3

(* No release of the list is out of reach of an earlier cluster: it is      *)
(* offered at once or, if the list has the first release of its line, after *)
(* an upgrade to that one.                                                  *)
FirstOfLine(v) == [seg |-> <<Major(v), Minor(v), 0>>, pre |-> 0]
InReach(list) ==
    \A c \in Releases : \A v \in list :
        Parsable(v) /\ GreaterThan(v, c) /\ FirstOfLine(v) \in list =>
            LET upgrades == GetOpenFuyaoUpgradeVersions(c, list) IN
            \/ v \in upgrades
            \/ /\ FirstOfLine(v) \in upgrades
               /\ v \in GetOpenFuyaoUpgradeVersions(FirstOfLine(v), list)
=============================================================================
