------------------------ MODULE VersionFilterProofs ------------------------
(***************************************************************************)
(* What is proved of VersionFilter, for any list of version names and for   *)
(* clusters of any version: the two filters agree, and no version is out of *)
(* reach.                                                                   *)
(***************************************************************************)
EXTENDS VersionFilter, TLAPS

(* What a list holds: releases, "latest", and what cannot be parsed.        *)
Listable == Releases \cup {Latest, Unparsable}

(* A version has three segments to compare.                                 *)
LEMMA Segments ==
    ASSUME NEW v \in Releases
    PROVE  /\ 1 \in DOMAIN v.seg /\ 2 \in DOMAIN v.seg /\ 3 \in DOMAIN v.seg
           /\ Segment(v, 1) = Major(v) /\ Segment(v, 2) = Minor(v) /\ Segment(v, 3) = Patch(v)
           /\ Major(v) \in Nat /\ Minor(v) \in Nat /\ Patch(v) \in Nat
           /\ Len(v.seg) \in Nat /\ Len(v.seg) >= 3
           /\ \A i \in DOMAIN v.seg : i \in Nat /\ i >= 1
           /\ Parsable(v)
<1>1. v.seg \in Seq(Nat) /\ Len(v.seg) >= 3
  BY ReleasesAssumption DEF Version
<1>2. DOMAIN v.seg = 1 .. Len(v.seg) /\ Len(v.seg) \in Nat
  BY <1>1
<1>3. Parsable(v)
  BY ReleasesAssumption, NamesAssumption DEF Parsable
<1> QED BY <1>1, <1>2, <1>3 DEF Segment, Major, Minor, Patch

(* A later version is of the same line or of a later one.                   *)
LEMMA LaterLine ==
    ASSUME NEW c \in Releases, NEW v \in Releases, GreaterThan(v, c)
    PROVE  \/ SameLine(c, v)
           \/ Major(c) = Major(v) /\ Minor(c) < Minor(v)
           \/ Major(c) < Major(v)
<1>1. CASE v.seg = c.seg
  BY <1>1 DEF SameLine, Major, Minor
<1>2. CASE SegmentsLess(c, v)
  <2>1. PICK i \in DOMAIN c.seg \cup DOMAIN v.seg :
            /\ Segment(c, i) < Segment(v, i)
            /\ \A j \in 1..(i - 1) : Segment(c, j) = Segment(v, j)
    BY <1>2 DEF SegmentsLess
  <2>2. i \in Nat /\ i >= 1
    BY Segments
  <2>3. CASE i = 1
    BY <2>1, <2>3, Segments
  <2>4. CASE i = 2
    <3>1. Segment(c, 1) = Segment(v, 1)
      BY <2>1, <2>4
    <3> QED BY <2>1, <2>4, <3>1, Segments
  <2>5. CASE i >= 3
    <3>1. Segment(c, 1) = Segment(v, 1) /\ Segment(c, 2) = Segment(v, 2)
      BY <2>1, <2>2, <2>5
    <3> QED BY <3>1, Segments DEF SameLine
  <2> QED BY <2>2, <2>3, <2>4, <2>5
<1> QED BY <1>1, <1>2 DEF GreaterThan

(* Of a list, what can be parsed is a release.                              *)
LEMMA ParsableListed ==
    ASSUME NEW v \in Listable, Parsable(v)
    PROVE  v \in Releases
  BY DEF Listable, Parsable

(* What GET /versions offers is offered for an upgrade to every cluster of  *)
(* an earlier version, and what is offered for an upgrade can be installed  *)
(* or patches the cluster's own line, but for the versions of four segments *)
(* that the comment of FiltersAgree names: whatever the list and the        *)
(* version of the cluster.                                                  *)
THEOREM FiltersAlwaysAgree ==
    ASSUME NEW list \in SUBSET Listable
    PROVE  FiltersAgree(list)
<1> SUFFICES ASSUME NEW c \in Releases
             PROVE  LET installable == GetOpenFuyaoVersions(list)
                        upgrades == GetOpenFuyaoUpgradeVersions(c, list) IN
                    /\ {v \in installable \ {Latest} : GreaterThan(v, c)} \subseteq upgrades
                    /\ \A v \in upgrades : \/ v \in installable \/ SameLine(c, v)
                                           \/ Patch(v) = 0 /\ Len(v.seg) > 3
  BY DEF FiltersAgree
<1>1. c # Latest
  BY ReleasesAssumption, NamesAssumption
<1>2. ASSUME NEW v \in GetOpenFuyaoVersions(list), v # Latest, GreaterThan(v, c)
      PROVE  v \in GetOpenFuyaoUpgradeVersions(c, list)
  <2>1. v \in list /\ Parsable(v) /\ ~IsPatch(v)
    BY <1>2 DEF GetOpenFuyaoVersions
  <2>2. v \in Releases
    BY <2>1, ParsableListed
  <2>3. Patch(v) = 0
    BY <2>1, <2>2, Segments DEF IsPatch
  <2>4. Offers(c, v)
    BY <1>2, <2>2, <2>3, LaterLine DEF Offers
  <2> QED BY <1>1, <1>2, <2>1, <2>4 DEF GetOpenFuyaoUpgradeVersions
<1>3. ASSUME NEW v \in GetOpenFuyaoUpgradeVersions(c, list)
      PROVE  \/ v \in GetOpenFuyaoVersions(list) \/ SameLine(c, v)
             \/ Patch(v) = 0 /\ Len(v.seg) > 3
  <2>1. v \in list /\ Parsable(v) /\ Offers(c, v)
    BY <1>1 DEF GetOpenFuyaoUpgradeVersions
  <2>2. v \in Releases
    BY <2>1, ParsableListed
  <2>3. CASE Patch(v) = 0 /\ ~(Len(v.seg) > 3)
    <3>1. ~IsPatch(v)
      BY <2>2, <2>3, Segments DEF IsPatch
    <3> QED BY <2>1, <3>1 DEF GetOpenFuyaoVersions
  <2>4. CASE ~(Patch(v) = 0 /\ ~(Len(v.seg) > 3))
    BY <2>1, <2>4 DEF Offers
  <2> QED BY <2>3, <2>4
<1> QED BY <1>2, <1>3

(* Whatever the list, a later version whose line has its first release in   *)
(* the list is offered to a cluster at once or after an upgrade to that     *)
(* first release, which is then offered.                                    *)
THEOREM NothingOutOfReach ==
    ASSUME NEW list \in SUBSET Listable
    PROVE  InReach(list)
<1> SUFFICES ASSUME NEW c \in Releases, NEW v \in list,
                    Parsable(v), GreaterThan(v, c), FirstOfLine(v) \in list,
                    v \notin GetOpenFuyaoUpgradeVersions(c, list)
             PROVE  /\ FirstOfLine(v) \in GetOpenFuyaoUpgradeVersions(c, list)
                    /\ v \in GetOpenFuyaoUpgradeVersions(FirstOfLine(v), list)
  BY DEF InReach
<1> DEFINE first == FirstOfLine(v)
<1>1. c # Latest /\ v \in Releases
  BY ReleasesAssumption, NamesAssumption, ParsableListed
<1>2. ~Offers(c, v)
  BY <1>1 DEF GetOpenFuyaoUpgradeVersions
<1>3. /\ Patch(v) # 0
      /\ \/ Major(c) = Major(v) /\ Minor(c) < Minor(v)
         \/ Major(c) < Major(v)
  BY <1>1, <1>2, LaterLine DEF Offers
<1>4. first \in Version
  BY <1>1, Segments DEF FirstOfLine, Version
<1>5. Parsable(first) /\ first # Latest /\ first \in Releases
  BY <1>4, NamesAssumption DEF Parsable, Listable
<1>6. Major(first) = Major(v) /\ Minor(first) = Minor(v) /\ Patch(first) = 0
  BY DEF FirstOfLine, Major, Minor, Patch
<1> HIDE DEF first
<1>7. GreaterThan(first, c)
  <2>1. SegmentsLess(c, first)
    <3>1. CASE Major(c) < Major(v)
      <4>1. Segment(c, 1) < Segment(first, 1)
        BY <1>1, <1>5, <1>6, <3>1, Segments
      <4>2. 1 \in DOMAIN c.seg \cup DOMAIN first.seg
        BY Segments
      <4> QED BY <4>1, <4>2 DEF SegmentsLess
    <3>2. CASE Major(c) = Major(v) /\ Minor(c) < Minor(v)
      <4>1. Segment(c, 2) < Segment(first, 2) /\ Segment(c, 1) = Segment(first, 1)
        BY <1>1, <1>5, <1>6, <3>2, Segments
      <4>2. 2 \in DOMAIN c.seg \cup DOMAIN first.seg
        BY Segments
      <4>3. \A j \in 1..(2 - 1) : Segment(c, j) = Segment(first, j)
        BY <4>1
      <4> QED BY <4>1, <4>2, <4>3 DEF SegmentsLess
    <3> QED BY <1>3, <3>1, <3>2
  <2> QED BY <2>1 DEF GreaterThan
<1>8. GreaterThan(v, first)
  <2>1. Segment(first, 3) < Segment(v, 3)
    BY <1>1, <1>3, <1>5, <1>6, Segments
  <2>2. Segment(first, 1) = Segment(v, 1) /\ Segment(first, 2) = Segment(v, 2)
    BY <1>1, <1>5, <1>6, Segments
  <2>3. 3 \in DOMAIN first.seg \cup DOMAIN v.seg
    BY <1>1, Segments
  <2>4. \A j \in 1..(3 - 1) : Segment(first, j) = Segment(v, j)
    BY <2>2
  <2>5. SegmentsLess(first, v)
    BY <2>1, <2>3, <2>4 DEF SegmentsLess
  <2> QED BY <2>5 DEF GreaterThan
<1>9. Offers(c, first) /\ Offers(first, v)
  BY <1>3, <1>6 DEF Offers, SameLine
<1> QED BY <1>1, <1>5, <1>7, <1>8, <1>9 DEF GetOpenFuyaoUpgradeVersions, first
=============================================================================
