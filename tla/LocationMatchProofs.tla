------------------------ MODULE LocationMatchProofs -------------------------
(* How the three rules of LocationMatch relate, for any locations and paths. *)
EXTENDS LocationMatch, SequenceTheorems, TLAPS

Located(locs) == \A i \in 1..Len(locs) : locs[i].path \in Paths

(* Segments removed from the end of a path leave the beginning of its text.  *)
LEMMA CoversIsText ==
    ASSUME NEW l \in Paths, NEW p \in Paths, Covers(l, p)
    PROVE  TextPrefix(l, p)
<1>1. Len(l) \in Nat \ {0} /\ Len(p) \in Nat \ {0}
    BY DEF Paths
<1>2. CASE l = Root
    BY <1>1, <1>2 DEF Root, TextPrefix, Front, StartsWith, Paths
<1>3. CASE Len(l) <= Len(p) /\ SubSeq(p, 1, Len(l)) = l
    <2>1. l[Len(l)] = p[Len(l)]
        BY <1>1, <1>3 DEF Paths
    <2>2. Front(l) = SubSeq(p, 1, Len(l) - 1)
        BY <1>1, <1>3 DEF Paths, Front
    <2> QED  BY <1>3, <2>1, <2>2 DEF TextPrefix, StartsWith
<1> QED  BY <1>2, <1>3 DEF Covers

(* get_location, mapUriToPath and Get::matchLocation choose the same block   *)
(* for a path, unless the text of the path begins with the name of a block   *)
(* that does not end where a segment ends (/img for /imgs, or /img/).        *)
THEOREM MatchesAgree ==
    ASSUME NEW locs, Located(locs), NEW p \in Paths,
           \A i \in 1..Len(locs) : TextPrefix(locs[i].path, p) => Covers(locs[i].path, p)
    PROVE  TextMatch(locs, p) = SegmentMatch(locs, p)
<1>1. TextFits(locs, p) = SegmentFits(locs, p)
    BY CoversIsText DEF TextFits, SegmentFits, Located
<1> QED  BY <1>1 DEF TextMatch, SegmentMatch

(* The chosen block fits, and no block that fits has a longer name. *)
LEMMA BestFits ==
    ASSUME NEW locs, NEW fits, 0 \notin fits, Best(locs, fits) # 0
    PROVE  /\ Best(locs, fits) \in fits
           /\ \A j \in fits : TextPrefix(locs[j].path, locs[Best(locs, fits)].path)
BY Zenon DEF Best

(* It is the first of its name. *)
LEMMA BestIsFirst ==
    ASSUME NEW locs, NEW fits, 0 \notin fits, Best(locs, fits) # 0
    PROVE  \A j \in fits : locs[j].path = locs[Best(locs, fits)].path => Best(locs, fits) <= j
BY Zenon DEF Best

(* Of two paths that cover p, the one whose text begins with p is p.         *)
LEMMA CoverOfItself ==
    ASSUME NEW l \in Paths, NEW p \in Paths, Covers(l, p), TextPrefix(p, l)
    PROVE  l = p
<1>1. Len(l) \in Nat \ {0} /\ Len(p) \in Nat \ {0}
    BY DEF Paths
<1>2. CASE l = Root
    <2>1. Len(p) = 1 /\ p[1] \in Names
        BY <1>1, <1>2 DEF TextPrefix, Root, Paths
    <2>2. StartsWith(p[1], Empty)
        BY <1>2, <2>1 DEF TextPrefix, Root
    <2>3. p[1] = Empty
        BY <2>2, NamesAssumption DEF StartsWith
    <2> QED  BY <1>2, <2>1, <2>3 DEF Root, Paths
<1>3. CASE Len(l) <= Len(p) /\ SubSeq(p, 1, Len(l)) = l
    BY <1>1, <1>3 DEF TextPrefix, Paths
<1> QED  BY <1>2, <1>3 DEF Covers

(* Front drops one name. *)
LEMMA FrontLength ==
    ASSUME NEW S, NEW p \in Seq(S), Len(p) >= 2
    PROVE  Len(Front(p)) = Len(p) - 1
<1> DEFINE n == Len(p) - 1
<1>1. n \in Int /\ 1 <= n /\ \A i \in 1..n : p[i] \in S
    OBVIOUS
<1> HIDE DEF n
<1>2. Len(SubSeq(p, 1, n)) = IF 1 <= n THEN n - 1 + 1 ELSE 0
    BY <1>1, SubSeqProperties
<1>3. Len(SubSeq(p, 1, n)) = n
    BY <1>1, <1>2
<1> QED  BY <1>3 DEF n, Front

(* Without its last segment a path is covered by the same names, except its  *)
(* own.                                                                       *)
LEMMA CoversParent ==
    ASSUME NEW l \in Paths, NEW p \in Paths, l # p
    PROVE  Covers(l, p) <=> Covers(l, Parent(p))
<1>1. l \in Seq(Names) /\ p \in Seq(Names) /\ Len(l) >= 1 /\ Len(p) >= 1
    BY DEF Paths
<1>2. CASE Len(p) = 1
    <2>1. Covers(l, p) <=> l = Root
        BY <1>1, <1>2 DEF Covers, Paths
    <2>2. Covers(l, Root) <=> l = Root
        BY <1>1 DEF Covers, Root, Paths
    <2> QED  BY <1>2, <2>1, <2>2 DEF Parent
<1>3. CASE Len(p) >= 2
    <2>4. Parent(p) = Front(p)
        <3>1. \A n \in Nat : n >= 2 => n # 1
            OBVIOUS
        <3>2. Len(p) # 1
            BY <1>1, <1>3, <3>1
        <3> QED  BY <3>2, Zenon DEF Parent
    <2>1. Len(Front(p)) = Len(p) - 1
        BY <1>1, <1>3, FrontLength
    <2>2. ASSUME Len(l) <= Len(p), SubSeq(p, 1, Len(l)) = l
          PROVE  Len(l) <= Len(p) - 1
        BY <1>1, <2>2 DEF Paths
    <2>3. Len(l) <= Len(p) - 1 => SubSeq(p, 1, Len(l)) = SubSeq(Front(p), 1, Len(l))
        BY <1>1, <1>3 DEF Front, Paths
    <2>5. Len(l) <= Len(p) - 1 => Len(l) <= Len(p)
        BY <1>1
    <2> QED  BY <2>1, <2>2, <2>3, <2>4, <2>5, Zenon DEF Covers
<1>4. Len(p) = 1 \/ Len(p) >= 2
    <2>1. \A n \in Nat : n >= 1 => n = 1 \/ n >= 2
        OBVIOUS
    <2>2. Len(p) \in Nat
        BY <1>1
    <2> QED  BY <1>1, <2>1, <2>2
<1> QED  BY <1>2, <1>3, <1>4

(* checkIfAllowed and mapUriToPath choose the same block for a DELETE with a *)
(* query, unless the path is the name of a block.                             *)
THEOREM QueryAsksAbove ==
    ASSUME NEW locs, Located(locs), NEW p \in Paths,
           SegmentMatch(locs, p) # 0, locs[SegmentMatch(locs, p)].path # p
    PROVE  MethodMatch(locs, p, TRUE) = SegmentMatch(locs, p)
<1> DEFINE k == SegmentMatch(locs, p)
<1>1. /\ k \in SegmentFits(locs, p)
      /\ \A j \in SegmentFits(locs, p) : TextPrefix(locs[j].path, locs[k].path)
    <2>1. 0 \notin SegmentFits(locs, p)
        BY DEF SegmentFits
    <2> QED  BY <2>1, BestFits DEF SegmentMatch
<1>2. \A j \in 1..Len(locs) : locs[j].path # p
    <2> SUFFICES ASSUME NEW j \in 1..Len(locs), locs[j].path = p PROVE FALSE
        OBVIOUS
    <2>1. Covers(p, p)
        BY DEF Covers, Paths
    <2>2. TextPrefix(p, locs[k].path)
        BY <1>1, <2>1 DEF SegmentFits
    <2>3. locs[k].path \in Paths /\ Covers(locs[k].path, p)
        BY <1>1 DEF SegmentFits, Located
    <2> QED  BY <2>2, <2>3, CoverOfItself
<1>3. SegmentFits(locs, Parent(p)) = SegmentFits(locs, p)
    BY <1>2, CoversParent DEF SegmentFits, Located
<1> QED  BY <1>3 DEF MethodMatch, SegmentMatch
=============================================================================
