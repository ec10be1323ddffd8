--------------------------- MODULE LocationMatch ----------------------------
(***************************************************************************)
(* Which location block of a server a path belongs to.  The code asks this *)
(* in three places by three rules: get_location by the longest name the    *)
(* path's text begins with (POST, scripts), Get::matchLocation and         *)
(* mapUriToPath by whole segments without the query (GET, and the object   *)
(* of a DELETE), checkIfAllowed by whole segments with the query (whether  *)
(* DELETE is allowed).                                                     *)
(*                                                                         *)
(* A path is a nonempty sequence of names: /a/b is <<a, b>>, / is <<Empty>>*)
(* and a location written /a/ is <<a, Empty>>.  checkURI leaves requests   *)
(* no empty segment and no final slash.                                    *)
(***************************************************************************)
EXTENDS Naturals, Sequences

CONSTANTS
    Names,      \* names between slashes
    Empty,      \* the name of no characters
    Begins      \* pairs of names whose second begins with the first

ASSUME NamesAssumption ==
    /\ Empty \in Names
    /\ Begins \subseteq Names \X (Names \ {Empty})

Paths == Seq(Names) \ {<<>>}
Root  == <<Empty>>

Front(p)  == SubSeq(p, 1, Len(p) - 1)
Parent(p) == IF Len(p) = 1 THEN Root ELSE Front(p)

StartsWith(m, n) == m = n \/ m = Empty \/ <<m, n>> \in Begins

(* The text of path u begins with that of path p. *)
TextPrefix(p, u) ==
    /\ Len(p) <= Len(u)
    /\ Front(p) = SubSeq(u, 1, Len(p) - 1)
    /\ StartsWith(p[Len(p)], u[Len(p)])

(* Removing last segments from p, one after the other, comes to l. *)
Covers(l, p) == l = Root \/ (Len(l) <= Len(p) /\ SubSeq(p, 1, Len(l)) = l)

TextFits(locs, p)    == {i \in 1..Len(locs) : TextPrefix(locs[i].path, p)}
SegmentFits(locs, p) == {i \in 1..Len(locs) : Covers(locs[i].path, p)}

(* The first location of the longest name among those that fit one path, or *)
(* 0: the text of the longest begins with that of every other.              *)
Best(locs, fits) ==
    LET best == {i \in fits : \A j \in fits :
                    /\ TextPrefix(locs[j].path, locs[i].path)
                    /\ locs[j].path = locs[i].path => i <= j}
    IN IF best = {} THEN 0 ELSE CHOOSE i \in best : TRUE

TextMatch(locs, p)    == Best(locs, TextFits(locs, p))
SegmentMatch(locs, p) == Best(locs, SegmentFits(locs, p))

(* With a query the last segment is no location's name. *)
MethodMatch(locs, p, query) == SegmentMatch(locs, IF query THEN Parent(p) ELSE p)

(* The segments removed on the way to l, and the object they name. *)
Rest(l, p)     == IF l # Root THEN SubSeq(p, Len(l) + 1, Len(p))
                  ELSE IF p = Root THEN <<>> ELSE p
Object(loc, p) == loc.root \o Rest(loc.path, p)
=============================================================================
