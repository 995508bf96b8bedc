---------------------------- MODULE RectCombiner -----------------------------
(***************************************************************************)
(* SelectionRectCombiner of utils/src/selection_geometry_utils.cpp, which  *)
(* keeps the highlighted rectangles merged, and what the operations on     *)
(* rectangles promise, stated over the cells a rectangle covers.           *)
(* `added' records the calls of Add: its rectangles are also the inputs    *)
(* the promises are evaluated for, one, two or a list of them.             *)
(***************************************************************************)
EXTENDS Geometry, TLC

CONSTANTS Rects,        \* the rectangles that may be added
          Points,       \* corners of segments and polygons, pivots, origins
          MaxRects      \* how many are added before Clear

\* What the code calls a rectangle, and those whose edges have 32 bits too.
Rectangle == [x : Int32, y : Int32, width : Int32, height : Int32]
Fits(r) == RightEdge(r) <= MaxInt /\ BottomEdge(r) <= MaxInt

ASSUME RectsAssumption == Rects \subseteq Rectangle /\ Points \subseteq [x : Int32, y : Int32]

VARIABLES rects_, added
rectVars == <<rects_, added>>

RectInit == rects_ = <<>> /\ added = <<>>

Add(r) ==
    /\ Len(added) < MaxRects
    /\ added' = Append(added, r)
    /\ rects_' = IF IsEmpty(r) THEN rects_
                 ELSE MergeAll(Append(rects_, NormalizeRect(r)), 0)

Clear == added # <<>> /\ added' = <<>> /\ rects_' = <<>>

RectNext == Clear \/ \E r \in Rects : Add(r)
RectSpec == RectInit /\ [][RectNext]_rectVars

-----------------------------------------------------------------------------
(* What a rectangle is: the unit squares it covers, none when it is empty. *)

Cells(r) == [x : r.x .. RightEdge(r) - 1, y : r.y .. BottomEdge(r) - 1]
CellsOf(list) == UNION {Cells(list[i]) : i \in DOMAIN list}
Disjoint(list) ==
    \A i, j \in DOMAIN list : i < j => Cells(list[i]) \cap Cells(list[j]) = {}

\* The cells before the last edge that 32 bits can say, to which rectangles are clamped.
Plane == [x : MinInt .. MaxInt - 1, y : MinInt .. MaxInt - 1]
CellsWithin(r) == Cells(r) \cap Plane

Least(S) == CHOOSE m \in S : \A n \in S : m <= n

\* Rows become columns.
Turned(r) == Rect(r.y, r.x, r.height, r.width)

\* The right and lower edge belong to what segments and polygons are clipped to.
InClosed(p, r) == /\ r.x <= p.x /\ p.x <= RightEdge(r)
                  /\ r.y <= p.y /\ p.y <= BottomEdge(r)

\* A segment and a closed rectangle have a point in common: no side of the rectangle
\* and no side of the line separates them.
Meets(p, q, r) ==
    /\ Greater(p.x, q.x) >= r.x /\ Lesser(p.x, q.x) <= RightEdge(r)
    /\ Greater(p.y, q.y) >= r.y /\ Lesser(p.y, q.y) <= BottomEdge(r)
    /\ \E c \in ToSet(RectCorners(r)) : Cross(c, p, q) >= 0
    /\ \E c \in ToSet(RectCorners(r)) : Cross(c, p, q) <= 0

\* The smallest rectangle around both; its sides have a length in 32 bits.
BoundsBoth(u, a, b) ==
    /\ Cells(a) \cup Cells(b) \subseteq Cells(u)
    /\ u.x \in {a.x, b.x} /\ RightEdge(u) \in {RightEdge(a), RightEdge(b)}
    /\ u.y \in {a.y, b.y} /\ BottomEdge(u) \in {BottomEdge(a), BottomEdge(b)}
UnionFits(a, b) ==
    /\ Greater(RightEdge(a), RightEdge(b)) - Lesser(a.x, b.x) <= MaxInt
    /\ Greater(BottomEdge(a), BottomEdge(b)) - Lesser(a.y, b.y) <= MaxInt

-----------------------------------------------------------------------------
(* Two rectangles. *)

SetOperations(a, b) ==
    LET m == NormalizeRect(a) n == NormalizeRect(b) pieces == SubtractRect(a, b)
        both == CellsWithin(a) \cap CellsWithin(b)
    IN
    /\ Cells(IntersectRect(a, b)) = both
    /\ Intersects(a, b) <=> both # {}
    /\ CellsWithin(b) # {} => (ContainsRect(a, b) <=> CellsWithin(b) \subseteq CellsWithin(a))
    /\ CellsOf(pieces) = CellsWithin(a) \ CellsWithin(b) /\ Disjoint(pieces)
    /\ ~IsEmpty(a) /\ ~IsEmpty(b) /\ UnionFits(m, n) => BoundsBoth(UnionRect(a, b), m, n)

\* For every two rectangles: what they have in common, whether they have, whether one
\* contains the other, what is left of one without the other and what is around both say
\* what holds of the cells the two cover, as far as 32 bits go, and what SubtractRect
\* returns does not overlap.
RectsAreTheirCells == Len(added) = 2 => SetOperations(added[1], added[2])

-----------------------------------------------------------------------------
(* One rectangle. *)

RotatesWithItsCorners(r, n, p) ==
    LET turned == Rotate90(r, p) IN
    /\ ToSet(RectCorners(turned)) = {PointRotate90(c, p) : c \in ToSet(RectCorners(r))}
    /\ Rotate90(Rotate90(Rotate90(turned, p), p), p) = n

MirrorsWithItsCorners(r, n, p) ==
    LET h == MirrorHorizontal(r, p.x) v == MirrorVertical(r, p.y) IN
    /\ MirrorHorizontal(h, p.x) = n /\ MirrorVertical(v, p.y) = n
    /\ ToSet(RectCorners(h)) = {PointMirrorHorizontal(c, p.x) : c \in ToSet(RectCorners(r))}
    /\ ToSet(RectCorners(v)) = {PointMirrorVertical(c, p.y) : c \in ToSet(RectCorners(r))}
    /\ NormalizeForRTL(NormalizeForRTL(r, p.x), p.x) = n

MovesBack(r, n, p) ==
    /\ Transpose(Transpose(r)) = n
    /\ Scale(Scale(r, <<2, 1>>, <<2, 1>>), <<1, 2>>, <<1, 2>>) = n
    /\ CenterAt(r, Point(CenterX(n), CenterY(n))) = n
    /\ MapToParent(MapFromParent(r, p), p) = n
    /\ ToSet(RectCorners(MapToParent(r, p)))
         = {PointTranslate(c, p.x, p.y) : c \in ToSet(RectCorners(r))}

Resizes(r, n, p) ==
    LET m == Magnitude(p.x) k == Magnitude(p.y)
        wide == Inflate(r, m, k, k, m)
        shrunk == ShrinkToAspectRatio(r, <<p.x, p.y>>)
    IN  /\ Deflate(wide, m, k, k, m) = n
        /\ ContainsRect(wide, n)
        /\ InflateUniform(DeflateUniform(InflateUniform(r, m), m), 0) = n
        /\ BoundsBoth(ExpandToContain(n, p), n, Rect(p.x, p.y, 1, 1))
        /\ p.x > 0 /\ p.y > 0 =>
             /\ Cells(shrunk) \subseteq Cells(n)
             /\ shrunk.width = n.width \/ shrunk.height = n.height

SplitsIntoAGrid(n, rows, cols) ==
    rows > 0 /\ cols > 0 =>
      LET grid == SplitGrid(n, rows, cols)
      IN  Len(grid) = rows * cols /\ Disjoint(grid) /\ CellsOf(grid) = Cells(n)

\* Nothing that is done with n and p reaches the limits of the integers.
FarFromTheLimits(n, p) ==
    \A v \in {n.x, RightEdge(n), n.y, BottomEdge(n), p.x, p.y} : 4 * Magnitude(v) <= MaxInt

\* Turning, mirroring, moving and resizing a rectangle is undone by the opposite
\* operation and agrees with what happens to its corners, as long as the results keep away
\* from the limits of the integers; and a grid splits it exactly.
TransformsUndo ==
    Len(added) = 1 =>
      LET r == added[1] n == NormalizeRect(r)
      IN  ~IsEmpty(n) =>
            \A p \in Points :
              /\ FarFromTheLimits(n, p) =>
                   /\ RotatesWithItsCorners(r, n, p) /\ MirrorsWithItsCorners(r, n, p)
                   /\ MovesBack(r, n, p) /\ Resizes(r, n, p)
              /\ SplitsIntoAGrid(n, p.x, p.y)

-----------------------------------------------------------------------------
(* What is measured and clipped, of two rectangles and of one. *)

Distances(a, b) ==
    ~IsEmpty(a) /\ ~IsEmpty(b) =>
      LET apart == {<<Magnitude(p.x - q.x), Magnitude(p.y - q.y)>> :
                      p \in Cells(a), q \in Cells(b)}
          across == Least({d[1] : d \in apart}) down == Least({d[2] : d \in apart})
      IN  /\ HorizontalGap(a, b) = Greater(across - 1, 0)
          /\ VerticalGap(a, b) = Greater(down - 1, 0)
          /\ AreOnSameRow(a, b, 0) <=> down <= 1
          /\ AreOnSameColumn(a, b, 0) <=> across <= 1
          /\ IsAdjacent(a, b, 0) <=> (across <= 1 /\ down = 0) \/ (across = 0 /\ down <= 1)
          /\ \A q \in Cells(b) :
               /\ DistancePointRect(q, a) = Least({PointDistance(p, q) : p \in Cells(a)})
               /\ LET sx == SignedDistanceXPointRect(q, a) sy == SignedDistanceYPointRect(q, a)
                  IN  sx ^ 2 + sy ^ 2 = DistancePointRect(q, a)
                      /\ ContainsPoint(a, Point(q.x - sx, q.y - sy))
          /\ DistanceRectRect(a, b) = 0 <=> CanMergeRects(a, b, 0)
          /\ Area(MinRectByArea(a, b)) + Area(MaxRectByArea(b, a)) = Area(a) + Area(b)
          /\ \A tol \in 0 .. 1 :
               /\ IsHorizontallyAligned(a, b, tol) <=> IsVerticallyAligned(Turned(a), Turned(b), tol)
               /\ EqualsTolerance(a, b, tol) => IsHorizontallyAligned(a, b, 2 * tol)

MeasuresItsEdges(r, n) ==
    LET corner == RectCorners(r) next(i) == (i % 4) + 1
        edge(p, i) == PointToSegmentDistance(p, corner[i], corner[next(i)]) IN
    /\ \A i \in 1 .. 4 : IsPointOnSegment(RectEdgeMidpoints(r)[i], corner[i], corner[next(i)])
    /\ \A p \in Cells(n), i \in 1 .. 4 :
         LET closest == edge(p, ClosestEdgeIndex(r, p) + 1)
         IN  closest[1] * edge(p, i)[2] <= edge(p, i)[1] * closest[2]
    /\ Perimeter(r) = 2 * (LargerAxis(r) + SmallerAxis(r))
    /\ IsSquare(r) <=> LargerAxis(r) = SmallerAxis(r)

ClipsSegment(p, q, r) ==
    LET part == ClipSegmentToRect(p, q, r) IN
    /\ (part # <<>>) <=> Meets(p, q, r)
    /\ \A i \in DOMAIN part : InClosed(part[i], r)
    /\ ClipSegmentToRect(q, p, r) = Reverse(part)
    /\ ContainsPoint(r, p) /\ ContainsPoint(r, q) => part = <<p, q>>

ClipsTriangle(p, q, s, r) ==
    LET part == ClipPolygonToRect(<<p, q, s>>, r) IN
    /\ \A i \in DOMAIN part : InClosed(part[i], r)
    /\ \A v \in {p, q, s} : ContainsPoint(r, v) => v \in ToSet(part)
    /\ part = <<>> => ~\E v \in {p, q, s} : ContainsPoint(r, v)

Clips(r) ==
    \A p, q \in Points :
      /\ ClipsSegment(p, q, r)
      /\ \A s \in Points : ClipsTriangle(p, q, s, r)
      /\ SegmentIntersectsRect(p, q, r) <=> Meets(p, q, r)
      /\ \A s \in Points :
           /\ IsPointOnSegment(s, p, q) <=> PointToSegmentDistance(s, p, q)[1] = 0
           /\ IsPointOnSegment(s, p, q) => FootOfPerpendicular(s, p, q) = s
      /\ PointLerp(p, q, <<-1, 2>>) = p /\ PointLerp(p, q, <<1, 1>>) = q
      /\ PointLerp(p, q, <<1, 2>>) = PointLerp(q, p, <<1, 2>>)
      /\ PointEqualsTolerance(p, q, 1) <=> InClosed(q, Rect(p.x - 1, p.y - 1, 2, 2))

MeasuresItsCells(list) ==
    /\ Len(list) = 2 => Distances(list[1], list[2])
    /\ Len(list) = 1 /\ ~IsEmpty(list[1]) =>
         MeasuresItsEdges(list[1], NormalizeRect(list[1])) /\ Clips(list[1])

-----------------------------------------------------------------------------
(* Lists. *)

KeepsTheCells(list) ==
    LET kept == RemoveContained(list) unique == Deduplicate(list, 0) IN
    /\ CellsOf(kept) = CellsOf(list)
    /\ \A i, j \in DOMAIN kept : i # j => ~ContainsRect(kept[i], kept[j])
    /\ \A i \in DOMAIN list :
         LET r == list[i] common == IntersectListWithRect(list, r) IN
         /\ CellsOf(common) = CellsOf(list) \cap Cells(r)
         /\ ContainsAny(kept, r) <=> ~IsEmpty(r)
         /\ ContainsAll(list, r) => ToSet(common) = {NormalizeRect(r)}
    /\ ToSet(unique) = ToSet(Normalized(list)) /\ IsInjective(unique)
    /\ UnionArea(list) = Cardinality(CellsOf(list))
    /\ UnionArea(list) = TotalArea(Normalized(list)) <=> Disjoint(Normalized(list))

GroupsAreBands(list, tol) ==
    LET groups == GroupByRows(list, tol)
        bounds(g) == UnionListBounds(groups[g]) IN
    /\ FlattenSeq(groups) = SortByRow(list)
    /\ \A g, k \in DOMAIN groups : g # k => ~AreOnSameRow(bounds(g), bounds(k), tol)

MergedInAnyOrder ==
    LET merged(f) == ToSet(MergeOverlapping([i \in DOMAIN added |-> added[f[i]]], 0)) IN
    /\ \A f \in Permutations(DOMAIN added) : ToSet(rects_) = merged(f)
    /\ \A i, j \in DOMAIN rects_ : i < j => ~CanMergeRects(rects_[i], rects_[j], 0)
    /\ CellsOf(added) \subseteq CellsOf(rects_)

\* The gaps and the distances of two rectangles are those of their cells.  A clipped segment
\* is the part of it inside the rectangle, found exactly when there is one; a clipped
\* polygon stays inside and keeps the corners that were.  Lists are thinned out without
\* losing a cell, their area counts each cell once, the groups of rows are bands that do
\* not touch.  Whatever the order of the calls, the combiner holds what merging all of the
\* rectangles at once gives, and no two that are left could still be merged.
MeasuresFitTheCells ==
    (\A i \in DOMAIN added : Fits(added[i])) =>
        /\ MeasuresItsCells(added)
        /\ KeepsTheCells(added) /\ GroupsAreBands(added, 0) /\ GroupsAreBands(added, 1)
        /\ MergedInAnyOrder
=============================================================================
