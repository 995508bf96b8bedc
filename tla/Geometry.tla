------------------------------ MODULE Geometry -------------------------------
(***************************************************************************)
(* utils/src/selection_geometry_utils.cpp: rectangles and points with      *)
(* 32-bit fields, computed with in 64 bits and clamped on the way back.    *)
(* The limits of the 32-bit type are constants.  A real number that the    *)
(* code computes with doubles is a fraction <<n, d>>, d > 0; a distance is *)
(* represented by its square.  Doubles are exact for the small coordinates *)
(* the operators are checked with.                                         *)
(***************************************************************************)
EXTENDS Integers, Sequences, SequencesExt, FiniteSetsExt

CONSTANTS MinInt, MaxInt     \* INT32_MIN_VALUE and INT32_MAX_VALUE

ASSUME GeometryAssumption ==
    MinInt \in Int /\ MaxInt \in Int /\ MinInt < 0 /\ MaxInt = -MinInt - 1

Int32 == MinInt .. MaxInt
Point(x, y) == [x |-> x, y |-> y]
Rect(x, y, width, height) == [x |-> x, y |-> y, width |-> width, height |-> height]

Lesser(m, n) == IF m <= n THEN m ELSE n
Greater(m, n) == IF m <= n THEN n ELSE m
Magnitude(n) == IF n < 0 THEN -n ELSE n
Truncate(n, d) == IF n >= 0 THEN n \div d ELSE -((-n) \div d)

-----------------------------------------------------------------------------
(* Numbers. *)

ClampToInt32(v) == IF v < MinInt THEN MinInt ELSE IF v > MaxInt THEN MaxInt ELSE v

\* static_cast<int32_t>, and the negation of an int32_t, of a number out of range.
Wrap(v) == ((v - MinInt) % (MaxInt - MinInt + 1)) + MinInt

SafeAddInt32(m, n) == ClampToInt32(m + n)
SafeSubInt32(m, n) == ClampToInt32(m - n)

\* Rounds half away from zero.
Round(v) == IF v[1] >= 0 THEN (2 * v[1] + v[2]) \div (2 * v[2])
            ELSE -((2 * (-v[1]) + v[2]) \div (2 * v[2]))
SnapToPixel(v) == ClampToInt32(Round(v))

\* The magnitude in 32 bits, which the least number does not have.
AbsInt32(v) == IF v < 0 THEN Wrap(-v) ELSE v
CloseTo(m, n, tol) == AbsInt32(SafeSubInt32(m, n)) <= AbsInt32(tol)

-----------------------------------------------------------------------------
(* Rectangles. *)

IsEmpty(r) == r.width <= 0 \/ r.height <= 0
Area(r) == Magnitude(r.width) * Magnitude(r.height)
EmptyRect == Rect(0, 0, 0, 0)
RightEdge(r) == r.x + r.width
BottomEdge(r) == r.y + r.height
CenterX(r) == r.x + Magnitude(r.width) \div 2
CenterY(r) == r.y + Magnitude(r.height) \div 2
Perimeter(r) == 2 * (Magnitude(r.width) + Magnitude(r.height))

\* Each edge is clamped; what is between two of them may still be too wide for 32 bits.
ClampRect(x, y, width, height) ==
    LET left == ClampToInt32(Lesser(x, x + width))
        right == ClampToInt32(Greater(x, x + width))
        top == ClampToInt32(Lesser(y, y + height))
        bottom == ClampToInt32(Greater(y, y + height))
    IN  Rect(left, top, Wrap(right - left), Wrap(bottom - top))

NormalizeRect(r) == ClampRect(r.x, r.y, r.width, r.height)

\* The rectangle between four edges.
Between(l, t, r, b) == ClampRect(l, t, r - l, b - t)

\* What most operations do before anything else.
UnlessEmpty(r, result(_)) ==
    LET n == NormalizeRect(r) IN IF IsEmpty(n) THEN EmptyRect ELSE result(n)

ContainsPoint(r, p) ==
    /\ ~IsEmpty(r)
    /\ r.x <= p.x /\ p.x < RightEdge(r)
    /\ r.y <= p.y /\ p.y < BottomEdge(r)

ContainsRect(outer, inner) ==
    /\ ~IsEmpty(outer) /\ ~IsEmpty(inner)
    /\ LET o == NormalizeRect(outer) i == NormalizeRect(inner) IN
         /\ i.x >= o.x /\ RightEdge(i) <= RightEdge(o)
         /\ i.y >= o.y /\ BottomEdge(i) <= BottomEdge(o)

Intersects(a, b) ==
    /\ ~IsEmpty(a) /\ ~IsEmpty(b)
    /\ LET m == NormalizeRect(a) n == NormalizeRect(b) IN
         /\ m.x < RightEdge(n) /\ n.x < RightEdge(m)
         /\ m.y < BottomEdge(n) /\ n.y < BottomEdge(m)

EqualsTolerance(a, b, tol) ==
    \A f \in {"x", "y", "width", "height"} : CloseTo(a[f], b[f], tol)

\* Mutation for RectsAreTheirCells: the edges are taken from the wrong rectangle.
IntersectRectOneEdge(a, b) ==
    IF IsEmpty(a) \/ IsEmpty(b) THEN EmptyRect
    ELSE LET m == NormalizeRect(a) n == NormalizeRect(b)
             l == Greater(m.x, n.x) r == Lesser(RightEdge(m), RightEdge(n))
             t == Greater(m.y, n.y) bottom == BottomEdge(m)
         IN  IF r <= l \/ bottom <= t THEN EmptyRect ELSE Between(l, t, r, bottom)

IntersectRect(a, b) ==
    IF IsEmpty(a) \/ IsEmpty(b) THEN EmptyRect
    ELSE LET m == NormalizeRect(a) n == NormalizeRect(b)
             l == Greater(m.x, n.x) r == Lesser(RightEdge(m), RightEdge(n))
             t == Greater(m.y, n.y) bottom == Lesser(BottomEdge(m), BottomEdge(n))
         IN  IF r <= l \/ bottom <= t THEN EmptyRect ELSE Between(l, t, r, bottom)

UnionRect(a, b) ==
    CASE IsEmpty(a) -> NormalizeRect(b)
      [] ~IsEmpty(a) /\ IsEmpty(b) -> NormalizeRect(a)
      [] OTHER ->
           LET m == NormalizeRect(a) n == NormalizeRect(b)
           IN  Between(Lesser(m.x, n.x), Lesser(m.y, n.y),
                       Greater(RightEdge(m), RightEdge(n)),
                       Greater(BottomEdge(m), BottomEdge(n)))

\* One of the parts around what is cut out, when there is one.
Strip(is, l, t, r, b) == IF is THEN <<Between(l, t, r, b)>> ELSE <<>>

\* Left and right of what is cut out, then above and below it.
SubtractRect(a, b) ==
    LET n == NormalizeRect(a) i == IntersectRect(n, b)
        right == RightEdge(n) bottom == BottomEdge(n)
    IN  CASE IsEmpty(a) -> <<>>
          [] ~IsEmpty(a) /\ (IsEmpty(b) \/ IsEmpty(i)) -> <<n>>
          [] OTHER -> Strip(i.x > n.x, n.x, n.y, i.x, bottom)
                      \o Strip(RightEdge(i) < right, RightEdge(i), n.y, right, bottom)
                      \o Strip(i.y > n.y, i.x, n.y, RightEdge(i), i.y)
                      \o Strip(BottomEdge(i) < bottom, i.x, BottomEdge(i), RightEdge(i), bottom)

MinRectByArea(a, b) ==
    IF IsEmpty(a) \/ (~IsEmpty(b) /\ Area(b) < Area(a)) THEN b ELSE a
MaxRectByArea(a, b) ==
    IF IsEmpty(a) \/ (~IsEmpty(b) /\ Area(b) > Area(a)) THEN b ELSE a

IsSquare(r) == LET n == NormalizeRect(r) IN ~IsEmpty(n) /\ n.width = n.height

LargerAxis(r) ==
    LET n == NormalizeRect(r) IN IF IsEmpty(n) THEN 0 ELSE Greater(n.width, n.height)
SmallerAxis(r) ==
    LET n == NormalizeRect(r) IN IF IsEmpty(n) THEN 0 ELSE Lesser(n.width, n.height)

-----------------------------------------------------------------------------
(* Distances and alignment. *)

\* The gap between [a0, a1) and [b0, b1).
Gap(a0, a1, b0, b1) ==
    IF a1 <= b0 THEN ClampToInt32(b0 - a1)
    ELSE IF b1 <= a0 THEN ClampToInt32(a0 - b1) ELSE 0

HorizontalGap(a, b) ==
    IF IsEmpty(a) \/ IsEmpty(b) THEN 0
    ELSE LET m == NormalizeRect(a) n == NormalizeRect(b)
         IN  Gap(m.x, RightEdge(m), n.x, RightEdge(n))

VerticalGap(a, b) ==
    IF IsEmpty(a) \/ IsEmpty(b) THEN 0
    ELSE LET m == NormalizeRect(a) n == NormalizeRect(b)
         IN  Gap(m.y, BottomEdge(m), n.y, BottomEdge(n))

DistanceRectRect(a, b) == HorizontalGap(a, b) ^ 2 + VerticalGap(a, b) ^ 2

\* How far v is before (negative) or behind the last of [lo, hi).
SignedDistance(v, lo, hi) == IF v < lo THEN v - lo ELSE IF v >= hi THEN v - hi + 1 ELSE 0

SignedDistanceXPointRect(p, r) ==
    LET n == NormalizeRect(r)
    IN  IF IsEmpty(r) THEN 0 ELSE ClampToInt32(SignedDistance(p.x, n.x, RightEdge(n)))
SignedDistanceYPointRect(p, r) ==
    LET n == NormalizeRect(r)
    IN  IF IsEmpty(r) THEN 0 ELSE ClampToInt32(SignedDistance(p.y, n.y, BottomEdge(n)))

DistancePointRect(p, r) ==
    LET n == NormalizeRect(r)
    IN  IF IsEmpty(r) THEN 0
        ELSE SignedDistance(p.x, n.x, RightEdge(n)) ^ 2
             + SignedDistance(p.y, n.y, BottomEdge(n)) ^ 2

OverlapOrAdjacent1D(a0, a1, b0, b1, tol) ==
    LET t == Greater(tol, 0) IN ~(a1 + t < b0 \/ b1 + t < a0)
Overlap1D(a0, a1, b0, b1) == ~(a1 <= b0 \/ b1 <= a0)

IsAdjacent(a, b, tol) ==
    /\ ~IsEmpty(a) /\ ~IsEmpty(b)
    /\ LET m == NormalizeRect(a) n == NormalizeRect(b) IN
         \/ /\ HorizontalGap(m, n) <= AbsInt32(tol)
            /\ Overlap1D(m.y, BottomEdge(m), n.y, BottomEdge(n))
         \/ /\ VerticalGap(m, n) <= AbsInt32(tol)
            /\ Overlap1D(m.x, RightEdge(m), n.x, RightEdge(n))

IsHorizontallyAligned(a, b, tol) ==
    /\ ~IsEmpty(a) /\ ~IsEmpty(b)
    /\ LET m == NormalizeRect(a) n == NormalizeRect(b)
       IN  Magnitude(Truncate(m.y + BottomEdge(m), 2) - Truncate(n.y + BottomEdge(n), 2))
             <= Magnitude(tol)

IsVerticallyAligned(a, b, tol) ==
    /\ ~IsEmpty(a) /\ ~IsEmpty(b)
    /\ LET m == NormalizeRect(a) n == NormalizeRect(b)
       IN  Magnitude(Truncate(m.x + RightEdge(m), 2) - Truncate(n.x + RightEdge(n), 2))
             <= Magnitude(tol)

AreOnSameRow(a, b, tol) ==
    /\ ~IsEmpty(a) /\ ~IsEmpty(b)
    /\ LET m == NormalizeRect(a) n == NormalizeRect(b)
       IN  OverlapOrAdjacent1D(m.y, BottomEdge(m), n.y, BottomEdge(n), tol)

AreOnSameColumn(a, b, tol) ==
    /\ ~IsEmpty(a) /\ ~IsEmpty(b)
    /\ LET m == NormalizeRect(a) n == NormalizeRect(b)
       IN  OverlapOrAdjacent1D(m.x, RightEdge(m), n.x, RightEdge(n), tol)

-----------------------------------------------------------------------------
(* Transformations. *)

Inflate(r, left, top, right, bottom) ==
    UnlessEmpty(r, LAMBDA n : ClampRect(n.x - left, n.y - top,
                                        n.width + left + right, n.height + top + bottom))
InflateUniform(r, amount) == Inflate(r, amount, amount, amount, amount)

Deflate(r, left, top, right, bottom) ==
    UnlessEmpty(r, LAMBDA n : ClampRect(n.x + left, n.y + top,
                                        n.width - left - right, n.height - top - bottom))
DeflateUniform(r, amount) == Deflate(r, amount, amount, amount, amount)

Offset(r, dx, dy) ==
    UnlessEmpty(r, LAMBDA n : ClampRect(n.x + dx, n.y + dy, n.width, n.height))
MapFromParent(r, origin) == Offset(r, -origin.x, -origin.y)
MapToParent(r, origin) == Offset(r, origin.x, origin.y)

\* The factors are fractions.
Scale(r, sx, sy) ==
    LET times(v, s) == (v * s[1]) \div s[2]
    IN  UnlessEmpty(r, LAMBDA n : ClampRect(times(n.x, sx), times(n.y, sy),
                                            times(n.width, sx), times(n.height, sy)))

Transpose(r) == UnlessEmpty(r, LAMBDA n : Rect(n.x, n.y, n.height, n.width))

MirrorHorizontal(r, axis) ==
    UnlessEmpty(r, LAMBDA n :
        ClampRect(2 * axis - RightEdge(n), n.y, n.width, n.height))
MirrorVertical(r, axis) ==
    UnlessEmpty(r, LAMBDA n :
        ClampRect(n.x, 2 * axis - BottomEdge(n), n.width, n.height))

NormalizeForRTL(r, parentWidth) ==
    LET n == NormalizeRect(r)
    IN  IF IsEmpty(n) \/ parentWidth <= 0 THEN n
        ELSE ClampRect(parentWidth - RightEdge(n), n.y, n.width, n.height)

\* Mutation for TransformsUndo: turned by the corner that is the upper left before.
Rotate90UpperLeft(r, pivot) ==
    UnlessEmpty(r, LAMBDA n :
        ClampRect(pivot.x - (n.y - pivot.y), pivot.y + (n.x - pivot.x), n.height, n.width))

Rotate90(r, pivot) ==
    UnlessEmpty(r, LAMBDA n :
        ClampRect(pivot.x - (BottomEdge(n) - pivot.y), pivot.y + (n.x - pivot.x),
                  n.height, n.width))

CenterAt(r, c) ==
    UnlessEmpty(r, LAMBDA n :
        ClampRect(c.x - n.width \div 2, c.y - n.height \div 2, n.width, n.height))

ExpandToContain(r, p) ==
    LET n == NormalizeRect(r)
    IN  IF IsEmpty(r) THEN ClampRect(p.x, p.y, 1, 1)
        ELSE Between(Lesser(n.x, p.x), Lesser(n.y, p.y),
                     Greater(RightEdge(n), p.x + 1), Greater(BottomEdge(n), p.y + 1))

\* The ratio is a fraction.
ShrinkToAspectRatio(r, ratio) ==
    UnlessEmpty(r, LAMBDA n :
        IF ratio[1] <= 0 THEN EmptyRect ELSE
        LET wide == n.width * ratio[2] - n.height * ratio[1]
            w == IF wide > 0 THEN Lesser(n.width, (n.height * ratio[1]) \div ratio[2])
                             ELSE n.width
            h == IF wide < 0 THEN Lesser(n.height, (n.width * ratio[2]) \div ratio[1])
                             ELSE n.height
        IN  ClampRect(CenterX(n) - w \div 2, CenterY(n) - h \div 2, w, h))

-----------------------------------------------------------------------------
(* Points. *)

PointDistance(p, q) == Wrap(p.x - q.x) ^ 2 + Wrap(p.y - q.y) ^ 2
PointEqualsTolerance(p, q, tol) == CloseTo(p.x, q.x, tol) /\ CloseTo(p.y, q.y, tol)
PointTranslate(p, dx, dy) == Point(ClampToInt32(p.x + dx), ClampToInt32(p.y + dy))
PointRotate90(p, pivot) ==
    Point(ClampToInt32(pivot.x - (p.y - pivot.y)), ClampToInt32(pivot.y + (p.x - pivot.x)))
PointMirrorHorizontal(p, axis) == Point(ClampToInt32(2 * axis - p.x), p.y)
PointMirrorVertical(p, axis) == Point(p.x, ClampToInt32(2 * axis - p.y))

\* The point at t, a fraction, of the way from p to q.
Along(p, q, t) ==
    [x |-> <<p.x * t[2] + t[1] * (q.x - p.x), t[2]>>,
     y |-> <<p.y * t[2] + t[1] * (q.y - p.y), t[2]>>]
Limited(t) == IF t[1] < 0 THEN <<0, 1>> ELSE IF t[1] > t[2] THEN <<1, 1>> ELSE t
PointLerp(p, q, t) ==
    LET v == Along(p, Point(p.x + Wrap(q.x - p.x), p.y + Wrap(q.y - p.y)), Limited(t))
    IN  Point(SnapToPixel(v.x), SnapToPixel(v.y))

Cross(p, s, e) == (e.x - s.x) * (p.y - s.y) - (e.y - s.y) * (p.x - s.x)
IsPointOnSegment(p, s, e) ==
    /\ Cross(p, s, e) = 0
    /\ (p.x - s.x) * (p.x - e.x) + (p.y - s.y) * (p.y - e.y) <= 0

\* Where the perpendicular through p meets the line through s and e.
Projection(p, s, e) ==
    <<(p.x - s.x) * (e.x - s.x) + (p.y - s.y) * (e.y - s.y),
      (e.x - s.x) ^ 2 + (e.y - s.y) ^ 2>>

FootOfPerpendicular(p, s, e) ==
    IF s = e THEN s
    ELSE LET v == Along(s, e, Projection(p, s, e)) IN Point(SnapToPixel(v.x), SnapToPixel(v.y))

\* The square of the distance, a fraction.
PointToSegmentDistance(p, s, e) ==
    IF s = e THEN <<(p.x - s.x) ^ 2 + (p.y - s.y) ^ 2, 1>>
    ELSE LET t == Limited(Projection(p, s, e)) v == Along(s, e, t)
         IN  <<(p.x * t[2] - v.x[1]) ^ 2 + (p.y * t[2] - v.y[1]) ^ 2, t[2] ^ 2>>

RectCorners(r) ==
    LET n == NormalizeRect(r)
        right == ClampToInt32(RightEdge(n)) bottom == ClampToInt32(BottomEdge(n))
    IN  IF IsEmpty(n) THEN <<>>
        ELSE <<Point(n.x, n.y), Point(right, n.y), Point(right, bottom), Point(n.x, bottom)>>

RectEdgeMidpoints(r) ==
    LET n == NormalizeRect(r)
        right == ClampToInt32(RightEdge(n)) bottom == ClampToInt32(BottomEdge(n))
    IN  IF IsEmpty(n) THEN <<>>
        ELSE <<Point(Wrap(CenterX(n)), n.y), Point(right, Wrap(CenterY(n))),
               Point(Wrap(CenterX(n)), bottom), Point(n.x, Wrap(CenterY(n)))>>

\* 0 to 3: top, right, bottom, left; of several the first.
ClosestEdgeIndex(r, p) ==
    LET n == NormalizeRect(r)
        across == Magnitude(p.x - CenterX(n)) down == Magnitude(p.y - CenterY(n))
        extra(outside, d) == IF outside THEN d ELSE 0
        distance == <<Magnitude(p.y - n.y) + extra(p.y < n.y, down),
                      Magnitude(p.x - RightEdge(n)) + extra(p.x >= RightEdge(n), across),
                      Magnitude(p.y - BottomEdge(n)) + extra(p.y >= BottomEdge(n), down),
                      Magnitude(p.x - n.x) + extra(p.x < n.x, across)>>
        first == CHOOSE i \in 1 .. 4 :
                    /\ \A j \in 1 .. 4 : distance[i] <= distance[j]
                    /\ \A j \in 1 .. i - 1 : distance[i] < distance[j]
    IN  IF IsEmpty(n) THEN -1 ELSE first - 1

-----------------------------------------------------------------------------
(* Lists. *)

NonEmpty(list) == SelectSeq(list, LAMBDA r : ~IsEmpty(r))

Normalized(list) ==
    LET some == NonEmpty(list) IN [i \in DOMAIN some |-> NormalizeRect(some[i])]

IntersectListWithRect(list, r) ==
    NonEmpty([i \in DOMAIN list |-> IntersectRect(list[i], r)])

UnionListBounds(list) ==
    IF list = <<>> THEN EmptyRect
    ELSE FoldLeft(UnionRect, NormalizeRect(Head(list)), Tail(list))

ContainsAny(list, r) == \E i \in DOMAIN list : ContainsRect(list[i], r)
ContainsAll(list, r) == list # <<>> /\ \A i \in DOMAIN list : ContainsRect(list[i], r)

TotalArea(list) == FoldLeft(LAMBDA sum, r : sum + Area(NormalizeRect(r)), 0, list)

CanMergeRects(a, b, tol) ==
    LET h == HorizontalGap(a, b) v == VerticalGap(a, b)
    IN  (h <= 0 /\ v <= Greater(tol, 0)) \/ (v <= 0 /\ h <= Greater(tol, 0))

\* The first that has a partner is merged with the first of its partners.
MergeFirst(rects, tol) ==
    LET partners(i) == {j \in i + 1 .. Len(rects) : CanMergeRects(rects[i], rects[j], tol)}
        some == {i \in DOMAIN rects : partners(i) # {}}
    IN  IF some = {} THEN rects
        ELSE LET i == Min(some) j == Min(partners(Min(some)))
             IN  RemoveAt([k \in DOMAIN rects |-> IF k = i THEN UnionRect(rects[i], rects[j])
                                                 ELSE rects[k]], j)

\* Mutation for MeasuresFitTheCells: what a merge has grown into is not looked at again.
MergeOnce(rects, tol) == MergeFirst(rects, tol)

\* Each merge leaves one rectangle fewer: as many rounds as there are suffice.
MergeAll(rects, tol) == FoldLeft(LAMBDA work, r : MergeFirst(work, tol), rects, rects)

MergeOverlapping(list, tol) == MergeAll(Normalized(list), tol)

IsContainedByAny(i, list) ==
    \E j \in DOMAIN list \ {i} :
        IF list[i] = list[j] THEN j < i ELSE ContainsRect(list[j], list[i])

RemoveContained(list) ==
    LET n == Normalized(list)
        kept == {i \in DOMAIN n : ~IsContainedByAny(i, n)}
    IN  [k \in 1 .. Cardinality(kept) |-> n[SetToSortSeq(kept, <)[k]]]

Deduplicate(list, tol) ==
    FoldLeft(LAMBDA kept, r :
                 IF \E i \in DOMAIN kept : EqualsTolerance(r, kept[i], tol)
                 THEN kept ELSE Append(kept, r),
             <<>>, Normalized(list))

SortByRow(list) ==
    SortSeq(Normalized(list), LAMBDA a, b :
        \/ a.y < b.y
        \/ a.y = b.y /\ a.x < b.x
        \/ a.y = b.y /\ a.x = b.x /\ a.height < b.height
        \/ a.y = b.y /\ a.x = b.x /\ a.height = b.height /\ a.width < b.width)

\* The first group whose bounds touch the rows of r, or one more than there are.
FindRowGroup(r, groups, tol) ==
    LET touches(group) ==
            LET bounds == UnionListBounds(group)
            IN  OverlapOrAdjacent1D(bounds.y, BottomEdge(bounds), r.y, BottomEdge(r), tol)
    IN  Min({g \in DOMAIN groups : touches(groups[g])} \cup {Len(groups) + 1})

GroupByRows(list, tol) ==
    FoldLeft(LAMBDA groups, r :
                 LET g == FindRowGroup(r, groups, tol)
                 IN  IF g > Len(groups) THEN Append(groups, <<r>>)
                                        ELSE [groups EXCEPT ![g] = Append(@, r)],
             <<>>, NonEmpty(SortByRow(list)))

\* The length of the union of intervals, swept from the left.
MergeIntervalLengths(intervals) ==
    LET sorted == SortSeq(intervals, LAMBDA a, b : a.start < b.start)
        sweep(acc, i) ==
            IF i.start <= acc.end THEN [acc EXCEPT !.end = Greater(@, i.end)]
            ELSE [length |-> acc.length + acc.end - acc.start, start |-> i.start, end |-> i.end]
        last == FoldLeft(sweep, [length |-> 0, start |-> Head(sorted).start,
                                 end |-> Head(sorted).end], Tail(sorted))
    IN  IF intervals = <<>> THEN 0 ELSE last.length + last.end - last.start

UnionArea(list) ==
    LET n == Normalized(list)
        ys == UNION {{n[i].y, BottomEdge(n[i])} : i \in DOMAIN n}
        next(y) == Min({z \in ys : z > y})
        across(y) == SelectSeq(n, LAMBDA r : r.y <= y /\ BottomEdge(r) >= next(y))
        strip(y) == MergeIntervalLengths([i \in DOMAIN across(y) |->
                        [start |-> across(y)[i].x, end |-> RightEdge(across(y)[i])]])
                    * (next(y) - y)
    IN  IF ys = {} THEN 0 ELSE MapThenSumSet(strip, ys \ {Max(ys)})

\* Row by row; the first rows and columns share what is left over.
SplitGrid(r, rows, cols) ==
    LET n == NormalizeRect(r)
        size(total, parts, i) == total \div parts + (IF i < total % parts THEN 1 ELSE 0)
        start(total, parts, i) == i * (total \div parts) + Lesser(i, total % parts)
        cell(row, col) ==
            ClampRect(n.x + start(n.width, cols, col), n.y + start(n.height, rows, row),
                      size(n.width, cols, col), size(n.height, rows, row))
    IN  IF IsEmpty(r) \/ rows <= 0 \/ cols <= 0 THEN <<>>
        ELSE [k \in 1 .. rows * cols |-> cell((k - 1) \div cols, (k - 1) % cols)]

-----------------------------------------------------------------------------
(* Clipping. *)

\* One of the four bounds narrows the part [t0, t1] of a segment that is inside;
\* <<>> when nothing is left.
ApplySegmentClipEdge(p, q, range) ==
    LET t == IF p > 0 THEN <<q, p>> ELSE <<-q, -p>>
        before(s, u) == s[1] * u[2] < u[1] * s[2]
    IN  CASE p = 0 -> IF q >= 0 THEN range ELSE <<>>
          [] p < 0 -> IF before(range[2], t) THEN <<>>
                      ELSE <<IF before(range[1], t) THEN t ELSE range[1], range[2]>>
          [] p > 0 -> IF before(t, range[1]) THEN <<>>
                      ELSE <<range[1], IF before(t, range[2]) THEN t ELSE range[2]>>

\* The part of the segment inside the rectangle, its right and lower edges included.
ClipSegmentToRect(p, q, r) ==
    LET n == NormalizeRect(r)
        dx == q.x - p.x dy == q.y - p.y
        bounds == <<<<-dx, p.x - n.x>>, <<dx, RightEdge(n) - p.x>>,
                    <<-dy, p.y - n.y>>, <<dy, BottomEdge(n) - p.y>>>>
        range == FoldLeft(LAMBDA acc, b :
                              IF acc = <<>> THEN acc ELSE ApplySegmentClipEdge(b[1], b[2], acc),
                          <<<<0, 1>>, <<1, 1>>>>, bounds)
        at(t) == LET v == Along(p, q, t) IN Point(SnapToPixel(v.x), SnapToPixel(v.y))
    IN  IF IsEmpty(r) \/ range = <<>> THEN <<>> ELSE <<at(range[1]), at(range[2])>>

SegmentIntersectsRect(p, q, r) ==
    /\ ~IsEmpty(r)
    /\ \/ ClipSegmentToRect(p, q, r) # <<>>
       \/ ContainsPoint(NormalizeRect(r), p) \/ ContainsPoint(NormalizeRect(r), q)

Edges == <<"left", "right", "top", "bottom">>

PolygonInsidePoint(p, edge, r) ==
    CASE edge = "left" -> p.x >= r.x
      [] edge = "right" -> p.x < RightEdge(r)
      [] edge = "top" -> p.y >= r.y
      [] edge = "bottom" -> p.y < BottomEdge(r)

PolygonEdgeIntersect(s, e, edge, r) ==
    LET dx == e.x - s.x dy == e.y - s.y
        along(from, d, to, by) ==
            IF by = 0 THEN from
            ELSE from + (IF by > 0 THEN Truncate((to) * d, by) ELSE Truncate(-(to) * d, -by))
        onX(v) == Point(Wrap(v), Wrap(along(s.y, dy, v - s.x, dx)))
        onY(v) == Point(Wrap(along(s.x, dx, v - s.y, dy)), Wrap(v))
    IN  CASE edge = "left" -> onX(r.x) [] edge = "right" -> onX(RightEdge(r))
          [] edge = "top" -> onY(r.y) [] edge = "bottom" -> onY(BottomEdge(r))

ClipPolygonSingleEdge(points, edge, r) ==
    LET inside(p) == PolygonInsidePoint(p, edge, r)
        previous(i) == points[IF i = 1 THEN Len(points) ELSE i - 1]
        crossing(i) == IF inside(points[i]) # inside(previous(i))
                       THEN <<PolygonEdgeIntersect(previous(i), points[i], edge, r)>> ELSE <<>>
        kept(i) == IF inside(points[i]) THEN <<points[i]>> ELSE <<>>
    IN  FlattenSeq([i \in DOMAIN points |-> crossing(i) \o kept(i)])

ClipPolygonToRect(points, r) ==
    IF Len(points) < 3 \/ IsEmpty(r) THEN <<>>
    ELSE FoldLeft(LAMBDA acc, edge : ClipPolygonSingleEdge(acc, edge, NormalizeRect(r)),
                  points, Edges)
=============================================================================
