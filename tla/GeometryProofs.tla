---------------------------- MODULE GeometryProofs ----------------------------
(***************************************************************************)
(* What the operations on rectangles promise, for every rectangle of       *)
(* 32-bit numbers.                                                         *)
(*                                                                         *)
(* The cells of a rectangle lie between its edges each way (Side, OneAxis),*)
(* and a list of them covers what its parts do (BothLists).  One that is   *)
(* not empty and needs no clamping is Proper; what leaves it Proper can be *)
(* undone.                                                                 *)
(***************************************************************************)
EXTENDS RectCombiner, FiniteSetTheorems, SequenceTheorems, TLAPS

-----------------------------------------------------------------------------
(* Rectangles: the numbers they are computed with. *)

LEMMA LesserIs ==
  ASSUME NEW m \in Int, NEW n \in Int
  PROVE  /\ Lesser(m, n) \in Int /\ Lesser(m, n) <= m /\ Lesser(m, n) <= n
         /\ Lesser(m, n) = m \/ Lesser(m, n) = n
BY DEF Lesser

LEMMA GreaterIs ==
  ASSUME NEW m \in Int, NEW n \in Int
  PROVE  /\ Greater(m, n) \in Int /\ Greater(m, n) >= m /\ Greater(m, n) >= n
         /\ Greater(m, n) = m \/ Greater(m, n) = n
BY DEF Greater

LEMMA ClampIs ==
  ASSUME NEW v \in Int
  PROVE  /\ ClampToInt32(v) \in Int32 /\ ClampToInt32(v) \in Int
         /\ v < MinInt => ClampToInt32(v) = MinInt
         /\ v > MaxInt => ClampToInt32(v) = MaxInt
         /\ MinInt <= v /\ v <= MaxInt => ClampToInt32(v) = v
BY GeometryAssumption DEF ClampToInt32, Int32

LEMMA Remainder ==
  ASSUME NEW v \in Int, NEW n \in Int, 0 <= v, v < n
  PROVE  v % n = v
OBVIOUS

LEMMA WrapIs ==
  ASSUME NEW v \in Int, MinInt <= v, v <= MaxInt
  PROVE  Wrap(v) = v
<1>1. v - MinInt \in Int /\ MaxInt - MinInt + 1 \in Int /\ 0 <= v - MinInt
      /\ v - MinInt < MaxInt - MinInt + 1
  BY GeometryAssumption
<1>2. (v - MinInt) % (MaxInt - MinInt + 1) = v - MinInt
  BY <1>1, Remainder
<1> QED
  BY <1>2, GeometryAssumption DEF Wrap

-----------------------------------------------------------------------------
(* The edges of a rectangle, and the cells between them. *)

\* A rectangle that is clamped, by its edges.
LEMMA ClampRectIs ==
  ASSUME NEW x \in Int, NEW y \in Int, NEW w \in Int, NEW h \in Int,
         0 <= w, 0 <= h, w <= MaxInt, h <= MaxInt
  PROVE  LET r == ClampRect(x, y, w, h)
         IN  /\ r \in Rectangle
             /\ r.x = ClampToInt32(x) /\ r.y = ClampToInt32(y)
             /\ RightEdge(r) = ClampToInt32(x + w) /\ BottomEdge(r) = ClampToInt32(y + h)
             /\ 0 <= r.width /\ r.width <= w /\ 0 <= r.height /\ r.height <= h
<1> DEFINE l == ClampToInt32(x)
           r == ClampToInt32(x + w)
           t == ClampToInt32(y)
           b == ClampToInt32(y + h)
<1>1. /\ Lesser(x, x + w) = x /\ Greater(x, x + w) = x + w
      /\ Lesser(y, y + h) = y /\ Greater(y, y + h) = y + h
  BY DEF Lesser, Greater
<1>2. ClampRect(x, y, w, h) = Rect(l, t, Wrap(r - l), Wrap(b - t))
  BY <1>1 DEF ClampRect
<1>3. l \in Int32 /\ r \in Int32 /\ l \in Int /\ r \in Int /\ 0 <= r - l /\ r - l <= w
  BY GeometryAssumption DEF ClampToInt32, Int32
<1>4. t \in Int32 /\ b \in Int32 /\ t \in Int /\ b \in Int /\ 0 <= b - t /\ b - t <= h
  BY GeometryAssumption DEF ClampToInt32, Int32
<1> HIDE DEF l, r, t, b
<1>5. Wrap(r - l) = r - l /\ Wrap(b - t) = b - t /\ r - l \in Int32 /\ b - t \in Int32
  BY <1>3, <1>4, WrapIs, GeometryAssumption DEF Int32
<1>6. ClampRect(x, y, w, h) = [x |-> l, y |-> t, width |-> r - l, height |-> b - t]
  BY <1>2, <1>5 DEF Rect
<1>7. l + (r - l) = r /\ t + (b - t) = b
  BY <1>3, <1>4
<1> QED
  BY <1>3, <1>4, <1>5, <1>6, <1>7 DEF Rectangle, RightEdge, BottomEdge, l, r, t, b

LEMMA FieldsAre ==
  ASSUME NEW r \in Rectangle
  PROVE  /\ r.x \in Int /\ MinInt <= r.x /\ r.x <= MaxInt
         /\ r.y \in Int /\ MinInt <= r.y /\ r.y <= MaxInt
         /\ r.width \in Int /\ MinInt <= r.width /\ r.width <= MaxInt
         /\ r.height \in Int /\ MinInt <= r.height /\ r.height <= MaxInt
         /\ RightEdge(r) = r.x + r.width /\ BottomEdge(r) = r.y + r.height
         /\ RightEdge(r) \in Int /\ BottomEdge(r) \in Int
<1>1. r.x \in Int32 /\ r.y \in Int32 /\ r.width \in Int32 /\ r.height \in Int32
  BY DEF Rectangle
<1> QED
  BY <1>1, GeometryAssumption DEF Int32, RightEdge, BottomEdge

\* A rectangle that covers cells begins where it did and ends at the last edge at most.
LEMMA NormalIs ==
  ASSUME NEW r \in Rectangle, ~IsEmpty(r)
  PROVE  LET n == NormalizeRect(r)
         IN  /\ n \in Rectangle /\ n.x = r.x /\ n.y = r.y
             /\ RightEdge(n) = Lesser(RightEdge(r), MaxInt)
             /\ BottomEdge(n) = Lesser(BottomEdge(r), MaxInt)
             /\ 0 <= n.width /\ n.width <= r.width /\ 0 <= n.height /\ n.height <= r.height
             /\ n.x <= RightEdge(n) /\ n.y <= BottomEdge(n)
             /\ RightEdge(n) \in Int /\ BottomEdge(n) \in Int
             /\ n.x < RightEdge(n) \/ n.x = MaxInt
             /\ n.y < BottomEdge(n) \/ n.y = MaxInt
<1> DEFINE n == NormalizeRect(r)
<1>1. /\ r.x \in Int /\ MinInt <= r.x /\ r.x <= MaxInt
      /\ r.y \in Int /\ MinInt <= r.y /\ r.y <= MaxInt
      /\ r.width \in Int /\ 0 < r.width /\ r.width <= MaxInt
      /\ r.height \in Int /\ 0 < r.height /\ r.height <= MaxInt
      /\ RightEdge(r) = r.x + r.width /\ BottomEdge(r) = r.y + r.height
  BY FieldsAre DEF IsEmpty
<1>2. /\ n \in Rectangle
      /\ n.x = ClampToInt32(r.x) /\ n.y = ClampToInt32(r.y)
      /\ RightEdge(n) = ClampToInt32(r.x + r.width) /\ BottomEdge(n) = ClampToInt32(r.y + r.height)
      /\ 0 <= n.width /\ n.width <= r.width /\ 0 <= n.height /\ n.height <= r.height
  <2>1. 0 <= r.width /\ 0 <= r.height
    BY <1>1
  <2> DEFINE k == ClampRect(r.x, r.y, r.width, r.height)
  <2>2. /\ k \in Rectangle
        /\ k.x = ClampToInt32(r.x) /\ k.y = ClampToInt32(r.y)
        /\ RightEdge(k) = ClampToInt32(r.x + r.width) /\ BottomEdge(k) = ClampToInt32(r.y + r.height)
        /\ 0 <= k.width /\ k.width <= r.width /\ 0 <= k.height /\ k.height <= r.height
    BY <2>1, <1>1, ClampRectIs
  <2> HIDE DEF k
  <2>3. n = k
    BY DEF NormalizeRect, k
  <2> HIDE DEF n
  <2> QED
    BY <2>2, <2>3
<1> HIDE DEF n
<1>3. n.x = r.x /\ n.y = r.y
  BY <1>1, <1>2, ClampIs
<1>4. /\ RightEdge(n) = Lesser(RightEdge(r), MaxInt) /\ RightEdge(n) \in Int /\ n.x <= RightEdge(n)
      /\ BottomEdge(n) = Lesser(BottomEdge(r), MaxInt) /\ BottomEdge(n) \in Int /\ n.y <= BottomEdge(n)
  BY <1>1, <1>2, <1>3, GeometryAssumption DEF ClampToInt32, Lesser
<1>5. (n.x < RightEdge(n) \/ n.x = MaxInt) /\ (n.y < BottomEdge(n) \/ n.y = MaxInt)
  BY <1>1, <1>3, <1>4, GeometryAssumption DEF Lesser
<1> QED
  BY <1>2, <1>3, <1>4, <1>5 DEF n

\* Which cells a rectangle covers.
LEMMA CellsAre ==
  ASSUME NEW r \in Rectangle
  PROVE  /\ \A c : c \in Cells(r) <=> /\ c = [x |-> c.x, y |-> c.y]
                                      /\ c.x \in Int /\ r.x <= c.x /\ c.x < RightEdge(r)
                                      /\ c.y \in Int /\ r.y <= c.y /\ c.y < BottomEdge(r)
         /\ Cells(r) = {} <=> IsEmpty(r)
<1>1. /\ r.x \in Int /\ r.y \in Int /\ RightEdge(r) \in Int /\ BottomEdge(r) \in Int
      /\ RightEdge(r) = r.x + r.width /\ BottomEdge(r) = r.y + r.height
      /\ r.width \in Int /\ r.height \in Int
  BY FieldsAre
<1>2. ASSUME NEW c
      PROVE  c \in Cells(r) <=> /\ c = [x |-> c.x, y |-> c.y]
                                /\ c.x \in Int /\ r.x <= c.x /\ c.x < RightEdge(r)
                                /\ c.y \in Int /\ r.y <= c.y /\ c.y < BottomEdge(r)
  BY <1>1 DEF Cells
<1>3. ASSUME ~IsEmpty(r) PROVE [x |-> r.x, y |-> r.y] \in Cells(r)
  <2>1. r.x < RightEdge(r) /\ r.y < BottomEdge(r)
    BY <1>1, <1>3 DEF IsEmpty
  <2> QED
    BY <2>1, <1>1 DEF Cells
<1>4. ASSUME IsEmpty(r) PROVE Cells(r) = {}
  <2>1. ~(r.x < RightEdge(r) /\ r.y < BottomEdge(r))
    BY <1>1, <1>4 DEF IsEmpty
  <2>2. \A c : c \notin Cells(r)
    BY <2>1, <1>1, <1>2
  <2> QED
    BY <2>2
<1> QED
  BY <1>2, <1>3, <1>4

LEMMA PlaneIs ==
  ASSUME NEW c
  PROVE  c \in Plane <=> /\ c = [x |-> c.x, y |-> c.y]
                         /\ c.x \in Int /\ MinInt <= c.x /\ c.x < MaxInt
                         /\ c.y \in Int /\ MinInt <= c.y /\ c.y < MaxInt
BY GeometryAssumption DEF Plane

LEMMA NormalCells ==
  ASSUME NEW r \in Rectangle, ~IsEmpty(r)
  PROVE  Cells(NormalizeRect(r)) = Cells(r) \cap Plane
<1> DEFINE n == NormalizeRect(r)
<1>1. /\ n \in Rectangle /\ n.x = r.x /\ n.y = r.y
      /\ RightEdge(n) = Lesser(RightEdge(r), MaxInt)
      /\ BottomEdge(n) = Lesser(BottomEdge(r), MaxInt)
  BY NormalIs
<1> HIDE DEF n
<1>2. /\ r.x \in Int /\ MinInt <= r.x /\ r.y \in Int /\ MinInt <= r.y
      /\ RightEdge(r) \in Int /\ BottomEdge(r) \in Int
  BY FieldsAre
<1>3. ASSUME NEW c PROVE c \in Cells(n) <=> c \in Cells(r) /\ c \in Plane
  <2>1. c.x \in Int => (c.x < RightEdge(n) <=> c.x < RightEdge(r) /\ c.x < MaxInt)
    BY <1>1, <1>2, GeometryAssumption DEF Lesser
  <2>2. c.y \in Int => (c.y < BottomEdge(n) <=> c.y < BottomEdge(r) /\ c.y < MaxInt)
    BY <1>1, <1>2, GeometryAssumption DEF Lesser
  <2>3. c.x \in Int /\ r.x <= c.x => MinInt <= c.x
    BY <1>2, GeometryAssumption
  <2>4. c.y \in Int /\ r.y <= c.y => MinInt <= c.y
    BY <1>2, GeometryAssumption
  <2> QED
    BY <1>1, <2>1, <2>2, <2>3, <2>4, CellsAre, PlaneIs
<1> QED
  BY <1>3 DEF n

\* The rectangle between two edges each way.
LEMMA BetweenIs ==
  ASSUME NEW l \in Int32, NEW t \in Int32, NEW r \in Int32, NEW b \in Int32,
         l <= r, t <= b, r - l <= MaxInt, b - t <= MaxInt
  PROVE  LET n == Between(l, t, r, b)
         IN  n \in Rectangle /\ n.x = l /\ n.y = t /\ RightEdge(n) = r /\ BottomEdge(n) = b
<1>1. /\ l \in Int /\ MinInt <= l /\ l <= MaxInt /\ t \in Int /\ MinInt <= t /\ t <= MaxInt
      /\ r \in Int /\ MinInt <= r /\ r <= MaxInt /\ b \in Int /\ MinInt <= b /\ b <= MaxInt
  BY GeometryAssumption DEF Int32
<1>2. /\ r - l \in Int /\ 0 <= r - l /\ b - t \in Int /\ 0 <= b - t
      /\ l + (r - l) = r /\ t + (b - t) = b
  BY <1>1
<1> DEFINE n == ClampRect(l, t, r - l, b - t)
<1>3. /\ n \in Rectangle
      /\ n.x = ClampToInt32(l) /\ n.y = ClampToInt32(t)
      /\ RightEdge(n) = ClampToInt32(r) /\ BottomEdge(n) = ClampToInt32(b)
  BY <1>1, <1>2, ClampRectIs
<1> HIDE DEF n
<1>4. n.x = l /\ n.y = t /\ RightEdge(n) = r /\ BottomEdge(n) = b
  BY <1>1, <1>3, ClampIs
<1> QED
  BY <1>3, <1>4 DEF n, Between

LEMMA EmptyIs == EmptyRect \in Rectangle /\ IsEmpty(EmptyRect) /\ Cells(EmptyRect) = {}
<1>1. EmptyRect \in Rectangle
  BY GeometryAssumption DEF EmptyRect, Rect, Rectangle, Int32
<1>2. IsEmpty(EmptyRect)
  BY DEF EmptyRect, Rect, IsEmpty
<1> QED
  BY <1>1, <1>2, CellsAre

\* The edges of a rectangle that covers cells, when it is clamped.
Side(i, k) ==
    /\ i \in Int /\ k \in Int /\ MinInt <= i /\ i <= k /\ k <= MaxInt /\ k - i <= MaxInt
    /\ i < k \/ i = MaxInt

LEMMA SidesAre ==
  ASSUME NEW r \in Rectangle, ~IsEmpty(r)
  PROVE  LET n == NormalizeRect(r)
         IN  n \in Rectangle /\ Side(n.x, RightEdge(n)) /\ Side(n.y, BottomEdge(n))
<1> DEFINE n == NormalizeRect(r)
<1>1. /\ n \in Rectangle
      /\ RightEdge(n) = Lesser(RightEdge(r), MaxInt)
      /\ BottomEdge(n) = Lesser(BottomEdge(r), MaxInt)
      /\ n.x <= RightEdge(n) /\ n.y <= BottomEdge(n)
      /\ n.x < RightEdge(n) \/ n.x = MaxInt
      /\ n.y < BottomEdge(n) \/ n.y = MaxInt
  BY NormalIs
<1> HIDE DEF n
<1>2. /\ n.x \in Int /\ MinInt <= n.x /\ n.y \in Int /\ MinInt <= n.y
      /\ RightEdge(n) \in Int /\ BottomEdge(n) \in Int
      /\ RightEdge(n) = n.x + n.width /\ BottomEdge(n) = n.y + n.height
      /\ n.width \in Int /\ n.width <= MaxInt /\ n.height \in Int /\ n.height <= MaxInt
  BY <1>1, FieldsAre
<1>3. RightEdge(n) - n.x <= MaxInt /\ BottomEdge(n) - n.y <= MaxInt
  BY <1>2, GeometryAssumption
<1>4. RightEdge(n) <= MaxInt /\ BottomEdge(n) <= MaxInt
  <2>1. RightEdge(r) \in Int /\ BottomEdge(r) \in Int /\ MaxInt \in Int
    BY FieldsAre, GeometryAssumption
  <2> QED
    BY <1>1, <2>1, LesserIs
<1> QED
  BY <1>1, <1>2, <1>3, <1>4 DEF Side, n

\* One axis of what two rectangles have in common.
LEMMA OneAxis ==
  ASSUME NEW i, NEW k, NEW j, NEW e, Side(i, k), Side(j, e)
  PROVE  LET l == Greater(i, j)
             r == Lesser(k, e)
         IN  /\ l \in Int32 /\ r \in Int32 /\ r - l <= MaxInt
             /\ l < r <=> i < e /\ j < k
             /\ \A c \in Int : l <= c /\ c < r <=> i <= c /\ c < k /\ j <= c /\ c < e
<1> DEFINE l == Greater(i, j)
           r == Lesser(k, e)
<1>1. l \in Int /\ i <= l /\ j <= l /\ (l = i \/ l = j)
  BY GreaterIs DEF Side
<1>2. r \in Int /\ r <= k /\ r <= e /\ (r = k \/ r = e)
  BY LesserIs DEF Side
<1> HIDE DEF l, r
<1>3. MinInt <= l /\ l <= MaxInt /\ MinInt <= r /\ r <= MaxInt /\ r - l <= MaxInt
  BY <1>1, <1>2, GeometryAssumption DEF Side
<1>4. l < r <=> i < e /\ j < k
  BY <1>1, <1>2, GeometryAssumption DEF Side
<1>5. \A c \in Int : l <= c /\ c < r <=> i <= c /\ c < k /\ j <= c /\ c < e
  BY <1>1, <1>2 DEF Side
<1> QED
  BY <1>1, <1>2, <1>3, <1>4, <1>5, GeometryAssumption DEF l, r, Int32

\* What two rectangles that cover cells have in common lies between these edges.
LEMMA CommonEdges ==
  ASSUME NEW a \in Rectangle, NEW b \in Rectangle, ~IsEmpty(a), ~IsEmpty(b)
  PROVE  LET m == NormalizeRect(a)
             n == NormalizeRect(b)
             l == Greater(m.x, n.x)
             t == Greater(m.y, n.y)
             r == Lesser(RightEdge(m), RightEdge(n))
             bottom == Lesser(BottomEdge(m), BottomEdge(n))
         IN  /\ l \in Int32 /\ t \in Int32 /\ r \in Int32 /\ bottom \in Int32
             /\ r - l <= MaxInt /\ bottom - t <= MaxInt
             /\ \A c : c \in Cells(a) \cap Cells(b) \cap Plane
                         <=> /\ c = [x |-> c.x, y |-> c.y]
                             /\ c.x \in Int /\ l <= c.x /\ c.x < r
                             /\ c.y \in Int /\ t <= c.y /\ c.y < bottom
             /\ Intersects(a, b) <=> l < r /\ t < bottom
             /\ IntersectRect(a, b) = IF r <= l \/ bottom <= t THEN EmptyRect
                                                               ELSE Between(l, t, r, bottom)
<1> DEFINE m == NormalizeRect(a)
           n == NormalizeRect(b)
           l == Greater(m.x, n.x)
           t == Greater(m.y, n.y)
           r == Lesser(RightEdge(m), RightEdge(n))
           bottom == Lesser(BottomEdge(m), BottomEdge(n))
<1>1. /\ m \in Rectangle /\ Side(m.x, RightEdge(m)) /\ Side(m.y, BottomEdge(m))
      /\ n \in Rectangle /\ Side(n.x, RightEdge(n)) /\ Side(n.y, BottomEdge(n))
  BY SidesAre
<1>2. Cells(m) = Cells(a) \cap Plane /\ Cells(n) = Cells(b) \cap Plane
  BY NormalCells
<1>3. Intersects(a, b) <=> /\ m.x < RightEdge(n) /\ n.x < RightEdge(m)
                           /\ m.y < BottomEdge(n) /\ n.y < BottomEdge(m)
  BY DEF Intersects
<1>4. IntersectRect(a, b) = IF r <= l \/ bottom <= t THEN EmptyRect ELSE Between(l, t, r, bottom)
  BY DEF IntersectRect
<1> HIDE DEF m, n
<1>5. /\ l \in Int32 /\ r \in Int32 /\ r - l <= MaxInt
      /\ l < r <=> m.x < RightEdge(n) /\ n.x < RightEdge(m)
      /\ \A c \in Int : l <= c /\ c < r
                          <=> m.x <= c /\ c < RightEdge(m) /\ n.x <= c /\ c < RightEdge(n)
  BY <1>1, OneAxis
<1>6. /\ t \in Int32 /\ bottom \in Int32 /\ bottom - t <= MaxInt
      /\ t < bottom <=> m.y < BottomEdge(n) /\ n.y < BottomEdge(m)
      /\ \A c \in Int : t <= c /\ c < bottom
                          <=> m.y <= c /\ c < BottomEdge(m) /\ n.y <= c /\ c < BottomEdge(n)
  BY <1>1, OneAxis
<1> HIDE DEF l, t, r, bottom
<1>7. ASSUME NEW c
      PROVE  c \in Cells(a) \cap Cells(b) \cap Plane
               <=> /\ c = [x |-> c.x, y |-> c.y]
                   /\ c.x \in Int /\ l <= c.x /\ c.x < r
                   /\ c.y \in Int /\ t <= c.y /\ c.y < bottom
  <2>1. c \in Cells(a) \cap Cells(b) \cap Plane <=> c \in Cells(m) /\ c \in Cells(n)
    BY <1>2
  <2> QED
    BY <1>1, <1>5, <1>6, <2>1, CellsAre
<1>8. Intersects(a, b) <=> l < r /\ t < bottom
  BY <1>3, <1>5, <1>6
<1> QED
  BY <1>4, <1>5, <1>6, <1>7, <1>8 DEF l, t, r, bottom, m, n

-----------------------------------------------------------------------------
(* What two rectangles have in common, and what is around both. *)

\* IntersectRect covers what both do, up to the last edge there is.
LEMMA IntersectCells ==
  ASSUME NEW a \in Rectangle, NEW b \in Rectangle
  PROVE  /\ IntersectRect(a, b) \in Rectangle
         /\ Cells(IntersectRect(a, b)) = Cells(a) \cap Cells(b) \cap Plane
         /\ Intersects(a, b) <=> Cells(a) \cap Cells(b) \cap Plane # {}
<1>1. CASE IsEmpty(a) \/ IsEmpty(b)
  <2>1. IntersectRect(a, b) = EmptyRect /\ ~Intersects(a, b)
    BY <1>1 DEF IntersectRect, Intersects
  <2>2. Cells(a) \cap Cells(b) = {}
    BY <1>1, CellsAre
  <2> QED
    BY <2>1, <2>2, EmptyIs
<1>2. CASE ~(IsEmpty(a) \/ IsEmpty(b))
  <2> DEFINE m == NormalizeRect(a)
             n == NormalizeRect(b)
             l == Greater(m.x, n.x)
             t == Greater(m.y, n.y)
             r == Lesser(RightEdge(m), RightEdge(n))
             bottom == Lesser(BottomEdge(m), BottomEdge(n))
  <2>1. /\ l \in Int32 /\ t \in Int32 /\ r \in Int32 /\ bottom \in Int32
        /\ r - l <= MaxInt /\ bottom - t <= MaxInt
        /\ \A c : c \in Cells(a) \cap Cells(b) \cap Plane
                    <=> /\ c = [x |-> c.x, y |-> c.y]
                        /\ c.x \in Int /\ l <= c.x /\ c.x < r
                        /\ c.y \in Int /\ t <= c.y /\ c.y < bottom
        /\ Intersects(a, b) <=> l < r /\ t < bottom
        /\ IntersectRect(a, b) = IF r <= l \/ bottom <= t THEN EmptyRect
                                                          ELSE Between(l, t, r, bottom)
    BY <1>2, CommonEdges
  <2> HIDE DEF m, n, l, t, r, bottom
  <2>2. l \in Int /\ t \in Int /\ r \in Int /\ bottom \in Int
    BY <2>1, GeometryAssumption DEF Int32
  <2> DEFINE both == Cells(a) \cap Cells(b) \cap Plane
  <2>3. \A c : c \in both <=> /\ c = [x |-> c.x, y |-> c.y]
                              /\ c.x \in Int /\ l <= c.x /\ c.x < r
                              /\ c.y \in Int /\ t <= c.y /\ c.y < bottom
    BY <2>1
  <2> HIDE DEF both
  <2>4. CASE l < r /\ t < bottom
    <3> DEFINE i == Between(l, t, r, bottom)
    <3>1. i \in Rectangle /\ i.x = l /\ i.y = t /\ RightEdge(i) = r /\ BottomEdge(i) = bottom
      BY <2>1, <2>2, <2>4, BetweenIs
    <3>2. IntersectRect(a, b) = i /\ Intersects(a, b)
      BY <2>1, <2>2, <2>4
    <3> HIDE DEF i
    <3>3. \A c : c \in Cells(i) <=> c \in both
      BY <2>3, <3>1, CellsAre
    <3>4. [x |-> l, y |-> t] \in both
      BY <2>2, <2>3, <2>4
    <3> QED
      BY <3>1, <3>2, <3>3, <3>4 DEF both
  <2>5. CASE ~(l < r /\ t < bottom)
    <3>1. IntersectRect(a, b) = EmptyRect /\ ~Intersects(a, b)
      BY <2>1, <2>2, <2>5
    <3>2. \A c : c \notin both
      BY <2>2, <2>3, <2>5
    <3> QED
      BY <3>1, <3>2, EmptyIs DEF both
  <2> QED
    BY <2>4, <2>5
<1> QED
  BY <1>1, <1>2

\* A rectangle covers all of another one exactly when it ends nowhere before it.
LEMMA CoversByEdges ==
  ASSUME NEW a \in Rectangle, NEW b \in Rectangle, ~IsEmpty(b)
  PROVE  Cells(b) \subseteq Cells(a)
           <=> /\ a.x <= b.x /\ RightEdge(b) <= RightEdge(a)
               /\ a.y <= b.y /\ BottomEdge(b) <= BottomEdge(a)
<1>1. /\ a.x \in Int /\ a.y \in Int /\ RightEdge(a) \in Int /\ BottomEdge(a) \in Int
      /\ b.x \in Int /\ b.y \in Int /\ RightEdge(b) \in Int /\ BottomEdge(b) \in Int
      /\ RightEdge(b) = b.x + b.width /\ BottomEdge(b) = b.y + b.height
      /\ b.width \in Int /\ b.height \in Int
  BY FieldsAre
<1>2. b.x < RightEdge(b) /\ b.y < BottomEdge(b)
  BY <1>1 DEF IsEmpty
<1>3. ASSUME Cells(b) \subseteq Cells(a)
      PROVE  /\ a.x <= b.x /\ RightEdge(b) <= RightEdge(a)
             /\ a.y <= b.y /\ BottomEdge(b) <= BottomEdge(a)
  <2> DEFINE first == [x |-> b.x, y |-> b.y]
             last == [x |-> RightEdge(b) - 1, y |-> BottomEdge(b) - 1]
  <2>1. first \in Cells(b) /\ last \in Cells(b)
    BY <1>1, <1>2, CellsAre
  <2>2. first \in Cells(a) /\ last \in Cells(a)
    BY <1>3, <2>1
  <2>3. a.x <= first.x /\ a.y <= first.y /\ last.x < RightEdge(a) /\ last.y < BottomEdge(a)
    BY <2>2, CellsAre
  <2> QED
    BY <1>1, <2>3
<1>4. ASSUME /\ a.x <= b.x /\ RightEdge(b) <= RightEdge(a)
             /\ a.y <= b.y /\ BottomEdge(b) <= BottomEdge(a)
      PROVE  Cells(b) \subseteq Cells(a)
  <2> SUFFICES ASSUME NEW c \in Cells(b) PROVE c \in Cells(a)
    OBVIOUS
  <2>1. /\ c = [x |-> c.x, y |-> c.y]
        /\ c.x \in Int /\ b.x <= c.x /\ c.x < RightEdge(b)
        /\ c.y \in Int /\ b.y <= c.y /\ c.y < BottomEdge(b)
    BY CellsAre
  <2>2. a.x <= c.x /\ c.x < RightEdge(a) /\ a.y <= c.y /\ c.y < BottomEdge(a)
    BY <1>1, <1>4, <2>1
  <2> QED
    BY <2>1, <2>2, CellsAre
<1> QED
  BY <1>3, <1>4

\* One contains the other exactly when it covers its cells; a rectangle all of which lies
\* beyond the last edge covers none, and is contained or not as its edges are.
LEMMA ContainsCells ==
  ASSUME NEW a \in Rectangle, NEW b \in Rectangle, CellsWithin(b) # {}
  PROVE  ContainsRect(a, b) <=> CellsWithin(b) \subseteq CellsWithin(a)
<1>1. ~IsEmpty(b)
  BY CellsAre DEF CellsWithin
<1>2. CASE IsEmpty(a)
  <2>1. CellsWithin(a) = {}
    BY <1>2, CellsAre DEF CellsWithin
  <2> QED
    BY <1>2, <2>1 DEF ContainsRect
<1>3. CASE ~IsEmpty(a)
  <2> DEFINE m == NormalizeRect(a)
             n == NormalizeRect(b)
  <2>1. ContainsRect(a, b) <=> /\ n.x >= m.x /\ RightEdge(n) <= RightEdge(m)
                               /\ n.y >= m.y /\ BottomEdge(n) <= BottomEdge(m)
    BY <1>1, <1>3 DEF ContainsRect
  <2>2. m \in Rectangle /\ n \in Rectangle
    BY <1>1, <1>3, NormalIs
  <2>3. Cells(m) = CellsWithin(a) /\ Cells(n) = CellsWithin(b)
    BY <1>1, <1>3, NormalCells DEF CellsWithin
  <2> HIDE DEF m, n
  <2>4. ~IsEmpty(n)
    BY <2>2, <2>3, CellsAre
  <2>5. m.x \in Int /\ n.x \in Int /\ m.y \in Int /\ n.y \in Int
    BY <2>2, FieldsAre
  <2>6. Cells(n) \subseteq Cells(m) <=> /\ m.x <= n.x /\ RightEdge(n) <= RightEdge(m)
                                        /\ m.y <= n.y /\ BottomEdge(n) <= BottomEdge(m)
    BY <2>2, <2>4, CoversByEdges
  <2> QED
    BY <2>1, <2>3, <2>5, <2>6
<1> QED
  BY <1>2, <1>3

\* The smallest rectangle around both, where its sides have a length.
LEMMA UnionCells ==
  ASSUME NEW a \in Rectangle, NEW b \in Rectangle, ~IsEmpty(a), ~IsEmpty(b),
         UnionFits(NormalizeRect(a), NormalizeRect(b))
  PROVE  BoundsBoth(UnionRect(a, b), NormalizeRect(a), NormalizeRect(b))
<1> DEFINE m == NormalizeRect(a)
           n == NormalizeRect(b)
           l == Lesser(m.x, n.x)
           t == Lesser(m.y, n.y)
           r == Greater(RightEdge(m), RightEdge(n))
           bottom == Greater(BottomEdge(m), BottomEdge(n))
           u == Between(l, t, r, bottom)
<1>1. UnionRect(a, b) = u
  BY DEF UnionRect
<1>2. /\ m \in Rectangle /\ Side(m.x, RightEdge(m)) /\ Side(m.y, BottomEdge(m))
      /\ n \in Rectangle /\ Side(n.x, RightEdge(n)) /\ Side(n.y, BottomEdge(n))
  BY SidesAre
<1>3. r - l <= MaxInt /\ bottom - t <= MaxInt
  BY DEF UnionFits
<1>4. SUFFICES BoundsBoth(u, m, n)
  BY <1>1
<1> HIDE DEF m, n
<1>5. /\ m.x \in Int /\ MinInt <= m.x /\ m.x <= RightEdge(m) /\ RightEdge(m) <= MaxInt
      /\ n.x \in Int /\ MinInt <= n.x /\ n.x <= RightEdge(n) /\ RightEdge(n) <= MaxInt
      /\ m.y \in Int /\ MinInt <= m.y /\ m.y <= BottomEdge(m) /\ BottomEdge(m) <= MaxInt
      /\ n.y \in Int /\ MinInt <= n.y /\ n.y <= BottomEdge(n) /\ BottomEdge(n) <= MaxInt
      /\ RightEdge(m) \in Int /\ RightEdge(n) \in Int /\ BottomEdge(m) \in Int /\ BottomEdge(n) \in Int
  BY <1>2 DEF Side
<1>6. l \in Int /\ l <= m.x /\ l <= n.x /\ l \in {m.x, n.x}
  BY <1>5, LesserIs
<1>7. t \in Int /\ t <= m.y /\ t <= n.y /\ t \in {m.y, n.y}
  BY <1>5, LesserIs
<1>8. r \in Int /\ RightEdge(m) <= r /\ RightEdge(n) <= r /\ r \in {RightEdge(m), RightEdge(n)}
  BY <1>5, GreaterIs
<1>9. /\ bottom \in Int /\ BottomEdge(m) <= bottom /\ BottomEdge(n) <= bottom
      /\ bottom \in {BottomEdge(m), BottomEdge(n)}
  BY <1>5, GreaterIs
<1> HIDE DEF l, t, r, bottom, u
<1>10. l \in Int32 /\ r \in Int32 /\ l <= r
  BY <1>5, <1>6, <1>8, GeometryAssumption DEF Int32
<1>11. t \in Int32 /\ bottom \in Int32 /\ t <= bottom
  BY <1>5, <1>7, <1>9, GeometryAssumption DEF Int32
<1>12. u \in Rectangle /\ u.x = l /\ u.y = t /\ RightEdge(u) = r /\ BottomEdge(u) = bottom
  BY <1>3, <1>10, <1>11, BetweenIs DEF u
<1>13. ASSUME NEW k \in {m, n} PROVE Cells(k) \subseteq Cells(u)
  <2>1. CASE IsEmpty(k)
    BY <1>2, <2>1, CellsAre
  <2>2. CASE ~IsEmpty(k)
    <3>1. /\ u.x <= k.x /\ RightEdge(k) <= RightEdge(u)
          /\ u.y <= k.y /\ BottomEdge(k) <= BottomEdge(u)
      BY <1>6, <1>7, <1>8, <1>9, <1>12
    <3> QED
      BY <1>2, <1>12, <2>2, <3>1, CoversByEdges
  <2> QED
    BY <2>1, <2>2
<1>14. Cells(m) \cup Cells(n) \subseteq Cells(u)
  BY <1>13
<1> QED
  BY <1>6, <1>7, <1>8, <1>9, <1>12, <1>14 DEF BoundsBoth

-----------------------------------------------------------------------------
(* What is left of a rectangle. *)

LEMMA NoneAndOne ==
  /\ <<>> \in Seq(Rectangle) /\ CellsOf(<<>>) = {} /\ Disjoint(<<>>)
  /\ \A r \in Rectangle : /\ <<r>> \in Seq(Rectangle)
                          /\ CellsOf(<<r>>) = Cells(r) /\ Disjoint(<<r>>)
<1> DEFINE none == <<>>
<1>1. DOMAIN none = {} /\ none \in Seq(Rectangle)
  OBVIOUS
<1> HIDE DEF none
<1>2. CellsOf(none) = {} /\ Disjoint(none)
  BY <1>1 DEF CellsOf, Disjoint
<1>3. ASSUME NEW r \in Rectangle
      PROVE  <<r>> \in Seq(Rectangle) /\ CellsOf(<<r>>) = Cells(r) /\ Disjoint(<<r>>)
  <2> DEFINE one == <<r>>
  <2>1. DOMAIN one = {1} /\ one[1] = r /\ one \in Seq(Rectangle)
    OBVIOUS
  <2> HIDE DEF one
  <2>2. CellsOf(one) = Cells(r) /\ Disjoint(one)
    BY <2>1 DEF CellsOf, Disjoint
  <2> QED
    BY <2>1, <2>2 DEF one
<1> QED
  BY <1>1, <1>2, <1>3 DEF none

\* One list after the other.
LEMMA BothLists ==
  ASSUME NEW s \in Seq(Rectangle), NEW t \in Seq(Rectangle), Disjoint(s), Disjoint(t),
         CellsOf(s) \cap CellsOf(t) = {}
  PROVE  /\ s \o t \in Seq(Rectangle) /\ Disjoint(s \o t)
         /\ CellsOf(s \o t) = CellsOf(s) \cup CellsOf(t)
<1> DEFINE all == s \o t
<1>1. /\ all \in Seq(Rectangle) /\ Len(all) = Len(s) + Len(t)
      /\ Len(s) \in Nat /\ Len(t) \in Nat
      /\ DOMAIN s = 1 .. Len(s) /\ DOMAIN t = 1 .. Len(t) /\ DOMAIN all = 1 .. Len(s) + Len(t)
      /\ \A k \in 1 .. Len(s) + Len(t) : all[k] = IF k <= Len(s) THEN s[k] ELSE t[k - Len(s)]
  OBVIOUS
<1> HIDE DEF all
<1>2. /\ \A k \in DOMAIN s : k \in DOMAIN all /\ all[k] = s[k]
      /\ \A k \in DOMAIN t : Len(s) + k \in DOMAIN all /\ all[Len(s) + k] = t[k]
      /\ \A k \in DOMAIN all : \/ k \in DOMAIN s /\ all[k] = s[k]
                               \/ k - Len(s) \in DOMAIN t /\ all[k] = t[k - Len(s)] /\ k > Len(s)
  BY <1>1
<1>3. CellsOf(all) = CellsOf(s) \cup CellsOf(t)
  BY <1>2 DEF CellsOf
<1>4. ASSUME NEW i \in DOMAIN all, NEW j \in DOMAIN all, i < j
      PROVE  Cells(all[i]) \cap Cells(all[j]) = {}
  <2>1. i \in Int /\ j \in Int
    BY <1>1
  <2>2. CASE j \in DOMAIN s /\ all[j] = s[j]
    <3>1. i \in DOMAIN s /\ all[i] = s[i]
      BY <1>1, <1>2, <1>4, <2>1, <2>2
    <3> QED
      BY <1>4, <2>2, <3>1 DEF Disjoint
  <2>3. CASE j - Len(s) \in DOMAIN t /\ all[j] = t[j - Len(s)] /\ i \in DOMAIN s /\ all[i] = s[i]
    <3>1. Cells(all[i]) \subseteq CellsOf(s) /\ Cells(all[j]) \subseteq CellsOf(t)
      BY <2>3 DEF CellsOf
    <3> QED
      BY <3>1
  <2>4. CASE /\ j - Len(s) \in DOMAIN t /\ all[j] = t[j - Len(s)]
             /\ i - Len(s) \in DOMAIN t /\ all[i] = t[i - Len(s)]
    <3>1. i - Len(s) < j - Len(s)
      BY <1>1, <1>4, <2>1
    <3> QED
      BY <2>4, <3>1 DEF Disjoint
  <2> QED
    BY <1>2, <2>2, <2>3, <2>4
<1> QED
  BY <1>1, <1>3, <1>4 DEF all, Disjoint

\* A strip that is not there would cover nothing.
LEMMA StripIs ==
  ASSUME NEW l \in Int32, NEW t \in Int32, NEW r \in Int32, NEW b \in Int32, NEW is \in BOOLEAN,
         l <= r, t <= b, r - l <= MaxInt, b - t <= MaxInt, is <=> l < r /\ t < b
  PROVE  LET s == Strip(is, l, t, r, b)
         IN  /\ s \in Seq(Rectangle) /\ Disjoint(s)
             /\ \A c : c \in CellsOf(s) <=> /\ c = [x |-> c.x, y |-> c.y]
                                            /\ c.x \in Int /\ l <= c.x /\ c.x < r
                                            /\ c.y \in Int /\ t <= c.y /\ c.y < b
<1> DEFINE n == Between(l, t, r, b)
<1>1. n \in Rectangle /\ n.x = l /\ n.y = t /\ RightEdge(n) = r /\ BottomEdge(n) = b
  BY BetweenIs
<1>2. Strip(is, l, t, r, b) = IF is THEN <<n>> ELSE <<>>
  BY DEF Strip
<1> HIDE DEF n
<1>3. \A c : c \in Cells(n) <=> /\ c = [x |-> c.x, y |-> c.y]
                                /\ c.x \in Int /\ l <= c.x /\ c.x < r
                                /\ c.y \in Int /\ t <= c.y /\ c.y < b
  BY <1>1, CellsAre
<1>4. CASE is
  BY <1>1, <1>2, <1>3, <1>4, NoneAndOne
<1>5. CASE ~is
  <2>1. l \in Int /\ r \in Int /\ t \in Int /\ b \in Int
    BY GeometryAssumption DEF Int32
  <2>2. ASSUME NEW c PROVE ~(/\ c.x \in Int /\ l <= c.x /\ c.x < r
                             /\ c.y \in Int /\ t <= c.y /\ c.y < b)
    BY <1>5, <2>1
  <2> QED
    BY <1>2, <1>5, <2>2, NoneAndOne
<1> QED
  BY <1>4, <1>5

\* What is around a part of a rectangle: four strips at most, which do not overlap.
LEMMA AroundCells ==
  ASSUME NEW n \in Rectangle, NEW i \in Rectangle, Fits(n), ~IsEmpty(n), ~IsEmpty(i),
         Cells(i) \subseteq Cells(n)
  PROVE  LET right == RightEdge(n)
             bottom == BottomEdge(n)
             pieces == Strip(i.x > n.x, n.x, n.y, i.x, bottom)
                       \o Strip(RightEdge(i) < right, RightEdge(i), n.y, right, bottom)
                       \o Strip(i.y > n.y, i.x, n.y, RightEdge(i), i.y)
                       \o Strip(BottomEdge(i) < bottom, i.x, BottomEdge(i), RightEdge(i), bottom)
         IN  CellsOf(pieces) = Cells(n) \ Cells(i) /\ Disjoint(pieces)
<1>1. /\ n.x <= i.x /\ RightEdge(i) <= RightEdge(n) /\ n.y <= i.y /\ BottomEdge(i) <= BottomEdge(n)
  BY CoversByEdges
<1>2. /\ n.x \in Int /\ MinInt <= n.x /\ n.y \in Int /\ MinInt <= n.y
      /\ RightEdge(n) \in Int /\ RightEdge(n) <= MaxInt
      /\ BottomEdge(n) \in Int /\ BottomEdge(n) <= MaxInt
      /\ RightEdge(n) = n.x + n.width /\ BottomEdge(n) = n.y + n.height
      /\ n.width \in Int /\ n.width <= MaxInt /\ n.height \in Int /\ n.height <= MaxInt
  BY FieldsAre DEF Fits
<1>3. /\ i.x \in Int /\ i.y \in Int /\ RightEdge(i) \in Int /\ BottomEdge(i) \in Int
      /\ RightEdge(i) = i.x + i.width /\ BottomEdge(i) = i.y + i.height
      /\ i.width \in Int /\ i.height \in Int
  BY FieldsAre
<1>4. i.x < RightEdge(i) /\ i.y < BottomEdge(i)
  BY <1>3 DEF IsEmpty
<1>5. RightEdge(n) - n.x <= MaxInt /\ BottomEdge(n) - n.y <= MaxInt
  BY <1>2, GeometryAssumption
<1> DEFINE a0 == n.x  a1 == i.x  a2 == RightEdge(i)  a3 == RightEdge(n)
           b0 == n.y  b1 == i.y  b2 == BottomEdge(i)  b3 == BottomEdge(n)
<1>6. /\ a0 \in Int /\ a1 \in Int /\ a2 \in Int /\ a3 \in Int
      /\ MinInt <= a0 /\ a0 <= a1 /\ a1 < a2 /\ a2 <= a3 /\ a3 <= MaxInt /\ a3 - a0 <= MaxInt
      /\ b0 \in Int /\ b1 \in Int /\ b2 \in Int /\ b3 \in Int
      /\ MinInt <= b0 /\ b0 <= b1 /\ b1 < b2 /\ b2 <= b3 /\ b3 <= MaxInt /\ b3 - b0 <= MaxInt
  BY <1>1, <1>2, <1>3, <1>4, <1>5
<1> DEFINE p1 == Strip(a1 > a0, a0, b0, a1, b3)
           p2 == Strip(a2 < a3, a2, b0, a3, b3)
           p3 == Strip(b1 > b0, a1, b0, a2, b1)
           p4 == Strip(b2 < b3, a1, b2, a2, b3)
<1>7. SUFFICES LET pieces == p1 \o p2 \o p3 \o p4
               IN  CellsOf(pieces) = Cells(n) \ Cells(i) /\ Disjoint(pieces)
  OBVIOUS
<1>8. ASSUME NEW c
      PROVE  /\ c \in Cells(n) <=> /\ c = [x |-> c.x, y |-> c.y]
                                   /\ c.x \in Int /\ a0 <= c.x /\ c.x < a3
                                   /\ c.y \in Int /\ b0 <= c.y /\ c.y < b3
             /\ c \in Cells(i) <=> /\ c = [x |-> c.x, y |-> c.y]
                                   /\ c.x \in Int /\ a1 <= c.x /\ c.x < a2
                                   /\ c.y \in Int /\ b1 <= c.y /\ c.y < b2
  BY CellsAre
<1> HIDE DEF a0, a1, a2, a3, b0, b1, b2, b3
<1>9. /\ a0 \in Int32 /\ a1 \in Int32 /\ a2 \in Int32 /\ a3 \in Int32
      /\ b0 \in Int32 /\ b1 \in Int32 /\ b2 \in Int32 /\ b3 \in Int32
  BY <1>6, GeometryAssumption DEF Int32
<1>10. /\ a1 - a0 <= MaxInt /\ a3 - a2 <= MaxInt /\ a2 - a1 <= MaxInt
       /\ b1 - b0 <= MaxInt /\ b3 - b2 <= MaxInt /\ b2 - b1 <= MaxInt
       /\ a2 <= a3 /\ a1 <= a2 /\ b0 <= b3 /\ b0 < b3
       /\ a1 > a0 <=> a0 < a1
       /\ b1 > b0 <=> b0 < b1
  BY <1>6, GeometryAssumption
<1> DEFINE in(c, l, t, r, b) == /\ c = [x |-> c.x, y |-> c.y]
                                /\ c.x \in Int /\ l <= c.x /\ c.x < r
                                /\ c.y \in Int /\ t <= c.y /\ c.y < b
<1>11. /\ (a1 > a0) \in BOOLEAN /\ (a1 > a0 <=> a0 < a1 /\ b0 < b3) /\ a0 <= a1 /\ b0 <= b3
       /\ (a2 < a3) \in BOOLEAN /\ (a2 < a3 <=> a2 < a3 /\ b0 < b3) /\ a2 <= a3
       /\ (b1 > b0) \in BOOLEAN /\ (b1 > b0 <=> a1 < a2 /\ b0 < b1) /\ a1 <= a2 /\ b0 <= b1
       /\ (b2 < b3) \in BOOLEAN /\ (b2 < b3 <=> a1 < a2 /\ b2 < b3) /\ b2 <= b3
       /\ b3 - b0 <= MaxInt
  BY <1>6, <1>10
<1>12. p1 \in Seq(Rectangle) /\ Disjoint(p1) /\ \A c : c \in CellsOf(p1) <=> in(c, a0, b0, a1, b3)
  <2>1. /\ a0 \in Int32 /\ b0 \in Int32 /\ a1 \in Int32 /\ b3 \in Int32
        /\ a0 <= a1 /\ b0 <= b3 /\ a1 - a0 <= MaxInt /\ b3 - b0 <= MaxInt
        /\ (a1 > a0) \in BOOLEAN /\ (a1 > a0 <=> a0 < a1 /\ b0 < b3)
    BY <1>9, <1>10, <1>11
  <2> QED
    BY ONLY <2>1, StripIs
<1>13. p2 \in Seq(Rectangle) /\ Disjoint(p2) /\ \A c : c \in CellsOf(p2) <=> in(c, a2, b0, a3, b3)
  <2>1. /\ a2 \in Int32 /\ b0 \in Int32 /\ a3 \in Int32 /\ b3 \in Int32
        /\ a2 <= a3 /\ b0 <= b3 /\ a3 - a2 <= MaxInt /\ b3 - b0 <= MaxInt
        /\ (a2 < a3) \in BOOLEAN /\ (a2 < a3 <=> a2 < a3 /\ b0 < b3)
    BY <1>9, <1>10, <1>11
  <2> QED
    BY ONLY <2>1, StripIs
<1>14. p3 \in Seq(Rectangle) /\ Disjoint(p3) /\ \A c : c \in CellsOf(p3) <=> in(c, a1, b0, a2, b1)
  <2>1. /\ a1 \in Int32 /\ b0 \in Int32 /\ a2 \in Int32 /\ b1 \in Int32
        /\ a1 <= a2 /\ b0 <= b1 /\ a2 - a1 <= MaxInt /\ b1 - b0 <= MaxInt
        /\ (b1 > b0) \in BOOLEAN /\ (b1 > b0 <=> a1 < a2 /\ b0 < b1)
    BY <1>9, <1>10, <1>11
  <2> QED
    BY ONLY <2>1, StripIs
<1>15. p4 \in Seq(Rectangle) /\ Disjoint(p4) /\ \A c : c \in CellsOf(p4) <=> in(c, a1, b2, a2, b3)
  <2>1. /\ a1 \in Int32 /\ b2 \in Int32 /\ a2 \in Int32 /\ b3 \in Int32
        /\ a1 <= a2 /\ b2 <= b3 /\ a2 - a1 <= MaxInt /\ b3 - b2 <= MaxInt
        /\ (b2 < b3) \in BOOLEAN /\ (b2 < b3 <=> a1 < a2 /\ b2 < b3)
    BY <1>9, <1>10, <1>11
  <2> QED
    BY ONLY <2>1, StripIs
<1> HIDE DEF p1, p2, p3, p4
<1>16. ASSUME NEW c
       PROVE  /\ c \in CellsOf(p1) \cup CellsOf(p2) \cup CellsOf(p3) \cup CellsOf(p4)
                   <=> c \in Cells(n) /\ c \notin Cells(i)
              /\ ~(c \in CellsOf(p1) /\ c \in CellsOf(p2))
              /\ ~(c \in CellsOf(p1) \cup CellsOf(p2) /\ c \in CellsOf(p3))
              /\ ~(c \in CellsOf(p1) \cup CellsOf(p2) \cup CellsOf(p3) /\ c \in CellsOf(p4))
  <2>1. LET is == c = [x |-> c.x, y |-> c.y] /\ c.x \in Int /\ c.y \in Int
        IN  /\ c \in CellsOf(p1) <=> is /\ a0 <= c.x /\ c.x < a1 /\ b0 <= c.y /\ c.y < b3
            /\ c \in CellsOf(p2) <=> is /\ a2 <= c.x /\ c.x < a3 /\ b0 <= c.y /\ c.y < b3
            /\ c \in CellsOf(p3) <=> is /\ a1 <= c.x /\ c.x < a2 /\ b0 <= c.y /\ c.y < b1
            /\ c \in CellsOf(p4) <=> is /\ a1 <= c.x /\ c.x < a2 /\ b2 <= c.y /\ c.y < b3
    BY <1>12, <1>13, <1>14, <1>15
  <2>2. c \in CellsOf(p1) \cup CellsOf(p2) \cup CellsOf(p3) \cup CellsOf(p4)
          <=> c \in Cells(n) /\ c \notin Cells(i)
    BY <1>6, <1>8, <2>1
  <2>3. /\ ~(c \in CellsOf(p1) /\ c \in CellsOf(p2)) /\ ~(c \in CellsOf(p1) /\ c \in CellsOf(p3))
        /\ ~(c \in CellsOf(p1) /\ c \in CellsOf(p4)) /\ ~(c \in CellsOf(p2) /\ c \in CellsOf(p3))
        /\ ~(c \in CellsOf(p2) /\ c \in CellsOf(p4)) /\ ~(c \in CellsOf(p3) /\ c \in CellsOf(p4))
    BY <1>6, <2>1
  <2> QED
    BY <2>2, <2>3
<1> DEFINE two == p1 \o p2
<1>17. two \in Seq(Rectangle) /\ Disjoint(two) /\ CellsOf(two) = CellsOf(p1) \cup CellsOf(p2)
  <2>1. CellsOf(p1) \cap CellsOf(p2) = {}
    BY <1>16
  <2> QED
    BY <1>12, <1>13, <2>1, BothLists
<1> HIDE DEF two
<1> DEFINE three == two \o p3
<1>18. three \in Seq(Rectangle) /\ Disjoint(three) /\ CellsOf(three) = CellsOf(two) \cup CellsOf(p3)
  <2>1. CellsOf(two) \cap CellsOf(p3) = {}
    BY <1>16, <1>17
  <2> QED
    BY <1>14, <1>17, <2>1, BothLists
<1> HIDE DEF three
<1> DEFINE four == three \o p4
<1>19. Disjoint(four) /\ CellsOf(four) = CellsOf(three) \cup CellsOf(p4)
  <2>1. CellsOf(three) \cap CellsOf(p4) = {}
    BY <1>16, <1>17, <1>18
  <2> QED
    BY <1>15, <1>18, <2>1, BothLists
<1>20. CellsOf(four) = Cells(n) \ Cells(i)
  BY <1>16, <1>17, <1>18, <1>19
<1> QED
  BY <1>19, <1>20 DEF two, three, four

LEMMA SubtractCells ==
  ASSUME NEW a \in Rectangle, NEW b \in Rectangle
  PROVE  /\ CellsOf(SubtractRect(a, b)) = CellsWithin(a) \ CellsWithin(b)
         /\ Disjoint(SubtractRect(a, b))
<1> DEFINE n == NormalizeRect(a)
           i == IntersectRect(n, b)
<1>1. CASE IsEmpty(a)
  <2>1. SubtractRect(a, b) = <<>>
    BY <1>1 DEF SubtractRect
  <2>2. CellsWithin(a) = {}
    BY <1>1, CellsAre DEF CellsWithin
  <2> QED
    BY <2>1, <2>2, NoneAndOne
<1>2. CASE ~IsEmpty(a)
  <2>1. /\ n \in Rectangle /\ Cells(n) = CellsWithin(a)
        /\ Side(n.x, RightEdge(n)) /\ Side(n.y, BottomEdge(n))
    BY <1>2, NormalCells, SidesAre DEF CellsWithin
  <2>2. IsEmpty(b) \/ IsEmpty(i) => SubtractRect(a, b) = <<n>>
    BY <1>2 DEF SubtractRect
  <2>3. ~(IsEmpty(b) \/ IsEmpty(i)) =>
          SubtractRect(a, b) =
            LET right == RightEdge(n)
                bottom == BottomEdge(n)
            IN  Strip(i.x > n.x, n.x, n.y, i.x, bottom)
                \o Strip(RightEdge(i) < right, RightEdge(i), n.y, right, bottom)
                \o Strip(i.y > n.y, i.x, n.y, RightEdge(i), i.y)
                \o Strip(BottomEdge(i) < bottom, i.x, BottomEdge(i), RightEdge(i), bottom)
    BY <1>2 DEF SubtractRect
  <2> HIDE DEF n
  <2>4. i \in Rectangle /\ Cells(i) = Cells(n) \cap Cells(b) \cap Plane
    BY <2>1, IntersectCells
  <2> HIDE DEF i
  <2>5. Cells(i) = CellsWithin(a) \cap CellsWithin(b)
    BY <2>1, <2>4 DEF CellsWithin
  <2>6. CASE IsEmpty(b) \/ IsEmpty(i)
    <3>1. CellsWithin(a) \cap CellsWithin(b) = {}
      BY <2>4, <2>5, <2>6, CellsAre DEF CellsWithin
    <3> QED
      BY <2>1, <2>2, <2>6, <3>1, NoneAndOne
  <2>7. CASE ~(IsEmpty(b) \/ IsEmpty(i))
    <3>1. Cells(i) \subseteq Cells(n) /\ ~IsEmpty(n)
      BY <2>1, <2>4, <2>7, CellsAre
    <3>2. Fits(n)
      BY <2>1 DEF Side, Fits
    <3> DEFINE right == RightEdge(n)
               bottom == BottomEdge(n)
               pieces == Strip(i.x > n.x, n.x, n.y, i.x, bottom)
                         \o Strip(RightEdge(i) < right, RightEdge(i), n.y, right, bottom)
                         \o Strip(i.y > n.y, i.x, n.y, RightEdge(i), i.y)
                         \o Strip(BottomEdge(i) < bottom, i.x, BottomEdge(i), RightEdge(i), bottom)
    <3>3. SubtractRect(a, b) = pieces
      BY <2>3, <2>7
    <3>4. n \in Rectangle /\ i \in Rectangle /\ ~IsEmpty(i)
      BY <2>1, <2>4, <2>7
    <3>5. CellsOf(pieces) = Cells(n) \ Cells(i) /\ Disjoint(pieces)
      BY ONLY <3>1, <3>2, <3>4, AroundCells
    <3> HIDE DEF pieces
    <3> QED
      BY <2>1, <2>5, <3>3, <3>5
  <2> QED
    BY <2>6, <2>7
<1> QED
  BY <1>1, <1>2

-----------------------------------------------------------------------------
(* The operations are those of the sets of cells. *)

LEMMA SetOperationsOf ==
  ASSUME NEW a \in Rectangle, NEW b \in Rectangle
  PROVE  SetOperations(a, b)
<1>1. /\ Cells(IntersectRect(a, b)) = CellsWithin(a) \cap CellsWithin(b)
      /\ Intersects(a, b) <=> CellsWithin(a) \cap CellsWithin(b) # {}
  BY IntersectCells DEF CellsWithin
<1>2. CellsWithin(b) # {} => (ContainsRect(a, b) <=> CellsWithin(b) \subseteq CellsWithin(a))
  BY ContainsCells
<1>3. /\ CellsOf(SubtractRect(a, b)) = CellsWithin(a) \ CellsWithin(b)
      /\ Disjoint(SubtractRect(a, b))
  BY SubtractCells
<1>4. ~IsEmpty(a) /\ ~IsEmpty(b) /\ UnionFits(NormalizeRect(a), NormalizeRect(b))
        => BoundsBoth(UnionRect(a, b), NormalizeRect(a), NormalizeRect(b))
  BY UnionCells
<1> QED
  BY <1>1, <1>2, <1>3, <1>4 DEF SetOperations

LEMMA AddedRemain ==
  ASSUME added \in Seq(Rects), [RectNext]_rectVars
  PROVE  (added \in Seq(Rects))'
<1>1. ASSUME NEW r \in Rects, Add(r) PROVE (added \in Seq(Rects))'
  BY <1>1 DEF Add
<1>2. CASE Clear
  BY <1>2 DEF Clear
<1>3. CASE UNCHANGED rectVars
  BY <1>3 DEF rectVars
<1> QED
  BY <1>1, <1>2, <1>3 DEF RectNext

\* For all rectangles with 32-bit fields, also those that reach beyond the last edge:
\* IntersectRect, Intersects, ContainsRect, SubtractRect and, where the sides of the result
\* have a length, UnionRect say what holds of the cells the two cover.
THEOREM RectsCoverTheirCells == RectSpec => []RectsAreTheirCells
<1> DEFINE AddedAreRectangles == added \in Seq(Rects)
<1>1. RectInit => AddedAreRectangles
  BY DEF RectInit
<1>2. AddedAreRectangles /\ [RectNext]_rectVars => AddedAreRectangles'
  BY AddedRemain
<1>3. AddedAreRectangles => RectsAreTheirCells
  <2> SUFFICES ASSUME AddedAreRectangles, Len(added) = 2 PROVE SetOperations(added[1], added[2])
    BY DEF RectsAreTheirCells
  <2>1. added[1] \in Rects /\ added[2] \in Rects
    OBVIOUS
  <2>2. added[1] \in Rectangle /\ added[2] \in Rectangle
    BY <2>1, RectsAssumption
  <2> QED
    BY <2>2, SetOperationsOf
<1> QED
  BY <1>1, <1>2, <1>3, PTL DEF RectSpec

-----------------------------------------------------------------------------
(* One rectangle: what normalisation leaves. *)

\* A rectangle that covers cells and needs no clamping.
Proper(r) ==
    /\ r \in Rectangle /\ 0 < r.width /\ 0 < r.height
    /\ RightEdge(r) <= MaxInt /\ BottomEdge(r) <= MaxInt

LEMMA RemainderOnce ==
  ASSUME NEW v \in Int, NEW n \in Int, n <= v, v < 2 * n
  PROVE  v % n = v - n
OBVIOUS

\* A length that has no 32 bits becomes a negative one.
LEMMA TooLong ==
  ASSUME NEW v \in Int, MaxInt < v, v <= MaxInt - MinInt
  PROVE  Wrap(v) \in Int /\ Wrap(v) < 0
<1> DEFINE n == MaxInt - MinInt + 1
           u == v - MinInt
<1>1. n \in Int /\ u \in Int /\ n <= u /\ u < 2 * n /\ u - n + MinInt < 0 /\ u - n + MinInt \in Int
  BY GeometryAssumption
<1>2. Wrap(v) = (u % n) + MinInt
  BY DEF Wrap
<1> HIDE DEF n, u
<1>3. u % n = u - n
  BY ONLY <1>1, RemainderOnce
<1> QED
  BY ONLY <1>1, <1>2, <1>3

LEMMA RectIs ==
  ASSUME NEW x, NEW y, NEW w, NEW h
  PROVE  /\ Rect(x, y, w, h).x = x /\ Rect(x, y, w, h).y = y
         /\ Rect(x, y, w, h).width = w /\ Rect(x, y, w, h).height = h
         /\ RightEdge(Rect(x, y, w, h)) = x + w /\ BottomEdge(Rect(x, y, w, h)) = y + h
BY DEF Rect, RightEdge, BottomEdge

\* One direction of a rectangle that is clamped.
LEMMA ClampedSide ==
  ASSUME NEW x \in Int32, NEW w \in Int32
  PROVE  LET l == ClampToInt32(Lesser(x, x + w))
             r == ClampToInt32(Greater(x, x + w))
         IN  /\ l \in Int32 /\ r \in Int32 /\ Wrap(r - l) \in Int
             /\ Wrap(r - l) > 0 => Wrap(r - l) = r - l /\ r - l \in Int32
<1> DEFINE l == ClampToInt32(Lesser(x, x + w))
           r == ClampToInt32(Greater(x, x + w))
<1>1. x \in Int /\ w \in Int
  BY GeometryAssumption DEF Int32
<1>2. Lesser(x, x + w) \in Int /\ Greater(x, x + w) \in Int /\ Lesser(x, x + w) <= Greater(x, x + w)
  BY <1>1 DEF Lesser, Greater
<1>3. l \in Int32 /\ r \in Int32 /\ l <= r
  BY <1>2, GeometryAssumption DEF ClampToInt32, Int32
<1> HIDE DEF l, r
<1>4. r - l \in Int /\ 0 <= r - l /\ r - l <= MaxInt - MinInt /\ MinInt < 0 /\ MaxInt \in Int /\ MinInt \in Int
  BY <1>3, GeometryAssumption DEF Int32
<1>5. CASE r - l <= MaxInt
  <2>1. Wrap(r - l) = r - l
    BY <1>4, <1>5, WrapIs
  <2>2. r - l \in Int32
    BY <1>4, <1>5 DEF Int32
  <2> QED
    BY <1>3, <1>4, <2>1, <2>2 DEF l, r
<1>6. CASE ~(r - l <= MaxInt)
  <2>1. Wrap(r - l) \in Int /\ Wrap(r - l) < 0
    BY <1>4, <1>6, TooLong
  <2> QED
    BY <1>3, <2>1 DEF l, r
<1> QED
  BY <1>4, <1>5, <1>6

LEMMA NormalIsProper ==
  ASSUME NEW r \in Rectangle, ~IsEmpty(NormalizeRect(r))
  PROVE  Proper(NormalizeRect(r))
<1> DEFINE n == NormalizeRect(r)
           left == ClampToInt32(Lesser(r.x, r.x + r.width))
           right == ClampToInt32(Greater(r.x, r.x + r.width))
           top == ClampToInt32(Lesser(r.y, r.y + r.height))
           bottom == ClampToInt32(Greater(r.y, r.y + r.height))
           w == Wrap(right - left)
           h == Wrap(bottom - top)
<1>1. r.x \in Int32 /\ r.y \in Int32 /\ r.width \in Int32 /\ r.height \in Int32
  BY DEF Rectangle
<1>2. n = Rect(left, top, w, h)
  BY DEF NormalizeRect, ClampRect
<1>3. /\ left \in Int32 /\ right \in Int32 /\ w \in Int
      /\ w > 0 => w = right - left /\ right - left \in Int32
  BY <1>1, ClampedSide
<1>4. /\ top \in Int32 /\ bottom \in Int32 /\ h \in Int
      /\ h > 0 => h = bottom - top /\ bottom - top \in Int32
  BY <1>1, ClampedSide
<1> HIDE DEF n, left, right, top, bottom, w, h
<1>5. w > 0 /\ h > 0
  BY <1>2, <1>3, <1>4 DEF IsEmpty, Rect, n
<1>6. n \in Rectangle /\ n.width = w /\ n.height = h
  BY <1>2, <1>3, <1>4, <1>5 DEF Rect, Rectangle
<1>7. RightEdge(n) = left + w /\ BottomEdge(n) = top + h
  BY <1>2 DEF Rect, RightEdge, BottomEdge
<1>8. left + w = right /\ top + h = bottom /\ right <= MaxInt /\ bottom <= MaxInt
  BY <1>3, <1>4, <1>5, GeometryAssumption DEF Int32
<1> QED
  BY <1>5, <1>6, <1>7, <1>8 DEF Proper, n

LEMMA Exactly ==
  ASSUME NEW x \in Int, NEW y \in Int, NEW w \in Int, NEW h \in Int,
         MinInt <= x, 0 < w, x + w <= MaxInt, w <= MaxInt,
         MinInt <= y, 0 < h, y + h <= MaxInt, h <= MaxInt
  PROVE  /\ ClampRect(x, y, w, h) = Rect(x, y, w, h)
         /\ NormalizeRect(Rect(x, y, w, h)) = Rect(x, y, w, h)
         /\ ~IsEmpty(Rect(x, y, w, h)) /\ Proper(Rect(x, y, w, h))
<1>1. /\ Lesser(x, x + w) = x /\ Greater(x, x + w) = x + w
      /\ Lesser(y, y + h) = y /\ Greater(y, y + h) = y + h
  BY DEF Lesser, Greater
<1>2. /\ ClampToInt32(x) = x /\ ClampToInt32(x + w) = x + w
      /\ ClampToInt32(y) = y /\ ClampToInt32(y + h) = y + h
  BY GeometryAssumption DEF ClampToInt32
<1>3. x + w - x = w /\ y + h - y = h
  OBVIOUS
<1>4. Wrap(w) = w /\ Wrap(h) = h
  BY WrapIs, GeometryAssumption
<1>5. ClampRect(x, y, w, h) = Rect(x, y, w, h)
  BY <1>1, <1>2, <1>3, <1>4 DEF ClampRect
<1>6. NormalizeRect(Rect(x, y, w, h)) = Rect(x, y, w, h)
  BY <1>5, RectIs DEF NormalizeRect
<1>7. x \in Int32 /\ y \in Int32 /\ w \in Int32 /\ h \in Int32
  BY GeometryAssumption DEF Int32
<1>8. Rect(x, y, w, h) \in Rectangle
  BY <1>7 DEF Rect, Rectangle
<1> QED
  BY <1>5, <1>6, <1>8, RectIs DEF IsEmpty, Proper

LEMMA ProperIs ==
  ASSUME NEW n, Proper(n)
  PROVE  /\ n = Rect(n.x, n.y, n.width, n.height)
         /\ NormalizeRect(n) = n /\ ~IsEmpty(n) /\ n \in Rectangle
         /\ n.x \in Int /\ n.y \in Int /\ n.width \in Int /\ n.height \in Int
         /\ MinInt <= n.x /\ MinInt <= n.y
         /\ 0 < n.width /\ 0 < n.height /\ n.width <= MaxInt /\ n.height <= MaxInt
         /\ RightEdge(n) = n.x + n.width /\ BottomEdge(n) = n.y + n.height
         /\ n.x + n.width <= MaxInt /\ n.y + n.height <= MaxInt
<1>1. n \in Rectangle /\ 0 < n.width /\ 0 < n.height /\ RightEdge(n) <= MaxInt /\ BottomEdge(n) <= MaxInt
  BY DEF Proper
<1>2. /\ n.x \in Int /\ MinInt <= n.x /\ n.y \in Int /\ MinInt <= n.y
      /\ n.width \in Int /\ n.width <= MaxInt /\ n.height \in Int /\ n.height <= MaxInt
      /\ RightEdge(n) = n.x + n.width /\ BottomEdge(n) = n.y + n.height
  BY <1>1, FieldsAre
<1>3. n = Rect(n.x, n.y, n.width, n.height)
  BY <1>1 DEF Rectangle, Rect
<1>4. n.x + n.width <= MaxInt /\ n.y + n.height <= MaxInt
  BY <1>1, <1>2
<1>5. NormalizeRect(Rect(n.x, n.y, n.width, n.height)) = Rect(n.x, n.y, n.width, n.height)
  BY ONLY <1>1, <1>2, <1>4, Exactly
<1> QED
  BY <1>1, <1>2, <1>3, <1>4, <1>5 DEF IsEmpty

-----------------------------------------------------------------------------
(* One rectangle: its corners, and far from the limits. *)

LEMMA FourPoints ==
  ASSUME NEW a, NEW b, NEW c, NEW d
  PROVE  ToSet(<<a, b, c, d>>) = {a, b, c, d}
<1> DEFINE s == <<a, b, c, d>>
<1>1. DOMAIN s = 1 .. 4 /\ s[1] = a /\ s[2] = b /\ s[3] = c /\ s[4] = d
  OBVIOUS
<1>2. \A i : i \in 1 .. 4 <=> i = 1 \/ i = 2 \/ i = 3 \/ i = 4
  OBVIOUS
<1>3. ToSet(s) = {s[i] : i \in DOMAIN s}
  BY DEF ToSet
<1> HIDE DEF s
<1>4. ASSUME NEW e PROVE e \in ToSet(s) <=> e \in {a, b, c, d}
  BY <1>1, <1>2, <1>3
<1> QED
  BY <1>4 DEF s

LEMMA CornersAre ==
  ASSUME NEW r, NEW n, NormalizeRect(r) = n, Proper(n)
  PROVE  ToSet(RectCorners(r)) =
           {Point(n.x, n.y), Point(n.x + n.width, n.y),
            Point(n.x + n.width, n.y + n.height), Point(n.x, n.y + n.height)}
<1>1. /\ ~IsEmpty(n) /\ RightEdge(n) = n.x + n.width /\ BottomEdge(n) = n.y + n.height
      /\ n.x + n.width \in Int /\ MinInt <= n.x + n.width /\ n.x + n.width <= MaxInt
      /\ n.y + n.height \in Int /\ MinInt <= n.y + n.height /\ n.y + n.height <= MaxInt
  BY ProperIs, GeometryAssumption
<1>2. ClampToInt32(RightEdge(n)) = n.x + n.width /\ ClampToInt32(BottomEdge(n)) = n.y + n.height
  BY <1>1, ClampIs
<1>3. RectCorners(r) = <<Point(n.x, n.y), Point(n.x + n.width, n.y),
                         Point(n.x + n.width, n.y + n.height), Point(n.x, n.y + n.height)>>
  BY <1>1, <1>2 DEF RectCorners
<1> QED
  BY <1>3, FourPoints

\* A point whose coordinates are at most a quarter of the greatest number, a rectangle
\* whose edges are, and one whose edges are at most a half of it away from a point.
Near(p) == /\ p.x \in Int /\ -MaxInt <= 4 * p.x /\ 4 * p.x <= MaxInt
           /\ p.y \in Int /\ -MaxInt <= 4 * p.y /\ 4 * p.y <= MaxInt
Close(n) == /\ -MaxInt <= 4 * n.x /\ 4 * (n.x + n.width) <= MaxInt
            /\ -MaxInt <= 4 * n.y /\ 4 * (n.y + n.height) <= MaxInt
Around(n, p) ==
    /\ -MaxInt <= 2 * (n.x - p.x) /\ 2 * (n.x + n.width - p.x) <= MaxInt
    /\ -MaxInt <= 2 * (n.y - p.y) /\ 2 * (n.y + n.height - p.y) <= MaxInt

LEMMA MagnitudeBelow ==
  ASSUME NEW v \in Int, 4 * Magnitude(v) <= MaxInt
  PROVE  -MaxInt <= 4 * v /\ 4 * v <= MaxInt
BY GeometryAssumption DEF Magnitude

LEMMA FarIs ==
  ASSUME NEW n, Proper(n), NEW p \in Points, FarFromTheLimits(n, p)
  PROVE  Near(p) /\ Close(n) /\ Around(n, p)
<1>1. p.x \in Int /\ p.y \in Int
  <2>1. p \in [x : Int32, y : Int32]
    BY RectsAssumption
  <2> QED
    BY <2>1, GeometryAssumption DEF Int32
<1>2. /\ n.x \in Int /\ n.width \in Int /\ n.y \in Int /\ n.height \in Int
      /\ RightEdge(n) = n.x + n.width /\ BottomEdge(n) = n.y + n.height
  BY ProperIs
<1>3. RightEdge(n) \in Int /\ BottomEdge(n) \in Int
  BY <1>2
<1>4. \A v \in {n.x, RightEdge(n), n.y, BottomEdge(n), p.x, p.y} : 4 * Magnitude(v) <= MaxInt
  BY DEF FarFromTheLimits
<1>5. /\ -MaxInt <= 4 * n.x /\ 4 * n.x <= MaxInt /\ -MaxInt <= 4 * n.y /\ 4 * n.y <= MaxInt
      /\ -MaxInt <= 4 * p.x /\ 4 * p.x <= MaxInt /\ -MaxInt <= 4 * p.y /\ 4 * p.y <= MaxInt
  BY <1>1, <1>2, <1>4, MagnitudeBelow
<1>6. 4 * RightEdge(n) <= MaxInt /\ 4 * BottomEdge(n) <= MaxInt
  BY <1>3, <1>4, MagnitudeBelow
<1>7. 4 * (n.x + n.width) <= MaxInt /\ 4 * (n.y + n.height) <= MaxInt
  BY <1>2, <1>6
<1>8. MaxInt \in Int
  BY GeometryAssumption
<1>9. Around(n, p)
  BY ONLY <1>1, <1>2, <1>5, <1>7, <1>8 DEF Around
<1> QED
  BY <1>1, <1>5, <1>7, <1>9 DEF Near, Close

\* What most operations do to a rectangle that covers cells.
LEMMA OperationsAre ==
  ASSUME NEW r, NEW n, n = NormalizeRect(r), ~IsEmpty(n)
  PROVE  /\ \A p : Rotate90(r, p) =
              ClampRect(p.x - (BottomEdge(n) - p.y), p.y + (n.x - p.x), n.height, n.width)
         /\ \A a : MirrorHorizontal(r, a) =
              ClampRect(2 * a - RightEdge(n), n.y, n.width, n.height)
         /\ \A a : MirrorVertical(r, a) =
              ClampRect(n.x, 2 * a - BottomEdge(n), n.width, n.height)
         /\ Transpose(r) = Rect(n.x, n.y, n.height, n.width)
         /\ \A c : CenterAt(r, c) =
              ClampRect(c.x - n.width \div 2, c.y - n.height \div 2, n.width, n.height)
         /\ \A dx, dy : Offset(r, dx, dy) = ClampRect(n.x + dx, n.y + dy, n.width, n.height)
<1>1. \A p : Rotate90(r, p) =
        ClampRect(p.x - (BottomEdge(n) - p.y), p.y + (n.x - p.x), n.height, n.width)
  BY DEF Rotate90, UnlessEmpty
<1>2. \A a : MirrorHorizontal(r, a) = ClampRect(2 * a - RightEdge(n), n.y, n.width, n.height)
  BY DEF MirrorHorizontal, UnlessEmpty
<1>3. \A a : MirrorVertical(r, a) = ClampRect(n.x, 2 * a - BottomEdge(n), n.width, n.height)
  BY DEF MirrorVertical, UnlessEmpty
<1>4. Transpose(r) = Rect(n.x, n.y, n.height, n.width)
  BY DEF Transpose, UnlessEmpty
<1>5. \A c : CenterAt(r, c) =
        ClampRect(c.x - n.width \div 2, c.y - n.height \div 2, n.width, n.height)
  BY DEF CenterAt, UnlessEmpty
<1>6. \A dx, dy : Offset(r, dx, dy) = ClampRect(n.x + dx, n.y + dy, n.width, n.height)
  BY DEF Offset, UnlessEmpty
<1> QED
  BY <1>1, <1>2, <1>3, <1>4, <1>5, <1>6

LEMMA ResizesAre ==
  ASSUME NEW r, NEW n, n = NormalizeRect(r), ~IsEmpty(n)
  PROVE  /\ \A a, b, c, d : Inflate(r, a, b, c, d) =
              ClampRect(n.x - a, n.y - b, n.width + a + c, n.height + b + d)
         /\ \A a, b, c, d : Deflate(r, a, b, c, d) =
              ClampRect(n.x + a, n.y + b, n.width - a - c, n.height - b - d)
<1>1. \A a, b, c, d : Inflate(r, a, b, c, d) =
        ClampRect(n.x - a, n.y - b, n.width + a + c, n.height + b + d)
  BY DEF Inflate, UnlessEmpty
<1>2. \A a, b, c, d : Deflate(r, a, b, c, d) =
        ClampRect(n.x + a, n.y + b, n.width - a - c, n.height - b - d)
  BY DEF Deflate, UnlessEmpty
<1> QED
  BY <1>1, <1>2

-----------------------------------------------------------------------------
(* One rectangle: turned by a quarter. *)

LEMMA TurnedOnce ==
  ASSUME NEW r, NEW n, NormalizeRect(r) = n, Proper(n), NEW p, Near(p), Around(n, p)
  PROVE  LET k == Rotate90(r, p)
         IN  /\ NormalizeRect(k) = k /\ Proper(k) /\ Around(k, p)
             /\ k.x = p.x - (n.y + n.height - p.y) /\ k.y = p.y + (n.x - p.x)
             /\ k.width = n.height /\ k.height = n.width
<1> DEFINE b == BottomEdge(n)
           x == p.x - (b - p.y)
           y == p.y + (n.x - p.x)
           w == n.height
           h == n.width
<1>1. /\ ~IsEmpty(n) /\ b = n.y + n.height
      /\ n.x \in Int /\ n.y \in Int /\ n.width \in Int /\ n.height \in Int
      /\ 0 < n.width /\ 0 < n.height /\ n.width <= MaxInt /\ n.height <= MaxInt
  BY ProperIs
<1>2. /\ MinInt \in Int /\ MaxInt \in Int /\ MinInt < 0 /\ MaxInt = -MinInt - 1
  BY GeometryAssumption
<1>3. /\ p.x \in Int /\ -MaxInt <= 4 * p.x /\ 4 * p.x <= MaxInt
      /\ p.y \in Int /\ -MaxInt <= 4 * p.y /\ 4 * p.y <= MaxInt
  BY DEF Near
<1>4. /\ -MaxInt <= 2 * (n.x - p.x) /\ 2 * (n.x + n.width - p.x) <= MaxInt
      /\ -MaxInt <= 2 * (n.y - p.y) /\ 2 * (n.y + n.height - p.y) <= MaxInt
  BY DEF Around
<1>5. Rotate90(r, p) = ClampRect(x, y, w, h)
  BY <1>1, OperationsAre
<1> HIDE DEF b
<1>6. /\ x \in Int /\ y \in Int /\ w \in Int /\ h \in Int
      /\ MinInt <= x /\ 0 < w /\ x + w <= MaxInt /\ w <= MaxInt
      /\ MinInt <= y /\ 0 < h /\ y + h <= MaxInt /\ h <= MaxInt
  BY ONLY <1>1, <1>2, <1>3, <1>4
<1>7. /\ -MaxInt <= 2 * (x - p.x) /\ 2 * (x + w - p.x) <= MaxInt
      /\ -MaxInt <= 2 * (y - p.y) /\ 2 * (y + h - p.y) <= MaxInt
  BY ONLY <1>1, <1>2, <1>3, <1>4
<1>8. x = p.x - (n.y + n.height - p.y) /\ y = p.y + (n.x - p.x) /\ w = n.height /\ h = n.width
  BY ONLY <1>1, <1>3
<1> HIDE DEF x, y, w, h
<1>9. /\ Rotate90(r, p) = Rect(x, y, w, h) /\ Proper(Rect(x, y, w, h))
      /\ NormalizeRect(Rect(x, y, w, h)) = Rect(x, y, w, h)
  BY <1>5, <1>6, Exactly
<1>10. Around(Rect(x, y, w, h), p)
  BY <1>7, RectIs DEF Around
<1> QED
  BY <1>8, <1>9, <1>10, RectIs

\* A corner turns to where a turned rectangle has one.
LEMMA CornerTurned ==
  ASSUME NEW p, Near(p), NEW x \in Int, NEW y \in Int,
         -MaxInt <= 2 * (x - p.x), 2 * (x - p.x) <= MaxInt,
         -MaxInt <= 2 * (y - p.y), 2 * (y - p.y) <= MaxInt
  PROVE  PointRotate90(Point(x, y), p) = Point(p.x - (y - p.y), p.y + (x - p.x))
<1> DEFINE u == p.x - (y - p.y)
           v == p.y + (x - p.x)
<1>1. /\ MinInt \in Int /\ MaxInt \in Int /\ MinInt < 0 /\ MaxInt = -MinInt - 1
  BY GeometryAssumption
<1>2. /\ p.x \in Int /\ -MaxInt <= 4 * p.x /\ 4 * p.x <= MaxInt
      /\ p.y \in Int /\ -MaxInt <= 4 * p.y /\ 4 * p.y <= MaxInt
  BY DEF Near
<1>3. u \in Int /\ MinInt <= u /\ u <= MaxInt /\ v \in Int /\ MinInt <= v /\ v <= MaxInt
  BY <1>1, <1>2
<1>4. PointRotate90(Point(x, y), p) = Point(ClampToInt32(u), ClampToInt32(v))
  BY DEF PointRotate90, Point
<1> HIDE DEF u, v
<1>5. ClampToInt32(u) = u /\ ClampToInt32(v) = v
  BY <1>3, ClampIs
<1> QED
  BY <1>4, <1>5 DEF u, v

LEMMA RotatesBack ==
  ASSUME NEW r, NEW n, NormalizeRect(r) = n, Proper(n), NEW p, Near(p), Around(n, p)
  PROVE  RotatesWithItsCorners(r, n, p)
<1> DEFINE a == Rotate90(r, p)
           b == Rotate90(a, p)
           c == Rotate90(b, p)
           d == Rotate90(c, p)
<1>1. /\ NormalizeRect(a) = a /\ Proper(a) /\ Around(a, p)
      /\ a.x = p.x - (n.y + n.height - p.y) /\ a.y = p.y + (n.x - p.x)
      /\ a.width = n.height /\ a.height = n.width
  BY TurnedOnce
<1> HIDE DEF a
<1>2. /\ NormalizeRect(b) = b /\ Proper(b) /\ Around(b, p)
      /\ b.x = p.x - (a.y + a.height - p.y) /\ b.y = p.y + (a.x - p.x)
      /\ b.width = a.height /\ b.height = a.width
  BY <1>1, TurnedOnce
<1> HIDE DEF b
<1>3. /\ NormalizeRect(c) = c /\ Proper(c) /\ Around(c, p)
      /\ c.x = p.x - (b.y + b.height - p.y) /\ c.y = p.y + (b.x - p.x)
      /\ c.width = b.height /\ c.height = b.width
  BY <1>2, TurnedOnce
<1> HIDE DEF c
<1>4. /\ Proper(d)
      /\ d.x = p.x - (c.y + c.height - p.y) /\ d.y = p.y + (c.x - p.x)
      /\ d.width = c.height /\ d.height = c.width
  BY <1>3, TurnedOnce
<1> HIDE DEF d
<1>5. /\ n.x \in Int /\ n.y \in Int /\ n.width \in Int /\ n.height \in Int
      /\ n = Rect(n.x, n.y, n.width, n.height) /\ d = Rect(d.x, d.y, d.width, d.height)
      /\ 0 < n.width /\ 0 < n.height
  BY <1>4, ProperIs
<1>6. p.x \in Int /\ p.y \in Int
  BY DEF Near
<1>7. d.x = n.x /\ d.y = n.y /\ d.width = n.width /\ d.height = n.height
  BY ONLY <1>1, <1>2, <1>3, <1>4, <1>5, <1>6
<1>8. d = n
  BY <1>5, <1>7
<1> DEFINE right == n.x + n.width
           bottom == n.y + n.height
           corners == {Point(n.x, n.y), Point(right, n.y), Point(right, bottom), Point(n.x, bottom)}
<1>9. ToSet(RectCorners(r)) = corners
  BY CornersAre
<1>10. ToSet(RectCorners(a)) =
         {Point(a.x, a.y), Point(a.x + a.width, a.y),
          Point(a.x + a.width, a.y + a.height), Point(a.x, a.y + a.height)}
  BY <1>1, CornersAre
<1>11. /\ right \in Int /\ bottom \in Int
       /\ -MaxInt <= 2 * (n.x - p.x) /\ 2 * (n.x - p.x) <= MaxInt
       /\ -MaxInt <= 2 * (n.y - p.y) /\ 2 * (n.y - p.y) <= MaxInt
       /\ -MaxInt <= 2 * (right - p.x) /\ 2 * (right - p.x) <= MaxInt
       /\ -MaxInt <= 2 * (bottom - p.y) /\ 2 * (bottom - p.y) <= MaxInt
  <2>1. Around(n, p) /\ MaxInt \in Int
    BY GeometryAssumption
  <2> QED
    BY ONLY <1>5, <1>6, <2>1 DEF Around
<1>12. /\ a.x = p.x - (bottom - p.y) /\ a.x + a.width = p.x - (n.y - p.y)
       /\ a.y = p.y + (n.x - p.x) /\ a.y + a.height = p.y + (right - p.x)
  BY ONLY <1>1, <1>5, <1>6
<1> HIDE DEF right, bottom
<1>13. /\ PointRotate90(Point(n.x, n.y), p) = Point(a.x + a.width, a.y)
       /\ PointRotate90(Point(right, n.y), p) = Point(a.x + a.width, a.y + a.height)
       /\ PointRotate90(Point(right, bottom), p) = Point(a.x, a.y + a.height)
       /\ PointRotate90(Point(n.x, bottom), p) = Point(a.x, a.y)
  <2>1. /\ PointRotate90(Point(n.x, n.y), p) = Point(p.x - (n.y - p.y), p.y + (n.x - p.x))
        /\ PointRotate90(Point(right, n.y), p) = Point(p.x - (n.y - p.y), p.y + (right - p.x))
        /\ PointRotate90(Point(right, bottom), p) = Point(p.x - (bottom - p.y), p.y + (right - p.x))
        /\ PointRotate90(Point(n.x, bottom), p) = Point(p.x - (bottom - p.y), p.y + (n.x - p.x))
    BY <1>5, <1>11, CornerTurned
  <2> QED
    BY ONLY <1>12, <2>1
<1>14. {PointRotate90(e, p) : e \in corners} =
         {Point(a.x + a.width, a.y), Point(a.x + a.width, a.y + a.height),
          Point(a.x, a.y + a.height), Point(a.x, a.y)}
  BY ONLY <1>13
<1> HIDE DEF corners
<1>15. ToSet(RectCorners(a)) = {PointRotate90(e, p) : e \in ToSet(RectCorners(r))}
  BY ONLY <1>9, <1>10, <1>14
<1> QED
  BY <1>8, <1>15 DEF RotatesWithItsCorners, a, b, c, d

-----------------------------------------------------------------------------
(* One rectangle: mirrored. *)

\* What is mirrored at half of t stays within the limits, so that it can be done again.
LEMMA Mirrored ==
  ASSUME NEW n, Proper(n), NEW t \in Int,
         MinInt <= t - (n.x + n.width), t - n.x <= MaxInt
  PROVE  LET m == ClampRect(t - RightEdge(n), n.y, n.width, n.height)
         IN  /\ NormalizeRect(m) = m /\ Proper(m)
             /\ m.x = t - (n.x + n.width) /\ m.y = n.y /\ m.width = n.width /\ m.height = n.height
             /\ ClampRect(t - RightEdge(m), m.y, m.width, m.height) = n
<1> DEFINE x == t - (n.x + n.width)
           m == Rect(x, n.y, n.width, n.height)
<1>1. /\ n.x \in Int /\ n.y \in Int /\ n.width \in Int /\ n.height \in Int
      /\ MinInt <= n.x /\ MinInt <= n.y /\ n.x + n.width <= MaxInt /\ n.y + n.height <= MaxInt
      /\ 0 < n.width /\ 0 < n.height /\ n.width <= MaxInt /\ n.height <= MaxInt
      /\ RightEdge(n) = n.x + n.width
      /\ n = Rect(n.x, n.y, n.width, n.height)
  BY ProperIs
<1>2. x \in Int /\ MinInt <= x /\ x + n.width <= MaxInt
  <2>1. x \in Int /\ x + n.width = t - n.x
    BY ONLY <1>1, t \in Int
  <2> QED
    BY <2>1
<1>3. t - RightEdge(n) = x
  BY <1>1
<1>4. t - (x + n.width) = n.x
  BY ONLY <1>1, t \in Int
<1> HIDE DEF x
<1>5. /\ ClampRect(x, n.y, n.width, n.height) = m /\ NormalizeRect(m) = m /\ Proper(m)
  BY <1>1, <1>2, Exactly
<1>6. /\ m.x = x /\ m.y = n.y /\ m.width = n.width /\ m.height = n.height
      /\ RightEdge(m) = x + n.width
  BY RectIs
<1> HIDE DEF m
<1>7. ClampRect(n.x, n.y, n.width, n.height) = Rect(n.x, n.y, n.width, n.height)
  BY <1>1, Exactly
<1>8. ClampRect(t - RightEdge(m), m.y, m.width, m.height) = n
  BY <1>1, <1>4, <1>6, <1>7
<1> QED
  BY <1>3, <1>5, <1>6, <1>8 DEF x

LEMMA MirroredDown ==
  ASSUME NEW n, Proper(n), NEW t \in Int,
         MinInt <= t - (n.y + n.height), t - n.y <= MaxInt
  PROVE  LET m == ClampRect(n.x, t - BottomEdge(n), n.width, n.height)
         IN  /\ NormalizeRect(m) = m /\ Proper(m)
             /\ m.x = n.x /\ m.y = t - (n.y + n.height) /\ m.width = n.width /\ m.height = n.height
             /\ ClampRect(m.x, t - BottomEdge(m), m.width, m.height) = n
<1> DEFINE y == t - (n.y + n.height)
           m == Rect(n.x, y, n.width, n.height)
<1>1. /\ n.x \in Int /\ n.y \in Int /\ n.width \in Int /\ n.height \in Int
      /\ MinInt <= n.x /\ MinInt <= n.y /\ n.x + n.width <= MaxInt /\ n.y + n.height <= MaxInt
      /\ 0 < n.width /\ 0 < n.height /\ n.width <= MaxInt /\ n.height <= MaxInt
      /\ BottomEdge(n) = n.y + n.height
      /\ n = Rect(n.x, n.y, n.width, n.height)
  BY ProperIs
<1>2. y \in Int /\ MinInt <= y /\ y + n.height <= MaxInt
  <2>1. y \in Int /\ y + n.height = t - n.y
    BY ONLY <1>1, t \in Int
  <2> QED
    BY <2>1
<1>3. t - BottomEdge(n) = y
  BY <1>1
<1>4. t - (y + n.height) = n.y
  BY ONLY <1>1, t \in Int
<1> HIDE DEF y
<1>5. /\ ClampRect(n.x, y, n.width, n.height) = m /\ NormalizeRect(m) = m /\ Proper(m)
  BY <1>1, <1>2, Exactly
<1>6. /\ m.x = n.x /\ m.y = y /\ m.width = n.width /\ m.height = n.height
      /\ BottomEdge(m) = y + n.height
  BY RectIs
<1> HIDE DEF m
<1>7. ClampRect(n.x, n.y, n.width, n.height) = Rect(n.x, n.y, n.width, n.height)
  BY <1>1, Exactly
<1>8. ClampRect(m.x, t - BottomEdge(m), m.width, m.height) = n
  BY <1>1, <1>4, <1>6, <1>7
<1> QED
  BY <1>3, <1>5, <1>6, <1>8 DEF y

LEMMA MirroredExactly ==
  ASSUME NEW t \in Int, NEW v \in Int, MinInt <= t - v, t - v <= MaxInt
  PROVE  ClampToInt32(t - v) = t - v
BY ClampIs

LEMMA MirroredRTL ==
  ASSUME NEW r, NEW n, NormalizeRect(r) = n, Proper(n), NEW p, Near(p), Close(n)
  PROVE  NormalizeForRTL(NormalizeForRTL(r, p.x), p.x) = n
<1> DEFINE a == p.x
           k == NormalizeForRTL(r, a)
           m == ClampRect(a - RightEdge(n), n.y, n.width, n.height)
<1>1. NormalizeRect(n) = n /\ ~IsEmpty(n)
  BY ProperIs
<1>2. k = IF a <= 0 THEN n ELSE m
  BY <1>1 DEF NormalizeForRTL
<1>3. CASE a <= 0
  <2>1. NormalizeForRTL(n, a) = n
    BY <1>1, <1>3 DEF NormalizeForRTL
  <2> QED
    BY <1>2, <1>3, <2>1
<1>4. CASE ~(a <= 0)
  <2>1. a \in Int /\ 0 < a /\ 4 * a <= MaxInt /\ MinInt < 0 /\ MaxInt = -MinInt - 1 /\ MinInt \in Int
    BY <1>4, GeometryAssumption DEF Near
  <2>2. /\ -MaxInt <= 4 * n.x /\ 4 * (n.x + n.width) <= MaxInt
        /\ n.x \in Int /\ n.width \in Int /\ 0 < n.width
    BY ProperIs DEF Close
  <2> HIDE DEF a
  <2>3. MinInt <= a - (n.x + n.width) /\ a - n.x <= MaxInt
    BY ONLY <2>1, <2>2
  <2>4. /\ NormalizeRect(m) = m /\ Proper(m)
        /\ ClampRect(a - RightEdge(m), m.y, m.width, m.height) = n
    BY <2>1, <2>3, Mirrored
  <2> HIDE DEF m
  <2>5. ~IsEmpty(m)
    BY <2>4, ProperIs
  <2>6. NormalizeForRTL(m, a) = ClampRect(a - RightEdge(m), m.y, m.width, m.height)
    BY <1>4, <2>4, <2>5 DEF NormalizeForRTL
  <2>7. k = m
    BY <1>2, <1>4
  <2> QED
    BY <2>4, <2>6, <2>7 DEF a
<1> QED
  BY <1>3, <1>4

LEMMA MirrorsBack ==
  ASSUME NEW r, NEW n, NormalizeRect(r) = n, Proper(n), NEW p, Near(p), Close(n)
  PROVE  MirrorsWithItsCorners(r, n, p)
<1> DEFINE h == MirrorHorizontal(r, p.x)
           v == MirrorVertical(r, p.y)
           tx == 2 * p.x
           ty == 2 * p.y
           right == n.x + n.width
           bottom == n.y + n.height
<1>1. /\ ~IsEmpty(n) /\ n.x \in Int /\ n.y \in Int /\ n.width \in Int /\ n.height \in Int
      /\ 0 < n.width /\ 0 < n.height
  BY ProperIs
<1>2. /\ p.x \in Int /\ -MaxInt <= 4 * p.x /\ 4 * p.x <= MaxInt
      /\ p.y \in Int /\ -MaxInt <= 4 * p.y /\ 4 * p.y <= MaxInt
      /\ MinInt < 0 /\ MaxInt = -MinInt - 1 /\ MinInt \in Int
  BY GeometryAssumption DEF Near
<1>3. /\ -MaxInt <= 4 * n.x /\ 4 * (n.x + n.width) <= MaxInt
      /\ -MaxInt <= 4 * n.y /\ 4 * (n.y + n.height) <= MaxInt
  BY DEF Close
<1>4. /\ h = ClampRect(tx - RightEdge(n), n.y, n.width, n.height)
      /\ v = ClampRect(n.x, ty - BottomEdge(n), n.width, n.height)
  BY <1>1, OperationsAre
<1>5. /\ tx \in Int /\ MinInt <= tx - right /\ tx - right <= MaxInt
      /\ MinInt <= tx - n.x /\ tx - n.x <= MaxInt
      /\ ty \in Int /\ MinInt <= ty - bottom /\ ty - bottom <= MaxInt
      /\ MinInt <= ty - n.y /\ ty - n.y <= MaxInt
      /\ right \in Int /\ bottom \in Int
  BY ONLY <1>1, <1>2, <1>3
<1>6. /\ NormalizeRect(h) = h /\ Proper(h)
      /\ h.x = tx - right /\ h.y = n.y /\ h.width = n.width /\ h.height = n.height
      /\ ClampRect(tx - RightEdge(h), h.y, h.width, h.height) = n
  BY <1>4, <1>5, Mirrored
<1>7. /\ NormalizeRect(v) = v /\ Proper(v)
      /\ v.x = n.x /\ v.y = ty - bottom /\ v.width = n.width /\ v.height = n.height
      /\ ClampRect(v.x, ty - BottomEdge(v), v.width, v.height) = n
  BY <1>4, <1>5, MirroredDown
<1> HIDE DEF h, v
<1>8. ~IsEmpty(h) /\ ~IsEmpty(v)
  BY <1>6, <1>7, ProperIs
<1>9. MirrorHorizontal(h, p.x) = n /\ MirrorVertical(v, p.y) = n
  BY <1>6, <1>7, <1>8, OperationsAre
<1> DEFINE corners == {Point(n.x, n.y), Point(right, n.y), Point(right, bottom), Point(n.x, bottom)}
<1>10. ToSet(RectCorners(r)) = corners
  BY CornersAre
<1>11. ToSet(RectCorners(h)) =
         {Point(h.x, h.y), Point(h.x + h.width, h.y),
          Point(h.x + h.width, h.y + h.height), Point(h.x, h.y + h.height)}
  BY <1>6, CornersAre
<1>12. ToSet(RectCorners(v)) =
         {Point(v.x, v.y), Point(v.x + v.width, v.y),
          Point(v.x + v.width, v.y + v.height), Point(v.x, v.y + v.height)}
  BY <1>7, CornersAre
<1>13. /\ h.x = tx - right /\ h.x + h.width = tx - n.x /\ h.y = n.y /\ h.y + h.height = bottom
       /\ v.y = ty - bottom /\ v.y + v.height = ty - n.y /\ v.x = n.x /\ v.x + v.width = right
  <2>1. tx - right + n.width = tx - n.x /\ ty - bottom + n.height = ty - n.y
    BY ONLY <1>1, <1>5
  <2> QED
    BY <1>6, <1>7, <2>1
<1> HIDE DEF right, bottom
<1>14. /\ ClampToInt32(tx - n.x) = tx - n.x /\ ClampToInt32(tx - right) = tx - right
       /\ ClampToInt32(ty - n.y) = ty - n.y /\ ClampToInt32(ty - bottom) = ty - bottom
  BY <1>1, <1>5, MirroredExactly
<1>15. \A x, y : /\ PointMirrorHorizontal(Point(x, y), p.x) = Point(ClampToInt32(tx - x), y)
                 /\ PointMirrorVertical(Point(x, y), p.y) = Point(x, ClampToInt32(ty - y))
  BY DEF PointMirrorHorizontal, PointMirrorVertical, Point
<1> HIDE DEF tx, ty
<1>16. {PointMirrorHorizontal(e, p.x) : e \in corners} =
         {Point(h.x + h.width, h.y), Point(h.x, h.y),
          Point(h.x, h.y + h.height), Point(h.x + h.width, h.y + h.height)}
  <2>1. /\ PointMirrorHorizontal(Point(n.x, n.y), p.x) = Point(h.x + h.width, h.y)
        /\ PointMirrorHorizontal(Point(right, n.y), p.x) = Point(h.x, h.y)
        /\ PointMirrorHorizontal(Point(right, bottom), p.x) = Point(h.x, h.y + h.height)
        /\ PointMirrorHorizontal(Point(n.x, bottom), p.x) = Point(h.x + h.width, h.y + h.height)
    BY ONLY <1>13, <1>14, <1>15
  <2> QED
    BY ONLY <2>1
<1>17. {PointMirrorVertical(e, p.y) : e \in corners} =
         {Point(v.x, v.y + v.height), Point(v.x + v.width, v.y + v.height),
          Point(v.x + v.width, v.y), Point(v.x, v.y)}
  <2>1. /\ PointMirrorVertical(Point(n.x, n.y), p.y) = Point(v.x, v.y + v.height)
        /\ PointMirrorVertical(Point(right, n.y), p.y) = Point(v.x + v.width, v.y + v.height)
        /\ PointMirrorVertical(Point(right, bottom), p.y) = Point(v.x + v.width, v.y)
        /\ PointMirrorVertical(Point(n.x, bottom), p.y) = Point(v.x, v.y)
    BY ONLY <1>13, <1>14, <1>15
  <2> QED
    BY ONLY <2>1
<1> HIDE DEF corners
<1>18. /\ ToSet(RectCorners(h)) = {PointMirrorHorizontal(e, p.x) : e \in ToSet(RectCorners(r))}
       /\ ToSet(RectCorners(v)) = {PointMirrorVertical(e, p.y) : e \in ToSet(RectCorners(r))}
  <2>1. /\ ToSet(RectCorners(h)) = {PointMirrorHorizontal(e, p.x) : e \in corners}
        /\ ToSet(RectCorners(v)) = {PointMirrorVertical(e, p.y) : e \in corners}
    BY ONLY <1>11, <1>12, <1>16, <1>17
  <2> QED
    BY ONLY <2>1, <1>10
<1>19. NormalizeForRTL(NormalizeForRTL(r, p.x), p.x) = n
  BY MirroredRTL
<1> QED
  BY <1>9, <1>18, <1>19 DEF MirrorsWithItsCorners, h, v

-----------------------------------------------------------------------------
(* One rectangle: moved, scaled and centered. *)

LEMMA ScaleIs ==
  ASSUME NEW r, NEW n, n = NormalizeRect(r), ~IsEmpty(n), NEW a, NEW b
  PROVE  Scale(r, <<a, b>>, <<a, b>>) =
           ClampRect((n.x * a) \div b, (n.y * a) \div b, (n.width * a) \div b, (n.height * a) \div b)
BY DEF Scale, UnlessEmpty

LEMMA TransposesBack ==
  ASSUME NEW r, NEW n, NormalizeRect(r) = n, Proper(n), Close(n)
  PROVE  Transpose(Transpose(r)) = n
<1> DEFINE k == Rect(n.x, n.y, n.height, n.width)
<1>1. /\ n.x \in Int /\ n.y \in Int /\ n.width \in Int /\ n.height \in Int
      /\ MinInt <= n.x /\ MinInt <= n.y
      /\ 0 < n.width /\ 0 < n.height /\ n.width <= MaxInt /\ n.height <= MaxInt
      /\ n = Rect(n.x, n.y, n.width, n.height) /\ ~IsEmpty(n)
  BY ProperIs
<1>2. n.x + n.height <= MaxInt /\ n.y + n.width <= MaxInt
  <2>1. Close(n) /\ MaxInt \in Int
    BY GeometryAssumption
  <2> QED
    BY ONLY <1>1, <2>1 DEF Close
<1>3. Transpose(r) = k
  BY <1>1, OperationsAre
<1>4. NormalizeRect(k) = k /\ ~IsEmpty(k)
  BY <1>1, <1>2, Exactly
<1>5. k.x = n.x /\ k.y = n.y /\ k.width = n.height /\ k.height = n.width
  BY RectIs
<1> HIDE DEF k
<1>6. Transpose(k) = Rect(k.x, k.y, k.height, k.width)
  BY <1>4, OperationsAre
<1> QED
  BY <1>1, <1>3, <1>5, <1>6

LEMMA ScalesBack ==
  ASSUME NEW r, NEW n, NormalizeRect(r) = n, Proper(n), Close(n)
  PROVE  Scale(Scale(r, <<2, 1>>, <<2, 1>>), <<1, 2>>, <<1, 2>>) = n
<1> DEFINE k == Rect(2 * n.x, 2 * n.y, 2 * n.width, 2 * n.height)
<1>1. /\ n.x \in Int /\ n.y \in Int /\ n.width \in Int /\ n.height \in Int
      /\ MinInt <= n.x /\ MinInt <= n.y /\ n.x + n.width <= MaxInt /\ n.y + n.height <= MaxInt
      /\ 0 < n.width /\ 0 < n.height /\ n.width <= MaxInt /\ n.height <= MaxInt
      /\ n = Rect(n.x, n.y, n.width, n.height) /\ ~IsEmpty(n)
  BY ProperIs
<1>2. /\ MinInt <= 2 * n.x /\ 2 * n.x + 2 * n.width <= MaxInt /\ 2 * n.width <= MaxInt
      /\ MinInt <= 2 * n.y /\ 2 * n.y + 2 * n.height <= MaxInt /\ 2 * n.height <= MaxInt
  <2>1. Close(n) /\ MaxInt \in Int /\ MinInt < 0 /\ MaxInt = -MinInt - 1 /\ MinInt \in Int
    BY GeometryAssumption
  <2> QED
    BY ONLY <1>1, <2>1 DEF Close
<1>3. Scale(r, <<2, 1>>, <<2, 1>>) = ClampRect(2 * n.x, 2 * n.y, 2 * n.width, 2 * n.height)
  <2>1. Scale(r, <<2, 1>>, <<2, 1>>) =
          ClampRect((n.x * 2) \div 1, (n.y * 2) \div 1, (n.width * 2) \div 1, (n.height * 2) \div 1)
    BY <1>1, ScaleIs
  <2>2. \A i \in Int : (i * 2) \div 1 = 2 * i
    OBVIOUS
  <2> QED
    BY <1>1, <2>1, <2>2
<1>4. /\ ClampRect(2 * n.x, 2 * n.y, 2 * n.width, 2 * n.height) = k
      /\ NormalizeRect(k) = k /\ ~IsEmpty(k)
  <2> DEFINE x == 2 * n.x
             y == 2 * n.y
             w == 2 * n.width
             h == 2 * n.height
  <2>1. /\ x \in Int /\ y \in Int /\ w \in Int /\ h \in Int
        /\ MinInt <= x /\ 0 < w /\ x + w <= MaxInt /\ w <= MaxInt
        /\ MinInt <= y /\ 0 < h /\ y + h <= MaxInt /\ h <= MaxInt
    BY ONLY <1>1, <1>2
  <2> HIDE DEF x, y, w, h
  <2>2. /\ ClampRect(x, y, w, h) = Rect(x, y, w, h)
        /\ NormalizeRect(Rect(x, y, w, h)) = Rect(x, y, w, h) /\ ~IsEmpty(Rect(x, y, w, h))
    BY ONLY <2>1, Exactly
  <2> QED
    BY <2>2 DEF x, y, w, h
<1>5. /\ k.x = 2 * n.x /\ k.y = 2 * n.y /\ k.width = 2 * n.width /\ k.height = 2 * n.height
  BY RectIs
<1> HIDE DEF k
<1>6. Scale(k, <<1, 2>>, <<1, 2>>) = ClampRect(n.x, n.y, n.width, n.height)
  <2>1. Scale(k, <<1, 2>>, <<1, 2>>) =
          ClampRect((k.x * 1) \div 2, (k.y * 1) \div 2, (k.width * 1) \div 2, (k.height * 1) \div 2)
    BY <1>4, ScaleIs
  <2>2. \A i \in Int : ((2 * i) * 1) \div 2 = i
    OBVIOUS
  <2> QED
    BY <1>1, <1>5, <2>1, <2>2
<1>7. ClampRect(n.x, n.y, n.width, n.height) = n
  BY <1>1, Exactly
<1> QED
  BY <1>3, <1>4, <1>6, <1>7

LEMMA CentersBack ==
  ASSUME NEW r, NEW n, NormalizeRect(r) = n, Proper(n)
  PROVE  CenterAt(r, Point(CenterX(n), CenterY(n))) = n
<1> DEFINE c == Point(CenterX(n), CenterY(n))
<1>1. /\ n.x \in Int /\ n.y \in Int /\ n.width \in Int /\ n.height \in Int
      /\ MinInt <= n.x /\ MinInt <= n.y /\ n.x + n.width <= MaxInt /\ n.y + n.height <= MaxInt
      /\ 0 < n.width /\ 0 < n.height /\ n.width <= MaxInt /\ n.height <= MaxInt
      /\ n = Rect(n.x, n.y, n.width, n.height) /\ ~IsEmpty(n)
  BY ProperIs
<1>2. c.x = n.x + n.width \div 2 /\ c.y = n.y + n.height \div 2
  BY <1>1 DEF CenterX, CenterY, Magnitude, Point
<1> HIDE DEF c
<1>3. c.x - n.width \div 2 = n.x /\ c.y - n.height \div 2 = n.y
  BY ONLY <1>1, <1>2
<1>4. CenterAt(r, c) = ClampRect(c.x - n.width \div 2, c.y - n.height \div 2, n.width, n.height)
  BY <1>1, OperationsAre
<1>5. ClampRect(n.x, n.y, n.width, n.height) = n
  BY <1>1, Exactly
<1> QED
  BY <1>3, <1>4, <1>5 DEF c

LEMMA Moved ==
  ASSUME NEW r, NEW n, NormalizeRect(r) = n, Proper(n), NEW dx \in Int, NEW dy \in Int,
         MinInt <= n.x + dx, n.x + n.width + dx <= MaxInt,
         MinInt <= n.y + dy, n.y + n.height + dy <= MaxInt
  PROVE  LET k == Offset(r, dx, dy)
         IN  /\ NormalizeRect(k) = k /\ Proper(k)
             /\ k.x = n.x + dx /\ k.y = n.y + dy /\ k.width = n.width /\ k.height = n.height
<1> DEFINE x == n.x + dx
           y == n.y + dy
<1>1. /\ n.x \in Int /\ n.y \in Int /\ n.width \in Int /\ n.height \in Int
      /\ 0 < n.width /\ 0 < n.height /\ n.width <= MaxInt /\ n.height <= MaxInt
      /\ ~IsEmpty(n)
  BY ProperIs
<1>2. x \in Int /\ x + n.width <= MaxInt /\ y \in Int /\ y + n.height <= MaxInt
  BY <1>1
<1>3. Offset(r, dx, dy) = ClampRect(x, y, n.width, n.height)
  BY <1>1, OperationsAre
<1>4. MinInt <= x /\ MinInt <= y
  OBVIOUS
<1> HIDE DEF x, y
<1>5. /\ Offset(r, dx, dy) = Rect(x, y, n.width, n.height) /\ Proper(Rect(x, y, n.width, n.height))
      /\ NormalizeRect(Rect(x, y, n.width, n.height)) = Rect(x, y, n.width, n.height)
  BY <1>1, <1>2, <1>3, <1>4, Exactly
<1> QED
  BY <1>5, RectIs DEF x, y

LEMMA MovesItBack ==
  ASSUME NEW r, NEW n, NormalizeRect(r) = n, Proper(n), NEW p, Near(p), Close(n)
  PROVE  MovesBack(r, n, p)
<1> DEFINE right == n.x + n.width
           bottom == n.y + n.height
           from == MapFromParent(r, p)
           to == MapToParent(r, p)
<1>1. /\ ~IsEmpty(n) /\ n.x \in Int /\ n.y \in Int /\ n.width \in Int /\ n.height \in Int
      /\ 0 < n.width /\ 0 < n.height /\ n = Rect(n.x, n.y, n.width, n.height)
      /\ MinInt <= n.x /\ right <= MaxInt /\ MinInt <= n.y /\ bottom <= MaxInt
  BY ProperIs
<1>2. /\ p.x \in Int /\ -MaxInt <= 4 * p.x /\ 4 * p.x <= MaxInt
      /\ p.y \in Int /\ -MaxInt <= 4 * p.y /\ 4 * p.y <= MaxInt
      /\ MinInt < 0 /\ MaxInt = -MinInt - 1 /\ MinInt \in Int
  BY GeometryAssumption DEF Near
<1>3. /\ -MaxInt <= 4 * n.x /\ 4 * (n.x + n.width) <= MaxInt
      /\ -MaxInt <= 4 * n.y /\ 4 * (n.y + n.height) <= MaxInt
  BY DEF Close
<1>4. /\ MinInt <= n.x - p.x /\ right - p.x <= MaxInt /\ MinInt <= n.y - p.y /\ bottom - p.y <= MaxInt
      /\ MinInt <= n.x + p.x /\ n.x + p.x <= MaxInt /\ MinInt <= right + p.x /\ right + p.x <= MaxInt
      /\ MinInt <= n.y + p.y /\ n.y + p.y <= MaxInt /\ MinInt <= bottom + p.y /\ bottom + p.y <= MaxInt
      /\ right \in Int /\ bottom \in Int
  BY ONLY <1>1, <1>2, <1>3
<1>5. MapToParent(from, p) = n
  <2> DEFINE dx == -p.x
             dy == -p.y
             back == Offset(from, p.x, p.y)
  <2>1. /\ dx \in Int /\ dy \in Int /\ MinInt <= n.x + dx /\ right + dx <= MaxInt
        /\ MinInt <= n.y + dy /\ bottom + dy <= MaxInt
    BY <1>1, <1>2, <1>4
  <2>2. from = Offset(r, dx, dy)
    BY DEF MapFromParent
  <2> HIDE DEF dx, dy, from
  <2>3. /\ NormalizeRect(from) = from /\ Proper(from)
        /\ from.x = n.x + dx /\ from.y = n.y + dy /\ from.width = n.width /\ from.height = n.height
    BY <2>1, <2>2, Moved
  <2>4. from.x + p.x = n.x /\ from.y + p.y = n.y
    BY <1>1, <1>2, <2>3 DEF dx, dy
  <2>5. /\ MinInt <= from.x + p.x /\ from.x + from.width + p.x <= MaxInt
        /\ MinInt <= from.y + p.y /\ from.y + from.height + p.y <= MaxInt
    <3>1. from.x + from.width + p.x = right /\ from.y + from.height + p.y = bottom
      BY <1>1, <1>2, <2>3 DEF dx, dy
    <3> QED
      BY <1>1, <2>4, <3>1
  <2>6. /\ Proper(back)
        /\ back.x = from.x + p.x /\ back.y = from.y + p.y
        /\ back.width = from.width /\ back.height = from.height
    BY <1>2, <2>3, <2>5, Moved
  <2> HIDE DEF back
  <2>7. back = Rect(back.x, back.y, back.width, back.height)
    BY <2>6, ProperIs
  <2>8. back = n
    BY <1>1, <2>3, <2>4, <2>6, <2>7
  <2> QED
    BY <2>8 DEF MapToParent, back
<1>6. /\ NormalizeRect(to) = to /\ Proper(to)
      /\ to.x = n.x + p.x /\ to.y = n.y + p.y /\ to.width = n.width /\ to.height = n.height
  <2>1. to = Offset(r, p.x, p.y)
    BY DEF MapToParent
  <2> QED
    BY <1>2, <1>4, <2>1, Moved
<1> HIDE DEF from, to
<1> DEFINE corners == {Point(n.x, n.y), Point(right, n.y), Point(right, bottom), Point(n.x, bottom)}
<1>7. ToSet(RectCorners(r)) = corners
  BY CornersAre
<1>8. ToSet(RectCorners(to)) =
        {Point(to.x, to.y), Point(to.x + to.width, to.y),
         Point(to.x + to.width, to.y + to.height), Point(to.x, to.y + to.height)}
  BY <1>6, CornersAre
<1>9. /\ to.x = n.x + p.x /\ to.x + to.width = right + p.x
      /\ to.y = n.y + p.y /\ to.y + to.height = bottom + p.y
  BY <1>1, <1>2, <1>6
<1> HIDE DEF right, bottom
<1>10. /\ ClampToInt32(n.x + p.x) = n.x + p.x /\ ClampToInt32(right + p.x) = right + p.x
       /\ ClampToInt32(n.y + p.y) = n.y + p.y /\ ClampToInt32(bottom + p.y) = bottom + p.y
  BY <1>1, <1>2, <1>4, ClampIs
<1>11. \A x, y : PointTranslate(Point(x, y), p.x, p.y)
                   = Point(ClampToInt32(x + p.x), ClampToInt32(y + p.y))
  BY DEF PointTranslate, Point
<1>12. {PointTranslate(e, p.x, p.y) : e \in corners} =
         {Point(to.x, to.y), Point(to.x + to.width, to.y),
          Point(to.x + to.width, to.y + to.height), Point(to.x, to.y + to.height)}
  <2>1. /\ PointTranslate(Point(n.x, n.y), p.x, p.y) = Point(to.x, to.y)
        /\ PointTranslate(Point(right, n.y), p.x, p.y) = Point(to.x + to.width, to.y)
        /\ PointTranslate(Point(right, bottom), p.x, p.y) = Point(to.x + to.width, to.y + to.height)
        /\ PointTranslate(Point(n.x, bottom), p.x, p.y) = Point(to.x, to.y + to.height)
    BY ONLY <1>9, <1>10, <1>11
  <2> QED
    BY ONLY <2>1
<1> HIDE DEF corners
<1>13. ToSet(RectCorners(to)) = {PointTranslate(e, p.x, p.y) : e \in ToSet(RectCorners(r))}
  BY ONLY <1>7, <1>8, <1>12
<1> QED
  BY <1>5, <1>13, TransposesBack, ScalesBack, CentersBack DEF MovesBack, from, to

-----------------------------------------------------------------------------
(* One rectangle: made wider and narrower. *)

\* A wider rectangle contains the one it was, and is the same again when it is narrowed.
LEMMA Widened ==
  ASSUME NEW r, NEW n, NormalizeRect(r) = n, Proper(n),
         NEW a \in Nat, NEW b \in Nat, NEW c \in Nat, NEW d \in Nat,
         MinInt <= n.x - a, n.x + n.width + c <= MaxInt, n.width + a + c <= MaxInt,
         MinInt <= n.y - b, n.y + n.height + d <= MaxInt, n.height + b + d <= MaxInt
  PROVE  LET k == Inflate(r, a, b, c, d)
         IN  /\ NormalizeRect(k) = k /\ Proper(k) /\ ContainsRect(k, n)
             /\ Deflate(k, a, b, c, d) = n
<1> DEFINE x == n.x - a
           y == n.y - b
           w == n.width + a + c
           h == n.height + b + d
           k == Rect(x, y, w, h)
<1>1. /\ n.x \in Int /\ n.y \in Int /\ n.width \in Int /\ n.height \in Int
      /\ MinInt <= n.x /\ MinInt <= n.y /\ n.x + n.width <= MaxInt /\ n.y + n.height <= MaxInt
      /\ 0 < n.width /\ 0 < n.height /\ n.width <= MaxInt /\ n.height <= MaxInt
      /\ n = Rect(n.x, n.y, n.width, n.height) /\ ~IsEmpty(n) /\ NormalizeRect(n) = n
      /\ RightEdge(n) = n.x + n.width /\ BottomEdge(n) = n.y + n.height
  BY ProperIs
<1>2. a \in Int /\ b \in Int /\ c \in Int /\ d \in Int /\ 0 <= a /\ 0 <= b /\ 0 <= c /\ 0 <= d
  OBVIOUS
<1>3. x \in Int /\ y \in Int /\ w \in Int /\ h \in Int /\ 0 < w /\ 0 < h
  BY ONLY <1>1, <1>2
<1>4. x + w = n.x + n.width + c /\ y + h = n.y + n.height + d
  BY ONLY <1>1, <1>2
<1>5. x <= n.x /\ y <= n.y /\ n.x + n.width <= x + w /\ n.y + n.height <= y + h
  BY ONLY <1>1, <1>2
<1>6. x + a = n.x /\ y + b = n.y /\ w - a - c = n.width /\ h - b - d = n.height
  BY ONLY <1>1, <1>2
<1>7. MinInt <= x /\ MinInt <= y /\ w <= MaxInt /\ h <= MaxInt /\ x + w <= MaxInt /\ y + h <= MaxInt
  BY <1>4
<1>8. Inflate(r, a, b, c, d) = ClampRect(x, y, w, h)
  BY <1>1, ResizesAre
<1> HIDE DEF x, y, w, h
<1>9. ClampRect(x, y, w, h) = k /\ NormalizeRect(k) = k /\ ~IsEmpty(k) /\ Proper(k)
  BY <1>3, <1>7, Exactly
<1>10. /\ k.x = x /\ k.y = y /\ k.width = w /\ k.height = h
       /\ RightEdge(k) = x + w /\ BottomEdge(k) = y + h
  BY RectIs
<1> HIDE DEF k
<1>11. ContainsRect(k, n)
  BY <1>1, <1>3, <1>5, <1>9, <1>10 DEF ContainsRect
<1>12. Deflate(k, a, b, c, d) = ClampRect(k.x + a, k.y + b, k.width - a - c, k.height - b - d)
  BY <1>9, ResizesAre
<1>13. ClampRect(n.x, n.y, n.width, n.height) = n
  BY ONLY <1>1, Exactly
<1> QED
  BY <1>6, <1>8, <1>9, <1>10, <1>11, <1>12, <1>13

LEMMA InflatesBack ==
  ASSUME NEW r, NEW n, NormalizeRect(r) = n, Proper(n), NEW p, Near(p), Close(n)
  PROVE  LET m == Magnitude(p.x)
             k == Magnitude(p.y)
             wide == Inflate(r, m, k, k, m)
         IN  /\ Deflate(wide, m, k, k, m) = n
             /\ ContainsRect(wide, n)
             /\ InflateUniform(DeflateUniform(InflateUniform(r, m), m), 0) = n
<1> DEFINE m == Magnitude(p.x)
           k == Magnitude(p.y)
           wide == Inflate(r, m, k, k, m)
<1>1. /\ n.x \in Int /\ n.y \in Int /\ n.width \in Int /\ n.height \in Int
      /\ 0 < n.width /\ 0 < n.height /\ NormalizeRect(n) = n
      /\ n.x + n.width <= MaxInt /\ n.y + n.height <= MaxInt /\ MinInt <= n.x /\ MinInt <= n.y
      /\ n.width <= MaxInt /\ n.height <= MaxInt
      /\ n = Rect(n.x, n.y, n.width, n.height) /\ ~IsEmpty(n)
  BY ProperIs
<1>2. MinInt < 0 /\ MaxInt = -MinInt - 1 /\ MinInt \in Int
  BY GeometryAssumption
<1>3. m \in Nat /\ 4 * m <= MaxInt /\ k \in Nat /\ 4 * k <= MaxInt
  BY <1>2 DEF Near, Magnitude
<1>4. /\ -MaxInt <= 4 * n.x /\ 4 * (n.x + n.width) <= MaxInt
      /\ -MaxInt <= 4 * n.y /\ 4 * (n.y + n.height) <= MaxInt
  BY DEF Close
<1> HIDE DEF m, k
<1>5. /\ MinInt <= n.x - m /\ n.x + n.width + k <= MaxInt /\ n.width + m + k <= MaxInt
      /\ MinInt <= n.y - k /\ n.y + n.height + m <= MaxInt /\ n.height + k + m <= MaxInt
      /\ n.x + n.width + m <= MaxInt /\ n.width + m + m <= MaxInt
      /\ MinInt <= n.y - m /\ n.height + m + m <= MaxInt
  BY ONLY <1>1, <1>2, <1>3, <1>4
<1>6. Deflate(wide, m, k, k, m) = n /\ ContainsRect(wide, n)
  BY <1>3, <1>5, Widened
<1>7. Deflate(Inflate(r, m, m, m, m), m, m, m, m) = n
  BY <1>3, <1>5, Widened
<1>8. DeflateUniform(InflateUniform(r, m), m) = n
  BY <1>7 DEF DeflateUniform, InflateUniform
<1>9. InflateUniform(n, 0) = n
  <2>1. Inflate(n, 0, 0, 0, 0) = ClampRect(n.x - 0, n.y - 0, n.width + 0 + 0, n.height + 0 + 0)
    BY <1>1, ResizesAre
  <2>2. n.x - 0 = n.x /\ n.y - 0 = n.y /\ n.width + 0 + 0 = n.width /\ n.height + 0 + 0 = n.height
    BY <1>1
  <2>3. ClampRect(n.x, n.y, n.width, n.height) = n
    BY <1>1, Exactly
  <2> QED
    BY <2>1, <2>2, <2>3 DEF InflateUniform
<1> QED
  BY <1>6, <1>8, <1>9 DEF m, k

LEMMA ExpandsToContain ==
  ASSUME NEW n, Proper(n), NEW p, Near(p), Close(n)
  PROVE  BoundsBoth(ExpandToContain(n, p), n, Rect(p.x, p.y, 1, 1))
<1> DEFINE q == Rect(p.x, p.y, 1, 1)
           l == Lesser(n.x, p.x)
           t == Lesser(n.y, p.y)
           r == Greater(RightEdge(n), p.x + 1)
           bottom == Greater(BottomEdge(n), p.y + 1)
           u == Between(l, t, r, bottom)
<1>1. /\ n \in Rectangle /\ n.x \in Int /\ n.y \in Int /\ n.width \in Int /\ n.height \in Int
      /\ MinInt <= n.x /\ MinInt <= n.y /\ n.x + n.width <= MaxInt /\ n.y + n.height <= MaxInt
      /\ 0 < n.width /\ n.width <= MaxInt /\ 0 < n.height /\ ~IsEmpty(n) /\ NormalizeRect(n) = n
      /\ RightEdge(n) = n.x + n.width /\ BottomEdge(n) = n.y + n.height
      /\ RightEdge(n) \in Int /\ BottomEdge(n) \in Int
  BY ProperIs
<1>2. /\ p.x \in Int /\ -MaxInt <= 4 * p.x /\ 4 * p.x <= MaxInt
      /\ p.y \in Int /\ -MaxInt <= 4 * p.y /\ 4 * p.y <= MaxInt
      /\ MinInt < 0 /\ MaxInt = -MinInt - 1 /\ MinInt \in Int
  BY GeometryAssumption DEF Near
<1>3. /\ -MaxInt <= 4 * n.x /\ 4 * (n.x + n.width) <= MaxInt
      /\ -MaxInt <= 4 * n.y /\ 4 * (n.y + n.height) <= MaxInt
  BY DEF Close
<1>4. ExpandToContain(n, p) = u
  BY <1>1 DEF ExpandToContain
<1>5. /\ p.x + 1 \in Int /\ p.x + 1 <= MaxInt /\ MinInt <= p.x
      /\ p.y + 1 \in Int /\ p.y + 1 <= MaxInt /\ MinInt <= p.y /\ 1 <= MaxInt
  BY ONLY <1>1, <1>2
<1>6. q \in Rectangle /\ ~IsEmpty(q)
  <2>1. 1 \in Int /\ 0 < 1
    OBVIOUS
  <2>2. Proper(q)
    BY ONLY <1>2, <1>5, <2>1, Exactly
  <2> HIDE DEF q
  <2> QED
    BY ONLY <2>2, ProperIs
<1>7. /\ q.x = p.x /\ q.y = p.y /\ RightEdge(q) = p.x + 1 /\ BottomEdge(q) = p.y + 1
  BY RectIs
<1>8. l \in Int /\ l <= n.x /\ l <= q.x /\ l \in {n.x, q.x}
  BY <1>1, <1>2, <1>7, LesserIs
<1>9. t \in Int /\ t <= n.y /\ t <= q.y /\ t \in {n.y, q.y}
  BY <1>1, <1>2, <1>7, LesserIs
<1>10. r \in Int /\ RightEdge(n) <= r /\ RightEdge(q) <= r /\ r \in {RightEdge(n), RightEdge(q)}
  BY <1>1, <1>5, <1>7, GreaterIs
<1>11. /\ bottom \in Int /\ BottomEdge(n) <= bottom /\ BottomEdge(q) <= bottom
       /\ bottom \in {BottomEdge(n), BottomEdge(q)}
  BY <1>1, <1>5, <1>7, GreaterIs
<1> HIDE DEF l, t, r, bottom, u, q
<1>12. l \in Int32 /\ r \in Int32 /\ l <= r /\ r - l <= MaxInt
  <2>1. MinInt <= l /\ r <= MaxInt /\ l <= r /\ r - l <= MaxInt
    BY ONLY <1>1, <1>2, <1>3, <1>5, <1>7, <1>8, <1>10
  <2> QED
    BY <1>2, <1>8, <1>10, <2>1 DEF Int32
<1>13. t \in Int32 /\ bottom \in Int32 /\ t <= bottom /\ bottom - t <= MaxInt
  <2>1. MinInt <= t /\ bottom <= MaxInt /\ t <= bottom /\ bottom - t <= MaxInt
    BY ONLY <1>1, <1>2, <1>3, <1>5, <1>7, <1>9, <1>11
  <2> QED
    BY <1>2, <1>9, <1>11, <2>1 DEF Int32
<1>14. u \in Rectangle /\ u.x = l /\ u.y = t /\ RightEdge(u) = r /\ BottomEdge(u) = bottom
  BY <1>12, <1>13, BetweenIs DEF u
<1>15. Cells(n) \subseteq Cells(u) /\ Cells(q) \subseteq Cells(u)
  BY <1>1, <1>6, <1>8, <1>9, <1>10, <1>11, <1>14, CoversByEdges
<1> QED
  BY <1>4, <1>8, <1>9, <1>10, <1>11, <1>14, <1>15 DEF BoundsBoth, q

\* What lies in the middle of a side, and is no longer than it, lies on it.
LEMMA InTheMiddle ==
  ASSUME NEW x \in Int, NEW w \in Int, NEW c, c = x + w \div 2,
         NEW v \in Int, 0 <= v, v <= w
  PROVE  LET k == c - v \div 2 IN k \in Int /\ x <= k /\ k + v <= x + w
OBVIOUS

\* The sides of the shrunk rectangle are no longer than they were, and one is as long.
LEMMA ShrunkSides ==
  ASSUME NEW w \in Int, NEW h \in Int, 0 < w, 0 < h, NEW a \in Int, NEW b \in Int, 0 < a, 0 < b
  PROVE  LET wide == w * b - h * a
             u == IF wide > 0 THEN Lesser(w, (h * a) \div b) ELSE w
             v == IF wide < 0 THEN Lesser(h, (w * b) \div a) ELSE h
         IN  /\ u \in Int /\ 0 <= u /\ u <= w /\ v \in Int /\ 0 <= v /\ v <= h
             /\ u = w \/ v = h
<1> DEFINE m == w * b
           k == h * a
           wide == m - k
           u == IF wide > 0 THEN Lesser(w, k \div b) ELSE w
           v == IF wide < 0 THEN Lesser(h, m \div a) ELSE h
<1>1. m \in Int /\ 0 <= m /\ k \in Int /\ 0 <= k
  BY SMT
<1> HIDE DEF m, k
<1>2. k \div b \in Int /\ 0 <= k \div b
  BY <1>1
<1>3. m \div a \in Int /\ 0 <= m \div a
  BY <1>1
<1>4. Lesser(w, k \div b) \in Int /\ 0 <= Lesser(w, k \div b) /\ Lesser(w, k \div b) <= w
  BY <1>2 DEF Lesser
<1>5. Lesser(h, m \div a) \in Int /\ 0 <= Lesser(h, m \div a) /\ Lesser(h, m \div a) <= h
  BY <1>3 DEF Lesser
<1>6. u \in Int /\ 0 <= u /\ u <= w
  BY <1>4
<1>7. v \in Int /\ 0 <= v /\ v <= h
  BY <1>5
<1>8. wide \in Int
  BY <1>1
<1>9. u = w \/ v = h
  BY <1>8
<1> QED
  BY <1>6, <1>7, <1>9 DEF m, k

LEMMA ShrinkIs ==
  ASSUME NEW r, NEW n, n = NormalizeRect(r), ~IsEmpty(n), NEW a, NEW b, ~(a <= 0)
  PROVE  LET wide == n.width * b - n.height * a
             u == IF wide > 0 THEN Lesser(n.width, (n.height * a) \div b) ELSE n.width
             v == IF wide < 0 THEN Lesser(n.height, (n.width * b) \div a) ELSE n.height
         IN  ShrinkToAspectRatio(r, <<a, b>>) =
               ClampRect(CenterX(n) - u \div 2, CenterY(n) - v \div 2, u, v)
BY DEF ShrinkToAspectRatio, UnlessEmpty

LEMMA ShrinksWithin ==
  ASSUME NEW r, NEW n, NormalizeRect(r) = n, Proper(n), NEW a \in Int, NEW b \in Int, 0 < a, 0 < b
  PROVE  LET k == ShrinkToAspectRatio(r, <<a, b>>)
         IN  Cells(k) \subseteq Cells(n) /\ (k.width = n.width \/ k.height = n.height)
<1> DEFINE wide == n.width * b - n.height * a
           u == IF wide > 0 THEN Lesser(n.width, (n.height * a) \div b) ELSE n.width
           v == IF wide < 0 THEN Lesser(n.height, (n.width * b) \div a) ELSE n.height
           x == CenterX(n) - u \div 2
           y == CenterY(n) - v \div 2
           k == ClampRect(x, y, u, v)
<1>1. /\ n \in Rectangle /\ n.x \in Int /\ n.y \in Int /\ n.width \in Int /\ n.height \in Int
      /\ MinInt <= n.x /\ MinInt <= n.y /\ n.x + n.width <= MaxInt /\ n.y + n.height <= MaxInt
      /\ 0 < n.width /\ 0 < n.height /\ n.width <= MaxInt /\ n.height <= MaxInt /\ ~IsEmpty(n)
      /\ RightEdge(n) = n.x + n.width /\ BottomEdge(n) = n.y + n.height
  BY ProperIs
<1>2. /\ u \in Int /\ 0 <= u /\ u <= n.width /\ v \in Int /\ 0 <= v /\ v <= n.height
      /\ u = n.width \/ v = n.height
  BY <1>1, ShrunkSides
<1>3. CenterX(n) = n.x + n.width \div 2 /\ CenterY(n) = n.y + n.height \div 2
  BY <1>1 DEF CenterX, CenterY, Magnitude
<1>4. ShrinkToAspectRatio(r, <<a, b>>)
        = ClampRect(CenterX(n) - u \div 2, CenterY(n) - v \div 2, u, v)
  <2>1. ~(a <= 0)
    OBVIOUS
  <2> QED
    BY <1>1, <2>1, ShrinkIs
<1> HIDE DEF wide, u, v
<1>5. ShrinkToAspectRatio(r, <<a, b>>) = k
  BY <1>4
<1>6. /\ x \in Int /\ n.x <= x /\ x + u <= n.x + n.width
      /\ y \in Int /\ n.y <= y /\ y + v <= n.y + n.height
  BY <1>1, <1>2, <1>3, InTheMiddle
<1> HIDE DEF x, y
<1>7. /\ MinInt <= x /\ x <= MaxInt /\ MinInt <= x + u /\ x + u <= MaxInt /\ x + u \in Int
      /\ MinInt <= y /\ y <= MaxInt /\ MinInt <= y + v /\ y + v <= MaxInt /\ y + v \in Int
      /\ u <= MaxInt /\ v <= MaxInt
  <2>1. MinInt \in Int /\ MaxInt \in Int
    BY GeometryAssumption
  <2> QED
    BY ONLY <2>1, <1>1, <1>2, <1>6
<1>8. /\ k \in Rectangle
      /\ k.x = ClampToInt32(x) /\ k.y = ClampToInt32(y)
      /\ RightEdge(k) = ClampToInt32(x + u) /\ BottomEdge(k) = ClampToInt32(y + v)
  BY <1>2, <1>6, <1>7, ClampRectIs
<1> HIDE DEF k
<1>9. k.x = x /\ k.y = y /\ RightEdge(k) = x + u /\ BottomEdge(k) = y + v
  BY <1>6, <1>7, <1>8, ClampIs
<1>10. k.width = u /\ k.height = v
  <2>1. RightEdge(k) = k.x + k.width /\ BottomEdge(k) = k.y + k.height /\ k.width \in Int /\ k.height \in Int
    BY <1>8, FieldsAre
  <2> QED
    BY ONLY <1>2, <1>6, <1>9, <2>1
<1>11. Cells(k) \subseteq Cells(n)
  <2>1. CASE IsEmpty(k)
    BY <1>8, <2>1, CellsAre
  <2>2. CASE ~IsEmpty(k)
    BY <1>1, <1>6, <1>8, <1>9, <2>2, CoversByEdges
  <2> QED
    BY <2>1, <2>2
<1> QED
  BY <1>2, <1>5, <1>10, <1>11

LEMMA ResizesIt ==
  ASSUME NEW r, NEW n, NormalizeRect(r) = n, Proper(n), NEW p, Near(p), Close(n)
  PROVE  Resizes(r, n, p)
<1>1. BoundsBoth(ExpandToContain(n, p), n, Rect(p.x, p.y, 1, 1))
  BY ExpandsToContain
<1>2. p.x \in Int /\ p.y \in Int
  BY DEF Near
<1>3. p.x > 0 /\ p.y > 0 =>
        LET k == ShrinkToAspectRatio(r, <<p.x, p.y>>)
        IN  Cells(k) \subseteq Cells(n) /\ (k.width = n.width \/ k.height = n.height)
  BY <1>2, ShrinksWithin
<1> QED
  BY <1>1, <1>3, InflatesBack DEF Resizes

-----------------------------------------------------------------------------
(* One rectangle: split into a grid. *)

\* The i-th part of a side: how long it is and where it begins; the first parts share
\* what the division leaves over.
Size(total, parts, i) == total \div parts + (IF i < total % parts THEN 1 ELSE 0)
Start(total, parts, i) == i * (total \div parts) + Lesser(i, total % parts)
GridCell(n, rows, cols, row, col) ==
    ClampRect(n.x + Start(n.width, cols, col), n.y + Start(n.height, rows, row),
              Size(n.width, cols, col), Size(n.height, rows, row))

LEMMA GridIs ==
  ASSUME NEW n, Proper(n), NEW rows \in Int, NEW cols \in Int, 0 < rows, 0 < cols
  PROVE  SplitGrid(n, rows, cols) =
           [k \in 1 .. rows * cols |-> GridCell(n, rows, cols, (k - 1) \div cols, (k - 1) % cols)]
<1>1. NormalizeRect(n) = n /\ ~IsEmpty(n)
  BY ProperIs
<1>2. ~(rows <= 0) /\ ~(cols <= 0)
  OBVIOUS
<1> QED
  BY ONLY <1>1, <1>2 DEF SplitGrid, GridCell, Size, Start

LEMMA DivisionIs ==
  ASSUME NEW v \in Int, NEW k \in Int, 0 < k
  PROVE  /\ v \div k \in Int /\ v % k \in Int /\ 0 <= v % k /\ v % k < k
         /\ v = k * (v \div k) + (v % k)
<1>1. v \div k \in Int /\ v % k \in Int /\ 0 <= v % k /\ v % k < k
  OBVIOUS
<1>2. v % k = v - k * (v \div k)
  OBVIOUS
<1> DEFINE m == k * (v \div k)
<1>3. m \in Int
  BY <1>1
<1> HIDE DEF m
<1>4. v % k = v - m
  BY <1>2 DEF m
<1>5. v = m + (v % k)
  BY ONLY <1>1, <1>3, <1>4, v \in Int
<1> QED
  BY <1>1, <1>5 DEF m

LEMMA TimesAtLeast ==
  ASSUME NEW a \in Int, NEW b \in Int, NEW k \in Int, a <= b, 0 <= k
  PROVE  a * k \in Int /\ b * k \in Int /\ a * k <= b * k
OBVIOUS

LEMMA TimesLess ==
  ASSUME NEW a \in Int, NEW b \in Int, NEW k \in Int, 0 <= k, a * k < b * k
  PROVE  a < b
<1>1. ASSUME b <= a PROVE FALSE
  BY <1>1, TimesAtLeast
<1> QED
  BY <1>1

\* Each part ends where the next one begins, and the last one with the side.
LEMMA PartsAre ==
  ASSUME NEW t \in Int, 0 <= t, NEW k \in Int, 0 < k, NEW i \in Int, 0 <= i, i < k
  PROVE  /\ Start(t, k, i) \in Int /\ 0 <= Start(t, k, i)
         /\ Size(t, k, i) \in Int /\ 0 <= Size(t, k, i)
         /\ Start(t, k, i) + Size(t, k, i) = Start(t, k, i + 1)
         /\ Start(t, k, i + 1) \in Int /\ Start(t, k, i + 1) <= t
<1> DEFINE q == t \div k
           m == t % k
           a == i * q
           b == (i + 1) * q
           c == k * q
<1>1. q \in Int /\ 0 <= q /\ m \in Int /\ 0 <= m /\ m < k /\ t = c + m
  <2>1. q \in Int /\ m \in Int /\ 0 <= m /\ m < k /\ t = c + m
    BY DivisionIs
  <2>2. 0 <= q
    OBVIOUS
  <2> QED
    BY <2>1, <2>2
<1>2. Start(t, k, i) = a + Lesser(i, m)
  BY DEF Start
<1>3. Start(t, k, i + 1) = b + Lesser(i + 1, m)
  BY DEF Start
<1>4. Size(t, k, i) = q + (IF i < m THEN 1 ELSE 0)
  BY DEF Size
<1> HIDE DEF q, m
<1>5. a \in Int /\ 0 <= a /\ b = a + q /\ c \in Int /\ b <= c
  <2>1. a \in Int /\ 0 <= a
    BY <1>1
  <2>2. b = a + q
    BY <1>1
  <2>3. i + 1 <= k
    OBVIOUS
  <2>4. c \in Int /\ b <= c
    BY <1>1, <2>3, TimesAtLeast
  <2> QED
    BY <2>1, <2>2, <2>4
<1> HIDE DEF a, b, c
<1>6. /\ Lesser(i, m) \in Int /\ 0 <= Lesser(i, m) /\ Lesser(i + 1, m) \in Int /\ Lesser(i + 1, m) <= m
      /\ Lesser(i, m) + (IF i < m THEN 1 ELSE 0) = Lesser(i + 1, m)
  BY <1>1 DEF Lesser
<1> DEFINE one == IF i < m THEN 1 ELSE 0
<1>7. one \in Int /\ 0 <= one
  OBVIOUS
<1>8. Size(t, k, i) = q + one /\ Lesser(i, m) + one = Lesser(i + 1, m)
  BY <1>4, <1>6
<1> HIDE DEF one
<1>9. /\ a + Lesser(i, m) \in Int /\ 0 <= a + Lesser(i, m) /\ q + one \in Int /\ 0 <= q + one
      /\ a + Lesser(i, m) + (q + one) = b + Lesser(i + 1, m)
      /\ b + Lesser(i + 1, m) \in Int /\ b + Lesser(i + 1, m) <= t
  BY ONLY <1>1, <1>5, <1>6, <1>7, <1>8
<1> QED
  BY <1>2, <1>3, <1>8, <1>9

\* A later part begins where an earlier one ends, or behind it.
LEMMA PartsFollow ==
  ASSUME NEW t \in Int, 0 <= t, NEW k \in Int, 0 < k, NEW i \in Int, NEW j \in Int,
         0 <= i, i < j, j < k
  PROVE  Start(t, k, i) + Size(t, k, i) <= Start(t, k, j)
<1> DEFINE q == t \div k
           m == t % k
           b == (i + 1) * q
           d == j * q
<1>1. Start(t, k, i) + Size(t, k, i) = b + Lesser(i + 1, m)
  BY PartsAre DEF Start
<1>2. Start(t, k, j) = d + Lesser(j, m)
  BY DEF Start
<1>3. q \in Int /\ 0 <= q /\ m \in Int
  OBVIOUS
<1> HIDE DEF q, m
<1>4. b \in Int /\ d \in Int /\ b <= d
  BY <1>3, TimesAtLeast
<1>5. Lesser(i + 1, m) \in Int /\ Lesser(j, m) \in Int /\ Lesser(i + 1, m) <= Lesser(j, m)
  BY <1>3 DEF Lesser
<1> HIDE DEF b, d
<1>6. b + Lesser(i + 1, m) <= d + Lesser(j, m)
  BY ONLY <1>4, <1>5
<1> QED
  BY <1>1, <1>2, <1>6

LEMMA SmallQuotient ==
  ASSUME NEW v \in Int, NEW k \in Int, 0 < k, 0 <= v, NEW m \in Int, v < m * k
  PROVE  LET i == v \div k
         IN  i \in Int /\ 0 <= i /\ i < m /\ i * k \in Int /\ i * k <= v /\ v < i * k + k
<1> DEFINE i == v \div k
           r == v % k
           a == i * k
<1>1. i \in Int /\ r \in Int /\ 0 <= r /\ r < k /\ v = k * i + r
  BY DivisionIs
<1>2. 0 <= i
  OBVIOUS
<1> HIDE DEF i, r
<1>3. a \in Int /\ v = a + r
  BY <1>1
<1>4. a <= v /\ v < a + k /\ m * k \in Int
  <2> HIDE DEF a
  <2>1. m * k \in Int
    OBVIOUS
  <2> QED
    BY <2>1, <1>1, <1>3
<1>5. i < m
  <2>1. i * k < m * k
    <3> DEFINE b == m * k
    <3>1. v < b
      OBVIOUS
    <3> HIDE DEF b
    <3>2. a < b
      <4>1. b \in Int
        BY <1>4 DEF b
      <4> HIDE DEF a
      <4> QED
        BY <1>3, <1>4, <3>1, <4>1
    <3> QED
      BY <3>2 DEF b
  <2> QED
    BY <1>1, <2>1, TimesLess
<1> QED
  BY <1>1, <1>2, <1>3, <1>4, <1>5 DEF i

\* Every place on the side lies in one of the parts.
LEMMA PartOf ==
  ASSUME NEW t \in Int, 0 <= t, NEW k \in Int, 0 < k, NEW v \in Int, 0 <= v, v < t
  PROVE  \E i \in 0 .. k - 1 : Start(t, k, i) <= v /\ v < Start(t, k, i) + Size(t, k, i)
<1> DEFINE q == t \div k
           m == t % k
           long == m * (q + 1)
<1>1. q \in Int /\ 0 <= q /\ m \in Int /\ 0 <= m /\ m < k /\ t = k * q + m
  <2>1. q \in Int /\ m \in Int /\ 0 <= m /\ m < k /\ t = k * q + m
    BY DivisionIs
  <2>2. 0 <= q
    OBVIOUS
  <2> QED
    BY <2>1, <2>2
<1>2. \A i : /\ Start(t, k, i) = i * q + Lesser(i, m)
             /\ Size(t, k, i) = q + (IF i < m THEN 1 ELSE 0)
  BY DEF Start, Size
<1> HIDE DEF q, m
<1>3. CASE v < long
  <2> DEFINE i == v \div (q + 1)
  <2>1. q + 1 \in Int /\ 0 < q + 1
    BY <1>1
  <2>2. i \in Int /\ 0 <= i /\ i < m /\ i * (q + 1) <= v /\ v < i * (q + 1) + (q + 1)
    BY <1>1, <1>3, <2>1, SmallQuotient
  <2> HIDE DEF i
  <2>3. Start(t, k, i) = i * q + i /\ Size(t, k, i) = q + 1
    BY <1>1, <1>2, <2>2 DEF Lesser
  <2>4. i * (q + 1) = i * q + i
    BY <1>1, <2>2
  <2>5. i \in 0 .. k - 1
    BY <1>1, <2>2
  <2>6. Start(t, k, i) <= v /\ v < Start(t, k, i) + Size(t, k, i)
    BY <2>2, <2>3, <2>4
  <2> QED
    BY <2>5, <2>6
<1>4. CASE ~(v < long)
  <2> DEFINE u == v - long
             j == u \div q
             i == m + j
             short == (k - m) * q
  <2>1. long \in Int /\ short \in Int /\ long = m * q + m /\ long + short = t
    BY <1>1
  <2> HIDE DEF long, short
  <2>2. u \in Int /\ 0 <= u /\ u < short
    BY <1>4, <2>1
  <2> HIDE DEF u
  <2>3. 0 < q
    <3>1. CASE q = 0
      <4>1. short = 0
        BY <1>1, <3>1 DEF short
      <4> QED
        BY <2>2, <4>1
    <3> QED
      BY <1>1, <3>1
  <2>4. u < (k - m) * q /\ k - m \in Int
    BY <1>1, <2>2 DEF short
  <2>5. j \in Int /\ 0 <= j /\ j < k - m /\ j * q \in Int /\ j * q <= u /\ u < j * q + q
    BY <1>1, <2>2, <2>3, <2>4, SmallQuotient
  <2> HIDE DEF j
  <2>6. i \in 0 .. k - 1 /\ ~(i < m) /\ Lesser(i, m) = m
    BY <1>1, <2>5 DEF Lesser
  <2>7. Start(t, k, i) = i * q + m /\ Size(t, k, i) = q
    BY <1>1, <1>2, <2>6
  <2>8. i * q = m * q + j * q
    BY <1>1, <2>5
  <2>9. Start(t, k, i) = long + j * q
    <3> DEFINE a == m * q
               b == j * q
    <3>1. a \in Int /\ b \in Int
      BY <1>1, <2>5
    <3>2. i * q = a + b /\ long = a + m
      BY <2>1, <2>8
    <3> HIDE DEF a, b, i
    <3>3. Start(t, k, i) = a + b + m
      BY <2>7, <3>2
    <3>4. Start(t, k, i) = long + b
      BY ONLY <1>1, <3>1, <3>2, <3>3
    <3> QED
      BY <3>4 DEF b
  <2>10. v = long + u
    BY <2>1 DEF u
  <2> DEFINE b == j * q
  <2>11. b \in Int /\ b <= u /\ u < b + q
    BY <2>5
  <2>12. Start(t, k, i) = long + b
    BY <2>9
  <2> HIDE DEF b, i
  <2>13. Start(t, k, i) <= v /\ v < Start(t, k, i) + Size(t, k, i)
    BY ONLY <1>1, <2>1, <2>2, <2>7, <2>10, <2>11, <2>12
  <2> QED
    BY <2>6, <2>13 DEF i
<1> QED
  BY <1>3, <1>4

\* The cells of one part of the grid.
LEMMA GridCellIs ==
  ASSUME NEW n, Proper(n), NEW rows \in Int, NEW cols \in Int, 0 < rows, 0 < cols,
         NEW row \in 0 .. rows - 1, NEW col \in 0 .. cols - 1
  PROVE  LET g == GridCell(n, rows, cols, row, col)
             a == Start(n.width, cols, col)
             b == Start(n.height, rows, row)
         IN  /\ g \in Rectangle
             /\ a \in Int /\ b \in Int
             /\ Size(n.width, cols, col) \in Int /\ Size(n.height, rows, row) \in Int
             /\ n.x <= n.x + a /\ n.x + a + Size(n.width, cols, col) <= n.x + n.width
             /\ n.y <= n.y + b /\ n.y + b + Size(n.height, rows, row) <= n.y + n.height
             /\ g.x = n.x + a /\ RightEdge(g) = n.x + a + Size(n.width, cols, col)
             /\ g.y = n.y + b /\ BottomEdge(g) = n.y + b + Size(n.height, rows, row)
<1> DEFINE a == Start(n.width, cols, col)
           w == Size(n.width, cols, col)
           b == Start(n.height, rows, row)
           h == Size(n.height, rows, row)
           x == n.x + a
           y == n.y + b
           g == ClampRect(x, y, w, h)
<1>1. /\ n.x \in Int /\ n.y \in Int /\ n.width \in Int /\ n.height \in Int
      /\ MinInt <= n.x /\ MinInt <= n.y /\ n.x + n.width <= MaxInt /\ n.y + n.height <= MaxInt
      /\ 0 < n.width /\ 0 < n.height /\ n.width <= MaxInt /\ n.height <= MaxInt
  BY ProperIs
<1>2. row \in Int /\ 0 <= row /\ row < rows /\ col \in Int /\ 0 <= col /\ col < cols
  OBVIOUS
<1>3. /\ a \in Int /\ 0 <= a /\ w \in Int /\ 0 <= w /\ a + w <= n.width
      /\ b \in Int /\ 0 <= b /\ h \in Int /\ 0 <= h /\ b + h <= n.height
  <2>1. 0 <= n.width /\ 0 <= n.height
    BY <1>1
  <2>2. /\ a \in Int /\ 0 <= a /\ w \in Int /\ 0 <= w
        /\ a + w = Start(n.width, cols, col + 1) /\ Start(n.width, cols, col + 1) <= n.width
    BY ONLY <1>1, <1>2, <2>1, PartsAre, cols \in Int, 0 < cols
  <2>3. /\ b \in Int /\ 0 <= b /\ h \in Int /\ 0 <= h
        /\ b + h = Start(n.height, rows, row + 1) /\ Start(n.height, rows, row + 1) <= n.height
    BY ONLY <1>1, <1>2, <2>1, PartsAre, rows \in Int, 0 < rows
  <2> HIDE DEF a, w, b, h
  <2> QED
    BY <2>2, <2>3
<1>4. GridCell(n, rows, cols, row, col) = g
  BY DEF GridCell
<1> HIDE DEF a, w, b, h
<1>5. /\ x \in Int /\ MinInt <= x /\ x <= MaxInt /\ x + w \in Int /\ MinInt <= x + w /\ x + w <= MaxInt
      /\ y \in Int /\ MinInt <= y /\ y <= MaxInt /\ y + h \in Int /\ MinInt <= y + h /\ y + h <= MaxInt
      /\ w <= MaxInt /\ h <= MaxInt
  <2>1. MinInt \in Int /\ MaxInt \in Int
    BY GeometryAssumption
  <2> QED
    BY ONLY <1>1, <1>3, <2>1
<1>6. /\ n.x <= x /\ x + w <= n.x + n.width /\ n.y <= y /\ y + h <= n.y + n.height
  BY ONLY <1>1, <1>3
<1> HIDE DEF x, y
<1>7. /\ g \in Rectangle
      /\ g.x = ClampToInt32(x) /\ g.y = ClampToInt32(y)
      /\ RightEdge(g) = ClampToInt32(x + w) /\ BottomEdge(g) = ClampToInt32(y + h)
  BY <1>3, <1>5, ClampRectIs
<1> HIDE DEF g
<1>8. g.x = x /\ g.y = y /\ RightEdge(g) = x + w /\ BottomEdge(g) = y + h
  BY <1>5, <1>7, ClampIs
<1> QED
  BY <1>3, <1>4, <1>6, <1>7, <1>8 DEF x, y, a, b, w, h

LEMMA IndexIs ==
  ASSUME NEW rows \in Int, NEW cols \in Int, 0 < rows, 0 < cols, NEW k \in 1 .. rows * cols
  PROVE  /\ (k - 1) \div cols \in 0 .. rows - 1 /\ (k - 1) % cols \in 0 .. cols - 1
         /\ k - 1 = cols * ((k - 1) \div cols) + ((k - 1) % cols)
<1> DEFINE v == k - 1
           all == rows * cols
<1>1. all \in Int
  OBVIOUS
<1>2. v \in Int /\ 0 <= v /\ v < all
  <2> HIDE DEF all
  <2>1. k \in 1 .. all
    BY DEF all
  <2> QED
    BY <1>1, <2>1
<1> HIDE DEF v
<1>3. v < rows * cols
  BY <1>2
<1>4. v \div cols \in Int /\ 0 <= v \div cols /\ v \div cols < rows
  BY <1>2, <1>3, SmallQuotient
<1>5. v % cols \in Int /\ 0 <= v % cols /\ v % cols < cols /\ v = cols * (v \div cols) + (v % cols)
  BY <1>2, DivisionIs
<1> QED
  BY <1>4, <1>5 DEF v

LEMMA IndexOfPart ==
  ASSUME NEW rows \in Int, NEW cols \in Int, 0 < rows, 0 < cols,
         NEW row \in 0 .. rows - 1, NEW col \in 0 .. cols - 1
  PROVE  \E k \in 1 .. rows * cols : (k - 1) \div cols = row /\ (k - 1) % cols = col
<1> DEFINE a == row * cols
           all == rows * cols
           k == a + col + 1
           v == a + col
<1>1. row \in Int /\ 0 <= row /\ row + 1 <= rows /\ col \in Int /\ 0 <= col /\ col < cols
  OBVIOUS
<1>2. a \in Int /\ 0 <= a /\ all \in Int /\ a + cols <= all
  <2>1. a \in Int /\ 0 <= a /\ (row + 1) * cols = a + cols
    BY <1>1
  <2>2. all \in Int /\ (row + 1) * cols <= all
    BY <1>1, TimesAtLeast
  <2> HIDE DEF a, all
  <2> QED
    BY <2>1, <2>2
<1>3. v \div cols = row /\ v % cols = col
  <2>1. v = row * cols + col /\ v \in Int
    BY <1>1, <1>2
  <2> HIDE DEF v
  <2> QED
    BY <1>1, <2>1
<1>4. k \in 1 .. all /\ k - 1 = v
  <2> HIDE DEF a, all
  <2> QED
    BY <1>1, <1>2
<1> QED
  BY <1>3, <1>4

LEMMA SplitsIt ==
  ASSUME NEW n, Proper(n), NEW rows \in Int, NEW cols \in Int
  PROVE  SplitsIntoAGrid(n, rows, cols)
<1> SUFFICES ASSUME 0 < rows, 0 < cols
             PROVE  LET grid == SplitGrid(n, rows, cols)
                    IN  Len(grid) = rows * cols /\ Disjoint(grid) /\ CellsOf(grid) = Cells(n)
  BY DEF SplitsIntoAGrid
<1> DEFINE grid == SplitGrid(n, rows, cols)
           all == rows * cols
           row(k) == (k - 1) \div cols
           col(k) == (k - 1) % cols
           x(i) == Start(n.width, cols, i)
           w(i) == Size(n.width, cols, i)
           y(i) == Start(n.height, rows, i)
           h(i) == Size(n.height, rows, i)
<1>1. grid = [k \in 1 .. all |-> GridCell(n, rows, cols, row(k), col(k))]
  BY GridIs
<1>2. all \in Int /\ 0 <= all
  OBVIOUS
<1>3. \A k \in 1 .. all : /\ row(k) \in 0 .. rows - 1 /\ col(k) \in 0 .. cols - 1
                          /\ k - 1 = cols * row(k) + col(k)
  BY IndexIs
<1>4. \A i \in 0 .. rows - 1, j \in 0 .. cols - 1 : \E k \in 1 .. all : row(k) = i /\ col(k) = j
  BY IndexOfPart
<1> HIDE DEF all, grid, row, col
<1>5. Len(grid) = all /\ DOMAIN grid = 1 .. all
      /\ \A k \in 1 .. all : grid[k] = GridCell(n, rows, cols, row(k), col(k))
  BY <1>1, <1>2
<1>6. /\ n \in Rectangle
      /\ n.x \in Int /\ n.y \in Int /\ n.width \in Int /\ n.height \in Int
      /\ 0 < n.width /\ 0 < n.height /\ RightEdge(n) = n.x + n.width /\ BottomEdge(n) = n.y + n.height
  BY ProperIs
<1>7. ASSUME NEW k \in 1 .. all
      PROVE  /\ grid[k] \in Rectangle
             /\ x(col(k)) \in Int /\ w(col(k)) \in Int /\ y(row(k)) \in Int /\ h(row(k)) \in Int
             /\ n.x <= n.x + x(col(k)) /\ n.x + x(col(k)) + w(col(k)) <= n.x + n.width
             /\ n.y <= n.y + y(row(k)) /\ n.y + y(row(k)) + h(row(k)) <= n.y + n.height
             /\ grid[k].x = n.x + x(col(k)) /\ RightEdge(grid[k]) = n.x + x(col(k)) + w(col(k))
             /\ grid[k].y = n.y + y(row(k)) /\ BottomEdge(grid[k]) = n.y + y(row(k)) + h(row(k))
  <2>1. row(k) \in 0 .. rows - 1 /\ col(k) \in 0 .. cols - 1
    BY <1>3
  <2>2. grid[k] = GridCell(n, rows, cols, row(k), col(k))
    BY <1>5
  <2> QED
    BY <2>1, <2>2, GridCellIs
<1> HIDE DEF x, w, y, h
<1>8. Disjoint(grid)
  <2> SUFFICES ASSUME NEW i \in 1 .. all, NEW j \in 1 .. all, i < j,
                      NEW c \in Cells(grid[i]), c \in Cells(grid[j])
               PROVE  FALSE
    BY <1>5 DEF Disjoint
  <2>1. /\ row(i) \in Int /\ 0 <= row(i) /\ row(i) < rows /\ col(i) \in Int /\ 0 <= col(i) /\ col(i) < cols
        /\ row(j) \in Int /\ 0 <= row(j) /\ row(j) < rows /\ col(j) \in Int /\ 0 <= col(j) /\ col(j) < cols
    BY <1>3
  <2>2. /\ c.x \in Int /\ n.x + x(col(i)) <= c.x /\ c.x < n.x + x(col(i)) + w(col(i))
        /\ c.y \in Int /\ n.y + y(row(i)) <= c.y /\ c.y < n.y + y(row(i)) + h(row(i))
    <3>1. grid[i].x <= c.x /\ c.x < RightEdge(grid[i]) /\ grid[i].y <= c.y /\ c.y < BottomEdge(grid[i])
          /\ c.x \in Int /\ c.y \in Int
      BY <1>7, CellsAre
    <3> QED
      BY <1>7, <3>1
  <2>3. /\ n.x + x(col(j)) <= c.x /\ c.x < n.x + x(col(j)) + w(col(j))
        /\ n.y + y(row(j)) <= c.y /\ c.y < n.y + y(row(j)) + h(row(j))
    <3>1. grid[j].x <= c.x /\ c.x < RightEdge(grid[j]) /\ grid[j].y <= c.y /\ c.y < BottomEdge(grid[j])
      BY <1>7, CellsAre
    <3> QED
      BY <1>7, <3>1
  <2>4. /\ x(col(i)) \in Int /\ w(col(i)) \in Int /\ y(row(i)) \in Int /\ h(row(i)) \in Int
        /\ x(col(j)) \in Int /\ w(col(j)) \in Int /\ y(row(j)) \in Int /\ h(row(j)) \in Int
    BY <1>7
  <2>5. 0 <= n.width /\ 0 <= n.height
    BY <1>6
  <2>6. \A a \in Int, b \in Int : 0 <= a /\ a < b /\ b < rows => y(a) + h(a) <= y(b)
    BY <1>6, <2>5, PartsFollow DEF y, h
  <2>7. \A a \in Int, b \in Int : 0 <= a /\ a < b /\ b < cols => x(a) + w(a) <= x(b)
    BY <1>6, <2>5, PartsFollow DEF x, w
  <2>8. ~(row(i) < row(j))
    <3> SUFFICES ASSUME row(i) < row(j) PROVE FALSE
      OBVIOUS
    <3>1. y(row(i)) + h(row(i)) <= y(row(j))
      BY <2>1, <2>6
    <3> QED
      BY ONLY <1>6, <2>2, <2>3, <2>4, <3>1
  <2>9. ~(row(j) < row(i))
    <3> SUFFICES ASSUME row(j) < row(i) PROVE FALSE
      OBVIOUS
    <3>1. y(row(j)) + h(row(j)) <= y(row(i))
      BY <2>1, <2>6
    <3> QED
      BY ONLY <1>6, <2>2, <2>3, <2>4, <3>1
  <2>10. ~(col(i) < col(j))
    <3> SUFFICES ASSUME col(i) < col(j) PROVE FALSE
      OBVIOUS
    <3>1. x(col(i)) + w(col(i)) <= x(col(j))
      BY <2>1, <2>7
    <3> QED
      BY ONLY <1>6, <2>2, <2>3, <2>4, <3>1
  <2>11. ~(col(j) < col(i))
    <3> SUFFICES ASSUME col(j) < col(i) PROVE FALSE
      OBVIOUS
    <3>1. x(col(j)) + w(col(j)) <= x(col(i))
      BY <2>1, <2>7
    <3> QED
      BY ONLY <1>6, <2>2, <2>3, <2>4, <3>1
  <2>12. row(i) = row(j) /\ col(i) = col(j)
    BY ONLY <2>1, <2>8, <2>9, <2>10, <2>11
  <2>13. i - 1 = j - 1
    BY <1>3, <2>12
  <2> QED
    BY <1>2, <2>13
<1>9. CellsOf(grid) = Cells(n)
  <2>1. ASSUME NEW k \in 1 .. all PROVE Cells(grid[k]) \subseteq Cells(n)
    <3>1. CASE IsEmpty(grid[k])
      BY <1>7, <3>1, CellsAre
    <3>2. CASE ~IsEmpty(grid[k])
      <4>1. /\ n.x <= grid[k].x /\ RightEdge(grid[k]) <= RightEdge(n)
            /\ n.y <= grid[k].y /\ BottomEdge(grid[k]) <= BottomEdge(n)
        BY <1>6, <1>7
      <4> QED
        BY <1>6, <1>7, <3>2, <4>1, CoversByEdges
    <3> QED
      BY <3>1, <3>2
  <2>2. ASSUME NEW c \in Cells(n) PROVE \E k \in 1 .. all : c \in Cells(grid[k])
    <3> DEFINE u == c.x - n.x
               v == c.y - n.y
    <3>1. /\ c = [x |-> c.x, y |-> c.y]
          /\ c.x \in Int /\ n.x <= c.x /\ c.x < n.x + n.width
          /\ c.y \in Int /\ n.y <= c.y /\ c.y < n.y + n.height
      BY <1>6, CellsAre
    <3>2. u \in Int /\ 0 <= u /\ u < n.width /\ v \in Int /\ 0 <= v /\ v < n.height
      BY ONLY <1>6, <3>1
    <3>3. 0 <= n.width /\ 0 <= n.height
      BY <1>6
    <3> HIDE DEF u, v
    <3>4. PICK j \in 0 .. cols - 1 : x(j) <= u /\ u < x(j) + w(j)
      BY <1>6, <3>2, <3>3, PartOf DEF x, w
    <3>5. PICK i \in 0 .. rows - 1 : y(i) <= v /\ v < y(i) + h(i)
      BY <1>6, <3>2, <3>3, PartOf DEF y, h
    <3>6. PICK k \in 1 .. all : row(k) = i /\ col(k) = j
      BY <1>4
    <3>7. /\ grid[k] \in Rectangle
          /\ x(j) \in Int /\ w(j) \in Int /\ y(i) \in Int /\ h(i) \in Int
          /\ grid[k].x = n.x + x(j) /\ RightEdge(grid[k]) = n.x + x(j) + w(j)
          /\ grid[k].y = n.y + y(i) /\ BottomEdge(grid[k]) = n.y + y(i) + h(i)
      BY <1>7, <3>6
    <3>8. c.x = n.x + u /\ c.y = n.y + v
      BY <1>6, <3>1 DEF u, v
    <3>9. /\ n.x + x(j) <= c.x /\ c.x < n.x + x(j) + w(j)
          /\ n.y + y(i) <= c.y /\ c.y < n.y + y(i) + h(i)
      BY ONLY <1>6, <3>2, <3>4, <3>5, <3>7, <3>8
    <3>10. c \in Cells(grid[k])
      BY <3>1, <3>7, <3>9, CellsAre
    <3> QED
      BY <3>10
  <2>3. CellsOf(grid) = UNION {Cells(grid[k]) : k \in 1 .. all}
    BY <1>5 DEF CellsOf
  <2> QED
    BY <2>1, <2>2, <2>3
<1> QED
  BY <1>5, <1>8, <1>9 DEF grid, all

-----------------------------------------------------------------------------
(* Every rectangle of 32-bit numbers that is added alone. *)

\* For every rectangle of 32-bit numbers and every point as far from the limits as the
\* property says: four quarter turns, two mirrorings, a move to the parent and back, a
\* transposition and a scaling undone, a widening and a narrowing give the rectangle as it
\* was normalised, and its corners go where the operations on points take them; and a grid
\* of any size splits every rectangle into disjoint parts that cover its cells.
THEOREM TransformsAreUndone == RectSpec => []TransformsUndo
<1> DEFINE AddedAreRectangles == added \in Seq(Rects)
<1>1. RectInit => AddedAreRectangles
  BY DEF RectInit
<1>2. AddedAreRectangles /\ [RectNext]_rectVars => AddedAreRectangles'
  BY AddedRemain
<1>3. AddedAreRectangles => TransformsUndo
  <2> SUFFICES ASSUME AddedAreRectangles, Len(added) = 1,
                      NEW r, r = added[1], NEW n, n = NormalizeRect(r), ~IsEmpty(n), NEW p \in Points
               PROVE  /\ FarFromTheLimits(n, p) =>
                           /\ RotatesWithItsCorners(r, n, p) /\ MirrorsWithItsCorners(r, n, p)
                           /\ MovesBack(r, n, p) /\ Resizes(r, n, p)
                      /\ SplitsIntoAGrid(n, p.x, p.y)
    BY DEF TransformsUndo
  <2>1. r \in Rectangle
    <3>1. r \in Rects
      OBVIOUS
    <3> QED
      BY <3>1, RectsAssumption
  <2>2. Proper(n)
    BY <2>1, NormalIsProper
  <2>3. FarFromTheLimits(n, p) =>
          /\ RotatesWithItsCorners(r, n, p) /\ MirrorsWithItsCorners(r, n, p)
          /\ MovesBack(r, n, p) /\ Resizes(r, n, p)
    <3> SUFFICES ASSUME FarFromTheLimits(n, p)
                 PROVE  /\ RotatesWithItsCorners(r, n, p) /\ MirrorsWithItsCorners(r, n, p)
                        /\ MovesBack(r, n, p) /\ Resizes(r, n, p)
      OBVIOUS
    <3>1. Near(p) /\ Close(n) /\ Around(n, p)
      BY <2>2, FarIs
    <3> QED
      BY <2>2, <3>1, RotatesBack, MirrorsBack, MovesItBack, ResizesIt
  <2>4. p.x \in Int /\ p.y \in Int
    <3>1. p \in [x : Int32, y : Int32]
      BY RectsAssumption
    <3> QED
      BY <3>1, GeometryAssumption DEF Int32
  <2> QED
    BY <2>2, <2>3, <2>4, SplitsIt
<1> QED
  BY <1>1, <1>2, <1>3, PTL DEF RectSpec
===============================================================================
