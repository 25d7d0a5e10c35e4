------------------------------- MODULE Geometry -------------------------------
(* Boxes, affine matrices and page geometry (geometry/models.py,               *)
(* geometry/page.py, pdf/geometry.py), over the integers: a coordinate is a    *)
(* whole number of some unit, so nothing is rounded and no tolerance is needed. *)
(* What is a fraction in the code is kept with its denominator.                *)
EXTENDS Integers

CONSTANT None       \* Python's None

Point(x, y) == [x |-> x, y |-> y]
Points == [x : Int, y : Int]
Box(x0, y0, x1, y1) == [x0 |-> x0, y0 |-> y0, x1 |-> x1, y1 |-> y1]
Corners4 == [x0 : Int, y0 : Int, x1 : Int, y1 : Int]

Normalized == [box : Corners4, over : Points]

ASSUME NoneAssumption == None \notin Corners4 /\ None \notin Normalized /\ None \notin Int

-----------------------------------------------------------------------------
(* BoundingBox: its two corners may coincide, and may not be reversed *)

Boxes == {b \in Corners4 : b.x0 <= b.x1 /\ b.y0 <= b.y1}

Lesser(a, b) == IF a <= b THEN a ELSE b
Greater(a, b) == IF a <= b THEN b ELSE a

Width(b) == b.x1 - b.x0
Height(b) == b.y1 - b.y0
HasArea(b) == Width(b) > 0 /\ Height(b) > 0
TopLeft(b) == Point(b.x0, b.y0)
BottomRight(b) == Point(b.x1, b.y1)
Corners(b) == {TopLeft(b), Point(b.x1, b.y0), BottomRight(b), Point(b.x0, b.y1)}

ContainsPoint(b, p) == b.x0 <= p.x /\ p.x <= b.x1 /\ b.y0 <= p.y /\ p.y <= b.y1
ContainsBox(b, c) == ContainsPoint(b, TopLeft(c)) /\ ContainsPoint(b, BottomRight(c))

BoxUnion(b, c) == Box(Lesser(b.x0, c.x0), Lesser(b.y0, c.y0),
                      Greater(b.x1, c.x1), Greater(b.y1, c.y1))
(* Touching boxes have an intersection, without an area. *)
Intersection(b, c) ==
    LET common == Box(Greater(b.x0, c.x0), Greater(b.y0, c.y0),
                      Lesser(b.x1, c.x1), Lesser(b.y1, c.y1))
    IN  IF common.x0 > common.x1 \/ common.y0 > common.y1 THEN None ELSE common

Least(S) == CHOOSE a \in S : \A b \in S : a <= b
Greatest(S) == CHOOSE a \in S : \A b \in S : b <= a
(* BoundingBox.from_points *)
Hull(P) == Box(Least({p.x : p \in P}), Least({p.y : p \in P}),
               Greatest({p.x : p \in P}), Greatest({p.y : p \in P}))
(* The union of any number of boxes, None of no box. *)
Cover(S) == IF S = {} THEN None ELSE Hull(UNION {Corners(b) : b \in S})

-----------------------------------------------------------------------------
(* AffineMatrix: x' = ax + cy + e, y' = bx + dy + f *)

Matrix(a, b, c, d, e, f) == [a |-> a, b |-> b, c |-> c, d |-> d, e |-> e, f |-> f]
Matrices == [a : Int, b : Int, c : Int, d : Int, e : Int, f : Int]
Identity == Matrix(1, 0, 0, 1, 0, 0)

Apply(m, p) == Point(m.a * p.x + m.c * p.y + m.e, m.b * p.x + m.d * p.y + m.f)
(* m @ n: first n, then m. *)
Compose(m, n) ==
    Matrix(m.a * n.a + m.c * n.b, m.b * n.a + m.d * n.b,
           m.a * n.c + m.c * n.d, m.b * n.c + m.d * n.d,
           m.a * n.e + m.c * n.f + m.e, m.b * n.e + m.d * n.f + m.f)
Determinant(m) == m.a * m.d - m.b * m.c
Singular(m) == Determinant(m) = 0
(* inverse(), every entry multiplied by the determinant it is divided by in the code. *)
Adjugate(m) == Matrix(m.d, -m.b, -m.c, m.a, m.c * m.f - m.d * m.e, m.b * m.e - m.a * m.f)
ApplyToBox(m, b) == Hull({Apply(m, p) : p \in Corners(b)})

-----------------------------------------------------------------------------
(* The geometry of a page. What the file says is [media, crop, rotation, unit]; *)
(* the canonical page starts at (0, 0), grows downwards and is upright.         *)

Rotation(degrees) == degrees % 360
QuarterTurns(rotation) == IF rotation % 90 = 0 THEN (rotation \div 90) % 4 ELSE None

VisualBox(native) == IF native.crop # None THEN native.crop ELSE native.media
(* _user_unit: what is missing or makes no sense counts as 1. *)
UserUnit(native) == IF native.unit # None /\ native.unit > 0 THEN native.unit ELSE 1

Unrotated(box, unit) == Matrix(unit, 0, 0, -unit, -box.x0 * unit, box.y1 * unit)
(* _page_rotation_to_canonical for a page of this width and height. *)
Turn(quarters, width, height) ==
    CASE quarters = 0 -> Identity
      [] quarters = 1 -> Matrix(0, 1, -1, 0, height, 0)
      [] quarters = 2 -> Matrix(-1, 0, 0, -1, width, height)
      [] quarters = 3 -> Matrix(0, -1, 1, 0, 0, width)
TurnedSize(quarters, width, height) ==
    IF quarters \in {0, 2} THEN Point(width, height) ELSE Point(height, width)

CanonicalOf(box, unit, quarters) ==
    LET width  == Width(box) * unit
        height == Height(box) * unit
    IN  [size |-> TurnedSize(quarters, width, height), box |-> box,
         toCanonical |-> Compose(Turn(quarters, width, height), Unrotated(box, unit))]
Canonical(native) ==
    CanonicalOf(VisualBox(native), UserUnit(native), QuarterTurns(Rotation(native.rotation)))
PageBox(geometry) == Box(0, 0, geometry.size.x, geometry.size.y)

(* A geometry the models take: neither box is reversed, the page has an area and stands *)
(* on one of its sides.                                                                 *)
GeometryAccepted(native) ==
    /\ native.media \in Boxes /\ native.crop \in Boxes \cup {None}
    /\ HasArea(VisualBox(native)) /\ QuarterTurns(Rotation(native.rotation)) # None

-----------------------------------------------------------------------------
(* What is shown on a page (provider.py): its box against the box of the page *)

Visibility(box, page) ==
    LET common == Intersection(box, page) IN
    CASE box = None \/ page = None -> "unknown"
      [] box # None /\ page # None /\ common = None -> "outside"
      [] box # None /\ page # None /\ common # None ->
            IF common = box THEN "visible" ELSE "partial"

(* _normalized_image_box: the box over the size of the page, for what the page contains. *)
NormalizedBox(box, page) ==
    IF box = None \/ page = None THEN None
    ELSE IF ~HasArea(page) \/ ~ContainsBox(page, box) THEN None
    ELSE [box |-> box, over |-> Point(Width(page), Height(page))]
(* PageGeometry.normalize_box(clamp=True): what sticks out of the page is cut off. *)
Clamp(a, limit) == Lesser(Greater(a, 0), limit)
ClampedBox(box, size) ==
    [box |-> Box(Clamp(box.x0, size.x), Clamp(box.y0, size.y),
                 Clamp(box.x1, size.x), Clamp(box.y1, size.y)), over |-> size]
(* NormalizedBoundingBox.__post_init__: every fraction is between 0 and 1, in order. *)
NormalizedAccepted(n) ==
    /\ n.over.x > 0 /\ n.over.y > 0
    /\ n.box \in Boxes
    /\ 0 <= n.box.x0 /\ n.box.x1 <= n.over.x /\ 0 <= n.box.y0 /\ n.box.y1 <= n.over.y

=============================================================================
