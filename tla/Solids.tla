------------------------------- MODULE Solids -------------------------------
(***************************************************************************)
(* Where a ray meets a box, a cylinder or a cone: bounds_intersect         *)
(* (bounds.odin), cube_intersects (cube.odin), cylinder_intersects         *)
(* (cylinder.odin) and cone_intersects (cone.odin), step by step.          *)
(*                                                                         *)
(* Rays have integer coordinates, so that nothing is rounded: what is left *)
(* of floating point are infinities and NaN, which the inverse of a zero   *)
(* direction brings in, and both signs of zero.  The root of a quadratic   *)
(* equation's discriminant is kept as a root.                              *)
(***************************************************************************)
EXTENDS Integers, Sequences

CONSTANTS
  Limit,      \* the largest coordinate that is not infinite
  Unit,       \* the number of grid steps that the code calls 1
  Shapes,     \* the boxes, cylinders and cones, see Shape
  Rays        \* the rays, see Ray

Axes == {"x", "y", "z"}

(* Beyond all numbers that the code computes from finite coordinates.      *)
Infinity == 10 * Limit
NaN == Infinity + 1
Finite == -Limit .. Limit
Coordinate == Finite \cup {-Infinity, Infinity, NaN}

(* A component of a direction: zero has a sign too. *)
Component == [sign : {-1, 1}, size : 0 .. 2]
Value(c) == c.sign * c.size

Ray == [origin : [Axes -> Finite], direction : [Axes -> Component]]
Round == {"cylinder", "cone"}
Shape == [kind : {"bounds", "cube"} \cup Round, closed : BOOLEAN,
          min : [Axes -> Coordinate], max : [Axes -> Coordinate]]

(* Every ray has a direction.  The cube is always the same, and a cylinder *)
(* or a cone has two ends.                                                 *)
ASSUME SolidAssumption ==
  /\ Limit \in Nat /\ Unit \in 1 .. Limit
  /\ Shapes \subseteq Shape
  /\ \A s \in Shapes : \A a \in Axes :
       s.kind = "cube" => s.min[a] = -Unit /\ s.max[a] = Unit
  /\ \A s \in Shapes : s.kind \in Round => {s.min["y"], s.max["y"]} \subseteq Finite
  /\ Rays \subseteq Ray
  /\ \A r \in Rays : \E a \in Axes : r.direction[a].size # 0

VARIABLES
  shape,
  ray,
  at,             \* the next axis, "wall" or "caps", or how the test ended
  tmin, tmax,     \* where the ray is in all the slabs so far
  found           \* the intersections appended

solidVars == <<shape, ray, at, tmin, tmax, found>>

SolidInit ==
  /\ shape \in Shapes
  /\ ray \in Rays
  /\ at = IF shape.kind \in Round THEN "wall" ELSE "x"
  /\ tmin = 0
  /\ tmax = 0
  /\ found = <<>>

from(a) == ray.origin[a]
dir(a) == Value(ray.direction[a])

-----------------------------------------------------------------------------
(* Boxes.  A time is a number of halves of a grid step per unit of the     *)
(* direction, and so an integer for directions of size 1 and 2.            *)
Halves == 2

Sign(n) == IF n > 0 THEN 1 ELSE IF n < 0 THEN -1 ELSE 0
IsInfinite(n) == n \in {Infinity, -Infinity}

Minus(p, n) == IF p = NaN \/ IsInfinite(p) THEN p ELSE p - n

Product(m, n) ==
  IF m = NaN \/ n = NaN THEN NaN
  ELSE IF IsInfinite(m) \/ IsInfinite(n)
       THEN IF m = 0 \/ n = 0 THEN NaN ELSE Sign(m) * Sign(n) * Infinity
       ELSE m * n

(* Comparisons with NaN are false. *)
Greater(m, n) == m # NaN /\ n # NaN /\ m > n

(* Ray's inverse_direction: a zero keeps its sign in the infinity. *)
InverseDirection(a) ==
  LET c == ray.direction[a] IN c.sign * IF c.size = 0 THEN Infinity ELSE Halves \div c.size

MutantSlab(a) ==
  [min |-> Product(Minus(shape.min[a], from(a)), InverseDirection(a)),
   max |-> Product(Minus(shape.max[a], from(a)), InverseDirection(a))]

(* When the ray is between the two faces across an axis. *)
Slab(a) ==
  LET lo == Product(Minus(shape.min[a], from(a)), InverseDirection(a))
      hi == Product(Minus(shape.max[a], from(a)), InverseDirection(a))
  IN  IF InverseDirection(a) >= 0 THEN [min |-> lo, max |-> hi]
                                  ELSE [min |-> hi, max |-> lo]

FirstSlab ==
  /\ at = "x"
  /\ tmin' = Slab("x").min
  /\ tmax' = Slab("x").max
  /\ at' = "y"
  /\ UNCHANGED <<shape, ray, found>>

Apart(s) == Greater(tmin, s.max) \/ Greater(s.min, tmax)

(* The early return of both functions. *)
MissSlab ==
  /\ at \in {"y", "z"}
  /\ Apart(Slab(at))
  /\ at' = "missed"
  /\ UNCHANGED <<shape, ray, tmin, tmax, found>>

(* The interval shrinks.  After the last axis bounds_intersect only gives  *)
(* its answer, and cube_intersects appends both ends.                      *)
NarrowSlab ==
  LET s == Slab(at) IN
  /\ at \in {"y", "z"}
  /\ ~Apart(s)
  /\ IF at = "z" /\ shape.kind = "bounds"
     THEN UNCHANGED <<tmin, tmax>>
     ELSE /\ tmin' = IF Greater(s.min, tmin) THEN s.min ELSE tmin
          /\ tmax' = IF Greater(tmax, s.max) THEN s.max ELSE tmax
  /\ at' = IF at = "y" THEN "z" ELSE "hit"
  /\ found' = IF at = "z" /\ shape.kind = "cube" THEN <<tmin', tmax'>> ELSE found
  /\ UNCHANGED <<shape, ray>>

-----------------------------------------------------------------------------
(* Cylinders, x^2 + z^2 = 1, and cones, x^2 + z^2 = y^2.                   *)
(* A time is (p + q * sqrt(Disc)) / den, den being positive.               *)

OfCone(n) == IF shape.kind = "cone" THEN n ELSE 0
A == dir("x") * dir("x") + dir("z") * dir("z") - OfCone(dir("y") * dir("y"))
B == 2 * from("x") * dir("x") + 2 * from("z") * dir("z") - OfCone(2 * from("y") * dir("y"))
C == from("x") * from("x") + from("z") * from("z")
       - IF shape.kind = "cone" THEN from("y") * from("y") ELSE Unit * Unit
Disc == B * B - 4 * A * C

(* p + q * sqrt(Disc) > 0, without the root. *)
Positive(p, q) ==
  \/ p >= 0 /\ q >= 0 /\ (p > 0 \/ q * q * Disc > 0)
  \/ p > 0 /\ q < 0 /\ p * p > q * q * Disc
  \/ p < 0 /\ q > 0 /\ p * p < q * q * Disc

(* The sign of y - height at time t. *)
Above(t, height) == Positive((from("y") - height) * t.den + dir("y") * t.p, dir("y") * t.q)
Below(t, height) == Positive((height - from("y")) * t.den - dir("y") * t.p, -dir("y") * t.q)

Root(q) == [p |-> -B * Sign(A), q |-> q, den |-> 2 * A * Sign(A)]
Parallel == [p |-> -C * Sign(B), q |-> 0, den |-> 2 * B * Sign(B)]

MutantOnWall(t) == ~Below(t, shape.min["y"]) /\ ~Above(t, shape.max["y"])

(* minimum < y and y < maximum *)
OnWall(t) == Above(t, shape.min["y"]) /\ Below(t, shape.max["y"])

Wall(q) == IF OnWall(Root(q)) THEN <<Root(q)>> ELSE <<>>

MaxHits == IF shape.kind = "cone" THEN 4 ELSE 2

(* Only a shape that is closed and still lacks a hit tests its caps. *)
AfterWall(hits) == IF shape.closed /\ Len(hits) < MaxHits THEN "caps" ELSE "hit"

MissWall ==
  /\ at = "wall"
  /\ A # 0
  /\ Disc < 0
  /\ at' = "missed"
  /\ UNCHANGED <<shape, ray, tmin, tmax, found>>

IntersectWall ==
  /\ at = "wall"
  /\ A # 0 /\ Disc >= 0
  /\ found' = Wall(-1) \o Wall(1)
  /\ at' = AfterWall(found')
  /\ UNCHANGED <<shape, ray, tmin, tmax>>

(* The ray is parallel to the wall: it does not meet that of a cylinder,   *)
(* and that of a cone once, whatever its height there.                     *)
AlongWall ==
  /\ at = "wall"
  /\ A = 0
  /\ found' = IF shape.kind = "cone" /\ B # 0 THEN <<Parallel>> ELSE <<>>
  /\ at' = AfterWall(found')
  /\ UNCHANGED <<shape, ray, tmin, tmax>>

(* When the ray is at a height, its direction not being horizontal. *)
AtHeight(height) ==
  [p |-> (height - from("y")) * Sign(dir("y")), q |-> 0,
   den |-> dir("y") * Sign(dir("y"))]

(* radius - x^2 - z^2 at a time without a root, times den^2. *)
Inside(t, radius) ==
  LET x == from("x") * t.den + dir("x") * t.p
      z == from("z") * t.den + dir("z") * t.p
  IN  radius * t.den * t.den - x * x - z * z

Abs(n) == n * Sign(n)

(* What the sum of the squares is compared with: for a cone the radius of  *)
(* the cap itself.                                                         *)
CapRadius(height) == Unit * IF shape.kind = "cone" THEN Abs(height) ELSE Unit

MutantWithinCap(height) == Inside(AtHeight(height), CapRadius(height)) > 0

WithinCap(height) == Inside(AtHeight(height), CapRadius(height)) >= 0

Cap(height) ==
  IF dir("y") # 0 /\ WithinCap(height) THEN <<AtHeight(height)>> ELSE <<>>

(* intersect_caps, and the assertion on the number of hits. *)
IntersectCaps ==
  /\ at = "caps"
  /\ found' = found \o Cap(shape.min["y"]) \o Cap(shape.max["y"])
  /\ at' = IF Len(found') <= MaxHits THEN "hit" ELSE "panic"
  /\ UNCHANGED <<shape, ray, tmin, tmax>>

SolidAnswered == at \in {"hit", "missed", "panic"} /\ UNCHANGED solidVars

SolidNext ==
  \/ FirstSlab \/ MissSlab \/ NarrowSlab
  \/ MissWall \/ IntersectWall \/ AlongWall \/ IntersectCaps
  \/ SolidAnswered

SolidSpec == SolidInit /\ [][SolidNext]_solidVars

-----------------------------------------------------------------------------
(* Properties.  They look at the line itself, not at slabs or roots.       *)

(* The place of the ray on an axis at n / k, times k. *)
Place(a, n, k) == from(a) * k + dir(a) * n

(* A face at infinity is far away, and one that is NaN is nowhere.         *)
InBox(n, k) ==
  \A a \in Axes :
    /\ shape.min[a] = NaN \/ shape.min[a] * k <= Place(a, n, k)
    /\ shape.max[a] = NaN \/ Place(a, n, k) <= shape.max[a] * k

InsideBox(n, k) ==
  \A a \in Axes : shape.min[a] * k < Place(a, n, k) /\ Place(a, n, k) < shape.max[a] * k

(* The times, in Halves, at which the ray crosses the plane of a face. *)
Crossings ==
  UNION {{(face - from(a)) * InverseDirection(a) :
             face \in {shape.min[a], shape.max[a]} \cap Finite} :
           a \in {b \in Axes : dir(b) # 0}}

(* A box hides nothing: when bounds_intersect says no, no point of the     *)
(* line lies in the box, flat, infinite or NaN as it may be, and also when *)
(* the ray runs along a face, where the slab of that axis is NaN.          *)
BoxTestIsConservative ==
  shape.kind = "bounds" /\ at = "missed" => \A t \in Crossings \cup {0} : ~InBox(t, Halves)

CapHeights == {shape.min["y"], shape.max["y"]}
InHeight(t) == ~Below(t, shape.min["y"]) /\ ~Above(t, shape.max["y"])

(* A line through the inside of the cube crosses two faces, and the middle *)
(* between some two crossings is inside.  One through the inside of the    *)
(* cylinder is inside where it is closest to the axis, or at a cap.        *)
MeetsInside ==
  IF shape.kind = "cube"
  THEN \E s, t \in Crossings : InsideBox(s + t, 2 * Halves)
  ELSE /\ shape.min["y"] < shape.max["y"]
       /\ \E t \in [p : {-(B \div 2)}, q : {0}, den : {A} \ {0}]
                     \cup {AtHeight(h) : h \in {k \in CapHeights : dir("y") # 0}} :
            /\ Inside(t, Unit * Unit) > 0
            /\ IF dir("y") = 0 THEN OnWall(t) ELSE InHeight(t)

(* Whether a time the code appended is one at which the ray is on the      *)
(* surface of the shape.                                                   *)
OnCube(t) ==
  /\ t # NaN /\ ~IsInfinite(t)
  /\ InBox(t, Halves) /\ ~InsideBox(t, Halves)

Zero(p, q) == ~Positive(p, q) /\ ~Positive(-p, -q)

SolvesWall(t) ==
  Zero(A * (t.p * t.p + t.q * t.q * Disc) + B * t.p * t.den + C * t.den * t.den,
       2 * A * t.p * t.q + B * t.q * t.den)

InCapPlane(t, h) == ~Above(t, h) /\ ~Below(t, h)

OnCap(t) ==
  /\ shape.closed /\ t.q = 0
  /\ \E h \in CapHeights :
       InCapPlane(t, h) /\ Inside(t, IF shape.kind = "cone" THEN h * h ELSE Unit * Unit) >= 0

(* What the code appends for a cone although it may not be on its surface: *)
(* the one hit of a ray parallel to a side, which is at half of the time   *)
(* that solves the equation and at any height; and a hit in the plane of a *)
(* cap whose radius is not its square, the cap that check_cap accepts then *)
(* being wider or narrower than the cone there.                            *)
ParallelHit(t) == shape.kind = "cone" /\ A = 0 /\ B # 0 /\ t = Parallel

OnAcceptedCap(t) ==
  /\ shape.kind = "cone" /\ shape.closed /\ t.q = 0
  /\ \E h \in CapHeights :
       CapRadius(h) # h * h /\ InCapPlane(t, h) /\ Inside(t, CapRadius(h)) >= 0

SameTime(s, t) ==
  IF shape.kind = "cube" THEN s = t
  ELSE Zero(s.p * t.den - t.p * s.den, s.q * t.den - t.q * s.den)

(* The ray runs in the plane of a face: a time may be NaN (0 * infinity).  *)
InFacePlane == \E a \in Axes : dir(a) = 0 /\ from(a) \in {shape.min[a], shape.max[a]}

(* Where the code appends hits.  For a cylinder: on the wall between its   *)
(* ends, or on a cap.  For a cone: the same, but for its hit of a ray      *)
(* parallel to a side, and within the caps that check_cap accepts.  For a  *)
(* cube: on its surface, unless the ray runs in the plane of a face.       *)
(* And a line through the inside of a cube or of a closed cylinder has     *)
(* exactly its two ends: an edge where wall and cap meet counts once, not  *)
(* twice and not never.                                                    *)
HitsAreTheEnds ==
  at \in {"hit", "missed"} =>
    /\ shape.kind = "cube" \/ (shape.kind = "cylinder" /\ shape.closed) =>
         (MeetsInside => Len(found) = 2 /\ ~SameTime(found[1], found[2]))
    /\ shape.kind = "cube" /\ ~InFacePlane => \A j \in DOMAIN found : OnCube(found[j])
    /\ shape.kind \in Round /\ shape.min["y"] <= shape.max["y"] => \A j \in DOMAIN found :
         LET t == found[j]
         IN  \/ InHeight(t) /\ (SolvesWall(t) \/ OnCap(t) \/ OnAcceptedCap(t))
             \/ ParallelHit(t)

(* The assertions on the number of hits never fail, whichever edge the ray *)
(* touches: wall and caps of a cylinder never count an end twice.          *)
CapAssertionHolds == at # "panic"
=============================================================================
