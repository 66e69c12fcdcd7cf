------------------------- MODULE IntersectionProofs -------------------------
(***************************************************************************)
(* Proofs about where rays meet shapes and about what is made of it.       *)
(*                                                                         *)
(* Solids: for every grid, every set of boxes, cylinders and cones on it,  *)
(* and rays from everywhere on it in all the directions of Component.      *)
(* HitInfo: for every set of shapes, every number of groups and however    *)
(* many intersections a ray has with each shape.                           *)
(***************************************************************************)
EXTENDS HitInfo, Solids, FiniteSetTheorems, SequenceTheorems, TLAPS

-----------------------------------------------------------------------------
(* Boxes.                                                                  *)

(* The times of all crossings, and of the middles between two of them.     *)
Moments(j) == -(4 * Limit * j) .. 4 * Limit * j

(* At time n / d the ray is between the two faces across an axis.          *)
Between(a, n, d) ==
  /\ shape.min[a] = NaN \/ shape.min[a] * d <= Place(a, n, d)
  /\ shape.max[a] = NaN \/ Place(a, n, d) <= shape.max[a] * d

StrictlyBetween(a, n, d) ==
  shape.min[a] * d < Place(a, n, d) /\ Place(a, n, d) < shape.max[a] * d

(* A time the code computed, in halves, and n / j. *)
Before(t, n, j) == t = NaN \/ t * j <= n
After(t, n, j) == t = NaN \/ n <= t * j

SolidTypes ==
  /\ shape \in Shapes /\ ray \in Rays
  /\ tmin \in Int /\ tmax \in Int
  /\ shape.kind \in Round => at \in {"wall", "caps", "hit", "missed", "panic"}
  /\ shape.kind \notin Round => at \in {"x", "y", "z", "hit", "missed"}

(* What a component of a direction can be, with its inverse, in halves.    *)
Reciprocal(v, i) ==
  \/ v = 0 /\ i \in {Infinity, -Infinity}
  \/ v = 1 /\ i = 2
  \/ v = -1 /\ i = -2
  \/ v = 2 /\ i = 1
  \/ v = -2 /\ i = -1

LEMMA DirectionFacts ==
  ASSUME ray \in Rays, NEW a \in Axes
  PROVE  /\ from(a) \in Finite /\ dir(a) \in Int /\ InverseDirection(a) \in Int
         /\ Reciprocal(dir(a), InverseDirection(a))
<1>1. ray \in Ray
  BY SolidAssumption
<1>2. from(a) \in Finite /\ ray.direction[a] \in Component
  BY <1>1 DEF Ray, from
<1>3. PICK s \in {-1, 1}, z \in 0 .. 2 : ray.direction[a] = [sign |-> s, size |-> z]
  BY <1>2 DEF Component
<1>4. dir(a) = s * z /\ InverseDirection(a) = s * (IF z = 0 THEN Infinity ELSE Halves \div z)
  BY <1>3 DEF dir, Value, InverseDirection
<1>5. CASE z = 0
  <2>1. dir(a) = 0 /\ InverseDirection(a) = s * Infinity
    BY <1>4, <1>5
  <2>. QED
    BY <1>2, <2>1, SolidAssumption DEF Reciprocal, Infinity
<1>6. Halves \div 1 = 2 /\ Halves \div 2 = 1
  BY DEF Halves
<1>7. CASE z = 1
  BY <1>2, <1>4, <1>6, <1>7 DEF Reciprocal
<1>8. CASE z = 2
  BY <1>2, <1>4, <1>6, <1>8 DEF Reciprocal
<1>. QED
  BY <1>5, <1>7, <1>8

(* When the ray passes a face.                                             *)
LEMMA FaceTime ==
  ASSUME NEW f \in Coordinate, NEW s \in Finite, NEW v \in Int, NEW i \in Int, Reciprocal(v, i),
         NEW t, t = Product(Minus(f, s), i)
  PROVE  /\ t \in Int
         /\ f = NaN => t = NaN
         /\ IsInfinite(f) => t = Sign(f) * Sign(i) * Infinity
         /\ f \in Finite /\ v = 0 =>
              t = IF f = s THEN NaN ELSE Sign(f - s) * Sign(i) * Infinity
         /\ f \in Finite /\ v # 0 => t = (f - s) * i
<1>. USE SolidAssumption DEF Infinity, NaN, Finite
<1>1. CASE f = NaN
  BY <1>1 DEF Minus, Product, IsInfinite
<1>2. CASE IsInfinite(f)
  <2>1. Minus(f, s) = f
    BY <1>2 DEF Minus
  <2>2. i # NaN /\ i # 0 /\ f # 0 /\ f # NaN /\ f \notin Finite
    BY <1>2 DEF Reciprocal, IsInfinite
  <2>3. t = Sign(f) * Sign(i) * Infinity
    BY <1>2, <2>1, <2>2 DEF Product
  <2>. QED
    BY <1>2, <2>2, <2>3 DEF IsInfinite, Sign
<1>3. CASE f \in Finite
  <2>1. Minus(f, s) = f - s /\ f - s \in Int /\ f - s # NaN /\ ~IsInfinite(f - s)
    BY <1>3 DEF Minus, IsInfinite
  <2>2. f # NaN /\ ~IsInfinite(f)
    BY <1>3 DEF IsInfinite
  <2>3. CASE v = 0
    <3>1. IsInfinite(i) /\ i # NaN /\ i # 0
      BY <2>3 DEF Reciprocal, IsInfinite
    <3>2. t = IF f - s = 0 THEN NaN ELSE Sign(f - s) * Sign(i) * Infinity
      BY <2>1, <3>1 DEF Product
    <3>3. t = IF f = s THEN NaN ELSE Sign(f - s) * Sign(i) * Infinity
      <4>1. f \in Int /\ s \in Int /\ (f - s = 0 <=> f = s)
        BY <1>3
      <4>. QED
        BY <3>2, <4>1
    <3>4. t \in Int
      BY <3>2, <2>1 DEF Sign
    <3>. QED
      BY <2>2, <2>3, <3>3, <3>4
  <2>4. CASE v # 0
    <3>1. ~IsInfinite(i) /\ i # NaN
      BY <2>4 DEF Reciprocal, IsInfinite
    <3>2. t = (f - s) * i
      BY <2>1, <3>1 DEF Product
    <3>. QED
      BY <2>1, <2>2, <2>4, <3>2
  <2>. QED
    BY <2>3, <2>4
<1>. QED
  BY <1>1, <1>2, <1>3 DEF Coordinate, IsInfinite

(* The slab of an axis encloses the times at which the ray is between the  *)
(* two faces.                                                              *)
LEMMA FaceOrder ==
  ASSUME NEW f \in Coordinate, NEW s \in Finite, NEW v \in Int, NEW i \in Int, Reciprocal(v, i),
         NEW t, t = Product(Minus(f, s), i), NEW j \in {1, 2}, NEW n \in Moments(j),
         NEW y, y = s * (2 * j) + v * n
  PROVE  /\ i >= 0 /\ (f = NaN \/ f * (2 * j) <= y) => Before(t, n, j)
         /\ i >= 0 /\ (f = NaN \/ y <= f * (2 * j)) => After(t, n, j)
         /\ i < 0 /\ (f = NaN \/ f * (2 * j) <= y) => After(t, n, j)
         /\ i < 0 /\ (f = NaN \/ y <= f * (2 * j)) => Before(t, n, j)
<1>. USE SolidAssumption DEF Infinity, NaN, Finite, Before, After, Moments
<1>0. /\ t \in Int
      /\ f = NaN => t = NaN
      /\ IsInfinite(f) => t = Sign(f) * Sign(i) * Infinity
      /\ f \in Finite /\ v = 0 =>
           t = IF f = s THEN NaN ELSE Sign(f - s) * Sign(i) * Infinity
      /\ f \in Finite /\ v # 0 => t = (f - s) * i
  BY FaceTime
<1>1. CASE f = NaN
  BY <1>0, <1>1
<1>2. CASE IsInfinite(f)
  <2>1. t = Sign(f) * Sign(i) * Infinity /\ f # NaN
    BY <1>0, <1>2 DEF IsInfinite
  <2>2. CASE j = 1
    BY <1>2, <2>1, <2>2 DEF IsInfinite, Sign, Reciprocal
  <2>3. CASE j = 2
    BY <1>2, <2>1, <2>3 DEF IsInfinite, Sign, Reciprocal
  <2>. QED
    BY <2>2, <2>3
<1>3. CASE f \in Finite /\ v = 0
  <2>1. t = IF f = s THEN NaN ELSE Sign(f - s) * Sign(i) * Infinity
    BY <1>0, <1>3
  <2>2. CASE j = 1
    BY <1>3, <2>1, <2>2 DEF Sign, Reciprocal
  <2>3. CASE j = 2
    BY <1>3, <2>1, <2>3 DEF Sign, Reciprocal
  <2>. QED
    BY <2>2, <2>3
<1>4. CASE f \in Finite /\ v # 0
  <2>1. t = (f - s) * i
    BY <1>0, <1>4
  <2>2. CASE j = 1
    BY <1>4, <2>1, <2>2 DEF Reciprocal
  <2>3. CASE j = 2
    BY <1>4, <2>1, <2>3 DEF Reciprocal
  <2>. QED
    BY <2>2, <2>3
<1>. QED
  BY <1>1, <1>2, <1>3, <1>4 DEF Coordinate, IsInfinite

(* A face is at a coordinate.                                              *)
LEMMA FaceFacts ==
  ASSUME shape \in Shapes, NEW a \in Axes
  PROVE  shape.min[a] \in Coordinate /\ shape.max[a] \in Coordinate
<1>1. shape \in Shape
  BY SolidAssumption
<1>. QED
  BY <1>1 DEF Shape

LEMMA SlabHolds ==
  ASSUME shape \in Shapes, ray \in Rays, NEW a \in Axes
  PROVE  /\ Slab(a).min \in Int /\ Slab(a).max \in Int
         /\ \A j \in {1, 2} : \A n \in Moments(j) :
              Between(a, n, 2 * j) => Before(Slab(a).min, n, j) /\ After(Slab(a).max, n, j)
<1>1. PICK s \in Finite, v \in Int, i \in Int :
        s = from(a) /\ v = dir(a) /\ i = InverseDirection(a) /\ Reciprocal(v, i)
  BY DirectionFacts
<1>2. PICK f \in Coordinate, g \in Coordinate : f = shape.min[a] /\ g = shape.max[a]
  BY FaceFacts
<1>3. PICK lo, hi : lo = Product(Minus(f, s), i) /\ hi = Product(Minus(g, s), i)
  OBVIOUS
<1>4. Slab(a) = IF i >= 0 THEN [min |-> lo, max |-> hi] ELSE [min |-> hi, max |-> lo]
  BY <1>1, <1>2, <1>3 DEF Slab
<1>5. lo \in Int /\ hi \in Int
  BY <1>1, <1>3, FaceTime
<1>6. ASSUME NEW j \in {1, 2}, NEW n \in Moments(j), Between(a, n, 2 * j)
      PROVE  Before(Slab(a).min, n, j) /\ After(Slab(a).max, n, j)
  <2>1. PICK y : y = s * (2 * j) + v * n
    OBVIOUS
  <2>2. /\ f = NaN \/ f * (2 * j) <= y
        /\ g = NaN \/ y <= g * (2 * j)
    BY <1>1, <1>2, <1>6, <2>1 DEF Between, Place
  <2>3. /\ i >= 0 => Before(lo, n, j) /\ After(hi, n, j)
        /\ i < 0 => Before(hi, n, j) /\ After(lo, n, j)
    BY <1>1, <1>3, <2>1, <2>2, FaceOrder
  <2>. QED
    BY <1>4, <2>3
<1>. QED
  BY <1>4, <1>5, <1>6

(* The axes that the interval is narrowed to. *)
Passed == IF at = "y" THEN {"x"} ELSE IF at = "z" THEN {"x", "y"} ELSE Axes
Narrowing == shape.kind \notin Round /\ at \in {"y", "z", "hit"}

(* While the ray is between the faces passed, it is in the interval.       *)
BoxInv ==
  /\ Narrowing =>
       \A j \in {1, 2} : \A n \in Moments(j) :
         (\A a \in Passed : Between(a, n, 2 * j)) => Before(tmin, n, j) /\ After(tmax, n, j)
  /\ shape.kind \notin Round /\ at = "missed" =>
       \A j \in {1, 2} : \A n \in Moments(j) : ~InBox(n, 2 * j)
  /\ shape.kind \notin Round =>
       found = IF at = "hit" /\ shape.kind = "cube" THEN <<tmin, tmax>> ELSE <<>>

(* Each step of the box test keeps what it says of the line.               *)
LEMMA FirstSlabBox ==
  ASSUME SolidTypes, BoxInv, FirstSlab
  PROVE  BoxInv' /\ tmin' \in Int /\ tmax' \in Int
<1>1. /\ Slab("x").min \in Int /\ Slab("x").max \in Int
      /\ \A j \in {1, 2} : \A n \in Moments(j) :
           Between("x", n, 2 * j) => Before(Slab("x").min, n, j) /\ After(Slab("x").max, n, j)
  BY SlabHolds DEF SolidTypes, Axes
<1>2. \A a, n, d : Between(a, n, d)' = Between(a, n, d)
  BY DEF FirstSlab, Between, Place, from, dir
<1>3. /\ at = "x" /\ at' = "y" /\ Passed' = {"x"} /\ shape' = shape /\ found' = found
      /\ tmin' = Slab("x").min /\ tmax' = Slab("x").max
  BY DEF FirstSlab, Passed
<1>4. \A j \in {1, 2} : \A n \in Moments(j) :
        (\A a \in Passed' : Between(a, n, 2 * j)') => Before(tmin', n, j) /\ After(tmax', n, j)
  BY <1>1, <1>2, <1>3
<1>. QED
  BY <1>1, <1>3, <1>4 DEF BoxInv, Before, After

LEMMA MissSlabBox ==
  ASSUME SolidTypes, BoxInv, MissSlab
  PROVE  BoxInv'
<1>. DEFINE s == Slab(at)
<1>1. /\ s.min \in Int /\ s.max \in Int
      /\ \A j \in {1, 2} : \A n \in Moments(j) :
           Between(at, n, 2 * j) => Before(s.min, n, j) /\ After(s.max, n, j)
  BY SlabHolds DEF SolidTypes, Axes, MissSlab
<1>2. /\ at \in {"y", "z"} /\ at' = "missed" /\ shape' = shape /\ found' = found
      /\ shape.kind \notin Round
      /\ Greater(tmin, s.max) \/ Greater(s.min, tmax)
  BY DEF MissSlab, Apart, SolidTypes
<1>3. tmin \in Int /\ tmax \in Int
  BY DEF SolidTypes
<1>4. ASSUME NEW j \in {1, 2}, NEW n \in Moments(j), InBox(n, 2 * j)
      PROVE  FALSE
  <2>1. \A a \in Axes : Between(a, n, 2 * j)
    BY <1>4 DEF InBox, Between
  <2>2. Before(s.min, n, j) /\ After(s.max, n, j)
    BY <1>1, <1>2, <2>1 DEF Axes
  <2>3. Before(tmin, n, j) /\ After(tmax, n, j)
    BY <1>2, <2>1 DEF BoxInv, Narrowing, Passed, Axes
  <2>4. n \in Int
    BY SolidAssumption DEF Moments
  <2>. HIDE DEF s
  <2>5. CASE j = 1
    BY <1>1, <1>2, <1>3, <2>2, <2>3, <2>4, <2>5 DEF Before, After, Greater
  <2>6. CASE j = 2
    BY <1>1, <1>2, <1>3, <2>2, <2>3, <2>4, <2>6 DEF Before, After, Greater
  <2>. QED
    BY <2>5, <2>6
<1>5. \A n, d : InBox(n, d)' = InBox(n, d)
  BY DEF MissSlab, InBox, Place, from, dir
<1>. QED
  BY <1>2, <1>4, <1>5 DEF BoxInv, Narrowing

LEMMA NarrowSlabBox ==
  ASSUME SolidTypes, BoxInv, NarrowSlab
  PROVE  BoxInv' /\ tmin' \in Int /\ tmax' \in Int
<1>. DEFINE s == Slab(at)
<1>1. /\ s.min \in Int /\ s.max \in Int
      /\ \A j \in {1, 2} : \A n \in Moments(j) :
           Between(at, n, 2 * j) => Before(s.min, n, j) /\ After(s.max, n, j)
  BY SlabHolds DEF SolidTypes, Axes, NarrowSlab
<1>2. /\ at \in {"y", "z"} /\ at' = (IF at = "y" THEN "z" ELSE "hit") /\ shape' = shape
      /\ shape.kind \notin Round
      /\ tmin' \in {s.min, tmin} /\ tmax' \in {s.max, tmax}
      /\ found' = IF at = "z" /\ shape.kind = "cube" THEN <<tmin', tmax'>> ELSE found
  BY DEF NarrowSlab, SolidTypes
<1>3. tmin \in Int /\ tmax \in Int
  BY DEF SolidTypes
<1>4. Passed' = Passed \cup {at}
  BY <1>2 DEF Passed, Axes
<1>5. \A a, n, d : Between(a, n, d)' = Between(a, n, d)
  BY DEF NarrowSlab, Between, Place, from, dir
<1>6. ASSUME NEW j \in {1, 2}, NEW n \in Moments(j), \A a \in Passed' : Between(a, n, 2 * j)'
      PROVE  Before(tmin', n, j) /\ After(tmax', n, j)
  <2>1. Between(at, n, 2 * j) /\ \A a \in Passed : Between(a, n, 2 * j)
    BY <1>4, <1>5, <1>6
  <2>2. Before(s.min, n, j) /\ After(s.max, n, j)
    BY <1>1, <2>1
  <2>3. Before(tmin, n, j) /\ After(tmax, n, j)
    BY <1>2, <2>1 DEF BoxInv, Narrowing
  <2>. QED
    BY <1>2, <2>2, <2>3
<1>7. found = <<>>
  BY <1>2 DEF BoxInv
<1>8. at' # "missed" /\ (at' = "hit" <=> at = "z")
  BY <1>2
<1>9. found' = IF at' = "hit" /\ shape'.kind = "cube" THEN <<tmin', tmax'>> ELSE <<>>
  BY <1>2, <1>7, <1>8
<1>. QED
  BY <1>1, <1>2, <1>3, <1>6, <1>8, <1>9 DEF BoxInv, Before, After

(* The times of crossings are among those considered. *)
LEMMA CrossingTimes ==
  ASSUME SolidTypes, NEW t \in Crossings
  PROVE  t \in Moments(1)
<1>1. PICK a \in Axes, face \in Finite :
        dir(a) # 0 /\ t = (face - from(a)) * InverseDirection(a)
  BY DEF Crossings
<1>2. from(a) \in Finite /\ Reciprocal(dir(a), InverseDirection(a))
  BY DirectionFacts DEF SolidTypes
<1>. QED
  BY <1>1, <1>2, SolidAssumption DEF Reciprocal, Finite, Moments

(* A box that the test leaves out holds no place of the line.              *)
LEMMA BoxTest == SolidTypes /\ BoxInv => BoxTestIsConservative
<1>. SUFFICES ASSUME SolidTypes, BoxInv, shape.kind = "bounds", at = "missed",
                     NEW t \in Crossings \cup {0}
              PROVE  ~InBox(t, Halves)
  BY DEF BoxTestIsConservative
<1>1. t \in Moments(1)
  BY CrossingTimes, SolidAssumption DEF Moments
<1>2. ~InBox(t, 2 * 1)
  BY <1>1 DEF BoxInv, Round
<1>. QED
  BY <1>2 DEF Halves

-----------------------------------------------------------------------------
(* The cube.                                                               *)

LEMMA CubeFaces ==
  ASSUME shape \in Shapes, shape.kind = "cube", NEW a \in Axes
  PROVE  /\ shape.min[a] = -Unit /\ shape.max[a] = Unit
         /\ Unit \in Int /\ 0 < Unit /\ Unit <= Limit
BY SolidAssumption

(* The slab of an axis in whose direction the ray moves, and of one in     *)
(* which it does not.                                                      *)
LEMMA CubeSlab ==
  ASSUME shape \in Shapes, ray \in Rays, shape.kind = "cube", NEW a \in Axes
  PROVE  LET u == Unit
             p == from(a)
             i == InverseDirection(a)
             lo == Slab(a).min
             hi == Slab(a).max
         IN  /\ dir(a) # 0 /\ i >= 0 => lo = (-u - p) * i /\ hi = (u - p) * i
             /\ dir(a) # 0 /\ i < 0 => lo = (u - p) * i /\ hi = (-u - p) * i
             /\ dir(a) = 0 /\ -u < p /\ p < u => lo = -Infinity /\ hi = Infinity
             /\ dir(a) = 0 /\ (p < -u \/ u < p) => lo = hi /\ lo \in {-Infinity, Infinity}
<1>1. PICK s \in Finite, v \in Int, i \in Int :
        s = from(a) /\ v = dir(a) /\ i = InverseDirection(a) /\ Reciprocal(v, i)
  BY DirectionFacts
<1>2. PICK f, g : f = -Unit /\ g = Unit
  OBVIOUS
<1>3. f \in Coordinate /\ g \in Coordinate /\ f \in Finite /\ g \in Finite /\ f < g
  BY <1>2, CubeFaces, SolidAssumption DEF Coordinate, Finite
<1>4. PICK lo, hi : lo = Product(Minus(f, s), i) /\ hi = Product(Minus(g, s), i)
  OBVIOUS
<1>5. Slab(a) = IF i >= 0 THEN [min |-> lo, max |-> hi] ELSE [min |-> hi, max |-> lo]
  BY <1>1, <1>2, <1>4, CubeFaces DEF Slab
<1>6. /\ v = 0 => /\ lo = IF f = s THEN NaN ELSE Sign(f - s) * Sign(i) * Infinity
                  /\ hi = IF g = s THEN NaN ELSE Sign(g - s) * Sign(i) * Infinity
      /\ v # 0 => lo = (f - s) * i /\ hi = (g - s) * i
  BY <1>1, <1>3, <1>4, FaceTime
<1>7. s \in Int /\ f \in Int /\ g \in Int /\ Infinity \in Int /\ Infinity > 0
  BY <1>3, SolidAssumption DEF Finite, Infinity
<1>8. CASE v # 0
  BY <1>1, <1>2, <1>5, <1>6, <1>8
<1>9. CASE v = 0 /\ i = Infinity
  <2>1. Sign(i) = 1
    BY <1>7, <1>9 DEF Sign
  <2>2. /\ f < s /\ s < g => lo = -Infinity /\ hi = Infinity
        /\ s < f => lo = Infinity /\ hi = Infinity
        /\ g < s => lo = -Infinity /\ hi = -Infinity
    BY <1>3, <1>6, <1>7, <1>9, <2>1 DEF Sign
  <2>. QED
    BY <1>1, <1>2, <1>5, <1>7, <1>9, <2>2
<1>10. CASE v = 0 /\ i = -Infinity
  <2>1. Sign(i) = -1
    BY <1>7, <1>10 DEF Sign
  <2>2. /\ f < s /\ s < g => lo = Infinity /\ hi = -Infinity
        /\ s < f => lo = -Infinity /\ hi = -Infinity
        /\ g < s => lo = Infinity /\ hi = Infinity
    BY <1>3, <1>6, <1>7, <1>10, <2>1 DEF Sign
  <2>. QED
    BY <1>1, <1>2, <1>5, <1>7, <1>10, <2>2
<1>. QED
  BY <1>1, <1>8, <1>9, <1>10 DEF Reciprocal

(* What there is to know of it: of a ray strictly inside, ...              *)
LEMMA CubeStrict ==
  ASSUME shape \in Shapes, ray \in Rays, shape.kind = "cube", NEW a \in Axes,
         NEW n \in Moments(2), StrictlyBetween(a, n, 4)
  PROVE  /\ Slab(a).min # NaN /\ Slab(a).max # NaN
         /\ Slab(a).min * 2 < n /\ n < Slab(a).max * 2
<1>1. PICK s \in Finite, v \in Int, i \in Int :
        s = from(a) /\ v = dir(a) /\ i = InverseDirection(a) /\ Reciprocal(v, i)
  BY DirectionFacts
<1>2. PICK u \in Int : u = Unit /\ 0 < u /\ u <= Limit
  BY CubeFaces
<1>3. PICK lo \in Int, hi \in Int : lo = Slab(a).min /\ hi = Slab(a).max
  BY SlabHolds
<1>4. -u * 4 < s * 4 + v * n /\ s * 4 + v * n < u * 4
  BY <1>1, <1>2, CubeFaces DEF StrictlyBetween, Place
<1>5. /\ v # 0 /\ i >= 0 => lo = (-u - s) * i /\ hi = (u - s) * i
      /\ v # 0 /\ i < 0 => lo = (u - s) * i /\ hi = (-u - s) * i
      /\ v = 0 /\ -u < s /\ s < u => lo = -Infinity /\ hi = Infinity
  BY <1>1, <1>2, <1>3, CubeSlab
<1>6. lo # NaN /\ hi # NaN /\ lo * 2 < n /\ n < hi * 2
  BY <1>1, <1>2, <1>4, <1>5, SolidAssumption DEF Reciprocal, Moments, Finite, Infinity, NaN
<1>. QED
  BY <1>3, <1>6

(* ... and of all that do not run in the plane of a face.                  *)
LEMMA CubeExact ==
  ASSUME shape \in Shapes, ray \in Rays, shape.kind = "cube", NEW a \in Axes, ~InFacePlane
  PROVE  LET lo == Slab(a).min
             hi == Slab(a).max
         IN  /\ lo # NaN /\ hi # NaN /\ lo <= hi
             /\ \A n \in Moments(1) : lo <= n /\ n <= hi => Between(a, n, 2)
             /\ dir(a) = 0 => lo \in {-Infinity, Infinity} /\ hi \in {-Infinity, Infinity}
             /\ dir(a) # 0 => /\ lo \in Moments(1) /\ ~StrictlyBetween(a, lo, 2)
                              /\ hi \in Moments(1) /\ ~StrictlyBetween(a, hi, 2)
<1>1. PICK s \in Finite, v \in Int, i \in Int :
        s = from(a) /\ v = dir(a) /\ i = InverseDirection(a) /\ Reciprocal(v, i)
  BY DirectionFacts
<1>2. PICK u \in Int : u = Unit /\ 0 < u /\ u <= Limit
  BY CubeFaces
<1>3. PICK lo \in Int, hi \in Int : lo = Slab(a).min /\ hi = Slab(a).max
  BY SlabHolds
<1>4. /\ v # 0 /\ i >= 0 => lo = (-u - s) * i /\ hi = (u - s) * i
      /\ v # 0 /\ i < 0 => lo = (u - s) * i /\ hi = (-u - s) * i
      /\ v = 0 /\ -u < s /\ s < u => lo = -Infinity /\ hi = Infinity
      /\ v = 0 /\ (s < -u \/ u < s) => lo = hi /\ lo \in {-Infinity, Infinity}
  BY <1>1, <1>2, <1>3, CubeSlab
<1>5. v = 0 => s # u /\ s # -u
  BY <1>1, <1>2, CubeFaces DEF InFacePlane
<1>6. \A n \in Int : /\ Between(a, n, 2) <=> -u * 2 <= s * 2 + v * n /\ s * 2 + v * n <= u * 2
                     /\ StrictlyBetween(a, n, 2) <=>
                          -u * 2 < s * 2 + v * n /\ s * 2 + v * n < u * 2
  <2>1. -u # NaN /\ u # NaN
    BY <1>2, SolidAssumption DEF NaN, Infinity
  <2>2. shape.min[a] = -u /\ shape.max[a] = u
    BY <1>2, CubeFaces
  <2>. QED
    BY <1>1, <2>1, <2>2 DEF Between, StrictlyBetween, Place
<1>7. CASE v = 0
  <2>1. /\ lo # NaN /\ hi # NaN /\ lo <= hi
        /\ lo \in {-Infinity, Infinity} /\ hi \in {-Infinity, Infinity}
    BY <1>1, <1>2, <1>4, <1>5, <1>7, SolidAssumption DEF Finite, Infinity, NaN
  <2>2. ASSUME NEW n \in Moments(1), lo <= n, n <= hi
        PROVE  Between(a, n, 2)
    <3>1. n \in Int /\ -Infinity < n /\ n < Infinity
      BY SolidAssumption DEF Moments, Infinity
    <3>2. -u < s /\ s < u
      BY <1>1, <1>2, <1>4, <1>5, <1>7, <2>2, <3>1 DEF Finite
    <3>. QED
      BY <1>1, <1>2, <1>6, <1>7, <3>1, <3>2 DEF Finite
  <2>. QED
    BY <1>1, <1>3, <1>7, <2>1, <2>2
<1>8. CASE v # 0
  <2>1. lo \in Moments(1) /\ hi \in Moments(1) /\ lo # NaN /\ hi # NaN /\ lo <= hi
    BY <1>1, <1>2, <1>4, <1>8, SolidAssumption DEF Finite, Infinity, NaN, Moments, Reciprocal
  <2>2. ~StrictlyBetween(a, lo, 2) /\ ~StrictlyBetween(a, hi, 2)
    BY <1>1, <1>2, <1>4, <1>6, <1>8 DEF Finite, Reciprocal, Infinity
  <2>3. ASSUME NEW n \in Moments(1), lo <= n, n <= hi
        PROVE  Between(a, n, 2)
    <3>1. n \in Int
      BY SolidAssumption DEF Moments
    <3>. QED
      BY <1>1, <1>2, <1>4, <1>6, <1>8, <2>3, <3>1 DEF Finite, Reciprocal, Infinity
  <2>. QED
    BY <1>1, <1>3, <1>8, <2>1, <2>2, <2>3
<1>. QED
  BY <1>7, <1>8

(* The interval so far is that of the part of the line between the faces   *)
(* passed: its ends are on faces, or it has none.                          *)
End(t) ==
  IsInfinite(t) \/ (t \in Moments(1) /\ \E a \in Passed : ~StrictlyBetween(a, t, 2))

StrictInv ==
  \A n \in Moments(2) : (\A a \in Passed : StrictlyBetween(a, n, 4)) =>
    tmin # NaN /\ tmax # NaN /\ tmin * 2 < n /\ n < tmax * 2

ExactInv ==
  ~InFacePlane =>
    /\ tmin # NaN /\ tmax # NaN /\ tmin <= tmax
    /\ \A n \in Moments(1) : tmin <= n /\ n <= tmax => \A a \in Passed : Between(a, n, 2)
    /\ End(tmin) /\ End(tmax)
    /\ (\E a \in Passed : dir(a) # 0) => ~IsInfinite(tmin) /\ ~IsInfinite(tmax)

CubeInv ==
  shape.kind = "cube" /\ at \in {"y", "z", "hit"} => StrictInv /\ ExactInv

(* Infinity and NaN are none of the times considered.                      *)
LEMMA MarkFacts ==
  /\ Infinity \in Int /\ 0 < Infinity /\ NaN \in Int /\ Infinity < NaN
  /\ \A j \in {1, 2} : \A n \in Moments(j) :
       n \in Int /\ -Infinity * j < n /\ n < Infinity * j
  /\ \A n \in Moments(1) : n # NaN /\ ~IsInfinite(n)
BY SolidAssumption DEF Infinity, NaN, Moments, IsInfinite

(* Each step of the cube's test keeps what it says of its interval.        *)
LEMMA FirstSlabCube ==
  ASSUME SolidTypes, FirstSlab
  PROVE  CubeInv'
<1>. SUFFICES ASSUME shape.kind = "cube" PROVE StrictInv' /\ ExactInv'
  BY DEF CubeInv, FirstSlab
<1>1. /\ at' = "y" /\ Passed' = {"x"} /\ UNCHANGED <<shape, ray>>
      /\ tmin' = Slab("x").min /\ tmax' = Slab("x").max
  BY DEF FirstSlab, Passed
<1>2. \A a, n, d : /\ Between(a, n, d)' = Between(a, n, d)
                   /\ StrictlyBetween(a, n, d)' = StrictlyBetween(a, n, d)
  BY <1>1 DEF Between, StrictlyBetween, Place, from, dir
<1>3. InFacePlane' = InFacePlane /\ \A a : dir(a)' = dir(a)
  BY <1>1 DEF InFacePlane, from, dir
<1>4. shape \in Shapes /\ ray \in Rays /\ "x" \in Axes
  BY DEF SolidTypes, Axes
<1>5. StrictInv'
  BY <1>1, <1>2, <1>4, CubeStrict DEF StrictInv
<1>6. ASSUME ~InFacePlane
      PROVE  ExactInv'
  <2>1. PICK lo, hi : lo = tmin' /\ hi = tmax'
    OBVIOUS
  <2>2. /\ lo # NaN /\ hi # NaN /\ lo <= hi
        /\ \A n \in Moments(1) : lo <= n /\ n <= hi => Between("x", n, 2)
        /\ dir("x") = 0 => lo \in {-Infinity, Infinity} /\ hi \in {-Infinity, Infinity}
        /\ dir("x") # 0 => /\ lo \in Moments(1) /\ ~StrictlyBetween("x", lo, 2)
                           /\ hi \in Moments(1) /\ ~StrictlyBetween("x", hi, 2)
    BY <1>1, <1>4, <1>6, <2>1, CubeExact
  <2>3. End(tmin)' /\ End(tmax)'
    BY <1>1, <1>2, <2>1, <2>2 DEF End, IsInfinite
  <2>4. dir("x") # 0 => ~IsInfinite(lo) /\ ~IsInfinite(hi)
    BY <2>2, MarkFacts
  <2>. QED
    BY <1>1, <1>2, <1>3, <2>1, <2>2, <2>3, <2>4 DEF ExactInv
<1>. QED
  BY <1>3, <1>5, <1>6 DEF ExactInv

LEMMA NarrowSlabCube ==
  ASSUME SolidTypes, CubeInv, NarrowSlab
  PROVE  CubeInv'
<1>. SUFFICES ASSUME shape.kind = "cube" PROVE StrictInv' /\ ExactInv'
  BY DEF CubeInv, NarrowSlab
<1>1. PICK lo \in Int, hi \in Int : lo = Slab(at).min /\ hi = Slab(at).max
  BY SlabHolds DEF SolidTypes, Axes, NarrowSlab
<1>2. /\ at \in {"y", "z"} /\ at' = (IF at = "y" THEN "z" ELSE "hit") /\ UNCHANGED <<shape, ray>>
      /\ ~(Greater(tmin, hi) \/ Greater(lo, tmax))
      /\ tmin' = IF Greater(lo, tmin) THEN lo ELSE tmin
      /\ tmax' = IF Greater(tmax, hi) THEN hi ELSE tmax
  BY <1>1 DEF NarrowSlab, Apart
<1>3. tmin \in Int /\ tmax \in Int /\ shape \in Shapes /\ ray \in Rays /\ at \in Axes
  BY <1>2 DEF SolidTypes, Axes
<1>4. Passed' = Passed \cup {at}
  BY <1>2 DEF Passed, Axes
<1>5. \A a, n, d : /\ Between(a, n, d)' = Between(a, n, d)
                   /\ StrictlyBetween(a, n, d)' = StrictlyBetween(a, n, d)
  BY <1>2 DEF Between, StrictlyBetween, Place, from, dir
<1>6. InFacePlane' = InFacePlane /\ \A a : dir(a)' = dir(a)
  BY <1>2 DEF InFacePlane, from, dir
<1>7. StrictInv /\ ExactInv
  BY <1>2 DEF CubeInv
<1>8. ASSUME NEW n \in Moments(2), \A a \in Passed' : StrictlyBetween(a, n, 4)'
      PROVE  tmin' # NaN /\ tmax' # NaN /\ tmin' * 2 < n /\ n < tmax' * 2
  <2>1. lo # NaN /\ hi # NaN /\ lo * 2 < n /\ n < hi * 2
    BY <1>1, <1>3, <1>4, <1>5, <1>8, CubeStrict
  <2>2. tmin # NaN /\ tmax # NaN /\ tmin * 2 < n /\ n < tmax * 2
    BY <1>4, <1>5, <1>7, <1>8 DEF StrictInv
  <2>. QED
    BY <1>2, <2>1, <2>2
<1>9. ASSUME ~InFacePlane
      PROVE  ExactInv'
  <2>1. /\ lo # NaN /\ hi # NaN /\ lo <= hi
        /\ \A n \in Moments(1) : lo <= n /\ n <= hi => Between(at, n, 2)
        /\ dir(at) = 0 => lo \in {-Infinity, Infinity} /\ hi \in {-Infinity, Infinity}
        /\ dir(at) # 0 => /\ lo \in Moments(1) /\ ~StrictlyBetween(at, lo, 2)
                          /\ hi \in Moments(1) /\ ~StrictlyBetween(at, hi, 2)
    BY <1>1, <1>3, <1>9, CubeExact
  <2>2. /\ tmin # NaN /\ tmax # NaN /\ tmin <= tmax
        /\ \A n \in Moments(1) : tmin <= n /\ n <= tmax => \A a \in Passed : Between(a, n, 2)
        /\ End(tmin) /\ End(tmax)
        /\ (\E a \in Passed : dir(a) # 0) => ~IsInfinite(tmin) /\ ~IsInfinite(tmax)
    BY <1>7, <1>9 DEF ExactInv
  <2>3. PICK low \in Int, high \in Int : low = tmin' /\ high = tmax'
    BY <1>1, <1>2, <1>3
  <2>4. /\ tmin <= hi /\ lo <= tmax
        /\ low = IF lo > tmin THEN lo ELSE tmin
        /\ high = IF tmax > hi THEN hi ELSE tmax
    BY <1>1, <1>2, <1>3, <2>1, <2>2, <2>3 DEF Greater
  <2>5. /\ low # NaN /\ high # NaN /\ low <= high
        /\ low >= lo /\ low >= tmin /\ high <= hi /\ high <= tmax
        /\ low \in {lo, tmin} /\ high \in {hi, tmax}
    BY <1>3, <2>1, <2>2, <2>4
  <2>6. \A n \in Moments(1) : low <= n /\ n <= high => \A a \in Passed' : Between(a, n, 2)'
    <3>1. SUFFICES ASSUME NEW n \in Moments(1), low <= n, n <= high
                   PROVE  Between(at, n, 2) /\ \A a \in Passed : Between(a, n, 2)
      BY <1>4, <1>5
    <3>2. n \in Int
      BY MarkFacts
    <3>3. lo <= n /\ n <= hi /\ tmin <= n /\ n <= tmax
      BY <1>3, <2>5, <3>1, <3>2
    <3>. QED
      BY <2>1, <2>2, <3>3
  <2>7. \A t : End(t) \/ t \in {lo, hi} => End(t)'
    <3>1. ASSUME NEW t, End(t)
          PROVE  End(t)'
      BY <1>4, <1>5, <3>1 DEF End
    <3>2. ASSUME NEW t \in {lo, hi}
          PROVE  End(t)'
      BY <1>4, <1>5, <2>1, <3>2 DEF End, IsInfinite
    <3>. QED
      BY <3>1, <3>2
  <2>8. End(tmin)' /\ End(tmax)'
    <3>1. End(low)' /\ End(high)'
      BY <2>2, <2>5, <2>7
    <3>. QED
      BY <2>3, <3>1 DEF End
  <2>9. ASSUME \E a \in Passed' : dir(a)' # 0
        PROVE  ~IsInfinite(low) /\ ~IsInfinite(high)
    <3>1. CASE \E a \in Passed : dir(a) # 0
      <4>1. ~IsInfinite(tmin) /\ ~IsInfinite(tmax) /\ tmin \in Moments(1) /\ tmax \in Moments(1)
        BY <2>2, <3>1 DEF End
      <4>2. /\ -Infinity < tmin /\ tmin < Infinity /\ -Infinity < tmax /\ tmax < Infinity
        BY <4>1, MarkFacts
      <4>. QED
        BY <1>3, <2>4, <2>5, <4>2, MarkFacts DEF IsInfinite
    <3>2. CASE dir(at) # 0
      <4>1. /\ -Infinity < lo /\ lo < Infinity /\ -Infinity < hi /\ hi < Infinity
        BY <2>1, <3>2, MarkFacts
      <4>. QED
        BY <1>3, <2>4, <2>5, <4>1, MarkFacts DEF IsInfinite
    <3>. QED
      BY <1>4, <1>6, <2>9, <3>1, <3>2
  <2>. QED
    BY <2>3, <2>5, <2>6, <2>8, <2>9 DEF ExactInv
<1>. QED
  BY <1>6, <1>8, <1>9 DEF StrictInv, ExactInv

(* Some axis was one in whose direction the ray moves.                     *)
LEMMA SomeDirection ==
  ASSUME ray \in Rays
  PROVE  \E a \in Axes : dir(a) # 0
<1>1. PICK a \in Axes : ray.direction[a].size # 0
  BY SolidAssumption
<1>2. ray \in Ray
  BY SolidAssumption
<1>3. ray.direction[a] \in Component
  BY <1>2 DEF Ray
<1>. QED
  BY <1>1, <1>3 DEF dir, Value, Component

(* A line through the inside of the cube has two ends, and no hit is       *)
(* anywhere else than on its faces.                                        *)
LEMMA CubeEnds ==
  ASSUME SolidTypes, BoxInv, CubeInv, shape.kind = "cube", at \in {"hit", "missed"}
  PROVE  /\ MeetsInside => Len(found) = 2 /\ ~SameTime(found[1], found[2])
         /\ ~InFacePlane => \A j \in DOMAIN found : OnCube(found[j])
<1>. USE DEF SolidTypes
<1>1. ASSUME MeetsInside
      PROVE  Len(found) = 2 /\ ~SameTime(found[1], found[2])
  <2>1. PICK s \in Crossings, t \in Crossings : InsideBox(s + t, 2 * Halves)
    BY <1>1 DEF MeetsInside
  <2>2. s \in Moments(1) /\ t \in Moments(1)
    BY CrossingTimes
  <2>3. PICK n \in Moments(2) : n = s + t
    BY <2>2, SolidAssumption DEF Moments
  <2>4. \A a \in Axes : StrictlyBetween(a, n, 4)
    BY <2>1, <2>3 DEF InsideBox, StrictlyBetween, Halves
  <2>5. at = "hit"
    <3>1. SUFFICES InBox(n, 2 * 2)
      BY <2>3 DEF BoxInv, Round
    <3>2. ASSUME NEW a \in Axes
          PROVE  shape.min[a] * 4 <= Place(a, n, 4) /\ Place(a, n, 4) <= shape.max[a] * 4
      <4>1. shape.min[a] \in Int /\ shape.max[a] \in Int
        BY CubeFaces
      <4>2. from(a) \in Int /\ dir(a) \in Int /\ n \in Int
        BY DirectionFacts, MarkFacts, SolidAssumption DEF Finite
      <4>3. Place(a, n, 4) \in Int
        BY <4>2 DEF Place
      <4>. QED
        BY <2>4, <4>1, <4>3 DEF StrictlyBetween
    <3>. QED
      BY <3>2 DEF InBox
  <2>6. tmin # NaN /\ tmax # NaN /\ tmin * 2 < n /\ n < tmax * 2
    BY <2>4, <2>5 DEF CubeInv, StrictInv, Passed
  <2>7. tmin # tmax
    BY <2>6, MarkFacts
  <2>8. found = <<tmin, tmax>>
    BY <2>5 DEF BoxInv, Round
  <2>. QED
    BY <2>7, <2>8 DEF SameTime
<1>2. ASSUME ~InFacePlane, at = "hit"
      PROVE  \A j \in DOMAIN found : OnCube(found[j])
  <2>1. /\ tmin # NaN /\ tmax # NaN /\ tmin <= tmax
        /\ \A n \in Moments(1) : tmin <= n /\ n <= tmax => \A a \in Axes : Between(a, n, 2)
        /\ End(tmin) /\ End(tmax)
        /\ ~IsInfinite(tmin) /\ ~IsInfinite(tmax)
    BY <1>2, SomeDirection DEF CubeInv, ExactInv, Passed
  <2>2. ASSUME NEW t \in {tmin, tmax}
        PROVE  OnCube(t)
    <3>1. t \in Moments(1) /\ \E a \in Axes : ~StrictlyBetween(a, t, 2)
      BY <1>2, <2>1, <2>2 DEF End, Passed
    <3>2. \A a \in Axes : Between(a, t, 2)
      BY <2>1, <2>2, <3>1
    <3>. QED
      BY <2>1, <2>2, <3>1, <3>2
      DEF OnCube, InBox, InsideBox, Between, StrictlyBetween, Halves
  <2>3. found = <<tmin, tmax>>
    BY <1>2 DEF BoxInv, Round
  <2>. QED
    BY <2>2, <2>3
<1>3. at = "missed" => found = <<>>
  BY DEF BoxInv, Round
<1>. QED
  BY <1>1, <1>2, <1>3

-----------------------------------------------------------------------------
(* Cylinders and cones.                                                    *)

LEMMA SignFacts ==
  ASSUME NEW n \in Int
  PROVE  /\ Sign(n) \in {-1, 0, 1} /\ Sign(n) \in Int
         /\ n # 0 => Sign(n) \in {-1, 1} /\ Sign(n) * Sign(n) = 1 /\ n * Sign(n) > 0
         /\ n * Sign(n) \in Nat /\ (n = 0 => Sign(n) = 0)
BY DEF Sign

(* All quantities of the quadratic equation are integers.                  *)
LEMMA QuadraticFacts ==
  ASSUME shape \in Shapes, ray \in Rays
  PROVE  /\ from("x") \in Int /\ from("y") \in Int /\ from("z") \in Int
         /\ dir("x") \in Int /\ dir("y") \in Int /\ dir("z") \in Int
         /\ shape.min["y"] \in Int /\ shape.max["y"] \in Int
         /\ A \in Int /\ B \in Int /\ C \in Int /\ Disc \in Int /\ Unit \in Int
<1>1. ray \in Ray /\ shape \in Shape
  BY SolidAssumption
<1>2. ASSUME NEW a \in Axes
      PROVE  from(a) \in Int /\ dir(a) \in Int
  BY <1>1, <1>2, SolidAssumption DEF from, dir, Value, Ray, Component, Finite
<1>3. shape.min["y"] \in Int /\ shape.max["y"] \in Int
  <2>1. Coordinate \subseteq Int
    BY SolidAssumption DEF Coordinate, Finite, NaN, Infinity
  <2>. QED
    BY <1>1, <2>1 DEF Shape, Axes
<1>4. /\ from("x") \in Int /\ from("y") \in Int /\ from("z") \in Int
      /\ dir("x") \in Int /\ dir("y") \in Int /\ dir("z") \in Int /\ Unit \in Int
  BY <1>2, SolidAssumption DEF Axes
<1>5. A \in Int /\ B \in Int /\ C \in Int
  <2>1. \A n \in Int : OfCone(n) \in Int
    BY DEF OfCone
  <2>. QED
    BY <1>4, <2>1 DEF A, B, C
<1>6. Disc \in Int
  BY <1>5 DEF Disc
<1>. QED
  BY <1>3, <1>4, <1>5, <1>6

(* The sign of p + q * sqrt(Disc), given the squares of both.              *)
IsPositive(p, q, pp, qq) ==
  \/ p >= 0 /\ q >= 0 /\ (p > 0 \/ qq > 0)
  \/ p > 0 /\ q < 0 /\ pp > qq
  \/ p < 0 /\ q > 0 /\ pp < qq

LEMMA PositiveIs ==
  ASSUME Disc \in Int
  PROVE  \A p, q \in Int : \E pp \in Nat, qq \in Int :
           /\ pp = p * p /\ qq = q * q * Disc
           /\ (q = 0 => qq = 0) /\ (Disc >= 0 => qq >= 0) /\ (q # 0 /\ Disc > 0 => qq > 0)
           /\ Positive(p, q) <=> IsPositive(p, q, pp, qq)
           /\ Positive(-p, -q) <=> IsPositive(-p, -q, pp, qq)
<1>. SUFFICES ASSUME NEW p \in Int, NEW q \in Int
              PROVE  \E pp \in Nat, qq \in Int :
                       /\ pp = p * p /\ qq = q * q * Disc
                       /\ (q = 0 => qq = 0) /\ (Disc >= 0 => qq >= 0)
                       /\ (q # 0 /\ Disc > 0 => qq > 0)
                       /\ Positive(p, q) <=> IsPositive(p, q, pp, qq)
                       /\ Positive(-p, -q) <=> IsPositive(-p, -q, pp, qq)
  OBVIOUS
<1>1. PICK n \in Nat : n = q * q
  OBVIOUS
<1>2. PICK pp \in Nat, qq \in Int : pp = p * p /\ qq = n * Disc
  OBVIOUS
<1>3. (q = 0 => n = 0) /\ (q # 0 => n > 0)
  BY <1>1
<1>4. (q = 0 => qq = 0) /\ (Disc >= 0 => qq >= 0) /\ (q # 0 /\ Disc > 0 => qq > 0)
  BY <1>2, <1>3
<1>5. qq = q * q * Disc
  BY <1>1, <1>2
<1>6. /\ (-p) * (-p) = pp /\ (-q) * (-q) = n /\ (-q) * (-q) * Disc = qq
  BY <1>1, <1>2
<1>7. Positive(p, q) <=> IsPositive(p, q, pp, qq)
  BY <1>2, <1>5 DEF Positive, IsPositive
<1>8. Positive(-p, -q) <=> IsPositive(-p, -q, pp, qq)
  BY <1>6 DEF Positive, IsPositive
<1>. QED
  BY <1>2, <1>4, <1>5, <1>7, <1>8

(* No number is both positive and negative.                                *)
LEMMA NotBoth ==
  ASSUME Disc \in Int, Disc >= 0, NEW p \in Int, NEW q \in Int
  PROVE  ~(Positive(p, q) /\ Positive(-p, -q))
<1>1. PICK pp \in Nat, qq \in Int :
        /\ (q = 0 => qq = 0) /\ qq >= 0
        /\ Positive(p, q) <=> IsPositive(p, q, pp, qq)
        /\ Positive(-p, -q) <=> IsPositive(-p, -q, pp, qq)
  BY PositiveIs
<1>. QED
  BY <1>1 DEF IsPositive

(* A time solves the equation of the wall: completing the square.          *)
LEMMA Square ==
  ASSUME NEW a \in Int, NEW b \in Int, NEW c \in Int, NEW m \in Int, NEW n \in Int
  PROVE  4 * a * (a * m * m + b * m * n + c * n * n)
           = (2 * a * m + b * n) * (2 * a * m + b * n) - n * n * (b * b - 4 * a * c)
OBVIOUS

(* The two circles: how far inside of a cylinder the ray is at time m / n. *)
LEMMA Circle ==
  ASSUME NEW ox \in Int, NEW oz \in Int, NEW dx \in Int, NEW dz \in Int, NEW u \in Int,
         NEW m \in Int, NEW n \in Int
  PROVE  u * n * n - (ox * n + dx * m) * (ox * n + dx * m) - (oz * n + dz * m) * (oz * n + dz * m)
           = -((dx * dx + dz * dz) * m * m + (2 * ox * dx + 2 * oz * dz) * m * n
               + (ox * ox + oz * oz - u) * n * n)
OBVIOUS

(* The height of the ray where it is closest to the axis of a cylinder,    *)
(* above a given height, times 2 A.                                        *)
Middle(h) == (from("y") - h) * (2 * A) - dir("y") * B

(* What the general definitions are for a cylinder: A is positive unless   *)
(* the ray is parallel to the axis.                                        *)
LEMMA CylinderFacts ==
  ASSUME shape \in Shapes, ray \in Rays, shape.kind = "cylinder"
  PROVE  /\ A = dir("x") * dir("x") + dir("z") * dir("z")
         /\ B = 2 * from("x") * dir("x") + 2 * from("z") * dir("z")
         /\ C = from("x") * from("x") + from("z") * from("z") - Unit * Unit
         /\ A >= 0 /\ (A = 0 => dir("x") = 0 /\ dir("z") = 0 /\ dir("y") # 0)
         /\ MaxHits = 2 /\ \A h : CapRadius(h) = Unit * Unit
<1>1. /\ from("x") \in Int /\ from("z") \in Int /\ dir("x") \in Int /\ dir("z") \in Int
      /\ Unit \in Int
  BY QuadraticFacts
<1>2. \A n : OfCone(n) = 0
  BY DEF OfCone
<1>3. /\ A = dir("x") * dir("x") + dir("z") * dir("z")
      /\ B = 2 * from("x") * dir("x") + 2 * from("z") * dir("z")
      /\ C = from("x") * from("x") + from("z") * from("z") - Unit * Unit
  BY <1>1, <1>2 DEF A, B, C
<1>4. A >= 0 /\ (A = 0 => dir("x") = 0 /\ dir("z") = 0)
  <2>1. PICK x \in Int, z \in Int : x = dir("x") /\ z = dir("z")
    BY <1>1
  <2>2. x * x >= 0 /\ z * z >= 0 /\ (x # 0 => x * x > 0) /\ (z # 0 => z * z > 0)
    OBVIOUS
  <2>. QED
    BY <1>3, <2>1, <2>2
<1>5. A = 0 => dir("y") # 0
  <2>1. PICK a \in Axes : ray.direction[a].size # 0
    BY SolidAssumption
  <2>2. ray.direction[a] \in Component
    BY SolidAssumption DEF Ray
  <2>3. dir(a) # 0
    BY <2>1, <2>2 DEF dir, Value, Component
  <2>. QED
    BY <1>4, <2>3 DEF Axes
<1>6. MaxHits = 2 /\ \A h : CapRadius(h) = Unit * Unit
  BY DEF MaxHits, CapRadius
<1>. QED
  BY <1>3, <1>4, <1>5, <1>6

(* A root, and where it is with respect to a height.                       *)
LEMMA CylinderRoot ==
  ASSUME shape \in Shapes, ray \in Rays, shape.kind = "cylinder", A # 0,
         NEW q \in Int, NEW h \in Int
  PROVE  /\ Root(q) = [p |-> -B, q |-> q, den |-> 2 * A]
         /\ Middle(h) \in Int
         /\ Above(Root(q), h) <=> Positive(Middle(h), dir("y") * q)
         /\ Below(Root(q), h) <=> Positive(-Middle(h), -(dir("y") * q))
<1>1. PICK a \in Int, b \in Int, y \in Int, v \in Int :
        a = A /\ b = B /\ y = from("y") /\ v = dir("y") /\ a > 0
  BY QuadraticFacts, CylinderFacts
<1>2. Sign(A) = 1
  BY <1>1 DEF Sign
<1>3. Root(q) = [p |-> -b, q |-> q, den |-> 2 * a]
  BY <1>1, <1>2 DEF Root
<1>4. Middle(h) = (y - h) * (2 * a) - v * b /\ Middle(h) \in Int
  BY <1>1 DEF Middle
<1>5. /\ (y - h) * (2 * a) + v * (-b) = Middle(h)
      /\ (h - y) * (2 * a) - v * (-b) = -Middle(h)
      /\ (-v) * q = -(v * q)
  BY <1>4
<1>. QED
  BY <1>1, <1>3, <1>4, <1>5 DEF Above, Below

(* How far inside the cylinder the ray is at a time without a root.        *)
LEMMA InsideCylinder ==
  ASSUME shape \in Shapes, ray \in Rays, shape.kind = "cylinder",
         NEW t, t.p \in Int, t.den \in Int
  PROVE  /\ Inside(t, Unit * Unit) \in Int
         /\ 4 * A * Inside(t, Unit * Unit)
              = t.den * t.den * Disc - (2 * A * t.p + B * t.den) * (2 * A * t.p + B * t.den)
<1>1. PICK ox \in Int, oz \in Int, dx \in Int, dz \in Int, u \in Int :
        /\ ox = from("x") /\ oz = from("z") /\ dx = dir("x") /\ dz = dir("z")
        /\ u = Unit * Unit
  BY QuadraticFacts
<1>2. PICK m \in Int, n \in Int : m = t.p /\ n = t.den
  OBVIOUS
<1>3. PICK a \in Int, b \in Int, c \in Int : a = A /\ b = B /\ c = C
  BY QuadraticFacts
<1>4. a = dx * dx + dz * dz /\ b = 2 * ox * dx + 2 * oz * dz /\ c = ox * ox + oz * oz - u
  BY <1>1, <1>3, CylinderFacts
<1>5. Inside(t, Unit * Unit)
        = u * n * n - (ox * n + dx * m) * (ox * n + dx * m) - (oz * n + dz * m) * (oz * n + dz * m)
  BY <1>1, <1>2 DEF Inside
<1>6. Inside(t, Unit * Unit) = -(a * m * m + b * m * n + c * n * n)
  BY <1>4, <1>5, Circle
<1>7. PICK i \in Int : i = a * m * m + b * m * n + c * n * n
  OBVIOUS
<1>8. 4 * a * i = (2 * a * m + b * n) * (2 * a * m + b * n) - n * n * (b * b - 4 * a * c)
  BY <1>7, Square
<1>9. Disc = b * b - 4 * a * c
  BY <1>3 DEF Disc
<1>10. Inside(t, Unit * Unit) = -i /\ 4 * a * (-i) = -(4 * a * i)
  BY <1>6, <1>7
<1>. QED
  BY <1>2, <1>3, <1>8, <1>9, <1>10

(* The ray is within a cap exactly if it passes it between the two roots.  *)
LEMMA WithinCapIs ==
  ASSUME shape \in Shapes, ray \in Rays, shape.kind = "cylinder", A # 0, dir("y") # 0,
         NEW h \in Int
  PROVE  WithinCap(h) <=> Middle(h) * Middle(h) <= dir("y") * dir("y") * Disc
<1>0. /\ A \in Int /\ B \in Int /\ from("y") \in Int /\ dir("y") \in Int /\ Disc \in Int
      /\ A > 0
  <2>1. /\ A \in Int /\ B \in Int /\ from("y") \in Int /\ dir("y") \in Int /\ Disc \in Int
    BY QuadraticFacts
  <2>2. A > 0
    BY <2>1, CylinderFacts
  <2>. QED
    BY <2>1, <2>2
<1>1. PICK a \in Int, b \in Int, y \in Int, v \in Int, w \in Int :
        a = A /\ b = B /\ y = from("y") /\ v = dir("y") /\ w = Disc /\ a > 0
  BY <1>0
<1>2. PICK s \in {-1, 1} : s = Sign(dir("y"))
  BY <1>1, SignFacts
<1>3. PICK t : t = AtHeight(h)
  OBVIOUS
<1>4. t.p = (h - y) * s /\ t.den = v * s /\ t.p \in Int /\ t.den \in Int
  BY <1>1, <1>2, <1>3 DEF AtHeight
<1>5. PICK i \in Int : i = Inside(t, Unit * Unit)
  BY <1>4, InsideCylinder
<1>6. PICK r \in Int : r = 2 * a * t.p + b * t.den
  BY <1>4
<1>7. 4 * a * i = t.den * t.den * w - r * r
  BY <1>1, <1>4, <1>5, <1>6, InsideCylinder
<1>8. t.den * t.den = v * v
  BY <1>4
<1>9. Middle(h) = -(r * s)
  <2>1. Middle(h) = (y - h) * (2 * a) - v * b
    BY <1>1 DEF Middle
  <2>2. CASE s = 1
    BY <1>4, <1>6, <2>1, <2>2
  <2>3. CASE s = -1
    BY <1>4, <1>6, <2>1, <2>3
  <2>. QED
    BY <2>2, <2>3
<1>10. Middle(h) * Middle(h) = r * r
  BY <1>9
<1>11. i >= 0 <=> 4 * a * i >= 0
  BY <1>1
<1>12. WithinCap(h) <=> i >= 0
  BY <1>3, <1>5, CylinderFacts DEF WithinCap
<1>13. 4 * a * i = v * v * w - Middle(h) * Middle(h)
  BY <1>7, <1>8, <1>10
<1>14. v * v * w \in Int /\ Middle(h) * Middle(h) \in Int /\ 4 * a * i \in Int
  BY <1>1, <1>9
<1>. QED
  BY <1>1, <1>11, <1>12, <1>13, <1>14

(* Arithmetic that the solver needs a hand with.                           *)
LEMMA Scale ==
  ASSUME NEW s \in Int, NEW a \in Int, NEW b \in Int, s > 0
  PROVE  a < b <=> s * a < s * b
<1>1. PICK c \in Int : c = b - a
  OBVIOUS
<1>2. c > 0 => s * c > 0
  BY <1>1
<1>3. c <= 0 => s * c <= 0
  BY <1>1
<1>4. s * c = s * b - s * a
  BY <1>1
<1>. QED
  BY <1>1, <1>2, <1>3, <1>4

LEMMA Squares ==
  ASSUME NEW x \in Int, NEW z \in Int, 0 <= x, x <= z
  PROVE  x * x <= z * z
<1>1. z * z - x * x = (z - x) * (z + x)
  OBVIOUS
<1>2. (z - x) * (z + x) >= 0
  OBVIOUS
<1>. QED
  BY <1>1, <1>2

(* If a ray is inside of a cylinder and above a height at one time, and    *)
(* below it in the middle, then it passes the height before it leaves.     *)
LEMMA Reach ==
  ASSUME NEW n \in Int, n > 0, NEW g \in Int, g >= 0, NEW m \in Int, m < 0,
         NEW v \in Int, NEW w \in Int, NEW e \in Int,
         n * m = g - v * w, w * w < n * n * e
  PROVE  m * m < v * v * e
<1>1. PICK d \in Int, x \in Int, z \in Int : d = -m /\ x = n * d /\ z = v * w
  OBVIOUS
<1>2. x = z - g /\ d > 0
  BY <1>1
<1>3. x > 0
  BY <1>1, <1>2
<1>4. x * x <= z * z /\ z # 0
  BY <1>2, <1>3, Squares
<1>5. v # 0
  BY <1>1, <1>4
<1>6. PICK vv \in Int, ww \in Int, nn \in Int, dd \in Int :
        vv = v * v /\ ww = w * w /\ nn = n * n /\ dd = d * d
  OBVIOUS
<1>7. vv > 0 /\ nn > 0
  BY <1>5, <1>6
<1>8. x * x = nn * dd /\ z * z = vv * ww
  BY <1>1, <1>6
<1>9. vv * ww < vv * (nn * e)
  BY <1>6, <1>7, Scale
<1>10. vv * (nn * e) = nn * (vv * e)
  OBVIOUS
<1>11. nn * dd < nn * (vv * e)
  BY <1>4, <1>8, <1>9, <1>10
<1>12. dd < vv * e
  BY <1>7, <1>11, Scale
<1>. QED
  BY <1>1, <1>6, <1>12

(* The places of the two ends of a cylinder, seen along the direction.     *)
Lower == OnWall(Root(-Sign(dir("y"))))
Upper == OnWall(Root(Sign(dir("y"))))

(* The sign of the direction can be taken out of it.                       *)
LEMMA Signs ==
  ASSUME NEW v \in Int, NEW s, s = Sign(v), v # 0
  PROVE  s \in {-1, 1} /\ v * s > 0 /\ v * (-s) = -(v * s) /\ (-v) * (-s) = v * s
         /\ (v * s) * (v * s) = v * v
BY DEF Sign

(* Where the roots are, in terms of squares.                               *)
LEMMA EndFacts ==
  ASSUME shape \in Shapes, ray \in Rays, shape.kind = "cylinder", A # 0, dir("y") # 0,
         NEW m, m = Middle(shape.min["y"]), NEW n, n = Middle(shape.max["y"]),
         NEW e, e = dir("y") * dir("y") * Disc
  PROVE  /\ m \in Int /\ n \in Int /\ e \in Int
         /\ WithinCap(shape.min["y"]) <=> m * m <= e
         /\ WithinCap(shape.max["y"]) <=> n * n <= e
         /\ Lower <=> /\ m > 0 /\ m * m > e
                      /\ n < 0 \/ (n = 0 /\ e > 0) \/ (n > 0 /\ n * n < e)
         /\ Upper <=> /\ n < 0 /\ n * n > e
                      /\ m > 0 \/ (m = 0 /\ e > 0) \/ (m < 0 /\ m * m < e)
<1>1. /\ shape.min["y"] \in Int /\ shape.max["y"] \in Int /\ dir("y") \in Int /\ Disc \in Int
  BY QuadraticFacts
<1>2. PICK v \in Int, s \in {-1, 1}, w \in Int :
        v = dir("y") /\ s = Sign(dir("y")) /\ w = v * s
  BY <1>1, Signs
<1>3. w > 0 /\ v * (-s) = -w /\ w * w = v * v
  BY <1>2, Signs
<1>4. m \in Int /\ n \in Int /\ e \in Int
  <2>1. \A h \in Int : Middle(h) \in Int
    BY <1>2, CylinderRoot
  <2>. QED
    BY <1>1, <2>1
<1>5. /\ WithinCap(shape.min["y"]) <=> m * m <= e
      /\ WithinCap(shape.max["y"]) <=> n * n <= e
  BY <1>1, WithinCapIs
<1>6. -s \in Int /\ s \in Int
  BY <1>2
<1>7. Lower <=> Positive(m, -w) /\ Positive(-n, -(-w))
  BY <1>1, <1>2, <1>3, <1>6, CylinderRoot DEF Lower, OnWall
<1>8. Upper <=> Positive(m, w) /\ Positive(-n, -w)
  BY <1>1, <1>2, <1>3, <1>6, CylinderRoot DEF Upper, OnWall
<1>9. w * w * Disc = e /\ (-w) * (-w) * Disc = e /\ -(-w) = w
  BY <1>1, <1>2, <1>3
<1>10. (-n) * (-n) = n * n
  BY <1>4
<1>11. /\ Positive(m, -w) <=> m > 0 /\ m * m > e
       /\ Positive(-n, -w) <=> n < 0 /\ n * n > e
  BY <1>3, <1>4, <1>9, <1>10 DEF Positive
<1>12. /\ Positive(m, w) <=> m > 0 \/ (m = 0 /\ e > 0) \/ (m < 0 /\ m * m < e)
       /\ Positive(-n, w) <=> n < 0 \/ (n = 0 /\ e > 0) \/ (n > 0 /\ n * n < e)
  BY <1>3, <1>4, <1>9, <1>10 DEF Positive
<1>. QED
  BY <1>4, <1>5, <1>7, <1>8, <1>9, <1>11, <1>12

(* A number without a root.                                                *)
LEMMA Flat ==
  ASSUME Disc \in Int, NEW p \in Int
  PROVE  Positive(p, 0) <=> p > 0
<1>1. 0 * 0 * Disc = 0
  OBVIOUS
<1>. QED
  BY <1>1 DEF Positive

(* At a time without a root. *)
LEMMA HeightFacts ==
  ASSUME ray \in Rays, shape \in Shapes,
         NEW t, t.p \in Int, t.den \in Int, t.q = 0, NEW h \in Int
  PROVE  LET g == (from("y") - h) * t.den + dir("y") * t.p
         IN  g \in Int /\ (Above(t, h) <=> g > 0) /\ (Below(t, h) <=> g < 0)
<1>1. PICK y \in Int, v \in Int, m \in Int, n \in Int :
        y = from("y") /\ v = dir("y") /\ m = t.p /\ n = t.den
  BY QuadraticFacts
<1>2. PICK g \in Int : g = (y - h) * n + v * m
  OBVIOUS
<1>3. (h - y) * n - v * m = -g /\ v * 0 = 0 /\ (-v) * 0 = 0
  BY <1>2
<1>4. Above(t, h) <=> Positive(g, 0)
  BY <1>1, <1>2, <1>3 DEF Above
<1>5. Below(t, h) <=> Positive(-g, 0)
  BY <1>1, <1>2, <1>3 DEF Below
<1>. QED
  BY <1>1, <1>2, <1>4, <1>5, Flat, QuadraticFacts

(* A ray that is inside of a cylinder at some time.                        *)
LEMMA InsideFacts ==
  ASSUME shape \in Shapes, ray \in Rays, shape.kind = "cylinder", A # 0,
         NEW t, t.p \in Int, t.den \in Int, t.q = 0, t.den > 0,
         Inside(t, Unit * Unit) > 0,
         NEW m, m = Middle(shape.min["y"]), NEW n, n = Middle(shape.max["y"]),
         NEW e, e = dir("y") * dir("y") * Disc
  PROVE  /\ Disc > 0
         /\ InHeight(t) /\ dir("y") # 0 =>
              e > 0 /\ (m < 0 => m * m < e) /\ (n > 0 => n * n < e)
<1>1. PICK a \in Int, b \in Int, y \in Int, v \in Int, w \in Int :
        a = A /\ b = B /\ y = from("y") /\ v = dir("y") /\ w = Disc
  BY QuadraticFacts
<1>2. PICK lo \in Int, hi \in Int : lo = shape.min["y"] /\ hi = shape.max["y"]
  BY QuadraticFacts
<1>3. a > 0
  BY <1>1, CylinderFacts
<1>4. PICK p \in Int, d \in Int, i \in Int, r \in Int :
        p = t.p /\ d = t.den /\ i = Inside(t, Unit * Unit) /\ r = 2 * a * p + b * d
  BY InsideCylinder
<1>5. 4 * a * i = d * d * w - r * r
  BY <1>1, <1>4, InsideCylinder
<1>6. 4 * a * i > 0
  BY <1>3, <1>4
<1>7. r * r < d * d * w /\ r * r >= 0
  <2>1. PICK rr \in Int, kk \in Int : rr = r * r /\ kk = d * d * w
    OBVIOUS
  <2>2. rr >= 0
    BY <2>1
  <2>. QED
    BY <1>5, <1>6, <2>1, <2>2
<1>8. w > 0
  <2>1. PICK kk \in Int : kk = d * d
    OBVIOUS
  <2>2. kk >= 0
    BY <2>1
  <2>3. kk * w > 0
    BY <1>7, <2>1
  <2>. QED
    BY <2>2, <2>3
<1>9. ASSUME InHeight(t), v # 0
      PROVE  e > 0 /\ (m < 0 => m * m < e) /\ (n > 0 => n * n < e)
  <2>1. PICK g \in Int, f \in Int : g = (y - lo) * d + v * p /\ f = -((y - hi) * d + v * p)
    OBVIOUS
  <2>2. g >= 0 /\ f >= 0
    <3>1. Below(t, lo) <=> (y - lo) * d + v * p < 0
      BY <1>1, <1>4, HeightFacts
    <3>2. Above(t, hi) <=> (y - hi) * d + v * p > 0
      BY <1>1, <1>4, HeightFacts
    <3>. QED
      BY <1>2, <1>9, <2>1, <3>1, <3>2 DEF InHeight
  <2>3. m = (y - lo) * (2 * a) - v * b /\ n = (y - hi) * (2 * a) - v * b
    BY <1>1, <1>2 DEF Middle
  <2>4. m \in Int /\ n \in Int
    BY <2>3
  <2>5. d * m = 2 * a * g - v * r
    BY <1>4, <2>1, <2>3
  <2>6. d * (-n) = 2 * a * f - v * (-r)
    <3>1. PICK c \in Int : c = y - hi
      OBVIOUS
    <3>2. f = -(c * d + v * p) /\ n = c * (2 * a) - v * b
      BY <2>1, <2>3, <3>1
    <3>3. d * n = 2 * a * (c * d + v * p) - v * r
      BY <1>4, <3>2
    <3>4. 2 * a * (c * d + v * p) = -(2 * a * f)
      BY <3>2
    <3>5. PICK kn \in Int, vr \in Int : kn = d * n /\ vr = v * r
      BY <2>4
    <3>6. d * (-n) = -kn /\ v * (-r) = -vr
      BY <2>4, <3>5
    <3>. QED
      BY <3>3, <3>4, <3>5, <3>6
  <2>7. PICK gg \in Int, ff \in Int :
          gg = 2 * a * g /\ ff = 2 * a * f /\ gg >= 0 /\ ff >= 0
    BY <1>3, <2>2
  <2>8. (-r) * (-r) = r * r /\ (-n) * (-n) = n * n
    BY <2>4
  <2>9. m < 0 => m * m < v * v * w
    <3>1. d > 0 /\ gg >= 0 /\ r * r < d * d * w
      BY <1>4, <1>7, <2>7
    <3>2. ASSUME NEW l \in Int, l < 0, d * l = gg - v * r
          PROVE  l * l < v * v * w
      BY <3>1, <3>2, Reach, Zenon
    <3>3. d * m = gg - v * r
      BY <2>5, <2>7
    <3>. QED
      BY <2>4, <3>2, <3>3
  <2>10. n > 0 => n * n < v * v * w
    <3>1. SUFFICES ASSUME n > 0
                   PROVE  (-n) * (-n) < v * v * w
      BY <2>8
    <3>2. -n \in Int /\ -n < 0 /\ -r \in Int /\ (-r) * (-r) < d * d * w
      BY <1>7, <2>4, <2>8, <3>1
    <3>3. d * (-n) = ff - v * (-r)
      BY <2>6, <2>7
    <3>4. d > 0 /\ ff >= 0
      BY <1>4, <2>7
    <3>. QED
      BY <3>2, <3>3, <3>4, Reach, Zenon
  <2>11. v * v * w > 0
    <3>1. v * v > 0
      BY <1>9
    <3>. QED
      BY <1>8, <3>1
  <2>. QED
    BY <1>1, <2>9, <2>10, <2>11
<1>. QED
  BY <1>1, <1>8, <1>9

(* The two ends are met once each: on the wall or at a cap.                *)
LEMMA EndsOnce ==
  ASSUME shape \in Shapes, ray \in Rays, shape.kind = "cylinder", A # 0, dir("y") # 0,
         shape.min["y"] < shape.max["y"],
         NEW t, t.p \in Int, t.den \in Int, t.q = 0, t.den > 0,
         Inside(t, Unit * Unit) > 0, InHeight(t)
  PROVE  /\ Lower <=> ~WithinCap(shape.min["y"])
         /\ Upper <=> ~WithinCap(shape.max["y"])
<1>1. PICK m, n, e : /\ m = Middle(shape.min["y"]) /\ n = Middle(shape.max["y"])
                     /\ e = dir("y") * dir("y") * Disc
  OBVIOUS
<1>2. /\ m \in Int /\ n \in Int /\ e \in Int
      /\ WithinCap(shape.min["y"]) <=> m * m <= e
      /\ WithinCap(shape.max["y"]) <=> n * n <= e
      /\ Lower <=> /\ m > 0 /\ m * m > e
                   /\ n < 0 \/ (n = 0 /\ e > 0) \/ (n > 0 /\ n * n < e)
      /\ Upper <=> /\ n < 0 /\ n * n > e
                   /\ m > 0 \/ (m = 0 /\ e > 0) \/ (m < 0 /\ m * m < e)
  BY <1>1, EndFacts
<1>3. e > 0 /\ (m < 0 => m * m < e) /\ (n > 0 => n * n < e)
  BY <1>1, InsideFacts
<1>4. PICK mm \in Int, nn \in Int : mm = m * m /\ nn = n * n
  BY <1>2
<1>5. (m = 0 => mm = 0) /\ (n = 0 => nn = 0)
  BY <1>2, <1>4
<1>. QED
  BY <1>2, <1>3, <1>4, <1>5

(* Nothing is its own opposite.                                            *)
LEMMA MinusNothing == \A n \in Int : n + n = 0 => -n = n
OBVIOUS

LEMMA FlatZero ==
  ASSUME Disc \in Int, NEW p \in Int, NEW q \in Int, q = 0
  PROVE  Zero(p, q) <=> p = 0
<1>1. -p \in Int /\ -q = q
  <2>1. -p \in Int /\ q + q = 0
    OBVIOUS
  <2>. QED
    BY <2>1, MinusNothing, Zenon
<1>2. /\ Positive(p, q) <=> p > 0
      /\ Positive(-p, -q) <=> -p > 0
  BY <1>1, Flat
<1>. QED
  BY <1>2 DEF Zero

(* A multiple of the root is not zero.                                     *)
LEMMA SteepZero ==
  ASSUME Disc \in Int, Disc > 0, NEW p \in Int, NEW q \in Int, p = 0, q # 0
  PROVE  ~Zero(p, q)
<1>1. PICK c \in Int : c = q * q
  OBVIOUS
<1>2. c > 0 /\ (-q) * (-q) = c /\ p + p = 0
  BY <1>1
<1>3. c * Disc > 0 /\ -p = p
  <2>1. -p = p
    BY <1>2, MinusNothing, Zenon
  <2>2. c * Disc > 0
    BY <1>2
  <2>. QED
    BY <2>1, <2>2
<1>4. Positive(p, q) \/ Positive(-p, -q)
  BY <1>1, <1>2, <1>3 DEF Positive
<1>. QED
  BY <1>4 DEF Zero

(* The two roots are two times, and so are those of two caps.              *)
LEMMA RootsApart ==
  ASSUME shape \in Shapes, ray \in Rays, shape.kind = "cylinder", A # 0, Disc > 0
  PROVE  ~SameTime(Root(-1), Root(1))
<1>1. PICK a \in Int, b \in Int : a = A /\ b = B /\ a > 0
  <2>1. A \in Int /\ B \in Int
    BY QuadraticFacts
  <2>2. A > 0
    BY <2>1, CylinderFacts
  <2>. QED
    BY <2>1, <2>2
<1>2. /\ Root(-1) = [p |-> -b, q |-> -1, den |-> 2 * a]
      /\ Root(1) = [p |-> -b, q |-> 1, den |-> 2 * a]
  BY <1>1, CylinderRoot
<1>3. PICK p \in Int, q \in Int :
        p = (-b) * (2 * a) - (-b) * (2 * a) /\ q = (-1) * (2 * a) - 1 * (2 * a)
  OBVIOUS
<1>4. p = 0 /\ q # 0
  BY <1>1, <1>3
<1>5. SameTime(Root(-1), Root(1)) <=> Zero(p, q)
  BY <1>2, <1>3 DEF SameTime
<1>. QED
  BY <1>4, <1>5, SteepZero, QuadraticFacts

LEMMA CapsApart ==
  ASSUME shape \in Shapes, ray \in Rays, shape.kind = "cylinder", dir("y") # 0,
         shape.min["y"] # shape.max["y"]
  PROVE  ~SameTime(AtHeight(shape.min["y"]), AtHeight(shape.max["y"]))
<1>1. PICK y \in Int, v \in Int, f \in Int, g \in Int :
        y = from("y") /\ v = dir("y") /\ f = shape.min["y"] /\ g = shape.max["y"]
  BY QuadraticFacts
<1>2. PICK s \in {-1, 1} : s = Sign(dir("y"))
  BY <1>1, Signs
<1>3. PICK c \in Int : c = ((f - y) * s) * (v * s) - ((g - y) * s) * (v * s)
  BY <1>2
<1>4. c = (f - g) * v
  <2>1. CASE s = 1
    BY <1>3, <2>1
  <2>2. CASE s = -1
    <3>1. c = (-(f - y)) * (-v) - (-(g - y)) * (-v)
      BY <1>3, <2>2
    <3>. QED
      BY <3>1
  <2>. QED
    BY <2>1, <2>2
<1>5. c # 0
  <2>1. f - g # 0 /\ v # 0
    BY <1>1
  <2>. QED
    BY <1>4, <2>1
<1>6. PICK q \in Int : q = 0 * (v * s) - 0 * (v * s) /\ q = 0
  BY <1>2
<1>7. SameTime(AtHeight(f), AtHeight(g)) <=> Zero(c, q)
  BY <1>1, <1>2, <1>3, <1>6 DEF SameTime, AtHeight
<1>. QED
  BY <1>1, <1>5, <1>6, <1>7, FlatZero, QuadraticFacts

(* A hit on the wall at the time of one at a cap is in the cap's plane.    *)
LEMMA WallAndCapApart ==
  ASSUME shape \in Shapes, ray \in Rays, shape.kind = "cylinder", A # 0, dir("y") # 0,
         NEW q \in Int, NEW h \in Int
  PROVE  SameTime(Root(q), AtHeight(h)) => InCapPlane(Root(q), h)
<1>1. PICK a \in Int, b \in Int, y \in Int, v \in Int :
        a = A /\ b = B /\ y = from("y") /\ v = dir("y")
  BY QuadraticFacts
<1>2. PICK s \in {-1, 1} : s = Sign(dir("y"))
  BY <1>1, Signs
<1>3. /\ Root(q) = [p |-> -b, q |-> q, den |-> 2 * a]
      /\ AtHeight(h) = [p |-> (h - y) * s, q |-> 0, den |-> v * s]
      /\ Above(Root(q), h) <=> Positive(Middle(h), v * q)
      /\ Below(Root(q), h) <=> Positive(-Middle(h), -(v * q))
  BY <1>1, <1>2, CylinderRoot DEF AtHeight
<1>4. PICK m \in Int : m = Middle(h) /\ m = (y - h) * (2 * a) - v * b
  BY <1>1 DEF Middle
<1>5. SameTime(Root(q), AtHeight(h))
        <=> Zero((-b) * (v * s) - ((h - y) * s) * (2 * a), q * (v * s) - 0 * (2 * a))
  BY <1>3 DEF SameTime
<1>6. CASE s = 1
  <2>1. (-b) * (v * s) - ((h - y) * s) * (2 * a) = m /\ q * (v * s) - 0 * (2 * a) = v * q
    BY <1>4, <1>6
  <2>. QED
    BY <1>3, <1>4, <1>5, <2>1 DEF Zero, InCapPlane
<1>7. CASE s = -1
  <2>1. (-b) * (v * s) - ((h - y) * s) * (2 * a) = -m /\ q * (v * s) - 0 * (2 * a) = -(v * q)
    BY <1>4, <1>7
  <2>2. -(-m) = m /\ -(-(v * q)) = v * q
    OBVIOUS
  <2>. QED
    BY <1>3, <1>4, <1>5, <2>1, <2>2 DEF Zero, InCapPlane
<1>. QED
  BY <1>6, <1>7

(* The hits on the wall, and all of them.                                  *)
WallHits ==
  IF A = 0 THEN IF shape.kind = "cone" /\ B # 0 THEN <<Parallel>> ELSE <<>>
           ELSE Wall(-1) \o Wall(1)
AllHits == WallHits \o Cap(shape.min["y"]) \o Cap(shape.max["y"])

Marks == {Root(-1), Root(1), Parallel} \cup {AtHeight(h) : h \in CapHeights}
Count(b) == IF b THEN 1 ELSE 0

(* How many hits there are of each kind.                                   *)
LEMMA Parts ==
  /\ \A q \in {-1, 1} : Wall(q) \in Seq(Marks) /\ Len(Wall(q)) = Count(OnWall(Root(q)))
  /\ \A h \in CapHeights : /\ Cap(h) \in Seq(Marks)
                           /\ Len(Cap(h)) = Count(dir("y") # 0 /\ WithinCap(h))
  /\ WallHits \in Seq(Marks)
  /\ Len(WallHits) = IF A = 0 THEN Count(shape.kind = "cone" /\ B # 0)
                     ELSE Count(OnWall(Root(-1))) + Count(OnWall(Root(1)))
  /\ AllHits \in Seq(Marks)
  /\ Len(AllHits) = Len(WallHits) + Len(Cap(shape.min["y"])) + Len(Cap(shape.max["y"]))
<1>. DEFINE M == Marks
<1>1. /\ \A t \in M : <<t>> \in Seq(M) /\ Len(<<t>>) = 1
      /\ <<>> \in Seq(M) /\ Len(<<>>) = 0
  <2>. HIDE DEF M
  <2>. QED
    OBVIOUS
<1>2. /\ Root(-1) \in M /\ Root(1) \in M /\ Parallel \in M
      /\ \A h \in CapHeights : AtHeight(h) \in M
  BY DEF Marks
<1>. HIDE DEF M
<1>3. \A q \in {-1, 1} : Wall(q) \in Seq(M) /\ Len(Wall(q)) = Count(OnWall(Root(q)))
  BY <1>1, <1>2 DEF Wall, Count
<1>4. \A h \in CapHeights : /\ Cap(h) \in Seq(M)
                            /\ Len(Cap(h)) = Count(dir("y") # 0 /\ WithinCap(h))
  BY <1>1, <1>2 DEF Cap, Count
<1>5. /\ WallHits \in Seq(M)
      /\ Len(WallHits) = IF A = 0 THEN Count(shape.kind = "cone" /\ B # 0)
                         ELSE Count(OnWall(Root(-1))) + Count(OnWall(Root(1)))
  <2>1. CASE A = 0
    BY <1>1, <1>2, <2>1 DEF WallHits, Count
  <2>2. CASE A # 0
    <3>1. Wall(-1) \in Seq(M) /\ Wall(1) \in Seq(M)
      BY <1>3
    <3>2. /\ Wall(-1) \o Wall(1) \in Seq(M)
          /\ Len(Wall(-1) \o Wall(1)) = Len(Wall(-1)) + Len(Wall(1))
      BY <3>1, ConcatProperties
    <3>. QED
      BY <1>3, <2>2, <3>2 DEF WallHits
  <2>. QED
    BY <2>1, <2>2
<1>6. /\ AllHits \in Seq(M)
      /\ Len(AllHits) = Len(WallHits) + Len(Cap(shape.min["y"])) + Len(Cap(shape.max["y"]))
  <2>1. Cap(shape.min["y"]) \in Seq(M) /\ Cap(shape.max["y"]) \in Seq(M)
    BY <1>4 DEF CapHeights
  <2>2. /\ WallHits \o Cap(shape.min["y"]) \in Seq(M)
        /\ Len(WallHits \o Cap(shape.min["y"])) = Len(WallHits) + Len(Cap(shape.min["y"]))
    BY <1>5, <2>1, ConcatProperties
  <2>. QED
    BY <2>1, <2>2, ConcatProperties DEF AllHits
<1>. QED
  BY <1>3, <1>4, <1>5, <1>6 DEF M

LEMMA MaxHitsIs == MaxHits = IF shape.kind = "cone" THEN 4 ELSE 2
BY DEF MaxHits

(* An edge counts at most once, so no cylinder has three hits.             *)
LEMMA CapCount ==
  ASSUME shape \in Shapes, ray \in Rays, shape.kind \in Round, A = 0 \/ Disc >= 0
  PROVE  Len(AllHits) <= MaxHits
<1>1. PICK wa, wb, ca, cb : /\ wa = OnWall(Root(-1)) /\ wb = OnWall(Root(1))
                            /\ ca = (dir("y") # 0 /\ WithinCap(shape.min["y"]))
                            /\ cb = (dir("y") # 0 /\ WithinCap(shape.max["y"]))
  OBVIOUS
<1>2. Len(AllHits) = (IF A = 0 THEN Count(shape.kind = "cone" /\ B # 0) ELSE Count(wa) + Count(wb))
                       + Count(ca) + Count(cb)
  BY <1>1, Parts DEF CapHeights
<1>3. \A b : Count(b) \in {0, 1}
  BY DEF Count
<1>4. CASE shape.kind = "cone"
  <2>1. Len(AllHits) <= 4
    BY <1>2, <1>3
  <2>. QED
    BY <1>4, <2>1, MaxHitsIs
<1>5. CASE shape.kind = "cylinder" /\ A = 0
  <2>1. Count(shape.kind = "cone" /\ B # 0) = 0
    BY <1>5 DEF Count
  <2>2. Len(AllHits) = 0 + Count(ca) + Count(cb)
    BY <1>2, <1>5, <2>1
  <2>3. Len(AllHits) <= 2
    <3>1. Count(ca) \in {0, 1} /\ Count(cb) \in {0, 1}
      BY <1>3
    <3>. QED
      BY <2>2, <3>1
  <2>. QED
    BY <1>5, <2>3, MaxHitsIs
<1>6. CASE shape.kind = "cylinder" /\ A # 0 /\ dir("y") = 0
  <2>1. Count(ca) = 0 /\ Count(cb) = 0
    BY <1>1, <1>6 DEF Count
  <2>2. Len(AllHits) <= 2
    BY <1>2, <1>3, <1>6, <2>1
  <2>. QED
    BY <1>6, <2>2, MaxHitsIs
<1>7. CASE shape.kind = "cylinder" /\ A # 0 /\ dir("y") # 0
  <2>1. PICK m, n, e : /\ m = Middle(shape.min["y"]) /\ n = Middle(shape.max["y"])
                       /\ e = dir("y") * dir("y") * Disc
    OBVIOUS
  <2>2. /\ Lower => ~WithinCap(shape.min["y"])
        /\ Upper => ~WithinCap(shape.max["y"])
    <3>1. /\ m \in Int /\ n \in Int /\ e \in Int
          /\ WithinCap(shape.min["y"]) <=> m * m <= e
          /\ WithinCap(shape.max["y"]) <=> n * n <= e
          /\ Lower => m * m > e
          /\ Upper => n * n > e
      BY <1>7, <2>1, EndFacts
    <3>2. m * m \in Int /\ n * n \in Int
      BY <3>1
    <3>. QED
      BY <3>1, <3>2
  <2>3. Count(wa) + Count(wb) = Count(Lower) + Count(Upper)
    <3>1. PICK s \in {-1, 1} : s = Sign(dir("y"))
      BY <1>7, Signs, QuadraticFacts
    <3>2. CASE s = 1
      BY <1>1, <1>3, <3>1, <3>2 DEF Lower, Upper
    <3>3. CASE s = -1
      <4>1. -s = 1
        <5>1. s \in Int /\ s + 1 = 0 /\ \A c \in Int : c + 1 = 0 => -c = 1
          BY <3>3
        <5>. QED
          BY <5>1, Zenon
      <4>. QED
        BY <1>1, <1>3, <3>1, <3>3, <4>1 DEF Lower, Upper
    <3>. QED
      BY <3>2, <3>3
  <2>4. Len(AllHits) = Count(Lower) + Count(Upper) + Count(ca) + Count(cb)
    BY <1>2, <1>3, <1>7, <2>3
  <2>5. Count(Lower) + Count(ca) <= 1 /\ Count(Upper) + Count(cb) <= 1
    <3>1. (Count(Lower) = 0 \/ Count(ca) = 0) /\ (Count(Upper) = 0 \/ Count(cb) = 0)
      BY <1>1, <2>2 DEF Count
    <3>2. /\ Count(Lower) \in {0, 1} /\ Count(ca) \in {0, 1}
          /\ Count(Upper) \in {0, 1} /\ Count(cb) \in {0, 1}
      BY <1>3
    <3>. QED
      BY <3>1, <3>2
  <2>6. Len(AllHits) <= 2
    BY <1>3, <2>4, <2>5
  <2>. QED
    BY <1>7, <2>6, MaxHitsIs
<1>. QED
  BY <1>4, <1>5, <1>6, <1>7 DEF Round

Good(t) ==
  \/ InHeight(t) /\ (SolvesWall(t) \/ OnCap(t) \/ OnAcceptedCap(t))
  \/ ParallelHit(t)

(* A root on the wall is on the surface, and not beyond an end of it.      *)
LEMMA WallGood ==
  ASSUME shape \in Shapes, ray \in Rays, A # 0, Disc >= 0,
         NEW q \in {-1, 1}, OnWall(Root(q))
  PROVE  InHeight(Root(q)) /\ SolvesWall(Root(q))
<1>1. PICK a \in Int, b \in Int, c \in Int, y \in Int, v \in Int, s \in {-1, 1} :
        /\ a = A /\ b = B /\ c = C /\ y = from("y") /\ v = dir("y") /\ s = Sign(A)
  <2>1. A \in Int /\ B \in Int /\ C \in Int /\ from("y") \in Int /\ dir("y") \in Int
    BY QuadraticFacts
  <2>2. Sign(A) \in {-1, 1}
    BY <2>1, Signs
  <2>. QED
    BY <2>1, <2>2
<1>2. PICK w \in Int : w = Disc /\ w = b * b - 4 * a * c
  BY <1>1 DEF Disc
<1>3. Root(q) = [p |-> -b * s, q |-> q, den |-> 2 * a * s]
  BY <1>1 DEF Root
<1>4. PICK p \in Int, n \in Int : p = -b * s /\ n = 2 * a * s
  BY <1>1
<1>5. ASSUME NEW h \in Int
      PROVE  ~(Above(Root(q), h) /\ Below(Root(q), h))
  <2>1. PICK g \in Int, f \in Int : g = (y - h) * n + v * p /\ f = v * q
    OBVIOUS
  <2>2. (h - y) * n - v * p = -g /\ (-v) * q = -f
    BY <2>1
  <2>3. Above(Root(q), h) <=> Positive(g, f)
    BY <1>1, <1>3, <1>4, <2>1 DEF Above
  <2>4. Below(Root(q), h) <=> Positive(-g, -f)
    BY <1>1, <1>3, <1>4, <2>2 DEF Below
  <2>. QED
    BY <2>3, <2>4, NotBoth, QuadraticFacts
<1>6. InHeight(Root(q))
  BY <1>5, QuadraticFacts DEF OnWall, InHeight
<1>7. SolvesWall(Root(q))
  <2>1. PICK pp \in Int, pn \in Int, nn \in Int :
          pp = p * p /\ pn = p * n /\ nn = n * n
    OBVIOUS
  <2>2. pp = b * b /\ nn = 4 * a * a /\ pn = -(2 * a * b)
    <3>1. CASE s = 1
      BY <1>4, <2>1, <3>1
    <3>2. CASE s = -1
      <4>1. p = b /\ n = -(2 * a)
        BY <1>4, <3>2
      <4>. QED
        BY <2>1, <4>1
    <3>. QED
      BY <3>1, <3>2
  <2>3. q * q = 1
    OBVIOUS
  <2>4. PICK e \in Int : e = a * (p * p + q * q * w) + b * p * n + c * n * n
    OBVIOUS
  <2>5. e = a * (pp + w) + b * pn + c * nn
    BY <2>1, <2>3, <2>4
  <2>6. e = 0
    BY <1>2, <2>2, <2>5
  <2>7. PICK f \in Int : f = 2 * a * p * q + b * q * n
    OBVIOUS
  <2>8. f = 0
    <3>1. CASE s = 1
      BY <1>4, <2>7, <3>1
    <3>2. CASE s = -1
      <4>1. p = b /\ n = -(2 * a)
        BY <1>4, <3>2
      <4>. QED
        BY <2>7, <4>1
    <3>. QED
      BY <3>1, <3>2
  <2>9. SolvesWall(Root(q)) <=> Zero(e, f)
    BY <1>1, <1>2, <1>3, <1>4, <2>4, <2>7 DEF SolvesWall
  <2>. QED
    BY <2>6, <2>8, <2>9, FlatZero, QuadraticFacts
<1>. QED
  BY <1>6, <1>7

(* A hit in the plane of a cap is within the cap, or within what check_cap *)
(* takes for the cap of a cone.                                            *)
LEMMA CapGood ==
  ASSUME shape \in Shapes, ray \in Rays, shape.kind \in Round, shape.closed,
         shape.min["y"] <= shape.max["y"],
         NEW h \in CapHeights, dir("y") # 0, WithinCap(h)
  PROVE  Good(AtHeight(h))
<1>1. PICK y \in Int, v \in Int, lo \in Int, hi \in Int :
        y = from("y") /\ v = dir("y") /\ lo = shape.min["y"] /\ hi = shape.max["y"]
  BY QuadraticFacts
<1>2. PICK s \in {-1, 1} : s = Sign(dir("y")) /\ v * s > 0
  BY <1>1, Signs
<1>3. h \in Int /\ lo <= h /\ h <= hi
  BY <1>1 DEF CapHeights
<1>0. PICK t : t = AtHeight(h)
  OBVIOUS
<1>4. PICK p \in Int, n \in Int :
        p = (h - y) * s /\ n = v * s /\ n > 0
  BY <1>1, <1>2, <1>3
<1>5. t = [p |-> p, q |-> 0, den |-> n]
  BY <1>0, <1>1, <1>2, <1>4 DEF AtHeight
<1>6. v * p = (h - y) * n
  <2>1. CASE s = 1
    BY <1>3, <1>4, <2>1
  <2>2. CASE s = -1
    BY <1>3, <1>4, <2>2
  <2>. QED
    BY <2>1, <2>2
<1>7. ASSUME NEW g \in Int
      PROVE  /\ g <= h => ~Below(t, g)
             /\ h <= g => ~Above(t, g)
  <2>1. /\ Above(t, g) <=> (y - g) * n + v * p > 0
        /\ Below(t, g) <=> (y - g) * n + v * p < 0
    BY <1>1, <1>5, HeightFacts
  <2>2. (y - g) * n + v * p = (h - g) * n
    BY <1>3, <1>6
  <2>3. /\ g <= h => (h - g) * n >= 0
        /\ h <= g => (h - g) * n <= 0
    BY <1>3, <1>4
  <2>. QED
    BY <2>1, <2>2, <2>3
<1>8. InHeight(t) /\ InCapPlane(t, h)
  BY <1>1, <1>3, <1>7 DEF InHeight, InCapPlane
<1>9. Inside(t, CapRadius(h)) >= 0
  BY <1>0 DEF WithinCap
<1>10. CASE shape.kind = "cone" /\ CapRadius(h) # h * h
  BY <1>0, <1>5, <1>8, <1>9, <1>10 DEF Good, OnAcceptedCap
<1>11. CASE shape.kind = "cone" /\ CapRadius(h) = h * h
  BY <1>0, <1>5, <1>8, <1>9, <1>11 DEF Good, OnCap
<1>12. CASE shape.kind = "cylinder"
  BY <1>0, <1>5, <1>8, <1>9, <1>12 DEF Good, OnCap, CapRadius
<1>. QED
  BY <1>10, <1>11, <1>12 DEF Round

(* Every hit is on the wall or a cap, or that of a ray parallel to a cone. *)
LEMMA HitsGood ==
  ASSUME shape \in Shapes, ray \in Rays, shape.kind \in Round,
         shape.min["y"] <= shape.max["y"], A = 0 \/ Disc >= 0
  PROVE  /\ \A j \in DOMAIN WallHits : Good(WallHits[j])
         /\ shape.closed => \A j \in DOMAIN AllHits : Good(AllHits[j])
<1>. DEFINE G == {t \in Marks : Good(t)}
<1>1. \A t \in G : <<t>> \in Seq(G)
  <2>. HIDE DEF G
  <2>. QED
    OBVIOUS
<1>2. <<>> \in Seq(G)
  OBVIOUS
<1>3. ASSUME NEW s \in Seq(G)
      PROVE  \A j \in DOMAIN s : Good(s[j])
  <2>1. s \in [1 .. Len(s) -> G]
    <3>. HIDE DEF G
    <3>. QED
      BY LenProperties
  <2>. QED
    BY <2>1
<1>4. WallHits \in Seq(G)
  <2>1. CASE A = 0
    <3>1. shape.kind = "cone" /\ B # 0 => Parallel \in G
      BY <2>1 DEF Good, ParallelHit, Marks
    <3>2. WallHits = <<>> \/ (shape.kind = "cone" /\ B # 0 /\ WallHits = <<Parallel>>)
      BY <2>1 DEF WallHits
    <3>. QED
      BY <1>1, <1>2, <3>1, <3>2
  <2>2. CASE A # 0
    <3>1. ASSUME NEW q \in {-1, 1}
          PROVE  Wall(q) \in Seq(G)
      <4>1. OnWall(Root(q)) => Root(q) \in G
        BY <2>2, WallGood DEF Good, Marks
      <4>. QED
        BY <1>1, <1>2, <4>1 DEF Wall
    <3>2. Wall(-1) \in Seq(G) /\ Wall(1) \in Seq(G)
      BY <3>1
    <3>3. WallHits = Wall(-1) \o Wall(1)
      BY <2>2 DEF WallHits
    <3>. HIDE DEF G
    <3>. QED
      BY <3>2, <3>3, ConcatProperties
  <2>. QED
    BY <2>1, <2>2
<1>5. ASSUME shape.closed
      PROVE  AllHits \in Seq(G)
  <2>1. ASSUME NEW h \in CapHeights
        PROVE  Cap(h) \in Seq(G)
    <3>1. dir("y") # 0 /\ WithinCap(h) => AtHeight(h) \in G
      BY <1>5, CapGood DEF Marks
    <3>. QED
      BY <1>1, <1>2, <3>1 DEF Cap
  <2>2. Cap(shape.min["y"]) \in Seq(G) /\ Cap(shape.max["y"]) \in Seq(G)
    BY <2>1 DEF CapHeights
  <2>. HIDE DEF G
  <2>3. WallHits \o Cap(shape.min["y"]) \in Seq(G)
    BY <1>4, <2>2, ConcatProperties
  <2>. QED
    BY <2>2, <2>3, ConcatProperties DEF AllHits
<1>. QED
  BY <1>3, <1>4, <1>5

(* Sequences of two.                                                       *)
LEMMA Pair ==
  ASSUME NEW s, NEW t
  PROVE  <<s>> \o <<t>> = <<s, t>>
<1>. DEFINE S == {s, t}
<1>1. <<s>> \in Seq(S) /\ <<t>> \in Seq(S) /\ <<s, t>> \in Seq(S)
  OBVIOUS
<1>2. Len(<<s>>) = 1 /\ Len(<<t>>) = 1 /\ Len(<<s, t>>) = 2
  OBVIOUS
<1>. HIDE DEF S
<1>3. PICK c : c = <<s>> \o <<t>>
  OBVIOUS
<1>4. /\ c \in Seq(S) /\ Len(c) = 2
      /\ \A i \in 1 .. 2 : c[i] = IF i <= 1 THEN <<s>>[i] ELSE <<t>>[i - 1]
  BY <1>1, <1>2, <1>3, ConcatProperties
<1>5. c[1] = s /\ c[2] = t
  BY <1>4
<1>6. \A i \in 1 .. 2 : c[i] = <<s, t>>[i]
  BY <1>5
<1>. QED
  BY <1>1, <1>2, <1>3, <1>4, <1>6, SeqEqual

LEMMA PairFacts ==
  ASSUME NEW s, NEW t
  PROVE  Len(<<s, t>>) = 2 /\ <<s, t>>[1] = s /\ <<s, t>>[2] = t
OBVIOUS

LEMMA Alone ==
  ASSUME NEW s
  PROVE  <<s>> \o <<>> = <<s>> /\ <<>> \o <<s>> = <<s>> /\ Len(<<s>>) = 1
<1>1. <<s>> \in Seq({s}) /\ Len(<<s>>) = 1
  OBVIOUS
<1>. QED
  BY <1>1, ConcatEmptySeq, Zenon

LEMMA Filled ==
  ASSUME NEW s, NEW t
  PROVE  <<s, t>> \o <<>> = <<s, t>>
<1>1. <<s, t>> \in Seq({s, t})
  OBVIOUS
<1>. QED
  BY <1>1, ConcatEmptySeq, Zenon

LEMMA Nothing == <<>> \o <<>> = <<>> /\ Len(<<>>) = 0
OBVIOUS

(* A ray through the inside of a closed cylinder meets both ends.          *)
LEMMA CylinderEnds ==
  ASSUME shape \in Shapes, ray \in Rays, shape.kind = "cylinder", shape.closed, MeetsInside,
         NEW hits, hits = IF Len(WallHits) < MaxHits THEN AllHits ELSE WallHits
  PROVE  /\ A = 0 \/ Disc > 0
         /\ Len(hits) = 2 /\ ~SameTime(hits[1], hits[2])
<1>. DEFINE lo == shape.min["y"]
            hi == shape.max["y"]
<1>1. PICK t \in [p : {-(B \div 2)}, q : {0}, den : {A} \ {0}]
                     \cup {AtHeight(h) : h \in {g \in CapHeights : dir("y") # 0}} :
        /\ Inside(t, Unit * Unit) > 0
        /\ IF dir("y") = 0 THEN OnWall(t) ELSE InHeight(t)
  BY DEF MeetsInside
<1>2. lo < hi /\ lo \in Int /\ hi \in Int /\ dir("y") \in Int
  BY QuadraticFacts DEF MeetsInside
<1>3. t.p \in Int /\ t.den \in Int /\ t.q = 0 /\ t.den > 0
  <2>1. CASE t \in [p : {-(B \div 2)}, q : {0}, den : {A} \ {0}]
    <3>1. A \in Int /\ A >= 0 /\ B \div 2 \in Int
      BY QuadraticFacts, CylinderFacts
    <3>. QED
      BY <2>1, <3>1
  <2>2. CASE \E h \in CapHeights : dir("y") # 0 /\ t = AtHeight(h)
    <3>1. PICK h \in CapHeights : dir("y") # 0 /\ t = AtHeight(h)
      BY <2>2
    <3>2. h \in Int /\ from("y") \in Int
      BY <1>2, QuadraticFacts DEF CapHeights
    <3>3. PICK s \in {-1, 1} : s = Sign(dir("y")) /\ dir("y") * s > 0
      BY <1>2, <3>1, Signs
    <3>. QED
      BY <1>2, <3>1, <3>2, <3>3 DEF AtHeight
  <2>. QED
    BY <1>1, <2>1, <2>2
<1>4. A # 0 => Disc > 0
  BY <1>1, <1>3, InsideFacts
<1>5. CASE A = 0
  <2>1. dir("y") # 0 /\ dir("x") = 0 /\ dir("z") = 0
    BY <1>5, CylinderFacts
  <2>2. PICK g \in CapHeights : t = AtHeight(g)
    BY <1>1, <1>5
  <2>3. ASSUME NEW h \in CapHeights
        PROVE  WithinCap(h)
    <3>1. PICK x \in Int, z \in Int, u \in Int :
            x = from("x") /\ z = from("z") /\ u = Unit * Unit
      BY QuadraticFacts
    <3>2. PICK n \in Int : n = dir("y") * Sign(dir("y"))
      BY <1>2, SignFacts
    <3>3. AtHeight(h).den = n /\ t.den = n
      BY <2>2, <3>2 DEF AtHeight
    <3>4. AtHeight(h).p \in Int
      <4>1. h \in Int /\ from("y") \in Int /\ Sign(dir("y")) \in Int
        BY <1>2, QuadraticFacts, SignFacts DEF CapHeights
      <4>. QED
        BY <4>1 DEF AtHeight
    <3>5. ASSUME NEW r, r.p \in Int, r.den = n
          PROVE  Inside(r, Unit * Unit) = u * n * n - (x * n) * (x * n) - (z * n) * (z * n)
      <4>1. 0 * r.p = 0 /\ x * n + 0 = x * n /\ z * n + 0 = z * n
        BY <3>5
      <4>. QED
        BY <2>1, <3>1, <3>5, <4>1 DEF Inside
    <3>6. Inside(AtHeight(h), Unit * Unit) = Inside(t, Unit * Unit)
      BY <1>3, <3>3, <3>4, <3>5
    <3>7. Inside(t, Unit * Unit) \in Int
      BY <1>3, InsideCylinder
    <3>. QED
      BY <1>1, <3>6, <3>7, CylinderFacts DEF WithinCap
  <2>4. Cap(lo) = <<AtHeight(lo)>> /\ Cap(hi) = <<AtHeight(hi)>> /\ WallHits = <<>>
    BY <1>5, <2>1, <2>3 DEF Cap, WallHits, CapHeights
  <2>5. MaxHits = 2 /\ Len(WallHits) = 0
    BY <2>4, CylinderFacts
  <2>6. hits = <<AtHeight(lo), AtHeight(hi)>>
    BY <2>4, <2>5, Pair, Alone DEF AllHits
  <2>7. ~SameTime(AtHeight(lo), AtHeight(hi))
    BY <1>2, <2>1, CapsApart
  <2>. QED
    BY <1>5, <2>6, <2>7, PairFacts
<1>6. CASE A # 0 /\ dir("y") = 0
  <2>1. PICK a \in Int, b \in Int, y \in Int : a = A /\ b = B /\ y = from("y") /\ a > 0
    <3>1. A \in Int /\ B \in Int /\ from("y") \in Int
      BY QuadraticFacts
    <3>2. A > 0
      BY <1>6, <3>1, CylinderFacts
    <3>. QED
      BY <3>1, <3>2
  <2>2. (y - lo) * t.den + 0 * t.p > 0 /\ (y - hi) * t.den + 0 * t.p < 0
    BY <1>1, <1>2, <1>3, <1>6, <2>1, HeightFacts DEF OnWall
  <2>3. lo < y /\ y < hi
    <3>1. PICK n \in Int : n = t.den /\ n > 0
      BY <1>3
    <3>2. 0 * t.p = 0
      BY <1>3
    <3>3. PICK c \in Int, d \in Int : c = y - lo /\ d = y - hi
      BY <1>2
    <3>4. c * n > 0 /\ d * n < 0
      BY <2>2, <3>1, <3>2, <3>3
    <3>5. c > 0 /\ d < 0
      BY <3>1, <3>4
    <3>. QED
      BY <1>2, <3>3, <3>5
  <2>4. ASSUME NEW q \in {-1, 1}
        PROVE  OnWall(Root(q))
    <3>1. Middle(lo) = (y - lo) * (2 * a) /\ Middle(hi) = (y - hi) * (2 * a)
      BY <1>2, <1>6, <2>1 DEF Middle
    <3>2. Middle(lo) > 0 /\ Middle(hi) < 0 /\ Middle(lo) \in Int /\ Middle(hi) \in Int
      <4>1. PICK c \in Int, d \in Int : c = y - lo /\ d = y - hi /\ c > 0 /\ d < 0
        BY <1>2, <2>3
      <4>2. c * (2 * a) > 0 /\ d * (2 * a) < 0
        BY <2>1, <4>1
      <4>. QED
        BY <3>1, <4>1, <4>2
    <3>3. PICK e \in Int : e = dir("y") * q /\ e = 0
      BY <1>2, <1>6
    <3>4. /\ Above(Root(q), lo) <=> Positive(Middle(lo), e)
          /\ Below(Root(q), hi) <=> Positive(-Middle(hi), -e)
      <4>. q \in Int
        OBVIOUS
      <4>1. Above(Root(q), lo) <=> Positive(Middle(lo), dir("y") * q)
        BY <1>2, <1>6, CylinderRoot
      <4>2. Below(Root(q), hi) <=> Positive(-Middle(hi), -(dir("y") * q))
        BY <1>2, <1>6, CylinderRoot
      <4>. QED
        BY <3>3, <4>1, <4>2
    <3>5. -e = e
      <4>1. e + e = 0
        BY <3>3
      <4>. QED
        BY <4>1, MinusNothing, Zenon
    <3>6. Positive(Middle(lo), e) /\ Positive(-Middle(hi), e)
      BY <3>2, <3>3 DEF Positive
    <3>. QED
      BY <3>4, <3>5, <3>6 DEF OnWall
  <2>5. WallHits = <<Root(-1), Root(1)>>
    BY <1>6, <2>4, Pair DEF WallHits, Wall
  <2>6. hits = <<Root(-1), Root(1)>>
    <3>1. MaxHits = 2 /\ Len(WallHits) = 2
      BY <2>5, CylinderFacts, PairFacts
    <3>. QED
      BY <2>5, <3>1
  <2>. QED
    BY <1>4, <1>6, <2>6, RootsApart, PairFacts
<1>7. CASE A # 0 /\ dir("y") # 0
  <2>1. /\ Lower <=> ~WithinCap(lo)
        /\ Upper <=> ~WithinCap(hi)
    BY <1>1, <1>2, <1>3, <1>7, EndsOnce
  <2>2. PICK s \in {-1, 1} : /\ s = Sign(dir("y")) /\ -s \in {-1, 1}
                             /\ Lower = OnWall(Root(-s)) /\ Upper = OnWall(Root(s))
    <3>1. PICK s \in {-1, 1} : s = Sign(dir("y"))
      BY <1>2, <1>7, Signs
    <3>2. -s \in {-1, 1}
      BY <3>1
    <3>. QED
      BY <3>1, <3>2 DEF Lower, Upper
  <2>3. /\ s = 1 \/ s = -1
        /\ s = -1 => -s = 1
    <3>1. s \in Int /\ (s = -1 => s + 1 = 0) /\ \A c \in Int : c + 1 = 0 => -c = 1
      OBVIOUS
    <3>. QED
      BY <3>1, Zenon
  <2>4. Wall(-s) = (IF Lower THEN <<Root(-s)>> ELSE <<>>)
        /\ Wall(s) = (IF Upper THEN <<Root(s)>> ELSE <<>>)
    BY <2>2 DEF Wall
  <2>5. Cap(lo) = (IF Lower THEN <<>> ELSE <<AtHeight(lo)>>)
        /\ Cap(hi) = (IF Upper THEN <<>> ELSE <<AtHeight(hi)>>)
    BY <1>7, <2>1 DEF Cap
  <2>6. WallHits = Wall(-1) \o Wall(1) /\ MaxHits = 2
    BY <1>7, CylinderFacts DEF WallHits
  <2>7. CASE Lower /\ Upper
    <3>1. Wall(-1) = <<Root(-1)>> /\ Wall(1) = <<Root(1)>>
      BY <2>3, <2>4, <2>7
    <3>2. WallHits = <<Root(-1), Root(1)>>
      BY <2>6, <3>1, Pair
    <3>3. hits = <<Root(-1), Root(1)>>
      <4>1. Len(WallHits) = 2
        BY <3>2, PairFacts, Zenon
      <4>2. ~(Len(WallHits) < MaxHits)
        BY <2>6, <4>1
      <4>3. hits = WallHits
        BY <4>2, Zenon
      <4>. QED
        BY <3>2, <4>3
    <3>. QED
      BY <1>4, <1>7, <3>3, RootsApart, PairFacts
  <2>8. CASE ~Lower /\ ~Upper
    <3>1. Wall(-1) = <<>> /\ Wall(1) = <<>>
      BY <2>3, <2>4, <2>8
    <3>2. WallHits = <<>>
      BY <2>6, <3>1, Nothing
    <3>3. Cap(lo) = <<AtHeight(lo)>> /\ Cap(hi) = <<AtHeight(hi)>>
      BY <2>5, <2>8
    <3>4. hits = <<>> \o <<AtHeight(lo)>> \o <<AtHeight(hi)>>
      BY <2>6, <3>2, <3>3, Nothing DEF AllHits
    <3>5. hits = <<AtHeight(lo), AtHeight(hi)>>
      BY <3>4, Alone, Pair, Zenon
    <3>. QED
      BY <1>2, <1>4, <1>7, <3>5, CapsApart, PairFacts
  <2>9. CASE Lower /\ ~Upper
    <3>1. (Wall(-1) = <<Root(-s)>> /\ Wall(1) = <<>>) \/ (Wall(-1) = <<>> /\ Wall(1) = <<Root(-s)>>)
      BY <2>3, <2>4, <2>9
    <3>2. WallHits = <<Root(-s)>>
      BY <2>6, <3>1, Alone, Zenon
    <3>3. Cap(lo) = <<>> /\ Cap(hi) = <<AtHeight(hi)>>
      BY <2>5, <2>9
    <3>4. hits = <<Root(-s)>> \o <<>> \o <<AtHeight(hi)>>
      BY <2>6, <3>2, <3>3, Alone DEF AllHits
    <3>5. hits = <<Root(-s), AtHeight(hi)>>
      BY <3>4, Alone, Pair, Zenon
    <3>6. Below(Root(-s), hi)
      BY <2>2, <2>9 DEF OnWall
    <3>7. -s \in Int
      BY <2>2
    <3>8. ~SameTime(Root(-s), AtHeight(hi))
      BY <1>2, <1>7, <3>6, <3>7, WallAndCapApart DEF InCapPlane
    <3>. QED
      BY <1>4, <1>7, <3>5, <3>8, PairFacts
  <2>10. CASE ~Lower /\ Upper
    <3>1. (Wall(-1) = <<Root(s)>> /\ Wall(1) = <<>>) \/ (Wall(-1) = <<>> /\ Wall(1) = <<Root(s)>>)
      BY <2>3, <2>4, <2>10
    <3>2. WallHits = <<Root(s)>>
      BY <2>6, <3>1, Alone, Zenon
    <3>3. Cap(lo) = <<AtHeight(lo)>> /\ Cap(hi) = <<>>
      BY <2>5, <2>10
    <3>4. hits = <<Root(s)>> \o <<AtHeight(lo)>> \o <<>>
      BY <2>6, <3>2, <3>3, Alone DEF AllHits
    <3>5. hits = <<Root(s), AtHeight(lo)>>
      BY <3>4, Filled, Pair, Zenon
    <3>6. Above(Root(s), lo)
      BY <2>2, <2>10 DEF OnWall
    <3>7. ~SameTime(Root(s), AtHeight(lo))
      BY <1>2, <1>7, <3>6, WallAndCapApart DEF InCapPlane
    <3>. QED
      BY <1>4, <1>7, <3>5, <3>7, PairFacts
  <2>. QED
    BY <2>7, <2>8, <2>9, <2>10
<1>. QED
  BY <1>5, <1>6, <1>7

-----------------------------------------------------------------------------
(* What the test of a cylinder or a cone has found so far.                 *)
RoundInv ==
  shape.kind \in Round =>
    /\ at # "panic"
    /\ at = "wall" => found = <<>>
    /\ at = "missed" => found = <<>> /\ A # 0 /\ Disc < 0
    /\ at \in {"caps", "hit"} => A = 0 \/ Disc >= 0
    /\ at = "caps" => shape.closed /\ Len(WallHits) < MaxHits /\ found = WallHits
    /\ at = "hit" =>
         found = IF shape.closed /\ Len(WallHits) < MaxHits THEN AllHits ELSE WallHits

SolidInv == SolidTypes /\ BoxInv /\ CubeInv /\ RoundInv

(* The shape and the ray stay, and with them all that is computed of them. *)
LEMMA SameShape ==
  ASSUME UNCHANGED <<shape, ray>>
  PROVE  A' = A /\ B' = B /\ C' = C /\ Disc' = Disc /\ WallHits' = WallHits /\ AllHits' = AllHits
         /\ MaxHits' = MaxHits
<1>1. A' = A /\ B' = B /\ C' = C
  BY DEF A, B, C, OfCone, from, dir
<1>2. Disc' = Disc
  BY <1>1 DEF Disc
<1>3. \A q : Root(q)' = Root(q)
  BY <1>1 DEF Root
<1>4. Parallel' = Parallel
  BY <1>1 DEF Parallel
<1>5. \A q : Wall(q)' = Wall(q)
  BY <1>2, <1>3 DEF Wall, OnWall, Above, Below, Positive, from, dir
<1>6. WallHits' = WallHits
  BY <1>1, <1>4, <1>5 DEF WallHits
<1>7. \A h : AtHeight(h)' = AtHeight(h)
  BY DEF AtHeight, from, dir
<1>8. \A h : WithinCap(h)' = WithinCap(h)
  BY <1>7 DEF WithinCap, Inside, CapRadius, from, dir
<1>9. \A h : Cap(h)' = Cap(h)
  BY <1>7, <1>8 DEF Cap, dir
<1>10. AllHits' = AllHits
  BY <1>6, <1>9 DEF AllHits
<1>. QED
  BY <1>1, <1>2, <1>6, <1>10 DEF MaxHits

(* The inductive invariant holds at the start, and every step keeps it.    *)
LEMMA SolidInvInit == SolidInit => SolidInv
<1>. SUFFICES ASSUME SolidInit PROVE SolidInv
  OBVIOUS
<1>1. shape \in Shape
  BY SolidAssumption DEF SolidInit
<1>. QED
  BY <1>1 DEF SolidInit, SolidInv, SolidTypes, BoxInv, CubeInv, RoundInv, Narrowing, Round, Shape

LEMMA SolidInvNext == SolidInv /\ [SolidNext]_solidVars => SolidInv'
<1>. SUFFICES ASSUME SolidTypes, BoxInv, CubeInv, RoundInv, [SolidNext]_solidVars
              PROVE  SolidInv'
  BY DEF SolidInv
<1>1. CASE FirstSlab
  <2>1. shape.kind \notin Round /\ shape' = shape /\ ray' = ray /\ at' = "y"
    BY <1>1 DEF FirstSlab, SolidTypes
  <2>2. BoxInv' /\ CubeInv' /\ tmin' \in Int /\ tmax' \in Int
    BY <1>1, FirstSlabBox, FirstSlabCube
  <2>. QED
    BY <2>1, <2>2 DEF SolidInv, SolidTypes, RoundInv
<1>2. CASE MissSlab
  <2>1. /\ shape.kind \notin Round /\ shape' = shape /\ ray' = ray /\ at' = "missed"
        /\ tmin' = tmin /\ tmax' = tmax
    BY <1>2 DEF MissSlab, SolidTypes
  <2>2. BoxInv'
    BY <1>2, MissSlabBox
  <2>. QED
    BY <2>1, <2>2 DEF SolidInv, SolidTypes, CubeInv, RoundInv
<1>3. CASE NarrowSlab
  <2>1. /\ shape.kind \notin Round /\ shape' = shape /\ ray' = ray /\ at' \in {"z", "hit"}
    BY <1>3 DEF NarrowSlab, SolidTypes
  <2>2. BoxInv' /\ CubeInv' /\ tmin' \in Int /\ tmax' \in Int
    BY <1>3, NarrowSlabBox, NarrowSlabCube
  <2>. QED
    BY <2>1, <2>2 DEF SolidInv, SolidTypes, RoundInv
<1>4. ASSUME shape.kind \in Round, UNCHANGED <<shape, ray, tmin, tmax>>,
             at' \in {"caps", "hit", "missed"}, RoundInv'
      PROVE  SolidInv'
  BY <1>4 DEF SolidInv, SolidTypes, BoxInv, CubeInv, Narrowing, Round
<1>5. CASE MissWall
  <2>1. shape.kind \in Round /\ UNCHANGED <<shape, ray>>
    BY <1>5 DEF MissWall, SolidTypes
  <2>2. RoundInv'
    BY <1>5, <2>1, SameShape DEF MissWall, RoundInv
  <2>. QED
    BY <1>4, <1>5, <2>1, <2>2 DEF MissWall
<1>6. ASSUME at = "wall", UNCHANGED <<shape, ray, tmin, tmax>>, A = 0 \/ Disc >= 0,
             found' = WallHits, at' = AfterWall(found')
      PROVE  SolidInv'
  <2>1. shape.kind \in Round /\ at' = AfterWall(WallHits)
    BY <1>6 DEF SolidTypes
  <2>2. at' = IF shape.closed /\ Len(WallHits) < MaxHits THEN "caps" ELSE "hit"
    BY <2>1 DEF AfterWall
  <2>3. A' = A /\ Disc' = Disc /\ WallHits' = WallHits /\ MaxHits' = MaxHits
    BY <1>6, SameShape
  <2>4. RoundInv'
    BY <1>6, <2>2, <2>3 DEF RoundInv
  <2>. QED
    BY <1>4, <1>6, <2>1, <2>2, <2>4
<1>7. CASE IntersectWall
  <2>1. found' = WallHits
    BY <1>7 DEF IntersectWall, WallHits
  <2>. QED
    BY <1>6, <1>7, <2>1 DEF IntersectWall
<1>8. CASE AlongWall
  <2>1. found' = WallHits
    BY <1>8 DEF AlongWall, WallHits
  <2>. QED
    BY <1>6, <1>8, <2>1 DEF AlongWall
<1>9. CASE IntersectCaps
  <2>1. shape.kind \in Round /\ at = "caps" /\ UNCHANGED <<shape, ray, tmin, tmax>>
    BY <1>9 DEF IntersectCaps, SolidTypes
  <2>2. found' = AllHits /\ shape.closed /\ Len(WallHits) < MaxHits /\ (A = 0 \/ Disc >= 0)
    BY <1>9, <2>1 DEF IntersectCaps, RoundInv, AllHits
  <2>3. Len(found') <= MaxHits
    BY <2>1, <2>2, CapCount DEF SolidTypes
  <2>4. at' = "hit"
    BY <1>9, <2>3 DEF IntersectCaps
  <2>5. RoundInv'
    BY <2>1, <2>2, <2>4, SameShape DEF RoundInv
  <2>. QED
    BY <1>4, <2>1, <2>4, <2>5
<1>10. CASE UNCHANGED solidVars
  <2>1. UNCHANGED <<shape, ray, at, tmin, tmax, found>>
    BY <1>10 DEF solidVars
  <2>2. SolidTypes' /\ RoundInv'
    BY <2>1, SameShape DEF SolidTypes, RoundInv
  <2>3. /\ \A a, n, d : /\ Between(a, n, d)' = Between(a, n, d)
                        /\ StrictlyBetween(a, n, d)' = StrictlyBetween(a, n, d)
        /\ \A n, d : InBox(n, d)' = InBox(n, d)
        /\ Passed' = Passed /\ Narrowing' = Narrowing /\ InFacePlane' = InFacePlane
        /\ \A a : dir(a)' = dir(a)
    BY <2>1 DEF Between, StrictlyBetween, InBox, Place, from, dir, Passed, Narrowing, InFacePlane
  <2>4. BoxInv'
    BY <2>1, <2>3 DEF BoxInv, Before, After
  <2>5. StrictInv' = StrictInv
    BY <2>1, <2>3 DEF StrictInv
  <2>6. \A t : End(t)' = End(t)
    BY <2>3 DEF End
  <2>7. ExactInv' = ExactInv
    BY <2>1, <2>3, <2>6 DEF ExactInv, End
  <2>8. CubeInv'
    BY <2>1, <2>5, <2>7 DEF CubeInv
  <2>. QED
    BY <2>2, <2>4, <2>8 DEF SolidInv
<1>. QED
  BY <1>1, <1>2, <1>3, <1>5, <1>7, <1>8, <1>9, <1>10 DEF SolidNext, SolidAnswered

(* The inductive invariant: the interval so far encloses the part of the   *)
(* line between the faces passed, and the hits of a cylinder or a cone are *)
(* those of its wall, then those of its caps.                              *)
THEOREM SolidInvariance == SolidSpec => []SolidInv
BY SolidInvInit, SolidInvNext, PTL DEF SolidSpec

(* bounds_intersect answers no only for a line that misses the box, be it  *)
(* flat, infinite, empty or NaN, and also for a ray along a face.          *)
THEOREM BoxesHideNothing == SolidSpec => []BoxTestIsConservative
<1>1. SolidInv => BoxTestIsConservative
  BY BoxTest DEF SolidInv
<1>. QED
  BY <1>1, SolidInvariance, PTL

(* The assertions on the number of hits in cylinder_intersects and         *)
(* cone_intersects never fail.                                             *)
THEOREM AssertionsHold == SolidSpec => []CapAssertionHolds
<1>1. SolidInv => CapAssertionHolds
  BY DEF SolidInv, RoundInv, SolidTypes, CapAssertionHolds
<1>. QED
  BY <1>1, SolidInvariance, PTL

(* At the end, the hits are the ends.                                      *)
LEMMA EndsFound == SolidInv => HitsAreTheEnds
<1>. SUFFICES ASSUME SolidTypes, BoxInv, CubeInv, RoundInv, at \in {"hit", "missed"}
              PROVE  HitsAreTheEnds
  BY DEF SolidInv, HitsAreTheEnds
<1>1. CASE shape.kind = "cube"
  <2>1. shape.kind \notin Round /\ shape.kind # "cylinder"
    BY <1>1 DEF Round
  <2>. QED
    BY <1>1, <2>1, CubeEnds DEF HitsAreTheEnds
<1>2. CASE shape.kind \in Round
  <2>1. shape \in Shapes /\ ray \in Rays /\ shape.kind # "cube"
    BY <1>2 DEF SolidTypes, Round
  <2>2. ASSUME shape.kind = "cylinder", shape.closed, MeetsInside
        PROVE  Len(found) = 2 /\ ~SameTime(found[1], found[2])
    <3>1. PICK hits : hits = IF Len(WallHits) < MaxHits THEN AllHits ELSE WallHits
      OBVIOUS
    <3>2. /\ A = 0 \/ Disc > 0
          /\ Len(hits) = 2 /\ ~SameTime(hits[1], hits[2])
      BY <2>1, <2>2, <3>1, CylinderEnds
    <3>3. at = "hit"
      BY <1>2, <3>2, <2>1, QuadraticFacts DEF RoundInv
    <3>4. found = hits
      BY <1>2, <2>2, <3>1, <3>3 DEF RoundInv
    <3>. QED
      BY <3>2, <3>4
  <2>3. ASSUME shape.min["y"] <= shape.max["y"]
        PROVE  \A j \in DOMAIN found : Good(found[j])
    <3>1. CASE at = "missed"
      BY <1>2, <3>1 DEF RoundInv
    <3>2. CASE at = "hit"
      <4>1. A = 0 \/ Disc >= 0
        BY <1>2, <3>2 DEF RoundInv
      <4>2. /\ \A j \in DOMAIN WallHits : Good(WallHits[j])
            /\ shape.closed => \A j \in DOMAIN AllHits : Good(AllHits[j])
        BY <1>2, <2>1, <2>3, <4>1, HitsGood
      <4>3. found = IF shape.closed /\ Len(WallHits) < MaxHits THEN AllHits ELSE WallHits
        BY <1>2, <3>2 DEF RoundInv
      <4>. QED
        BY <4>2, <4>3
    <3>. QED
      BY <3>1, <3>2
  <2>. QED
    BY <1>2, <2>1, <2>2, <2>3 DEF HitsAreTheEnds, Good
<1>3. CASE shape.kind \notin Round /\ shape.kind # "cube"
  BY <1>3 DEF HitsAreTheEnds, Round
<1>. QED
  BY <1>1, <1>2, <1>3

(* What is appended for a cylinder is on its wall or caps.  For a cone it  *)
(* is on the wall between the ends or in a cap, whose radius is the one    *)
(* check_cap compares with, the single hit of a ray parallel to a side     *)
(* excepted; for a cube it is on the surface unless the ray runs in the    *)
(* plane of a face.  A line through the inside of a cube or of a closed    *)
(* cylinder has both ends and nothing else.                                *)
THEOREM HitsAreExact == SolidSpec => []HitsAreTheEnds
BY EndsFound, SolidInvariance, PTL

-----------------------------------------------------------------------------
(* The hit and the media on both sides of it.                              *)

(* The entries of the list that count are distinct objects of the world.   *)
ListInv ==
  /\ \A s \in 0 .. container_count - 1 : hi_mem[s] \in Objects
  /\ \A r, s \in 0 .. container_count - 1 : r # s => hi_mem[r] # hi_mem[s]
  /\ phase \in {"intersect", "check"} => container_count = 0 /\ k = 1

IsIn(o) == \E s \in 0 .. container_count - 1 : hi_mem[s] = o

(* An object is in the list if and only if it was crossed an odd number of *)
(* times so far.                                                           *)
ParityInv ==
  \A o \in Objects : IsIn(o) <=> Cardinality(Crossed(o)) % 2 = 1

IInv == TypeOK /\ ListInv /\ ParityInv

-----------------------------------------------------------------------------
LEMMA HiMemLenFacts ==
  /\ Cardinality(Objects) \in Nat
  /\ HiMemLen \in Nat
  /\ Cardinality(Objects) <= HiMemLen
<1>1. Cardinality(Objects) \in Nat
  BY FS_CardinalityType, ObjectsAssumption
<1>. QED
  BY <1>1, ObjectsAssumption DEF HiMemLen, TotalObjCount

(* There is a free slot for an object that is not in the list: the entries *)
(* and the newcomer are distinct, so there are at most as many of them as  *)
(* the world has shapes.                                                   *)
LEMMA FreeSlot ==
  ASSUME TypeOK, ListInv, NEW o \in Objects, ~IsIn(o)
  PROVE  container_count \in Slots
<1>. DEFINE n == container_count
            f == [j \in 1 .. n + 1 |-> IF j <= n THEN hi_mem[j - 1] ELSE o]
<1>1. n \in Nat /\ n <= HiMemLen
  BY HiMemLenFacts DEF TypeOK
<1>2. f \in [1 .. n + 1 -> Objects]
  BY <1>1 DEF ListInv
<1>3. \A a, b \in 1 .. n + 1 : a # b => f[a] # f[b]
  BY <1>1 DEF ListInv, IsIn
<1>4. IsFiniteSet(1 .. n + 1) /\ Cardinality(1 .. n + 1) = n + 1
  BY <1>1, FS_Interval
<1>5. ~(Cardinality(Objects) < n + 1)
  <2>. SUFFICES ASSUME Cardinality(Objects) < Cardinality(1 .. n + 1) PROVE FALSE
    BY <1>4
  <2>. HIDE DEF f
  <2>. QED
    BY <1>2, <1>3, <1>4, FS_PigeonHole, ObjectsAssumption
<1>. QED
  BY <1>1, <1>5, HiMemLenFacts DEF Slots

(* An object is in the list at most once. *)
LEMMA HoldingFacts ==
  ASSUME TypeOK, ListInv, NEW o
  PROVE  /\ Holding(o) # {} <=> IsIn(o)
         /\ Cardinality(Holding(o)) = IF IsIn(o) THEN 1 ELSE 0
<1>1. Holding(o) # {} <=> IsIn(o)
  BY DEF Holding, IsIn
<1>2. CASE IsIn(o)
  <2>1. PICK s \in 0 .. container_count - 1 : hi_mem[s] = o
    BY <1>2 DEF IsIn
  <2>2. Holding(o) = {s}
    BY <2>1 DEF Holding, ListInv
  <2>. QED
    BY <1>1, <1>2, <2>2, FS_Singleton
<1>3. CASE ~IsIn(o)
  BY <1>1, <1>3, FS_EmptySet
<1>. QED
  BY <1>1, <1>2, <1>3

(* Crossing an object once more flips the parity of its crossings, and     *)
(* leaves those of the others alone.                                       *)
LEMMA CrossedFacts ==
  ASSUME TypeOK, k <= Len(xs), k' = k + 1, xs' = xs, NEW o \in Objects
  PROVE  Cardinality(Crossed(o))' % 2 = 1 <=>
           IF xs[k].object = o THEN Cardinality(Crossed(o)) % 2 # 1
                               ELSE Cardinality(Crossed(o)) % 2 = 1
<1>. DEFINE c == Crossed(o)
<1>1. k \in Nat \ {0}
  BY DEF TypeOK
<1>2. IsFiniteSet(c) /\ Cardinality(c) \in Nat /\ k \notin c
  <2>1. IsFiniteSet(1 .. k - 1)
    BY <1>1, FS_Interval
  <2>2. c \subseteq 1 .. k - 1
    BY DEF Crossed
  <2>3. IsFiniteSet(c)
    BY <2>1, <2>2, FS_Subset
  <2>. QED
    BY <1>1, <2>2, <2>3, FS_CardinalityType
<1>3. CASE xs[k].object = o
  <2>1. Crossed(o)' = c \cup {k}
    BY <1>1, <1>3 DEF Crossed
  <2>2. Cardinality(c \cup {k}) = Cardinality(c) + 1
    BY <1>2, FS_AddElement
  <2>3. Cardinality(Crossed(o))' = Cardinality(c) + 1
    BY <2>1, <2>2
  <2>. HIDE DEF c
  <2>. QED
    BY <1>2, <1>3, <2>3 DEF c
<1>4. CASE xs[k].object # o
  <2>1. Crossed(o)' = c
    BY <1>1, <1>4 DEF Crossed
  <2>. QED
    BY <1>4, <2>1
<1>. QED
  BY <1>3, <1>4

-----------------------------------------------------------------------------
LEMMA InitInv == Init => IInv
<1>. SUFFICES ASSUME Init PROVE IInv
  OBVIOUS
<1>1. TypeOK
  BY HiMemLenFacts DEF Init, TypeOK, NoHit
<1>2. ListInv
  BY DEF Init, ListInv
<1>3. ParityInv
  <2>1. \A o \in Objects : Crossed(o) = {}
    BY DEF Init, Crossed
  <2>2. Cardinality({}) % 2 # 1
    BY FS_EmptySet
  <2>3. \A o \in Objects : ~IsIn(o)
    BY DEF Init, IsIn
  <2>4. \A o \in Objects : Cardinality(Crossed(o)) % 2 # 1
    BY <2>1, <2>2
  <2>. QED
    BY <2>3, <2>4 DEF ParityInv
<1>. QED
  BY <1>1, <1>2, <1>3 DEF IInv

(* The list and the crossings do not change before the walk and after it.  *)
LEMMA OtherStepsInv ==
  ASSUME IInv,
         (\E i \in Intersection : AppendXs(i)) \/ FindHit \/ CheckScratch \/ WalkEnds \/ UNCHANGED vars
  PROVE  IInv'
<1>. USE DEF IInv
<1>1. CASE \E i \in Intersection : AppendXs(i)
  <2>1. TypeOK'
    BY <1>1 DEF TypeOK, AppendXs
  <2>2. k = 1 /\ k' = 1
    BY <1>1 DEF ListInv, AppendXs
  <2>3. \A o \in Objects : Crossed(o) = {} /\ Crossed(o)' = {}
    BY <2>2 DEF Crossed
  <2>. QED
    BY <1>1, <2>1, <2>3 DEF ListInv, ParityInv, IsIn, AppendXs
<1>2. CASE FindHit
  <2>1. TypeOK'
    <3>1. PICK h \in 1 .. Len(xs) : hit' = xs[h]
      BY <1>2 DEF FindHit
    <3>. QED
      BY <1>2, <3>1 DEF TypeOK, FindHit
  <2>. QED
    BY <1>2, <2>1 DEF ListInv, ParityInv, IsIn, Crossed, FindHit
<1>3. CASE CheckScratch
  <2>1. TypeOK'
    BY <1>3 DEF TypeOK, CheckScratch
  <2>2. container_count = 0 /\ container_count' = 0
    BY <1>3 DEF ListInv, CheckScratch
  <2>. QED
    BY <1>3, <2>1, <2>2 DEF ListInv, ParityInv, IsIn, Crossed, CheckScratch
<1>4. CASE WalkEnds
  <2>1. TypeOK'
    BY <1>4 DEF TypeOK, WalkEnds
  <2>. QED
    BY <1>4, <2>1 DEF ListInv, ParityInv, IsIn, Crossed, WalkEnds
<1>5. CASE UNCHANGED vars
  <2>1. TypeOK'
    BY <1>5 DEF TypeOK, vars
  <2>. QED
    BY <1>5, <2>1 DEF ListInv, ParityInv, IsIn, Crossed, vars
<1>. QED
  BY <1>1, <1>2, <1>3, <1>4, <1>5

(* The last entry that counts is an object, if there is one. *)
LEMMA LastContainerType ==
  ASSUME NEW mem, NEW c \in Nat, \A s \in 0 .. c - 1 : mem[s] \in Objects
  PROVE  LastContainer(mem, c) \in Objects \cup {Vacuum}
BY DEF LastContainer

(* The two media are objects of the list, or the vacuum. *)
LEMMA MediaTypes ==
  ASSUME TypeOK, ListInv, ListInv', container_count' \in Nat, Media
  PROVE  n1' \in Objects \cup {Nil, Vacuum} /\ n2' \in Objects \cup {Nil, Vacuum}
<1>1. LastContainer(hi_mem, container_count) \in Objects \cup {Vacuum}
  BY LastContainerType, HiMemLenFacts DEF ListInv, TypeOK
<1>2. LastContainer(hi_mem', container_count') \in Objects \cup {Vacuum}
  BY LastContainerType DEF ListInv
<1>. QED
  BY <1>1, <1>2 DEF Media, TypeOK

LEMMA WalkInv == IInv /\ Walk => IInv'
<1>. SUFFICES ASSUME IInv, Walk PROVE IInv'
  OBVIOUS
<1>. USE DEF IInv
<1>. DEFINE n == container_count
<1>0. PICK o \in Objects : xs[k].object = o
  <2>1. k \in Nat \ {0} /\ k <= Len(xs) /\ xs \in Seq(Intersection)
    BY DEF TypeOK, Walk
  <2>2. xs[k] \in Intersection
    BY <2>1
  <2>. QED
    BY <2>2 DEF Intersection
<1>1. /\ k \in Nat \ {0} /\ k <= Len(xs)
      /\ n \in 0 .. HiMemLen /\ n \in Nat /\ phase = "walk" /\ phase' = "walk"
  BY HiMemLenFacts DEF TypeOK, Walk
<1>2. /\ hi_mem' \in [Slots -> Objects \cup {Nil}]
      /\ container_count' \in 0 .. HiMemLen
      /\ ListInv'
      /\ \A p \in Objects : IsIn(p)' <=> IF p = o THEN ~IsIn(p) ELSE IsIn(p)
  <2>1. CASE Entered(o)
    <3>1. ~IsIn(o) /\ n \in Slots
      BY <1>1, <2>1, HoldingFacts, FreeSlot DEF Entered
    <3>2. /\ hi_mem' \in [Slots -> Objects \cup {Nil}] /\ n + 1 \in 0 .. HiMemLen
          /\ hi_mem'[n] = o /\ container_count' = n + 1
          /\ \A s \in 0 .. n - 1 : hi_mem'[s] = hi_mem[s]
      BY <1>1, <2>1, <3>1, HiMemLenFacts DEF TypeOK, Entered, Slots
    <3>3. ListInv'
      BY <1>1, <3>1, <3>2 DEF ListInv, IsIn
    <3>. QED
      BY <1>1, <3>1, <3>2, <3>3 DEF IsIn
  <2>2. CASE Left(o)
    <3>1. PICK s \in Holding(o) :
            /\ hi_mem' = [hi_mem EXCEPT ![s] = hi_mem[n - 1], ![n - 1] = hi_mem[s]]
            /\ container_count' = n - 1
      BY <2>2 DEF Left
    <3>2. s \in 0 .. n - 1 /\ hi_mem[s] = o /\ n - 1 \in Nat /\ IsIn(o)
      BY <1>1, <3>1 DEF Holding, IsIn
    <3>3. /\ hi_mem' \in [Slots -> Objects \cup {Nil}] /\ n - 1 \in 0 .. HiMemLen
          /\ \A r \in 0 .. n - 2 :
               hi_mem'[r] = IF r = s THEN hi_mem[n - 1] ELSE hi_mem[r]
      BY <1>1, <3>1, <3>2, HiMemLenFacts DEF TypeOK, Slots
    <3>. DEFINE Old == 0 .. n - 1
                New == 0 .. n - 2
                mem == hi_mem'
    <3>a. /\ New = 0 .. container_count' - 1
          /\ New = Old \ {n - 1} /\ n - 1 \in Old /\ s \in Old
      BY <1>1, <3>1, <3>2
    <3>b. /\ \A r \in Old : hi_mem[r] \in Objects
          /\ \A q, r \in Old : q # r => hi_mem[q] # hi_mem[r]
      BY DEF ListInv
    <3>c. \A r \in New : mem[r] = IF r = s THEN hi_mem[n - 1] ELSE hi_mem[r]
      BY <3>3
    <3>d. \A p : IsIn(p)' <=> \E r \in New : mem[r] = p
      BY <3>a DEF IsIn
    <3>e. \A p : IsIn(p) <=> \E r \in Old : hi_mem[r] = p
      BY DEF IsIn
    <3>. HIDE DEF Old, New, mem
    <3>4. ListInv'
      <4>1. \A r \in New : mem[r] \in Objects
        BY <3>a, <3>b, <3>c
      <4>2. \A q, r \in New : q # r => mem[q] # mem[r]
        BY <3>a, <3>b, <3>c
      <4>. QED
        BY <1>1, <3>a, <4>1, <4>2 DEF ListInv, mem
    <3>5. ~IsIn(o)'
      <4>1. \A r \in Old : r # s => hi_mem[r] # o
        BY <3>2, <3>a, <3>b
      <4>2. \A r \in New : mem[r] # o
        BY <3>a, <3>c, <4>1
      <4>. QED
        BY <3>d, <4>2
    <3>6. ASSUME NEW p \in Objects, p # o
          PROVE  IsIn(p)' <=> IsIn(p)
      BY <3>2, <3>6, <3>a, <3>b, <3>c, <3>d, <3>e
    <3>7. \A p \in Objects : IsIn(p)' <=> IF p = o THEN ~IsIn(p) ELSE IsIn(p)
      BY <3>2, <3>5, <3>6
    <3>. QED
      BY <3>1, <3>3, <3>4, <3>7
  <2>. QED
    BY <1>0, <2>1, <2>2 DEF Walk
<1>3. TypeOK'
  <2>1. n1' \in Objects \cup {Nil, Vacuum} /\ n2' \in Objects \cup {Nil, Vacuum}
    BY <1>2, MediaTypes, HiMemLenFacts DEF Walk
  <2>. QED
    BY <1>1, <1>2, <2>1 DEF TypeOK, Walk
<1>4. ParityInv'
  <2>1. \A p \in Objects : Cardinality(Crossed(p))' % 2 = 1 <=>
           IF o = p THEN Cardinality(Crossed(p)) % 2 # 1
                    ELSE Cardinality(Crossed(p)) % 2 = 1
    BY <1>0, <1>1, CrossedFacts DEF Walk
  <2>. QED
    BY <1>2, <2>1 DEF ParityInv
<1>. QED
  BY <1>2, <1>3, <1>4

LEMMA NextInv == IInv /\ [Next]_vars => IInv'
<1>. SUFFICES ASSUME IInv, [Next]_vars PROVE IInv'
  OBVIOUS
<1>1. CASE Walk
  BY <1>1, WalkInv
<1>2. CASE \E i \in Intersection : AppendXs(i)
  BY <1>2, OtherStepsInv
<1>3. CASE FindHit \/ CheckScratch \/ WalkEnds \/ UNCHANGED vars
  BY <1>3, OtherStepsInv
<1>. QED
  BY <1>1, <1>2, <1>3 DEF Next, Terminated

(* The inductive invariant holds in every reachable state. *)
THEOREM Invariance == Spec => []IInv
<1>. QED
  BY InitInv, NextInv, PTL DEF Spec

(* Type correctness; with it, container_count never exceeds len(hi_mem).   *)
THEOREM TypeCorrect == Spec => []TypeOK
<1>1. IInv => TypeOK
  BY DEF IInv
<1>. QED
  BY <1>1, Invariance, PTL

(* The scratch slice never overflows, in any world and for any ray, even   *)
(* where the assertion at the head of the walk fails or is compiled out.   *)
THEOREM ScratchSuffices == Spec => []ScratchNeverOverflows
<1>1. IInv => ScratchNeverOverflows
  <2>. SUFFICES ASSUME IInv, phase = "walk", k <= Len(xs),
                       NEW o, o = xs[k].object, Holding(o) = {}
                PROVE  container_count \in Slots
    BY DEF ScratchNeverOverflows
  <2>1. k \in Nat \ {0} /\ xs \in Seq(Intersection)
    BY DEF IInv, TypeOK
  <2>2. xs[k] \in Intersection
    BY <2>1
  <2>3. o \in Objects
    BY <2>2 DEF Intersection
  <2>4. ~IsIn(o)
    BY HoldingFacts DEF IInv
  <2>. QED
    BY <2>3, <2>4, FreeSlot DEF IInv
<1>. QED
  BY <1>1, Invariance, PTL

(* The list is where the ray is: it holds, once each, the objects crossed  *)
(* an odd number of times, whatever the order of the crossings.            *)
THEOREM ListIsExact == Spec => []ListIsWhereTheRayIs
<1>1. IInv => ListIsWhereTheRayIs
  <2>. SUFFICES ASSUME IInv, NEW o \in Objects
                PROVE  Cardinality(Holding(o)) = Cardinality(Crossed(o)) % 2
    BY DEF ListIsWhereTheRayIs
  <2>1. Cardinality(Holding(o)) = IF IsIn(o) THEN 1 ELSE 0
    BY HoldingFacts DEF IInv
  <2>2. Cardinality(Crossed(o)) \in Nat
    <3>1. k \in Nat /\ IsFiniteSet(1 .. k - 1)
      BY FS_Interval DEF IInv, TypeOK
    <3>2. Crossed(o) \subseteq 1 .. k - 1
      BY DEF Crossed
    <3>. QED
      BY <3>1, <3>2, FS_Subset, FS_CardinalityType
  <2>3. IsIn(o) <=> Cardinality(Crossed(o)) % 2 = 1
    BY DEF IInv, ParityInv
  <2>. QED
    BY <2>1, <2>2, <2>3
<1>. QED
  BY <1>1, Invariance, PTL

-----------------------------------------------------------------------------
(* The media of nested solids.                                             *)

(* The intersections before j whose object the ray is still inside of.     *)
Around(j) ==
  {a \in 1 .. j - 1 : ~\E b \in 1 .. j - 1 : b # a /\ xs[b].object = xs[a].object}

(* The list holds the objects around position k, ...                       *)
ListIsAround ==
  /\ \A a \in Around(k) :
       \E s \in 0 .. container_count - 1 : hi_mem[s] = xs[a].object
  /\ \A s \in 0 .. container_count - 1 :
       \E a \in Around(k) : hi_mem[s] = xs[a].object

(* ... in the order in which the ray entered them.                         *)
ListIsOrdered ==
  \A r, s \in 0 .. container_count - 1 : \A a, b \in Around(k) :
    r < s /\ hi_mem[r] = xs[a].object /\ hi_mem[s] = xs[b].object => a < b

(* The media are those around the hit once the walk has passed it.         *)
MediaKnown ==
  \A h \in 1 .. k - 1 :
    xs[h] = hit => Innermost(n1, h) /\ Innermost(n2, h + 1)

NestingInv ==
  /\ phase \in {"walk", "done"} /\ ProperlyNested =>
       ListIsAround /\ ListIsOrdered /\ MediaKnown
  /\ phase = "done" => k > Len(xs)

(* A set of two elements has no third.                                     *)
LEMMA TwoElements ==
  ASSUME NEW S, IsFiniteSet(S), Cardinality(S) = 2
  PROVE  /\ \A x \in S : \E y \in S : y # x
         /\ \A x, y, z \in S : x = y \/ y = z \/ x = z
<1>1. ASSUME NEW x \in S
      PROVE  \E y : S \ {x} = {y}
  <2>1. IsFiniteSet(S \ {x}) /\ Cardinality(S \ {x}) = 1
    BY FS_RemoveElement
  <2>. QED
    BY <2>1, FS_Singleton
<1>2. ASSUME NEW x \in S
      PROVE  \E y \in S : y # x
  <2>1. PICK y : S \ {x} = {y}
    BY <1>1
  <2>. QED
    BY <2>1
<1>3. ASSUME NEW x \in S, NEW y \in S, NEW z \in S
      PROVE  x = y \/ y = z \/ x = z
  <2>1. PICK u : S \ {x} = {u}
    BY <1>1
  <2>. QED
    BY <2>1
<1>. QED
  BY <1>2, <1>3

(* A ray that crosses nested solids meets each of them twice, and the hit  *)
(* once.                                                                   *)
LEMMA NestedFacts ==
  ASSUME TypeOK, ProperlyNested
  PROVE  /\ \A a \in 1 .. Len(xs) : \E b \in 1 .. Len(xs) :
              b # a /\ xs[b].object = xs[a].object
         /\ \A a, b, c \in 1 .. Len(xs) :
              xs[a].object = xs[b].object /\ xs[b].object = xs[c].object
                => a = b \/ b = c \/ a = c
         /\ \A a, b \in 1 .. Len(xs) : xs[a] = hit /\ xs[b] = hit => a = b
         /\ \E h \in 1 .. Len(xs) : xs[h] = hit
<1>1. xs \in Seq(Intersection) /\ Len(xs) \in Nat /\ IsFiniteSet(1 .. Len(xs))
  BY FS_Interval DEF TypeOK
<1>2. ASSUME NEW a \in 1 .. Len(xs)
      PROVE  /\ a \in XsOf(xs[a].object)
             /\ IsFiniteSet(XsOf(xs[a].object))
             /\ Cardinality(XsOf(xs[a].object)) = 2
  <2>1. a \in XsOf(xs[a].object)
    BY DEF XsOf
  <2>2. XsOf(xs[a].object) \subseteq 1 .. Len(xs)
    BY DEF XsOf
  <2>3. IsFiniteSet(XsOf(xs[a].object))
    BY <1>1, <2>2, FS_Subset
  <2>4. xs[a].object \in Objects
    <3>1. xs[a] \in Intersection
      BY <1>1
    <3>. QED
      BY <3>1 DEF Intersection
  <2>5. Cardinality(XsOf(xs[a].object)) # 0
    BY <2>1, <2>3, FS_EmptySet
  <2>. QED
    BY <2>1, <2>3, <2>4, <2>5 DEF ProperlyNested
<1>3. ASSUME NEW a \in 1 .. Len(xs)
      PROVE  \E b \in 1 .. Len(xs) : b # a /\ xs[b].object = xs[a].object
  <2>1. \E b \in XsOf(xs[a].object) : b # a
    BY <1>2, TwoElements
  <2>. QED
    BY <2>1 DEF XsOf
<1>4. ASSUME NEW a \in 1 .. Len(xs), NEW b \in 1 .. Len(xs), NEW c \in 1 .. Len(xs),
             xs[a].object = xs[b].object, xs[b].object = xs[c].object
      PROVE  a = b \/ b = c \/ a = c
  <2>1. /\ a \in XsOf(xs[a].object) /\ b \in XsOf(xs[a].object)
        /\ c \in XsOf(xs[a].object)
    BY <1>4 DEF XsOf
  <2>. QED
    BY <1>2, <2>1, TwoElements
<1>. DEFINE H == {j \in 1 .. Len(xs) : xs[j] = hit}
<1>5. \E h : H = {h}
  <2>1. IsFiniteSet(H)
    BY <1>1, FS_Subset
  <2>2. Cardinality(H) = 1
    BY DEF ProperlyNested
  <2>. HIDE DEF H
  <2>. QED
    BY <2>1, <2>2, FS_Singleton
<1>6. PICK h : H = {h}
  BY <1>5
<1>7. /\ \A a, b \in 1 .. Len(xs) : xs[a] = hit /\ xs[b] = hit => a = b
      /\ h \in 1 .. Len(xs) /\ xs[h] = hit
  BY <1>6
<1>. QED
  BY <1>3, <1>4, <1>7

(* The last entry of an ordered list is the innermost object.              *)
OrderedList(mem, n, j) ==
  /\ \A a \in Around(j) : \E s \in 0 .. n - 1 : mem[s] = xs[a].object
  /\ \A s \in 0 .. n - 1 : \E a \in Around(j) : mem[s] = xs[a].object
  /\ \A r, s \in 0 .. n - 1 : \A a, b \in Around(j) :
       r < s /\ mem[r] = xs[a].object /\ mem[s] = xs[b].object => a < b

LEMMA LastIsInnermost ==
  ASSUME NEW mem, NEW n \in Nat, NEW j, OrderedList(mem, n, j)
  PROVE  Innermost(LastContainer(mem, n), j)
<1>. USE DEF OrderedList
<1>1. CASE n = 0
  <2>1. Around(j) = {}
    BY <1>1
  <2>. QED
    BY <1>1, <2>1 DEF Innermost, LastContainer, Around
<1>2. CASE n > 0
  <2>1. n - 1 \in 0 .. n - 1 /\ LastContainer(mem, n) = mem[n - 1]
    BY <1>2 DEF LastContainer
  <2>2. PICK a \in Around(j) : mem[n - 1] = xs[a].object
    BY <2>1
  <2>3. ASSUME NEW b \in Around(j)
        PROVE  b <= a
    <3>1. PICK s \in 0 .. n - 1 : mem[s] = xs[b].object
      OBVIOUS
    <3>2. a \in Int /\ b \in Int
      BY DEF Around
    <3>3. CASE s = n - 1
      <4>1. a = b
        BY <2>2, <3>1, <3>3 DEF Around
      <4>. QED
        BY <3>2, <4>1
    <3>4. CASE s # n - 1
      <4>1. s < n - 1
        BY <3>4
      <4>2. b < a
        BY <2>1, <2>2, <3>1, <4>1
      <4>. QED
        BY <3>2, <4>2
    <3>. QED
      BY <3>3, <3>4
  <2>. QED
    BY <2>1, <2>2, <2>3 DEF Innermost, Around
<1>. QED
  BY <1>1, <1>2

(* One more crossing: the object is put at the end of the list, or it was  *)
(* the last of the list, for the ray leaves nested solids in the reverse   *)
(* order; the swap then changes nothing.                                   *)
LEMMA CrossingKeepsOrder ==
  ASSUME IInv, IInv', Walk, ProperlyNested, ListIsAround, ListIsOrdered
  PROVE  ListIsAround' /\ ListIsOrdered'
<1>. DEFINE n == container_count
            o == xs[k].object
<1>1. /\ k \in Nat \ {0} /\ k \in 1 .. Len(xs) /\ n \in Nat /\ n \in 0 .. HiMemLen
      /\ k' = k + 1 /\ xs' = xs /\ Len(xs) \in Nat
      /\ hi_mem \in [Slots -> Objects \cup {Nil}]
  BY HiMemLenFacts DEF IInv, TypeOK, Walk
<1>2. /\ \A a \in 1 .. Len(xs) : \E b \in 1 .. Len(xs) :
           b # a /\ xs[b].object = xs[a].object
      /\ \A a, b, c \in 1 .. Len(xs) :
           xs[a].object = xs[b].object /\ xs[b].object = xs[c].object
             => a = b \/ b = c \/ a = c
  BY NestedFacts DEF IInv
<1>3. /\ Around(k)' = {a \in 1 .. k : ~\E b \in 1 .. k :
                          b # a /\ xs[b].object = xs[a].object}
      /\ Around(k) \subseteq 1 .. k - 1
      /\ \A a, b \in Around(k) : xs[a].object = xs[b].object => a = b
      /\ \A i \in 1 .. k : i \in 1 .. k - 1 \/ i = k
      /\ \A i \in 1 .. k - 1 : i \in 1 .. k /\ i # k /\ i < k /\ i \in 1 .. Len(xs)
  BY <1>1 DEF Around
<1>. DEFINE Now == Around(k)
            Then == Around(k)'
            obj(a) == xs[a].object
            mem == hi_mem
            mem2 == hi_mem'
            n2c == container_count'
            In == 0 .. n - 1
            In2 == 0 .. n2c - 1
<1>4. /\ \A a \in Now : \E s \in In : mem[s] = obj(a)
      /\ \A s \in In : \E a \in Now : mem[s] = obj(a)
      /\ \A r, s \in In : \A a, b \in Now :
           r < s /\ mem[r] = obj(a) /\ mem[s] = obj(b) => a < b
  BY DEF ListIsAround, ListIsOrdered
<1>5. SUFFICES /\ \A a \in Then : \E s \in In2 : mem2[s] = obj(a)
               /\ \A s \in In2 : \E a \in Then : mem2[s] = obj(a)
               /\ \A r, s \in In2 : \A a, b \in Then :
                    r < s /\ mem2[r] = obj(a) /\ mem2[s] = obj(b) => a < b
  BY <1>1 DEF ListIsAround, ListIsOrdered
<1>6. CASE Entered(o)
  <2>1. \A s \in In : mem[s] # o
    BY <1>6 DEF Entered, Holding
  <2>2. /\ n2c = n + 1 /\ n \in Slots
        /\ mem2[n] = o /\ \A s \in In : mem2[s] = mem[s]
    <3>1. n2c = n + 1 /\ mem2 = [mem EXCEPT ![n] = o]
      BY <1>6 DEF Entered
    <3>2. n \in Slots
      BY <1>1, <3>1 DEF IInv, TypeOK, Slots
    <3>. QED
      BY <1>1, <3>1, <3>2 DEF Slots
  <2>3. /\ \A s \in In2 : s \in In \/ s = n
        /\ \A s \in In : s \in In2 /\ s < n /\ ~(n < s)
        /\ n \in In2 /\ ~(n < n)
    BY <1>1, <2>2
  <2>4. \A b \in 1 .. k - 1 : obj(b) # o
    <3>1. SUFFICES ASSUME NEW b \in 1 .. k - 1, obj(b) = o PROVE FALSE
      OBVIOUS
    <3>2. CASE b \in Now
      BY <1>4, <2>1, <3>1, <3>2
    <3>3. CASE b \notin Now
      <4>1. PICK c \in 1 .. k - 1 : c # b /\ obj(c) = obj(b)
        BY <3>3 DEF Around
      <4>. QED
        BY <1>1, <1>2, <1>3, <3>1, <4>1
    <3>. QED
      BY <3>2, <3>3
  <2>5. Then = Now \cup {k}
    <3>1. ASSUME NEW a \in 1 .. k - 1
          PROVE  a \in Then <=> a \in Now
      BY <1>3, <2>4 DEF Around
    <3>2. k \in Then
      BY <1>1, <1>3, <2>4
    <3>3. Then \subseteq 1 .. k
      BY <1>3
    <3>. HIDE DEF Then, Now
    <3>. QED
      BY <1>3, <3>1, <3>2, <3>3 DEF Now
  <2>6. \A a \in Now : obj(a) # o /\ a < k
    BY <1>3, <2>4
  <2>. HIDE DEF Now, Then, mem, mem2, In, In2, n2c, n
  <2>7. \A a \in Then : \E s \in In2 : mem2[s] = obj(a)
    BY <1>4, <2>2, <2>3, <2>5
  <2>8. \A s \in In2 : \E a \in Then : mem2[s] = obj(a)
    BY <1>4, <2>2, <2>3, <2>5
  <2>9. ASSUME NEW r \in In2, NEW s \in In2, NEW a \in Then, NEW b \in Then,
               r < s, mem2[r] = obj(a), mem2[s] = obj(b)
        PROVE  a < b
    <3>1. r \in In /\ mem[r] = obj(a)
      BY <2>2, <2>3, <2>9
    <3>2. a \in Now
      BY <2>1, <2>5, <3>1
    <3>3. CASE s \in In
      <4>1. mem[s] = obj(b) /\ b \in Now
        BY <2>1, <2>2, <2>5, <2>9, <3>3
      <4>. QED
        BY <1>4, <2>9, <3>1, <3>2, <3>3, <4>1
    <3>4. CASE s = n
      <4>1. b = k
        BY <2>2, <2>5, <2>6, <2>9, <3>4
      <4>. QED
        BY <2>6, <3>2, <4>1
    <3>. QED
      BY <2>3, <3>3, <3>4
  <2>. QED
    BY <2>7, <2>8, <2>9
<1>7. CASE Left(o)
  <2>1. PICK s \in In :
          /\ mem[s] = o /\ n2c = n - 1
          /\ mem2 = [mem EXCEPT ![s] = mem[n - 1], ![n - 1] = mem[s]]
    BY <1>7 DEF Left, Holding
  <2>2. PICK a \in Now : obj(a) = o
    BY <1>4, <2>1
  <2>3. \A b \in Now : b # a => obj(b) # o
    BY <1>3, <2>2
  <2>4. n - 1 \in In /\ (s < n - 1 \/ s = n - 1)
    BY <1>1, <2>1
  <2>5. s = n - 1
    <3>1. SUFFICES ASSUME s < n - 1 PROVE FALSE
      BY <2>4
    <3>2. PICK b \in Now : mem[n - 1] = obj(b)
      BY <1>4, <2>4
    <3>3. a < b
      BY <1>4, <2>1, <2>2, <2>4, <3>1, <3>2
    <3>4. a \in 1 .. Len(xs) /\ b \in 1 .. Len(xs) /\ b < k
      BY <1>3
    <3>5. PICK d \in 1 .. Len(xs) : d # b /\ obj(d) = obj(b)
      BY <1>2, <3>4
    <3>6. d \notin 1 .. k - 1
      BY <3>5 DEF Around
    <3>7. obj(b) # o
      BY <2>3, <3>3, <3>4
    <3>8. d # k
      BY <3>5, <3>7
    <3>9. k < d
      BY <1>1, <3>6, <3>8
    <3>. QED
      BY <1>1, <2>2, <3>3, <3>4, <3>5, <3>9 DEF ProperlyNested
  <2>6. /\ \A r \in In2 : r \in In /\ r # n - 1 /\ mem2[r] = mem[r]
        /\ \A r \in In : r \in In2 \/ r = n - 1
    <3>1. \A r \in In2 : r \in In /\ r # n - 1 /\ r \in Slots
      BY <1>1, <2>1, HiMemLenFacts DEF Slots
    <3>2. \A r \in In : r \in In2 \/ r = n - 1
      BY <1>1, <2>1
    <3>. QED
      BY <1>1, <2>1, <2>5, <3>1, <3>2
  <2>7. Then = Now \ {a}
    <3>1. ASSUME NEW b \in 1 .. k - 1, b # a
          PROVE  b \in Then <=> b \in Now
      BY <1>3, <2>3, <3>1 DEF Around
    <3>2. k \notin Then
      BY <1>3, <2>2
    <3>3. a \notin Then
      BY <1>1, <1>3, <2>2
    <3>4. Then \subseteq 1 .. k
      BY <1>3
    <3>. HIDE DEF Then, Now
    <3>. QED
      BY <1>3, <3>1, <3>2, <3>3, <3>4 DEF Now
  <2>8. \A r \in In2 : mem[r] # o
    BY <2>1, <2>5, <2>6 DEF IInv, ListInv
  <2>. HIDE DEF Now, Then, mem, mem2, In, In2, n2c, n
  <2>9. ASSUME NEW b \in Then
        PROVE  \E r \in In2 : mem2[r] = obj(b)
    <3>1. b \in Now /\ obj(b) # o
      BY <2>3, <2>7
    <3>2. PICK r \in In : mem[r] = obj(b)
      BY <1>4, <3>1
    <3>3. r # n - 1
      BY <2>1, <2>5, <3>1, <3>2
    <3>. QED
      BY <2>6, <3>2, <3>3
  <2>10. \A r \in In2 : \E b \in Then : mem2[r] = obj(b)
    BY <1>4, <2>2, <2>6, <2>7, <2>8
  <2>11. \A r, q \in In2 : \A b, c \in Then :
           r < q /\ mem2[r] = obj(b) /\ mem2[q] = obj(c) => b < c
    BY <1>4, <2>6, <2>7
  <2>. QED
    BY <2>9, <2>10, <2>11
<1>. QED
  BY <1>6, <1>7 DEF Walk

LEMMA WalkKeepsNesting ==
  ASSUME IInv, IInv', NestingInv, Walk
  PROVE  NestingInv'
<1>1. SUFFICES ASSUME ProperlyNested'
               PROVE  ListIsAround' /\ ListIsOrdered' /\ MediaKnown'
  BY DEF NestingInv, Walk
<1>2. /\ xs' = xs /\ hit' = hit /\ k' = k + 1 /\ k \in Nat \ {0} /\ k \in 1 .. Len(xs)
      /\ Len(xs) \in Nat
      /\ container_count \in Nat /\ container_count' \in Nat
  BY HiMemLenFacts DEF IInv, TypeOK, Walk
<1>3. ProperlyNested
  BY <1>1, <1>2 DEF ProperlyNested, XsOf
<1>4. ListIsAround /\ ListIsOrdered /\ MediaKnown
  BY <1>3 DEF NestingInv, Walk
<1>5. ListIsAround' /\ ListIsOrdered'
  BY <1>3, <1>4, CrossingKeepsOrder
<1>6. ASSUME NEW h \in 1 .. k, xs[h] = hit
      PROVE  Innermost(n1', h) /\ Innermost(n2', h + 1)
  <2>1. CASE h = k
    <3>1. /\ n1' = LastContainer(hi_mem, container_count)
          /\ n2' = LastContainer(hi_mem', container_count')
      BY <1>6, <2>1 DEF Walk, Media
    <3>2. Innermost(LastContainer(hi_mem, container_count), k)
      <4>1. OrderedList(hi_mem, container_count, k)
        BY <1>4 DEF ListIsAround, ListIsOrdered, OrderedList
      <4>. QED
        BY <1>2, <4>1, LastIsInnermost
    <3>3. Around(k)' = Around(k + 1)
      BY <1>2 DEF Around
    <3>4. Innermost(LastContainer(hi_mem', container_count'), k + 1)
      <4>1. OrderedList(hi_mem', container_count', k + 1)
        <5>1. ListIsAround' /\ ListIsOrdered'
          BY <1>5
        <5>. DEFINE Near == Around(k + 1)
        <5>2. /\ \A a \in Near : \E s \in 0 .. container_count' - 1 :
                   hi_mem'[s] = xs[a].object
              /\ \A s \in 0 .. container_count' - 1 : \E a \in Near :
                   hi_mem'[s] = xs[a].object
          BY <1>2, <3>3, <5>1 DEF ListIsAround
        <5>3. \A r, s \in 0 .. container_count' - 1 : \A a, b \in Near :
                r < s /\ hi_mem'[r] = xs[a].object /\ hi_mem'[s] = xs[b].object
                  => a < b
          BY <1>2, <3>3, <5>1 DEF ListIsOrdered
        <5>. QED
          BY <5>2, <5>3 DEF OrderedList
      <4>. QED
        BY <1>2, <4>1, LastIsInnermost
    <3>. QED
      BY <2>1, <3>1, <3>2, <3>4
  <2>2. CASE h # k
    <3>1. h \in 1 .. k - 1 /\ h \in 1 .. Len(xs)
      BY <1>2, <2>2
    <3>2. xs[k] # hit
      BY <1>2, <1>3, <1>6, <2>2, <3>1, NestedFacts DEF IInv
    <3>3. n1' = n1 /\ n2' = n2
      BY <3>2 DEF Walk, Media
    <3>. QED
      BY <1>4, <1>6, <3>1, <3>3 DEF MediaKnown
  <2>. QED
    BY <2>1, <2>2
<1>7. MediaKnown'
  <2>1. k' - 1 = k
    BY <1>2
  <2>2. \A h : /\ Innermost(n1, h)' <=> Innermost(n1', h)
              /\ Innermost(n2, h + 1)' <=> Innermost(n2', h + 1)
    BY <1>2 DEF Innermost
  <2>. QED
    BY <1>2, <1>6, <2>1, <2>2 DEF MediaKnown
<1>. QED
  BY <1>5, <1>7

LEMMA NextNesting == IInv /\ IInv' /\ NestingInv /\ [Next]_vars => NestingInv'
<1>. SUFFICES ASSUME IInv, IInv', NestingInv, [Next]_vars PROVE NestingInv'
  OBVIOUS
<1>1. CASE Walk
  BY <1>1, WalkKeepsNesting
<1>2. CASE (\E i \in Intersection : AppendXs(i)) \/ FindHit
  BY <1>2 DEF NestingInv, AppendXs, FindHit
<1>3. CASE CheckScratch
  <2>1. k' = 1 /\ container_count' = 0
    BY <1>3 DEF IInv, ListInv, CheckScratch
  <2>2. Around(k)' = {}
    BY <2>1 DEF Around
  <2>3. phase' # "done" /\ ListIsAround' /\ ListIsOrdered' /\ MediaKnown'
    BY <1>3, <2>1, <2>2 DEF ListIsAround, ListIsOrdered, MediaKnown, CheckScratch
  <2>. QED
    BY <2>3 DEF NestingInv
<1>4. CASE WalkEnds \/ UNCHANGED vars
  <2>1. UNCHANGED <<xs, hit, k, hi_mem, container_count, n1, n2>>
    BY <1>4 DEF WalkEnds, vars
  <2>2. (ProperlyNested' <=> ProperlyNested)
        /\ (ListIsAround' <=> ListIsAround) /\ (ListIsOrdered' <=> ListIsOrdered)
        /\ (MediaKnown' <=> MediaKnown)
    BY <2>1 DEF ProperlyNested, XsOf, ListIsAround, ListIsOrdered, MediaKnown,
       Around, Innermost
  <2>. QED
    BY <1>4, <2>1, <2>2 DEF NestingInv, WalkEnds, vars
<1>. QED
  BY <1>1, <1>2, <1>3, <1>4 DEF Next, Terminated

(* Among solids that are nested or apart, however many and however deep,   *)
(* hit_info returns the refractive indices of the innermost solid before   *)
(* and behind the hit.                                                     *)
THEOREM MediaFound == Spec => []MediaAreInnermost
<1>1. Init => NestingInv
  BY DEF Init, NestingInv
<1>2. Spec => []NestingInv
  BY <1>1, Invariance, NextNesting, PTL DEF Spec
<1>3. IInv /\ NestingInv => MediaAreInnermost
  <2>1. SUFFICES ASSUME IInv, NestingInv, phase = "done", ProperlyNested
                 PROVE  \E h \in 1 .. Len(xs) :
                          xs[h] = hit /\ Innermost(n1, h) /\ Innermost(n2, h + 1)
    BY DEF MediaAreInnermost
  <2>2. PICK h \in 1 .. Len(xs) : xs[h] = hit
    BY <2>1, NestedFacts DEF IInv
  <2>3. h \in 1 .. k - 1
    BY <2>1 DEF IInv, TypeOK, NestingInv
  <2>. QED
    BY <2>1, <2>2, <2>3 DEF NestingInv, MediaKnown
<1>. QED
  BY <1>2, <1>3, Invariance, PTL
=============================================================================
