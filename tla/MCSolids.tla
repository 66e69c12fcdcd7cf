------------------------------ MODULE MCSolids ------------------------------
(* Boxes that are solid, flat, infinite along an axis, empty and NaN; the  *)
(* cube; closed and open cylinders, one with its caps in one plane; and    *)
(* cones that end at the apex, on both sides of it, or are open.           *)
(* Rays start inside, on the faces, edges and corners, and outside.        *)
EXTENDS Solids

CONSTANT Sizes

Coordinates == {-3, -2, 0, 1, 2}

Cuboid(kind, xl, xh, yl, yh, zl, zh) ==
  [kind |-> kind, min |-> [x |-> xl, y |-> yl, z |-> zl], max |-> [x |-> xh, y |-> yh, z |-> zh],
   closed |-> kind = "cube"]

Tube(kind, lo, hi, closed) ==
  [Cuboid(kind, -Unit, Unit, lo, hi, -Unit, Unit) EXCEPT !.closed = closed]

MCShapes ==
  {Cuboid("cube", -Unit, Unit, -Unit, Unit, -Unit, Unit),
   Cuboid("bounds", -1, 2, -2, 0, 0, 2),
   Cuboid("bounds", 0, 0, -2, 2, -1, 2),
   Cuboid("bounds", -2, 2, 0, 0, -2, 0),
   Cuboid("bounds", -2, 2, -Infinity, Infinity, -2, 2),
   Cuboid("bounds", Infinity, -Infinity, Infinity, -Infinity, Infinity, -Infinity),
   Cuboid("bounds", NaN, NaN, NaN, NaN, NaN, NaN),
   Tube("cylinder", -1, 2, TRUE), Tube("cylinder", -1, 2, FALSE), Tube("cylinder", 0, 0, TRUE),
   Tube("cone", -2, 0, TRUE), Tube("cone", -1, 2, TRUE), Tube("cone", -1, 1, FALSE)}

Components == {c \in Component : c.size \in Sizes}

MCRays ==
  {r \in [origin : [Axes -> Coordinates], direction : [Axes -> Components]] :
     \E a \in Axes : r.direction[a].size # 0}
=============================================================================
