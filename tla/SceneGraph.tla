----------------------------- MODULE SceneGraph -----------------------------
(***************************************************************************)
(* Shapes, groups of shapes, and the bounding box every group caches.      *)
(* group_add_child hangs a shape below a group and enlarges the group's    *)
(* box by the child's box at that moment; set_transform moves a shape and  *)
(* touches no box; intersect_world sends a ray down the tree, skipping the *)
(* groups whose box it misses, into a buffer that render_to_canvas sized   *)
(* from world_object_count.                                                *)
(*                                                                         *)
(* Space has one axis.  A transformation moves it and may turn it around,  *)
(* so that the order of two transformations matters; a box is an interval, *)
(* and a ray stays at one coordinate, so that it meets a box exactly when  *)
(* that coordinate lies in it.                                             *)
(* Intersections are counted; their order and the statistics total_xs_test *)
(* and total_hit are in HitInfo and ColorAt.                               *)
(***************************************************************************)
EXTENDS Integers, Sequences, SequencesExt

CONSTANTS
  Groups, Leaves,  \* the groups, and the shapes that are not groups
  Kind,            \* of each leaf: "sphere", "cube", "plane", ...
  Radius,          \* of each leaf: its box in its own space is -r .. r
  Unbounded,       \* the leaves with an infinite box: planes, open cylinders
  Transforms,      \* the transformations
  Rays,            \* the coordinates of the rays
  Nil

Shapes == Groups \cup Leaves
Kinds == {"sphere", "cube", "plane", "triangle", "cylinder", "cone"}

ASSUME ShapesAssumption ==
  Groups \cap Leaves = {} /\ IsFiniteSet(Shapes) /\ Nil \notin Shapes \cup Rays
ASSUME LeavesAssumption ==
  /\ Kind \in [Leaves -> Kinds]
  /\ Radius \in [Leaves -> Nat]
  /\ {l \in Leaves : Kind[l] = "plane"} \subseteq Unbounded
  /\ Unbounded \subseteq Leaves

Transformations == [facing : {"same", "opposite"}, shift : Int]

ASSUME SpaceAssumption == Transforms \subseteq Transformations /\ Rays \subseteq Int

VARIABLES
  children,   \* shapes of each group, in the order they were added
  parent,     \* of each shape
  transform,  \* of each shape; the code keeps its inverse
  box,        \* bounds of each group
  outdated,   \* history: the groups whose box was not told of a change below
              \* them, or was given a box with infinite sides
  objects,    \* World.objects, of the world that is looked at
  ray,        \* the coordinate of the ray, or Nil while the scene is built
  frames,     \* the loops over shapes that the ray is in, innermost last
  capacity,   \* len(xs_buf.intersections)
  count,      \* xs_buf.count
  tested      \* history: the leaves this ray was intersected with

scene == <<children, parent, transform, box, outdated>>
cast == <<objects, ray, frames, capacity, count, tested>>
vars == <<scene, cast>>

-----------------------------------------------------------------------------
(* Where a transformation takes the point x, and what it takes to x.       *)
Image(t, x) == IF t.facing = "same" THEN t.shift + x ELSE t.shift - x
Preimage(t, x) == IF t.facing = "same" THEN x - t.shift ELSE t.shift - x

(* Boxes.  A box with an infinite side, transformed, is not-a-number on    *)
(* all axes: the matrix multiplies an infinity by zero in every row.       *)
Interval(lo, hi) == [kind |-> "finite", min |-> lo, max |-> hi]
Empty    == [kind |-> "empty", min |-> 0, max |-> 0]
Infinite == [kind |-> "infinite", min |-> 0, max |-> 0]
NotANumber == [kind |-> "nan", min |-> 0, max |-> 0]

LeafBox(l) ==
  IF l \in Unbounded THEN Infinite ELSE Interval(-Radius[l], Radius[l])

BoxOf(s) == IF s \in Groups THEN box[s] ELSE LeafBox(s)

LowerOf(x, y) == IF x < y THEN x ELSE y
UpperOf(x, y) == IF x > y THEN x ELSE y

(* bounds_transform: the least box around the corners, transformed.        *)
BoundsTransform(b, t) ==
  LET p == Image(t, b.min)
      q == Image(t, b.max)
  IN  IF b.kind = "finite" THEN Interval(LowerOf(p, q), UpperOf(p, q)) ELSE NotANumber

ParentSpaceBox(s) == BoundsTransform(BoxOf(s), transform[s])

Hull(a, b) == Interval(LowerOf(a.min, b.min), UpperOf(a.max, b.max))

(* bounds_add_b for a transformed b.  With a NaN on one side, min and max  *)
(* yield their second argument or the number, as the compiler emits a      *)
(* comparison or the instruction for it; a NaN already in a gives way to b *)
(* either way.                                                             *)
MutantEnlarged(a, b) ==
  IF b.kind = "nan" THEN {a, b}
  ELSE IF a.kind = "finite" THEN {Interval(a.min, UpperOf(a.max, b.max))} ELSE {b}
Enlarged(a, b) ==
  IF b.kind = "nan" THEN {a, b}
  ELSE IF a.kind = "finite" THEN {Hull(a, b)} ELSE {b}

(* bounds_intersect: every comparison with a NaN is false, so such a box   *)
(* stops no ray; the initial box stops all.                                *)
Meets(b, x) ==
  CASE b.kind = "finite" -> b.min <= x /\ x <= b.max
    [] b.kind = "empty"  -> FALSE
    [] OTHER             -> TRUE

-----------------------------------------------------------------------------
(* How many intersections a ray may have with a shape.  Where rounding     *)
(* puts a rim on the wall and on both caps, a closed cylinder has three,   *)
(* if assertions are off; a closed cone has two walls and two caps.        *)
SphereXs   == {0, 2}
CubeXs     == {0, 2}
PlaneXs    == {0, 1}
TriangleXs == {0, 1}
CylinderXs == 0 .. 3
ConeXs     == 0 .. 4

LeafXs(l) ==
  CASE Kind[l] = "sphere"   -> SphereXs
    [] Kind[l] = "cube"     -> CubeXs
    [] Kind[l] = "plane"    -> PlaneXs
    [] Kind[l] = "triangle" -> TriangleXs
    [] Kind[l] = "cylinder" -> CylinderXs
    [] Kind[l] = "cone"     -> ConeXs

(* A ray that misses a shape's box misses the shape, except for a cone:    *)
(* what is appended for a ray along its side has no height to keep, and    *)
(* the caps reach further than get_bounds says.                            *)
IntersectionCounts(l, x) ==
  IF Meets(LeafBox(l), x) \/ Kind[l] = "cone" THEN LeafXs(l) ELSE {0}

-----------------------------------------------------------------------------
(* s with its parent, its parent's parent, ...                             *)
SelfAndAbove(s) ==
  LET above[n \in Shapes] ==
        {n} \cup IF parent[n] = Nil THEN {} ELSE above[parent[n]]
  IN  above[s]

Roots == {s \in Shapes : parent[s] = Nil}

Below(g) == {s \in Shapes \ {g} : g \in SelfAndAbove(s)}

(* world_to_object: the inverse of the parent's transformation first, and  *)
(* before it those of what is above.  The mutant applies its own first.    *)
MutantWorldToObject(s, x) ==
  LET local[n \in Shapes] ==
        [y \in Int |-> LET z == Preimage(transform[n], y)
                       IN  IF parent[n] = Nil THEN z ELSE local[parent[n]][z]]
  IN  local[s][x]
WorldToObject(s, x) ==
  LET local[n \in Shapes] ==
        Preimage(transform[n], IF parent[n] = Nil THEN x ELSE local[parent[n]])
  IN  local[s]

(* child_count: the group's children and, for those that are groups, theirs.*)
ChildCount(g) ==
  LET below[n \in Groups] ==
        FoldLeft(LAMBDA sum, c : sum + IF c \in Groups THEN below[c] ELSE 0,
                 Len(children[n]), children[n])
  IN  below[g]

MutantObjectCount(w) == Cardinality(w)
ObjectCount(w) ==
  FoldSet(LAMBDA o, sum : sum + IF o \in Groups THEN ChildCount(o) ELSE 0,
          Cardinality(w), w)

-----------------------------------------------------------------------------
Init ==
  /\ children = [g \in Groups |-> <<>>]
  /\ parent = [s \in Shapes |-> Nil]
  /\ transform \in [Shapes -> Transforms]
  /\ box = [g \in Groups |-> Empty]
  /\ outdated = {}
  /\ objects = {}
  /\ ray = Nil /\ frames = <<>> /\ capacity = 0 /\ count = 0 /\ tested = {}

(* The box of s, or what is below s, changes while s hangs in a group.     *)
Outdates(s) == IF parent[s] = Nil THEN {} ELSE {parent[s]}

SetTransform(s, t) ==
  /\ ray = Nil
  /\ t # transform[s]
  /\ transform' = [transform EXCEPT ![s] = t]
  /\ outdated' = outdated \cup Outdates(s)
  /\ UNCHANGED <<children, parent, box, cast>>

(* No caller hangs a group below itself: the code does not check that.     *)
MutantAddChild(g, c) ==
  /\ ray = Nil
  /\ c # g /\ g \notin Below(c)
  /\ children' = [children EXCEPT ![g] = Append(@, c)]
  /\ parent' = [parent EXCEPT ![c] = g]
  /\ \E b \in Enlarged(box[g], ParentSpaceBox(c)) : box' = [box EXCEPT ![g] = b]
  /\ outdated' = outdated \cup Outdates(g)
       \cup IF ParentSpaceBox(c).kind = "nan" THEN {g} ELSE {}
  /\ UNCHANGED <<transform, cast>>
AddChild(g, c) ==
  /\ ray = Nil
  /\ c # g /\ g \notin Below(c)
  /\ parent[c] = Nil
  /\ children' = [children EXCEPT ![g] = Append(@, c)]
  /\ parent' = [parent EXCEPT ![c] = g]
  /\ \E b \in Enlarged(box[g], ParentSpaceBox(c)) : box' = [box EXCEPT ![g] = b]
  /\ outdated' = outdated \cup Outdates(g)
       \cup IF ParentSpaceBox(c).kind = "nan" THEN {g} ELSE {}
  /\ UNCHANGED <<transform, cast>>

-----------------------------------------------------------------------------
(* A world of shapes that hang in no group.  render_to_canvas counts its   *)
(* objects, groups and all, and makes a buffer of four intersections for   *)
(* each; then a ray enters intersect_world, which empties the buffer.      *)
Cast(w, x) ==
  /\ ray = Nil
  /\ objects' = w
  /\ ray' = x
  /\ frames' = <<[shapes |-> SetToSeq(w), origin |-> x]>>
  /\ capacity' = 4 * ObjectCount(w)
  /\ count' = 0
  /\ tested' = {}
  /\ UNCHANGED scene

Top == Last(frames)
Running == frames # <<>> /\ Top.shapes # <<>>
Shape == Head(Top.shapes)
NextShape == ReplaceAt(frames, Len(frames), [Top EXCEPT !.shapes = Tail(@)])

(* intersects: the ray in the space of the shape.                          *)
Origin == Preimage(transform[Shape], Top.origin)

IntersectLeaf ==
  /\ Running /\ Shape \in Leaves
  /\ \E n \in IntersectionCounts(Shape, Origin) : count' = count + n
  /\ tested' = tested \cup {Shape}
  /\ frames' = NextShape
  /\ UNCHANGED <<scene, objects, ray, capacity>>

(* group_intersects returns at once, or calls intersects for each child.   *)
MutantEntered(g) == Len(children[g]) > 0 /\ Meets(box[g], Top.origin)
Entered(g) == Len(children[g]) > 0 /\ Meets(box[g], Origin)

SkipGroup ==
  /\ Running /\ Shape \in Groups
  /\ ~ Entered(Shape)
  /\ frames' = NextShape
  /\ UNCHANGED <<scene, objects, ray, capacity, count, tested>>

EnterGroup ==
  /\ Running /\ Shape \in Groups
  /\ Entered(Shape)
  /\ frames' = Append(NextShape,
                      [shapes |-> children[Shape], origin |-> Origin])
  /\ UNCHANGED <<scene, objects, ray, capacity, count, tested>>

LeaveGroup ==
  /\ Len(frames) > 1 /\ Top.shapes = <<>>
  /\ frames' = Front(frames)
  /\ UNCHANGED <<scene, objects, ray, capacity, count, tested>>

(* intersect_world returns, and the caller may build on.                   *)
RayDone == Len(frames) = 1 /\ Top.shapes = <<>>

FinishRay ==
  /\ RayDone
  /\ objects' = {}
  /\ ray' = Nil /\ frames' = <<>> /\ capacity' = 0 /\ count' = 0 /\ tested' = {}
  /\ UNCHANGED scene

Next ==
  \/ \E s \in Shapes, t \in Transforms : SetTransform(s, t)
  \/ \E g \in Groups, c \in Shapes : AddChild(g, c)
  \/ \E w \in SUBSET Roots \ {{}}, x \in Rays : Cast(w, x)
  \/ IntersectLeaf
  \/ SkipGroup
  \/ EnterGroup
  \/ LeaveGroup
  \/ FinishRay

Spec == Init /\ [][Next]_vars

-----------------------------------------------------------------------------
Boxes == [kind : {"finite", "empty", "nan"}, min : Int, max : Int]

(* The two directions of the tree agree: a shape is a child of its parent, *)
(* once, and of no other group.                                            *)
LinksAgree ==
  \A g \in Groups :
    /\ IsInjective(children[g])
    /\ ToSet(children[g]) = {s \in Shapes : parent[s] = g}

TypeOK ==
  /\ children \in [Groups -> Seq(Shapes)]
  /\ parent \in [Shapes -> Groups \cup {Nil}]
  /\ LinksAgree
  /\ transform \in [Shapes -> Transforms]
  /\ box \in [Groups -> Boxes]
  /\ outdated \subseteq Groups
  /\ objects \subseteq Roots
  /\ ray \in Rays \cup {Nil}
  /\ frames \in Seq([shapes : Seq(Shapes), origin : Int])
  /\ capacity \in Nat /\ count \in Nat
  /\ tested \subseteq Leaves

(* Neither g nor a group below it was changed behind the back of its box.  *)
UpToDate(g) == (Below(g) \cup {g}) \cap outdated = {}

(* The transformation of s within the world: the product of the parents'   *)
(* and its own, the root's on the left.                                    *)
Product(t, u) ==
  [facing |-> IF t.facing = u.facing THEN "same" ELSE "opposite",
   shift  |-> Image(t, u.shift)]

Placement(s) ==
  LET placed[n \in Shapes] ==
        IF parent[n] = Nil THEN transform[n]
        ELSE Product(placed[parent[n]], transform[n])
  IN  placed[s]

(* Where the point x of the space of l lies in that of g.                  *)
Seen(l, g, x) == WorldToObject(g, Image(Placement(l), x))

(* A group's cached bounds contain every shape below it, at any depth and  *)
(* whatever the order in which the tree was put together, unless a shape   *)
(* below was moved or grew after it was added, or was infinite or empty    *)
(* when it was (group_add_child, parent_space_bounds, set_transform).      *)
BoundsHoldContent ==
  \A g \in Groups : UpToDate(g) =>
    \A l \in Below(g) \cap Leaves :
      /\ box[g].kind = "finite" /\ LeafBox(l).kind = "finite"
      /\ \A corner \in {LeafBox(l).min, LeafBox(l).max} :
           box[g].min <= Seen(l, g, corner) /\ Seen(l, g, corner) <= box[g].max

(* The boxes save work and lose nothing: when intersect_world returns,     *)
(* every leaf of the world whose own box the ray meets was tested, however *)
(* many groups are above it, as long as those groups are up to date.       *)
NothingIsCulled ==
  RayDone =>
    \A l \in Leaves :
      \/ l \in tested
      \/ ~ Meets(LeafBox(l), WorldToObject(l, ray))
      \/ \E g \in SelfAndAbove(l) \cap Groups : ~ UpToDate(g)
      \/ SelfAndAbove(l) \cap objects = {}

(* The ray that a shape is intersected with was transformed downwards, one *)
(* group at a time (intersects); the point to shade is found on the ray in *)
(* the world and taken down along the parents (world_to_object).  Both end *)
(* at the same place in the space of the shape, and it is the place that   *)
(* the shape's transformations, up to the root's, take back to the ray.    *)
SpacesAgree ==
  Running =>
    /\ Origin = WorldToObject(Shape, ray)
    /\ Image(Placement(Shape), Origin) = ray

(* append_xs asserts that there is room: the buffer sized from             *)
(* world_object_count, which counts what hangs in groups at every depth,   *)
(* holds what one ray leaves in it.                                        *)
BufferSuffices == count <= capacity
=============================================================================
