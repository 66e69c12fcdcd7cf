-------------------------- MODULE SceneGraphProofs --------------------------
(***************************************************************************)
(* Proofs about SceneGraph, for every finite set of shapes and every set   *)
(* of transformations and rays.  Each part has an invariant of its own,    *)
(* proved from the ones before it:                                         *)
(*   IInv  of the tree: its two directions agree, above every shape there  *)
(*         is a root, and a group that is not outdated has a box that      *)
(*         holds its children, from which it holds all that is below it;   *)
(*   CInv  of the way of a ray: each loop has the ray in the space of its  *)
(*         shapes, and what the ray may meet is tested or still ahead;     *)
(*   BInv  of the buffer: no leaf comes up twice, and what was counted is  *)
(*         the tested leaves' part of what world_object_count counted.     *)
(* What child_count and world_object_count add up is the number of shapes  *)
(* below: the folds they are written with are shown to be cardinalities.   *)
(***************************************************************************)
EXTENDS SceneGraph, SetInduction, SequenceTheorems, TLAPS

(* The boxes that the code can have computed: no corner without a number   *)
(* unless the kind says so.                                                *)
TreeTypes ==
  /\ children \in [Groups -> Seq(Shapes)]
  /\ parent \in [Shapes -> Groups \cup {Nil}]
  /\ transform \in [Shapes -> Transforms]
  /\ box \in [Groups -> Boxes]

Inside(a, b) ==
  a.kind = "finite" /\ b.kind = "finite" /\ b.min <= a.min /\ a.max <= b.max

(* A group's cached bounds contain, in its own space, the bounds each of   *)
(* its children has now (group_add_child, parent_space_bounds), unless a   *)
(* child was moved or grew after it was added, or was infinite or empty    *)
(* when it was.                                                            *)
BoxesHoldChildren ==
  \A c \in Shapes :
    parent[c] # Nil /\ parent[c] \notin outdated => Inside(ParentSpaceBox(c), box[parent[c]])

(* Above every shape there is a root: no group hangs below itself.         *)
Forest == Rooted(Shapes, parent)

IInv == TreeTypes /\ LinksAgree /\ BoxesHoldChildren /\ Forest

-----------------------------------------------------------------------------
(* Boxes.                                                                  *)

LEMMA ImageFacts ==
  ASSUME NEW t \in Transformations, NEW x \in Int
  PROVE  /\ Image(t, x) \in Int /\ Preimage(t, x) \in Int
         /\ Preimage(t, Image(t, x)) = x /\ Image(t, Preimage(t, x)) = x
<1>1. t.shift \in Int
  BY DEF Transformations
<1>2. CASE t.facing = "same"
  BY <1>1, <1>2 DEF Image, Preimage
<1>3. CASE t.facing # "same"
  BY <1>1, <1>3 DEF Image, Preimage
<1>. QED
  BY <1>2, <1>3

(* To apply a product is to apply the right factor and then the left one.  *)
LEMMA ProductFacts ==
  ASSUME NEW t \in Transformations, NEW u \in Transformations
  PROVE  /\ Product(t, u) \in Transformations
         /\ \A x \in Int : Image(Product(t, u), x) = Image(t, Image(u, x))
<1>1. /\ t.shift \in Int /\ t.facing \in {"same", "opposite"}
      /\ u.shift \in Int /\ u.facing \in {"same", "opposite"}
  BY DEF Transformations
<1>2. Image(t, u.shift) \in Int
  BY <1>1, ImageFacts
<1>3. /\ Product(t, u).shift = Image(t, u.shift)
      /\ Product(t, u).facing = IF t.facing = u.facing THEN "same" ELSE "opposite"
  BY DEF Product
<1>4. Product(t, u) \in Transformations
  BY <1>2 DEF Product, Transformations
<1>5. ASSUME NEW x \in Int
      PROVE  Image(Product(t, u), x) = Image(t, Image(u, x))
  <2>1. CASE t.facing = "same" /\ u.facing = "same"
    BY <1>1, <1>3, <2>1 DEF Image
  <2>2. CASE t.facing = "same" /\ u.facing = "opposite"
    BY <1>1, <1>3, <2>2 DEF Image
  <2>3. CASE t.facing = "opposite" /\ u.facing = "same"
    BY <1>1, <1>3, <2>3 DEF Image
  <2>4. CASE t.facing = "opposite" /\ u.facing = "opposite"
    BY <1>1, <1>3, <2>4 DEF Image
  <2>. QED
    BY <1>1, <2>1, <2>2, <2>3, <2>4
<1>. QED
  BY <1>4, <1>5

LEMMA TransformTypes ==
  ASSUME TreeTypes
  PROVE  \A s \in Shapes : transform[s] \in Transformations
BY SpaceAssumption DEF TreeTypes

(* The box of a transformed box holds the images of all it held.           *)
LEMMA TransformHolds ==
  ASSUME NEW b, b.min \in Int, b.max \in Int, NEW t \in Transformations
  PROVE  /\ BoundsTransform(b, t) \in Boxes
         /\ BoundsTransform(b, t).kind = "nan" <=> b.kind # "finite"
         /\ BoundsTransform(b, t).kind = "finite" <=> b.kind = "finite"
         /\ b.kind = "finite" =>
              \A x \in Int : b.min <= x /\ x <= b.max =>
                /\ BoundsTransform(b, t).min <= Image(t, x)
                /\ Image(t, x) <= BoundsTransform(b, t).max
<1>1. PICK p \in Int : p = Image(t, b.min)
  BY ImageFacts
<1>2. PICK q \in Int : q = Image(t, b.max)
  BY ImageFacts
<1>3. /\ LowerOf(p, q) \in Int /\ UpperOf(p, q) \in Int
      /\ LowerOf(p, q) <= p /\ LowerOf(p, q) <= q
      /\ p <= UpperOf(p, q) /\ q <= UpperOf(p, q)
  BY DEF LowerOf, UpperOf
<1>4. CASE b.kind = "finite"
  <2>1. BoundsTransform(b, t) = Interval(LowerOf(p, q), UpperOf(p, q))
    BY <1>1, <1>2, <1>4 DEF BoundsTransform
  <2>2. /\ BoundsTransform(b, t) \in Boxes /\ BoundsTransform(b, t).kind = "finite"
        /\ BoundsTransform(b, t).min = LowerOf(p, q)
        /\ BoundsTransform(b, t).max = UpperOf(p, q)
    BY <1>3, <2>1 DEF Interval, Boxes
  <2>3. ASSUME NEW x \in Int, b.min <= x, x <= b.max
        PROVE  LowerOf(p, q) <= Image(t, x) /\ Image(t, x) <= UpperOf(p, q)
    <3>1. t.shift \in Int
      BY DEF Transformations
    <3>2. (p <= Image(t, x) /\ Image(t, x) <= q) \/ (q <= Image(t, x) /\ Image(t, x) <= p)
      <4>1. CASE t.facing = "same"
        BY <1>1, <1>2, <2>3, <3>1, <4>1 DEF Image
      <4>2. CASE t.facing # "same"
        BY <1>1, <1>2, <2>3, <3>1, <4>2 DEF Image
      <4>. QED
        BY <4>1, <4>2
    <3>3. Image(t, x) \in Int
      BY ImageFacts
    <3>. QED
      BY <1>3, <3>2, <3>3
  <2>. QED
    BY <1>4, <2>2, <2>3
<1>5. CASE b.kind # "finite"
  BY <1>5 DEF BoundsTransform, NotANumber, Boxes
<1>. QED
  BY <1>4, <1>5

LEMMA BoxOfTypes ==
  ASSUME TreeTypes, NEW s \in Shapes
  PROVE  BoxOf(s).min \in Int /\ BoxOf(s).max \in Int
<1>1. CASE s \in Groups
  BY <1>1 DEF TreeTypes, BoxOf, Boxes
<1>2. CASE s \notin Groups
  <2>1. s \in Leaves /\ Radius[s] \in Nat
    BY <1>2, LeavesAssumption DEF Shapes
  <2>. QED
    BY <1>2, <2>1 DEF BoxOf, LeafBox, Infinite, Interval
<1>. QED
  BY <1>1, <1>2

LEMMA BoxTypes ==
  ASSUME TreeTypes, NEW s \in Shapes
  PROVE  /\ ParentSpaceBox(s) \in Boxes
         /\ ParentSpaceBox(s).kind \in {"finite", "nan"}
<1>1. transform[s] \in Transformations
  BY TransformTypes
<1>2. PICK b : b = BoxOf(s) /\ b.min \in Int /\ b.max \in Int
  BY BoxOfTypes
<1>. QED
  BY <1>1, <1>2, TransformHolds DEF ParentSpaceBox

(* bounds_add_b with a box that is a number: the union holds both.         *)
LEMMA EnlargedHoldsBoth ==
  ASSUME NEW a \in Boxes, NEW b \in Boxes, b.kind = "finite", NEW e \in Enlarged(a, b)
  PROVE  /\ e \in Boxes /\ Inside(b, e)
         /\ \A i \in Boxes : Inside(i, a) => Inside(i, e)
<1>1. a.min \in Int /\ a.max \in Int /\ b.min \in Int /\ b.max \in Int
  BY DEF Boxes
<1>2. CASE a.kind = "finite"
  <2>1. e = Interval(LowerOf(a.min, b.min), UpperOf(a.max, b.max))
    BY <1>2 DEF Enlarged, Hull
  <2>2. /\ LowerOf(a.min, b.min) \in Int /\ UpperOf(a.max, b.max) \in Int
        /\ LowerOf(a.min, b.min) <= a.min /\ LowerOf(a.min, b.min) <= b.min
        /\ a.max <= UpperOf(a.max, b.max) /\ b.max <= UpperOf(a.max, b.max)
    BY <1>1 DEF LowerOf, UpperOf
  <2>3. /\ e.kind = "finite" /\ e \in Boxes
        /\ e.min = LowerOf(a.min, b.min) /\ e.max = UpperOf(a.max, b.max)
    BY <2>1, <2>2 DEF Interval, Boxes
  <2>4. ASSUME NEW i \in Boxes, Inside(i, a)
        PROVE  Inside(i, e)
    <3>1. i.min \in Int /\ i.max \in Int
      BY DEF Boxes
    <3>2. i.kind = "finite" /\ a.min <= i.min /\ i.max <= a.max
      BY <2>4 DEF Inside
    <3>3. e.min \in Int /\ e.max \in Int /\ e.min <= a.min /\ a.max <= e.max
      BY <2>2, <2>3
    <3>4. e.min <= i.min /\ i.max <= e.max
      BY <1>1, <3>1, <3>2, <3>3
    <3>. QED
      BY <2>3, <3>2, <3>4 DEF Inside
  <2>. QED
    BY <2>2, <2>3, <2>4 DEF Inside
<1>3. CASE a.kind # "finite"
  <2>1. e = b
    BY <1>3 DEF Enlarged
  <2>. QED
    BY <1>1, <1>3, <2>1 DEF Inside
<1>. QED
  BY <1>2, <1>3

LEMMA EnlargedType ==
  ASSUME NEW a \in Boxes, NEW b \in Boxes, b.kind \in {"finite", "nan"},
         NEW e \in Enlarged(a, b)
  PROVE  e \in Boxes
<1>1. CASE b.kind = "finite"
  BY <1>1, EnlargedHoldsBoth
<1>2. CASE b.kind = "nan"
  BY <1>2 DEF Enlarged
<1>. QED
  BY <1>1, <1>2

-----------------------------------------------------------------------------
(* The shapes above a shape.                                               *)

(* The recursive definitions of the model say what they seem to say.       *)
LEMMA AboveFacts ==
  ASSUME TreeTypes, Forest
  PROVE  \A s \in Shapes :
           /\ SelfAndAbove(s) = {s} \cup IF parent[s] = Nil THEN {} ELSE SelfAndAbove(parent[s])
           /\ SelfAndAbove(s) \in SUBSET Shapes
           /\ parent[s] \in Shapes <=> parent[s] # Nil
<1>. DEFINE V == SUBSET Shapes
            Gen(h) == [n \in Shapes |-> {n} \cup IF parent[n] = Nil THEN {} ELSE h[parent[n]]]
            P(h) == h = Gen(h)
            g == CHOOSE h : P(h)
            base == [s \in Shapes |-> {s}]
            step == [w \in Shapes \X V |-> {w[1]} \cup w[2]]
<1>1. \A s \in Shapes : parent[s] \in Shapes <=> parent[s] # Nil
  BY ShapesAssumption DEF TreeTypes, Shapes
<1>2. base \in [Shapes -> V] /\ step \in [Shapes \X V -> V]
  OBVIOUS
<1>3. /\ \A s \in Shapes : base[s] = {s}
      /\ \A s \in Shapes : \A v \in V : step[<<s, v>>] = {s} \cup v
  OBVIOUS
<1>. HIDE DEF base, step, V
<1>4. PICK f \in [Shapes -> V] : \A s \in Shapes :
         f[s] = IF parent[s] \in Shapes THEN step[<<s, f[parent[s]]>>] ELSE base[s]
  <2>1. PICK up : up = parent
    OBVIOUS
  <2>2. Rooted(Shapes, up)
    BY <2>1 DEF Forest, Rooted
  <2>3. \E f : Descends(f, Shapes, up, V, base, step)
    BY <1>2, <2>2, TreeRecursion
  <2>. QED
    BY <2>1, <2>3 DEF Descends
<1>5. \A s \in Shapes : f[s] = {s} \cup IF parent[s] = Nil THEN {} ELSE f[parent[s]]
  BY <1>1, <1>3, <1>4
<1>6. P(f)
  BY <1>4, <1>5
<1>7. \A s \in Shapes : SelfAndAbove(s) = g[s]
  BY DEF SelfAndAbove
<1>. HIDE DEF P
<1>8. P(g)
  BY <1>6
<1>9. \A s \in Shapes : g[s] = {s} \cup IF parent[s] = Nil THEN {} ELSE g[parent[s]]
  BY <1>8 DEF P
<1>. HIDE DEF g
<1>10. \A s \in Shapes : g[s] \in V
  <2>. DEFINE T == {s \in Shapes : g[s] \in V}
  <2>1. ASSUME NEW s \in Shapes, parent[s] \in Shapes => parent[s] \in T
        PROVE  s \in T
    <3>1. g[s] = {s} \cup IF parent[s] = Nil THEN {} ELSE g[parent[s]]
      BY <1>9
    <3>2. parent[s] # Nil => g[parent[s]] \in V
      BY <1>1, <2>1
    <3>. QED
      BY <3>1, <3>2 DEF V
  <2>2. T \in SUBSET Shapes
    OBVIOUS
  <2>. HIDE DEF T
  <2>3. T = Shapes
    BY <2>1, <2>2 DEF Forest, Rooted
  <2>. QED
    BY <2>3 DEF T
<1>. QED
  BY <1>1, <1>7, <1>9, <1>10 DEF V

LEMMA SpaceFacts ==
  ASSUME TreeTypes, Forest, NEW x \in Int
  PROVE  \A s \in Shapes :
           /\ WorldToObject(s, x) \in Int
           /\ WorldToObject(s, x) =
                Preimage(transform[s], IF parent[s] = Nil THEN x ELSE WorldToObject(parent[s], x))
<1>. DEFINE Gen(h) == [n \in Shapes |-> Preimage(transform[n], IF parent[n] = Nil THEN x ELSE h[parent[n]])]
            P(h) == h = Gen(h)
            g == CHOOSE h : P(h)
            base == [s \in Shapes |-> Preimage(transform[s], x)]
            step == [w \in Shapes \X Int |-> Preimage(transform[w[1]], w[2])]
<1>1. \A s \in Shapes :
        /\ parent[s] \in Shapes <=> parent[s] # Nil
        /\ \A y \in Int : Preimage(transform[s], y) \in Int
  BY ShapesAssumption, TransformTypes, ImageFacts DEF TreeTypes, Shapes
<1>2. base \in [Shapes -> Int] /\ step \in [Shapes \X Int -> Int]
  BY <1>1
<1>3. /\ \A s \in Shapes : base[s] = Preimage(transform[s], x)
      /\ \A s \in Shapes : \A v \in Int : step[<<s, v>>] = Preimage(transform[s], v)
  OBVIOUS
<1>. HIDE DEF base, step
<1>4. PICK f \in [Shapes -> Int] : \A s \in Shapes :
         f[s] = IF parent[s] \in Shapes THEN step[<<s, f[parent[s]]>>] ELSE base[s]
  <2>1. PICK up : up = parent
    OBVIOUS
  <2>2. Rooted(Shapes, up)
    BY <2>1 DEF Forest, Rooted
  <2>3. \E f : Descends(f, Shapes, up, Int, base, step)
    BY <1>2, <2>2, TreeRecursion
  <2>. QED
    BY <2>1, <2>3 DEF Descends
<1>5. \A s \in Shapes : f[s] = Preimage(transform[s], IF parent[s] = Nil THEN x ELSE f[parent[s]])
  BY <1>1, <1>3, <1>4
<1>6. P(f)
  BY <1>4, <1>5
<1>7. \A s \in Shapes : WorldToObject(s, x) = g[s]
  BY DEF WorldToObject
<1>. HIDE DEF P
<1>8. P(g)
  BY <1>6
<1>9. \A s \in Shapes : g[s] = Preimage(transform[s], IF parent[s] = Nil THEN x ELSE g[parent[s]])
  BY <1>8 DEF P
<1>. HIDE DEF g
<1>10. \A s \in Shapes : g[s] \in Int
  <2>. DEFINE T == {s \in Shapes : g[s] \in Int}
  <2>1. ASSUME NEW s \in Shapes, parent[s] \in Shapes => parent[s] \in T
        PROVE  s \in T
    BY <1>1, <1>9, <2>1
  <2>2. T \in SUBSET Shapes
    OBVIOUS
  <2>. HIDE DEF T
  <2>3. T = Shapes
    BY <2>1, <2>2 DEF Forest, Rooted
  <2>. QED
    BY <2>3 DEF T
<1>. QED
  BY <1>1, <1>7, <1>9, <1>10

LEMMA PlacementFacts ==
  ASSUME TreeTypes, Forest
  PROVE  \A s \in Shapes :
           /\ Placement(s) \in Transformations
           /\ Placement(s) = IF parent[s] = Nil THEN transform[s]
                             ELSE Product(Placement(parent[s]), transform[s])
<1>. DEFINE V == Transformations
            Gen(h) == [n \in Shapes |-> IF parent[n] = Nil THEN transform[n]
                                        ELSE Product(h[parent[n]], transform[n])]
            P(h) == h = Gen(h)
            g == CHOOSE h : P(h)
            base == [s \in Shapes |-> transform[s]]
            step == [w \in Shapes \X V |-> Product(w[2], transform[w[1]])]
<1>1. \A s \in Shapes :
        /\ parent[s] \in Shapes <=> parent[s] # Nil
        /\ transform[s] \in V
        /\ \A t \in V : Product(t, transform[s]) \in V
  BY ShapesAssumption, TransformTypes, ProductFacts DEF TreeTypes, Shapes
<1>. HIDE DEF V
<1>2. base \in [Shapes -> V] /\ step \in [Shapes \X V -> V]
  BY <1>1
<1>3. /\ \A s \in Shapes : base[s] = transform[s]
      /\ \A s \in Shapes : \A v \in V : step[<<s, v>>] = Product(v, transform[s])
  OBVIOUS
<1>. HIDE DEF base, step
<1>4. PICK f \in [Shapes -> V] : \A s \in Shapes :
         f[s] = IF parent[s] \in Shapes THEN step[<<s, f[parent[s]]>>] ELSE base[s]
  <2>1. PICK up : up = parent
    OBVIOUS
  <2>2. Rooted(Shapes, up)
    BY <2>1 DEF Forest, Rooted
  <2>3. \E f : Descends(f, Shapes, up, V, base, step)
    BY <1>2, <2>2, TreeRecursion
  <2>. QED
    BY <2>1, <2>3 DEF Descends
<1>5. \A s \in Shapes : f[s] = IF parent[s] = Nil THEN transform[s]
                               ELSE Product(f[parent[s]], transform[s])
  BY <1>1, <1>3, <1>4
<1>6. P(f)
  BY <1>4, <1>5
<1>7. \A s \in Shapes : Placement(s) = g[s]
  BY DEF Placement
<1>. HIDE DEF P
<1>8. P(g)
  BY <1>6
<1>9. \A s \in Shapes : g[s] = IF parent[s] = Nil THEN transform[s]
                               ELSE Product(g[parent[s]], transform[s])
  BY <1>8 DEF P
<1>. HIDE DEF g
<1>10. \A s \in Shapes : g[s] \in V
  <2>. DEFINE T == {s \in Shapes : g[s] \in V}
  <2>1. ASSUME NEW s \in Shapes, parent[s] \in Shapes => parent[s] \in T
        PROVE  s \in T
    BY <1>1, <1>9, <2>1
  <2>2. T \in SUBSET Shapes
    OBVIOUS
  <2>. HIDE DEF T
  <2>3. T = Shapes
    BY <2>1, <2>2 DEF Forest, Rooted
  <2>. QED
    BY <2>3 DEF T
<1>. QED
  BY <1>1, <1>7, <1>9, <1>10 DEF V

(* world_to_object takes a point of the world to the one point of the      *)
(* shape's space that the product of the transformations takes to it.      *)
LEMMA UndoesPlacement ==
  ASSUME TreeTypes, Forest
  PROVE  \A s \in Shapes : \A x \in Int :
           /\ Image(Placement(s), x) \in Int
           /\ WorldToObject(s, Image(Placement(s), x)) = x
           /\ Image(Placement(s), WorldToObject(s, x)) = x
           /\ parent[s] # Nil =>
                Image(Placement(s), x) = Image(Placement(parent[s]), Image(transform[s], x))
<1>1. \A s \in Shapes : \A x \in Int :
        /\ WorldToObject(s, x) \in Int
        /\ WorldToObject(s, x) =
             Preimage(transform[s], IF parent[s] = Nil THEN x ELSE WorldToObject(parent[s], x))
  BY SpaceFacts
<1>2. \A s \in Shapes :
        /\ Placement(s) \in Transformations
        /\ Placement(s) = IF parent[s] = Nil THEN transform[s]
                          ELSE Product(Placement(parent[s]), transform[s])
  BY PlacementFacts
<1>3. \A s \in Shapes : transform[s] \in Transformations
  BY TransformTypes
<1>4. \A s \in Shapes : parent[s] \in Shapes <=> parent[s] # Nil
  BY AboveFacts
<1>5. \A s \in Shapes : \A x \in Int :
        parent[s] # Nil =>
          Image(Placement(s), x) = Image(Placement(parent[s]), Image(transform[s], x))
  BY <1>2, <1>3, <1>4, ProductFacts
<1>. DEFINE Back(s, x) == /\ WorldToObject(s, Image(Placement(s), x)) = x
                          /\ Image(Placement(s), WorldToObject(s, x)) = x
            T == {s \in Shapes : \A x \in Int : Back(s, x)}
<1>6. ASSUME NEW s \in Shapes, parent[s] \in Shapes => parent[s] \in T
      PROVE  s \in T
  <2>1. ASSUME NEW x \in Int
        PROVE  Back(s, x)
    <3>1. CASE parent[s] = Nil
      <4>1. Image(Placement(s), x) \in Int /\ Placement(s) = transform[s]
        BY <1>2, <3>1, ImageFacts
      <4>2. \A y \in Int : WorldToObject(s, y) = Preimage(transform[s], y)
        BY <1>1, <3>1
      <4>3. /\ Preimage(transform[s], Image(transform[s], x)) = x
            /\ Image(transform[s], Preimage(transform[s], x)) = x
        BY <1>3, ImageFacts
      <4>. QED
        BY <4>1, <4>2, <4>3
    <3>2. CASE parent[s] # Nil
      <4>1. PICK p \in Shapes : p = parent[s] /\ \A y \in Int : Back(p, y)
        BY <1>4, <1>6, <3>2
      <4>2. \A y \in Int : /\ Image(Placement(s), y) = Image(Placement(p), Image(transform[s], y))
                            /\ WorldToObject(s, y) = Preimage(transform[s], WorldToObject(p, y))
        BY <1>1, <1>5, <3>2, <4>1
      <4>3. PICK y \in Int : y = Image(transform[s], x) /\ Preimage(transform[s], y) = x
        BY <1>3, ImageFacts
      <4>4. PICK z \in Int : z = Image(Placement(p), y) /\ WorldToObject(p, z) = y
        BY <1>2, <4>1, ImageFacts
      <4>5. WorldToObject(s, Image(Placement(s), x)) = x
        BY <4>2, <4>3, <4>4
      <4>6. PICK v \in Int : v = WorldToObject(p, x) /\ Image(Placement(p), v) = x
        BY <1>1, <4>1
      <4>7. PICK u \in Int : u = Preimage(transform[s], v) /\ Image(transform[s], u) = v
        BY <1>3, ImageFacts
      <4>8. Image(Placement(s), WorldToObject(s, x)) = x
        BY <4>2, <4>6, <4>7
      <4>. QED
        BY <4>5, <4>8
    <3>. QED
      BY <3>1, <3>2
  <2>. QED
    BY <2>1
<1>7. T \in SUBSET Shapes
  OBVIOUS
<1>. HIDE DEF T
<1>8. T = Shapes
  BY <1>6, <1>7 DEF Forest, Rooted
<1>9. \A s \in Shapes : \A x \in Int : Back(s, x)
  BY <1>8 DEF T
<1>10. \A s \in Shapes : \A x \in Int : Image(Placement(s), x) \in Int
  BY <1>2, ImageFacts
<1>. QED
  BY <1>5, <1>9, <1>10

(* To be above is an order, and the shapes above one shape are a chain.    *)
LEMMA AboveOrder ==
  ASSUME TreeTypes, Forest
  PROVE  /\ \A s \in Shapes : s \in SelfAndAbove(s)
         /\ \A s \in Shapes : \A r \in SelfAndAbove(s) : \A q \in SelfAndAbove(r) :
              q \in SelfAndAbove(s)
         /\ \A s \in Shapes : \A r \in SelfAndAbove(s) :
              s \in SelfAndAbove(r) => r = s
         /\ \A s \in Shapes : \A q, r \in SelfAndAbove(s) :
              q \in SelfAndAbove(r) \/ r \in SelfAndAbove(q)
         /\ \A s \in Shapes : \A q \in SelfAndAbove(s) :
              q # s => \E c \in SelfAndAbove(s) : parent[c] = q
         /\ \A s \in Shapes : parent[s] # s
<1>0. \A s \in Shapes :
        /\ SelfAndAbove(s) = {s} \cup IF parent[s] = Nil THEN {} ELSE SelfAndAbove(parent[s])
        /\ SelfAndAbove(s) \in SUBSET Shapes
        /\ parent[s] \in Shapes <=> parent[s] # Nil
  BY AboveFacts
<1>1. \A s \in Shapes : \A r \in SelfAndAbove(s) : \A q \in SelfAndAbove(r) :
         q \in SelfAndAbove(s)
  <2>. DEFINE T == {s \in Shapes : \A r \in SelfAndAbove(s) : \A q \in SelfAndAbove(r) :
                      q \in SelfAndAbove(s)}
  <2>1. ASSUME NEW s \in Shapes, parent[s] \in Shapes => parent[s] \in T
        PROVE  s \in T
    <3>1. SUFFICES ASSUME NEW r \in SelfAndAbove(s), NEW q \in SelfAndAbove(r)
                   PROVE  q \in SelfAndAbove(s)
      OBVIOUS
    <3>2. CASE r = s
      BY <3>1, <3>2
    <3>3. CASE r # s
      <4>1. parent[s] \in Shapes /\ r \in SelfAndAbove(parent[s])
        BY <1>0, <3>1, <3>3
      <4>2. q \in SelfAndAbove(parent[s])
        BY <2>1, <3>1, <4>1
      <4>. QED
        BY <1>0, <4>1, <4>2
    <3>. QED
      BY <3>2, <3>3
  <2>2. T \in SUBSET Shapes
    OBVIOUS
  <2>. HIDE DEF T
  <2>3. T = Shapes
    BY <2>1, <2>2 DEF Forest, Rooted
  <2>. QED
    BY <2>3 DEF T
<1>2. \A s \in Shapes : parent[s] # s
  <2>. DEFINE T == {s \in Shapes : parent[s] # s}
  <2>1. ASSUME NEW s \in Shapes, parent[s] \in Shapes => parent[s] \in T
        PROVE  s \in T
    BY <2>1
  <2>2. T \in SUBSET Shapes
    OBVIOUS
  <2>. HIDE DEF T
  <2>3. T = Shapes
    BY <2>1, <2>2 DEF Forest, Rooted
  <2>. QED
    BY <2>3 DEF T
<1>3. \A s \in Shapes : \A r \in SelfAndAbove(s) : s \in SelfAndAbove(r) => r = s
  <2>. DEFINE T == {s \in Shapes : \A r \in SelfAndAbove(s) : s \in SelfAndAbove(r) => r = s}
  <2>1. ASSUME NEW s \in Shapes, parent[s] \in Shapes => parent[s] \in T
        PROVE  s \in T
    <3>1. SUFFICES ASSUME NEW r \in SelfAndAbove(s), s \in SelfAndAbove(r), r # s
                   PROVE  FALSE
      OBVIOUS
    <3>2. PICK p \in Shapes : p = parent[s] /\ r \in SelfAndAbove(p) /\ p \in T
      BY <1>0, <2>1, <3>1
    <3>3. s \in SelfAndAbove(p)
      BY <1>1, <3>1, <3>2
    <3>4. p \in SelfAndAbove(s)
      BY <1>0, <3>2
    <3>5. s = p
      BY <3>2, <3>3, <3>4
    <3>. QED
      BY <1>2, <3>2, <3>5
  <2>2. T \in SUBSET Shapes
    OBVIOUS
  <2>. HIDE DEF T
  <2>3. T = Shapes
    BY <2>1, <2>2 DEF Forest, Rooted
  <2>. QED
    BY <2>3 DEF T
<1>4. \A s \in Shapes : \A q, r \in SelfAndAbove(s) : q \in SelfAndAbove(r) \/ r \in SelfAndAbove(q)
  <2>. DEFINE T == {s \in Shapes : \A q, r \in SelfAndAbove(s) :
                      q \in SelfAndAbove(r) \/ r \in SelfAndAbove(q)}
  <2>1. ASSUME NEW s \in Shapes, parent[s] \in Shapes => parent[s] \in T
        PROVE  s \in T
    <3>1. SUFFICES ASSUME NEW q \in SelfAndAbove(s), NEW r \in SelfAndAbove(s), q # s, r # s
                   PROVE  q \in SelfAndAbove(r) \/ r \in SelfAndAbove(q)
      OBVIOUS
    <3>2. PICK p \in T : q \in SelfAndAbove(p) /\ r \in SelfAndAbove(p)
      BY <1>0, <2>1, <3>1
    <3>. QED
      BY <3>2
  <2>2. T \in SUBSET Shapes
    OBVIOUS
  <2>. HIDE DEF T
  <2>3. T = Shapes
    BY <2>1, <2>2 DEF Forest, Rooted
  <2>. QED
    BY <2>3 DEF T
<1>5. \A s \in Shapes : \A q \in SelfAndAbove(s) :
        q # s => \E c \in SelfAndAbove(s) : parent[c] = q
  <2>. DEFINE T == {s \in Shapes : \A q \in SelfAndAbove(s) :
                      q # s => \E c \in SelfAndAbove(s) : parent[c] = q}
  <2>1. ASSUME NEW s \in Shapes, parent[s] \in Shapes => parent[s] \in T
        PROVE  s \in T
    <3>1. SUFFICES ASSUME NEW q \in SelfAndAbove(s), q # s
                   PROVE  \E c \in SelfAndAbove(s) : parent[c] = q
      OBVIOUS
    <3>2. PICK p \in T : p = parent[s] /\ q \in SelfAndAbove(p)
                         /\ SelfAndAbove(p) \subseteq SelfAndAbove(s)
      BY <1>0, <2>1, <3>1
    <3>3. s \in SelfAndAbove(s)
      BY <1>0
    <3>. QED
      BY <3>2, <3>3
  <2>2. T \in SUBSET Shapes
    OBVIOUS
  <2>. HIDE DEF T
  <2>3. T = Shapes
    BY <2>1, <2>2 DEF Forest, Rooted
  <2>. QED
    BY <2>3 DEF T
<1>. QED
  BY <1>0, <1>1, <1>2, <1>3, <1>4, <1>5

-----------------------------------------------------------------------------
LEMMA InitInv == Init => IInv
<1>. SUFFICES ASSUME Init PROVE IInv
  OBVIOUS
<1>1. TreeTypes
  BY DEF Init, TreeTypes, Empty, Boxes
<1>2. BoxesHoldChildren
  BY DEF Init, BoxesHoldChildren
<1>3. LinksAgree
  <2>1. \A g \in Groups : children[g] = <<>> /\ {s \in Shapes : parent[s] = g} = {}
    BY ShapesAssumption DEF Init, Shapes
  <2>2. IsInjective(<<>>) /\ ToSet(<<>>) = {}
    BY DEF IsInjective, ToSet
  <2>. QED
    BY <2>1, <2>2 DEF LinksAgree
<1>4. Forest
  <2>1. \A s \in Shapes : parent[s] \notin Shapes
    BY ShapesAssumption DEF Init
  <2>. QED
    BY <2>1 DEF Forest, Rooted
<1>. QED
  BY <1>1, <1>2, <1>3, <1>4 DEF IInv

(* A shape that hung nowhere hangs in g, as the last of g's children.      *)
LEMMA AddChildLinks ==
  ASSUME IInv, NEW g \in Groups, NEW c \in Shapes, AddChild(g, c)
  PROVE  LinksAgree'
<1>1. PICK q \in Seq(Shapes) : q = children[g]
  BY DEF IInv, TreeTypes
<1>2. PICK n \in Nat : n = Len(q)
  OBVIOUS
<1>3. PICK s : s = Append(q, c)
  OBVIOUS
<1>4. /\ s \in Seq(Shapes) /\ Len(s) = n + 1 /\ s[n + 1] = c
      /\ DOMAIN s = 1 .. n + 1 /\ DOMAIN q = 1 .. n
      /\ \A i \in 1 .. n : s[i] = q[i]
      /\ \A i \in 1 .. n + 1 : i \in 1 .. n \/ i = n + 1
      /\ \A i \in 1 .. n : i \in 1 .. n + 1
      /\ n + 1 \in 1 .. n + 1
  BY <1>2, <1>3
<1>5. /\ children' = [children EXCEPT ![g] = s] /\ children'[g] = s
      /\ \A h \in Groups : h # g => children'[h] = children[h]
      /\ parent'[c] = g /\ parent[c] = Nil
      /\ \A x \in Shapes : x # c => parent'[x] = parent[x]
      /\ \A h \in Groups : h # Nil
  BY <1>1, <1>3, ShapesAssumption DEF AddChild, IInv, TreeTypes, Shapes
<1>6. /\ IsInjective(q) /\ ToSet(q) = {x \in Shapes : parent[x] = g}
  BY <1>1 DEF IInv, LinksAgree
<1>7. \A i \in 1 .. n : q[i] # c
  <2>1. c \notin ToSet(q)
    BY <1>5, <1>6
  <2>. QED
    BY <1>4, <2>1 DEF ToSet
<1>8. IsInjective(s)
  BY <1>4, <1>6, <1>7 DEF IsInjective
<1>9. ToSet(s) = {x \in Shapes : parent'[x] = g}
  <2>1. ToSet(s) = ToSet(q) \cup {c}
    BY <1>4 DEF ToSet
  <2>. QED
    BY <1>5, <1>6, <2>1
<1>10. ASSUME NEW h \in Groups, h # g
       PROVE  /\ IsInjective(children'[h])
              /\ ToSet(children'[h]) = {x \in Shapes : parent'[x] = h}
  BY <1>5, <1>10 DEF IInv, LinksAgree
<1>. QED
  BY <1>5, <1>8, <1>9, <1>10 DEF LinksAgree

(* The group's box grows to hold the child's; the one above it is          *)
(* outdated, and no other box is concerned.                                *)
LEMMA AddChildBoxes ==
  ASSUME IInv, NEW g \in Groups, NEW c \in Shapes, AddChild(g, c)
  PROVE  TreeTypes' /\ BoxesHoldChildren'
<1>. DEFINE b == ParentSpaceBox(c)
<1>1. b \in Boxes /\ b.kind \in {"finite", "nan"} /\ box[g] \in Boxes
  BY BoxTypes DEF IInv, TreeTypes
<1>2. PICK e \in Enlarged(box[g], b) : box' = [box EXCEPT ![g] = e]
  BY DEF AddChild
<1>3. e \in Boxes
  BY <1>1, <1>2, EnlargedType
<1>4. TreeTypes'
  BY <1>2, <1>3, ShapesAssumption DEF AddChild, IInv, TreeTypes
<1>5. /\ box'[g] = e /\ \A h \in Groups : h # g => box'[h] = box[h]
      /\ transform' = transform /\ c # g /\ parent[c] = Nil
      /\ parent'[c] = g /\ \A s \in Shapes : s # c => parent'[s] = parent[s]
      /\ outdated' = outdated \cup Outdates(g)
           \cup IF b.kind = "nan" THEN {g} ELSE {}
  BY <1>2 DEF AddChild, IInv, TreeTypes
<1>6. \A s \in Shapes : s # g => ParentSpaceBox(s)' = ParentSpaceBox(s)
  BY <1>5 DEF ParentSpaceBox, BoxOf, LeafBox
<1>7. ASSUME NEW s \in Shapes, parent'[s] # Nil, parent'[s] \notin outdated'
      PROVE  Inside(ParentSpaceBox(s)', box'[parent'[s]])
  <2>1. CASE s = c
    <3>1. b.kind = "finite"
      BY <1>1, <1>5, <1>7, <2>1
    <3>. HIDE DEF b
    <3>2. Inside(b, e)
      BY <1>1, <1>2, <3>1, EnlargedHoldsBoth
    <3>. QED
      BY <1>5, <1>6, <2>1, <3>2 DEF b
  <2>2. CASE s # c /\ parent[s] = g
    <3>1. s # g
      <4>1. SUFFICES ASSUME s = g PROVE FALSE
        OBVIOUS
      <4>2. g \in Outdates(g)
        BY <1>5, <1>7, <2>2, <4>1 DEF Outdates
      <4>. QED
        BY <1>5, <1>7, <2>2, <4>2
    <3>2. b.kind = "finite" /\ Inside(ParentSpaceBox(s), box[g])
      BY <1>1, <1>5, <1>7, <2>2 DEF IInv, BoxesHoldChildren
    <3>3. ParentSpaceBox(s) \in Boxes
      BY BoxTypes DEF IInv
    <3>. HIDE DEF b
    <3>4. Inside(ParentSpaceBox(s), e)
      BY <1>1, <1>2, <3>2, <3>3, EnlargedHoldsBoth
    <3>. QED
      BY <1>5, <1>6, <2>2, <3>1, <3>4
  <2>3. CASE s # c /\ parent[s] # g
    <3>1. s # g
      BY <1>5, <1>7, <2>3 DEF Outdates
    <3>2. parent[s] \in Groups /\ parent[s] \notin outdated /\ parent[s] # Nil
      BY <1>5, <1>7, <2>3 DEF IInv, TreeTypes
    <3>. QED
      BY <1>5, <1>6, <2>3, <3>1, <3>2 DEF IInv, BoxesHoldChildren
  <2>. QED
    BY <2>1, <2>2, <2>3
<1>8. BoxesHoldChildren'
  BY <1>7 DEF BoxesHoldChildren
<1>. QED
  BY <1>4, <1>8

(* A group that is not below the shape hangs under it another tree.        *)
LEMMA AddChildForest ==
  ASSUME IInv, NEW g \in Groups, NEW c \in Shapes, AddChild(g, c)
  PROVE  Forest'
<1>1. SUFFICES ASSUME NEW T \in SUBSET Shapes,
                      \A s \in Shapes : (parent'[s] \in Shapes => parent'[s] \in T) => s \in T
               PROVE  T = Shapes
  BY DEF Forest, Rooted
<1>2. /\ parent'[c] = g /\ parent[c] = Nil
      /\ \A s \in Shapes : s # c => parent'[s] = parent[s]
      /\ c # g /\ g \notin Below(c) /\ g \in Shapes /\ Nil \notin Shapes
  BY ShapesAssumption DEF AddChild, IInv, TreeTypes, Shapes
<1>3. \A s \in Shapes :
        /\ SelfAndAbove(s) = {s} \cup IF parent[s] = Nil THEN {} ELSE SelfAndAbove(parent[s])
        /\ SelfAndAbove(s) \in SUBSET Shapes
        /\ parent[s] \in Shapes <=> parent[s] # Nil
  BY AboveFacts DEF IInv
<1>. DEFINE U == T \cup {s \in Shapes : c \in SelfAndAbove(s)}
<1>4. ASSUME NEW s \in Shapes, parent[s] \in Shapes => parent[s] \in U
      PROVE  s \in U
  <2>1. CASE s = c
    BY <1>3, <2>1
  <2>2. CASE s # c /\ parent[s] \in Shapes /\ c \in SelfAndAbove(parent[s])
    BY <1>3, <2>2
  <2>3. CASE s # c /\ (parent[s] \in Shapes => parent[s] \in T)
    BY <1>1, <1>2, <2>3
  <2>. QED
    BY <1>4, <2>1, <2>2, <2>3
<1>5. U \in SUBSET Shapes
  OBVIOUS
<1>. HIDE DEF U
<1>6. U = Shapes
  BY <1>4, <1>5 DEF IInv, Forest, Rooted
<1>7. g \in T
  BY <1>2, <1>6 DEF U, Below
<1>8. c \in T
  BY <1>1, <1>2, <1>7
<1>9. ASSUME NEW s \in Shapes, parent[s] \in Shapes => parent[s] \in T
      PROVE  s \in T
  BY <1>1, <1>2, <1>8, <1>9
<1>. QED
  BY <1>9 DEF IInv, Forest, Rooted

LEMMA SetTransformInv ==
  ASSUME IInv, NEW s \in Shapes, NEW t \in Transforms, SetTransform(s, t)
  PROVE  IInv'
<1>1. /\ transform' = [transform EXCEPT ![s] = t] /\ UNCHANGED <<children, parent, box>>
      /\ outdated' = outdated \cup Outdates(s)
  BY DEF SetTransform
<1>2. TreeTypes'
  BY <1>1 DEF IInv, TreeTypes
<1>3. LinksAgree'
  BY <1>1 DEF IInv, LinksAgree
<1>4. ASSUME NEW c \in Shapes, parent[c] # Nil, parent[c] \notin outdated'
      PROVE  Inside(ParentSpaceBox(c)', box[parent[c]])
  <2>1. c # s
    BY <1>1, <1>4 DEF Outdates
  <2>2. ParentSpaceBox(c)' = ParentSpaceBox(c)
    <3>1. transform'[c] = transform[c]
      BY <1>1, <2>1 DEF IInv, TreeTypes
    <3>. QED
      BY <1>1, <3>1 DEF ParentSpaceBox, BoxOf, LeafBox
  <2>. QED
    BY <1>1, <1>4, <2>2 DEF IInv, BoxesHoldChildren
<1>5. BoxesHoldChildren'
  BY <1>1, <1>4 DEF BoxesHoldChildren
<1>6. Forest'
  BY <1>1 DEF IInv, Forest
<1>. QED
  BY <1>2, <1>3, <1>5, <1>6 DEF IInv

LEMMA NextInv == IInv /\ [Next]_vars => IInv'
<1>. SUFFICES ASSUME IInv, [Next]_vars PROVE IInv'
  OBVIOUS
<1>1. ASSUME NEW s \in Shapes, NEW t \in Transforms, SetTransform(s, t)
      PROVE  IInv'
  BY <1>1, SetTransformInv
<1>2. ASSUME NEW g \in Groups, NEW c \in Shapes, AddChild(g, c)
      PROVE  IInv'
  BY <1>2, AddChildLinks, AddChildBoxes, AddChildForest DEF IInv
<1>3. CASE UNCHANGED scene
  <2>1. TreeTypes' /\ LinksAgree' /\ Forest'
    BY <1>3 DEF IInv, scene, TreeTypes, LinksAgree, Forest
  <2>2. \A s \in Shapes : ParentSpaceBox(s)' = ParentSpaceBox(s)
    BY <1>3 DEF scene, ParentSpaceBox, BoxOf, LeafBox
  <2>3. BoxesHoldChildren'
    BY <1>3, <2>2 DEF IInv, scene, BoxesHoldChildren
  <2>. QED
    BY <2>1, <2>3 DEF IInv
<1>4. UNCHANGED scene
        \/ (\E s \in Shapes, t \in Transforms : SetTransform(s, t))
        \/ (\E g \in Groups, c \in Shapes : AddChild(g, c))
  BY DEF Next, vars, Cast, IntersectLeaf, SkipGroup, EnterGroup, LeaveGroup, FinishRay
<1>. QED
  BY <1>1, <1>2, <1>3, <1>4

-----------------------------------------------------------------------------
(* What is below a group.                                                  *)

(* The box of a group that is up to date holds the box of every shape      *)
(* below it, seen from the group: one level at a time.                     *)
LEMMA ContentInside ==
  ASSUME IInv
  PROVE  \A g \in Groups : UpToDate(g) => \A s \in Below(g) :
           /\ BoxOf(s).kind = "finite" /\ box[g].kind = "finite"
           /\ \A x \in Int : BoxOf(s).min <= x /\ x <= BoxOf(s).max =>
                box[g].min <= Seen(s, g, x) /\ Seen(s, g, x) <= box[g].max
<1>. USE DEF IInv
<1>. DEFINE Held(s, g) ==
              /\ BoxOf(s).kind = "finite" /\ box[g].kind = "finite"
              /\ \A x \in Int : BoxOf(s).min <= x /\ x <= BoxOf(s).max =>
                   box[g].min <= Seen(s, g, x) /\ Seen(s, g, x) <= box[g].max
            T == {s \in Shapes : \A g \in Groups : UpToDate(g) /\ s \in Below(g) => Held(s, g)}
<1>2. ASSUME NEW s \in Shapes, parent[s] \in Shapes => parent[s] \in T
      PROVE  s \in T
  <2>1. SUFFICES ASSUME NEW g \in Groups, UpToDate(g), s \in Below(g)
                 PROVE  Held(s, g)
    OBVIOUS
  <2>2. g \in SelfAndAbove(s) /\ s # g /\ g \in Shapes
    BY <2>1 DEF Below, Shapes
  <2>3. PICK p : p = parent[s] /\ p \in Shapes /\ p \in Groups /\ p # Nil
                 /\ g \in SelfAndAbove(p) /\ p \in T
    <3>. HIDE DEF Held, T
    <3>. QED
      BY <1>2, <2>2, AboveFacts DEF TreeTypes
  <2>4. p \notin outdated
    BY <2>1, <2>3 DEF UpToDate, Below
  <2>5. Inside(ParentSpaceBox(s), box[p])
    BY <2>3, <2>4 DEF BoxesHoldChildren
  <2>6. PICK t \in Transformations : t = transform[s]
    BY TransformTypes
  <2>7. PICK b : b = BoxOf(s) /\ b.min \in Int /\ b.max \in Int
    BY BoxOfTypes
  <2>8. PICK e \in Boxes : e = BoundsTransform(b, t) /\ Inside(e, box[p])
    BY <2>5, <2>6, <2>7, TransformHolds DEF ParentSpaceBox
  <2>9. e.kind = "finite" /\ box[p].kind = "finite" /\ b.kind = "finite"
    BY <2>6, <2>7, <2>8, TransformHolds DEF Inside
  <2>10. ASSUME NEW x \in Int, b.min <= x, x <= b.max
         PROVE  /\ Image(t, x) \in Int
                /\ box[p].min <= Image(t, x) /\ Image(t, x) <= box[p].max
    <3>1. e.min <= Image(t, x) /\ Image(t, x) <= e.max
      BY <2>6, <2>7, <2>8, <2>9, <2>10, TransformHolds
    <3>2. box[p].min <= e.min /\ e.max <= box[p].max
      BY <2>8 DEF Inside
    <3>3. Image(t, x) \in Int
      BY ImageFacts
    <3>4. e.min \in Int /\ e.max \in Int /\ box[p].min \in Int /\ box[p].max \in Int
      BY <2>3 DEF TreeTypes, Boxes
    <3>. QED
      BY <3>1, <3>2, <3>3, <3>4
  <2>11. \A x \in Int : Image(Placement(s), x) = Image(Placement(p), Image(t, x))
    BY <2>3, <2>6, UndoesPlacement
  <2>12. CASE p = g
    <3>1. \A y \in Int : WorldToObject(g, Image(Placement(g), y)) = y
      BY <2>2, UndoesPlacement
    <3>2. \A x \in Int : b.min <= x /\ x <= b.max => Seen(s, g, x) = Image(t, x)
      BY <2>10, <2>11, <2>12, <3>1 DEF Seen
    <3>. QED
      BY <2>7, <2>9, <2>10, <2>12, <3>2
  <2>13. CASE p # g
    <3>1. p \in Below(g)
      BY <2>3, <2>13 DEF Below
    <3>2. BoxOf(p) = box[p]
      BY <2>3 DEF BoxOf
    <3>3. Held(p, g)
      BY <2>1, <2>3, <3>1
    <3>4. \A x \in Int : b.min <= x /\ x <= b.max => Seen(s, g, x) = Seen(p, g, Image(t, x))
      BY <2>11 DEF Seen
    <3>. QED
      BY <2>7, <2>9, <2>10, <3>2, <3>3, <3>4
  <2>. QED
    BY <2>12, <2>13
<1>3. T \in SUBSET Shapes
  OBVIOUS
<1>. HIDE DEF T
<1>4. T = Shapes
  BY <1>2, <1>3 DEF Forest, Rooted
<1>5. \A g \in Groups : Below(g) \subseteq Shapes
  BY DEF Below
<1>. QED
  BY <1>4, <1>5 DEF T

LEMMA BoxesHoldContent == IInv => BoundsHoldContent
<1>. SUFFICES ASSUME IInv, NEW g \in Groups, UpToDate(g), NEW l \in Below(g) \cap Leaves
              PROVE  /\ box[g].kind = "finite" /\ LeafBox(l).kind = "finite"
                     /\ \A corner \in {LeafBox(l).min, LeafBox(l).max} :
                          box[g].min <= Seen(l, g, corner) /\ Seen(l, g, corner) <= box[g].max
  BY DEF BoundsHoldContent
<1>1. BoxOf(l) = LeafBox(l)
  BY ShapesAssumption DEF BoxOf
<1>2. /\ LeafBox(l).kind = "finite" /\ box[g].kind = "finite"
      /\ \A x \in Int : LeafBox(l).min <= x /\ x <= LeafBox(l).max =>
           box[g].min <= Seen(l, g, x) /\ Seen(l, g, x) <= box[g].max
  BY <1>1, ContentInside
<1>3. Radius[l] \in Nat
  BY LeavesAssumption
<1>4. LeafBox(l).min \in Int /\ LeafBox(l).max \in Int /\ LeafBox(l).min <= LeafBox(l).max
  BY <1>2, <1>3 DEF LeafBox, Interval, Infinite
<1>. QED
  BY <1>2, <1>4

(* The invariant holds in every reachable state.                           *)
THEOREM Invariance == Spec => []IInv
<1>. QED
  BY InitInv, NextInv, PTL DEF Spec

(* A shape is a child of its parent, once, and of no other group, whatever *)
(* the order in which group_add_child puts a tree together.                *)
THEOREM ConsistentLinks == Spec => []LinksAgree
<1>. QED
  BY Invariance, PTL DEF IInv

(* The box a group caches contains the present box of every child, unless  *)
(* the code had no way to keep it so.                                      *)
THEOREM ChildrenInsideBoxes == Spec => []BoxesHoldChildren
<1>. QED
  BY Invariance, PTL DEF IInv

(* A group's cached bounds contain every shape below it, at any depth,     *)
(* unless a shape below was moved or grew after it was added, or was       *)
(* infinite or empty when it was.                                          *)
THEOREM ContentInsideBoxes == Spec => []BoundsHoldContent
<1>. QED
  BY Invariance, BoxesHoldContent, PTL

-----------------------------------------------------------------------------
(* The way of a ray.  A shape waits at place i of loop d; the loops are    *)
(* those of intersect_world and of group_intersects.                       *)
Loops == [shapes : Seq(Shapes), origin : Int]

Waits(fr, d, i) == d \in 1 .. Len(fr) /\ i \in 1 .. Len(fr[d].shapes)

ShapeAt(fr, d, i) == fr[d].shapes[i]

(* The ray in the space around s, in which the transformation of s counts. *)
Around(s) == IF parent[s] = Nil THEN ray ELSE WorldToObject(parent[s], ray)

CastTypes ==
  /\ objects \subseteq Roots
  /\ ray \in Rays \cup {Nil}
  /\ frames \in Seq(Loops)
  /\ tested \subseteq Leaves
  /\ count \in Nat

(* Between two rays, while the scene changes, nothing is left of a cast.   *)
IdleInv == ray = Nil => objects = {} /\ frames = <<>> /\ capacity = 0 /\ count = 0 /\ tested = {}

(* Each loop has the ray in the space around all the shapes it goes over.  *)
SpaceInv ==
  \A s \in Shapes : \A d, i \in Nat :
    Waits(frames, d, i) /\ ShapeAt(frames, d, i) = s => frames[d].origin = Around(s)

WaitsAbove(l) ==
  \E d, i \in Nat : Waits(frames, d, i) /\ ShapeAt(frames, d, i) \in SelfAndAbove(l)

(* A leaf of the world the ray may have to meet was tested or is still     *)
(* ahead, itself or in a group that is above it.                           *)
AheadInv ==
  ray # Nil =>
    \A l \in Leaves :
      \/ l \in tested
      \/ ~ Meets(LeafBox(l), WorldToObject(l, ray))
      \/ \E g \in SelfAndAbove(l) \cap Groups : ~ UpToDate(g)
      \/ SelfAndAbove(l) \cap objects = {}
      \/ WaitsAbove(l)

CInv == CastTypes /\ IdleInv /\ SpaceInv /\ AheadInv

(* What of the tree the shapes above one another are read from.            *)
LEMMA SceneKept ==
  ASSUME UNCHANGED scene
  PROVE  /\ \A s : SelfAndAbove(s)' = SelfAndAbove(s)
         /\ \A s : UpToDate(s)' = UpToDate(s)
         /\ \A s, x : WorldToObject(s, x)' = WorldToObject(s, x)
         /\ Roots' = Roots
<1>1. parent' = parent /\ transform' = transform /\ outdated' = outdated
  BY DEF scene
<1>2. \A s : SelfAndAbove(s)' = SelfAndAbove(s)
  BY <1>1 DEF SelfAndAbove
<1>. QED
  BY <1>1, <1>2 DEF WorldToObject, UpToDate, Below, Roots

LEMMA RestOfLoop ==
  ASSUME NEW f \in Loops, f.shapes # <<>>
  PROVE  LET h == [f EXCEPT !.shapes = Tail(@)]
         IN  h \in Loops /\ h.shapes = Tail(f.shapes) /\ h.origin = f.origin
<1>1. Tail(f.shapes) \in Seq(Shapes)
  <2>1. PICK q \in Seq(Shapes) : q = f.shapes /\ q # <<>>
    BY DEF Loops
  <2>. QED
    BY <2>1, HeadTailProperties
<1>. QED
  BY <1>1 DEF Loops

(* The next shape of the innermost loop: the others wait where they did,   *)
(* those of this loop one place further on.                                *)
LEMMA Stepped ==
  ASSUME NEW fr \in Seq(Loops), fr # <<>>, Last(fr).shapes # <<>>
  PROVE  LET n  == Len(fr)
             nx == ReplaceAt(fr, n, [Last(fr) EXCEPT !.shapes = Tail(@)])
         IN  /\ nx \in Seq(Loops) /\ Len(nx) = n
             /\ \A d, i \in Nat : Waits(nx, d, i) =>
                  /\ nx[d].origin = fr[d].origin
                  /\ d # n => Waits(fr, d, i) /\ ShapeAt(nx, d, i) = ShapeAt(fr, d, i)
                  /\ d = n => Waits(fr, n, i + 1) /\ ShapeAt(nx, n, i) = ShapeAt(fr, n, i + 1)
             /\ \A d, i \in Nat : Waits(fr, d, i) =>
                  /\ d # n => Waits(nx, d, i)
                  /\ d = n /\ i # 1 => i - 1 \in Nat /\ Waits(nx, n, i - 1)
             /\ Waits(fr, n, 1) /\ ShapeAt(fr, n, 1) = Head(Last(fr).shapes)
             /\ ShapeAt(fr, n, 1) \in Shapes
             /\ n \in Nat /\ n # 0 /\ Last(fr) = fr[n] /\ fr[n].origin \in Int
<1>. DEFINE n  == Len(fr)
            q  == Last(fr).shapes
            nx == ReplaceAt(fr, n, [Last(fr) EXCEPT !.shapes = Tail(@)])
<1>1. n \in Nat /\ n # 0 /\ n \in 1 .. n /\ n \in DOMAIN fr /\ Last(fr) = fr[n]
      /\ fr[n] \in Loops
  BY DEF Last
<1>2. q \in Seq(Shapes) /\ q # <<>> /\ q = fr[n].shapes /\ fr[n].origin \in Int
  BY <1>1 DEF Loops
<1>3. /\ Tail(q) \in Seq(Shapes) /\ Len(Tail(q)) = Len(q) - 1
      /\ Len(q) \in Nat /\ Len(q) # 0 /\ Head(q) = q[1]
      /\ \A i \in 1 .. Len(q) - 1 : Tail(q)[i] = q[i + 1]
  <2>. HIDE DEF q
  <2>. QED
    BY <1>2, HeadTailProperties
<1>4. PICK h \in Loops : /\ h = [Last(fr) EXCEPT !.shapes = Tail(@)]
                         /\ h.shapes = Tail(q) /\ h.origin = fr[n].origin
  BY <1>1, RestOfLoop
<1>5. nx = [fr EXCEPT ![n] = h]
  BY <1>4 DEF ReplaceAt
<1>. HIDE DEF nx, n, q
<1>7. /\ nx \in Seq(Loops) /\ Len(nx) = n
      /\ \A d \in 1 .. n : nx[d] = IF d = n THEN h ELSE fr[d]
  BY <1>1, <1>4, <1>5, ExceptSeq DEF n
<1>8. /\ \A d \in 1 .. n : d # n => nx[d] = fr[d]
      /\ nx[n].shapes = Tail(q) /\ nx[n].origin = fr[n].origin
  BY <1>1, <1>4, <1>7
<1>9. ASSUME NEW d \in Nat, NEW i \in Nat, Waits(nx, d, i)
      PROVE  /\ nx[d].origin = fr[d].origin
             /\ d # n => Waits(fr, d, i) /\ ShapeAt(nx, d, i) = ShapeAt(fr, d, i)
             /\ d = n => Waits(fr, n, i + 1) /\ ShapeAt(nx, n, i) = ShapeAt(fr, n, i + 1)
  <2>1. CASE d # n
    BY <1>7, <1>8, <1>9, <2>1 DEF Waits, ShapeAt, n
  <2>2. CASE d = n
    <3>1. i \in 1 .. Len(q) - 1
      BY <1>3, <1>8, <1>9, <2>2 DEF Waits
    <3>2. i + 1 \in 1 .. Len(q) /\ Tail(q)[i] = q[i + 1]
      BY <1>3, <3>1
    <3>. QED
      BY <1>1, <1>2, <1>8, <2>2, <3>2 DEF Waits, ShapeAt, n
  <2>. QED
    BY <2>1, <2>2
<1>10. ASSUME NEW d \in Nat, NEW i \in Nat, Waits(fr, d, i)
       PROVE  /\ d # n => Waits(nx, d, i)
              /\ d = n /\ i # 1 => i - 1 \in Nat /\ Waits(nx, n, i - 1)
  <2>1. CASE d # n
    BY <1>7, <1>8, <1>10, <2>1 DEF Waits, n
  <2>2. CASE d = n
    BY <1>1, <1>2, <1>3, <1>7, <1>8, <1>10, <2>2 DEF Waits
  <2>. QED
    BY <2>1, <2>2
<1>11. Waits(fr, n, 1) /\ ShapeAt(fr, n, 1) = Head(q) /\ ShapeAt(fr, n, 1) \in Shapes
  <2>1. 1 \in 1 .. Len(q)
    BY <1>3
  <2>. QED
    BY <1>1, <1>2, <1>3, <2>1 DEF Waits, ShapeAt, n
<1>. QED
  BY <1>1, <1>2, <1>7, <1>9, <1>10, <1>11 DEF nx, n, q

(* A group's loop over q, with the ray at x, begins inside the loop of the *)
(* group: what fr becomes.                                                 *)
Nests(fr, nx, q, x) ==
  /\ nx \in Seq(Loops) /\ Len(fr) \in Nat
  /\ \A d, i \in Nat : Waits(nx, d, i) =>
       \/ /\ Waits(fr, d, i) /\ ShapeAt(nx, d, i) = ShapeAt(fr, d, i)
          /\ nx[d].origin = fr[d].origin
       \/ /\ d = Len(fr) + 1 /\ i \in 1 .. Len(q)
          /\ ShapeAt(nx, d, i) = q[i] /\ nx[d].origin = x
  /\ \A d, i \in Nat : Waits(fr, d, i) =>
       Waits(nx, d, i) /\ ShapeAt(nx, d, i) = ShapeAt(fr, d, i)
  /\ \A i \in 1 .. Len(q) :
       Waits(nx, Len(fr) + 1, i) /\ ShapeAt(nx, Len(fr) + 1, i) = q[i]

LEMMA Entering ==
  ASSUME NEW fr \in Seq(Loops), NEW q \in Seq(Shapes), NEW x \in Int
  PROVE  Nests(fr, Append(fr, [shapes |-> q, origin |-> x]), q, x)
<1>. DEFINE nx == Append(fr, [shapes |-> q, origin |-> x])
<1>. DEFINE n == Len(fr)
            f == [shapes |-> q, origin |-> x]
<1>1. f \in Loops /\ f.shapes = q /\ f.origin = x
  BY DEF Loops
<1>. HIDE DEF f
<1>2. /\ nx \in Seq(Loops) /\ Len(nx) = n + 1 /\ n \in Nat
      /\ \A d \in 1 .. n : nx[d] = fr[d]
      /\ nx[n + 1] = f
  BY <1>1, AppendProperties DEF f
<1>. HIDE DEF n, nx
<1>3. ASSUME NEW d \in Nat, NEW i \in Nat, Waits(nx, d, i)
      PROVE  \/ /\ Waits(fr, d, i) /\ ShapeAt(nx, d, i) = ShapeAt(fr, d, i)
                /\ nx[d].origin = fr[d].origin
             \/ /\ d = n + 1 /\ i \in 1 .. Len(q)
                /\ ShapeAt(nx, d, i) = q[i] /\ nx[d].origin = x
  <2>1. CASE d = n + 1
    BY <1>1, <1>2, <1>3, <2>1 DEF Waits, ShapeAt
  <2>2. CASE d # n + 1
    BY <1>1, <1>2, <1>3, <2>2 DEF Waits, ShapeAt, n
  <2>. QED
    BY <2>1, <2>2
<1>4. ASSUME NEW d \in Nat, NEW i \in Nat, Waits(fr, d, i)
      PROVE  Waits(nx, d, i) /\ ShapeAt(nx, d, i) = ShapeAt(fr, d, i)
  BY <1>2, <1>4 DEF Waits, ShapeAt, n
<1>5. ASSUME NEW i \in 1 .. Len(q)
      PROVE  Waits(nx, n + 1, i) /\ ShapeAt(nx, n + 1, i) = q[i]
  BY <1>1, <1>2 DEF Waits, ShapeAt
<1>. QED
  BY <1>2, <1>3, <1>4, <1>5 DEF n, nx, Nests

(* A loop that is over is left.                                            *)
LEMMA Leaving ==
  ASSUME NEW fr \in Seq(Loops), Len(fr) > 1, Last(fr).shapes = <<>>
  PROVE  LET nx == Front(fr)
         IN  /\ nx \in Seq(Loops) /\ nx # <<>>
             /\ \A d, i \in Nat : Waits(nx, d, i) =>
                  /\ Waits(fr, d, i) /\ ShapeAt(nx, d, i) = ShapeAt(fr, d, i)
                  /\ nx[d].origin = fr[d].origin
             /\ \A d, i \in Nat : Waits(fr, d, i) =>
                  Waits(nx, d, i) /\ ShapeAt(nx, d, i) = ShapeAt(fr, d, i)
<1>. DEFINE n  == Len(fr)
            nx == Front(fr)
<1>1. n \in Nat /\ n > 1 /\ fr[n].shapes = <<>>
  BY DEF Last
<1>2. /\ nx \in Seq(Loops) /\ Len(nx) = n - 1
      /\ \A d \in 1 .. n - 1 : nx[d] = fr[d]
  BY <1>1, SubSeqProperties DEF Front
<1>. HIDE DEF nx, n
<1>3. nx # <<>>
  BY <1>1, <1>2
<1>4. ASSUME NEW d \in Nat, NEW i \in Nat, Waits(nx, d, i)
      PROVE  /\ Waits(fr, d, i) /\ ShapeAt(nx, d, i) = ShapeAt(fr, d, i)
             /\ nx[d].origin = fr[d].origin
  BY <1>1, <1>2, <1>4 DEF Waits, ShapeAt, n
<1>5. ASSUME NEW d \in Nat, NEW i \in Nat, Waits(fr, d, i)
      PROVE  Waits(nx, d, i) /\ ShapeAt(nx, d, i) = ShapeAt(fr, d, i)
  <2>1. d # n
    BY <1>1, <1>5 DEF Waits
  <2>. QED
    BY <1>1, <1>2, <1>5, <2>1 DEF Waits, ShapeAt, n
<1>. QED
  BY <1>2, <1>3, <1>4, <1>5 DEF nx

(* The order in which the objects of a world are gone over holds each of   *)
(* them, once.                                                             *)
LEMMA Enumeration ==
  ASSUME NEW S, IsFiniteSet(S)
  PROVE  LET q == SetToSeq(S)
         IN  /\ q \in Seq(S)
             /\ \A i, j \in 1 .. Len(q) : q[i] = q[j] => i = j
             /\ \A s \in S : \E i \in 1 .. Len(q) : q[i] = s
<1>. DEFINE n == Cardinality(S)
            q == SetToSeq(S)
<1>1. n \in Nat /\ ExistsBijection(1 .. n, S)
  BY FS_CardinalityType
<1>2. \E h \in [1 .. n -> S] : IsInjective(h)
  BY <1>1 DEF ExistsBijection, Bijection, Injection
<1>3. q \in [1 .. n -> S] /\ IsInjective(q)
  BY <1>2 DEF SetToSeq
<1>4. q \in Injection(1 .. n, S)
  BY <1>3 DEF Injection
<1>. HIDE DEF q
<1>5. Cardinality(1 .. n) = n
  BY <1>1, FS_Interval
<1>6. q \in Surjection(1 .. n, S)
  BY <1>4, <1>5, FS_Injection
<1>7. \A s \in S : \E i \in 1 .. n : q[i] = s
  BY <1>6 DEF Surjection
<1>8. q \in Seq(S) /\ Len(q) = n /\ DOMAIN q = 1 .. n
  BY <1>1, <1>3
<1>. QED
  BY <1>3, <1>7, <1>8 DEF IsInjective, q

LEMMA AroundFacts ==
  ASSUME IInv, ray \in Int
  PROVE  \A s \in Shapes :
           /\ WorldToObject(s, ray) = Preimage(transform[s], Around(s))
           /\ WorldToObject(s, ray) \in Int
           /\ Image(Placement(s), WorldToObject(s, ray)) = ray
<1>1. PICK x \in Int : x = ray
  OBVIOUS
<1>2. \A s \in Shapes :
        /\ WorldToObject(s, x) \in Int
        /\ WorldToObject(s, x) =
             Preimage(transform[s], IF parent[s] = Nil THEN x ELSE WorldToObject(parent[s], x))
  BY SpaceFacts DEF IInv
<1>3. \A s \in Shapes : Image(Placement(s), WorldToObject(s, x)) = x
  BY UndoesPlacement DEF IInv
<1>. QED
  BY <1>1, <1>2, <1>3 DEF Around

(* Above a leaf there are only groups, and what is above a child is above  *)
(* its parent or the child.                                                *)
LEMMA LeavesAtBottom ==
  ASSUME IInv, NEW l \in Leaves
  PROVE  /\ l \in Shapes /\ l \notin Groups /\ l \in SelfAndAbove(l)
         /\ \A s \in SelfAndAbove(l) : s \in Leaves => s = l
<1>1. l \in Shapes /\ l \notin Groups
  BY ShapesAssumption DEF Shapes
<1>2. ASSUME NEW s \in SelfAndAbove(l), s \in Leaves, s # l
      PROVE  FALSE
  <2>1. PICK c \in SelfAndAbove(l) : parent[c] = s
    BY <1>1, <1>2, AboveOrder DEF IInv
  <2>2. c \in Shapes /\ s \in Shapes
    BY <1>1, <1>2, AboveFacts DEF IInv
  <2>3. parent[c] \in Groups \cup {Nil} /\ s # Nil /\ s \notin Groups
    BY <1>2, <2>2, ShapesAssumption DEF IInv, TreeTypes
  <2>. QED
    BY <2>1, <2>3
<1>. QED
  BY <1>1, <1>2, AboveOrder DEF IInv

LEMMA CastKeeps ==
  ASSUME IInv, CInv, NEW w \in SUBSET Roots \ {{}}, NEW x \in Rays, Cast(w, x)
  PROVE  CInv'
<1>. DEFINE q == SetToSeq(w)
            f == [shapes |-> q, origin |-> x]
<1>1. /\ objects' = w /\ ray' = x /\ frames' = <<f>> /\ count' = 0 /\ tested' = {}
      /\ UNCHANGED scene /\ x \in Int /\ x # Nil
  BY ShapesAssumption, SpaceAssumption DEF Cast
<1>2. w \in SUBSET Shapes /\ IsFiniteSet(w)
  <2>1. w \in SUBSET Shapes
    BY DEF Roots
  <2>. QED
    BY <2>1, ShapesAssumption, FS_Subset
<1>3. /\ q \in Seq(w)
      /\ \A s \in w : \E i \in 1 .. Len(q) : q[i] = s
  BY <1>2, Enumeration
<1>. HIDE DEF q
<1>4. q \in Seq(Shapes) /\ \A i \in 1 .. Len(q) : q[i] \in w
  BY <1>2, <1>3
<1>5. f \in Loops /\ f.shapes = q /\ f.origin = x
  BY <1>1, <1>4 DEF Loops
<1>. HIDE DEF f
<1>6. /\ frames' \in Seq(Loops) /\ frames' # <<>> /\ Len(frames') = 1 /\ frames'[1] = f
  BY <1>1, <1>5
<1>7. CastTypes'
  BY <1>1, <1>6, SceneKept DEF CastTypes
<1>8. IdleInv'
  BY <1>1 DEF IdleInv
<1>9. SpaceInv'
  <2>1. SUFFICES ASSUME NEW s \in Shapes, NEW d \in Nat, NEW i \in Nat,
                        Waits(frames', d, i), ShapeAt(frames', d, i) = s
                 PROVE  frames'[d].origin = Around(s)'
    BY DEF SpaceInv
  <2>2. d = 1 /\ i \in 1 .. Len(q)
    BY <1>5, <1>6, <2>1 DEF Waits
  <2>3. s \in w /\ frames'[d].origin = x
    BY <1>4, <1>5, <1>6, <2>1, <2>2 DEF ShapeAt
  <2>4. parent[s] = Nil
    BY <2>3 DEF Roots
  <2>. QED
    BY <1>1, <2>3, <2>4 DEF Around, scene
<1>10. AheadInv'
  <2>1. SUFFICES ASSUME NEW l \in Leaves, ~ (SelfAndAbove(l) \cap objects = {})'
                 PROVE  WaitsAbove(l)'
    BY DEF AheadInv
  <2>2. PICK s \in w : s \in SelfAndAbove(l)
    BY <1>1, <2>1, SceneKept
  <2>3. PICK i \in 1 .. Len(q) : q[i] = s
    BY <1>3
  <2>4. Waits(frames', 1, i) /\ ShapeAt(frames', 1, i) = s /\ i \in Nat /\ 1 \in Nat
    BY <1>4, <1>5, <1>6, <2>3 DEF Waits, ShapeAt
  <2>5. s \in SelfAndAbove(l)'
    BY <1>1, <2>2, SceneKept
  <2>. QED
    BY <2>4, <2>5 DEF WaitsAbove
<1>. QED
  BY <1>7, <1>8, <1>9, <1>10 DEF CInv

(* While the ray is on its way the scene stays what it is.                 *)
LEMMA WalkKept ==
  ASSUME UNCHANGED <<scene, objects, ray>>
  PROVE  /\ \A s : Around(s)' = Around(s)
         /\ \A s : WorldToObject(s, ray)' = WorldToObject(s, ray)
         /\ \A s : SelfAndAbove(s)' = SelfAndAbove(s)
         /\ \A s : UpToDate(s)' = UpToDate(s)
         /\ Roots' = Roots
<1>1. parent' = parent /\ transform' = transform /\ ray' = ray
  BY DEF scene
<1>2. \A s : WorldToObject(s, ray)' = WorldToObject(s, ray)
  BY <1>1 DEF WorldToObject
<1>3. \A s : Around(s)' = Around(s)
  BY <1>1 DEF Around, WorldToObject
<1>. QED
  BY <1>2, <1>3, SceneKept

(* What is ahead stays ahead, unless the step deals with it.               *)
LEMMA StillAhead ==
  ASSUME CInv, UNCHANGED <<scene, objects, ray>>, tested \subseteq tested',
         \A l \in Leaves : WaitsAbove(l) /\ ray # Nil =>
           \/ l \in tested'
           \/ ~ Meets(LeafBox(l), WorldToObject(l, ray))
           \/ \E g \in SelfAndAbove(l) \cap Groups : ~ UpToDate(g)
           \/ WaitsAbove(l)'
  PROVE  AheadInv'
<1>1. SUFFICES ASSUME ray # Nil, NEW l \in Leaves, l \notin tested',
                      Meets(LeafBox(l), WorldToObject(l, ray)),
                      \A g \in SelfAndAbove(l) \cap Groups : UpToDate(g),
                      SelfAndAbove(l) \cap objects # {}
               PROVE  WaitsAbove(l)'
  <2>1. \A l \in Leaves : Meets(LeafBox(l), WorldToObject(l, ray))' =
                          Meets(LeafBox(l), WorldToObject(l, ray))
    <3>1. \A l \in Leaves : WorldToObject(l, ray)' = WorldToObject(l, ray)
      BY WalkKept
    <3>. QED
      BY <3>1 DEF Meets, LeafBox
  <2>. QED
    BY <2>1, WalkKept DEF AheadInv
<1>2. WaitsAbove(l)
  BY <1>1 DEF CInv, AheadInv
<1>. QED
  BY <1>1, <1>2

LEMMA LeafXsBound ==
  ASSUME NEW l \in Leaves, NEW x, NEW k \in IntersectionCounts(l, x)
  PROVE  k \in Nat /\ k <= 4
<1>1. Kind[l] \in Kinds
  BY LeavesAssumption
<1>2. LeafXs(l) \subseteq 0 .. 4
  BY <1>1 DEF Kinds, LeafXs, SphereXs, CubeXs, PlaneXs, TriangleXs, CylinderXs, ConeXs
<1>. QED
  BY <1>2 DEF IntersectionCounts

(* The shape that is next, as Stepped has it.                              *)
LEMMA NextUp ==
  ASSUME IInv, CInv, Running
  PROVE  LET n == Len(frames)
         IN  /\ NextShape \in Seq(Loops) /\ Len(NextShape) = n
             /\ \A d, i \in Nat : Waits(NextShape, d, i) =>
                  /\ NextShape[d].origin = frames[d].origin
                  /\ d # n => Waits(frames, d, i) /\ ShapeAt(NextShape, d, i) = ShapeAt(frames, d, i)
                  /\ d = n => Waits(frames, n, i + 1)
                              /\ ShapeAt(NextShape, n, i) = ShapeAt(frames, n, i + 1)
             /\ \A d, i \in Nat : Waits(frames, d, i) =>
                  /\ d # n => Waits(NextShape, d, i)
                  /\ d = n /\ i # 1 => i - 1 \in Nat /\ Waits(NextShape, n, i - 1)
             /\ Waits(frames, n, 1) /\ ShapeAt(frames, n, 1) = Shape /\ Shape \in Shapes
             /\ n \in Nat /\ n # 0 /\ NextShape # <<>>
             /\ ray \in Int /\ ray # Nil /\ Origin \in Int
             /\ Origin = WorldToObject(Shape, ray)
             /\ Image(Placement(Shape), Origin) = ray
<1>1. frames \in Seq(Loops) /\ frames # <<>> /\ Last(frames).shapes # <<>>
  BY DEF Running, Top, CInv, CastTypes
<1>. DEFINE n == Len(frames)
<1>2. /\ NextShape \in Seq(Loops) /\ Len(NextShape) = n
      /\ \A d, i \in Nat : Waits(NextShape, d, i) =>
           /\ NextShape[d].origin = frames[d].origin
           /\ d # n => Waits(frames, d, i) /\ ShapeAt(NextShape, d, i) = ShapeAt(frames, d, i)
           /\ d = n => Waits(frames, n, i + 1)
                       /\ ShapeAt(NextShape, n, i) = ShapeAt(frames, n, i + 1)
      /\ \A d, i \in Nat : Waits(frames, d, i) =>
           /\ d # n => Waits(NextShape, d, i)
           /\ d = n /\ i # 1 => i - 1 \in Nat /\ Waits(NextShape, n, i - 1)
      /\ Waits(frames, n, 1) /\ ShapeAt(frames, n, 1) = Shape /\ Shape \in Shapes
      /\ n \in Nat /\ n # 0 /\ Top = frames[n] /\ Top.origin \in Int
  BY <1>1, Stepped DEF NextShape, Shape, Top
<1>3. ray \in Int /\ ray # Nil
  BY <1>1, SpaceAssumption DEF CInv, CastTypes, IdleInv
<1>. HIDE DEF n
<1>4. Top.origin = Around(Shape)
  <2>1. PICK s \in Shapes : s = Shape
    BY <1>2
  <2>2. frames[n].origin = Around(s)
    BY <1>2, <2>1 DEF CInv, SpaceInv
  <2>. QED
    BY <1>2, <2>1, <2>2
<1>5. /\ WorldToObject(Shape, ray) = Preimage(transform[Shape], Around(Shape))
      /\ WorldToObject(Shape, ray) \in Int
      /\ Image(Placement(Shape), WorldToObject(Shape, ray)) = ray
  BY <1>2, <1>3, AroundFacts
<1>6. /\ Origin \in Int /\ Origin = WorldToObject(Shape, ray)
      /\ Image(Placement(Shape), Origin) = ray
  BY <1>4, <1>5 DEF Origin
<1>7. NextShape # <<>>
  BY <1>2
<1>. QED
  BY <1>2, <1>3, <1>6, <1>7 DEF n

(* A shape that waits still waits when the next one was dealt with.        *)
LEMMA OthersWait ==
  ASSUME IInv, CInv, Running, NEW l \in Leaves, WaitsAbove(l), Shape \notin SelfAndAbove(l)
  PROVE  \E d, i \in Nat : Waits(NextShape, d, i) /\ ShapeAt(NextShape, d, i) \in SelfAndAbove(l)
<1>. DEFINE n == Len(frames)
<1>1. PICK d, i \in Nat : Waits(frames, d, i) /\ ShapeAt(frames, d, i) \in SelfAndAbove(l)
  BY DEF WaitsAbove
<1>2. /\ d # n => Waits(NextShape, d, i)
      /\ d = n /\ i # 1 => i - 1 \in Nat /\ Waits(NextShape, n, i - 1)
      /\ ShapeAt(frames, n, 1) = Shape
  BY <1>1, NextUp
<1>. HIDE DEF n
<1>3. CASE d # n
  <2>1. ShapeAt(NextShape, d, i) = ShapeAt(frames, d, i)
    BY <1>2, <1>3, NextUp DEF n
  <2>. QED
    BY <1>1, <1>2, <1>3, <2>1
<1>4. CASE d = n /\ i # 1
  <2>1. ShapeAt(NextShape, n, i - 1) = ShapeAt(frames, n, (i - 1) + 1)
    BY <1>2, <1>4, NextUp DEF n
  <2>2. (i - 1) + 1 = i /\ n \in Nat
    BY <1>4
  <2>. QED
    BY <1>1, <1>2, <1>4, <2>1, <2>2
<1>5. CASE d = n /\ i = 1
  BY <1>1, <1>2, <1>5
<1>. QED
  BY <1>3, <1>4, <1>5

LEMMA OthersInSpace ==
  ASSUME IInv, CInv, Running
  PROVE  \A s \in Shapes : \A d, i \in Nat :
           Waits(NextShape, d, i) /\ ShapeAt(NextShape, d, i) = s =>
             NextShape[d].origin = Around(s)
<1>. DEFINE n == Len(frames)
<1>1. SUFFICES ASSUME NEW s \in Shapes, NEW d \in Nat, NEW i \in Nat,
                      Waits(NextShape, d, i), ShapeAt(NextShape, d, i) = s
               PROVE  NextShape[d].origin = Around(s)
  OBVIOUS
<1>2. /\ NextShape[d].origin = frames[d].origin
      /\ d # n => Waits(frames, d, i) /\ ShapeAt(NextShape, d, i) = ShapeAt(frames, d, i)
      /\ d = n => Waits(frames, n, i + 1)
                  /\ ShapeAt(NextShape, n, i) = ShapeAt(frames, n, i + 1)
  BY <1>1, NextUp
<1>. HIDE DEF n
<1>3. CASE d # n
  BY <1>1, <1>2, <1>3 DEF CInv, SpaceInv
<1>4. CASE d = n
  <2>1. i + 1 \in Nat
    OBVIOUS
  <2>. QED
    BY <1>1, <1>2, <1>4, <2>1 DEF CInv, SpaceInv
<1>. QED
  BY <1>3, <1>4

LEMMA LeafKeeps ==
  ASSUME IInv, CInv, IntersectLeaf
  PROVE  CInv'
<1>1. /\ Running /\ Shape \in Leaves
      /\ tested' = tested \cup {Shape} /\ frames' = NextShape
      /\ UNCHANGED <<scene, objects, ray, capacity>>
      /\ count' \in Nat
  <2>1. PICK k \in IntersectionCounts(Shape, Origin) : count' = count + k
    BY DEF IntersectLeaf
  <2>2. Shape \in Leaves
    BY DEF IntersectLeaf
  <2>3. k \in Nat
    BY <2>1, <2>2, LeafXsBound
  <2>4. count \in Nat
    BY DEF CInv, CastTypes
  <2>. QED
    BY <2>1, <2>3, <2>4 DEF IntersectLeaf
<1>2. NextShape \in Seq(Loops) /\ ray # Nil
  BY <1>1, NextUp
<1>3. CastTypes'
  BY <1>1, <1>2, WalkKept DEF CInv, CastTypes
<1>4. IdleInv'
  BY <1>1, <1>2 DEF IdleInv
<1>5. SpaceInv'
  BY <1>1, OthersInSpace, WalkKept DEF SpaceInv
<1>6. ASSUME NEW l \in Leaves, WaitsAbove(l)
      PROVE  l \in tested' \/ WaitsAbove(l)'
  <2>1. CASE Shape \in SelfAndAbove(l)
    BY <1>1, <2>1, LeavesAtBottom
  <2>2. CASE Shape \notin SelfAndAbove(l)
    BY <1>1, <1>6, <2>2, OthersWait, WalkKept DEF WaitsAbove
  <2>. QED
    BY <2>1, <2>2
<1>7. AheadInv'
  BY <1>1, <1>6, StillAhead
<1>. QED
  BY <1>3, <1>4, <1>5, <1>7 DEF CInv

(* A group that is skipped has no child, or a box that says that no leaf   *)
(* below it is met.                                                        *)
LEMMA SkippedWell ==
  ASSUME IInv, CInv, Running, Shape \in Groups, ~ Entered(Shape),
         NEW l \in Leaves, Shape \in SelfAndAbove(l), Meets(LeafBox(l), WorldToObject(l, ray))
  PROVE  \E g \in SelfAndAbove(l) \cap Groups : ~ UpToDate(g)
<1>1. PICK g \in Groups : g = Shape /\ g \in Shapes
  BY DEF Shapes
<1>2. l \in Shapes /\ l # g /\ g \in SelfAndAbove(l) /\ l \in Below(g) /\ BoxOf(l) = LeafBox(l)
  BY <1>1, LeavesAtBottom DEF Below, BoxOf
<1>3. PICK c \in SelfAndAbove(l) : parent[c] = g
  BY <1>2, AboveOrder DEF IInv
<1>4. c \in Shapes
  BY <1>2, <1>3, AboveFacts DEF IInv
<1>5. c \in ToSet(children[g])
  BY <1>3, <1>4 DEF IInv, LinksAgree
<1>6. Len(children[g]) > 0
  <2>1. children[g] \in Seq(Shapes)
    BY DEF IInv, TreeTypes
  <2>. QED
    BY <1>5, <2>1 DEF ToSet
<1>7. ~ Meets(box[g], Origin) /\ Origin = WorldToObject(g, ray) /\ ray \in Int /\ Origin \in Int
  BY <1>1, <1>6, NextUp DEF Entered
<1>8. SUFFICES ASSUME UpToDate(g) PROVE FALSE
  BY <1>2
<1>9. /\ LeafBox(l).kind = "finite" /\ box[g].kind = "finite"
      /\ \A x \in Int : LeafBox(l).min <= x /\ x <= LeafBox(l).max =>
           box[g].min <= Seen(l, g, x) /\ Seen(l, g, x) <= box[g].max
  BY <1>2, <1>8, ContentInside
<1>10. PICK y \in Int : y = WorldToObject(l, ray) /\ Image(Placement(l), y) = ray
  BY <1>2, <1>7, AroundFacts
<1>11. LeafBox(l).min <= y /\ y <= LeafBox(l).max
  BY <1>9, <1>10 DEF Meets
<1>12. Seen(l, g, y) = Origin
  BY <1>7, <1>10 DEF Seen
<1>. QED
  BY <1>7, <1>9, <1>11, <1>12 DEF Meets

LEMMA SkipKeeps ==
  ASSUME IInv, CInv, SkipGroup
  PROVE  CInv'
<1>1. /\ Running /\ Shape \in Groups /\ ~ Entered(Shape) /\ frames' = NextShape
      /\ UNCHANGED <<scene, objects, ray, capacity, count, tested>>
  BY DEF SkipGroup
<1>2. NextShape \in Seq(Loops) /\ ray # Nil
  BY <1>1, NextUp
<1>3. CastTypes'
  BY <1>1, <1>2, WalkKept DEF CInv, CastTypes
<1>4. IdleInv'
  BY <1>1, <1>2 DEF IdleInv
<1>5. SpaceInv'
  BY <1>1, OthersInSpace, WalkKept DEF SpaceInv
<1>6. ASSUME NEW l \in Leaves, WaitsAbove(l)
      PROVE  \/ ~ Meets(LeafBox(l), WorldToObject(l, ray))
             \/ \E g \in SelfAndAbove(l) \cap Groups : ~ UpToDate(g)
             \/ WaitsAbove(l)'
  <2>1. CASE Shape \in SelfAndAbove(l)
    BY <1>1, <2>1, SkippedWell
  <2>2. CASE Shape \notin SelfAndAbove(l)
    BY <1>1, <1>6, <2>2, OthersWait, WalkKept DEF WaitsAbove
  <2>. QED
    BY <2>1, <2>2
<1>7. AheadInv'
  BY <1>1, <1>6, StillAhead
<1>. QED
  BY <1>3, <1>4, <1>5, <1>7 DEF CInv

LEMMA EnterKeeps ==
  ASSUME IInv, CInv, EnterGroup
  PROVE  CInv'
<1>1. PICK g \in Groups : g = Shape
  BY DEF EnterGroup
<1>. DEFINE q == children[g]
            n == Len(NextShape)
<1>2. /\ Running /\ frames' = Append(NextShape, [shapes |-> q, origin |-> Origin])
      /\ UNCHANGED <<scene, objects, ray, capacity, count, tested>>
  BY <1>1 DEF EnterGroup
<1>3. /\ NextShape \in Seq(Loops) /\ ray # Nil /\ ray \in Int /\ q \in Seq(Shapes)
      /\ Origin \in Int /\ Origin = WorldToObject(g, ray) /\ g \in Shapes
  BY <1>1, <1>2, NextUp DEF IInv, TreeTypes
<1>4. /\ frames' \in Seq(Loops)
      /\ \A d, i \in Nat : Waits(frames', d, i) =>
           \/ /\ Waits(NextShape, d, i) /\ ShapeAt(frames', d, i) = ShapeAt(NextShape, d, i)
              /\ frames'[d].origin = NextShape[d].origin
           \/ /\ d = n + 1 /\ i \in 1 .. Len(q)
              /\ ShapeAt(frames', d, i) = q[i] /\ frames'[d].origin = Origin
      /\ \A d, i \in Nat : Waits(NextShape, d, i) =>
           Waits(frames', d, i) /\ ShapeAt(frames', d, i) = ShapeAt(NextShape, d, i)
      /\ \A i \in 1 .. Len(q) : Waits(frames', n + 1, i) /\ ShapeAt(frames', n + 1, i) = q[i]
      /\ n + 1 \in Nat
  <2>1. Nests(NextShape, frames', q, Origin)
    <3>1. PICK x \in Int : x = Origin
      BY <1>3
    <3>2. PICK p \in Seq(Shapes) : p = q
      BY <1>3
    <3>3. PICK fr \in Seq(Loops) : fr = NextShape
      BY <1>3
    <3>4. Nests(fr, Append(fr, [shapes |-> p, origin |-> x]), p, x)
      BY Entering
    <3>. QED
      BY <1>2, <3>1, <3>2, <3>3, <3>4
  <2>2. n \in Nat => n + 1 \in Nat
    OBVIOUS
  <2>. HIDE DEF q
  <2>. QED
    BY <2>1, <2>2 DEF Nests
<1>5. /\ \A i \in 1 .. Len(q) : q[i] \in Shapes /\ parent[q[i]] = g
      /\ \A c \in Shapes : parent[c] = g => \E i \in 1 .. Len(q) : q[i] = c
  <2>1. ToSet(q) = {s \in Shapes : parent[s] = g} /\ DOMAIN q = 1 .. Len(q)
    BY <1>3 DEF IInv, LinksAgree
  <2>. QED
    BY <2>1 DEF ToSet
<1>6. CastTypes'
  BY <1>2, <1>4, WalkKept DEF CInv, CastTypes
<1>7. IdleInv'
  BY <1>2, <1>3 DEF IdleInv
<1>. HIDE DEF n
<1>8. SpaceInv'
  <2>1. SUFFICES ASSUME NEW s \in Shapes, NEW d \in Nat, NEW i \in Nat,
                        Waits(frames', d, i), ShapeAt(frames', d, i) = s
                 PROVE  frames'[d].origin = Around(s)
    BY <1>2, WalkKept DEF SpaceInv
  <2>2. CASE Waits(NextShape, d, i) /\ ShapeAt(frames', d, i) = ShapeAt(NextShape, d, i)
             /\ frames'[d].origin = NextShape[d].origin
    BY <1>2, <2>1, <2>2, OthersInSpace
  <2>3. CASE d = n + 1 /\ i \in 1 .. Len(q)
             /\ ShapeAt(frames', d, i) = q[i] /\ frames'[d].origin = Origin
    <3>1. parent[s] = g /\ g # Nil
      BY <1>3, <1>5, <2>1, <2>3, ShapesAssumption
    <3>. QED
      BY <1>3, <2>3, <3>1 DEF Around
  <2>. QED
    BY <1>4, <2>1, <2>2, <2>3
<1>9. ASSUME NEW l \in Leaves, WaitsAbove(l)
      PROVE  WaitsAbove(l)'
  <2>1. CASE Shape \in SelfAndAbove(l)
    <3>1. l \in Shapes /\ l # g /\ g \in SelfAndAbove(l)
      BY <1>1, <2>1, LeavesAtBottom
    <3>2. PICK c \in SelfAndAbove(l) : parent[c] = g
      BY <3>1, AboveOrder DEF IInv
    <3>3. c \in Shapes
      BY <3>1, <3>2, AboveFacts DEF IInv
    <3>4. PICK i \in 1 .. Len(q) : q[i] = c
      BY <1>5, <3>2, <3>3
    <3>5. i \in Nat /\ Waits(frames', n + 1, i) /\ ShapeAt(frames', n + 1, i) = c
      BY <1>4, <3>4
    <3>. QED
      BY <1>2, <1>4, <3>2, <3>5, WalkKept DEF WaitsAbove
  <2>2. CASE Shape \notin SelfAndAbove(l)
    <3>1. PICK d, i \in Nat : Waits(NextShape, d, i)
                              /\ ShapeAt(NextShape, d, i) \in SelfAndAbove(l)
      BY <1>2, <1>9, <2>2, OthersWait
    <3>2. Waits(frames', d, i) /\ ShapeAt(frames', d, i) \in SelfAndAbove(l)
      BY <1>4, <3>1
    <3>. QED
      BY <1>2, <3>2, WalkKept DEF WaitsAbove
  <2>. QED
    BY <2>1, <2>2
<1>10. AheadInv'
  BY <1>2, <1>9, StillAhead
<1>. QED
  BY <1>6, <1>7, <1>8, <1>10 DEF CInv

LEMMA LeaveKeeps ==
  ASSUME IInv, CInv, LeaveGroup
  PROVE  CInv'
<1>1. /\ Len(frames) > 1 /\ Last(frames).shapes = <<>> /\ frames' = Front(frames)
      /\ UNCHANGED <<scene, objects, ray, capacity, count, tested>>
      /\ frames \in Seq(Loops)
  BY DEF LeaveGroup, Top, CInv, CastTypes
<1>2. /\ frames' \in Seq(Loops)
      /\ \A d, i \in Nat : Waits(frames', d, i) =>
           /\ Waits(frames, d, i) /\ ShapeAt(frames', d, i) = ShapeAt(frames, d, i)
           /\ frames'[d].origin = frames[d].origin
      /\ \A d, i \in Nat : Waits(frames, d, i) =>
           Waits(frames', d, i) /\ ShapeAt(frames', d, i) = ShapeAt(frames, d, i)
  BY <1>1, Leaving
<1>3. CastTypes'
  BY <1>1, <1>2, WalkKept DEF CInv, CastTypes
<1>4. IdleInv'
  <2>1. ray # Nil
    BY <1>1 DEF CInv, IdleInv
  <2>. QED
    BY <1>1, <2>1 DEF IdleInv
<1>5. SpaceInv'
  BY <1>1, <1>2, WalkKept DEF CInv, SpaceInv
<1>6. \A l \in Leaves : WaitsAbove(l) => WaitsAbove(l)'
  BY <1>1, <1>2, WalkKept DEF WaitsAbove
<1>7. AheadInv'
  BY <1>1, <1>6, StillAhead
<1>. QED
  BY <1>3, <1>4, <1>5, <1>7 DEF CInv

(* With no ray under way there is nothing to keep.                         *)
LEMMA IdleKeeps ==
  ASSUME objects' = {}, ray' = Nil, frames' = <<>>, capacity' = 0, count' = 0, tested' = {}
  PROVE  CInv'
<1>1. \A d, i \in Nat : ~ Waits(frames', d, i)
  BY DEF Waits
<1>. QED
  BY <1>1 DEF CInv, CastTypes, IdleInv, SpaceInv, AheadInv

LEMMA CastInit == Init => CInv
<1>. SUFFICES ASSUME Init PROVE CInv
  OBVIOUS
<1>1. \A d, i \in Nat : ~ Waits(frames, d, i)
  BY DEF Init, Waits
<1>. QED
  BY <1>1 DEF Init, CInv, CastTypes, IdleInv, SpaceInv, AheadInv

LEMMA CastNext == IInv /\ CInv /\ [Next]_vars => CInv'
<1>. SUFFICES ASSUME IInv, CInv, [Next]_vars PROVE CInv'
  OBVIOUS
<1>1. ASSUME NEW s \in Shapes, NEW t \in Transforms, SetTransform(s, t)
      PROVE  CInv'
  BY <1>1, IdleKeeps DEF SetTransform, cast, CInv, IdleInv
<1>2. ASSUME NEW g \in Groups, NEW c \in Shapes, AddChild(g, c)
      PROVE  CInv'
  BY <1>2, IdleKeeps DEF AddChild, cast, CInv, IdleInv
<1>3. ASSUME NEW w \in SUBSET Roots \ {{}}, NEW x \in Rays, Cast(w, x)
      PROVE  CInv'
  BY <1>3, CastKeeps
<1>4. CASE IntersectLeaf
  BY <1>4, LeafKeeps
<1>5. CASE SkipGroup
  BY <1>5, SkipKeeps
<1>6. CASE EnterGroup
  BY <1>6, EnterKeeps
<1>7. CASE LeaveGroup
  BY <1>7, LeaveKeeps
<1>8. CASE FinishRay
  BY <1>8, IdleKeeps DEF FinishRay
<1>9. CASE UNCHANGED vars
  <2>1. UNCHANGED <<scene, objects, ray, frames, capacity, count, tested>>
    BY <1>9 DEF vars, cast
  <2>2. \A l \in Leaves : WaitsAbove(l) => WaitsAbove(l)'
    BY <2>1, WalkKept DEF WaitsAbove
  <2>3. AheadInv'
    BY <2>1, <2>2, StillAhead
  <2>4. SpaceInv'
    BY <2>1, WalkKept DEF CInv, SpaceInv
  <2>. QED
    BY <2>1, <2>3, <2>4, WalkKept DEF CInv, CastTypes, IdleInv
<1>. QED
  BY <1>1, <1>2, <1>3, <1>4, <1>5, <1>6, <1>7, <1>8, <1>9 DEF Next

THEOREM CastInvariance == Spec => []CInv
<1>. QED
  BY Invariance, CastInit, CastNext, PTL DEF Spec

(* The place in which a shape is intersected, reached one group at a time, *)
(* is where world_to_object takes the ray from the world, and it undoes    *)
(* the product of the transformations of the shape and of all above it,    *)
(* in an order in which they do not commute.                               *)
THEOREM OneSpace == Spec => []SpacesAgree
<1>1. IInv /\ CInv => SpacesAgree
  BY NextUp DEF SpacesAgree
<1>. QED
  BY <1>1, Invariance, CastInvariance, PTL

(* When intersect_world returns, the boxes have kept the ray from no leaf  *)
(* it may meet, unless a group above the leaf is outdated.                 *)
THEOREM CullingLosesNothing == Spec => []NothingIsCulled
<1>1. IInv /\ CInv => NothingIsCulled
  <2>. SUFFICES ASSUME IInv, CInv, RayDone, NEW l \in Leaves
                PROVE  \/ l \in tested
                       \/ ~ Meets(LeafBox(l), WorldToObject(l, ray))
                       \/ \E g \in SelfAndAbove(l) \cap Groups : ~ UpToDate(g)
                       \/ SelfAndAbove(l) \cap objects = {}
    BY DEF NothingIsCulled
  <2>1. Len(frames) = 1 /\ frames[1].shapes = <<>>
    BY DEF RayDone, Top, Last
  <2>3. ray # Nil
    BY <2>1 DEF CInv, IdleInv
  <2>2. \A d, i \in Nat : ~ Waits(frames, d, i)
    BY <2>1 DEF Waits
  <2>. QED
    BY <2>2, <2>3 DEF CInv, AheadInv, WaitsAbove
<1>. QED
  BY <1>1, Invariance, CastInvariance, PTL

-----------------------------------------------------------------------------
(* Counting.  The folds with which child_count and world_object_count add  *)
(* up, as the recursive functions the community modules make of them.      *)
Adds(q, h, it) ==
  [s \in SUBSET DOMAIN q |->
     IF s = {} THEN Len(q)
     ELSE it[s \ {Max(s)}] + (IF q[Max(s)] \in Groups THEN h[q[Max(s)]] ELSE 0)]

Added(q, h) == (CHOOSE it : it = Adds(q, h, it))[DOMAIN q]

LEMMA ChildCountAdds ==
  \A g : ChildCount(g) = (CHOOSE b : b = [n \in Groups |-> Added(children[n], b)])[g]
BY DEF ChildCount, FoldLeft, MapThenFoldSet, Added, Adds

AddsWorld(w, it) ==
  [s \in SUBSET w |->
     IF s = {} THEN Cardinality(w)
     ELSE LET o == CHOOSE x \in s : TRUE
          IN  it[s \ {o}] + (IF o \in Groups THEN ChildCount(o) ELSE 0)]

LEMMA ObjectCountAdds ==
  \A w : ObjectCount(w) = (CHOOSE it : it = AddsWorld(w, it))[w]
BY DEF ObjectCount, FoldSet, MapThenFoldSet, AddsWorld

LEMMA LastIndex ==
  ASSUME NEW n \in Nat, NEW s \in SUBSET (1 .. n), s # {}
  PROVE  Max(s) \in s
<1>. DEFINE T == {n - i : i \in s}
<1>1. T \in SUBSET Nat /\ T # {}
  <2>1. \A i \in s : n - i \in Nat
    OBVIOUS
  <2>. QED
    BY <2>1
<1>. HIDE DEF T
<1>2. PICK m \in T : \A k \in T : m <= k
  BY <1>1, LeastElement
<1>3. PICK i \in s : m = n - i
  BY <1>2 DEF T
<1>4. \A j \in s : i >= j
  <2>1. SUFFICES ASSUME NEW j \in s
                 PROVE  i >= j
    OBVIOUS
  <2>2. m <= n - j /\ i \in Nat /\ j \in Nat
    BY <1>2, <1>3 DEF T
  <2>. QED
    BY <1>3, <2>2
<1>. QED
  BY <1>3, <1>4 DEF Max

(* Cardinalities of sets that are apart add up.                            *)
LEMMA Apart ==
  ASSUME NEW A, NEW B, IsFiniteSet(A), IsFiniteSet(B), A \cap B = {}
  PROVE  /\ IsFiniteSet(A \cup B)
         /\ Cardinality(A \cup B) = Cardinality(A) + Cardinality(B)
         /\ Cardinality(A) \in Nat /\ Cardinality(B) \in Nat
<1>1. /\ IsFiniteSet(A \cup B)
      /\ Cardinality(A \cup B) = Cardinality(A) + Cardinality(B) - Cardinality(A \cap B)
  BY FS_Union
<1>2. Cardinality(A \cap B) = 0 /\ Cardinality(A) \in Nat /\ Cardinality(B) \in Nat
  BY FS_EmptySet, FS_CardinalityType
<1>. QED
  BY <1>1, <1>2

(* A sum over a finite set that takes its elements in any order: the       *)
(* number of the things that hang under them, when they hang apart.        *)
LEMMA OneMore ==
  ASSUME NEW D, IsFiniteSet(D), NEW S, IsFiniteSet(S), NEW u \in [D -> SUBSET S],
         \A i, j \in D : i # j => u[i] \cap u[j] = {},
         NEW s \in SUBSET D, NEW x \in s
  PROVE  LET U(r) == UNION {u[i] : i \in r}
         IN  /\ Cardinality(U(s)) = Cardinality(U(s \ {x})) + Cardinality(u[x])
             /\ Cardinality(U(s \ {x})) \in Nat /\ Cardinality(u[x]) \in Nat
<1>. DEFINE A == UNION {u[i] : i \in s \ {x}}
<1>1. A \in SUBSET S /\ u[x] \in SUBSET S /\ A \cap u[x] = {}
  OBVIOUS
<1>2. IsFiniteSet(A) /\ IsFiniteSet(u[x])
  BY <1>1, FS_Subset
<1>3. UNION {u[i] : i \in s} = A \cup u[x]
  OBVIOUS
<1>. HIDE DEF A
<1>4. Cardinality(A \cup u[x]) = Cardinality(A) + Cardinality(u[x])
      /\ Cardinality(A) \in Nat /\ Cardinality(u[x]) \in Nat
  BY <1>1, <1>2, Apart
<1>. QED
  BY <1>3, <1>4 DEF A

LEMMA ChildrenAdded ==
  ASSUME IsFiniteSet(Shapes), NEW q \in Seq(Shapes), NEW h,
         NEW u \in [1 .. Len(q) -> SUBSET Shapes],
         \A i \in 1 .. Len(q) :
           Cardinality(u[i]) = IF q[i] \in Groups THEN h[q[i]] ELSE 0,
         \A i, j \in 1 .. Len(q) : i # j => u[i] \cap u[j] = {}
  PROVE  Added(q, h) = Len(q) + Cardinality(UNION {u[i] : i \in 1 .. Len(q)})
<1>. DEFINE n == Len(q)
            D == 1 .. n
            U(s) == UNION {u[i] : i \in s}
            total == [s \in SUBSET D |-> n + Cardinality(U(s))]
<1>1. n \in Nat /\ IsFiniteSet(D) /\ DOMAIN q = D
  BY FS_Interval
<1>2. ASSUME NEW s \in SUBSET D, s # {}
      PROVE  /\ Max(s) \in s
             /\ total[s] = total[s \ {Max(s)}]
                           + (IF q[Max(s)] \in Groups THEN h[q[Max(s)]] ELSE 0)
  <2>1. PICK x \in s : x = Max(s)
    BY <1>1, <1>2, LastIndex
  <2>2. /\ Cardinality(U(s)) = Cardinality(U(s \ {x})) + Cardinality(u[x])
        /\ Cardinality(U(s \ {x})) \in Nat /\ Cardinality(u[x]) \in Nat
    BY <1>1, OneMore
  <2>3. Cardinality(u[x]) = IF q[x] \in Groups THEN h[q[x]] ELSE 0
    OBVIOUS
  <2>4. total[s] = n + Cardinality(U(s)) /\ total[s \ {x}] = n + Cardinality(U(s \ {x}))
    OBVIOUS
  <2>. HIDE DEF total, U
  <2>5. total[s] = total[s \ {x}] + Cardinality(u[x])
    BY <1>1, <2>2, <2>4
  <2>. QED
    BY <2>1, <2>3, <2>5
<1>3. total[{}] = n
  <2>1. U({}) = {}
    OBVIOUS
  <2>2. total[{}] = n + Cardinality(U({}))
    OBVIOUS
  <2>3. Cardinality(U({})) = 0
    BY <2>1, FS_EmptySet
  <2>. HIDE DEF U, total
  <2>. QED
    BY <1>1, <2>2, <2>3
<1>4. total = [s \in SUBSET D |-> total[s]]
  OBVIOUS
<1>5. total[D] = n + Cardinality(U(D))
  OBVIOUS
<1>. HIDE DEF total
<1>6. total = Adds(q, h, total)
  BY <1>1, <1>2, <1>3, <1>4 DEF Adds
<1>7. PICK it : it = (CHOOSE i : i = Adds(q, h, i)) /\ it = Adds(q, h, it)
  BY <1>6
<1>8. \A s \in SUBSET D : it[s] = total[s]
  <2>. DEFINE T == {s \in SUBSET D : it[s] = total[s]}
  <2>1. {} \in T
    BY <1>1, <1>3, <1>7 DEF Adds
  <2>2. ASSUME NEW s \in SUBSET D, s # {}
        PROVE  \E x \in s : s \ {x} \in T => s \in T
    <3>1. it[s] = it[s \ {Max(s)}] + (IF q[Max(s)] \in Groups THEN h[q[Max(s)]] ELSE 0)
      BY <1>1, <1>7, <2>2 DEF Adds
    <3>. QED
      BY <1>2, <2>2, <3>1
  <2>. HIDE DEF T, D
  <2>3. \A s \in SUBSET D : s \in T
    BY <1>1, <2>1, <2>2, AllSubsets
  <2>. QED
    BY <2>3 DEF T
<1>. QED
  BY <1>1, <1>5, <1>7, <1>8 DEF Added

(* What is below the shapes of a list.                                     *)
Under(q) == UNION {Below(q[i]) : i \in 1 .. Len(q)}

(* Below a group are its children and, apart from one another, what is     *)
(* below each of them.                                                     *)
LEMMA BelowGroup ==
  ASSUME IInv, NEW g \in Groups, NEW q, q = children[g]
  PROVE  /\ q \in Seq(Shapes)
         /\ \A i \in 1 .. Len(q) : q[i] \in Shapes /\ parent[q[i]] = g
         /\ Below(g) = ToSet(q) \cup Under(q)
         /\ ToSet(q) \cap Under(q) = {}
         /\ \A i, j \in 1 .. Len(q) : i # j => Below(q[i]) \cap Below(q[j]) = {}
         /\ IsFiniteSet(ToSet(q)) /\ Cardinality(ToSet(q)) = Len(q)
<1>1. q \in Seq(Shapes) /\ DOMAIN q = 1 .. Len(q) /\ Len(q) \in Nat
  BY DEF IInv, TreeTypes
<1>2. /\ \A i \in 1 .. Len(q) : q[i] \in ToSet(q)
      /\ \A c \in ToSet(q) : \E i \in 1 .. Len(q) : q[i] = c
  BY <1>1 DEF ToSet
<1>3. ToSet(q) = {s \in Shapes : parent[s] = g} /\ IsInjective(q)
  BY DEF IInv, LinksAgree
<1>4. g \in Shapes /\ g # Nil
  BY ShapesAssumption DEF Shapes
<1>5. ASSUME NEW c \in Shapes, parent[c] = g
      PROVE  g \in SelfAndAbove(c) /\ c # g /\ c \notin SelfAndAbove(g)
             /\ SelfAndAbove(c) = {c} \cup SelfAndAbove(g)
  <2>1. SelfAndAbove(c) = {c} \cup SelfAndAbove(g)
    BY <1>4, <1>5, AboveFacts DEF IInv
  <2>2. g \in SelfAndAbove(c) /\ c # g
    BY <1>4, <1>5, <2>1, AboveOrder DEF IInv
  <2>. QED
    BY <1>4, <2>1, <2>2, AboveOrder DEF IInv
<1>6. ASSUME NEW c \in Shapes, parent[c] = g, NEW d \in Shapes, parent[d] = g, c \in SelfAndAbove(d)
      PROVE  c = d
  BY <1>5, <1>6
<1>7. ASSUME NEW i \in 1 .. Len(q), NEW j \in 1 .. Len(q), i # j
      PROVE  Below(q[i]) \cap Below(q[j]) = {}
  <2>1. PICK c, d \in Shapes : c = q[i] /\ d = q[j] /\ parent[c] = g /\ parent[d] = g /\ c # d
    BY <1>1, <1>2, <1>3, <1>7 DEF IsInjective
  <2>2. ASSUME NEW s \in Below(c) \cap Below(d)
        PROVE  FALSE
    <3>1. s \in Shapes /\ c \in SelfAndAbove(s) /\ d \in SelfAndAbove(s)
      BY <2>2 DEF Below
    <3>2. c \in SelfAndAbove(d) \/ d \in SelfAndAbove(c)
      BY <3>1, AboveOrder DEF IInv
    <3>. QED
      BY <1>6, <2>1, <3>2
  <2>. QED
    BY <2>1, <2>2
<1>8. ASSUME NEW s \in Below(g), s \notin ToSet(q)
      PROVE  \E i \in 1 .. Len(q) : s \in Below(q[i])
  <2>1. s \in Shapes /\ s # g /\ g \in SelfAndAbove(s)
    BY <1>8 DEF Below
  <2>2. PICK c \in SelfAndAbove(s) : parent[c] = g
    BY <2>1, AboveOrder DEF IInv
  <2>3. c \in Shapes /\ c \in ToSet(q) /\ c # s
    BY <1>3, <1>8, <2>1, <2>2, AboveFacts DEF IInv
  <2>. QED
    BY <1>2, <2>1, <2>2, <2>3 DEF Below
<1>9. ASSUME NEW c \in ToSet(q)
      PROVE  c \in Below(g) /\ Below(c) \subseteq Below(g)
  <2>1. c \in Shapes /\ parent[c] = g
    BY <1>3
  <2>2. ASSUME NEW s \in Below(c)
        PROVE  s \in Below(g)
    <3>1. s \in Shapes /\ c \in SelfAndAbove(s)
      BY <2>2 DEF Below
    <3>2. g \in SelfAndAbove(s) /\ s # g
      BY <1>5, <2>1, <3>1, AboveOrder DEF IInv
    <3>. QED
      BY <3>1, <3>2 DEF Below
  <2>. QED
    BY <1>5, <2>1, <2>2 DEF Below
<1>10. ASSUME NEW c \in ToSet(q), NEW d \in ToSet(q), c \in Below(d)
       PROVE  FALSE
  <2>1. c \in Shapes /\ c # d /\ d \in SelfAndAbove(c)
    BY <1>10 DEF Below
  <2>. QED
    BY <1>3, <1>6, <2>1
<1>11. IsFiniteSet(ToSet(q)) /\ Cardinality(ToSet(q)) = Len(q)
  <2>1. q \in [1 .. Len(q) -> ToSet(q)]
    BY <1>1, <1>2
  <2>2. q \in Surjection(1 .. Len(q), ToSet(q)) /\ q \in Injection(1 .. Len(q), ToSet(q))
    BY <1>2, <1>3, <2>1 DEF Surjection, Injection
  <2>3. IsFiniteSet(1 .. Len(q)) /\ Cardinality(1 .. Len(q)) = Len(q)
    BY <1>1, FS_Interval
  <2>. QED
    BY <2>2, <2>3, FS_Surjection
<1>12. Below(g) = ToSet(q) \cup Under(q)
  BY <1>2, <1>8, <1>9 DEF Under
<1>13. ToSet(q) \cap Under(q) = {}
  BY <1>2, <1>10 DEF Under
<1>. QED
  BY <1>1, <1>2, <1>3, <1>7, <1>11, <1>12, <1>13

LEMMA FiniteBelow ==
  ASSUME NEW s
  PROVE  Below(s) \in SUBSET Shapes /\ IsFiniteSet(Below(s)) /\ Cardinality(Below(s)) \in Nat
<1>1. Below(s) \in SUBSET Shapes
  BY DEF Below
<1>. QED
  BY <1>1, ShapesAssumption, FS_Subset, FS_CardinalityType

LEMMA NothingBelowLeaf ==
  ASSUME IInv, NEW l \in Leaves
  PROVE  Below(l) = {}
<1>1. SUFFICES ASSUME NEW s \in Below(l)
               PROVE  FALSE
  OBVIOUS
<1>2. s \in Shapes /\ s # l /\ l \in SelfAndAbove(s)
  BY <1>1 DEF Below
<1>3. PICK c \in SelfAndAbove(s) : parent[c] = l
  BY <1>2, AboveOrder DEF IInv
<1>4. c \in Shapes /\ l # Nil /\ l \notin Groups
  BY <1>2, <1>3, AboveFacts, ShapesAssumption DEF IInv, Shapes
<1>. QED
  BY <1>3, <1>4 DEF IInv, TreeTypes

(* One group's sum is right if those of the groups in it are.              *)
LEMMA GroupAdded ==
  ASSUME IInv, NEW g \in Groups, NEW h,
         \A c \in Groups : parent[c] = g => h[c] = Cardinality(Below(c))
  PROVE  Added(children[g], h) = Cardinality(Below(g))
<1>1. PICK q : q = children[g]
  OBVIOUS
<1>. DEFINE u == [i \in 1 .. Len(q) |-> Below(q[i])]
            U == Under(q)
<1>2. /\ q \in Seq(Shapes)
      /\ \A i \in 1 .. Len(q) : q[i] \in Shapes /\ parent[q[i]] = g
      /\ Below(g) = ToSet(q) \cup U
      /\ ToSet(q) \cap U = {}
      /\ \A i, j \in 1 .. Len(q) : i # j => Below(q[i]) \cap Below(q[j]) = {}
      /\ IsFiniteSet(ToSet(q)) /\ Cardinality(ToSet(q)) = Len(q)
  BY <1>1, BelowGroup
<1>3. u \in [1 .. Len(q) -> SUBSET Shapes]
  BY FiniteBelow
<1>4. \A i, j \in 1 .. Len(q) : i # j => u[i] \cap u[j] = {}
  BY <1>2
<1>5. ASSUME NEW i \in 1 .. Len(q)
      PROVE  Cardinality(u[i]) = IF q[i] \in Groups THEN h[q[i]] ELSE 0
  <2>1. u[i] = Below(q[i])
    OBVIOUS
  <2>2. CASE q[i] \in Groups
    BY <1>2, <2>1, <2>2
  <2>3. CASE q[i] \notin Groups
    <3>1. q[i] \in Leaves
      BY <1>2, <2>3 DEF Shapes
    <3>2. Below(q[i]) = {}
      BY <3>1, NothingBelowLeaf
    <3>. QED
      BY <2>1, <2>3, <3>2, FS_EmptySet
  <2>. QED
    BY <2>2, <2>3
<1>6. UNION {u[i] : i \in 1 .. Len(q)} = U
  BY DEF Under
<1>7. IsFiniteSet(U)
  <2>1. U \in SUBSET Shapes
    BY FiniteBelow DEF Under
  <2>. QED
    BY <2>1, ShapesAssumption, FS_Subset
<1>. HIDE DEF u, U
<1>8. Added(q, h) = Len(q) + Cardinality(U)
  BY <1>2, <1>3, <1>4, <1>5, <1>6, ShapesAssumption, ChildrenAdded
<1>9. Cardinality(ToSet(q) \cup U) = Cardinality(ToSet(q)) + Cardinality(U)
  BY <1>2, <1>7, Apart
<1>. QED
  BY <1>1, <1>2, <1>8, <1>9

(* child_count counts everything below a group.                            *)
LEMMA ChildCountIs ==
  ASSUME IInv
  PROVE  \A g \in Groups : ChildCount(g) = Cardinality(Below(g))
<1>. DEFINE F(b) == [n \in Groups |-> Added(children[n], b)]
            below == [n \in Groups |-> Cardinality(Below(n))]
<1>1. below = F(below)
  <2>1. \A n \in Groups : Added(children[n], below) = Cardinality(Below(n))
    BY GroupAdded
  <2>. QED
    BY <2>1
<1>. HIDE DEF below
<1>2. PICK b : b = (CHOOSE d : d = F(d)) /\ b = F(b)
  BY <1>1
<1>3. \A n \in Groups : b[n] = Added(children[n], b)
  BY <1>2
<1>. HIDE DEF F
<1>4. ASSUME NEW n \in Groups, b[n] # Cardinality(Below(n))
      PROVE  FALSE
  <2>. DEFINE B == {k \in Nat : \E r \in Groups : /\ Cardinality(Below(r)) = k
                                                  /\ b[r] # Cardinality(Below(r))}
  <2>1. B \in SUBSET Nat /\ B # {}
    BY <1>4, FiniteBelow
  <2>. HIDE DEF B
  <2>2. PICK m \in B : \A k \in B : m <= k
    BY <2>1, LeastElement
  <2>3. PICK r \in Groups : Cardinality(Below(r)) = m /\ b[r] # Cardinality(Below(r))
    BY <2>2 DEF B
  <2>4. ASSUME NEW c \in Groups, parent[c] = r
        PROVE  b[c] = Cardinality(Below(c))
    <3>1. PICK q : q = children[r]
      OBVIOUS
    <3>2. c \in ToSet(q)
      BY <2>4, <3>1 DEF IInv, LinksAgree, Shapes
    <3>3. Below(r) = ToSet(q) \cup Under(q) /\ q \in Seq(Shapes)
      BY <3>1, BelowGroup
    <3>4. PICK i \in 1 .. Len(q) : q[i] = c
      BY <3>2, <3>3 DEF ToSet
    <3>5. Below(c) \subseteq Below(r) /\ c \in Below(r) /\ c \notin Below(c)
      BY <3>2, <3>3, <3>4 DEF Below, Under
    <3>6. Cardinality(Below(c)) < m /\ Cardinality(Below(c)) \in Nat
      <4>1. /\ IsFiniteSet(Below(r)) /\ Below(c) \in SUBSET Below(r)
            /\ Cardinality(Below(c)) \in Nat /\ Cardinality(Below(r)) \in Nat
        BY <3>5, FiniteBelow
      <4>2. /\ Cardinality(Below(c)) <= Cardinality(Below(r))
            /\ Cardinality(Below(r)) = Cardinality(Below(c)) => Below(r) = Below(c)
        BY <4>1, FS_Subset
      <4>. QED
        BY <2>3, <3>5, <4>1, <4>2
    <3>7. Cardinality(Below(c)) \notin B
      BY <2>1, <2>2, <3>6
    <3>. QED
      BY <2>4, <3>6, <3>7 DEF B
  <2>5. Added(children[r], b) = Cardinality(Below(r))
    BY <2>4, GroupAdded
  <2>. QED
    BY <1>3, <2>3, <2>5
<1>. QED
  BY <1>2, <1>4, ChildCountAdds DEF F

(* What a world consists of.                                               *)
Within(w) == {s \in Shapes : SelfAndAbove(s) \cap w # {}}

(* world_object_count counts the objects of a world and everything below   *)
(* them.                                                                   *)
LEMMA ObjectCountIs ==
  ASSUME IInv, NEW w \in SUBSET Roots
  PROVE  /\ ObjectCount(w) = Cardinality(Within(w))
         /\ Cardinality(Within(w)) \in Nat /\ IsFiniteSet(Within(w))
<1>. DEFINE u == [o \in w |-> Below(o)]
            U(s) == UNION {u[o] : o \in s}
            n == Cardinality(w)
            total == [s \in SUBSET w |-> n + Cardinality(U(s))]
            Pick(s) == CHOOSE x \in s : TRUE
<1>1. w \in SUBSET Shapes /\ IsFiniteSet(w) /\ n \in Nat
  <2>1. w \in SUBSET Shapes
    BY DEF Roots
  <2>. QED
    BY <2>1, ShapesAssumption, FS_Subset, FS_CardinalityType
<1>2. \A o \in w : o \in Shapes /\ SelfAndAbove(o) = {o}
  BY <1>1, AboveFacts DEF IInv, Roots
<1>3. ASSUME NEW o \in w, NEW p \in w, o # p
      PROVE  u[o] \cap u[p] = {}
  <2>1. ASSUME NEW s \in Below(o) \cap Below(p)
        PROVE  FALSE
    <3>1. s \in Shapes /\ o \in SelfAndAbove(s) /\ p \in SelfAndAbove(s)
      BY <2>1 DEF Below
    <3>2. o \in SelfAndAbove(p) \/ p \in SelfAndAbove(o)
      BY <3>1, AboveOrder DEF IInv
    <3>. QED
      BY <1>2, <1>3, <3>2
  <2>. QED
    BY <2>1
<1>4. u \in [w -> SUBSET Shapes]
  BY FiniteBelow
<1>5. ASSUME NEW s \in SUBSET w, s # {}
      PROVE  /\ Pick(s) \in s
             /\ total[s] = total[s \ {Pick(s)}]
                           + (IF Pick(s) \in Groups THEN ChildCount(Pick(s)) ELSE 0)
  <2>1. PICK x \in s : x = Pick(s)
    BY <1>5
  <2>2. /\ Cardinality(U(s)) = Cardinality(U(s \ {x})) + Cardinality(u[x])
        /\ Cardinality(U(s \ {x})) \in Nat /\ Cardinality(u[x]) \in Nat
    BY <1>1, <1>3, <1>4, ShapesAssumption, OneMore
  <2>3. Cardinality(u[x]) = IF x \in Groups THEN ChildCount(x) ELSE 0
    <3>1. u[x] = Below(x)
      OBVIOUS
    <3>2. CASE x \in Groups
      BY <3>1, <3>2, ChildCountIs
    <3>3. CASE x \notin Groups
      <4>1. Below(x) = {}
        BY <1>1, <3>3, NothingBelowLeaf DEF Shapes
      <4>. QED
        BY <3>1, <3>3, <4>1, FS_EmptySet
    <3>. QED
      BY <3>2, <3>3
  <2>4. total[s] = n + Cardinality(U(s)) /\ total[s \ {x}] = n + Cardinality(U(s \ {x}))
    OBVIOUS
  <2>. HIDE DEF total, U, Pick, n
  <2>5. total[s] = total[s \ {x}] + Cardinality(u[x])
    BY <1>1, <2>2, <2>4
  <2>. QED
    BY <2>1, <2>3, <2>5
<1>6. total[{}] = n
  <2>1. U({}) = {}
    OBVIOUS
  <2>2. total[{}] = n + Cardinality(U({}))
    OBVIOUS
  <2>3. Cardinality(U({})) = 0
    BY <2>1, FS_EmptySet
  <2>. HIDE DEF U, total, n
  <2>. QED
    BY <1>1, <2>2, <2>3
<1>7. total = [s \in SUBSET w |-> total[s]]
  OBVIOUS
<1>8. total[w] = n + Cardinality(U(w))
  OBVIOUS
<1>. HIDE DEF total
<1>9. total = AddsWorld(w, total)
  BY <1>5, <1>6, <1>7 DEF AddsWorld
<1>10. PICK it : it = (CHOOSE i : i = AddsWorld(w, i)) /\ it = AddsWorld(w, it)
  BY <1>9
<1>11. \A s \in SUBSET w : it[s] = total[s]
  <2>. DEFINE T == {s \in SUBSET w : it[s] = total[s]}
  <2>1. {} \in T
    BY <1>6, <1>10 DEF AddsWorld
  <2>2. ASSUME NEW s \in SUBSET w, s # {}
        PROVE  \E x \in s : s \ {x} \in T => s \in T
    <3>1. it[s] = it[s \ {Pick(s)}]
                  + (IF Pick(s) \in Groups THEN ChildCount(Pick(s)) ELSE 0)
      BY <1>10, <2>2 DEF AddsWorld
    <3>. QED
      BY <1>5, <2>2, <3>1
  <2>. HIDE DEF T
  <2>3. \A s \in SUBSET w : s \in T
    BY <1>1, <2>1, <2>2, AllSubsets
  <2>. QED
    BY <2>3 DEF T
<1>12. ObjectCount(w) = n + Cardinality(U(w))
  BY <1>8, <1>10, <1>11, ObjectCountAdds
<1>13. w \cap U(w) = {}
  <2>1. ASSUME NEW o \in w, NEW p \in w, p \in Below(o)
        PROVE  FALSE
    <3>1. p # o /\ o \in SelfAndAbove(p)
      BY <2>1 DEF Below
    <3>. QED
      BY <1>2, <3>1
  <2>. QED
    BY <2>1
<1>14. Within(w) = w \cup U(w)
  <2>1. ASSUME NEW s \in Within(w)
        PROVE  s \in w \cup U(w)
    <3>1. PICK o \in w : s \in Shapes /\ o \in SelfAndAbove(s)
      BY <2>1 DEF Within
    <3>2. s = o \/ s \in u[o]
      BY <3>1 DEF Below
    <3>. QED
      BY <3>2
  <2>2. ASSUME NEW o \in w
        PROVE  o \in Within(w) /\ u[o] \subseteq Within(w)
    <3>1. o \in Within(w)
      BY <1>2 DEF Within
    <3>2. ASSUME NEW s \in Below(o)
          PROVE  s \in Within(w)
      BY DEF Below, Within
    <3>. QED
      BY <3>1, <3>2
  <2>. QED
    BY <2>1, <2>2
<1>15. IsFiniteSet(U(w))
  <2>1. U(w) \in SUBSET Shapes
    BY <1>4
  <2>. QED
    BY <2>1, ShapesAssumption, FS_Subset
<1>. HIDE DEF U
<1>16. /\ Cardinality(w \cup U(w)) = n + Cardinality(U(w)) /\ IsFiniteSet(w \cup U(w))
       /\ Cardinality(w \cup U(w)) \in Nat
  BY <1>1, <1>13, <1>15, Apart, FS_CardinalityType
<1>. QED
  BY <1>12, <1>14, <1>16

-----------------------------------------------------------------------------
(* What one ray leaves in the buffer.                                      *)

(* No shape waits twice, nor a shape and a group above it.                 *)
WaitOnce ==
  \A s, t \in Shapes : \A d, i, e, j \in Nat :
    /\ Waits(frames, d, i) /\ ShapeAt(frames, d, i) = s
    /\ Waits(frames, e, j) /\ ShapeAt(frames, e, j) = t
    /\ s \in SelfAndAbove(t)
    => d = e /\ i = j

(* The shapes that wait are of the world.                                  *)
WaitWithin ==
  \A s \in Shapes : \A d, i \in Nat :
    Waits(frames, d, i) /\ ShapeAt(frames, d, i) = s => s \in Within(objects)

(* So are the leaves that were tested, and these are done with.            *)
TestedOnce == \A l \in tested : l \in Within(objects) /\ ~ WaitsAbove(l)

Counted ==
  /\ count <= 4 * Cardinality(tested)
  /\ ray # Nil => capacity = 4 * Cardinality(Within(objects))

BInv == WaitOnce /\ WaitWithin /\ TestedOnce /\ Counted

LEMMA TestedFinite ==
  ASSUME tested \subseteq Leaves
  PROVE  IsFiniteSet(tested) /\ Cardinality(tested) \in Nat
<1>1. tested \in SUBSET Shapes
  BY DEF Shapes
<1>. QED
  BY <1>1, ShapesAssumption, FS_Subset, FS_CardinalityType

LEMMA WithinKept ==
  ASSUME UNCHANGED <<scene, objects, ray>>
  PROVE  /\ Within(objects)' = Within(objects)
         /\ \A s : SelfAndAbove(s)' = SelfAndAbove(s)
<1>1. \A s : SelfAndAbove(s)' = SelfAndAbove(s)
  BY WalkKept
<1>. QED
  BY <1>1 DEF Within

(* With no ray under way there is nothing to count.                        *)
LEMMA IdleCounts ==
  ASSUME ray' = Nil, frames' = <<>>, count' = 0, tested' = {}
  PROVE  BInv'
<1>1. \A d, i \in Nat : ~ Waits(frames', d, i)
  BY DEF Waits
<1>2. 0 <= 4 * Cardinality({})
  BY FS_EmptySet
<1>. QED
  BY <1>1, <1>2 DEF BInv, WaitOnce, WaitWithin, TestedOnce, Counted

LEMMA CountInit == Init => BInv
<1>. SUFFICES ASSUME Init PROVE BInv
  OBVIOUS
<1>1. \A d, i \in Nat : ~ Waits(frames, d, i)
  BY DEF Init, Waits
<1>2. 0 <= 4 * Cardinality({})
  BY FS_EmptySet
<1>. QED
  BY <1>1, <1>2 DEF Init, BInv, WaitOnce, WaitWithin, TestedOnce, Counted

LEMMA CastCounts ==
  ASSUME IInv, CInv, NEW w \in SUBSET Roots \ {{}}, NEW x \in Rays, Cast(w, x)
  PROVE  BInv'
<1>. DEFINE q == SetToSeq(w)
            f == [shapes |-> q, origin |-> x]
<1>1. /\ objects' = w /\ ray' = x /\ frames' = <<f>> /\ count' = 0 /\ tested' = {}
      /\ capacity' = 4 * ObjectCount(w) /\ UNCHANGED scene
  BY DEF Cast
<1>2. w \in SUBSET Shapes /\ IsFiniteSet(w) /\ w \in SUBSET Roots
  <2>1. w \in SUBSET Shapes
    BY DEF Roots
  <2>. QED
    BY <2>1, ShapesAssumption, FS_Subset
<1>3. /\ q \in Seq(w)
      /\ \A i, j \in 1 .. Len(q) : q[i] = q[j] => i = j
  BY <1>2, Enumeration
<1>. HIDE DEF q
<1>4. f.shapes = q /\ f.origin = x /\ \A i \in 1 .. Len(q) : q[i] \in w
  BY <1>3
<1>. HIDE DEF f
<1>5. /\ Len(frames') = 1 /\ frames'[1] = f
  BY <1>1
<1>6. ASSUME NEW d \in Nat, NEW i \in Nat, Waits(frames', d, i)
      PROVE  d = 1 /\ i \in 1 .. Len(q) /\ ShapeAt(frames', d, i) = q[i] /\ q[i] \in w
  BY <1>4, <1>5, <1>6 DEF Waits, ShapeAt
<1>7. \A s \in w : SelfAndAbove(s) = {s} /\ s \in Within(w)
  BY <1>2, AboveFacts DEF IInv, Roots, Within
<1>8. \A s : SelfAndAbove(s)' = SelfAndAbove(s)
  BY <1>1, SceneKept
<1>9. Within(objects)' = Within(w)
  BY <1>1, <1>8 DEF Within
<1>10. WaitOnce'
  <2>1. SUFFICES ASSUME NEW s \in Shapes, NEW t \in Shapes,
                        NEW d \in Nat, NEW i \in Nat, NEW e \in Nat, NEW j \in Nat,
                        Waits(frames', d, i), ShapeAt(frames', d, i) = s,
                        Waits(frames', e, j), ShapeAt(frames', e, j) = t,
                        s \in SelfAndAbove(t)
                 PROVE  d = e /\ i = j
    BY <1>8 DEF WaitOnce
  <2>2. d = 1 /\ e = 1 /\ q[i] = s /\ q[j] = t /\ i \in 1 .. Len(q) /\ j \in 1 .. Len(q)
        /\ t \in w
    BY <1>6, <2>1
  <2>. QED
    BY <1>3, <1>7, <2>1, <2>2
<1>11. WaitWithin'
  BY <1>6, <1>7, <1>9 DEF WaitWithin
<1>12. TestedOnce'
  BY <1>1 DEF TestedOnce
<1>13. Counted'
  <2>1. 0 <= 4 * Cardinality({})
    BY FS_EmptySet
  <2>2. capacity' = 4 * Cardinality(Within(w))
    BY <1>1, <1>2, ObjectCountIs
  <2>. QED
    BY <1>1, <1>9, <2>1, <2>2 DEF Counted
<1>. QED
  BY <1>10, <1>11, <1>12, <1>13 DEF BInv

(* The shapes that wait behind the next one are others: none is above or   *)
(* below it.                                                               *)
LEMMA OthersApart ==
  ASSUME IInv, CInv, BInv, Running
  PROVE  /\ \A s, t \in Shapes : \A d, i, e, j \in Nat :
              /\ Waits(NextShape, d, i) /\ ShapeAt(NextShape, d, i) = s
              /\ Waits(NextShape, e, j) /\ ShapeAt(NextShape, e, j) = t
              /\ s \in SelfAndAbove(t)
              => d = e /\ i = j
         /\ \A s \in Shapes : \A d, i \in Nat :
              Waits(NextShape, d, i) /\ ShapeAt(NextShape, d, i) = s =>
                /\ s \in Within(objects)
                /\ s \notin SelfAndAbove(Shape) /\ Shape \notin SelfAndAbove(s)
                /\ \A l \in tested : s \notin SelfAndAbove(l)
<1>. DEFINE n == Len(frames)
            From(d, i) == IF d = n THEN i + 1 ELSE i
<1>1. /\ Waits(frames, n, 1) /\ ShapeAt(frames, n, 1) = Shape /\ Shape \in Shapes
      /\ n \in Nat /\ 1 \in Nat
  BY NextUp
<1>2. ASSUME NEW d \in Nat, NEW i \in Nat, Waits(NextShape, d, i)
      PROVE  /\ From(d, i) \in Nat /\ Waits(frames, d, From(d, i))
             /\ ShapeAt(NextShape, d, i) = ShapeAt(frames, d, From(d, i))
             /\ ~ (d = n /\ From(d, i) = 1)
  <2>1. CASE d = n
    <3>1. i # 0 /\ i + 1 \in Nat
      BY <1>2 DEF Waits
    <3>2. Waits(frames, n, i + 1) /\ ShapeAt(NextShape, n, i) = ShapeAt(frames, n, i + 1)
      BY <1>2, <2>1, NextUp
    <3>. QED
      BY <2>1, <3>1, <3>2
  <2>2. CASE d # n
    BY <1>2, <2>2, NextUp
  <2>. QED
    BY <2>1, <2>2
<1>3. \A d, i, j \in Nat : From(d, i) = From(d, j) => i = j
  OBVIOUS
<1>. HIDE DEF From, n
<1>4. ASSUME NEW s \in Shapes, NEW t \in Shapes,
             NEW d \in Nat, NEW i \in Nat, NEW e \in Nat, NEW j \in Nat,
             Waits(NextShape, d, i), ShapeAt(NextShape, d, i) = s,
             Waits(NextShape, e, j), ShapeAt(NextShape, e, j) = t,
             s \in SelfAndAbove(t)
      PROVE  d = e /\ i = j
  <2>1. /\ From(d, i) \in Nat /\ Waits(frames, d, From(d, i))
        /\ ShapeAt(frames, d, From(d, i)) = s
        /\ From(e, j) \in Nat /\ Waits(frames, e, From(e, j))
        /\ ShapeAt(frames, e, From(e, j)) = t
    BY <1>2, <1>4
  <2>2. d = e /\ From(d, i) = From(e, j)
    BY <1>4, <2>1 DEF BInv, WaitOnce
  <2>. QED
    BY <1>3, <2>2
<1>5. ASSUME NEW s \in Shapes, NEW d \in Nat, NEW i \in Nat,
             Waits(NextShape, d, i), ShapeAt(NextShape, d, i) = s
      PROVE  /\ s \in Within(objects)
             /\ s \notin SelfAndAbove(Shape) /\ Shape \notin SelfAndAbove(s)
             /\ \A l \in tested : s \notin SelfAndAbove(l)
  <2>1. PICK k \in Nat : /\ Waits(frames, d, k) /\ ShapeAt(frames, d, k) = s
                         /\ ~ (d = n /\ k = 1)
    BY <1>2, <1>5
  <2>2. s \in Within(objects)
    BY <2>1 DEF BInv, WaitWithin
  <2>3. PICK t \in Shapes : t = Shape
    BY <1>1
  <2>4. s \notin SelfAndAbove(t) /\ t \notin SelfAndAbove(s)
    BY <1>1, <2>1, <2>3 DEF BInv, WaitOnce
  <2>5. \A l \in tested : s \notin SelfAndAbove(l)
    BY <2>1 DEF BInv, TestedOnce, WaitsAbove
  <2>. QED
    BY <2>2, <2>3, <2>4, <2>5
<1>. QED
  BY <1>4, <1>5

LEMMA WaitingShape ==
  ASSUME NEW fr \in Seq(Loops), NEW d, NEW i, Waits(fr, d, i)
  PROVE  ShapeAt(fr, d, i) \in Shapes
<1>1. fr[d] \in Loops
  BY DEF Waits
<1>2. PICK q \in Seq(Shapes) : q = fr[d].shapes
  BY <1>1 DEF Loops
<1>. QED
  BY <1>2 DEF Waits, ShapeAt

LEMMA LeafCounts ==
  ASSUME IInv, CInv, BInv, IntersectLeaf
  PROVE  BInv'
<1>1. PICK l \in Leaves : l = Shape
  BY DEF IntersectLeaf
<1>2. /\ Running
      /\ tested' = tested \cup {l} /\ frames' = NextShape
      /\ UNCHANGED <<scene, objects, ray, capacity>>
  BY <1>1 DEF IntersectLeaf
<1>3. NextShape \in Seq(Loops) /\ l \in Shapes
  BY <1>1, <1>2, NextUp
<1>4. l \in SelfAndAbove(l) /\ l \notin tested /\ l \in Within(objects)
  <2>1. PICK n \in Nat : Waits(frames, n, 1) /\ ShapeAt(frames, n, 1) = l /\ 1 \in Nat
    BY <1>1, <1>2, NextUp
  <2>2. l \in SelfAndAbove(l)
    BY <1>3, AboveOrder DEF IInv
  <2>. QED
    BY <1>3, <2>1, <2>2 DEF BInv, TestedOnce, WaitWithin, WaitsAbove
<1>5. count \in Nat /\ count' \in Int /\ count' <= count + 4
  <2>1. PICK k \in IntersectionCounts(l, Origin) : count' = count + k
    BY <1>1 DEF IntersectLeaf
  <2>2. k \in Nat /\ k <= 4
    BY <2>1, LeafXsBound
  <2>3. count \in Nat
    BY DEF CInv, CastTypes
  <2>. QED
    BY <2>1, <2>2, <2>3
<1>6. /\ Cardinality(tested') = Cardinality(tested) + 1
      /\ Cardinality(tested) \in Nat
  <2>1. IsFiniteSet(tested) /\ Cardinality(tested) \in Nat
    BY TestedFinite DEF CInv, CastTypes
  <2>. QED
    BY <1>2, <1>4, <2>1, FS_AddElement
<1>7. WaitOnce'
  BY <1>2, OthersApart, WithinKept DEF WaitOnce
<1>8. WaitWithin'
  BY <1>2, OthersApart, WithinKept DEF WaitWithin
<1>9. TestedOnce'
  <2>1. SUFFICES ASSUME NEW t \in tested', NEW d \in Nat, NEW i \in Nat,
                        Waits(NextShape, d, i), ShapeAt(NextShape, d, i) \in SelfAndAbove(t)
                 PROVE  FALSE
    <3>1. \A t \in tested' : t \in Within(objects)
      BY <1>2, <1>4 DEF BInv, TestedOnce
    <3>. QED
      BY <1>2, <3>1, WithinKept DEF TestedOnce, WaitsAbove
  <2>2. PICK s \in Shapes : s = ShapeAt(NextShape, d, i)
    BY <1>3, <2>1, WaitingShape
  <2>. QED
    BY <1>1, <1>2, <2>1, <2>2, OthersApart
<1>10. Counted'
  <2>1. count <= 4 * Cardinality(tested)
    BY DEF BInv, Counted
  <2>2. count' <= 4 * Cardinality(tested')
    BY <1>5, <1>6, <2>1
  <2>. QED
    BY <1>2, <2>2, WithinKept DEF BInv, Counted
<1>. QED
  BY <1>7, <1>8, <1>9, <1>10 DEF BInv

LEMMA SkipCounts ==
  ASSUME IInv, CInv, BInv, SkipGroup
  PROVE  BInv'
<1>1. /\ Running /\ frames' = NextShape
      /\ UNCHANGED <<scene, objects, ray, capacity, count, tested>>
  BY DEF SkipGroup
<1>2. NextShape \in Seq(Loops)
  BY <1>1, NextUp
<1>3. WaitOnce'
  BY <1>1, OthersApart, WithinKept DEF WaitOnce
<1>4. WaitWithin'
  BY <1>1, OthersApart, WithinKept DEF WaitWithin
<1>5. TestedOnce'
  <2>1. SUFFICES ASSUME NEW t \in tested, NEW d \in Nat, NEW i \in Nat,
                        Waits(NextShape, d, i), ShapeAt(NextShape, d, i) \in SelfAndAbove(t)
                 PROVE  FALSE
    BY <1>1, WithinKept DEF BInv, TestedOnce, WaitsAbove
  <2>2. PICK s \in Shapes : s = ShapeAt(NextShape, d, i)
    BY <1>2, <2>1, WaitingShape
  <2>. QED
    BY <1>1, <2>1, <2>2, OthersApart
<1>6. Counted'
  BY <1>1, WithinKept DEF BInv, Counted
<1>. QED
  BY <1>3, <1>4, <1>5, <1>6 DEF BInv

(* The children of a group are other shapes than those that wait behind    *)
(* the group, and other than one another.                                  *)
LEMMA EnterCounts ==
  ASSUME IInv, CInv, BInv, EnterGroup
  PROVE  BInv'
<1>1. PICK g \in Groups : g = Shape
  BY DEF EnterGroup
<1>2. PICK q : q = children[g]
  OBVIOUS
<1>3. /\ Running /\ frames' = Append(NextShape, [shapes |-> q, origin |-> Origin])
      /\ UNCHANGED <<scene, objects, ray, capacity, count, tested>>
  BY <1>1, <1>2 DEF EnterGroup
<1>4. /\ NextShape \in Seq(Loops) /\ q \in Seq(Shapes) /\ Origin \in Int /\ g \in Shapes
  BY <1>1, <1>2, <1>3, NextUp DEF IInv, TreeTypes
<1>5. Nests(NextShape, frames', q, Origin)
  <2>1. PICK x \in Int : x = Origin
    BY <1>4
  <2>2. PICK fr \in Seq(Loops) : fr = NextShape
    BY <1>4
  <2>3. Nests(fr, Append(fr, [shapes |-> q, origin |-> x]), q, x)
    BY <1>4, Entering
  <2>. QED
    BY <1>3, <2>1, <2>2, <2>3
<1>6. /\ \A i \in 1 .. Len(q) : q[i] \in Shapes /\ parent[q[i]] = g
      /\ \A i, j \in 1 .. Len(q) : q[i] = q[j] => i = j
  <2>1. ToSet(q) = {s \in Shapes : parent[s] = g} /\ DOMAIN q = 1 .. Len(q) /\ IsInjective(q)
    BY <1>2, <1>4 DEF IInv, LinksAgree
  <2>. QED
    BY <2>1 DEF ToSet, IsInjective
<1>7. g \in SelfAndAbove(g)
  BY <1>4, AboveOrder DEF IInv
<1>8. \A c \in Shapes : parent[c] = g =>
        /\ SelfAndAbove(c) = {c} \cup SelfAndAbove(g)
        /\ c # g /\ c \notin SelfAndAbove(g)
  <2>1. SUFFICES ASSUME NEW c \in Shapes, parent[c] = g
                 PROVE  /\ SelfAndAbove(c) = {c} \cup SelfAndAbove(g)
                        /\ c # g /\ c \notin SelfAndAbove(g)
    OBVIOUS
  <2>2. SelfAndAbove(c) = {c} \cup SelfAndAbove(g)
    BY <1>4, <2>1, AboveFacts, ShapesAssumption DEF IInv
  <2>3. c # g /\ g \in SelfAndAbove(c)
    BY <1>4, <1>7, <2>1, <2>2, AboveOrder DEF IInv
  <2>. QED
    BY <1>4, <2>2, <2>3, AboveOrder DEF IInv
<1>. DEFINE n == Len(NextShape) + 1
            Old(d, i, s) == Waits(NextShape, d, i) /\ ShapeAt(NextShape, d, i) = s
            New(d, i, s) == d = n /\ i \in 1 .. Len(q) /\ q[i] = s
<1>9. ASSUME NEW d \in Nat, NEW i \in Nat, NEW s, Waits(frames', d, i), ShapeAt(frames', d, i) = s
      PROVE  (Old(d, i, s) /\ s \in Shapes) \/ New(d, i, s)
  <2>1. CASE Waits(NextShape, d, i) /\ ShapeAt(frames', d, i) = ShapeAt(NextShape, d, i)
    BY <1>4, <1>9, <2>1, WaitingShape
  <2>2. CASE d = n /\ i \in 1 .. Len(q) /\ ShapeAt(frames', d, i) = q[i]
    BY <1>9, <2>2
  <2>. QED
    BY <1>5, <1>9, <2>1, <2>2 DEF Nests
<1>10. ASSUME NEW s \in Shapes, NEW d \in Nat, NEW i \in Nat, Old(d, i, s)
       PROVE  /\ s \in Within(objects)
              /\ s \notin SelfAndAbove(g) /\ g \notin SelfAndAbove(s)
              /\ \A l \in tested : s \notin SelfAndAbove(l)
  BY <1>1, <1>3, <1>10, OthersApart
<1>11. ASSUME NEW d, NEW i, NEW s, New(d, i, s)
       PROVE  s \in Shapes /\ parent[s] = g
  BY <1>6, <1>11
<1>12. WaitOnce'
  <2>1. SUFFICES ASSUME NEW s \in Shapes, NEW t \in Shapes,
                        NEW d \in Nat, NEW i \in Nat, NEW e \in Nat, NEW j \in Nat,
                        Waits(frames', d, i), ShapeAt(frames', d, i) = s,
                        Waits(frames', e, j), ShapeAt(frames', e, j) = t,
                        s \in SelfAndAbove(t)
                 PROVE  d = e /\ i = j
    BY <1>3, WithinKept DEF WaitOnce
  <2>2. CASE Old(d, i, s) /\ Old(e, j, t)
    BY <1>3, <2>1, <2>2, OthersApart
  <2>3. CASE Old(d, i, s) /\ New(e, j, t)
    <3>1. s \notin SelfAndAbove(g) /\ g \notin SelfAndAbove(s)
      BY <1>10, <2>3
    <3>2. parent[t] = g /\ SelfAndAbove(t) = {t} \cup SelfAndAbove(g)
      BY <1>8, <1>11, <2>3
    <3>. QED
      BY <1>7, <2>1, <3>1, <3>2
  <2>4. CASE New(d, i, s) /\ Old(e, j, t)
    <3>1. g \notin SelfAndAbove(t)
      BY <1>10, <2>4
    <3>2. g \in SelfAndAbove(s)
      BY <1>7, <1>8, <1>11, <2>4
    <3>3. g \in SelfAndAbove(t)
      BY <2>1, <3>2, AboveOrder DEF IInv
    <3>. QED
      BY <3>1, <3>3
  <2>5. CASE New(d, i, s) /\ New(e, j, t)
    <3>1. s = t
      BY <1>8, <1>11, <2>1, <2>5
    <3>. QED
      BY <1>6, <2>5, <3>1
  <2>. HIDE DEF Old, New
  <2>. QED
    BY <1>9, <2>1, <2>2, <2>3, <2>4, <2>5
<1>13. g \in Within(objects)
  <2>1. PICK k \in Nat : Waits(frames, k, 1) /\ ShapeAt(frames, k, 1) = g /\ 1 \in Nat
    BY <1>1, <1>3, NextUp
  <2>. QED
    BY <1>4, <2>1 DEF BInv, WaitWithin
<1>14. WaitWithin'
  <2>1. SUFFICES ASSUME NEW s \in Shapes, NEW d \in Nat, NEW i \in Nat,
                        Waits(frames', d, i), ShapeAt(frames', d, i) = s
                 PROVE  s \in Within(objects)
    BY <1>3, WithinKept DEF WaitWithin
  <2>2. CASE Old(d, i, s)
    BY <1>10, <2>2
  <2>3. CASE New(d, i, s)
    BY <1>8, <1>11, <1>13, <2>3 DEF Within
  <2>. QED
    BY <1>9, <2>1, <2>2, <2>3
<1>15. TestedOnce'
  <2>1. SUFFICES ASSUME NEW l \in tested, NEW d \in Nat, NEW i \in Nat,
                        Waits(frames', d, i), ShapeAt(frames', d, i) \in SelfAndAbove(l)
                 PROVE  FALSE
    BY <1>3, WithinKept DEF BInv, TestedOnce, WaitsAbove
  <2>2. PICK s : s = ShapeAt(frames', d, i)
    OBVIOUS
  <2>3. CASE Old(d, i, s) /\ s \in Shapes
    BY <1>10, <2>1, <2>2, <2>3
  <2>4. CASE New(d, i, s)
    <3>1. l \in Shapes
      BY DEF CInv, CastTypes, Shapes
    <3>2. g \in SelfAndAbove(s)
      BY <1>7, <1>8, <1>11, <2>4
    <3>3. g \in SelfAndAbove(l)
      BY <2>1, <2>2, <3>1, <3>2, AboveOrder DEF IInv
    <3>4. PICK k \in Nat : Waits(frames, k, 1) /\ ShapeAt(frames, k, 1) = g /\ 1 \in Nat
      BY <1>1, <1>3, NextUp
    <3>. QED
      BY <3>3, <3>4 DEF BInv, TestedOnce, WaitsAbove
  <2>. QED
    BY <1>9, <2>1, <2>2, <2>3, <2>4
<1>16. Counted'
  BY <1>3, WithinKept DEF BInv, Counted
<1>. QED
  BY <1>12, <1>14, <1>15, <1>16 DEF BInv

LEMMA LeaveCounts ==
  ASSUME IInv, CInv, BInv, LeaveGroup
  PROVE  BInv'
<1>1. /\ Len(frames) > 1 /\ Last(frames).shapes = <<>> /\ frames' = Front(frames)
      /\ UNCHANGED <<scene, objects, ray, capacity, count, tested>>
      /\ frames \in Seq(Loops)
  BY DEF LeaveGroup, Top, CInv, CastTypes
<1>2. \A d, i \in Nat : Waits(frames', d, i) =>
        Waits(frames, d, i) /\ ShapeAt(frames', d, i) = ShapeAt(frames, d, i)
  BY <1>1, Leaving
<1>3. WaitOnce'
  BY <1>1, <1>2, WithinKept DEF BInv, WaitOnce
<1>4. WaitWithin'
  BY <1>1, <1>2, WithinKept DEF BInv, WaitWithin
<1>5. TestedOnce'
  BY <1>1, <1>2, WithinKept DEF BInv, TestedOnce, WaitsAbove
<1>6. Counted'
  BY <1>1, WithinKept DEF BInv, Counted
<1>. QED
  BY <1>3, <1>4, <1>5, <1>6 DEF BInv

LEMMA CountNext == IInv /\ CInv /\ BInv /\ [Next]_vars => BInv'
<1>. SUFFICES ASSUME IInv, CInv, BInv, [Next]_vars PROVE BInv'
  OBVIOUS
<1>1. ASSUME NEW s \in Shapes, NEW t \in Transforms, SetTransform(s, t)
      PROVE  BInv'
  BY <1>1, IdleCounts DEF SetTransform, cast, CInv, IdleInv
<1>2. ASSUME NEW g \in Groups, NEW c \in Shapes, AddChild(g, c)
      PROVE  BInv'
  BY <1>2, IdleCounts DEF AddChild, cast, CInv, IdleInv
<1>3. ASSUME NEW w \in SUBSET Roots \ {{}}, NEW x \in Rays, Cast(w, x)
      PROVE  BInv'
  BY <1>3, CastCounts
<1>4. CASE IntersectLeaf
  BY <1>4, LeafCounts
<1>5. CASE SkipGroup
  BY <1>5, SkipCounts
<1>6. CASE EnterGroup
  BY <1>6, EnterCounts
<1>7. CASE LeaveGroup
  BY <1>7, LeaveCounts
<1>8. CASE FinishRay
  BY <1>8, IdleCounts DEF FinishRay
<1>9. CASE UNCHANGED vars
  <2>1. UNCHANGED <<scene, objects, ray, frames, capacity, count, tested>>
    BY <1>9 DEF vars, cast
  <2>2. WaitOnce' /\ WaitWithin'
    BY <2>1, WithinKept DEF BInv, WaitOnce, WaitWithin
  <2>3. TestedOnce'
    BY <2>1, WithinKept DEF BInv, TestedOnce, WaitsAbove
  <2>4. Counted'
    BY <2>1, WithinKept DEF BInv, Counted
  <2>. QED
    BY <2>2, <2>3, <2>4 DEF BInv
<1>. QED
  BY <1>1, <1>2, <1>3, <1>4, <1>5, <1>6, <1>7, <1>8, <1>9 DEF Next

THEOREM CountInvariance == Spec => []BInv
<1>. QED
  BY Invariance, CastInvariance, CountInit, CountNext, PTL DEF Spec

(* What a ray leaves in the buffer is at most four intersections for each  *)
(* leaf tested; the leaves tested are of the world, and world_object_count *)
(* counts them all.                                                        *)
LEMMA RoomForAll == IInv /\ CInv /\ BInv => BufferSuffices /\ capacity \in Nat
<1>. SUFFICES ASSUME IInv, CInv, BInv PROVE BufferSuffices /\ capacity \in Nat
  OBVIOUS
<1>1. CASE ray = Nil
  BY <1>1 DEF CInv, IdleInv, BufferSuffices
<1>2. CASE ray # Nil
  <2>1. IsFiniteSet(Within(objects)) /\ Cardinality(Within(objects)) \in Nat
    BY ObjectCountIs DEF CInv, CastTypes
  <2>2. tested \in SUBSET Within(objects)
    BY DEF BInv, TestedOnce
  <2>3. Cardinality(tested) <= Cardinality(Within(objects)) /\ Cardinality(tested) \in Nat
    BY <2>1, <2>2, FS_Subset, FS_CardinalityType
  <2>4. count <= 4 * Cardinality(tested) /\ capacity = 4 * Cardinality(Within(objects))
        /\ count \in Nat
    BY <1>2 DEF BInv, Counted, CInv, CastTypes
  <2>. QED
    BY <2>1, <2>3, <2>4 DEF BufferSuffices
<1>. QED
  BY <1>1, <1>2

(* The buffer made for a world holds what one ray leaves in it.            *)
THEOREM RoomInBuffer == Spec => []BufferSuffices
<1>. QED
  BY Invariance, CastInvariance, CountInvariance, RoomForAll, PTL

(* Every variable keeps its type, and the tree its two directions.         *)
THEOREM TypeCorrect == Spec => []TypeOK
<1>1. Init => outdated \subseteq Groups
  BY DEF Init
<1>2. IInv /\ outdated \subseteq Groups /\ [Next]_vars => (outdated \subseteq Groups)'
  <2>. SUFFICES ASSUME IInv, outdated \subseteq Groups, [Next]_vars
                PROVE  outdated' \subseteq Groups
    OBVIOUS
  <2>1. \A s \in Shapes : Outdates(s) \subseteq Groups
    BY DEF IInv, TreeTypes, Outdates
  <2>2. ASSUME NEW s \in Shapes, NEW t \in Transforms, SetTransform(s, t)
        PROVE  outdated' \subseteq Groups
    BY <2>1, <2>2 DEF SetTransform
  <2>3. ASSUME NEW g \in Groups, NEW c \in Shapes, AddChild(g, c)
        PROVE  outdated' \subseteq Groups
    BY <2>1, <2>3 DEF AddChild, Shapes
  <2>4. CASE UNCHANGED scene
    BY <2>4 DEF scene
  <2>5. UNCHANGED scene
          \/ (\E s \in Shapes, t \in Transforms : SetTransform(s, t))
          \/ (\E g \in Groups, c \in Shapes : AddChild(g, c))
    BY DEF Next, vars, Cast, IntersectLeaf, SkipGroup, EnterGroup, LeaveGroup, FinishRay
  <2>. QED
    BY <2>2, <2>3, <2>4, <2>5
<1>3. IInv /\ CInv /\ BInv /\ outdated \subseteq Groups => TypeOK
  BY RoomForAll DEF TypeOK, IInv, TreeTypes, CInv, CastTypes, Loops
<1>. QED
  BY <1>1, <1>2, <1>3, Invariance, CastInvariance, CountInvariance, PTL DEF Spec
=============================================================================
