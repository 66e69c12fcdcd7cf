------------------------------ MODULE HitInfo ------------------------------
(***************************************************************************)
(* One color_at up to shade_hit: intersect_world leaves the intersections  *)
(* of the ray in order in its buffer, hit picks the first that does not    *)
(* lie behind the ray's origin, and hit_info walks over all of them,       *)
(* keeping in the scratch slice hi_mem the objects the ray is inside of,   *)
(* to find the media n1 and n2 on the two sides of the hit.                *)
(*                                                                         *)
(* A refractive index is represented by the object whose index it is, or   *)
(* by Vacuum for the constant 1.0.                                         *)
(***************************************************************************)
EXTENDS Integers, Sequences, FiniteSets

CONSTANTS
  Objects,     \* the shapes of the world that are not groups
  Groups,      \* how many groups there are: world_object_count counts them
  MaxXs,       \* how many intersections each shape may append for a ray
  Times,       \* the values of t; only their sign and equality matter
  Vacuum, Nil

ASSUME ObjectsAssumption == IsFiniteSet(Objects) /\ Groups \in Nat
ASSUME MaxXsAssumption == MaxXs \in [Objects -> 0 .. 4]
ASSUME TimesAssumption == Times \subseteq Int
ASSUME NilAssumption == Nil \notin Objects

(* total_obj_count and the slice that render_to_canvas cuts for a task.    *)
TotalObjCount == Cardinality(Objects) + Groups
MutantHiMemLen == TotalObjCount - 1
HiMemLen == TotalObjCount
Slots == 0 .. HiMemLen - 1

VARIABLES
  phase,    \* "intersect", "check", "walk", "done" or "panic"
  asserts,  \* are assertions compiled in?
  xs,       \* the slice intersect_world returned
  hit,      \* the intersection that was hit
  k,        \* the loop variable of hit_info: the position in xs
  hi_mem, container_count,
  n1, n2

vars == <<phase, asserts, xs, hit, k, hi_mem, container_count, n1, n2>>

Intersection == [t : Times, object : Objects]
NoHit == [t |-> 0, object |-> Nil]

Init ==
  /\ phase = "intersect"
  /\ asserts \in BOOLEAN
  /\ xs = <<>>
  /\ hit = NoHit
  /\ k = 1
  /\ hi_mem = [s \in Slots |-> Nil]
  /\ container_count = 0
  /\ n1 = Nil /\ n2 = Nil

-----------------------------------------------------------------------------
XsOf(o) == {j \in 1 .. Len(xs) : xs[j].object = o}

(* intersect_world, seen after the sort: one more intersection, not before *)
(* those already there.  append_xs asserts that there is room.             *)
AppendXs(i) ==
  /\ phase = "intersect"
  /\ Cardinality(XsOf(i.object)) < MaxXs[i.object]
  /\ \A j \in 1 .. Len(xs) : xs[j].t <= i.t
  /\ xs' = Append(xs, i)
  /\ UNCHANGED <<phase, asserts, hit, k, hi_mem, container_count, n1, n2>>

(* hit: the first intersection with t >= 0. *)
FindHit ==
  /\ phase = "intersect"
  /\ \E h \in 1 .. Len(xs) :
       /\ xs[h].t >= 0
       /\ \A j \in 1 .. h - 1 : xs[j].t < 0
       /\ hit' = xs[h]
  /\ phase' = "check"
  /\ UNCHANGED <<asserts, xs, k, hi_mem, container_count, n1, n2>>

(* hit_info asserts that the scratch slice is large enough. *)
ScratchAssertion == HiMemLen >= Len(xs) \div 2

(* The slice is cleared and the walk begins, or the assertion fails.       *)
CheckScratch ==
  /\ phase = "check"
  /\ phase' = IF asserts /\ ~ScratchAssertion THEN "panic" ELSE "walk"
  /\ hi_mem' = [s \in Slots |-> Nil]
  /\ UNCHANGED <<asserts, xs, hit, k, container_count, n1, n2>>

(* The object entered last of those the list holds, as the code sees it.   *)
LastContainer(mem, count) ==
  IF count < 1 THEN Vacuum ELSE mem[count - 1]

Holding(o) == {s \in 0 .. container_count - 1 : hi_mem[s] = o}

(* The ray enters the object: it is put at the end of the list.            *)
Entered(o) ==
  /\ Holding(o) = {}
  /\ hi_mem' = [hi_mem EXCEPT ![container_count] = o]
  /\ container_count' = container_count + 1

MutantLeft(o) ==
  /\ Holding(o) # {}
  /\ UNCHANGED hi_mem
  /\ container_count' = container_count - 1

MutantLeftTwice(o) ==
  \E s \in Holding(o) :
    LET last == container_count - 1 IN
    /\ hi_mem' = [hi_mem EXCEPT ![s] = hi_mem[last], ![last] = hi_mem[s]]
    /\ container_count' = last - 1

(* The ray leaves the object: the last of the list takes its place.        *)
Left(o) ==
  \E s \in Holding(o) :
    LET last == container_count - 1 IN
    /\ \A r \in Holding(o) : s <= r
    /\ hi_mem' = [hi_mem EXCEPT ![s] = hi_mem[last], ![last] = hi_mem[s]]
    /\ container_count' = last

MutantMedia ==
  /\ n1' = IF xs[k] = hit THEN LastContainer(hi_mem', container_count') ELSE n1
  /\ n2' = IF xs[k] = hit THEN LastContainer(hi_mem', container_count') ELSE n2

(* The medium before and after the update of the list, whenever the        *)
(* intersection equals the hit.                                            *)
Media ==
  /\ n1' = IF xs[k] = hit THEN LastContainer(hi_mem, container_count) ELSE n1
  /\ n2' = IF xs[k] = hit THEN LastContainer(hi_mem', container_count') ELSE n2

(* The body of the loop for one intersection. *)
Walk ==
  /\ phase = "walk"
  /\ k <= Len(xs)
  /\ Entered(xs[k].object) \/ Left(xs[k].object)
  /\ Media
  /\ k' = k + 1
  /\ UNCHANGED <<phase, asserts, xs, hit>>

WalkEnds ==
  /\ phase = "walk"
  /\ k > Len(xs)
  /\ phase' = "done"
  /\ UNCHANGED <<asserts, xs, hit, k, hi_mem, container_count, n1, n2>>

(* color_at found no hit, hit_info returned, or the program panicked.      *)
Terminated ==
  /\ phase \in {"intersect", "done", "panic"}
  /\ UNCHANGED vars

Next ==
  \/ \E i \in Intersection : AppendXs(i)
  \/ FindHit \/ CheckScratch \/ Walk \/ WalkEnds
  \/ Terminated

Spec == Init /\ [][Next]_vars

-----------------------------------------------------------------------------
(* Properties.                                                             *)

TypeOK ==
  /\ phase \in {"intersect", "check", "walk", "done", "panic"}
  /\ asserts \in BOOLEAN
  /\ xs \in Seq(Intersection)
  /\ hit \in Intersection \cup {NoHit}
  /\ k \in Nat \ {0}
  /\ hi_mem \in [Slots -> Objects \cup {Nil}]
  /\ container_count \in 0 .. HiMemLen
  /\ n1 \in Objects \cup {Nil, Vacuum}
  /\ n2 \in Objects \cup {Nil, Vacuum}

(* However many intersections there are, hit_info never stores outside of  *)
(* hi_mem: when an object is entered there is a free slot for it, with or  *)
(* without the assertion.                                                  *)
ScratchNeverOverflows ==
  phase = "walk" /\ k <= Len(xs) /\ Holding(xs[k].object) = {}
    => container_count \in Slots

(* The list holds the objects that the ray crossed an odd number of times, *)
(* each of them once, in spite of the swaps.                               *)
Crossed(o) == {j \in 1 .. k - 1 : xs[j].object = o}

ListIsWhereTheRayIs ==
  phase = "walk" =>
    \A o \in Objects :
      Cardinality(Holding(o)) = Cardinality(Crossed(o)) % 2

(* Solids that are nested or apart: each is entered and left once, and the *)
(* ray leaves them in the reverse order.  The hit is met once in the walk  *)
(* (a ray that touches a sphere meets it twice).                           *)
ProperlyNested ==
  /\ \A o \in Objects : Cardinality(XsOf(o)) \in {0, 2}
  /\ \A a, b, c, d \in 1 .. Len(xs) :
       a < b /\ b < c /\ c < d /\ xs[a].object = xs[c].object
         => xs[b].object # xs[d].object
  /\ Cardinality({j \in 1 .. Len(xs) : xs[j] = hit}) = 1

(* The innermost solid around position j: entered last of those that are   *)
(* entered before j and not left before j.                                 *)
Innermost(m, j) ==
  LET around == {a \in 1 .. j - 1 :
                   ~\E b \in 1 .. j - 1 : b # a /\ xs[b].object = xs[a].object}
  IN IF around = {} THEN m = Vacuum
     ELSE \E a \in around : m = xs[a].object /\ \A b \in around : b <= a

(* Among nested solids n1 is the medium the ray comes from and n2 the one  *)
(* it goes into.                                                           *)
MediaAreInnermost ==
  phase = "done" /\ ProperlyNested =>
    \E h \in 1 .. Len(xs) :
      xs[h] = hit /\ Innermost(n1, h) /\ Innermost(n2, h + 1)

(* The assertion at the head of the walk, that the scratch slice has room  *)
(* for half the intersections, never fails.                                *)
ScratchAssertionHolds == phase # "panic"
=============================================================================
