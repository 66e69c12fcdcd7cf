------------------------------ MODULE ColorAt ------------------------------
(***************************************************************************)
(* One pixel per thread: the recursion of color_at, shade_hit,             *)
(* reflected_color and refracted_color over the intersection buffer of the *)
(* thread's task, and the statistics that every intersect_world and        *)
(* group_intersects adds to under total_xs_test_mutex.                     *)
(*                                                                         *)
(* Geometry is abstracted to its outcomes: any ray may or may not hit, may *)
(* or may not enter the bounds of a group, and a surface may or may not be *)
(* reflective, transparent and totally reflecting.  What is kept is which  *)
(* ray the buffer's content belongs to, how deep the recursion is and what *)
(* is added to the counters, in which order and under which lock.          *)
(***************************************************************************)
EXTENDS Integers, Sequences, FiniteSets

CONSTANTS
  Threads,        \* the threads of the pool, each on a task of its own
  RecursionDepth, \* RECURSION_DEPTH of render_to_canvas
  Lights,         \* len(w.lights)
  Objects,        \* len(w.objects)
  GroupSizes,     \* len(group.shapes) of the non-empty groups of the world
  Shadows,        \* the shadows argument of render_to_canvas
  NoThread        \* nobody holds the mutex

ASSUME DepthAssumption == RecursionDepth \in Nat
ASSUME LightsAssumption == Lights \in Nat \ {0}   \* asserted by shade_hit
ASSUME ObjectsAssumption == Objects \in Nat
ASSUME GroupsAssumption == GroupSizes \subseteq Nat \ {0}
ASSUME ShadowsAssumption == Shadows \in BOOLEAN
ASSUME NoThreadAssumption == NoThread \notin Threads

VARIABLES
  stack,      \* the activations of color_at of each thread, innermost last
  xs,         \* per task: whose intersections the buffer holds
  adding,     \* per thread: what is still to be added to the counters
  statsAt,    \* per thread: its place in the critical section
  loaded,     \* per thread: the counters as it read them
  mutex,      \* holder of total_xs_test_mutex
  totals,     \* total_xs_test and total_hit
  accounted,  \* what the threads have counted (ghost)
  rays        \* per thread: calls of intersect_world (ghost)

statsVars == <<adding, statsAt, loaded, mutex, totals, accounted>>
vars == <<stack, xs, statsVars, rays>>

Frame(remaining, shadows) ==
  [at |-> "cast", remaining |-> remaining, shadows |-> shadows, light |-> 1]

NoXs == [owner |-> NoThread, depth |-> 0, use |-> "none", hit |-> FALSE]
Zero == [tests |-> 0, hits |-> 0]

Init ==
  /\ stack = [e \in Threads |-> <<Frame(RecursionDepth, Shadows)>>]
  /\ xs = [e \in Threads |-> NoXs]
  /\ adding = [e \in Threads |-> <<>>]
  /\ statsAt = [e \in Threads |-> "out"]
  /\ loaded = [e \in Threads |-> Zero]
  /\ mutex = NoThread
  /\ totals = Zero
  /\ accounted = Zero
  /\ rays = [e \in Threads |-> 0]

-----------------------------------------------------------------------------
Depth(e) == Len(stack[e])
Top(e) == stack[e][Depth(e)]
SetTop(e, f) == stack' = [stack EXCEPT ![e][Depth(e)] = f]
Goto(e, place) == SetTop(e, [Top(e) EXCEPT !.at = place])

(* A thread goes on with color_at when it has nothing left to add. *)
At(e, place) == Depth(e) > 0 /\ adding[e] = <<>> /\ Top(e).at = place

MutantBuffer(e) == CHOOSE f \in Threads : TRUE

(* The buffer is carved out of the task's own part of task_mem. *)
Buffer(e) == e

(* What one call of intersect_world adds: first the groups whose bounds    *)
(* the ray enters, then the world's objects and the intersections found.   *)
Additions(hit) ==
  {groups \o <<[tests |-> Objects, hits |-> IF hit THEN 1 ELSE 0]>> :
     groups \in {<<>>} \cup {<<[tests |-> n, hits |-> 0]>> : n \in GroupSizes}}

(* intersect_world: the buffer is emptied and filled for this ray; its     *)
(* additions to the counters are the steps of the next section.            *)
IntersectWorld(e, use) ==
  \E hit \in BOOLEAN :
    /\ xs' = [xs EXCEPT ![Buffer(e)] =
                [owner |-> e, depth |-> Depth(e), use |-> use, hit |-> hit]]
    /\ \E a \in Additions(hit) : adding' = [adding EXCEPT ![e] = a]
    /\ rays' = [rays EXCEPT ![e] = @ + 1]
    /\ UNCHANGED <<statsAt, loaded, mutex, totals, accounted>>

(* color_at casts its ray. *)
CastRay(e) ==
  /\ At(e, "cast")
  /\ IntersectWorld(e, "color")
  /\ Goto(e, "hit")

(* The activation returns its colour to the one that called it.            *)
Pop(e) == stack' = [stack EXCEPT ![e] = SubSeq(@, 1, Depth(e) - 1)]

(* hit finds nothing in the buffer: BLACK. *)
Miss(e) ==
  /\ At(e, "hit")
  /\ ~xs[Buffer(e)].hit
  /\ Pop(e)
  /\ UNCHANGED <<xs, statsVars, rays>>

(* hit_info copies all it needs out of the buffer; shade_hit begins.       *)
HitInfo(e) ==
  /\ At(e, "hit")
  /\ xs[Buffer(e)].hit
  /\ Goto(e, "lights")
  /\ UNCHANGED <<xs, statsVars, rays>>

(* The next light: is_shadowed casts a ray into the same buffer.           *)
CastShadow(e) ==
  /\ At(e, "lights")
  /\ Top(e).light <= Lights
  /\ Top(e).shadows
  /\ IntersectWorld(e, "shadow")
  /\ Goto(e, "shadow")

(* The rest of the loop body: is_shadowed looks at its ray's intersections *)
(* and lighting adds the light's share.                                    *)
Lighting(e) ==
  /\ Depth(e) > 0
  /\ Top(e).light <= Lights
  /\ At(e, IF Top(e).shadows THEN "shadow" ELSE "lights")
  /\ SetTop(e, [Top(e) EXCEPT !.at = "lights", !.light = @ + 1])
  /\ UNCHANGED <<xs, statsVars, rays>>

LightsDone(e) ==
  /\ At(e, "lights")
  /\ Top(e).light > Lights
  /\ Goto(e, "reflect")
  /\ UNCHANGED <<xs, statsVars, rays>>

MutantCall(e, next) ==
  stack' = [stack EXCEPT ![e] =
    Append([@ EXCEPT ![Depth(e)].at = next], Frame(Top(e).remaining, TRUE))]

(* color_at is called for the secondary ray: whatever the shadows argument *)
(* was, the callers pass true or rely on the default, which is true.       *)
Call(e, next) ==
  stack' = [stack EXCEPT ![e] =
    Append([@ EXCEPT ![Depth(e)].at = next], Frame(Top(e).remaining - 1, TRUE))]

(* hit_info would look at the intersections after the reflected ray.       *)
MutantReflect(e) ==
  /\ At(e, "reflect")
  /\ \/ Top(e).remaining > 0 /\ Call(e, "hit")
     \/ Goto(e, "refract")
  /\ UNCHANGED <<xs, statsVars, rays>>

(* reflected_color. *)
Reflect(e) ==
  /\ At(e, "reflect")
  /\ \/ Top(e).remaining > 0 /\ Call(e, "refract")
     \/ Goto(e, "refract")           \* remaining <= 0, or not reflective
  /\ UNCHANGED <<xs, statsVars, rays>>

MutantRefract(e) ==
  /\ At(e, "refract")
  /\ \/ Call(e, "blend")
     \/ Goto(e, "blend")
  /\ UNCHANGED <<xs, statsVars, rays>>

(* refracted_color: no colour when the surface is opaque or totally        *)
(* reflects the ray.                                                       *)
Refract(e) ==
  /\ At(e, "refract")
  /\ \/ Top(e).remaining > 0 /\ Call(e, "blend")
     \/ Goto(e, "blend")
  /\ UNCHANGED <<xs, statsVars, rays>>

(* shade_hit adds the parts up and color_at returns. *)
Blend(e) ==
  /\ At(e, "blend")
  /\ Pop(e)
  /\ UNCHANGED <<xs, statsVars, rays>>

-----------------------------------------------------------------------------
(* The counters.  An addition loads and stores: two steps, so that what    *)
(* the mutex is there for can go wrong.                                    *)

MutantLock(e) ==
  /\ adding[e] # <<>> /\ statsAt[e] = "out"
  /\ mutex' = e
  /\ statsAt' = [statsAt EXCEPT ![e] = "load"]
  /\ UNCHANGED <<stack, xs, adding, loaded, totals, accounted, rays>>

Lock(e) ==
  /\ adding[e] # <<>> /\ statsAt[e] = "out"
  /\ mutex = NoThread
  /\ mutex' = e
  /\ statsAt' = [statsAt EXCEPT ![e] = "load"]
  /\ UNCHANGED <<stack, xs, adding, loaded, totals, accounted, rays>>

Load(e) ==
  /\ statsAt[e] = "load"
  /\ loaded' = [loaded EXCEPT ![e] = totals]
  /\ statsAt' = [statsAt EXCEPT ![e] = "store"]
  /\ UNCHANGED <<stack, xs, adding, mutex, totals, accounted, rays>>

Plus(a, b) == [tests |-> a.tests + b.tests, hits |-> a.hits + b.hits]

Store(e) ==
  /\ statsAt[e] = "store"
  /\ totals' = Plus(loaded[e], Head(adding[e]))
  /\ accounted' = Plus(accounted, Head(adding[e]))
  /\ adding' = [adding EXCEPT ![e] = Tail(@)]
  /\ statsAt' = [statsAt EXCEPT ![e] = "unlock"]
  /\ UNCHANGED <<stack, xs, loaded, mutex, rays>>

MutantUnlock(e) ==
  /\ statsAt[e] = "unlock"
  /\ statsAt' = [statsAt EXCEPT ![e] = "out"]
  /\ UNCHANGED <<stack, xs, adding, loaded, mutex, totals, accounted, rays>>

Unlock(e) ==
  /\ statsAt[e] = "unlock"
  /\ mutex' = NoThread
  /\ statsAt' = [statsAt EXCEPT ![e] = "out"]
  /\ UNCHANGED <<stack, xs, adding, loaded, totals, accounted, rays>>

-----------------------------------------------------------------------------
Trace(e) ==
  /\ statsAt[e] = "out"
  /\ \/ CastRay(e) \/ Miss(e) \/ HitInfo(e)
     \/ CastShadow(e) \/ Lighting(e) \/ LightsDone(e)
     \/ Reflect(e) \/ Refract(e) \/ Blend(e)

Count(e) == Lock(e) \/ Load(e) \/ Store(e) \/ Unlock(e)

Finished == \A e \in Threads : stack[e] = <<>> /\ statsAt[e] = "out"

Terminated == Finished /\ UNCHANGED vars

Next == (\E e \in Threads : Trace(e) \/ Count(e)) \/ Terminated

Spec == Init /\ [][Next]_vars

(* Every thread runs when it can; the mutex need not be fair, because each *)
(* thread takes it finitely often.                                         *)
FairSpec == Spec /\ \A e \in Threads : WF_vars(Trace(e) \/ Count(e))

-----------------------------------------------------------------------------
(* Properties.                                                             *)

Totals == [tests : Nat, hits : Nat]

TypeOK ==
  /\ \A e \in Threads : \A d \in 1 .. Depth(e) :
       stack[e][d] \in [at : {"cast", "hit", "lights", "shadow", "reflect", "refract", "blend"},
                        remaining : 0 .. RecursionDepth, shadows : BOOLEAN,
                        light : 1 .. Lights + 1]
  /\ \A e \in Threads : xs[e].owner \in Threads \cup {NoThread} /\ xs[e].hit \in BOOLEAN
  /\ adding \in [Threads -> Seq(Totals)]
  /\ statsAt \in [Threads -> {"out", "load", "store", "unlock"}]
  /\ loaded \in [Threads -> Totals]
  /\ mutex \in Threads \cup {NoThread}
  /\ totals \in Totals
  /\ accounted \in Totals
  /\ rays \in [Threads -> Nat]

(* color_at keeps a slice that aliases the buffer every shadow, reflection *)
(* and refraction ray overwrites: whenever hit_info reads it, it still     *)
(* holds the intersections of the activation's own ray, and when           *)
(* is_shadowed looks, those of its shadow ray.                             *)
XsBelongToTheReader ==
  \A e \in Threads :
    Depth(e) > 0 /\ Top(e).at \in {"hit", "shadow"} =>
      LET b == xs[Buffer(e)] IN
      /\ b.owner = e
      /\ b.depth = Depth(e)
      /\ b.use = IF Top(e).at = "hit" THEN "color" ELSE "shadow"

(* No addition to total_xs_test and total_hit is lost, although every      *)
(* thread adds to them for every ray and every group it enters.            *)
NoAdditionIsLost == totals = accounted

(* An activation knows how deep it is: the chain of color_at calls a pixel *)
(* can build is at most RecursionDepth + 1 long.                           *)
RecursionIsBounded ==
  \A e \in Threads :
    /\ Depth(e) <= RecursionDepth + 1
    /\ \A d \in 1 .. Depth(e) : stack[e][d].remaining = RecursionDepth - (d - 1)

(* What an activation with n levels left may cast: its ray, a shadow ray   *)
(* per light, and what a reflected and a refracted activation may cast.    *)
(* This is (2^(n + 1) - 1) * (1 + Lights).                                 *)
Budget[n \in Nat] == 1 + Lights + IF n = 0 THEN 0 ELSE 2 * Budget[n - 1]

(* The work of a pixel: a ray and a shadow ray per light for every node of *)
(* a binary tree of RecursionDepth + 1 levels.                             *)
RayBudget == \A e \in Threads : rays[e] <= Budget[RecursionDepth]

(* Every pixel gets its colour. *)
PixelsFinish == <>Finished
=============================================================================
