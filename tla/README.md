# The ray tracer in TLA+

This directory specifies the parts of the ray tracer that are hard to test: the
threads that render an image, the window that shows it meanwhile, the buffers
and counters the recursion of `color_at` shares, the bookkeeping of refraction,
the scene graph with its cached boxes, the tests of rays against boxes and round
shapes, and three smaller programs around it: the OBJ parser, the PPM encoder
and the test runner. TLC
checks the specifications on small instances; TLAPS proves the most important
facts for every value of the constants. Paths below are relative to the
repository.

## 1. The system

| Part | Source | State | Operations |
|---|---|---|---|
| Renderer | `src/camera.odin` 66-202 | `task_data`, `task_mem`, the pool, the canvas's pixels | `render_to_canvas`, `render_lines_task` |
| Canvas, display, demo driver | `src/canvas.odin`, `src/display.odin`, `putting_it_together/main.odin` 91-103 | pixels (no lock), the display thread, its render texture | `with_canvas`, `start_display`, `display_internal`, `end_display` |
| Shading recursion | `src/world.odin`, `src/light.odin` | a task's intersection buffer and `hi_mem`; the stack | `color_at`, `shade_hit`, `reflected_color`, `refracted_color`, `is_shadowed`, `intersect_world` |
| Statistics | `src/world.odin` 30-54, `src/group.odin` 86 | `total_xs_test`, `total_hit`, their mutex | additions by every ray and every group |
| Hit selection | `src/intersect.odin` | the ordered intersections, the list of containers | `hit`, `hit_info` |
| OBJ parser | `src/obj_parser.odin` | arrays of vertices, normals, faces, triangles, groups | `parse_obj_string`, `add_triangle`, `obj_to_group`, `free_parsed_obj_file` |
| Test runner | `src/test_runner/runner.odin`, `tests/main.odin` | the context: prefix, counters, message builder | `execute_test_suite`, `execute_test`, `expect` |
| Scene graph, bounds | `src/group.odin`, `src/shapes.odin`, `src/bounds.odin` | parents, children, cached bounds | `group_add_child`, `set_transform`, `bounds_*`, `world_object_count` |
| PPM encoder | `src/ppm.odin` | the length of the current line | `append_element`, `ppm_from_canvas` |
| Primitive shapes | `src/cube.odin`, `src/cylinder.odin`, `src/cone.odin`, `src/sphere.odin`, `src/plane.odin`, `src/triangle.odin` | none but the buffer they append to | `*_intersects`, `intersect_caps`, `check_cap` |
| Patterns, materials, colours, camera geometry, math | the rest of `src/` | none | arithmetic on floating-point numbers |
| Profiler, window library | `tracy/`, raylib | third party | calls from `display.odin` |

How they interact. A demo calls `with_canvas`, which creates a canvas, starts
the display thread and calls the demo's renderer. `render_to_canvas` cuts the
image into bands of lines, one task each, and gives them to a `core:thread`
pool; each task shades its pixels with `color_at` and stores them in the
canvas, which the display thread reads at the same time with no lock. A task
owns an intersection buffer and a scratch slice `hi_mem`, cut from one block,
and `color_at` hands both down its recursion, so that every shadow, reflection
and refraction ray overwrites the buffer its callers used. All threads add to
two global counters under one mutex. When the rendering has returned and the
window is closed, `with_canvas` joins the display and destroys the canvas.

What is hard, and the property that makes each part correct:

- Renderer: bands that are rounded, cut short or empty; tasks that start before
  the loop that queues them has ended; a caller that helps, then joins, then
  frees. *Every pixel is painted exactly once, whatever the interleaving; two
  threads never share scratch memory; nothing is freed under a running task;
  the call returns.*
- Display: an unlocked canvas, two owners of a pointer, a window that may close
  at any moment. *The canvas outlives both, a shown pixel stays, and the last
  frame is whole.*
- Shading: aliasing of one buffer by a recursion; a mutex taken twice per ray.
  *Whoever reads the buffer reads its own ray's intersections; no addition is
  lost; the recursion and the number of rays are bounded; every pixel ends.*
- Hit selection: a list kept with swaps, in a slice of a fixed size. *It never
  overflows, is exactly the solids around the ray, and of nested
  solids gives the innermost.*
- OBJ parser: two passes that must agree, groups attached to the next face by
  index, results that share memory. *What is well formed parses, all that was
  allocated is filled, each triangle is in the right group, and nothing leaks.*
- PPM encoder: a counter that must agree with what was printed. *No line is too
  long or broken too early, and the image can be read back.*
- Test runner: one truncated prefix comparison for suites and tests, verdicts
  folded through a tree, one message builder for all. *The selected tests run
  once, the verdict is exact, messages belong to their test.*
- Scene graph: cached bounds that can be stale, infinities that turn into NaN, a
  buffer sized from a count of the tree. *Groups that are up to date hide
  nothing, rays and points go through the same transformations in the same
  order, and the buffer suffices.*
- Shapes and boxes: divisions by zero directions, edges where a wall meets a cap.
  *The box test never hides what the ray meets; an edge counts once, so that the
  assertions on the number of hits hold; hits are on the surface, with three
  exceptions named in section 2.*

`PROJECT.json` lists each hazard at its line with the properties that cover it.
A hazard that the model has but the properties excuse is listed with none.

## 2. Modules

| Module | Models | Runs |
|---|---|---|
| `ImageFill` | what `render_to_canvas` promises, with no threads | as a property of `Render` |
| `Render` | `render_to_canvas` with its pool | `render` |
| `WithCanvas` | the display and the driver, around `Render` | `with_canvas` |
| `ColorAt` | the recursion of `color_at` and the statistics | `color_at_threads`, `color_at_depth` |
| `HitInfo`, `MCHitInfo` | `hit` and `hit_info` over any ordered list of intersections | `hit_info`, `hit_info_assertion` |
| `SceneGraph`, `MCSceneGraph` | groups, their cached bounds, a ray's way down the tree | `scene_graph` |
| `Solids`, `MCSolids` | `bounds_intersect`, `cube_intersects`, `cylinder_intersects`, `cone_intersects` | `solids` |
| `ObjParser`, `MCObjParser` | `parse_obj_string`, `obj_to_group` and `free_parsed_obj_file` | `obj_parser` |
| `Ppm`, `MCPpm` | `ppm_from_canvas` and `append_element` | `ppm` |
| `TestRunner`, `MCTestRunner` | `execute_test_suite` over a tree of suites | `test_runner`, `test_runner_prefix` |
| `RenderProofs` (also of `WithCanvas`), `ColorAtProofs`, `IntersectionProofs` (`HitInfo` and `Solids`), `SceneGraphProofs`, `ObjParserProofs`, `PpmProofs`, `TestRunnerProofs` | theorems | proved |
| `SetInduction` | induction over naturals, finite sets and trees, for the modules above | proved |

An operator `MutantX` stands in front of `X` and is `X` with a plausible bug.
No specification uses it: it documents what the property paired with it in
`PROJECT.json` is able to find.

### Render

`pc` is the place of the calling thread: `PrepareTask` is the loop body up to
`pool_add_task` (156-178), `AddTask` that call and the loop test (180), then
`pool_finish` (200): the caller takes tasks itself like a worker, `StopPool`
when none waits and it has none, and the join, one `WorkerExits` per worker;
`Return` is the end of the call with its deferred releases. A thread in
`render_lines_task` goes through `at`: `BeginTask` evaluates the loop's range,
`ShadePixel` and `WritePixel` are the two halves of `canvas_write_pixel`, so
that another thread can see a torn colour, and `EndTask` returns to the pool.
The pool is library code, modelled from its use: pool workers take any waiting
task, at any time from `pool_start` on.

`int(math.ceil(f64(h) / f64(n)))` is the exact rounded-up quotient: for
heights below 2^53 a quotient that is not an integer is further from one than
f64 rounds, so that the division cannot lose the fraction. The branch for
`DO_THREADS == false` is compiled out in the repository and not modelled.

### WithCanvas

Extends `Render` by `app` (the driver), `display` (the thread's loop) and the
frame in progress. Reading a pixel takes two steps; if the canvas changed in
between, what is drawn is a mixture. Undefined timing of the two unlocked
threads is thus a choice among all interleavings of half reads and half writes.
The canvas stays an abstract array: scaling and texture formats are not
modelled.

### ColorAt

`stack[e]` holds the activations of `color_at` on a thread; a frame's `at` is
its position in `color_at`/`shade_hit` ("cast" the ray, look for the "hit",
"lights" and "shadow", "reflect", "refract", "blend"). What a ray meets is a
free choice. The buffer is reduced to a label: which activation, and which of
its rays, filled it. `IntersectWorld` fills it and leaves in `adding` what is to
be added to the counters, one group's share at most and then the world's; each
addition is `Lock`, `Load`, `Store`, `Unlock`. Whether a secondary ray is cast
depends on the material; only the bound on `remaining` is certain. `rays` and
`accounted` are ghosts.

### HitInfo

`AppendXs` builds any list that the sorted buffer can hold, up to `MaxXs[o]`
intersections with each object (a sphere two, a closed cone four). `CheckScratch`
is the assertion of line 124, compiled in or not, followed by the clearing of
`hi_mem`; `Walk` is one iteration of the loop. The media are represented by the
object whose refractive index is meant. Normals and offset points are left out.
Two properties share the work: `ListIsWhereTheRayIs` holds for every order of
crossings and finds a wrong swap; `MediaAreInnermost` is about which end of the
list is read, and cannot see a wrong swap, for among nested solids the one that
is left is always the last entry.
`phase = "intersect"` may be final: a ray that hits nothing.

### SceneGraph

While `ray = Nil` the caller builds: `AddChild` is `group_add_child` with its
update of the group's bounds, `SetTransform` moves a shape at any time. `Cast` is
`render_to_canvas` counting the objects of a world and one of its rays entering
`intersect_world`; `frames` are the loops over shapes that the ray is in, each
with the ray's origin in the loop's space, and `IntersectLeaf`, `SkipGroup`,
`EnterGroup` and `LeaveGroup` are one turn of the innermost loop.

Space has one axis, transformations shift it and may turn it around, and a ray
keeps its coordinate: it stands for the rays in a plane across the axis, of which
the other two axes' tests say nothing. Two such transformations do not commute,
so that the order in which `intersects` and `world_to_object` apply the inverses
matters, and a box that is turned around swaps its ends, so that
`bounds_transform` must take the least and the greatest corner. A scale or a
rotation is not modelled. `Product`, `Placement` and `Seen` are no code: they
say by multiplying the transformations themselves where a shape is, as a
reference for `SpacesAgree` and `BoundsHoldContent`.

A leaf whose box the ray misses appends nothing, unless it is a cone, which may
(`IntersectionCounts`): the hit of a ray parallel to its side has no height, and
its caps may be wider than its box. `NothingIsCulled` asks for the leaves whose
own box the ray meets, so the rim of such a cap is not part of it.

`bounds_transform` turns an infinite box, and that of an empty group, into NaN on
every axis, and `Enlarged` gives every box that `bounds_add_b` may then leave: a
compiler may emit `min` as a comparison, which yields its second argument, or as
an instruction that yields the number.

`outdated` is a ghost: the groups that the code gives no way to keep up to date,
because a shape in them was moved, a group in them grew, or an infinite or empty
box was added. Groups hung in one another before they are filled, as
`tests/world/world.odin:691` does, are thus outdated; the demos fill first
(`putting_it_together/ch15.odin:84`). What such a group loses, `BoundsHoldContent`
and `NothingIsCulled` excuse and do not find. The model hangs no group below itself,
which the code does not check and no caller does.

### Solids

One behaviour is one ray at one shape. `FirstSlab`, `MissSlab` and `NarrowSlab`
are the slabs of the three axes, which `bounds_intersect` and `cube_intersects`
compute with the same code; `MissWall`, `IntersectWall` and `AlongWall` are the
quadratic equation of a cylinder or cone and its two ways around it, and
`IntersectCaps` the caps with the assertion on the number of hits.

Coordinates are integers from `-Limit` to `Limit`, `Unit` of them to the code's
1, so that nothing is rounded and edges and corners are met exactly; directions
have components from -2 to 2. What floating point adds apart from rounding is
kept: a zero has a sign, its inverse is the infinity of that sign, zero times
infinity is NaN, comparisons with NaN are false. `Infinity` is a number that no
computation with finite coordinates reaches. A box may have infinite, NaN or
swapped faces; a cylinder or a cone has two finite ends. The root of a
discriminant stays a root, and heights are compared by squaring. The code's
comparisons with an epsilon are comparisons with zero here. The properties look
at the ray itself: where it crosses the planes of a box, whether the point at a
hit solves the shape's equation.

Three exemptions from `HitsAreTheEnds` are named in the module; what they name
is modelled as the code has it, and not caught. `InFacePlane`: a ray in the
plane of a face of the cube may get a NaN or a hit beside the face.
`ParallelHit`: a ray parallel to a cone's wall gets the time `-c / 2b`
(`src/cone.odin:115`, which `tests/world/shapes.odin` expects), which is not on
the cone, at any height; this one hit is exempt, the cap hits of the same ray
are not. `OnAcceptedCap`: the caps of a cone are compared with their radius
instead of its square (`src/cone.odin:143`), so a hit in the plane of a cap whose
radius is not its square need only be in the cap that the code accepts. No
document says what these should be.

### ObjParser

A line is its command, whether its numbers parse, and a face's indices.
`CountLine` and `Allocate` are the first pass; `StoreTuple`, `StoreFace`,
`StoreGroup`, `IgnoreLine` and `FailLine` the second; `CountTriangles` counts
the triangles of one face and `AllocateTriangles` makes their arrays;
`BuildTriangle` is one `add_triangle`. Then comes what callers do: `ObjToGroup`
is `obj_to_group` with its material, `ObjToGroupAgain` a second call, which the
assertion of `group_add_child` stops, `DeleteRoot` the release of the group, and
`FreeParsedObjFile` that of the file, whole or failed. Every way the program can
stop on an index or an assertion leads to the phase "panic".
`WellFormedFilesParse` is about files whose faces are sound and whose group lines
are followed by a face, turned into a group once; what stops the program
otherwise (a trailing group line, a bad index, a face of two vertices, a second
`obj_to_group`) is modelled, excused and not caught. The recursive call in
`obj_apply_material` is for groups in a parsed group, of which there are none, so
`ObjToGroup` is the walk over triangles only. `heap`, the
allocations not yet released, and `sized`, the triangle counts before each face,
are ghosts. Faces and their arrays live in the temporary allocator and are not
on the heap. A caller releases the group before the file, as the comment in
`tests/obj.odin:206` demands; the model does not do it the other way round.
Left out: characters, digits, coordinates, the names of groups and looking them
up.

### Ppm

`AppendElement` is one `append_element`: the number goes to a new line
(`Break`), starts the line after a row's end (`First`) or follows a space
(`Follow`); `EndRow` is the newline after a row. The text itself is not built:
`printed` records, for each number, its value, its line and the space before it,
and `chars` the length of each line as it is printed, while
`current_line_length` is what the encoder believes. A component is an integer
number of parts of one, so `ceil(255 * clamp(e, 0, 1))` is exact; NaN is left
out.

### TestRunner

`calls` is the stack of `execute_test_suite`; a frame's `at` is "enter" (the
prefix test), "setup", "test" and "teardown" of the next test; children run
after the tests. A full name is a sequence of pieces, no two of which start
alike, so that string prefixes are sequence prefixes. A test or hook is the number of its failed expectations.
`executed`, `failed`, `printed` and `hooks` are ghosts.

## 3. Runs, and their bounds

| Run | Instance | Shows |
|---|---|---|
| `render` | 2 x 5 pixels, 4 tasks, 2 workers and the caller | bands of 2, 2, 1 and 0 lines: a full band, a cut one and an empty one; more tasks than threads; the implementation of `ImageFill`; the call returns |
| `with_canvas` | 1 x 3 pixels, 2 tasks, 1 worker, the caller, the display | the window may be closed before, during and after rendering; frames overlap writes; the frame ends whole |
| `color_at_threads` | 2 threads, 2 lights, groups, shadows, no recursion | interleaved additions, two shadow rays per hit, one buffer per thread |
| `color_at_depth` | 1 thread, depth 2, 1 light | a full binary tree of secondary rays of three levels, each of which overwrites the buffer: the callers are done with it by then |
| `scene_graph` | 2 groups, a closed cone, a sphere, a plane, a shift by 2 and a mirroring, rays at 2 and 5 | every tree of them in every order, moved before and after; groups nested, empty, full; transformations that do not commute, one above the other; boxes finite, empty and NaN; rays in the middle and on the edge of shapes |
| `hit_info` | a closed cone and two other solids, `t` in -1..1 | all lists of up to 8 intersections, with ties and with hits behind the origin |
| `hit_info_assertion` | one closed cone | a **violation**, see section 6 |
| `solids` | 13 shapes; rays from 125 points in all directions with components of size 0, 1 or 2 and either sign of zero | boxes solid, flat, infinite, empty, NaN; rays from inside, outside, faces, edges and corners; along faces, parallel to walls, through the rims of caps and the apex of cones |
| `obj_parser` | a header and up to 4 lines of 11 kinds | group lines before, between and after faces of every kind, bad lines at every place; whole and failed parses released, with and without a group made of them |
| `ppm` | 1 x 2 pixels, 6 components, lines of 7 characters | numbers of every length, on both sides of 9/10 and 99/100, clamped at both ends; rows that fit on a line, and rows that need two |
| `test_runner` | 4 suites, 4 tests, 8 prefixes, up to 2 failures each | names that are prefixes of each other, three levels, a suite whose tests are all left out, every pattern of failures |
| `test_runner_prefix` | the same | a **violation**, see section 6 |

The bounds are the smallest at which every case of the code occurs. In `render`
two workers and the caller already give three threads that compete for four
tasks; the theorems of section 5 remove the bound for the safety properties.
Only the values of `t` relative to 0 and to each other matter to `HitInfo`:
three values give intersections behind, at and ahead of the origin, and ties
(several intersections with one `t`) stand for all finer orders, because a list
with ties may list them in every order. Two groups give every relation that
`SceneGraph` tells apart: beside, below, and a child added before or after its
parent was added. Four lines after the header are enough
in `ObjParser` for two groups with a face each, or a group between faces.

The grid of `solids` reaches from outside each shape on one side to outside on
the other, and its rays hit each vertex, edge, face and rim both from inside and
from outside.

Deadlock is checked in every run; where the program ends, an explicit
`Terminated` step stands for the end.

## 4. Fairness

Liveness assumes only that the operating system runs each thread that can run:
weak fairness of each thread's own steps. In `Render` the calling thread must
take a waiting task when it can and has none itself (`pool_finish` loops until
none is left), but a worker need not ever get a task. In `WithCanvas` the
display draws on, and closing the window is never assumed: `ImageIsShown` allows
for it, and `ClosedIsReleased` starts from it. In `ColorAt` the mutex needs no
fairness: each thread locks it finitely often.

## 5. What is proved

TLAPS checks these for every value of the constants, from the ASSUMEs in the
modules only (positive sizes and task counts, finite sets of objects and of
shapes, the calling thread not a worker, suites that form a tree, and so on). In
each module the inductive invariant is `IInv` (in `ObjParser`, `TestRunner` and
`Solids` it is `OInv`, `TInv` and `SolidInv`), with one lemma per action or group
of like actions. Where a further property needs more, another invariant is proved
relative to the first.

- `RenderProofs`, about `Render`: `TypeCorrect`, `ScratchExclusion`,
  `WritesStayInCanvas`, `ReleasedMemory` and `Implementation`
  (`Spec => ImplementsFill`). The properties are not inductive: that a thread's
  pixel is inside the canvas depends on its band, that bands are disjoint depends
  on the queueing loop, and that the image is complete depends on what every
  task, waiting, running or over, has painted. `IInv` adds `QueueInv` (how many
  lines are handed out), `BandsInv` (bands in order, none overlapping),
  `PoolInv` (a task waits, runs once, or is over), `CursorInv` (a thread works
  inside its band) and `CanvasInv` (which pixels of a band are done, given its
  task's state). The rounding facts (`LinesPerTaskFacts`) show that the bands add
  up to the height.
- `RenderProofs`, about `WithCanvas`: `CanvasTypeCorrect`, `CanvasOutlives`,
  `ShownPixels`. A step of `WithCanvas` is one of `Render` or leaves its
  variables alone, so `WInv` reuses `IInv` as it is. `DoneStays` derives from it
  that no step of the renderer touches a finished pixel, and `FrameInv` that a
  frame in progress has, up to its position, all that the last one showed.
- `ColorAtProofs`: `TypeCorrect`, `NoLostAddition`, `XsOwnership`,
  `RecursionBound`, `RayBound`, that is, all the invariants of the runs. `IInv`
  says that only the holder of the mutex is in the critical section and has read
  current values, that every activation below the top of a stack has left the
  loop over the lights (so none of them will read the buffer again), and that
  `remaining` falls by one per activation. `TypesInv` adds that a thread that
  loads or stores has something to add. For the number of rays, `LedgerInv` says
  that one can write down, for each activation on a stack, how many rays were
  cast before it, so that what it may still cast is in its budget and what its
  callee may cast is in the share of the place its caller is at.
- `IntersectionProofs`, about `HitInfo`: `TypeCorrect`, `ScratchSuffices`, `ListIsExact`,
  `MediaFound`, that is, all the properties of the run. The invariant says that
  the entries of the list are distinct objects, and that an object is in it
  exactly if it was crossed an odd number of times. That there is room is a
  counting argument: distinct objects and a newcomer are at most as many as the
  world has. For the media, `NestingInv` says that among nested solids the list
  is in the order of entry: the solid that is left is always the last entry, so
  that the swap changes nothing, and the last entry is the innermost solid.
- `IntersectionProofs`, about `Solids`: `BoxesHideNothing`, `HitsAreExact`,
  `AssertionsHold`, that is, all the properties of the run, exemptions included,
  for a grid of any size, any shapes on it and rays from any of its points. For boxes and the
  cube, `SolidInv` says what the interval is so far: it encloses every time at
  which the line is between the faces passed (`BoxInv`), strictly so for the
  inside of the cube (`StrictInv`), and its ends are on faces (`ExactInv`). One
  lemma about one face (`FaceOrder`) carries the infinities and NaN. For
  cylinders and cones it says which wall hits there are when the caps are tested
  (`RoundInv`). Why an end of a cylinder is never counted twice: a root is beyond
  the end exactly if the height above that end in the middle between the roots,
  squared, is larger than the discriminant (`EndFacts`), and a cap is hit exactly
  if it is not (`WithinCapIs`). Why it is never missed: a ray that is inside at
  one time cannot leave through the wall before it reaches the height (`Reach`).
- `SceneGraphProofs`: `TypeCorrect`, `ConsistentLinks`, `ChildrenInsideBoxes`,
  `ContentInsideBoxes`, `CullingLosesNothing`, `OneSpace`, `RoomInBuffer`, that
  is, all the properties of the run, for trees of any depth built and moved in
  any order. `IInv` is about the tree: parents and children agree (`LinksAgree`),
  the box of a group that is not outdated holds each child's box where the child
  is now (`BoxesHoldChildren`; `EnlargedHoldsBoth` is why adding a child keeps
  that for the others), and above every shape there is a root (`Forest`). An
  induction along the way up makes of it that a box holds all that is below its
  group. `CInv` is about a ray on its way down: every loop it is in has the ray
  in the space `world_to_object` gives (`SpaceInv`), of which `UndoesPlacement`,
  by induction over the tree, says that the product of the transformations leads
  back from it, and each leaf that the ray
  meets and that no outdated group hides was tested or is still ahead of one of
  the loops (`AheadInv`). `BInv` is about the buffer: no leaf comes up twice
  (`WaitOnce`, `TestedOnce`), and what was appended is the tested leaves' share
  of what was counted. The counts themselves are folds over sequences and over
  sets in the model; `ChildCountIs` and `ObjectCountIs` prove that they are the
  number of shapes below a group and in a world.
- `ObjParserProofs`: `TypeCorrect`, `WellFormedParse`, `FilledAllocations`,
  `NoLeak`, `FansComplete`, `MaterialComplete`, that is, all the properties of
  the run and more, for files of any length. `CountInv` and `StoreInv` say that both
  passes have counted the lines of each command before the current one, so that
  the second cannot run past what the first has measured. That the triangles fit
  is a sum over the faces, which the ghost `sized` turns into a history: each
  face's triangles start where the count stood before that face (`SizeInv`,
  `BuildInv`). `HeapInv` says that all that is allocated is owned by the file.
  `LInv` says which triangles have been made so far: each is one corner of the
  fan of its face, in the group its face line belongs to, and in that one only
  (`LinkInv`, `TreeInv`, `FansInv`).
- `PpmProofs`: `TypeCorrect`, `ShortLines`, `FullLines`, `ReadableImage`, that
  is, all the properties of the run, for every canvas and every maximum of at
  least four characters. The invariant says that the counter is the length of the
  current line, and that numbers are on lines that never go back, the last of
  them on the current line unless a row has just ended.
- `TestRunnerProofs`: `TypeCorrect`, `ExactReport`, `OwnMessages`,
  `BalancedHooks`, `SelectedRun`, that is, all the properties of the run, for
  every tree of suites. `VerdictInv` says that some
  activation on the stack is marked failed exactly if some test has failed, so
  that no verdict is lost on the way up; `CallersInv` that an activation that
  called a child suite has no test in progress. `WalkInv` says which suites were
  left: those before the current child of each activation on the stack with all
  that is below them; of such a suite every test that the prefix selects has run
  once. Two assumptions say what a tree of suites is:
  every suite and test has one place (`PlaceAssumption`), and all suites are
  below `Main` (`BelowMainAssumption`).
- `SetInduction`: the induction principles that the above need. The theorems of
  the library take the induction hypothesis as an operator, which the provers
  cannot instantiate; here it is a set, so that a proof cites
  them for `{n \in Nat : ...}`. `LeastElement` (from the
  well-foundedness of strict inclusion) is the root of all of them; from it come
  induction over the naturals and over the subsets of a finite set
  (`SetOfAllNaturals`, `AllSubsets`), functions defined by recursion on the
  naturals (`Recursion`) and on a tree (`TreeRecursion`).

Five of these facts are in no run, the theorems being the stronger statement:
`WritesInCanvas`, `CanvasTypeOK`, `HooksAreBalanced`, and of `ObjParser` the
`TypeOK` and `MaterialReachesAll`.

Only model-checked: liveness (`EventuallyReturns`, `PixelsFinish`,
`ImageIsShown`, `ClosedIsReleased`), for TLAPS does not reason about fairness
and ENABLED here.

## 6. Where code and documents disagree

- **The scratch assertion of `hit_info`** (`src/intersect.odin:124`) demands
  `len(hi_mem) >= len(xs) / 2`. `hi_mem` has one slot per object
  (`src/camera.odin:172`), but a closed cone has up to four intersections. In a
  world that holds one closed cone, or few other objects, a ray through both
  halves and both caps panics. The memory itself is sufficient:
  `ScratchNeverOverflows` is checked with the assertion compiled in and out, and
  proved. (`hit_info_assertion`)
- **The prefix of the test runner**: the usage text in `tests/main.odin:95` says
  only tests with the prefix run. The comparison truncates both names, so a test
  whose name is a proper prefix of the given one runs too: asking for
  `World/Intersect/Hit_Info_Inside` also runs `World/Intersect/Hit_Info`.
  (`test_runner_prefix`)

## 7. Not modelled, and why

- Floating-point arithmetic: lighting, schlick, patterns, noise, normals,
  matrices and vectors, camera geometry (`src/light.odin`, `src/material.odin`,
  `src/color.odin`, `src/pattern.odin`, `src/math/`). TLC has no reals, these
  functions hold no state, and on an integer grid none of them says anything.
  What can be said without rounding about rays, boxes and round shapes is in
  `Solids`; sphere, plane and triangle there would be their defining equation
  once more.
- Rotations and scales in the scene graph: the tree is modelled on one axis with
  shifts and mirrorings, see section 2.
- The release of groups and shapes that tests and demos make themselves, each in
  the scope that made it. Memory with two parties, a parsed file and the group
  made of it, is in `ObjParser`.
- Reading files and writing the image, the command line, the colours of the test
  report and its percentage (0/0 for a run with no test is printed as NaN).
- Vendored code: tracy and raylib (`tracy/`). The order in which the program
  calls the window library is in `WithCanvas`.
- The demo scenes of `putting_it_together/`: data for the parts above.

Left to do: in `Solids`, cylinders and cones without ends, and directions of any
size, for which a time in the test of a box would be a fraction.
