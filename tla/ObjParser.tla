----------------------------- MODULE ObjParser -----------------------------
(***************************************************************************)
(* parse_obj_string and obj_to_group (obj_parser.odin): a first pass over  *)
(* the lines counts what a second pass stores into arrays of that size;    *)
(* then the triangles of the faces are counted, the faces are cut into     *)
(* triangles, each put into one more array and into the group its face     *)
(* belongs to.  In the end free_parsed_obj_file releases what was made.    *)
(*                                                                         *)
(* A line is abstracted to its command, to whether its numbers parse, and  *)
(* for a face to the indices of its vertices and normals.  The coordinates *)
(* are left out: a vertex is its index.  Whatever the program does not     *)
(* survive (an index out of bounds, a failed assertion) is the phase       *)
(* "panic".                                                                *)
(***************************************************************************)
EXTENDS Integers, Sequences, FiniteSets

CONSTANT Files       \* the files that may be parsed: sequences of lines

Stored == {"v", "vn", "f", "g"}
Commands == Stored \cup {"short", "ignored"}
Lines == [cmd : Commands, ok : BOOLEAN, indices : Seq(Nat), normals : Seq(Nat)]

ASSUME FilesAssumption == Files \subseteq Seq(Lines)

VARIABLES
  file,
  phase,             \* see Phases
  current_line,
  counts,            \* how many lines of each command the first pass met
  current,           \* how many of each the second pass has stored
  faces,
  ignored_line_count,
  capacity,          \* the lengths of result.triangles and result.smooth_triangles
  triangles,         \* what has been stored in them so far
  groups,            \* the shapes of each group; group 0 is the default one
  position,          \* the face being cut, and the last vertex of its triangle
  root,              \* the children of the group obj_to_group returned
  material,          \* the triangles that have the new material
  heap,              \* the allocations that are to be released (ghost)
  sized              \* capacity before each face was counted (ghost)

parsed == <<ignored_line_count, capacity, triangles, groups>>
used == <<root, material>>
vars == <<file, phase, current_line, counts, current, faces, parsed, position,
          used, heap, sized>>

Phases == {"count", "store", "size", "build", "done", "used", "detached",
           "freed", "failed", "panic"}
Kinds == {"flat", "smooth"}
FaceType == [indices : Seq(Nat), normals : Seq(Nat), group : Nat]
Triangle == [p : [1 .. 3 -> Nat], n : {<<>>} \cup [1 .. 3 -> Nat]]
Shape == [kind : Kinds, place : Nat]
None == [c \in Stored |-> 0]
NoTriangles == [k \in Kinds |-> 0]
FirstFace == [face |-> 1, vertex |-> 3]

Init ==
  /\ file \in Files
  /\ phase = "count"
  /\ current_line = 1
  /\ counts = None
  /\ current = None
  /\ faces = <<>>
  /\ ignored_line_count = 0
  /\ capacity = NoTriangles
  /\ triangles = [k \in Kinds |-> <<>>]
  /\ groups = <<>>
  /\ position = FirstFace
  /\ root = <<>>
  /\ material = {}
  /\ heap = {}
  /\ sized = <<>>

-----------------------------------------------------------------------------
Line == file[current_line]
AtLine(pass) == phase = pass /\ current_line <= Len(file)
AtEnd(pass) == phase = pass /\ current_line > Len(file)

(* First pass: one more line of this command; other lines count nothing.   *)
CountLine ==
  /\ AtLine("count")
  /\ counts' = [c \in Stored |-> counts[c] + IF Line.cmd = c THEN 1 ELSE 0]
  /\ current_line' = current_line + 1
  /\ UNCHANGED <<file, phase, current, faces, parsed, position, used, heap, sized>>

(* The arrays are made; every face starts in the default group.            *)
Allocate ==
  /\ AtEnd("count")
  /\ groups' = [g \in 0 .. counts["g"] |-> <<>>]
  /\ faces' = [f \in 1 .. counts["f"] |-> [indices |-> <<>>, normals |-> <<>>, group |-> 0]]
  /\ heap' = {"groups", "group_names", "vertices", "normals"} \X {0}
  /\ sized' = [f \in 1 .. counts["f"] + 1 |-> NoTriangles]
  /\ phase' = "store"
  /\ current_line' = 1
  /\ UNCHANGED <<file, counts, current, ignored_line_count, capacity, triangles,
                 position, used>>

(* Second pass.  Each of these lines goes to the next place of its array.  *)
StoreOne(c) ==
  /\ AtLine("store")
  /\ Line.cmd = c
  /\ current' = [current EXCEPT ![c] = @ + 1]
  /\ current_line' = current_line + 1
  /\ UNCHANGED <<file, counts, parsed, position, used, sized>>

(* A number does not parse: parse_obj_string returns, ok being false.      *)
FailLine ==
  /\ AtLine("store")
  /\ Line.cmd \in {"v", "vn", "f"}
  /\ ~Line.ok
  /\ phase' = "failed"
  /\ UNCHANGED <<file, current_line, counts, current, faces, parsed, position,
                 used, heap, sized>>

StoreTuple ==
  /\ StoreOne("v") \/ StoreOne("vn")
  /\ Line.ok
  /\ phase' = IF current[Line.cmd] < counts[Line.cmd] THEN phase ELSE "panic"
  /\ UNCHANGED <<faces, heap>>

StoreFace ==
  /\ StoreOne("f")
  /\ Line.ok
  /\ faces' = [faces EXCEPT ![current["f"] + 1] =
                 [@ EXCEPT !.indices = Line.indices, !.normals = Line.normals]]
  /\ phase' = IF current["f"] < counts["f"] THEN phase ELSE "panic"
  /\ UNCHANGED heap

MutantStoreGroup ==
  /\ StoreOne("g")
  /\ faces' = [faces EXCEPT ![current["f"] + 1] = [@ EXCEPT !.group = current["g"]]]
  /\ heap' = heap \cup {<<"name", current["g"] + 1>>}
  /\ phase' = IF current["f"] < counts["f"] THEN phase ELSE "panic"

(* A group line names the next group (strings.clone) and gives it the next *)
(* face: only that one, and there must be one.                             *)
StoreGroup ==
  /\ StoreOne("g")
  /\ faces' = [faces EXCEPT ![current["f"] + 1] = [@ EXCEPT !.group = current["g"] + 1]]
  /\ heap' = heap \cup {<<"name", current["g"] + 1>>}
  /\ phase' = IF current["g"] < counts["g"] /\ current["f"] < counts["f"]
              THEN phase ELSE "panic"

(* Lines of at most one character are skipped, others are counted.         *)
IgnoreLine ==
  /\ AtLine("store")
  /\ Line.cmd \notin Stored
  /\ ignored_line_count' = ignored_line_count + IF Line.cmd = "short" THEN 0 ELSE 1
  /\ current_line' = current_line + 1
  /\ UNCHANGED <<file, phase, counts, current, faces, capacity, triangles, groups,
                 position, used, heap, sized>>

(* is_smooth: a face is smooth when it has as many normals as vertices.    *)
Kind(face) ==
  IF Len(face.normals) = Len(face.indices) THEN "smooth" ELSE "flat"

Face == faces[position.face]
AtFace(loop) == phase = loop /\ position.face <= counts["f"]
FacesDone(loop) == phase = loop /\ position.face > counts["f"]

EndStore ==
  /\ AtEnd("store")
  /\ phase' = "size"
  /\ UNCHANGED <<file, current_line, counts, current, faces, parsed, position,
                 used, heap, sized>>

MutantNeeded(face) == Len(face.indices) - 3

(* How many triangles a face will need; negative for one vertex. *)
Needed(face) == Len(face.indices) - 2

(* The triangles of the next face are counted, by its kind. *)
CountTriangles ==
  /\ AtFace("size")
  /\ capacity' = [capacity EXCEPT ![Kind(Face)] = @ + Needed(Face)]
  /\ sized' = [sized EXCEPT ![position.face + 1] = capacity']
  /\ position' = [position EXCEPT !.face = @ + 1]
  /\ UNCHANGED <<file, phase, current_line, counts, current, faces,
                 ignored_line_count, triangles, groups, used, heap>>

(* The arrays of the triangles are made; a negative length panics.         *)
AllocateTriangles ==
  /\ FacesDone("size")
  /\ heap' = heap \cup {"triangles", "smooth_triangles"} \X {0}
  /\ position' = FirstFace
  /\ phase' = IF \E k \in Kinds : capacity[k] < 0 THEN "panic" ELSE "build"
  /\ UNCHANGED <<file, current_line, counts, current, faces, parsed, used, sized>>

InBounds(index, array) == index \in 1 .. counts[array]

(* What add_triangle needs to survive for the corners 1, n - 1 and n.      *)
Corners(n) == <<1, n - 1, n>>

CanAdd(face, n) ==
  /\ Len(face.indices) >= 3
  /\ \A c \in 1 .. 3 : InBounds(face.indices[Corners(n)[c]], "v")
  /\ Kind(face) = "smooth" =>
       \A c \in 1 .. 3 : InBounds(face.normals[Corners(n)[c]], "vn")
  /\ Len(triangles[Kind(face)]) < capacity[Kind(face)]

BuildPanics ==
  /\ AtFace("build")
  /\ ~CanAdd(Face, position.vertex)
  /\ phase' = "panic"
  /\ UNCHANGED <<file, current_line, counts, current, faces, parsed, position,
                 used, heap, sized>>

MutantNextTriangle(face, p) == [face |-> p.face + 1, vertex |-> 3]

(* A fan around the face's first vertex. *)
NextTriangle(face, p) ==
  IF p.vertex < Len(face.indices) THEN [p EXCEPT !.vertex = @ + 1]
                                  ELSE [face |-> p.face + 1, vertex |-> 3]

(* add_triangle: the triangle is stored in the next place of its array and *)
(* becomes a child of the face's group.                                    *)
BuildTriangle ==
  LET corner == Corners(position.vertex)
      kind == Kind(Face)
      tri == [p |-> [c \in 1 .. 3 |-> Face.indices[corner[c]]],
              n |-> IF kind = "smooth" THEN [c \in 1 .. 3 |-> Face.normals[corner[c]]]
                                       ELSE <<>>]
  IN
  /\ AtFace("build")
  /\ CanAdd(Face, position.vertex)
  /\ triangles' = [triangles EXCEPT ![kind] = Append(@, tri)]
  /\ groups' = [groups EXCEPT ![Face.group] =
                  Append(@, [kind |-> kind, place |-> Len(triangles[kind]) + 1])]
  /\ heap' = heap \cup {<<"shapes", Face.group>>}
  /\ position' = NextTriangle(Face, position)
  /\ UNCHANGED <<file, phase, current_line, counts, current, faces,
                 ignored_line_count, capacity, used, sized>>

Finish ==
  /\ FacesDone("build")
  /\ phase' = "done"
  /\ UNCHANGED <<file, current_line, counts, current, faces, parsed, position,
                 used, heap, sized>>

-----------------------------------------------------------------------------
(* What callers do with the parsed file.                                   *)

NonEmpty == {g \in DOMAIN groups : groups[g] # <<>>}
RootMemory == {"root", "root shapes"} \X {0}

(* The groups that have shapes, among the first n, in order. *)
Children[n \in Nat] ==
  IF n = 0 THEN <<>>
  ELSE IF groups[n - 1] # <<>> THEN Append(Children[n - 1], n - 1) ELSE Children[n - 1]

(* obj_to_group: the groups that have shapes become children of a new one, *)
(* and obj_apply_material reaches all their shapes, which are triangles.   *)
ObjToGroup ==
  /\ phase = "done"
  /\ root' = Children[counts["g"] + 1]
  /\ material' = UNION {{groups[g][j] : j \in DOMAIN groups[g]} : g \in NonEmpty}
  /\ heap' = heap \cup RootMemory
  /\ phase' = "used"
  /\ UNCHANGED <<file, current_line, counts, current, faces, parsed, position, sized>>

(* A second call: the assertion of group_add_child that the child has no   *)
(* parent yet fails, even after delete_group, which leaves the parents.    *)
ObjToGroupAgain ==
  /\ phase \in {"used", "detached"}
  /\ NonEmpty # {}
  /\ phase' = "panic"
  /\ UNCHANGED <<file, current_line, counts, current, faces, parsed, position,
                 used, heap, sized>>

(* delete_group and free of the group that obj_to_group returned. *)
DeleteRoot ==
  /\ phase = "used"
  /\ heap' = heap \ RootMemory
  /\ phase' = "detached"
  /\ UNCHANGED <<file, current_line, counts, current, faces, parsed, position,
                 used, sized>>

MutantArrays == {"vertices", "normals", "triangles", "groups", "group_names"} \X {0}

Arrays ==
  {"vertices", "normals", "triangles", "smooth_triangles", "groups", "group_names"} \X {0}

Owned == Arrays \cup {<<"shapes", g>> : g \in DOMAIN groups}
                \cup {<<"name", n>> : n \in 1 .. counts["g"]}

(* free_parsed_obj_file, also of what a failed parse has left; before it,  *)
(* callers give back the group whose children the file owns.               *)
FreeParsedObjFile ==
  /\ phase \in {"done", "failed", "detached"}
  /\ heap' = heap \ Owned
  /\ phase' = "freed"
  /\ UNCHANGED <<file, current_line, counts, current, faces, parsed, position,
                 used, sized>>

Terminated == phase \in {"freed", "panic"} /\ UNCHANGED vars

Next ==
  \/ CountLine \/ Allocate
  \/ FailLine \/ StoreTuple \/ StoreFace \/ StoreGroup \/ IgnoreLine \/ EndStore
  \/ CountTriangles \/ AllocateTriangles \/ BuildPanics \/ BuildTriangle \/ Finish
  \/ ObjToGroup \/ ObjToGroupAgain \/ DeleteRoot \/ FreeParsedObjFile
  \/ Terminated

Spec == Init /\ [][Next]_vars

-----------------------------------------------------------------------------
(* Properties.                                                             *)

TypeOK ==
  /\ file \in Files
  /\ phase \in Phases
  /\ current_line \in 1 .. Len(file) + 1
  /\ counts \in [Stored -> Nat]
  /\ current \in [Stored -> Nat]
  /\ faces \in Seq(FaceType)
  /\ ignored_line_count \in Nat
  /\ capacity \in [Kinds -> Int]
  /\ triangles \in [Kinds -> Seq(Triangle)]
  /\ phase # "count" => groups \in [0 .. counts["g"] -> Seq(Shape)]
  /\ position \in [face : Nat \ {0}, vertex : Nat \ {0}]

LinesOf(cmd) == {l \in DOMAIN file : file[l].cmd = cmd}

SoundFace(face) ==
  /\ Len(face.indices) >= 3
  /\ \A j \in DOMAIN face.indices : face.indices[j] \in 1 .. Cardinality(LinesOf("v"))
  /\ Len(face.normals) = Len(face.indices) =>
       \A j \in DOMAIN face.normals : face.normals[j] \in 1 .. Cardinality(LinesOf("vn"))

(* The program survives every file in which the faces are sound and a face *)
(* follows each group line, and it only gives up on numbers that do not    *)
(* parse: the two passes and the triangle count never disagree on what     *)
(* there is to store.  What else can stop it is a second obj_to_group.     *)
WellFormedFilesParse ==
  /\ phase = "panic" =>
       \/ \E l \in LinesOf("f") : ~SoundFace(file[l])
       \/ \E l \in LinesOf("g") : \A f \in LinesOf("f") : f < l
       \/ material # {}
  /\ phase = "failed" => \E l \in DOMAIN file : ~file[l].ok

(* Nothing of what the caller gets is left as it was allocated: every      *)
(* vertex, normal, group name and triangle has been stored.                *)
AllocationsAreFilled ==
  phase \in {"done", "used", "detached"} =>
    /\ current = counts
    /\ \A k \in Kinds : Len(triangles[k]) = capacity[k]

(* The group of the face on line l: that of the last group line before it, *)
(* if no other face comes between them, and else the default group.        *)
GroupOf(l) ==
  LET before == {g \in LinesOf("g") : g < l} IN
  IF \E g \in before : \A f \in LinesOf("f") : ~(g < f /\ f < l)
  THEN Cardinality(before) ELSE 0

Fan(face) == {<<face.indices[1], face.indices[n - 1], face.indices[n]>> :
                n \in 3 .. Len(face.indices)}

Holds(g, shape) == \E j \in DOMAIN groups[g] : groups[g][j] = shape
Made == UNION {{[kind |-> k, place |-> p] : p \in 1 .. Len(triangles[k])} : k \in Kinds}

(* Each group holds the fans of its own faces and nothing else, and every  *)
(* triangle is the child of exactly one group, once.                       *)
FacesBecomeFans ==
  phase \in {"done", "used"} =>
    /\ \A g \in DOMAIN groups :
         /\ {triangles[s.kind][s.place].p : s \in {m \in Made : Holds(g, m)}}
              = UNION {Fan(file[l]) : l \in {m \in LinesOf("f") : GroupOf(m) = g}}
         /\ Len(groups[g]) = Cardinality({m \in Made : Holds(g, m)})
    /\ \A s \in Made : Cardinality({g \in DOMAIN groups : Holds(g, s)}) = 1

(* The group that obj_to_group returns reaches every triangle of the file, *)
(* through one group, and all of them have the new material.               *)
MaterialReachesAll ==
  phase = "used" =>
    \A s \in Made :
      /\ s \in material
      /\ Cardinality({r \in DOMAIN root : Holds(root[r], s)}) = 1

(* When the file is released nothing that was allocated for it is left,    *)
(* however far the parse came before it failed, and whatever was made of   *)
(* the groups in between.                                                  *)
NothingLeaks == phase = "freed" => heap = {}
=============================================================================
