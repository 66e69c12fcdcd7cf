-------------------------- MODULE ObjParserProofs --------------------------
(***************************************************************************)
(* Proofs about ObjParser, for files of any number of lines and faces of   *)
(* any size: well-formed files parse, every allocation is filled, nothing  *)
(* leaks, faces become the fans of their groups and the material reaches   *)
(* them all.  That the two passes agree is an argument about the number of *)
(* lines of a command before the current one; that the triangles fit is    *)
(* one about how many the faces before the current one need, which the     *)
(* history variable sized remembers.  LInv, relative to these, says which  *)
(* triangles are made and in which group they are.                         *)
(***************************************************************************)
EXTENDS ObjParser, SetInduction, SequenceTheorems, FiniteSetTheorems, TLAPS

(* The lines of a command before line n. *)
Before(c, n) == {l \in LinesOf(c) : l < n}

(* The first pass counts the lines it has passed. *)
CountInv ==
  /\ phase = "count" =>
       /\ current = None
       /\ \A c \in Stored : counts[c] = Cardinality(Before(c, current_line))
  /\ phase # "count" => \A c \in Stored : counts[c] = Cardinality(LinesOf(c))

(* The second one has stored the lines it has passed. *)
StoreInv ==
  /\ phase = "store" =>
       \A c \in Stored : current[c] = Cardinality(Before(c, current_line))
  /\ phase \in {"size", "build", "done", "used", "detached"} => current = counts

IsLine(face, l) ==
  face.indices = file[l].indices /\ face.normals = file[l].normals

(* Each face that is stored is that of a line, and its group exists. *)
FaceInv ==
  phase \in {"store", "size", "build"} =>
    /\ faces \in [1 .. counts["f"] -> FaceType]
    /\ \A f \in 1 .. counts["f"] : faces[f].group \in 0 .. counts["g"]
    /\ \A f \in 1 .. counts["f"] :
         f <= current["f"] => \E l \in LinesOf("f") : IsLine(faces[f], l)

(* The number of faces, plus one, whose triangles are counted. *)
Counted == IF phase = "size" THEN position.face ELSE counts["f"] + 1

AllSound == \A l \in LinesOf("f") : SoundFace(file[l])

(* How the capacities grew.  For sound faces they never shrink. *)
SizeInv ==
  /\ phase \in {"count", "store"} => capacity = NoTriangles /\ position = FirstFace
  /\ phase \in {"count", "store", "size"} => triangles = [k \in Kinds |-> <<>>]
  /\ phase \in {"store", "size", "build"} =>
       /\ position.face <= counts["f"] + 1
       /\ sized \in [1 .. counts["f"] + 1 -> [Kinds -> Int]]
       /\ sized[1] = NoTriangles
  /\ phase \in {"size", "build"} =>
       /\ sized[Counted] = capacity
       /\ \A f \in 1 .. counts["f"] : \A k \in Kinds :
            f < Counted =>
              sized[f + 1][k] = sized[f][k]
                                + IF k = Kind(faces[f]) THEN Needed(faces[f]) ELSE 0
       /\ AllSound => \A f \in 1 .. counts["f"] + 1 : \A k \in Kinds :
            f <= Counted => sized[f][k] <= capacity[k]

(* The triangles of the current face that are stored. *)
Partial(k) ==
  IF position.face <= counts["f"] /\ k = Kind(Face) THEN position.vertex - 3 ELSE 0

(* What is stored is what was counted for the faces passed, and a part of  *)
(* the current one's.                                                      *)
BuildInv ==
  phase = "build" =>
    /\ position.vertex >= 3
    /\ position.face <= counts["f"] =>
         position.vertex = 3 \/ position.vertex <= Len(Face.indices)
    /\ \A k \in Kinds : Len(triangles[k]) = sized[position.face][k] + Partial(k)

(* What is allocated is what free_parsed_obj_file releases. *)
HeapInv ==
  /\ phase = "count" => heap = {}
  /\ phase \in {"store", "size", "build", "done", "failed", "detached"} =>
       heap \subseteq Owned
  /\ phase = "used" => heap \subseteq Owned \cup RootMemory
  /\ NothingLeaks

(* A group with shapes has shown them to obj_apply_material. *)
UsedInv == phase \in {"used", "detached"} /\ NonEmpty # {} => material # {}

OInv ==
  /\ TypeOK /\ CountInv /\ StoreInv /\ FaceInv /\ SizeInv /\ BuildInv /\ HeapInv
  /\ UsedInv /\ WellFormedFilesParse /\ AllocationsAreFilled

-----------------------------------------------------------------------------
(* Counting lines.                                                         *)

LEMMA LineTypes ==
  ASSUME TypeOK
  PROVE  /\ file \in Seq(Lines)
         /\ Len(file) \in Nat /\ DOMAIN file = 1 .. Len(file)
         /\ \A l \in 1 .. Len(file) :
              /\ file[l] \in Lines /\ file[l].cmd \in Commands
              /\ file[l].indices \in Seq(Nat) /\ file[l].normals \in Seq(Nat)
<1>1. file \in Seq(Lines)
  BY FilesAssumption DEF TypeOK
<1>2. \A l \in 1 .. Len(file) : file[l] \in Lines
  BY <1>1, ElementOfSeq
<1>. QED
  BY <1>1, <1>2, LenProperties DEF Lines

(* The lines of a command before a line are among all of them. *)
LEMMA BeforeFacts ==
  ASSUME TypeOK, NEW c, NEW n \in Nat
  PROVE  /\ IsFiniteSet(LinesOf(c)) /\ IsFiniteSet(Before(c, n))
         /\ Cardinality(LinesOf(c)) \in Nat /\ Cardinality(Before(c, n)) \in Nat
         /\ Cardinality(Before(c, n)) <= Cardinality(LinesOf(c))
         /\ Cardinality(Before(c, n)) = Cardinality(LinesOf(c)) =>
              Before(c, n) = LinesOf(c)
         /\ n > Len(file) => Before(c, n) = LinesOf(c)
         /\ Cardinality(Before(c, 1)) = 0
<1>1. IsFiniteSet(1 .. Len(file))
  BY LineTypes, FS_Interval
<1>2. LinesOf(c) \subseteq 1 .. Len(file) /\ Before(c, n) \subseteq LinesOf(c)
  BY LineTypes DEF LinesOf, Before
<1>3. IsFiniteSet(LinesOf(c))
  BY <1>1, <1>2, FS_Subset
<1>4. /\ IsFiniteSet(Before(c, n))
      /\ Cardinality(Before(c, n)) <= Cardinality(LinesOf(c))
      /\ Cardinality(Before(c, n)) = Cardinality(LinesOf(c)) =>
           Before(c, n) = LinesOf(c)
  BY <1>2, <1>3, FS_Subset
<1>5. n > Len(file) => Before(c, n) = LinesOf(c)
  BY <1>2, LineTypes DEF Before
<1>6. Before(c, 1) = {}
  BY LineTypes DEF Before, LinesOf
<1>. QED
  BY <1>3, <1>4, <1>5, <1>6, FS_CardinalityType, FS_EmptySet

(* Passing a line adds it to those of its command. *)
LEMMA PassLine ==
  ASSUME TypeOK, NEW c, current_line <= Len(file)
  PROVE  /\ Line \in Lines /\ Line = file[current_line]
         /\ current_line \in Nat /\ current_line \in LinesOf(Line.cmd)
         /\ Cardinality(Before(c, current_line + 1))
              = Cardinality(Before(c, current_line)) + IF Line.cmd = c THEN 1 ELSE 0
         /\ Line.cmd = c => Cardinality(Before(c, current_line)) < Cardinality(LinesOf(c))
<1>1. current_line \in 1 .. Len(file) /\ current_line \in Nat /\ current_line + 1 \in Nat
  BY LineTypes DEF TypeOK
<1>2. Line \in Lines /\ Line = file[current_line] /\ current_line \in LinesOf(Line.cmd)
  BY <1>1, LineTypes DEF Line, LinesOf
<1>3. current_line \notin Before(c, current_line)
  BY <1>1 DEF Before
<1>4. CASE Line.cmd = c
  <2>1. Before(c, current_line + 1) = Before(c, current_line) \cup {current_line}
    BY <1>1, <1>2, <1>4, LineTypes DEF Before, LinesOf
  <2>2. Cardinality(Before(c, current_line + 1)) = Cardinality(Before(c, current_line)) + 1
    BY <1>1, <1>3, <2>1, BeforeFacts, FS_AddElement
  <2>3. Cardinality(Before(c, current_line)) # Cardinality(LinesOf(c))
    BY <1>1, <1>2, <1>3, <1>4, BeforeFacts
  <2>. QED
    BY <1>1, <1>2, <1>4, <2>2, <2>3, BeforeFacts
<1>5. CASE Line.cmd # c
  <2>1. Before(c, current_line + 1) = Before(c, current_line)
    BY <1>1, <1>2, <1>5, LineTypes DEF Before, LinesOf, Line
  <2>. QED
    BY <1>1, <1>2, <1>5, <2>1, BeforeFacts
<1>. QED
  BY <1>4, <1>5

-----------------------------------------------------------------------------
(* The steps.                                                              *)

LEMMA InitInv == Init => OInv
<1>. SUFFICES ASSUME Init PROVE OInv
  OBVIOUS
<1>1. file \in Seq(Lines)
  BY FilesAssumption DEF Init
<1>2. Len(file) \in Nat
  BY <1>1, LenProperties
<1>3. None \in [Stored -> Nat] /\ NoTriangles \in [Kinds -> Int]
  BY DEF None, NoTriangles
<1>4. \A k \in Kinds : triangles[k] = <<>> /\ triangles \in [Kinds -> Seq(Triangle)]
  BY DEF Init
<1>5. TypeOK
  BY <1>2, <1>3, <1>4 DEF Init, TypeOK, Phases, FirstFace
<1>6. CountInv
  BY <1>5, BeforeFacts DEF Init, CountInv, None
<1>. QED
  BY <1>5, <1>6 DEF Init, OInv, StoreInv, FaceInv, SizeInv, BuildInv, HeapInv, UsedInv,
     NothingLeaks, WellFormedFilesParse, AllocationsAreFilled

LEMMA CountLineInv == OInv /\ CountLine => OInv'
<1>. SUFFICES ASSUME OInv, CountLine PROVE OInv'
  OBVIOUS
<1>. USE DEF OInv
<1>1. /\ phase = "count" /\ phase' = "count" /\ file' = file
      /\ current_line <= Len(file) /\ current_line' = current_line + 1
      /\ UNCHANGED <<current, faces, ignored_line_count, capacity, triangles, groups,
                     position, root, material, heap, sized>>
  BY DEF CountLine, AtLine, parsed, used
<1>2. current_line \in Nat
  BY LineTypes DEF TypeOK
<1>3. counts' \in [Stored -> Nat]
  BY DEF CountLine, TypeOK
<1>4. TypeOK'
  BY <1>1, <1>3, LineTypes DEF TypeOK
<1>5. \A c \in Stored : counts'[c] = Cardinality(Before(c, current_line + 1))
  BY <1>1, PassLine DEF CountLine, CountInv
<1>6. CountInv'
  BY <1>1, <1>5 DEF CountInv, Before, LinesOf, None
<1>. QED
  BY <1>1, <1>4, <1>6 DEF StoreInv, FaceInv, SizeInv, BuildInv, HeapInv, UsedInv,
     NothingLeaks, WellFormedFilesParse, AllocationsAreFilled, NoTriangles, FirstFace

LEMMA AllocateInv == OInv /\ Allocate => OInv'
<1>. SUFFICES ASSUME OInv, Allocate PROVE OInv'
  OBVIOUS
<1>. USE DEF OInv
<1>1. /\ phase = "count" /\ phase' = "store" /\ file' = file
      /\ current_line > Len(file) /\ current_line' = 1
      /\ UNCHANGED <<counts, current, ignored_line_count, capacity, triangles,
                     position, root, material>>
  BY DEF Allocate, AtEnd, used
<1>2. current_line \in Nat /\ Len(file) \in Nat /\ counts \in [Stored -> Nat]
      /\ counts["f"] \in Nat /\ counts["g"] \in Nat
  BY LineTypes DEF TypeOK, Stored
<1>3. \A c \in Stored : counts[c] = Cardinality(LinesOf(c))
  BY <1>1, <1>2, BeforeFacts DEF CountInv
<1>4. \A c \in Stored : current[c] = Cardinality(Before(c, 1))
  BY <1>1, <1>2, BeforeFacts DEF CountInv, None
<1>5. faces' \in [1 .. counts["f"] -> FaceType]
      /\ \A f \in 1 .. counts["f"] : faces'[f].group = 0
  BY <1>2 DEF Allocate, FaceType
<1>6. faces' \in Seq(FaceType)
  BY <1>2, <1>5
<1>7. groups' \in [0 .. counts["g"] -> Seq(Shape)]
  BY <1>2 DEF Allocate
<1>8. TypeOK'
  BY <1>1, <1>2, <1>6, <1>7 DEF TypeOK, Phases
<1>9. current["f"] = 0
  BY <1>1 DEF CountInv, None, Stored
<1>10. CountInv' /\ StoreInv'
  BY <1>1, <1>3, <1>4 DEF CountInv, StoreInv, Before, LinesOf
<1>11. FaceInv'
  BY <1>1, <1>2, <1>5, <1>9 DEF FaceInv
<1>12. SizeInv'
  BY <1>1, <1>2 DEF Allocate, SizeInv, NoTriangles, FirstFace, Kinds
<1>13. heap' \subseteq Owned'
  BY DEF Allocate, Owned, Arrays
<1>. QED
  BY <1>1, <1>8, <1>10, <1>11, <1>12, <1>13 DEF BuildInv, HeapInv, UsedInv,
     NothingLeaks, WellFormedFilesParse, AllocationsAreFilled

(* A line of a command that is stored: there is a place left for it. *)
LEMMA StoreOneFacts ==
  ASSUME OInv, NEW c \in Stored, StoreOne(c)
  PROVE  /\ phase = "store" /\ Line = file[current_line] /\ Line \in Lines
         /\ current_line \in LinesOf(c)
         /\ UNCHANGED <<file, counts, ignored_line_count, capacity, triangles, groups,
                        position, root, material, sized>>
         /\ current_line' = current_line + 1 /\ current_line' \in 1 .. Len(file) + 1
         /\ counts \in [Stored -> Nat]
         /\ current \in [Stored -> Nat] /\ current' \in [Stored -> Nat]
         /\ current' = [current EXCEPT ![c] = @ + 1]
         /\ current[c] < counts[c]
         /\ phase' # "count" => CountInv'
         /\ phase' = "store" => StoreInv'
         /\ \A d \in Stored : current[d] = Cardinality(Before(d, current_line))
<1>. USE DEF OInv
<1>1. /\ phase = "store" /\ current_line <= Len(file) /\ Line.cmd = c
      /\ UNCHANGED <<file, counts, ignored_line_count, capacity, triangles, groups,
                     position, root, material, sized>>
      /\ current_line' = current_line + 1
      /\ current' = [current EXCEPT ![c] = @ + 1]
  BY DEF StoreOne, AtLine, parsed, used
<1>2. current_line \in Nat /\ current_line' \in 1 .. Len(file) + 1
  BY <1>1, LineTypes DEF TypeOK
<1>3. counts \in [Stored -> Nat] /\ current \in [Stored -> Nat]
  BY DEF TypeOK
<1>4. current' \in [Stored -> Nat]
  BY <1>1, <1>3
<1>5. \A d \in Stored : current[d] = Cardinality(Before(d, current_line))
  BY <1>1 DEF StoreInv
<1>6. \A d \in Stored : current'[d] = Cardinality(Before(d, current_line + 1))
  <2>. TAKE d \in Stored
  <2>1. Cardinality(Before(d, current_line + 1))
          = Cardinality(Before(d, current_line)) + IF c = d THEN 1 ELSE 0
    BY <1>1, PassLine
  <2>2. current'[d] = current[d] + IF c = d THEN 1 ELSE 0
    BY <1>1, <1>3
  <2>. QED
    BY <1>5, <2>1, <2>2
<1>7. current[c] < counts[c]
  <2>1. Cardinality(Before(c, current_line)) < Cardinality(LinesOf(c))
    BY <1>1, PassLine
  <2>. QED
    BY <1>1, <1>5, <2>1 DEF CountInv
<1>8. phase' = "store" => StoreInv'
  BY <1>1, <1>6 DEF StoreInv, Before, LinesOf
<1>9. phase' # "count" => CountInv'
  BY <1>1 DEF CountInv, LinesOf
<1>. QED
  BY <1>1, <1>2, <1>3, <1>4, <1>5, <1>7, <1>8, <1>9, PassLine

LEMMA StoreTupleInv == OInv /\ StoreTuple => OInv'
<1>. SUFFICES ASSUME OInv, NEW c \in {"v", "vn"}, StoreOne(c), StoreTuple PROVE OInv'
  BY DEF StoreTuple
<1>. USE DEF OInv
<1>1. c \in Stored /\ Line.cmd = c
  BY DEF Stored, StoreOne
<1>2. phase = "store" /\ phase' = "store" /\ UNCHANGED <<faces, heap>>
  BY <1>1, StoreOneFacts DEF StoreTuple
<1>3. TypeOK'
  BY <1>1, <1>2, StoreOneFacts DEF TypeOK
<1>4. CountInv' /\ StoreInv'
  BY <1>1, <1>2, StoreOneFacts
<1>5. current'["f"] = current["f"]
  <2>1. "f" \in Stored /\ c # "f"
    BY DEF Stored
  <2>. QED
    BY <1>1, <2>1, StoreOneFacts
<1>6. FaceInv'
  <2>1. UNCHANGED <<file, counts>>
    BY <1>1, StoreOneFacts
  <2>. QED
    BY <1>2, <1>5, <2>1 DEF FaceInv, LinesOf, IsLine
<1>. QED
  BY <1>1, <1>2, <1>3, <1>4, <1>6, StoreOneFacts DEF SizeInv, BuildInv, HeapInv, UsedInv,
     NothingLeaks, WellFormedFilesParse, AllocationsAreFilled, Owned, Arrays

LEMMA StoreFaceInv == OInv /\ StoreFace => OInv'
<1>. SUFFICES ASSUME OInv, StoreOne("f"), StoreFace PROVE OInv'
  BY DEF StoreFace
<1>. USE DEF OInv
<1>. DEFINE n == current["f"] + 1
            face == [faces[n] EXCEPT !.indices = Line.indices, !.normals = Line.normals]
<1>1. "f" \in Stored
  BY DEF Stored
<1>2. current["f"] < counts["f"] /\ counts["f"] \in Nat /\ current["f"] \in Nat
  BY <1>1, StoreOneFacts
<1>3. phase = "store" /\ phase' = "store" /\ heap' = heap
      /\ faces' = [faces EXCEPT ![n] = face]
  BY <1>1, <1>2, StoreOneFacts DEF StoreFace
<1>4. faces \in [1 .. counts["f"] -> FaceType] /\ n \in 1 .. counts["f"]
  BY <1>2, <1>3 DEF FaceInv
<1>5. Line.indices \in Seq(Nat) /\ Line.normals \in Seq(Nat)
  BY <1>1, StoreOneFacts DEF Lines
<1>6. /\ face \in FaceType /\ face.group = faces[n].group
      /\ face.indices = Line.indices /\ face.normals = Line.normals
  BY <1>4, <1>5 DEF FaceType
<1>. HIDE DEF face
<1>7. /\ faces' \in [1 .. counts["f"] -> FaceType] /\ faces'[n] = face
      /\ \A f \in 1 .. counts["f"] : f # n => faces'[f] = faces[f]
  BY <1>3, <1>4, <1>6
<1>8. faces' \in Seq(FaceType)
  BY <1>2, <1>7
<1>9. TypeOK'
  BY <1>1, <1>3, <1>8, StoreOneFacts DEF TypeOK
<1>10. CountInv' /\ StoreInv'
  BY <1>1, <1>3, StoreOneFacts
<1>11. current'["f"] = n
  BY <1>1, StoreOneFacts
<1>12. \A f \in 1 .. counts["f"] : faces'[f].group \in 0 .. counts["g"]
  BY <1>3, <1>4, <1>6, <1>7 DEF FaceInv
<1>13. ASSUME NEW f \in 1 .. counts["f"], f <= n
       PROVE  \E l \in LinesOf("f") : IsLine(faces'[f], l)
  <2>1. CASE f = n
    BY <1>1, <1>6, <1>7, <2>1, StoreOneFacts DEF IsLine
  <2>2. CASE f # n
    BY <1>2, <1>3, <1>7, <1>13, <2>2 DEF FaceInv
  <2>. QED
    BY <2>1, <2>2
<1>14. FaceInv'
  <2>1. UNCHANGED <<file, counts>>
    BY <1>1, StoreOneFacts
  <2>. HIDE DEF n
  <2>. QED
    BY <1>7, <1>11, <1>12, <1>13, <2>1 DEF FaceInv, LinesOf, IsLine
<1>. QED
  BY <1>1, <1>3, <1>9, <1>10, <1>14, StoreOneFacts DEF SizeInv, BuildInv, HeapInv, UsedInv,
     NothingLeaks, WellFormedFilesParse, AllocationsAreFilled, Owned, Arrays

LEMMA StoreGroupInv == OInv /\ StoreGroup => OInv'
<1>. SUFFICES ASSUME OInv, StoreOne("g"), StoreGroup PROVE OInv'
  BY DEF StoreGroup
<1>. USE DEF OInv
<1>. DEFINE n == current["f"] + 1
            g == current["g"] + 1
            face == [faces[n] EXCEPT !.group = g]
<1>1. "f" \in Stored /\ "g" \in Stored
  BY DEF Stored
<1>2. /\ current["g"] < counts["g"] /\ counts["g"] \in Nat /\ current["g"] \in Nat
      /\ counts["f"] \in Nat /\ current["f"] \in Nat
  BY <1>1, StoreOneFacts
<1>3. /\ phase = "store"
      /\ phase' = IF current["f"] < counts["f"] THEN "store" ELSE "panic"
      /\ heap' = heap \cup {<<"name", g>>}
      /\ faces' = [faces EXCEPT ![n] = face]
  BY <1>1, <1>2, StoreOneFacts DEF StoreGroup
<1>4. faces \in [1 .. counts["f"] -> FaceType]
  BY <1>3 DEF FaceInv
<1>5. n \in 1 .. counts["f"] =>
        face \in FaceType /\ face.group = g
        /\ face.indices = faces[n].indices /\ face.normals = faces[n].normals
  <2>1. g \in Nat
    BY <1>2
  <2>2. ASSUME n \in 1 .. counts["f"] PROVE faces[n] \in FaceType
    BY <1>4, <2>2
  <2>. HIDE DEF n, g
  <2>. QED
    BY <2>1, <2>2 DEF FaceType
<1>. HIDE DEF face
<1>6. /\ faces' \in [1 .. counts["f"] -> FaceType]
      /\ n \in 1 .. counts["f"] => faces'[n] = face
      /\ \A f \in 1 .. counts["f"] : f # n => faces'[f] = faces[f]
  BY <1>3, <1>4, <1>5
<1>7. faces' \in Seq(FaceType)
  BY <1>2, <1>6
<1>8. TypeOK'
  BY <1>1, <1>3, <1>7, StoreOneFacts DEF TypeOK, Phases
<1>9. CountInv' /\ (phase' = "store" => StoreInv')
  BY <1>1, <1>3, StoreOneFacts
<1>10. current'["f"] = current["f"]
  BY <1>1, StoreOneFacts
<1>11. \A f \in 1 .. counts["f"] : faces'[f].group \in 0 .. counts["g"]
  BY <1>2, <1>3, <1>5, <1>6 DEF FaceInv
<1>12. \A f \in 1 .. counts["f"] :
         f <= current["f"] => \E l \in LinesOf("f") : IsLine(faces'[f], l)
  BY <1>2, <1>3, <1>6 DEF FaceInv
<1>13. FaceInv'
  <2>1. UNCHANGED <<file, counts>>
    BY <1>1, StoreOneFacts
  <2>. QED
    BY <1>6, <1>10, <1>11, <1>12, <2>1 DEF FaceInv, LinesOf, IsLine
<1>14. HeapInv'
  <2>1. <<"name", g>> \in {<<"name", k>> : k \in 1 .. counts["g"]}
    BY <1>2
  <2>2. heap' \subseteq Owned
    BY <1>3, <2>1 DEF HeapInv, Owned
  <2>3. Owned' = Owned
    BY <1>1, StoreOneFacts DEF Owned, Arrays
  <2>. QED
    BY <1>3, <2>2, <2>3 DEF HeapInv, NothingLeaks
<1>15. WellFormedFilesParse'
  <2>1. CASE current["f"] < counts["f"]
    BY <1>3, <2>1 DEF WellFormedFilesParse
  <2>2. CASE ~(current["f"] < counts["f"])
    <3>1. current["f"] = Cardinality(Before("f", current_line)) /\ current_line \in Nat
      <4>1. current["f"] = Cardinality(Before("f", current_line))
        BY <1>3 DEF StoreInv, Stored
      <4>2. current_line \in Nat
        BY LineTypes DEF TypeOK
      <4>. QED
        BY <4>1, <4>2
    <3>2. Cardinality(Before("f", current_line)) >= Cardinality(LinesOf("f"))
      BY <1>1, <1>2, <1>3, <2>2, <3>1 DEF CountInv
    <3>3. Before("f", current_line) = LinesOf("f")
      BY <1>2, <3>1, <3>2, BeforeFacts
    <3>4. current_line \in LinesOf("g") /\ \A f \in LinesOf("f") : f < current_line
      BY <1>1, <3>3, StoreOneFacts DEF Before
    <3>. QED
      BY <1>1, <1>3, <2>2, <3>4, StoreOneFacts DEF WellFormedFilesParse, LinesOf
  <2>. QED
    BY <2>1, <2>2
<1>. QED
  BY <1>1, <1>3, <1>8, <1>9, <1>13, <1>14, <1>15, StoreOneFacts
     DEF StoreInv, SizeInv, BuildInv, UsedInv, AllocationsAreFilled

(* The other lines of the second pass, and its ends. *)
LEMMA OtherLineInv == OInv /\ (FailLine \/ IgnoreLine \/ EndStore) => OInv'
<1>. USE DEF OInv
<1>1. ASSUME OInv, FailLine PROVE OInv'
  <2>1. /\ phase = "store" /\ phase' = "failed"
        /\ UNCHANGED <<file, current_line, counts, current, faces, ignored_line_count,
                       capacity, triangles, groups, position, root, material, heap, sized>>
    BY <1>1 DEF FailLine, AtLine, parsed, used
  <2>2. \E l \in DOMAIN file : ~file[l].ok
    BY <1>1, LineTypes DEF FailLine, AtLine, Line, TypeOK
  <2>3. TypeOK'
    BY <1>1, <2>1 DEF TypeOK, Phases
  <2>4. CountInv'
    BY <1>1, <2>1 DEF CountInv, LinesOf
  <2>. QED
    BY <1>1, <2>1, <2>2, <2>3, <2>4 DEF StoreInv, FaceInv, SizeInv, BuildInv, HeapInv, UsedInv,
       NothingLeaks, WellFormedFilesParse, AllocationsAreFilled, Owned, Arrays
<1>2. ASSUME OInv, IgnoreLine PROVE OInv'
  <2>1. /\ phase = "store" /\ phase' = "store" /\ current_line <= Len(file)
        /\ current_line' = current_line + 1 /\ ignored_line_count' \in Nat
        /\ Line.cmd \notin Stored
        /\ UNCHANGED <<file, counts, current, faces,
                       capacity, triangles, groups, position, root, material, heap, sized>>
    BY <1>2 DEF IgnoreLine, AtLine, used, TypeOK
  <2>2. current_line \in Nat
    BY <1>2, LineTypes DEF TypeOK
  <2>3. TypeOK'
    BY <1>2, <2>1, LineTypes DEF TypeOK
  <2>4. \A c \in Stored : current[c] = Cardinality(Before(c, current_line + 1))
    BY <1>2, <2>1, <2>2, PassLine, BeforeFacts DEF StoreInv
  <2>5. CountInv' /\ StoreInv'
    BY <1>2, <2>1, <2>4 DEF CountInv, StoreInv, LinesOf, Before
  <2>6. FaceInv'
    BY <1>2, <2>1 DEF FaceInv, LinesOf, IsLine
  <2>. QED
    BY <1>2, <2>1, <2>3, <2>5, <2>6 DEF SizeInv, BuildInv, HeapInv, UsedInv,
       NothingLeaks, WellFormedFilesParse, AllocationsAreFilled, Owned, Arrays
<1>3. ASSUME OInv, EndStore PROVE OInv'
  <2>1. /\ phase = "store" /\ phase' = "size" /\ current_line > Len(file)
        /\ UNCHANGED <<file, current_line, counts, current, faces, ignored_line_count,
                       capacity, triangles, groups, position, root, material, heap, sized>>
    BY <1>3 DEF EndStore, AtEnd, parsed, used
  <2>2. current_line \in Nat /\ counts \in [Stored -> Nat] /\ current \in [Stored -> Nat]
    BY <1>3, LineTypes DEF TypeOK
  <2>3. TypeOK'
    BY <1>3, <2>1 DEF TypeOK, Phases
  <2>4. \A c \in Stored : current[c] = counts[c]
    BY <1>3, <2>1, <2>2, BeforeFacts DEF CountInv, StoreInv
  <2>5. current = counts
    BY <2>2, <2>4
  <2>6. CountInv' /\ StoreInv'
    BY <1>3, <2>1, <2>5 DEF CountInv, StoreInv, LinesOf
  <2>7. FaceInv'
    BY <1>3, <2>1 DEF FaceInv, LinesOf, IsLine
  <2>8. SizeInv'
    <3>1. counts["f"] \in Nat
      BY <2>2 DEF Stored
    <3>2. /\ sized[1] = NoTriangles /\ capacity = NoTriangles /\ position.face = 1
          /\ sized \in [1 .. counts["f"] + 1 -> [Kinds -> Int]]
      BY <1>3, <2>1 DEF SizeInv, FirstFace
    <3>3. \A f \in 1 .. counts["f"] + 1 : f <= 1 => f = 1
      BY <3>1
    <3>4. \A k \in Kinds : NoTriangles[k] <= NoTriangles[k]
      BY DEF NoTriangles
    <3>5. \A f \in 1 .. counts["f"] : ~(f < 1)
      BY <3>1
    <3>6. Counted' = 1
      BY <2>1, <3>2 DEF Counted
    <3>7. \A f \in 1 .. counts["f"] + 1 : \A k \in Kinds : f <= 1 => sized[f][k] <= capacity[k]
      BY <3>2, <3>3, <3>4
    <3>. QED
      BY <1>3, <2>1, <3>1, <3>2, <3>5, <3>6, <3>7 DEF SizeInv
  <2>. QED
    BY <1>3, <2>1, <2>3, <2>6, <2>7, <2>8 DEF BuildInv, HeapInv, UsedInv,
       NothingLeaks, WellFormedFilesParse, AllocationsAreFilled, Owned, Arrays
<1>. QED
  BY <1>1, <1>2, <1>3

(* The face of the loops over the faces, and what soundness says of it. *)
LEMMA FaceFacts ==
  ASSUME OInv, NEW loop \in {"size", "build"}, AtFace(loop)
  PROVE  /\ phase = loop /\ counts["f"] \in Nat /\ position.face \in 1 .. counts["f"]
         /\ Face = faces[position.face] /\ Face \in FaceType /\ Face.group \in 0 .. counts["g"]
         /\ Len(Face.indices) \in Nat /\ Needed(Face) = Len(Face.indices) - 2
         /\ Kind(Face) \in Kinds
         /\ \E l \in LinesOf("f") : IsLine(Face, l)
         /\ AllSound => SoundFace(Face)
<1>. USE DEF OInv
<1>1. phase = loop /\ position.face <= counts["f"] /\ counts["f"] \in Nat
      /\ position.face \in Nat \ {0}
  BY DEF AtFace, TypeOK, Stored
<1>2. position.face \in 1 .. counts["f"]
  BY <1>1
<1>3. Face = faces[position.face] /\ Face \in FaceType /\ Face.group \in 0 .. counts["g"]
  BY <1>1, <1>2 DEF FaceInv, Face
<1>4. Len(Face.indices) \in Nat
  BY <1>3, LenProperties DEF FaceType
<1>5. current = counts
  BY <1>1 DEF StoreInv
<1>6. PICK l \in LinesOf("f") : IsLine(Face, l)
  BY <1>1, <1>2, <1>3, <1>5 DEF FaceInv
<1>7. AllSound => SoundFace(Face)
  BY <1>6 DEF AllSound, SoundFace, IsLine
<1>. QED
  BY <1>1, <1>2, <1>3, <1>4, <1>6, <1>7 DEF Needed, Kind, Kinds

LEMMA CountTrianglesInv == OInv /\ CountTriangles => OInv'
<1>. SUFFICES ASSUME OInv, CountTriangles PROVE OInv'
  OBVIOUS
<1>. USE DEF OInv
<1>. DEFINE i == position.face
            k0 == Kind(Face)
<1>1. AtFace("size") /\ phase = "size" /\ i \in 1 .. counts["f"] /\ counts["f"] \in Nat
  BY FaceFacts DEF CountTriangles
<1>2. /\ phase' = "size"
      /\ UNCHANGED <<file, current_line, counts, current, faces, ignored_line_count,
                     triangles, groups, root, material, heap>>
      /\ capacity' = [capacity EXCEPT ![k0] = @ + Needed(Face)]
      /\ sized' = [sized EXCEPT ![i + 1] = capacity']
      /\ position' = [position EXCEPT !.face = @ + 1]
  BY <1>1 DEF CountTriangles, used
<1>3. capacity \in [Kinds -> Int] /\ position \in [face : Nat \ {0}, vertex : Nat \ {0}]
  BY DEF TypeOK
<1>4. k0 \in Kinds /\ Needed(Face) \in Int /\ Face = faces[i]
  BY <1>1, FaceFacts
<1>5. /\ capacity' \in [Kinds -> Int]
      /\ \A k \in Kinds : capacity'[k] = capacity[k] + IF k = k0 THEN Needed(Face) ELSE 0
  BY <1>2, <1>3, <1>4
<1>6. position' \in [face : Nat \ {0}, vertex : Nat \ {0}] /\ position'.face = i + 1
  BY <1>2, <1>3
<1>7. TypeOK'
  BY <1>1, <1>2, <1>5, <1>6 DEF TypeOK
<1>8. CountInv' /\ StoreInv'
  BY <1>1, <1>2 DEF CountInv, StoreInv, LinesOf
<1>9. FaceInv'
  BY <1>1, <1>2 DEF FaceInv, LinesOf, IsLine
<1>10. /\ sized \in [1 .. counts["f"] + 1 -> [Kinds -> Int]]
       /\ sized[1] = NoTriangles /\ sized[i] = capacity
       /\ Counted = i /\ Counted' = i + 1
  BY <1>1, <1>2, <1>6 DEF SizeInv, Counted
<1>11. /\ sized' \in [1 .. counts["f"] + 1 -> [Kinds -> Int]]
       /\ sized'[i + 1] = capacity'
       /\ \A f \in 1 .. counts["f"] + 1 : f <= i => sized'[f] = sized[f]
  BY <1>1, <1>2, <1>5, <1>10
<1>12. ASSUME NEW f \in 1 .. counts["f"], NEW k \in Kinds, f < i + 1
       PROVE  sized'[f + 1][k] = sized'[f][k] + IF k = Kind(faces[f]) THEN Needed(faces[f]) ELSE 0
  <2>. HIDE DEF i, k0
  <2>1. CASE f = i
    <3>1. sized'[f] = capacity /\ sized'[f + 1] = capacity'
      BY <1>1, <1>10, <1>11, <2>1
    <3>2. capacity'[k] = capacity[k] + IF k = k0 THEN Needed(Face) ELSE 0
      BY <1>5
    <3>. QED
      BY <1>4, <2>1, <3>1, <3>2 DEF k0
  <2>2. CASE f # i
    <3>1. f < i /\ f + 1 <= i /\ f + 1 \in 1 .. counts["f"] + 1 /\ f \in 1 .. counts["f"] + 1
      BY <1>1, <1>12, <2>2
    <3>2. sized'[f + 1] = sized[f + 1] /\ sized'[f] = sized[f]
      <4>1. f <= i
        BY <1>1, <2>2, <1>12
      <4>. QED
        BY <1>11, <3>1, <4>1
    <3>3. sized[f + 1][k] = sized[f][k] + IF k = Kind(faces[f]) THEN Needed(faces[f]) ELSE 0
      BY <1>1, <1>10, <3>1 DEF SizeInv
    <3>. QED
      BY <3>2, <3>3
  <2>. QED
    BY <2>1, <2>2
<1>13. ASSUME AllSound, NEW f \in 1 .. counts["f"] + 1, NEW k \in Kinds, f <= i + 1
       PROVE  sized'[f][k] <= capacity'[k]
  <2>1. Needed(Face) >= 1
    BY <1>1, <1>13, FaceFacts DEF SoundFace
  <2>2. capacity[k] <= capacity'[k] /\ capacity[k] \in Int /\ capacity'[k] \in Int
    BY <1>3, <1>4, <1>5, <2>1
  <2>3. CASE f = i + 1
    BY <1>11, <2>2, <2>3
  <2>4. CASE f # i + 1
    <3>1. f <= i
      BY <1>1, <1>13, <2>4
    <3>2. sized'[f] = sized[f] /\ sized[f][k] <= capacity[k] /\ sized[f][k] \in Int
      BY <1>1, <1>10, <1>11, <1>13, <3>1 DEF SizeInv
    <3>. QED
      BY <2>2, <3>2
  <2>. QED
    BY <2>3, <2>4
<1>14. SizeInv'
  <2>1. sized'[1] = NoTriangles
    BY <1>1, <1>10, <1>11
  <2>2. position'.face <= counts["f"] + 1
    BY <1>1, <1>6
  <2>3. AllSound' = AllSound
    BY <1>2 DEF AllSound, LinesOf, SoundFace
  <2>4. triangles = [k \in Kinds |-> <<>>]
    BY <1>1 DEF SizeInv
  <2>. HIDE DEF i, k0
  <2>. QED
    BY <1>2, <1>10, <1>11, <1>12, <1>13, <2>1, <2>2, <2>3, <2>4 DEF SizeInv, Kind, Needed
<1>. QED
  BY <1>1, <1>2, <1>7, <1>8, <1>9, <1>14 DEF BuildInv, HeapInv, UsedInv,
     NothingLeaks, WellFormedFilesParse, AllocationsAreFilled, Owned, Arrays

LEMMA AllocateTrianglesInv == OInv /\ AllocateTriangles => OInv'
<1>. SUFFICES ASSUME OInv, AllocateTriangles PROVE OInv'
  OBVIOUS
<1>. USE DEF OInv
<1>1. /\ phase = "size" /\ position.face > counts["f"]
      /\ phase' = (IF \E k \in Kinds : capacity[k] < 0 THEN "panic" ELSE "build")
      /\ UNCHANGED <<file, current_line, counts, current, faces, ignored_line_count,
                     capacity, triangles, groups, root, material, sized>>
      /\ heap' = heap \cup {"triangles", "smooth_triangles"} \X {0}
      /\ position' = FirstFace
  BY DEF AllocateTriangles, FacesDone, parsed, used
<1>2. counts["f"] \in Nat /\ position.face \in Nat /\ capacity \in [Kinds -> Int]
  BY DEF TypeOK, Stored
<1>3. position.face = counts["f"] + 1 /\ Counted = counts["f"] + 1
  BY <1>1, <1>2 DEF SizeInv, Counted
<1>4. position' \in [face : Nat \ {0}, vertex : Nat \ {0}] /\ position'.face = 1
      /\ position'.vertex = 3
  BY <1>1 DEF FirstFace
<1>5. TypeOK'
  BY <1>1, <1>4 DEF TypeOK, Phases
<1>6. CountInv' /\ StoreInv'
  BY <1>1 DEF CountInv, StoreInv, LinesOf
<1>7. FaceInv'
  BY <1>1 DEF FaceInv, LinesOf, IsLine
<1>8. AllSound' = AllSound
  BY <1>1 DEF AllSound, LinesOf, SoundFace
<1>9. SizeInv'
  <2>1. position'.face <= counts["f"] + 1
    BY <1>2, <1>4
  <2>2. phase' = "build" => Counted' = counts["f"] + 1
    BY <1>1 DEF Counted
  <2>3. phase' \notin {"count", "store", "size"}
    BY <1>1
  <2>. QED
    BY <1>1, <1>3, <1>8, <2>1, <2>2, <2>3 DEF SizeInv, Kind, Needed
<1>10. BuildInv'
  <2>1. sized[1] = NoTriangles /\ triangles = [k \in Kinds |-> <<>>]
    BY <1>1 DEF SizeInv
  <2>2. \A k \in Kinds : Len(triangles[k]) = 0 /\ sized[1][k] = 0
    BY <2>1 DEF NoTriangles
  <2>3. \A k \in Kinds : Partial(k)' = 0
    BY <1>4 DEF Partial
  <2>. QED
    BY <1>1, <1>4, <2>2, <2>3 DEF BuildInv
<1>11. HeapInv'
  <2>1. heap \subseteq Owned
    BY <1>1 DEF HeapInv
  <2>2. {"triangles", "smooth_triangles"} \X {0} \subseteq Arrays
    BY DEF Arrays
  <2>3. heap' \subseteq Owned /\ Owned' = Owned
    BY <1>1, <2>1, <2>2 DEF Owned, Arrays
  <2>. QED
    BY <1>1, <2>3 DEF HeapInv, NothingLeaks
<1>12. WellFormedFilesParse'
  <2>1. AllSound => \A k \in Kinds : ~(capacity[k] < 0)
    <3>1. sized[1] = NoTriangles /\ 1 \in 1 .. counts["f"] + 1 /\ 1 <= Counted
      BY <1>1, <1>2, <1>3 DEF SizeInv
    <3>2. AllSound => \A k \in Kinds : sized[1][k] <= capacity[k]
      BY <1>1, <3>1 DEF SizeInv
    <3>. QED
      BY <1>2, <3>1, <3>2 DEF NoTriangles
  <2>2. phase' = "panic" => \E l \in LinesOf("f") : ~SoundFace(file[l])
    BY <1>1, <2>1 DEF AllSound
  <2>. QED
    BY <1>1, <2>2 DEF WellFormedFilesParse, LinesOf, SoundFace
<1>. QED
  BY <1>1, <1>5, <1>6, <1>7, <1>9, <1>10, <1>11, <1>12 DEF UsedInv, AllocationsAreFilled

(* The triangles of the current face that are still to be built fit in. *)
LEMMA RoomFacts ==
  ASSUME OInv, AtFace("build"), Len(Face.indices) >= 3
  PROVE  LET i == position.face  v == position.vertex  k0 == Kind(Face) IN
         /\ i \in 1 .. counts["f"] /\ v \in Nat /\ v \in 3 .. Len(Face.indices)
         /\ \A c \in 1 .. 3 : Corners(v)[c] \in 1 .. Len(Face.indices)
         /\ Counted = counts["f"] + 1
         /\ \A k \in Kinds :
              /\ sized[i][k] \in Int /\ sized[i + 1][k] \in Int /\ capacity[k] \in Int
              /\ Len(triangles[k]) = sized[i][k] + IF k = k0 THEN v - 3 ELSE 0
              /\ sized[i + 1][k] = sized[i][k]
                                   + IF k = k0 THEN Len(Face.indices) - 2 ELSE 0
              /\ AllSound => sized[i + 1][k] <= capacity[k]
<1>. USE DEF OInv
<1>. DEFINE i == position.face  v == position.vertex  k0 == Kind(Face)
<1>1. /\ phase = "build" /\ i \in 1 .. counts["f"] /\ counts["f"] \in Nat
      /\ Len(Face.indices) \in Nat /\ Needed(Face) = Len(Face.indices) - 2
      /\ Face = faces[i]
  BY FaceFacts
<1>2. v \in Nat /\ capacity \in [Kinds -> Int]
  BY DEF TypeOK
<1>3. Counted = counts["f"] + 1 /\ i <= counts["f"] /\ i < counts["f"] + 1
      /\ i + 1 \in 1 .. counts["f"] + 1 /\ i \in 1 .. counts["f"] + 1
      /\ i + 1 <= counts["f"] + 1
  BY <1>1 DEF Counted
<1>4. v \in 3 .. Len(Face.indices)
  BY <1>1, <1>2, <1>3 DEF BuildInv
<1>5. \A c \in 1 .. 3 : Corners(v)[c] \in 1 .. Len(Face.indices)
  BY <1>1, <1>4 DEF Corners
<1>6. sized \in [1 .. counts["f"] + 1 -> [Kinds -> Int]]
  BY <1>1 DEF SizeInv
<1>7. ASSUME NEW k \in Kinds
      PROVE  /\ sized[i][k] \in Int /\ sized[i + 1][k] \in Int /\ capacity[k] \in Int
             /\ Len(triangles[k]) = sized[i][k] + IF k = k0 THEN v - 3 ELSE 0
             /\ sized[i + 1][k] = sized[i][k]
                                  + IF k = k0 THEN Len(Face.indices) - 2 ELSE 0
             /\ AllSound => sized[i + 1][k] <= capacity[k]
  <2>1. sized[i][k] \in Int /\ sized[i + 1][k] \in Int /\ capacity[k] \in Int
    BY <1>2, <1>3, <1>6
  <2>2. Partial(k) = IF k = k0 THEN v - 3 ELSE 0
    BY <1>3 DEF Partial
  <2>3. Len(triangles[k]) = sized[i][k] + Partial(k)
    BY <1>1 DEF BuildInv
  <2>4. sized[i + 1][k] = sized[i][k] + IF k = Kind(faces[i]) THEN Needed(faces[i]) ELSE 0
    BY <1>1, <1>3 DEF SizeInv
  <2>5. AllSound => sized[i + 1][k] <= capacity[k]
    BY <1>1, <1>3 DEF SizeInv
  <2>. QED
    BY <1>1, <2>1, <2>2, <2>3, <2>4, <2>5
<1>. HIDE DEF i, v, k0
<1>. QED
  BY <1>1, <1>2, <1>3, <1>4, <1>5, <1>7 DEF i, v, k0

LEMMA BuildPanicsInv == OInv /\ BuildPanics => OInv'
<1>. SUFFICES ASSUME OInv, BuildPanics PROVE OInv'
  OBVIOUS
<1>. USE DEF OInv
<1>1. /\ AtFace("build") /\ phase = "build" /\ phase' = "panic"
      /\ ~CanAdd(Face, position.vertex)
      /\ UNCHANGED <<file, current_line, counts, current, faces, ignored_line_count,
                     capacity, triangles, groups, position, root, material, heap, sized>>
  BY DEF BuildPanics, AtFace, parsed, used
<1>2. ASSUME AllSound PROVE CanAdd(Face, position.vertex)
  <2>1. SoundFace(Face) /\ Len(Face.indices) >= 3 /\ Face \in FaceType
    BY <1>1, <1>2, FaceFacts DEF SoundFace
  <2>2. /\ DOMAIN Face.indices = 1 .. Len(Face.indices)
        /\ DOMAIN Face.normals = 1 .. Len(Face.normals)
    BY <2>1, LenProperties DEF FaceType
  <2>3. /\ counts["v"] = Cardinality(LinesOf("v"))
        /\ counts["vn"] = Cardinality(LinesOf("vn"))
    BY <1>1 DEF CountInv, Stored
  <2>4. \A c \in 1 .. 3 : Corners(position.vertex)[c] \in 1 .. Len(Face.indices)
    BY <1>1, <2>1, RoomFacts
  <2>5. \A c \in 1 .. 3 : InBounds(Face.indices[Corners(position.vertex)[c]], "v")
    BY <2>1, <2>2, <2>3, <2>4 DEF SoundFace, InBounds
  <2>6. Kind(Face) = "smooth" =>
          \A c \in 1 .. 3 : InBounds(Face.normals[Corners(position.vertex)[c]], "vn")
    BY <2>1, <2>2, <2>3, <2>4 DEF SoundFace, InBounds, Kind
  <2>7. Len(triangles[Kind(Face)]) < capacity[Kind(Face)]
    <3>. DEFINE i == position.face  v == position.vertex  k0 == Kind(Face)
                n == Len(Face.indices)
    <3>1. k0 \in Kinds
      BY DEF Kind, Kinds
    <3>2. /\ sized[i][k0] \in Int /\ sized[i + 1][k0] \in Int /\ capacity[k0] \in Int
          /\ Len(triangles[k0]) = sized[i][k0] + (v - 3)
          /\ sized[i + 1][k0] = sized[i][k0] + (n - 2)
          /\ sized[i + 1][k0] <= capacity[k0]
          /\ v \in 3 .. n
      BY <1>1, <1>2, <2>1, <3>1, RoomFacts
    <3>3. n \in Nat
      BY <1>1, FaceFacts
    <3>4. \A a, b, c \in Int : \A w \in 3 .. n : b = a + (n - 2) /\ b <= c => a + (w - 3) < c
      BY <3>3
    <3>. HIDE DEF i, v, k0, n
    <3>5. Len(triangles[k0]) < capacity[k0]
      BY <3>2, <3>4
    <3>. QED
      BY <3>5 DEF k0
  <2>. QED
    BY <2>1, <2>5, <2>6, <2>7 DEF CanAdd
<1>3. \E l \in LinesOf("f") : ~SoundFace(file[l])
  BY <1>1, <1>2 DEF AllSound
<1>4. WellFormedFilesParse'
  BY <1>1, <1>3 DEF WellFormedFilesParse, LinesOf, SoundFace
<1>5. TypeOK'
  BY <1>1 DEF TypeOK, Phases
<1>6. CountInv'
  BY <1>1 DEF CountInv, LinesOf
<1>. QED
  BY <1>1, <1>4, <1>5, <1>6 DEF StoreInv, FaceInv, SizeInv, BuildInv, HeapInv, UsedInv,
     NothingLeaks, AllocationsAreFilled

LEMMA BuildTriangleInv == OInv /\ BuildTriangle => OInv'
<1>. SUFFICES ASSUME OInv, BuildTriangle PROVE OInv'
  OBVIOUS
<1>. USE DEF OInv
<1>. DEFINE i == position.face  v == position.vertex  k0 == Kind(Face)
            n == Len(Face.indices)  g == Face.group
            tri == [p |-> [c \in 1 .. 3 |-> Face.indices[Corners(v)[c]]],
                    n |-> IF k0 = "smooth"
                          THEN [c \in 1 .. 3 |-> Face.normals[Corners(v)[c]]] ELSE <<>>]
            shape == [kind |-> k0, place |-> Len(triangles[k0]) + 1]
<1>1. /\ AtFace("build") /\ phase = "build" /\ phase' = "build" /\ CanAdd(Face, v)
      /\ UNCHANGED <<file, current_line, counts, current, faces, ignored_line_count,
                     capacity, root, material, sized>>
      /\ triangles' = [triangles EXCEPT ![k0] = Append(@, tri)]
      /\ groups' = [groups EXCEPT ![g] = Append(@, shape)]
      /\ heap' = heap \cup {<<"shapes", g>>}
      /\ position' = NextTriangle(Face, position)
  BY DEF BuildTriangle, AtFace, used
<1>2. /\ k0 \in Kinds /\ Face \in FaceType /\ g \in 0 .. counts["g"]
      /\ counts["f"] \in Nat /\ i \in 1 .. counts["f"] /\ n \in Nat
  BY <1>1, FaceFacts
<1>3. n >= 3
  BY <1>1 DEF CanAdd
<1>4. v \in 3 .. n /\ v \in Nat /\ Counted = counts["f"] + 1
  BY <1>1, <1>3, RoomFacts
<1>5. tri \in Triangle
  <2>1. \A c \in 1 .. 3 : Face.indices[Corners(v)[c]] \in Nat
    BY <1>1 DEF CanAdd, InBounds
  <2>2. k0 = "smooth" => \A c \in 1 .. 3 : Face.normals[Corners(v)[c]] \in Nat
    BY <1>1 DEF CanAdd, InBounds
  <2>. QED
    BY <2>1, <2>2 DEF Triangle
<1>. HIDE DEF tri
<1>6. triangles \in [Kinds -> Seq(Triangle)] /\ triangles[k0] \in Seq(Triangle)
      /\ groups \in [0 .. counts["g"] -> Seq(Shape)] /\ groups[g] \in Seq(Shape)
  BY <1>1, <1>2 DEF TypeOK
<1>7. shape \in Shape
  BY <1>2, <1>6, LenProperties DEF Shape
<1>. HIDE DEF shape
<1>8. /\ triangles' \in [Kinds -> Seq(Triangle)]
      /\ \A k \in Kinds : Len(triangles'[k]) = Len(triangles[k]) + IF k = k0 THEN 1 ELSE 0
  <2>1. Append(triangles[k0], tri) \in Seq(Triangle)
        /\ Len(Append(triangles[k0], tri)) = Len(triangles[k0]) + 1
    BY <1>5, <1>6, AppendProperties
  <2>2. \A k \in Kinds : Len(triangles[k]) \in Nat
    BY <1>6, LenProperties
  <2>3. triangles' = [triangles EXCEPT ![k0] = Append(triangles[k0], tri)]
    BY <1>1
  <2>. HIDE DEF k0
  <2>. QED
    BY <1>2, <1>6, <2>1, <2>2, <2>3
<1>9. groups' \in [0 .. counts["g"] -> Seq(Shape)] /\ DOMAIN groups' = DOMAIN groups
  <2>1. Append(groups[g], shape) \in Seq(Shape)
    BY <1>6, <1>7, AppendProperties
  <2>2. groups' = [groups EXCEPT ![g] = Append(groups[g], shape)]
    BY <1>1
  <2>. QED
    BY <1>2, <1>6, <2>1, <2>2
<1>10. /\ v < n => position' = [face |-> i, vertex |-> v + 1]
       /\ ~(v < n) => v = n /\ position' = [face |-> i + 1, vertex |-> 3]
  <2>1. position = [face |-> i, vertex |-> v]
    BY DEF TypeOK
  <2>2. [position EXCEPT !.vertex = @ + 1] = [face |-> i, vertex |-> v + 1]
    BY <2>1
  <2>. QED
    BY <1>1, <1>2, <1>4, <2>2 DEF NextTriangle
<1>11. /\ position' \in [face : Nat \ {0}, vertex : Nat \ {0}]
       /\ position'.face <= counts["f"] + 1 /\ position'.vertex >= 3
       /\ position'.face <= counts["f"] =>
            position'.vertex = 3 \/ (position'.face = i /\ position'.vertex <= n)
  BY <1>2, <1>4, <1>10
<1>12. Face' = faces[position'.face]
  BY <1>1 DEF Face
<1>. HIDE DEF i, v, k0, n, g
<1>13. TypeOK'
  <2>1. position' \in [face : Nat \ {0}, vertex : Nat \ {0}]
    BY <1>11
  <2>. QED
    BY <1>1, <1>8, <1>9, <2>1 DEF TypeOK
<1>14. CountInv' /\ StoreInv'
  BY <1>1 DEF CountInv, StoreInv, LinesOf
<1>15. FaceInv'
  BY <1>1 DEF FaceInv, LinesOf, IsLine
<1>16. SizeInv'
  <2>1. AllSound' = AllSound
    BY <1>1 DEF AllSound, LinesOf, SoundFace
  <2>2. Counted' = counts["f"] + 1
    BY <1>1 DEF Counted
  <2>3. position'.face <= counts["f"] + 1
    BY <1>11
  <2>. QED
    BY <1>1, <1>4, <2>1, <2>2, <2>3 DEF SizeInv, Kind, Needed
<1>17. ASSUME NEW k \in Kinds
       PROVE  Len(triangles'[k]) = sized[position'.face][k] + Partial(k)'
  <2>1. /\ sized[i][k] \in Int /\ sized[i + 1][k] \in Int
        /\ Len(triangles[k]) = sized[i][k] + IF k = k0 THEN v - 3 ELSE 0
        /\ sized[i + 1][k] = sized[i][k] + IF k = k0 THEN n - 2 ELSE 0
    BY <1>1, <1>3, RoomFacts DEF i, v, k0, n
  <2>2. CASE v < n
    <3>1. position'.face = i /\ position'.vertex = v + 1
      BY <1>10, <2>2
    <3>2. Partial(k)' = IF k = k0 THEN v - 2 ELSE 0
      <4>1. Kind(Face)' = k0
        BY <1>1, <3>1 DEF Kind, Face, i, k0
      <4>2. position'.face <= counts'["f"]
        BY <1>1, <1>2, <3>1
      <4>3. position'.vertex - 3 = v - 2
        BY <1>4, <3>1
      <4>4. Partial(k)' = IF k = Kind(Face)' THEN position'.vertex - 3 ELSE 0
        BY <4>2 DEF Partial
      <4>. QED
        BY <4>1, <4>3, <4>4
    <3>3. \A l \in Int : l = sized[i][k] + (IF k = k0 THEN v - 3 ELSE 0) =>
            l + (IF k = k0 THEN 1 ELSE 0) = sized[i][k] + IF k = k0 THEN v - 2 ELSE 0
      BY <1>4, <2>1
    <3>4. Len(triangles'[k]) = Len(triangles[k]) + IF k = k0 THEN 1 ELSE 0
      BY <1>8
    <3>5. Len(triangles[k]) \in Int
      BY <1>4, <2>1
    <3>. QED
      BY <2>1, <3>1, <3>2, <3>3, <3>4, <3>5
  <2>3. CASE ~(v < n)
    <3>1. position'.face = i + 1 /\ position'.vertex = 3 /\ v = n
      BY <1>10, <2>3
    <3>2. Partial(k)' = 0
      BY <3>1 DEF Partial
    <3>3. \A l \in Int : l = sized[i][k] + (IF k = k0 THEN n - 3 ELSE 0) =>
            l + (IF k = k0 THEN 1 ELSE 0) = sized[i][k] + IF k = k0 THEN n - 2 ELSE 0
      BY <1>2, <2>1
    <3>4. Len(triangles'[k]) = Len(triangles[k]) + IF k = k0 THEN 1 ELSE 0
      BY <1>8
    <3>5. Len(triangles[k]) \in Int /\ Len(triangles'[k]) \in Int
      BY <1>4, <2>1, <3>4
    <3>. QED
      BY <2>1, <3>1, <3>2, <3>3, <3>4, <3>5
  <2>. QED
    BY <2>2, <2>3
<1>18. BuildInv'
  <2>1. position'.face = i => Len(Face'.indices) = n
    BY <1>12 DEF Face, i, n
  <2>. QED
    BY <1>1, <1>11, <1>17, <2>1 DEF BuildInv
<1>19. HeapInv'
  <2>1. <<"shapes", g>> \in Owned /\ heap \subseteq Owned
    BY <1>1, <1>2, <1>6 DEF Owned, HeapInv
  <2>2. Owned' = Owned
    BY <1>1, <1>9 DEF Owned, Arrays
  <2>. QED
    BY <1>1, <2>1, <2>2 DEF HeapInv, NothingLeaks
<1>. QED
  BY <1>1, <1>13, <1>14, <1>15, <1>16, <1>18, <1>19
     DEF UsedInv, WellFormedFilesParse, AllocationsAreFilled

LEMMA FinishInv == OInv /\ Finish => OInv'
<1>. SUFFICES ASSUME OInv, Finish PROVE OInv'
  OBVIOUS
<1>. USE DEF OInv
<1>1. /\ phase = "build" /\ phase' = "done" /\ position.face > counts["f"]
      /\ UNCHANGED <<file, current_line, counts, current, faces, ignored_line_count,
                     capacity, triangles, groups, position, root, material, heap, sized>>
  BY DEF Finish, FacesDone, parsed, used
<1>2. TypeOK'
  BY <1>1 DEF TypeOK, Phases
<1>3. CountInv' /\ StoreInv'
  BY <1>1 DEF CountInv, StoreInv, LinesOf
<1>4. AllocationsAreFilled'
  <2>1. counts["f"] \in Nat /\ position.face \in Nat /\ capacity \in [Kinds -> Int]
    BY DEF TypeOK, Stored
  <2>2. position.face = counts["f"] + 1 /\ ~(position.face <= counts["f"])
    BY <1>1, <2>1 DEF SizeInv
  <2>3. sized[position.face] = capacity
    BY <1>1, <2>2 DEF SizeInv, Counted
  <2>4. \A k \in Kinds : Len(triangles[k]) = capacity[k] + Partial(k) /\ Partial(k) = 0
    BY <1>1, <2>2, <2>3 DEF BuildInv, Partial
  <2>5. \A k \in Kinds : Len(triangles[k]) = capacity[k]
    BY <2>1, <2>4
  <2>. QED
    BY <1>1, <2>5 DEF AllocationsAreFilled, StoreInv
<1>. QED
  BY <1>1, <1>2, <1>3, <1>4 DEF FaceInv, SizeInv, BuildInv, HeapInv, UsedInv,
     NothingLeaks, WellFormedFilesParse, Owned, Arrays

(* What callers do with the parsed file. *)
LEMMA CallerInv ==
  OInv /\ (ObjToGroup \/ ObjToGroupAgain \/ DeleteRoot \/ FreeParsedObjFile) => OInv'
<1>. SUFFICES ASSUME OInv, ObjToGroup \/ ObjToGroupAgain \/ DeleteRoot \/ FreeParsedObjFile
              PROVE  OInv'
  OBVIOUS
<1>. USE DEF OInv
<1>1. /\ phase \in {"done", "used", "detached", "failed"}
      /\ phase' \in {"used", "panic", "detached", "freed"}
      /\ phase = "failed" => phase' = "freed"
      /\ UNCHANGED <<file, current_line, counts, current, faces, ignored_line_count,
                     capacity, triangles, groups, position, sized>>
  BY DEF ObjToGroup, ObjToGroupAgain, DeleteRoot, FreeParsedObjFile, parsed, used
<1>2. TypeOK'
  BY <1>1 DEF TypeOK, Phases
<1>3. CountInv' /\ StoreInv' /\ FaceInv' /\ SizeInv' /\ BuildInv'
  BY <1>1 DEF CountInv, StoreInv, FaceInv, SizeInv, BuildInv, LinesOf
<1>4. AllocationsAreFilled'
  BY <1>1 DEF AllocationsAreFilled
<1>5. Owned' = Owned /\ NonEmpty' = NonEmpty
  BY <1>1 DEF Owned, Arrays, NonEmpty
<1>6. CASE ObjToGroup
  <2>1. phase = "done" /\ phase' = "used" /\ heap' = heap \cup RootMemory
        /\ material' = UNION {{groups[g][j] : j \in DOMAIN groups[g]} : g \in NonEmpty}
    BY <1>6 DEF ObjToGroup
  <2>2. ASSUME NEW g \in NonEmpty PROVE groups[g][1] \in material'
    <3>1. groups[g] \in Seq(Shape) /\ groups[g] # <<>> /\ g \in DOMAIN groups
      BY <2>1 DEF NonEmpty, TypeOK
    <3>2. 1 \in DOMAIN groups[g]
      BY <3>1, EmptySeq, LenProperties
    <3>. QED
      BY <2>1, <3>2
  <2>3. UsedInv'
    BY <1>5, <2>2 DEF UsedInv
  <2>4. HeapInv'
    BY <1>5, <2>1 DEF HeapInv, NothingLeaks, RootMemory
  <2>. QED
    BY <1>1, <1>2, <1>3, <1>4, <2>1, <2>3, <2>4 DEF WellFormedFilesParse
<1>7. CASE ObjToGroupAgain
  <2>1. /\ phase \in {"used", "detached"} /\ phase' = "panic" /\ heap' = heap
        /\ NonEmpty # {} /\ material' = material
    BY <1>7 DEF ObjToGroupAgain, used
  <2>2. material' # {}
    BY <2>1 DEF UsedInv
  <2>. QED
    BY <1>1, <1>2, <1>3, <1>4, <2>1, <2>2
       DEF WellFormedFilesParse, HeapInv, NothingLeaks, UsedInv
<1>8. CASE DeleteRoot
  <2>1. phase = "used" /\ phase' = "detached" /\ heap' = heap \ RootMemory /\ material' = material
    BY <1>8 DEF DeleteRoot, used
  <2>2. HeapInv'
    BY <1>5, <2>1 DEF HeapInv, NothingLeaks
  <2>3. UsedInv'
    BY <1>5, <2>1 DEF UsedInv
  <2>. QED
    BY <1>1, <1>2, <1>3, <1>4, <2>1, <2>2, <2>3 DEF WellFormedFilesParse
<1>9. CASE FreeParsedObjFile
  <2>1. phase \in {"done", "failed", "detached"} /\ phase' = "freed" /\ heap' = heap \ Owned
    BY <1>9 DEF FreeParsedObjFile
  <2>2. HeapInv'
    BY <2>1 DEF HeapInv, NothingLeaks
  <2>. QED
    BY <1>1, <1>2, <1>3, <1>4, <2>1, <2>2 DEF WellFormedFilesParse, UsedInv
<1>. QED
  BY <1>6, <1>7, <1>8, <1>9

LEMMA StutterInv == OInv /\ UNCHANGED vars => OInv'
<1>. SUFFICES ASSUME OInv, UNCHANGED vars PROVE OInv'
  OBVIOUS
<1>. USE DEF OInv
<1>1. UNCHANGED <<file, phase, current_line, counts, current, faces, ignored_line_count,
                  capacity, triangles, groups, position, root, material, heap, sized>>
  BY DEF vars, parsed, used
<1>2. /\ TypeOK' /\ CountInv' /\ StoreInv' /\ AllocationsAreFilled'
      /\ WellFormedFilesParse'
  <2>1. TypeOK' /\ AllocationsAreFilled'
    BY <1>1 DEF TypeOK, AllocationsAreFilled
  <2>2. CountInv' /\ StoreInv'
    BY <1>1 DEF CountInv, StoreInv, LinesOf, Before
  <2>3. WellFormedFilesParse'
    BY <1>1 DEF WellFormedFilesParse, LinesOf, SoundFace
  <2>. QED
    BY <2>1, <2>2, <2>3
<1>3. FaceInv' /\ UsedInv' /\ HeapInv'
  BY <1>1 DEF FaceInv, UsedInv, HeapInv, NothingLeaks, Owned, Arrays, NonEmpty, LinesOf, IsLine
<1>4. SizeInv' /\ BuildInv'
  BY <1>1 DEF SizeInv, BuildInv, Partial, Kind, Needed, Counted, AllSound, LinesOf, SoundFace,
     Face
<1>. QED
  BY <1>2, <1>3, <1>4

-----------------------------------------------------------------------------
(* Where the triangles go: a second invariant, relative to the first.      *)

(* Face f is that of line l, and in the group the line belongs to. *)
Match(f, l) == IsLine(faces[f], l) /\ faces[f].group = GroupOf(l)

(* The faces stored so far are those of the lines passed; the next one has *)
(* the group of the current line already, if a group line put it there.    *)
LinkInv ==
  /\ phase = "store" =>
       /\ \A l \in Before("f", current_line) :
            \E f \in 1 .. counts["f"] : f <= current["f"] /\ Match(f, l)
       /\ \A f \in 1 .. counts["f"] : f <= current["f"] =>
            \E l \in Before("f", current_line) : Match(f, l)
       /\ \A f \in 1 .. counts["f"] : f > current["f"] =>
            faces[f].group = IF f = current["f"] + 1 THEN GroupOf(current_line) ELSE 0
  /\ phase \in {"size", "build"} =>
       /\ \A l \in LinesOf("f") : \E f \in 1 .. counts["f"] : Match(f, l)
       /\ \A f \in 1 .. counts["f"] : \E l \in LinesOf("f") : Match(f, l)

(* The groups partition the triangles made, each being in one place. *)
TreeInv ==
  /\ phase \in {"store", "size"} => groups = [g \in 0 .. counts["g"] |-> <<>>]
  /\ phase \in {"build", "done"} =>
       /\ \A g \in DOMAIN groups : \A j \in DOMAIN groups[g] : groups[g][j] \in Made
       /\ \A s \in Made : \E g \in DOMAIN groups : Holds(g, s)
       /\ \A g, h \in DOMAIN groups : \A i \in DOMAIN groups[g] : \A j \in DOMAIN groups[h] :
            groups[g][i] = groups[h][j] => g = h /\ i = j

(* The corners of the triangles of a group. *)
Points(g) == {triangles[s.kind][s.place].p : s \in {m \in Made : Holds(g, m)}}

(* The part of a face's fan with last corners before n, and what is built  *)
(* of face f.                                                              *)
FanTo(face, n) ==
  {<<face.indices[1], face.indices[m - 1], face.indices[m]>> : m \in 3 .. n - 1}
Built(f) ==
  IF f < position.face THEN Fan(faces[f])
  ELSE IF f = position.face THEN FanTo(faces[f], position.vertex) ELSE {}

FansInv ==
  phase = "build" =>
    \A g \in DOMAIN groups :
      Points(g) = UNION {Built(f) : f \in {h \in 1 .. counts["f"] : faces[h].group = g}}

LInv == LinkInv /\ TreeInv /\ FansInv /\ FacesBecomeFans /\ MaterialReachesAll

-----------------------------------------------------------------------------
(* How the group a face line will belong to changes from line to line.     *)
LEMMA GroupStep ==
  ASSUME TypeOK, current_line <= Len(file)
  PROVE  GroupOf(current_line + 1) =
           CASE Line.cmd = "f" -> 0
             [] Line.cmd = "g" -> Cardinality(Before("g", current_line)) + 1
             [] OTHER -> GroupOf(current_line)
<1>. DEFINE n == current_line
            Apart(g, m) == \A f \in LinesOf("f") : ~(g < f /\ f < m)
            Group(m) == IF \E g \in Before("g", m) : Apart(g, m)
                        THEN Cardinality(Before("g", m)) ELSE 0
<1>1. GroupOf(n) = Group(n) /\ GroupOf(n + 1) = Group(n + 1)
  BY DEF GroupOf, Before
<1>2. n \in Nat /\ n \in LinesOf(Line.cmd)
  BY PassLine
<1>3. \A c : LinesOf(c) \subseteq Nat
  BY LineTypes DEF LinesOf
<1>4. \A c : Line.cmd # c => n \notin LinesOf(c)
  BY DEF LinesOf, Line
<1>5. CASE Line.cmd = "f"
  <2>1. \A g \in Before("g", n + 1) : g < n
    BY <1>2, <1>3, <1>4, <1>5 DEF Before
  <2>2. \A g \in Before("g", n + 1) : ~Apart(g, n + 1)
    BY <1>2, <1>5, <2>1
  <2>. HIDE DEF Apart
  <2>. QED
    BY <1>1, <1>5, <2>2
<1>6. CASE Line.cmd = "g"
  <2>1. n \in Before("g", n + 1)
    BY <1>2, <1>6 DEF Before
  <2>2. Apart(n, n + 1)
    BY <1>2, <1>3
  <2>3. Cardinality(Before("g", n + 1)) = Cardinality(Before("g", n)) + 1
    BY <1>6, PassLine
  <2>. HIDE DEF Apart
  <2>. QED
    BY <1>1, <1>6, <2>1, <2>2, <2>3
<1>7. CASE Line.cmd # "f" /\ Line.cmd # "g"
  <2>1. Before("g", n + 1) = Before("g", n)
    BY <1>2, <1>3, <1>4, <1>7 DEF Before
  <2>2. \A f \in LinesOf("f") : f < n + 1 <=> f < n
    BY <1>2, <1>3, <1>4, <1>7
  <2>3. \A g : Apart(g, n + 1) <=> Apart(g, n)
    BY <2>2
  <2>. HIDE DEF Apart
  <2>. QED
    BY <1>1, <1>7, <2>1, <2>3
<1>. QED
  BY <1>5, <1>6, <1>7

(* What a line that is passed adds to the face lines passed. *)
LEMMA FaceLines ==
  ASSUME TypeOK, current_line <= Len(file)
  PROVE  Before("f", current_line + 1) =
           Before("f", current_line) \cup IF Line.cmd = "f" THEN {current_line} ELSE {}
<1>1. current_line \in Nat /\ current_line \in LinesOf(Line.cmd)
  BY PassLine
<1>2. LinesOf("f") \subseteq Nat
  BY LineTypes DEF LinesOf
<1>3. Line.cmd # "f" => current_line \notin LinesOf("f")
  BY DEF LinesOf, Line
<1>. QED
  BY <1>1, <1>2, <1>3 DEF Before

(* What LinkInv says of the second pass after a step of it. *)
LEMMA LinkNext ==
  ASSUME file' = file, counts' = counts, phase' = "store",
         \A l \in Before("f", current_line') : \E f \in 1 .. counts["f"] :
            f <= current'["f"] /\ IsLine(faces'[f], l) /\ faces'[f].group = GroupOf(l),
         \A f \in 1 .. counts["f"] : f <= current'["f"] =>
            \E l \in Before("f", current_line') :
               IsLine(faces'[f], l) /\ faces'[f].group = GroupOf(l),
         \A f \in 1 .. counts["f"] : f > current'["f"] =>
            faces'[f].group = IF f = current'["f"] + 1 THEN GroupOf(current_line') ELSE 0
  PROVE  LinkInv'
<1>1. /\ Before("f", current_line)' = Before("f", current_line')
      /\ GroupOf(current_line)' = GroupOf(current_line')
  BY DEF Before, LinesOf, GroupOf
<1>2. \A f, l : Match(f, l)' <=> IsLine(faces'[f], l) /\ faces'[f].group = GroupOf(l)
  BY DEF Match, IsLine, GroupOf, LinesOf
<1>. QED
  BY <1>1, <1>2 DEF LinkInv

LEMMA SameLinks ==
  ASSUME UNCHANGED <<file, counts, faces>>
  PROVE  LinesOf("f")' = LinesOf("f") /\ \A f, l : Match(f, l)' <=> Match(f, l)
<1>1. \A l : GroupOf(l)' = GroupOf(l)
  BY DEF GroupOf, LinesOf
<1>. QED
  BY <1>1 DEF LinesOf, Match, IsLine

LEMMA AllocateLinks == OInv /\ Allocate => LinkInv'
<1>. SUFFICES ASSUME OInv, Allocate PROVE LinkInv'
  OBVIOUS
<1>. USE DEF OInv
<1>1. /\ phase = "count" /\ phase' = "store" /\ file' = file /\ counts' = counts
      /\ current_line' = 1 /\ current' = current
  BY DEF Allocate, AtEnd
<1>2. counts["f"] \in Nat /\ current["f"] = 0
  BY <1>1 DEF TypeOK, CountInv, None, Stored
<1>3. \A f \in 1 .. counts["f"] : faces'[f].group = 0
  BY DEF Allocate
<1>4. \A c : Before(c, 1) = {}
  BY LineTypes DEF Before, LinesOf
<1>5. GroupOf(1) = 0
  BY <1>4 DEF GroupOf, Before
<1>6. \A f \in 1 .. counts["f"] : ~(f <= current'["f"])
  BY <1>1, <1>2
<1>. QED
  BY <1>1, <1>3, <1>4, <1>5, <1>6, LinkNext

LEMMA StoreTupleLinks == OInv /\ LInv /\ (StoreTuple \/ IgnoreLine) => LinkInv'
<1>. SUFFICES ASSUME OInv, LInv, StoreTuple \/ IgnoreLine PROVE LinkInv'
  OBVIOUS
<1>. USE DEF OInv, LInv
<1>1. /\ phase = "store" /\ phase' = "store" /\ file' = file /\ counts' = counts
      /\ faces' = faces /\ current'["f"] = current["f"]
      /\ current_line <= Len(file) /\ current_line' = current_line + 1
      /\ Line.cmd \notin {"f", "g"}
  <2>1. CASE StoreTuple
    <3>1. PICK c \in {"v", "vn"} : StoreOne(c) /\ c \in Stored /\ c # "f"
      BY <2>1 DEF StoreTuple, Stored
    <3>2. Line.cmd = c /\ AtLine("store")
      BY <3>1 DEF StoreOne
    <3>3. "f" \in Stored
      BY DEF Stored
    <3>. QED
      BY <2>1, <3>1, <3>2, <3>3, StoreOneFacts DEF StoreTuple, AtLine
  <2>2. CASE IgnoreLine
    BY <2>2 DEF IgnoreLine, AtLine, Stored
  <2>. QED
    BY <2>1, <2>2
<1>2. Before("f", current_line') = Before("f", current_line)
      /\ GroupOf(current_line') = GroupOf(current_line)
  BY <1>1, FaceLines, GroupStep
<1>. QED
  BY <1>1, <1>2, LinkNext DEF LinkInv, Match

(* The face stored is in the group that the lines before it gave it. *)
LEMMA StoreFaceLinks == OInv /\ LInv /\ StoreFace => LinkInv'
<1>. SUFFICES ASSUME OInv, LInv, StoreOne("f"), StoreFace PROVE LinkInv'
  BY DEF StoreFace
<1>. USE DEF OInv, LInv
<1>. DEFINE n == current["f"] + 1
            c == current_line
            face == [faces[n] EXCEPT !.indices = Line.indices, !.normals = Line.normals]
<1>1. "f" \in Stored /\ Line.cmd = "f"
  BY DEF Stored, StoreOne
<1>2. /\ current["f"] < counts["f"] /\ counts["f"] \in Nat /\ current["f"] \in Nat
      /\ file' = file /\ counts' = counts /\ c' = c + 1 /\ current'["f"] = n
      /\ c <= Len(file) /\ Line = file[c]
  BY <1>1, StoreOneFacts DEF StoreOne, AtLine
<1>3. phase = "store" /\ phase' = "store" /\ faces' = [faces EXCEPT ![n] = face]
  BY <1>1, <1>2, StoreOneFacts DEF StoreFace
<1>4. faces \in [1 .. counts["f"] -> FaceType] /\ n \in 1 .. counts["f"]
  BY <1>2, <1>3 DEF FaceInv
<1>5. IsLine(face, c) /\ face.group = faces[n].group
  BY <1>2, <1>4 DEF FaceType, IsLine
<1>6. faces[n].group = GroupOf(c)
  BY <1>2, <1>3, <1>4 DEF LinkInv
<1>. HIDE DEF face
<1>7. faces'[n] = face /\ \A f \in 1 .. counts["f"] : f # n => faces'[f] = faces[f]
  BY <1>3, <1>4
<1>8. Before("f", c + 1) = Before("f", c) \cup {c} /\ GroupOf(c + 1) = 0
  BY <1>1, <1>2, FaceLines, GroupStep
<1>9. \A f \in 1 .. counts["f"] : f <= n <=> (f <= current["f"] \/ f = n)
  BY <1>2
<1>10. \A f \in 1 .. counts["f"] : f <= current["f"] => f # n
  BY <1>2
<1>11. \A f \in 1 .. counts["f"] : f > n => f > current["f"] /\ f # n
  BY <1>2
<1>. HIDE DEF n, c
<1>12. \A l \in Before("f", c + 1) : \E f \in 1 .. counts["f"] :
         f <= n /\ IsLine(faces'[f], l) /\ faces'[f].group = GroupOf(l)
  <2>1. \A l \in Before("f", c) : \E f \in 1 .. counts["f"] :
          f <= current["f"] /\ IsLine(faces[f], l) /\ faces[f].group = GroupOf(l)
    BY <1>3 DEF LinkInv, Match, c
  <2>. QED
    BY <1>4, <1>5, <1>6, <1>7, <1>8, <1>9, <1>10, <2>1
<1>13. \A f \in 1 .. counts["f"] : f <= n =>
         \E l \in Before("f", c + 1) : IsLine(faces'[f], l) /\ faces'[f].group = GroupOf(l)
  <2>1. \A f \in 1 .. counts["f"] : f <= current["f"] =>
          \E l \in Before("f", c) : IsLine(faces[f], l) /\ faces[f].group = GroupOf(l)
    BY <1>3 DEF LinkInv, Match, c
  <2>. QED
    BY <1>5, <1>6, <1>7, <1>8, <1>9, <1>10, <2>1
<1>14. \A f \in 1 .. counts["f"] : f > n => faces'[f].group = 0
  BY <1>3, <1>7, <1>11 DEF LinkInv, n
<1>. QED
  BY <1>2, <1>3, <1>8, <1>12, <1>13, <1>14, LinkNext DEF c

(* A group line puts the next face, if there is one, into its group. *)
LEMMA StoreGroupLinks == OInv /\ LInv /\ StoreGroup /\ phase' = "store" => LinkInv'
<1>. SUFFICES ASSUME OInv, LInv, StoreOne("g"), StoreGroup, phase' = "store" PROVE LinkInv'
  BY DEF StoreGroup
<1>. USE DEF OInv, LInv
<1>. DEFINE n == current["f"] + 1
            c == current_line
            face == [faces[n] EXCEPT !.group = current["g"] + 1]
<1>1. "f" \in Stored /\ "g" \in Stored /\ Line.cmd = "g"
  BY DEF Stored, StoreOne
<1>2. /\ counts["f"] \in Nat /\ current["f"] \in Nat
      /\ file' = file /\ counts' = counts /\ c' = c + 1 /\ current'["f"] = current["f"]
      /\ c <= Len(file)
  BY <1>1, StoreOneFacts DEF StoreOne, AtLine
<1>3. phase = "store" /\ faces' = [faces EXCEPT ![n] = face] /\ current["f"] < counts["f"]
  BY <1>1, StoreOneFacts DEF StoreGroup
<1>4. faces \in [1 .. counts["f"] -> FaceType] /\ n \in 1 .. counts["f"]
  BY <1>2, <1>3 DEF FaceInv
<1>5. face.group = current["g"] + 1
  BY <1>4 DEF FaceType
<1>6. current["g"] = Cardinality(Before("g", c))
  BY <1>1, StoreOneFacts
<1>. HIDE DEF face
<1>7. faces'[n] = face /\ \A f \in 1 .. counts["f"] : f # n => faces'[f] = faces[f]
  BY <1>3, <1>4
<1>8. Before("f", c + 1) = Before("f", c) /\ GroupOf(c + 1) = current["g"] + 1
  BY <1>1, <1>2, <1>6, FaceLines, GroupStep
<1>9. \A f \in 1 .. counts["f"] : f <= current["f"] => f # n
  BY <1>2
<1>. HIDE DEF n, c
<1>10. /\ \A l \in Before("f", c) : \E f \in 1 .. counts["f"] :
            f <= current["f"] /\ IsLine(faces[f], l) /\ faces[f].group = GroupOf(l)
       /\ \A f \in 1 .. counts["f"] : f <= current["f"] =>
            \E l \in Before("f", c) : IsLine(faces[f], l) /\ faces[f].group = GroupOf(l)
       /\ \A f \in 1 .. counts["f"] : f > current["f"] /\ f # n => faces[f].group = 0
  BY <1>3 DEF LinkInv, Match, c, n
<1>11. /\ \A l \in Before("f", c + 1) : \E f \in 1 .. counts["f"] :
            f <= current["f"] /\ IsLine(faces'[f], l) /\ faces'[f].group = GroupOf(l)
       /\ \A f \in 1 .. counts["f"] : f <= current["f"] =>
            \E l \in Before("f", c + 1) : IsLine(faces'[f], l) /\ faces'[f].group = GroupOf(l)
  BY <1>7, <1>8, <1>9, <1>10
<1>12. \A f \in 1 .. counts["f"] : f > current["f"] =>
         faces'[f].group = IF f = n THEN GroupOf(c + 1) ELSE 0
  BY <1>5, <1>7, <1>8, <1>10
<1>. QED
  BY <1>2, <1>11, <1>12, LinkNext DEF c, n

(* After the second pass the faces are those of the lines of the file. *)
LEMMA EndStoreLinks == OInv /\ LInv /\ EndStore => LinkInv'
<1>. SUFFICES ASSUME OInv, LInv, EndStore PROVE LinkInv'
  OBVIOUS
<1>. USE DEF OInv, LInv
<1>1. /\ phase = "store" /\ phase' = "size" /\ current_line > Len(file)
      /\ UNCHANGED <<file, current_line, counts, current, faces>>
  BY DEF EndStore, AtEnd
<1>2. current_line \in Nat /\ counts["f"] \in Nat
  BY LineTypes DEF TypeOK, Stored
<1>3. Before("f", current_line) = LinesOf("f")
  BY <1>1, <1>2, BeforeFacts
<1>4. current["f"] = counts["f"]
  BY <1>1, <1>3 DEF CountInv, StoreInv, Stored
<1>5. /\ \A l \in LinesOf("f") : \E f \in 1 .. counts["f"] : Match(f, l)
      /\ \A f \in 1 .. counts["f"] : \E l \in LinesOf("f") : Match(f, l)
  BY <1>1, <1>2, <1>3, <1>4 DEF LinkInv
<1>. QED
  BY <1>1, <1>5, SameLinks DEF LinkInv

(* The loops over the faces leave the faces alone. *)
LEMMA FaceLoopLinks ==
  ASSUME LInv, phase \in {"size", "build"}, phase' # "store",
         UNCHANGED <<file, counts, faces>>
  PROVE  LinkInv'
<1>1. /\ \A l \in LinesOf("f") : \E f \in 1 .. counts["f"] : Match(f, l)
      /\ \A f \in 1 .. counts["f"] : \E l \in LinesOf("f") : Match(f, l)
  BY DEF LInv, LinkInv
<1>. QED
  BY <1>1, SameLinks DEF LinkInv

(* The triangle that add_triangle makes of the current face. *)
NewShape == [kind |-> Kind(Face), place |-> Len(triangles[Kind(Face)]) + 1]
NewPoints ==
  <<Face.indices[1], Face.indices[position.vertex - 1], Face.indices[position.vertex]>>

LEMMA NewTriangle ==
  ASSUME OInv, BuildTriangle
  PROVE  /\ phase = "build" /\ phase' = "build" /\ UNCHANGED <<file, counts, faces>>
         /\ Face = faces[position.face] /\ position.face \in 1 .. counts["f"]
         /\ position' = NextTriangle(Face, position)
         /\ Face.group \in DOMAIN groups /\ DOMAIN groups = 0 .. counts["g"]
         /\ Made' = Made \cup {NewShape} /\ NewShape \notin Made
         /\ \A s \in Made : triangles'[s.kind][s.place] = triangles[s.kind][s.place]
         /\ triangles'[NewShape.kind][NewShape.place].p = NewPoints
         /\ groups' = [groups EXCEPT ![Face.group] = Append(groups[Face.group], NewShape)]
         /\ groups \in [0 .. counts["g"] -> Seq(Shape)] /\ NewShape \in Shape
<1>. USE DEF OInv
<1>. DEFINE k0 == Kind(Face)
            corner == Corners(position.vertex)
            tri == [p |-> [c \in 1 .. 3 |-> Face.indices[corner[c]]],
                    n |-> IF k0 = "smooth"
                          THEN [c \in 1 .. 3 |-> Face.normals[corner[c]]] ELSE <<>>]
<1>1. /\ AtFace("build") /\ phase = "build" /\ phase' = "build"
      /\ UNCHANGED <<file, counts, faces>>
      /\ triangles' = [triangles EXCEPT ![k0] = Append(@, tri)]
      /\ groups' = [groups EXCEPT ![Face.group] = Append(@, NewShape)]
      /\ position' = NextTriangle(Face, position)
  BY DEF BuildTriangle, AtFace, NewShape
<1>2. /\ k0 \in Kinds /\ Face.group \in 0 .. counts["g"] /\ Face = faces[position.face]
      /\ position.face \in 1 .. counts["f"]
  BY <1>1, FaceFacts
<1>3. triangles \in [Kinds -> Seq(Triangle)] /\ groups \in [0 .. counts["g"] -> Seq(Shape)]
  BY <1>1 DEF TypeOK
<1>4. PICK q \in Seq(Triangle) : q = triangles[k0]
  BY <1>2, <1>3
<1>5. tri.p = NewPoints
  BY DEF NewPoints, Corners
<1>. HIDE DEF tri, k0
<1>6. /\ Len(q) \in Nat /\ DOMAIN q = 1 .. Len(q) /\ Len(Append(q, tri)) = Len(q) + 1
      /\ \A j \in 1 .. Len(q) : Append(q, tri)[j] = q[j]
      /\ Append(q, tri)[Len(q) + 1] = tri
  BY <1>4
<1>7. NewShape = [kind |-> k0, place |-> Len(q) + 1]
  BY <1>4 DEF NewShape, k0
<1>8. triangles'[k0] = Append(q, tri) /\ \A k \in Kinds : k # k0 => triangles'[k] = triangles[k]
  BY <1>1, <1>2, <1>3, <1>4
<1>9. \A s : s \in Made <=> \E k \in Kinds : \E p \in 1 .. Len(triangles[k]) :
                              s = [kind |-> k, place |-> p]
  BY DEF Made
<1>10. \A s : s \in Made' <=> \E k \in Kinds : \E p \in 1 .. Len(triangles'[k]) :
                               s = [kind |-> k, place |-> p]
  BY DEF Made
<1>11. \A p : p \in 1 .. Len(q) + 1 <=> p \in 1 .. Len(q) \/ p = Len(q) + 1
  BY <1>6
<1>12. ASSUME NEW s
       PROVE  s \in Made' <=> s \in Made \/ s = NewShape
  <2>1. ASSUME NEW k \in Kinds
        PROVE  (\E p \in 1 .. Len(triangles'[k]) : s = [kind |-> k, place |-> p])
                 <=> \/ \E p \in 1 .. Len(triangles[k]) : s = [kind |-> k, place |-> p]
                     \/ k = k0 /\ s = NewShape
    <3>1. CASE k = k0
      <4>1. Len(triangles'[k]) = Len(q) + 1 /\ Len(triangles[k]) = Len(q)
        BY <1>4, <1>6, <1>8, <3>1
      <4>. QED
        BY <1>7, <1>11, <3>1, <4>1
    <3>2. CASE k # k0
      BY <1>8, <3>2
    <3>. QED
      BY <3>1, <3>2
  <2>. QED
    BY <1>2, <1>9, <1>10, <2>1
<1>13. NewShape \notin Made
  <2>1. \A p \in 1 .. Len(q) : p # Len(q) + 1
    BY <1>6
  <2>. QED
    BY <1>4, <1>7, <1>9, <2>1
<1>14. ASSUME NEW s \in Made
       PROVE  triangles'[s.kind][s.place] = triangles[s.kind][s.place]
  <2>1. PICK k \in Kinds : \E p \in 1 .. Len(triangles[k]) : s = [kind |-> k, place |-> p]
    BY <1>9
  <2>2. PICK p \in 1 .. Len(triangles[k]) : s = [kind |-> k, place |-> p]
    BY <2>1
  <2>3. s.kind = k /\ s.place = p
    BY <2>2
  <2>4. CASE k = k0
    BY <1>4, <1>6, <1>8, <2>2, <2>3, <2>4
  <2>5. CASE k # k0
    BY <1>8, <2>3, <2>5
  <2>. QED
    BY <2>4, <2>5
<1>15. triangles'[NewShape.kind][NewShape.place].p = NewPoints
  BY <1>5, <1>6, <1>7, <1>8
<1>16. NewShape \in Shape
  BY <1>2, <1>6, <1>7 DEF Shape
<1>. QED
  BY <1>1, <1>2, <1>3, <1>12, <1>13, <1>14, <1>15, <1>16

(* The new triangle is put into one place, after the children there are. *)
LEMMA NewChild ==
  ASSUME OInv, BuildTriangle
  PROVE  LET g == Face.group  n == Len(groups[g]) + 1 IN
         /\ DOMAIN groups' = DOMAIN groups
         /\ \A h \in DOMAIN groups : h # g => groups'[h] = groups[h]
         /\ DOMAIN groups'[g] = DOMAIN groups[g] \cup {n} /\ n \notin DOMAIN groups[g]
         /\ \A j \in DOMAIN groups[g] : groups'[g][j] = groups[g][j]
         /\ groups'[g][n] = NewShape
<1>. DEFINE g == Face.group
<1>1. /\ groups \in [0 .. counts["g"] -> Seq(Shape)] /\ g \in 0 .. counts["g"]
      /\ NewShape \in Shape
      /\ groups' = [groups EXCEPT ![g] = Append(groups[g], NewShape)]
  BY NewTriangle
<1>2. PICK q \in Seq(Shape) : q = groups[g]
  BY <1>1
<1>. HIDE DEF g
<1>3. /\ DOMAIN groups' = DOMAIN groups /\ groups'[g] = Append(q, NewShape)
      /\ \A h \in DOMAIN groups : h # g => groups'[h] = groups[h]
  BY <1>1, <1>2
<1>4. /\ DOMAIN Append(q, NewShape) = DOMAIN q \cup {Len(q) + 1} /\ Len(q) + 1 \notin DOMAIN q
      /\ \A j \in DOMAIN q : Append(q, NewShape)[j] = q[j]
      /\ Append(q, NewShape)[Len(q) + 1] = NewShape
  BY <1>1, <1>2
<1>. QED
  BY <1>2, <1>3, <1>4 DEF g

LEMMA BuildTriangleTree == OInv /\ LInv /\ BuildTriangle => TreeInv'
<1>. SUFFICES ASSUME OInv, LInv, BuildTriangle PROVE TreeInv'
  OBVIOUS
<1>. DEFINE g == Face.group  n == Len(groups[g]) + 1
<1>1. /\ phase = "build" /\ phase' = "build" /\ g \in DOMAIN groups
      /\ Made' = Made \cup {NewShape} /\ NewShape \notin Made
  BY NewTriangle
<1>2. /\ DOMAIN groups' = DOMAIN groups
      /\ \A h \in DOMAIN groups : h # g => groups'[h] = groups[h]
      /\ DOMAIN groups'[g] = DOMAIN groups[g] \cup {n} /\ n \notin DOMAIN groups[g]
      /\ \A j \in DOMAIN groups[g] : groups'[g][j] = groups[g][j]
      /\ groups'[g][n] = NewShape
  BY NewChild
<1>. HIDE DEF g, n
<1>3. /\ \A h \in DOMAIN groups : \A j \in DOMAIN groups[h] : groups[h][j] \in Made
      /\ \A s \in Made : \E h \in DOMAIN groups : \E j \in DOMAIN groups[h] : groups[h][j] = s
      /\ \A h, k \in DOMAIN groups : \A i \in DOMAIN groups[h] : \A j \in DOMAIN groups[k] :
           groups[h][i] = groups[k][j] => h = k /\ i = j
  BY <1>1 DEF LInv, TreeInv, Holds
<1>4. \A h \in DOMAIN groups : \A j \in DOMAIN groups'[h] :
        \/ h = g /\ j = n /\ groups'[h][j] = NewShape
        \/ j \in DOMAIN groups[h] /\ groups'[h][j] = groups[h][j] /\ groups'[h][j] \in Made
  BY <1>2, <1>3
<1>5. \A h \in DOMAIN groups : \A j \in DOMAIN groups[h] :
        j \in DOMAIN groups'[h] /\ groups'[h][j] = groups[h][j]
  BY <1>2
<1>6. \A s \in Made' : \E h \in DOMAIN groups : \E j \in DOMAIN groups'[h] : groups'[h][j] = s
  BY <1>1, <1>2, <1>3, <1>5
<1>7. ASSUME NEW h \in DOMAIN groups, NEW k \in DOMAIN groups,
             NEW i \in DOMAIN groups'[h], NEW j \in DOMAIN groups'[k],
             groups'[h][i] = groups'[k][j]
      PROVE  h = k /\ i = j
  BY <1>1, <1>3, <1>4, <1>7
<1>8. \A h \in DOMAIN groups : \A j \in DOMAIN groups'[h] : groups'[h][j] \in Made'
  BY <1>1, <1>4
<1>. QED
  BY <1>1, <1>2, <1>6, <1>7, <1>8 DEF TreeInv, Holds

(* The triangle is the next one of its face's fan. *)
LEMMA FanGrows ==
  ASSUME OInv, BuildTriangle
  PROVE  \A f \in 1 .. counts["f"] :
           Built(f)' = Built(f) \cup IF f = position.face THEN {NewPoints} ELSE {}
<1>. USE DEF OInv
<1>. DEFINE i == position.face  v == position.vertex  n == Len(Face.indices)
            corners(face, m) == <<face.indices[1], face.indices[m - 1], face.indices[m]>>
<1>1. /\ AtFace("build") /\ n >= 3 /\ faces' = faces /\ Face = faces[i]
      /\ position' = NextTriangle(Face, position)
  BY NewTriangle DEF BuildTriangle, CanAdd
<1>2. v \in 3 .. n /\ v \in Nat /\ n \in Nat /\ i \in Nat /\ i \in 1 .. counts["f"]
  BY <1>1, RoomFacts, FaceFacts
<1>3. position = [face |-> i, vertex |-> v]
  BY DEF TypeOK
<1>4. \/ v < n /\ position'.face = i /\ position'.vertex = v + 1
      \/ v = n /\ position'.face = i + 1 /\ position'.vertex = 3
  BY <1>1, <1>2, <1>3 DEF NextTriangle
<1>5. NewPoints = corners(Face, v)
  BY DEF NewPoints
<1>6. FanTo(Face, v + 1) = FanTo(Face, v) \cup {corners(Face, v)}
  <2>1. \A m : m \in 3 .. (v + 1) - 1 <=> m \in 3 .. v - 1 \/ m = v
    BY <1>2
  <2>. QED
    BY <2>1 DEF FanTo
<1>7. Fan(Face) = FanTo(Face, n + 1)
  <2>1. 3 .. n = 3 .. (n + 1) - 1
    BY <1>2
  <2>. QED
    BY <2>1 DEF Fan, FanTo
<1>8. \A face : FanTo(face, 3) = {}
  BY DEF FanTo
<1>9. \A f \in Nat : Built(f)' =
        IF f < position'.face THEN Fan(faces[f])
        ELSE IF f = position'.face THEN FanTo(faces[f], position'.vertex) ELSE {}
  BY <1>1 DEF Built, Fan, FanTo
<1>10. \A f \in Nat : Built(f) =
         IF f < i THEN Fan(faces[f]) ELSE IF f = i THEN FanTo(faces[f], v) ELSE {}
  BY DEF Built
<1>. HIDE DEF i, v, n, corners
<1>11. ASSUME NEW f \in 1 .. counts["f"]
       PROVE  Built(f)' = Built(f) \cup IF f = i THEN {NewPoints} ELSE {}
  <2>1. f \in Nat
    OBVIOUS
  <2>2. CASE f = i
    <3>1. Built(f) = FanTo(Face, v)
      BY <1>1, <1>2, <1>10, <2>1, <2>2
    <3>2. Built(f)' = FanTo(Face, v + 1)
      <4>1. CASE v < n /\ position'.face = i /\ position'.vertex = v + 1
        BY <1>1, <1>2, <1>9, <2>1, <2>2, <4>1
      <4>2. CASE v = n /\ position'.face = i + 1
        BY <1>1, <1>2, <1>7, <1>9, <2>1, <2>2, <4>2
      <4>. QED
        BY <1>4, <4>1, <4>2
    <3>. QED
      BY <1>5, <1>6, <2>2, <3>1, <3>2
  <2>3. CASE f < i
    <3>1. f < position'.face /\ f # i
      BY <1>2, <1>4, <2>1, <2>3
    <3>. QED
      BY <1>9, <1>10, <2>1, <2>3, <3>1
  <2>4. CASE f > i
    <3>1. Built(f) = {} /\ f # i
      BY <1>2, <1>10, <2>1, <2>4
    <3>2. Built(f)' = {}
      <4>1. CASE f = position'.face
        <5>1. position'.vertex = 3 /\ ~(f < position'.face)
          BY <1>2, <1>4, <2>1, <2>4, <4>1
        <5>. QED
          BY <1>8, <1>9, <2>1, <4>1, <5>1
      <4>2. CASE f # position'.face
        <5>1. ~(f < position'.face)
          BY <1>2, <1>4, <2>1, <2>4, <4>2
        <5>. QED
          BY <1>9, <2>1, <4>2, <5>1
      <4>. QED
        BY <4>1, <4>2
    <3>. QED
      BY <3>1, <3>2
  <2>. QED
    BY <1>2, <2>1, <2>2, <2>3, <2>4
<1>. QED
  BY <1>11 DEF i

(* The triangles of the groups grow with the fans of their faces. *)
LEMMA BuildTriangleFans == OInv /\ LInv /\ BuildTriangle => FansInv'
<1>. SUFFICES ASSUME OInv, LInv, BuildTriangle PROVE FansInv'
  OBVIOUS
<1>. DEFINE g == Face.group  n == Len(groups[g]) + 1
            point(s) == triangles[s.kind][s.place].p
            point1(s) == triangles'[s.kind][s.place].p
            in(h, s) == \E j \in DOMAIN groups[h] : groups[h][j] = s
            in1(h, s) == \E j \in DOMAIN groups'[h] : groups'[h][j] = s
            Of(h) == {f \in 1 .. counts["f"] : faces[f].group = h}
<1>1. /\ phase = "build" /\ UNCHANGED <<counts, faces>> /\ g \in DOMAIN groups
      /\ g = faces[position.face].group /\ position.face \in 1 .. counts["f"]
      /\ Made' = Made \cup {NewShape} /\ NewShape \notin Made
      /\ \A s \in Made : point1(s) = point(s)
      /\ point1(NewShape) = NewPoints
  BY NewTriangle
<1>2. /\ DOMAIN groups' = DOMAIN groups
      /\ \A h \in DOMAIN groups : h # g => groups'[h] = groups[h]
      /\ DOMAIN groups'[g] = DOMAIN groups[g] \cup {n} /\ n \notin DOMAIN groups[g]
      /\ \A j \in DOMAIN groups[g] : groups'[g][j] = groups[g][j]
      /\ groups'[g][n] = NewShape
  BY NewChild
<1>3. \A h \in DOMAIN groups : \A j \in DOMAIN groups[h] : groups[h][j] \in Made
  BY <1>1 DEF LInv, TreeInv
<1>. HIDE DEF g, n, point, point1
<1>4. \A h \in DOMAIN groups : \A s \in Made : in1(h, s) <=> in(h, s)
  BY <1>1, <1>2
<1>5. \A h \in DOMAIN groups : in1(h, NewShape) <=> h = g
  BY <1>1, <1>2, <1>3
<1>6. ASSUME NEW h \in DOMAIN groups
      PROVE  /\ Points(h) = {point(s) : s \in {m \in Made : in(h, m)}}
             /\ Points(h)' = {point1(s) : s \in {m \in Made' : in1(h, m)}}
  BY DEF Points, Holds, point, point1
<1>. HIDE DEF in, in1
<1>7. ASSUME NEW h \in DOMAIN groups
      PROVE  Points(h)' = Points(h) \cup IF h = g THEN {NewPoints} ELSE {}
  <2>. DEFINE A == {m \in Made : in(h, m)}
              B == {m \in Made' : in1(h, m)}
  <2>1. B = A \cup IF h = g THEN {NewShape} ELSE {}
    BY <1>1, <1>4, <1>5
  <2>2. \A s \in A : point1(s) = point(s)
    BY <1>1
  <2>3. {point1(s) : s \in A} = {point(s) : s \in A}
    BY <2>2
  <2>. HIDE DEF A, B
  <2>4. CASE h = g
    <3>1. {point1(s) : s \in B} = {point1(s) : s \in A} \cup {point1(NewShape)}
      BY <2>1, <2>4
    <3>. QED
      BY <1>1, <1>6, <2>3, <2>4, <3>1 DEF A, B
  <2>5. CASE h # g
    BY <1>6, <2>1, <2>3, <2>5 DEF A, B
  <2>. QED
    BY <2>4, <2>5
<1>8. \A h \in DOMAIN groups : Points(h) = UNION {Built(f) : f \in Of(h)}
  BY <1>1 DEF LInv, FansInv
<1>9. \A f \in 1 .. counts["f"] :
        Built(f)' = Built(f) \cup IF f = position.face THEN {NewPoints} ELSE {}
  BY FanGrows
<1>10. ASSUME NEW h \in DOMAIN groups
       PROVE  Points(h)' = UNION {Built(f)' : f \in Of(h)}
  <2>. DEFINE U == UNION {Built(f) : f \in Of(h)}
              V == UNION {Built(f)' : f \in Of(h)}
  <2>1. position.face \in Of(h) <=> h = g
    BY <1>1
  <2>2. \A f \in Of(h) : Built(f)' = Built(f) \cup IF f = position.face THEN {NewPoints} ELSE {}
    BY <1>9
  <2>. HIDE DEF Of
  <2>3. V = U \cup IF h = g THEN {NewPoints} ELSE {}
    <3>1. CASE h = g
      BY <2>1, <2>2, <3>1
    <3>2. CASE h # g
      BY <2>1, <2>2, <3>2
    <3>. QED
      BY <3>1, <3>2
  <2>. QED
    BY <1>7, <1>8, <2>3
<1>11. \A h \in DOMAIN groups' :
         Points(h)' = UNION {Built(f)' : f \in {k \in 1 .. counts'["f"] : faces'[k].group = h}}
  BY <1>1, <1>2, <1>10
<1>. QED
  BY <1>11 DEF FansInv

(* The arrays of the triangles and the groups are empty at first. *)
LEMMA AllocateTrianglesTree ==
  OInv /\ LInv /\ AllocateTriangles /\ phase' = "build" => TreeInv' /\ FansInv'
<1>. SUFFICES ASSUME OInv, LInv, AllocateTriangles, phase' = "build"
              PROVE  TreeInv' /\ FansInv'
  OBVIOUS
<1>1. /\ phase = "size" /\ UNCHANGED <<counts, groups, triangles>>
      /\ position'.face = 1 /\ position'.vertex = 3
  BY DEF AllocateTriangles, FacesDone, parsed, FirstFace
<1>2. groups' = [g \in 0 .. counts["g"] |-> <<>>] /\ triangles' = [k \in Kinds |-> <<>>]
  BY <1>1 DEF OInv, SizeInv, LInv, TreeInv
<1>3. Made' = {}
  BY <1>2 DEF Made
<1>4. \A g \in DOMAIN groups' : DOMAIN groups'[g] = {}
  BY <1>2
<1>5. TreeInv'
  BY <1>3, <1>4 DEF TreeInv
<1>6. \A g : Points(g)' = {}
  BY <1>3 DEF Points
<1>7. \A f \in Nat \ {0} : Built(f)' = {}
  BY <1>1 DEF Built, FanTo
<1>8. 1 .. counts'["f"] \subseteq Nat \ {0}
  OBVIOUS
<1>. QED
  BY <1>1, <1>5, <1>6, <1>7, <1>8 DEF FansInv

(* A group is as long as the set of the triangles it holds, and the set of *)
(* the groups that hold a triangle has one element.                        *)
LEMMA Partition ==
  ASSUME OInv, TreeInv, phase \in {"build", "done"}
  PROVE  /\ \A g \in DOMAIN groups : Len(groups[g]) = Cardinality({m \in Made : Holds(g, m)})
         /\ \A s \in Made : Cardinality({g \in DOMAIN groups : Holds(g, s)}) = 1
<1>1. /\ groups \in [0 .. counts["g"] -> Seq(Shape)]
      /\ \A g \in DOMAIN groups : \A j \in DOMAIN groups[g] : groups[g][j] \in Made
      /\ \A s \in Made : \E g \in DOMAIN groups : Holds(g, s)
      /\ \A g, h \in DOMAIN groups : \A i \in DOMAIN groups[g] : \A j \in DOMAIN groups[h] :
           groups[g][i] = groups[h][j] => g = h /\ i = j
  BY DEF OInv, TypeOK, TreeInv
<1>2. ASSUME NEW g \in DOMAIN groups
      PROVE  Len(groups[g]) = Cardinality({m \in Made : Holds(g, m)})
  <2>. DEFINE H == {m \in Made : Holds(g, m)}
  <2>1. PICK q \in Seq(Shape) : q = groups[g]
    BY <1>1
  <2>2. PICK n \in Nat : n = Len(q) /\ DOMAIN q = 1 .. n
    BY <2>1, LenProperties
  <2>3. /\ \A j \in 1 .. n : q[j] \in H
        /\ \A s \in H : \E j \in 1 .. n : q[j] = s
        /\ \A i, j \in 1 .. n : q[i] = q[j] => i = j
    BY <1>1, <2>1, <2>2 DEF Holds
  <2>. HIDE DEF H
  <2>4. [j \in 1 .. n |-> q[j]] \in Bijection(1 .. n, H)
    BY <2>3 DEF Bijection, Injection, Surjection, IsInjective
  <2>5. ExistsBijection(1 .. n, H)
    BY <2>4 DEF ExistsBijection
  <2>6. Cardinality(H) = n
    BY <2>5, FS_CountingElements
  <2>. QED
    BY <2>1, <2>2, <2>6 DEF H
<1>3. ASSUME NEW s \in Made
      PROVE  Cardinality({g \in DOMAIN groups : Holds(g, s)}) = 1
  <2>1. PICK g \in DOMAIN groups : Holds(g, s)
    BY <1>1
  <2>2. {h \in DOMAIN groups : Holds(h, s)} = {g}
    BY <1>1, <2>1 DEF Holds
  <2>. QED
    BY <2>2, FS_Singleton
<1>. QED
  BY <1>2, <1>3

(* FacesBecomeFans after a step that leaves the groups and triangles alone. *)
LEMMA FansStay ==
  ASSUME UNCHANGED <<file, groups, triangles>>,
         \A g \in DOMAIN groups :
           {triangles[s.kind][s.place].p : s \in {m \in Made : Holds(g, m)}}
             = UNION {Fan(file[l]) : l \in {m \in LinesOf("f") : GroupOf(m) = g}},
         \A g \in DOMAIN groups : Len(groups[g]) = Cardinality({m \in Made : Holds(g, m)}),
         \A s \in Made : Cardinality({g \in DOMAIN groups : Holds(g, s)}) = 1
  PROVE  FacesBecomeFans'
<1>1. Made' = Made /\ \A g, m : Holds(g, m)' <=> Holds(g, m)
  BY DEF Made, Holds
<1>2. LinesOf("f")' = LinesOf("f") /\ \A m : GroupOf(m)' = GroupOf(m)
  BY DEF LinesOf, GroupOf
<1>3. \A g : {m \in Made' : Holds(g, m)'} = {m \in Made : Holds(g, m)}
  BY <1>1
<1>4. \A g : {triangles'[s.kind][s.place].p : s \in {m \in Made' : Holds(g, m)'}}
             = {triangles[s.kind][s.place].p : s \in {m \in Made : Holds(g, m)}}
  BY <1>3
<1>5. \A g : UNION {Fan(file'[l]) : l \in {m \in LinesOf("f")' : GroupOf(m)' = g}}
             = UNION {Fan(file[l]) : l \in {m \in LinesOf("f") : GroupOf(m) = g}}
  BY <1>2
<1>6. \A s : {g \in DOMAIN groups' : Holds(g, s)'} = {g \in DOMAIN groups : Holds(g, s)}
  BY <1>1
<1>7. \A g \in DOMAIN groups' :
        /\ {triangles'[s.kind][s.place].p : s \in {m \in Made' : Holds(g, m)'}}
             = UNION {Fan(file'[l]) : l \in {m \in LinesOf("f")' : GroupOf(m)' = g}}
        /\ Len(groups'[g]) = Cardinality({m \in Made' : Holds(g, m)'})
  BY <1>3, <1>4, <1>5
<1>8. \A s \in Made' : Cardinality({g \in DOMAIN groups' : Holds(g, s)'}) = 1
  BY <1>1, <1>6
<1>9. \A l : Fan(file[l])' = Fan(file'[l])
  BY DEF Fan
<1>. QED
  BY <1>7, <1>8, <1>9, Zenon DEF FacesBecomeFans

(* When the last face is built the groups hold the fans of their lines. *)
LEMMA FinishFans == OInv /\ LInv /\ Finish => TreeInv' /\ FacesBecomeFans'
<1>. SUFFICES ASSUME OInv, LInv, Finish PROVE TreeInv' /\ FacesBecomeFans'
  OBVIOUS
<1>1. /\ phase = "build" /\ phase' = "done" /\ position.face > counts["f"]
      /\ UNCHANGED <<file, counts, groups, triangles>>
  BY DEF Finish, FacesDone, parsed
<1>2. counts["f"] \in Nat /\ position.face \in Nat
  BY DEF OInv, TypeOK, Stored
<1>3. \A f \in 1 .. counts["f"] : Built(f) = Fan(faces[f])
  BY <1>1, <1>2 DEF Built
<1>4. \A f, l : Match(f, l) => Fan(faces[f]) = Fan(file[l]) /\ faces[f].group = GroupOf(l)
  BY DEF Match, IsLine, Fan
<1>5. ASSUME NEW g \in DOMAIN groups
      PROVE  Points(g) = UNION {Fan(file[l]) : l \in {m \in LinesOf("f") : GroupOf(m) = g}}
  <2>. DEFINE P == UNION {Built(f) : f \in {h \in 1 .. counts["f"] : faces[h].group = g}}
              Q == UNION {Fan(file[l]) : l \in {m \in LinesOf("f") : GroupOf(m) = g}}
  <2>1. Points(g) = P
    BY <1>1 DEF LInv, FansInv
  <2>2. ASSUME NEW f \in 1 .. counts["f"], faces[f].group = g
        PROVE  Built(f) \subseteq Q
    <3>1. PICK l \in LinesOf("f") : Match(f, l)
      BY <1>1 DEF LInv, LinkInv
    <3>. QED
      BY <1>3, <1>4, <2>2, <3>1
  <2>3. ASSUME NEW l \in LinesOf("f"), GroupOf(l) = g
        PROVE  Fan(file[l]) \subseteq P
    <3>1. PICK f \in 1 .. counts["f"] : Match(f, l)
      BY <1>1 DEF LInv, LinkInv
    <3>. QED
      BY <1>3, <1>4, <2>3, <3>1
  <2>. QED
    BY <2>1, <2>2, <2>3
<1>6. /\ \A g \in DOMAIN groups : Len(groups[g]) = Cardinality({m \in Made : Holds(g, m)})
      /\ \A s \in Made : Cardinality({g \in DOMAIN groups : Holds(g, s)}) = 1
  BY <1>1, Partition DEF LInv
<1>7. \A g \in DOMAIN groups :
        {triangles[s.kind][s.place].p : s \in {m \in Made : Holds(g, m)}}
          = UNION {Fan(file[l]) : l \in {m \in LinesOf("f") : GroupOf(m) = g}}
  BY <1>5 DEF Points
<1>8. FacesBecomeFans'
  BY <1>1, <1>6, <1>7, FansStay
<1>9. TreeInv'
  BY <1>1 DEF LInv, TreeInv, Made, Holds
<1>. QED
  BY <1>8, <1>9

-----------------------------------------------------------------------------
(* What obj_to_group does with the groups.                                 *)

LEMMA ChildrenStep ==
  /\ Children[0] = <<>>
  /\ \A n \in Nat : Children[n + 1] =
       IF groups[n] # <<>> THEN Append(Children[n], n) ELSE Children[n]
<1>. DEFINE P(b) == b = [n \in Nat |->
                           IF n = 0 THEN <<>>
                           ELSE IF groups[n - 1] # <<>> THEN Append(b[n - 1], n - 1) ELSE b[n - 1]]
            step == [w \in Nat \X Seq(Nat) |->
                       IF groups[w[1]] # <<>> THEN Append(w[2], w[1]) ELSE w[2]]
<1>1. PICK f : Iterates(f, Seq(Nat), <<>>, step)
  <2>1. ASSUME NEW w \in Nat \X Seq(Nat)
        PROVE  (IF groups[w[1]] # <<>> THEN Append(w[2], w[1]) ELSE w[2]) \in Seq(Nat)
    <3>1. w[1] \in Nat /\ w[2] \in Seq(Nat)
      OBVIOUS
    <3>2. Append(w[2], w[1]) \in Seq(Nat)
      BY <3>1, AppendProperties
    <3>. QED
      BY <3>1, <3>2
  <2>2. step \in [Nat \X Seq(Nat) -> Seq(Nat)] /\ <<>> \in Seq(Nat)
    BY <2>1
  <2>. HIDE DEF step
  <2>. QED
    BY <2>2, Recursion
<1>2. /\ f \in [Nat -> Seq(Nat)] /\ f[0] = <<>>
      /\ \A n \in Nat : f[n + 1] = IF groups[n] # <<>> THEN Append(f[n], n) ELSE f[n]
  <2>1. f \in [Nat -> Seq(Nat)] /\ f[0] = <<>> /\ \A n \in Nat : f[n + 1] = step[<<n, f[n]>>]
    BY <1>1 DEF Iterates
  <2>2. \A n \in Nat : step[<<n, f[n]>>] = IF groups[n] # <<>> THEN Append(f[n], n) ELSE f[n]
    BY <2>1
  <2>. HIDE DEF step
  <2>. QED
    BY <2>1, <2>2
<1>. HIDE DEF step
<1>3. P(f)
  <2>1. ASSUME NEW n \in Nat
        PROVE  f[n] = IF n = 0 THEN <<>>
                      ELSE IF groups[n - 1] # <<>> THEN Append(f[n - 1], n - 1) ELSE f[n - 1]
    <3>1. CASE n = 0
      BY <1>2, <3>1
    <3>2. CASE n # 0
      <4>1. n - 1 \in Nat /\ (n - 1) + 1 = n
        BY <3>2
      <4>2. f[(n - 1) + 1] =
              IF groups[n - 1] # <<>> THEN Append(f[n - 1], n - 1) ELSE f[n - 1]
        BY <1>2, <4>1
      <4>. QED
        BY <3>2, <4>1, <4>2
    <3>. QED
      BY <3>1, <3>2
  <2>. QED
    BY <1>2, <2>1
<1>4. Children = CHOOSE b : P(b)
  BY DEF Children
<1>. HIDE DEF P
<1>5. P(Children)
  BY <1>3, <1>4
<1>6. \A n \in Nat : Children[n] =
        IF n = 0 THEN <<>>
        ELSE IF groups[n - 1] # <<>> THEN Append(Children[n - 1], n - 1) ELSE Children[n - 1]
  BY <1>5 DEF P
<1>7. ASSUME NEW n \in Nat
      PROVE  Children[n + 1] = IF groups[n] # <<>> THEN Append(Children[n], n) ELSE Children[n]
  <2>1. n + 1 \in Nat /\ n + 1 # 0 /\ (n + 1) - 1 = n
    OBVIOUS
  <2>. QED
    BY <1>6, <2>1
<1>. QED
  BY <1>6, <1>7

(* The root has the groups with shapes as children, each of them once. *)
LEMMA ChildrenAre ==
  ASSUME NEW N \in Nat
  PROVE  /\ \A j \in DOMAIN Children[N] : Children[N][j] \in 0 .. N - 1
         /\ \A g \in 0 .. N - 1 : groups[g] # <<>> =>
              \E j \in DOMAIN Children[N] : Children[N][j] = g
         /\ \A i, j \in DOMAIN Children[N] : Children[N][i] = Children[N][j] => i = j
<1>. DEFINE Lists(q, n) ==
              /\ q \in Seq(Nat)
              /\ \A j \in DOMAIN q : q[j] \in 0 .. n - 1
              /\ \A g \in 0 .. n - 1 : groups[g] # <<>> => \E j \in DOMAIN q : q[j] = g
              /\ \A i, j \in DOMAIN q : q[i] = q[j] => i = j
            S == {n \in Nat : Lists(Children[n], n)}
<1>1. 0 \in S
  <2>1. Lists(<<>>, 0)
    OBVIOUS
  <2>. QED
    BY <2>1, ChildrenStep
<1>2. ASSUME NEW n \in S
      PROVE  n + 1 \in S
  <2>1. PICK q : q = Children[n] /\ Lists(q, n) /\ q \in Seq(Nat)
    OBVIOUS
  <2>2. n \in Nat /\ \A g : g \in 0 .. (n + 1) - 1 <=> g \in 0 .. n - 1 \/ g = n
    OBVIOUS
  <2>3. n \notin 0 .. n - 1
    BY <2>2
  <2>4. n \in Nat /\ n + 1 \in Nat
    OBVIOUS
  <2>5. q = Children[n]
    BY <2>1
  <2>6. Children[n + 1] = IF groups[n] # <<>> THEN Append(q, n) ELSE q
    BY <2>4, <2>5, ChildrenStep, Zenon
  <2>7. CASE groups[n] # <<>>
    <3>1. /\ Append(q, n) \in Seq(Nat)
          /\ DOMAIN Append(q, n) = DOMAIN q \cup {Len(q) + 1} /\ Len(q) + 1 \notin DOMAIN q
          /\ \A j \in DOMAIN q : Append(q, n)[j] = q[j]
          /\ Append(q, n)[Len(q) + 1] = n
      BY <2>1, <2>2
    <3>2. PICK r : r = Append(q, n)
      OBVIOUS
    <3>3. \A j \in DOMAIN r : r[j] \in 0 .. (n + 1) - 1
      BY <2>1, <2>2, <3>1, <3>2
    <3>4. \A g \in 0 .. (n + 1) - 1 : groups[g] # <<>> => \E j \in DOMAIN r : r[j] = g
      BY <2>1, <2>2, <3>1, <3>2
    <3>5. \A i, j \in DOMAIN r : r[i] = r[j] => i = j
      BY <2>1, <2>3, <3>1, <3>2
    <3>6. Lists(r, n + 1)
      BY <3>1, <3>2, <3>3, <3>4, <3>5
    <3>. HIDE DEF Lists
    <3>7. Children[n + 1] = r /\ n + 1 \in Nat
      BY <2>7, <2>4, <2>6, <3>2
    <3>8. Lists(Children[n + 1], n + 1)
      BY <3>6, <3>7
    <3>. QED
      BY <3>7, <3>8
  <2>8. CASE groups[n] = <<>>
    <3>1. Lists(q, n + 1)
      BY <2>1, <2>2, <2>8
    <3>. HIDE DEF Lists
    <3>2. Children[n + 1] = q /\ n + 1 \in Nat
      BY <2>8, <2>4, <2>6
    <3>3. Lists(Children[n + 1], n + 1)
      BY <3>1, <3>2
    <3>. QED
      BY <3>2, <3>3
  <2>. QED
    BY <2>7, <2>8
<1>. HIDE DEF Lists
<1>3. \A n \in Nat : n \in S
  <2>1. S \in SUBSET Nat
    OBVIOUS
  <2>. HIDE DEF S
  <2>. QED
    BY <1>1, <1>2, <2>1, SetOfAllNaturals
<1>. QED
  BY <1>3 DEF Lists

LEMMA ObjToGroupReaches ==
  OInv /\ LInv /\ ObjToGroup => FacesBecomeFans' /\ MaterialReachesAll'
<1>. SUFFICES ASSUME OInv, LInv, ObjToGroup PROVE FacesBecomeFans' /\ MaterialReachesAll'
  OBVIOUS
<1>. DEFINE N == counts["g"] + 1
            q == Children[N]
<1>1. /\ phase = "done" /\ UNCHANGED <<file, groups, triangles>> /\ root' = q
      /\ material' = UNION {{groups[g][j] : j \in DOMAIN groups[g]} : g \in NonEmpty}
  BY DEF ObjToGroup, parsed
<1>2. /\ counts["g"] \in Nat /\ N \in Nat /\ 0 .. N - 1 = 0 .. counts["g"]
      /\ groups \in [0 .. counts["g"] -> Seq(Shape)]
  BY <1>1 DEF OInv, TypeOK, Stored
<1>3. FacesBecomeFans'
  BY <1>1, FansStay DEF LInv, FacesBecomeFans
<1>4. Made' = Made /\ \A g, s : Holds(g, s)' <=> Holds(g, s)
  BY <1>1 DEF Made, Holds
<1>5. /\ \A j \in DOMAIN q : q[j] \in DOMAIN groups
      /\ \A g \in DOMAIN groups : groups[g] # <<>> => \E j \in DOMAIN q : q[j] = g
      /\ \A i, j \in DOMAIN q : q[i] = q[j] => i = j
  BY <1>2, ChildrenAre
<1>. HIDE DEF q, N
<1>6. ASSUME NEW s \in Made
      PROVE  s \in material' /\ Cardinality({r \in DOMAIN q : Holds(q[r], s)}) = 1
  <2>1. PICK g \in DOMAIN groups : Holds(g, s)
    BY <1>1 DEF LInv, TreeInv
  <2>2. PICK j \in DOMAIN groups[g] : groups[g][j] = s
    BY <2>1 DEF Holds
  <2>3. groups[g] # <<>>
    BY <1>2, <2>2
  <2>4. s \in material'
    BY <1>1, <2>2, <2>3 DEF NonEmpty
  <2>5. PICK r \in DOMAIN q : q[r] = g
    BY <1>5, <2>3
  <2>6. \A h \in DOMAIN groups : Holds(h, s) => h = g
    BY <1>1, <2>2 DEF LInv, TreeInv, Holds
  <2>7. {k \in DOMAIN q : Holds(q[k], s)} = {r}
    BY <1>5, <2>1, <2>5, <2>6
  <2>. QED
    BY <2>4, <2>7, FS_Singleton
<1>7. ASSUME NEW s \in Made'
      PROVE  s \in material' /\ Cardinality({r \in DOMAIN root' : Holds(root[r], s)'}) = 1
  <2>1. \A r : Holds(root[r], s)' <=> Holds(q[r], s)
    BY <1>1 DEF Holds
  <2>2. {r \in DOMAIN root' : Holds(root[r], s)'} = {r \in DOMAIN q : Holds(q[r], s)}
    BY <1>1, <2>1
  <2>. QED
    BY <1>4, <1>6, <2>2
<1>. QED
  BY <1>3, <1>7 DEF MaterialReachesAll

(* The steps of the parser, for the second invariant. *)
LEMMA NextLInv == OInv /\ OInv' /\ LInv /\ [Next]_vars => LInv'
<1>. SUFFICES ASSUME OInv, OInv', LInv, [Next]_vars PROVE LInv'
  OBVIOUS
<1>1. CASE CountLine
  BY <1>1 DEF CountLine, AtLine, LInv, LinkInv, TreeInv, FansInv, FacesBecomeFans,
     MaterialReachesAll
<1>2. CASE Allocate
  <2>1. phase' = "store" /\ groups' = [g \in 0 .. counts["g"] |-> <<>>] /\ counts' = counts
    BY <1>2 DEF Allocate
  <2>. QED
    BY <1>2, <2>1, AllocateLinks DEF LInv, TreeInv, FansInv, FacesBecomeFans,
       MaterialReachesAll
<1>3. CASE FailLine \/ BuildPanics \/ ObjToGroupAgain \/ DeleteRoot \/ FreeParsedObjFile
  <2>1. phase' \in {"failed", "panic", "detached", "freed"}
    BY <1>3 DEF FailLine, BuildPanics, ObjToGroupAgain, DeleteRoot, FreeParsedObjFile
  <2>. QED
    BY <2>1 DEF LInv, LinkInv, TreeInv, FansInv, FacesBecomeFans, MaterialReachesAll
<1>4. CASE StoreTuple \/ StoreFace \/ StoreGroup \/ IgnoreLine
  <2>1. /\ phase = "store" /\ phase' \in {"store", "panic"}
        /\ UNCHANGED <<counts, groups>>
    BY <1>4 DEF StoreTuple, StoreFace, StoreGroup, IgnoreLine, StoreOne, AtLine, parsed
  <2>2. phase' = "store" => LinkInv'
    BY <1>4, StoreTupleLinks, StoreFaceLinks, StoreGroupLinks
  <2>3. TreeInv'
    BY <2>1 DEF LInv, TreeInv
  <2>. QED
    BY <2>1, <2>2, <2>3 DEF LInv, LinkInv, FansInv, FacesBecomeFans, MaterialReachesAll
<1>5. CASE EndStore
  <2>1. phase = "store" /\ phase' = "size" /\ UNCHANGED <<counts, groups>>
    BY <1>5 DEF EndStore, AtEnd, parsed
  <2>2. TreeInv'
    BY <2>1 DEF LInv, TreeInv
  <2>. QED
    BY <1>5, <2>1, <2>2, EndStoreLinks DEF LInv, FansInv, FacesBecomeFans, MaterialReachesAll
<1>6. CASE CountTriangles
  <2>1. phase = "size" /\ phase' = "size" /\ UNCHANGED <<file, counts, faces, groups>>
    BY <1>6 DEF CountTriangles, AtFace
  <2>2. TreeInv'
    BY <2>1 DEF LInv, TreeInv
  <2>3. LinkInv'
    BY <2>1, FaceLoopLinks
  <2>. QED
    BY <2>1, <2>2, <2>3 DEF LInv, FansInv, FacesBecomeFans, MaterialReachesAll
<1>7. CASE AllocateTriangles
  <2>1. /\ phase = "size" /\ phase' \in {"panic", "build"}
        /\ UNCHANGED <<file, counts, faces>>
    BY <1>7 DEF AllocateTriangles, FacesDone
  <2>2. LinkInv'
    BY <2>1, FaceLoopLinks
  <2>3. phase' = "build" => TreeInv' /\ FansInv'
    BY <1>7, AllocateTrianglesTree
  <2>. QED
    BY <2>1, <2>2, <2>3 DEF LInv, TreeInv, FansInv, FacesBecomeFans, MaterialReachesAll
<1>8. CASE BuildTriangle
  <2>1. phase = "build" /\ phase' = "build" /\ UNCHANGED <<file, counts, faces>>
    BY <1>8, NewTriangle
  <2>2. LinkInv'
    BY <2>1, FaceLoopLinks
  <2>. QED
    BY <1>8, <2>1, <2>2, BuildTriangleTree, BuildTriangleFans
       DEF LInv, FacesBecomeFans, MaterialReachesAll
<1>9. CASE Finish
  <2>1. phase' = "done"
    BY <1>9 DEF Finish
  <2>. QED
    BY <1>9, <2>1, FinishFans DEF LInv, LinkInv, FansInv, MaterialReachesAll
<1>10. CASE ObjToGroup
  <2>1. phase' = "used"
    BY <1>10 DEF ObjToGroup
  <2>. QED
    BY <1>10, <2>1, ObjToGroupReaches DEF LInv, LinkInv, TreeInv, FansInv
<1>11. CASE UNCHANGED vars
  <2>1. UNCHANGED <<file, phase, current_line, counts, current, faces, triangles, groups,
                    position, root, material>>
    BY <1>11 DEF vars, parsed, used
  <2>2. LinkInv'
    <3>1. \A l : GroupOf(l)' = GroupOf(l)
      BY <2>1 DEF GroupOf, LinesOf
    <3>2. Before("f", current_line)' = Before("f", current_line)
          /\ GroupOf(current_line)' = GroupOf(current_line)
      BY <2>1 DEF Before, LinesOf, GroupOf
    <3>. QED
      BY <2>1, <3>2, SameLinks DEF LInv, LinkInv
  <2>3. Made' = Made /\ \A g, s : Holds(g, s)' <=> Holds(g, s)
    BY <2>1 DEF Made, Holds
  <2>4. TreeInv'
    BY <2>1, <2>3 DEF LInv, TreeInv
  <2>5. FansInv'
    <3>1. \A g : {m \in Made' : Holds(g, m)'} = {m \in Made : Holds(g, m)}
      BY <2>3
    <3>2. \A g : Points(g)' = Points(g)
      BY <2>1, <3>1 DEF Points
    <3>3. \A f : Built(f)' = Built(f)
      BY <2>1 DEF Built, Fan, FanTo
    <3>4. \A g : UNION {Built(f)' : f \in {h \in 1 .. counts'["f"] : faces'[h].group = g}}
                 = UNION {Built(f) : f \in {h \in 1 .. counts["f"] : faces[h].group = g}}
      BY <2>1, <3>3
    <3>. QED
      BY <2>1, <3>2, <3>4 DEF LInv, FansInv
  <2>6. FacesBecomeFans'
    BY <2>1, FansStay DEF LInv, FacesBecomeFans
  <2>7. MaterialReachesAll'
    <3>1. \A r, s : Holds(root[r], s)' <=> Holds(root[r], s)
      BY <2>1 DEF Holds
    <3>2. \A s : {r \in DOMAIN root' : Holds(root[r], s)'} = {r \in DOMAIN root : Holds(root[r], s)}
      BY <2>1, <3>1
    <3>. QED
      BY <2>1, <2>3, <3>2 DEF LInv, MaterialReachesAll
  <2>. QED
    BY <2>2, <2>4, <2>5, <2>6, <2>7 DEF LInv
<1>. QED
  BY <1>1, <1>2, <1>3, <1>4, <1>5, <1>6, <1>7, <1>8, <1>9, <1>10, <1>11 DEF Next, Terminated

-----------------------------------------------------------------------------
(* The theorems.                                                           *)

(* The invariant above is one: every step of the parser keeps it. *)
THEOREM Invariance == Spec => []OInv
<1>1. OInv /\ [Next]_vars => OInv'
  BY CountLineInv, AllocateInv, StoreTupleInv, StoreFaceInv, StoreGroupInv, OtherLineInv,
     CountTrianglesInv, AllocateTrianglesInv, BuildPanicsInv, BuildTriangleInv, FinishInv,
     CallerInv, StutterInv DEF Next, Terminated
<1>. QED
  BY InitInv, <1>1, PTL DEF Spec

(* Every variable of the parser has its type, for every set of files. *)
THEOREM TypeCorrect == Spec => []TypeOK
<1>1. OInv => TypeOK
  BY DEF OInv
<1>. QED
  BY Invariance, <1>1, PTL

(* The parser survives every file whose faces are sound and whose group    *)
(* lines have a face after them, however long the file and its faces.      *)
THEOREM WellFormedParse == Spec => []WellFormedFilesParse
<1>1. OInv => WellFormedFilesParse
  BY DEF OInv
<1>. QED
  BY Invariance, <1>1, PTL

(* The two passes and the triangle count agree: what is allocated is       *)
(* filled, to the last entry.                                              *)
THEOREM FilledAllocations == Spec => []AllocationsAreFilled
<1>1. OInv => AllocationsAreFilled
  BY DEF OInv
<1>. QED
  BY Invariance, <1>1, PTL

(* free_parsed_obj_file leaves nothing behind, after a failed parse too. *)
THEOREM NoLeak == Spec => []NothingLeaks
<1>1. OInv => NothingLeaks
  BY DEF OInv, HeapInv
<1>. QED
  BY Invariance, <1>1, PTL

(* With the first invariant the second is one, too. *)
THEOREM LinkInvariance == Spec => []LInv
<1>1. Init => LInv
  BY DEF Init, LInv, LinkInv, TreeInv, FansInv, FacesBecomeFans, MaterialReachesAll
<1>. QED
  BY Invariance, <1>1, NextLInv, PTL DEF Spec

(* Every group ends with the fans of its own faces, triangle by triangle,  *)
(* and no triangle is in two groups or twice in one.                       *)
THEOREM FansComplete == Spec => []FacesBecomeFans
<1>1. LInv => FacesBecomeFans
  BY DEF LInv
<1>. QED
  BY LinkInvariance, <1>1, PTL

(* Whoever asks for one group of the whole file gets every triangle in it, *)
(* once, and all with the material asked for.                              *)
THEOREM MaterialComplete == Spec => []MaterialReachesAll
<1>1. LInv => MaterialReachesAll
  BY DEF LInv
<1>. QED
  BY LinkInvariance, <1>1, PTL
=============================================================================
