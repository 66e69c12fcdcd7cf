---------------------------- MODULE MCObjParser ----------------------------
(* ObjParser for all files of four vertices, a normal and up to MaxLines   *)
(* more lines: group lines, ignored lines, lines that do not parse, and    *)
(* faces that are flat, smooth, with too few normals, too small, or with   *)
(* an index out of bounds.                                                 *)
EXTENDS ObjParser, SequencesExt

CONSTANT MaxLines

Other(cmd) == [cmd |-> cmd, ok |-> TRUE, indices |-> <<>>, normals |-> <<>>]
FaceLine(i, n) == [cmd |-> "f", ok |-> TRUE, indices |-> i, normals |-> n]
Bad(cmd) == [Other(cmd) EXCEPT !.ok = FALSE]

Header == <<Other("v"), Other("v"), Other("vn"), Other("v"), Other("v")>>

MoreLines ==
  {Other("g"), Other("ignored"), Other("short"), Bad("v"), Bad("f"),
   FaceLine(<<1, 2, 3>>, <<>>), FaceLine(<<1, 2, 3, 4>>, <<>>),
   FaceLine(<<4, 3, 2>>, <<1, 1, 1>>), FaceLine(<<2, 3, 4>>, <<1>>),
   FaceLine(<<1, 2>>, <<>>), FaceLine(<<1, 2, 5>>, <<>>)}

MCFiles == {Header \o s : s \in BoundedSeq(MoreLines, MaxLines)}
=============================================================================
