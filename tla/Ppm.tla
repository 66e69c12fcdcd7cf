-------------------------------- MODULE Ppm --------------------------------
(***************************************************************************)
(* ppm_from_canvas (ppm.odin): the body of a plain PPM file.  The colour   *)
(* components of each row are printed one after the other, on lines of at  *)
(* most PPM_MAX_LINE_LENGTH characters; the encoder keeps the length of    *)
(* the current line in a counter of its own.                               *)
(*                                                                         *)
(* A component is a number of parts of one, Scale of them making one; NaN  *)
(* is left out, and so is the header of the file.  The text is not put     *)
(* together: "printed" has an entry per number, and "chars" the length of  *)
(* each line.                                                              *)
(***************************************************************************)
EXTENDS Integers, Sequences

CONSTANTS
  Width, Height,         \* c.width, c.height
  Components,            \* the values a colour component may have
  Scale,
  PPM_MAX_LINE_LENGTH

ASSUME SizeAssumption == Width \in Nat \ {0} /\ Height \in Nat
ASSUME ComponentsAssumption == Components \subseteq Int /\ Scale \in Nat \ {0}
ASSUME LineAssumption == PPM_MAX_LINE_LENGTH \in Nat /\ PPM_MAX_LINE_LENGTH >= 4

VARIABLES
  canvas,                \* the components, row after row
  y, e,                  \* the loops over the rows and their components
  current_line_length,
  printed,               \* for each number: its value, its line, whether a
                         \* space stands before it
  chars                  \* the characters on each line, the current one last

vars == <<canvas, y, e, current_line_length, printed, chars>>

PPM_ELEMENT_RESOLUTION == 255
RowLength == 3 * Width
Index(row, element) == row * RowLength + element + 1

Init ==
  /\ canvas \in [1 .. Height * RowLength -> Components]
  /\ y = 0 /\ e = 0
  /\ current_line_length = 0
  /\ printed = <<>>
  /\ chars = <<0>>

-----------------------------------------------------------------------------
MutantClamp(c) == c

Clamp(c) == IF c < 0 THEN 0 ELSE IF c > Scale THEN Scale ELSE c

(* int(ceil(PPM_ELEMENT_RESOLUTION * clamp(e, 0, 1))) *)
IntValue(c) == (PPM_ELEMENT_RESOLUTION * Clamp(c) + Scale - 1) \div Scale

MutantLength(n) == 2 + (IF n > 10 THEN 1 ELSE 0) + (IF n > 99 THEN 1 ELSE 0)

(* What the encoder takes to be the length of a number and a space.        *)
Length(n) == 2 + (IF n > 9 THEN 1 ELSE 0) + (IF n > 99 THEN 1 ELSE 0)

(* How many characters fmt prints for a number below 1000. *)
Digits(n) == IF n < 10 THEN 1 ELSE IF n < 100 THEN 2 ELSE 3

(* "%v" or " %v" is printed at the end of a text of these lines.           *)
PrintNumber(n, space, lines) ==
  LET last == Len(lines) IN
  /\ printed' = Append(printed, [value |-> n, line |-> last, space |-> space])
  /\ chars' = [lines EXCEPT ![last] = @ + Digits(n) + (IF space THEN 1 ELSE 0)]

(* The number does not fit with its space: it goes to a new line.          *)
Break(n) ==
  /\ current_line_length + Length(n) > PPM_MAX_LINE_LENGTH
  /\ PrintNumber(n, FALSE, Append(chars, 0))
  /\ current_line_length' = Length(n) - 1

MutantFirst(n) ==
  /\ current_line_length + Length(n) <= PPM_MAX_LINE_LENGTH
  /\ current_line_length = 0
  /\ PrintNumber(n, FALSE, chars)
  /\ current_line_length' = Length(n)

(* The first number of a line, after the newline of the row before.        *)
First(n) ==
  /\ current_line_length + Length(n) <= PPM_MAX_LINE_LENGTH
  /\ current_line_length = 0
  /\ PrintNumber(n, FALSE, chars)
  /\ current_line_length' = Length(n) - 1

Follow(n) ==
  /\ current_line_length + Length(n) <= PPM_MAX_LINE_LENGTH
  /\ current_line_length # 0
  /\ PrintNumber(n, TRUE, chars)
  /\ current_line_length' = current_line_length + Length(n)

AppendElement ==
  /\ y < Height /\ e < RowLength
  /\ LET n == IntValue(canvas[Index(y, e)]) IN Break(n) \/ First(n) \/ Follow(n)
  /\ e' = e + 1
  /\ UNCHANGED <<canvas, y>>

MutantEndRow ==
  /\ y < Height /\ e = RowLength
  /\ chars' = Append(chars, 0)
  /\ y' = y + 1 /\ e' = 0
  /\ UNCHANGED <<canvas, printed, current_line_length>>

(* The newline at the end of a row. *)
EndRow ==
  /\ y < Height /\ e = RowLength
  /\ chars' = Append(chars, 0)
  /\ current_line_length' = 0
  /\ y' = y + 1 /\ e' = 0
  /\ UNCHANGED <<canvas, printed>>

Terminated == y = Height /\ UNCHANGED vars

Next == AppendElement \/ EndRow \/ Terminated

Spec == Init /\ [][Next]_vars

-----------------------------------------------------------------------------
(* Properties.                                                             *)

Numbers == DOMAIN printed

TypeOK ==
  /\ y \in 0 .. Height
  /\ e \in 0 .. RowLength
  /\ current_line_length \in 0 .. PPM_MAX_LINE_LENGTH
  /\ printed \in Seq([value : 0 .. 255, line : Nat \ {0}, space : BOOLEAN])
  /\ chars \in Seq(Nat)

(* No line of the file is longer than PPM_MAX_LINE_LENGTH characters, as   *)
(* the format demands, although the encoder never looks at what it wrote.  *)
LinesAreShort == \A l \in DOMAIN chars : chars[l] <= PPM_MAX_LINE_LENGTH

(* Nor is a line broken too early: the number after a break within a row   *)
(* would not have fitted on the line before.                               *)
LinesAreFull ==
  \A k \in Numbers :
    k > 1 /\ printed[k].line # printed[k - 1].line /\ (k - 1) % RowLength # 0
      => chars[printed[k - 1].line] + 1 + Digits(printed[k].value)
           > PPM_MAX_LINE_LENGTH

(* n of 255 is the smallest step not below the component, cut to 0 .. 1.   *)
Represents(n, c) ==
  /\ n \in 0 .. 255
  /\ c > 0 /\ c <= Scale => (n - 1) * Scale < 255 * c /\ 255 * c <= n * Scale
  /\ c <= 0 => n = 0
  /\ c > Scale => n = 255

(* A reader gets the canvas back, in order: two numbers on a line have a   *)
(* space between them, a line starts with a number, and a row of the image *)
(* starts on a line of its own.                                            *)
ImageIsReadable ==
  /\ Len(printed) = y * RowLength + e
  /\ \A k \in Numbers :
       LET first == k = 1 \/ printed[k].line # printed[k - 1].line IN
       /\ Represents(printed[k].value, canvas[k])
       /\ printed[k].space <=> ~first
       /\ (k - 1) % RowLength = 0 => first
=============================================================================
