----------------------------- MODULE PpmProofs -----------------------------
(***************************************************************************)
(* Proofs about Ppm, for every size of the canvas, every set of components *)
(* and every maximal length of a line.                                     *)
(***************************************************************************)
EXTENDS Ppm, TLAPS

Entries == [value : 0 .. 255, line : Nat \ {0}, space : BOOLEAN]

(* The encoder's counter is the length of the current line.                *)
CounterInv ==
  /\ Len(chars) >= 1
  /\ chars[Len(chars)] = current_line_length
  /\ current_line_length = 0 <=> e = 0
  /\ y = Height => e = 0

(* The numbers are on lines that follow each other, the last one on the    *)
(* current line or, at the start of a row, before it.                      *)
OrderInv ==
  /\ \A k \in Numbers : printed[k].line <= Len(chars)
  /\ \A k \in Numbers : k > 1 => printed[k - 1].line <= printed[k].line
  /\ printed # <<>> => (e = 0 <=> printed[Len(printed)].line < Len(chars))

IInv ==
  /\ TypeOK
  /\ canvas \in [1 .. Height * RowLength -> Components]
  /\ CounterInv
  /\ OrderInv
  /\ LinesAreShort
  /\ LinesAreFull
  /\ ImageIsReadable

-----------------------------------------------------------------------------
(* Facts about the operators.                                              *)

LEMMA RowLengthFacts == RowLength \in Nat /\ RowLength >= 3
BY SizeAssumption DEF RowLength

(* The quotient is within one divisor of the dividend. *)
LEMMA DivisionFacts ==
  ASSUME NEW n \in Int, NEW h \in Int, n > 0, h >= 0
  PROVE  /\ h \div n \in Nat
         /\ (h \div n) * n <= h
         /\ h < (h \div n) * n + n
<1>1. h \div n \in Int /\ h \div n >= 0
  OBVIOUS
<1>2. (h \div n) * n <= h
  OBVIOUS
<1>3. h < (h \div n) * n + n
  OBVIOUS
<1>. QED
  BY <1>1, <1>2, <1>3

(* An index is the start of a row exactly if nothing of its row precedes.  *)
LEMMA RowStart ==
  ASSUME NEW r \in Nat, NEW d \in Nat, NEW n \in Nat, d < n
  PROVE  (r * n + d) % n = d
  OBVIOUS

(* The conversion represents every component by a number of 0 .. 255.      *)
LEMMA IntValueFacts ==
  ASSUME NEW c \in Components
  PROVE  IntValue(c) \in 0 .. 255 /\ Represents(IntValue(c), c)
<1>. DEFINE b == Clamp(c)
            h == 255 * b + Scale - 1
            q == h \div Scale
<1>1. c \in Int /\ Scale \in Nat /\ Scale > 0
  BY ComponentsAssumption
<1>2. b \in Int /\ 0 <= b /\ b <= Scale
  BY <1>1 DEF Clamp
<1>3. h \in Int /\ h >= 0
  BY <1>1, <1>2
<1>4. q \in Nat /\ q * Scale <= h /\ h < q * Scale + Scale
  BY <1>1, <1>3, DivisionFacts
<1>5. IntValue(c) = q
  BY DEF IntValue, PPM_ELEMENT_RESOLUTION
<1>6. (c <= 0 => b = 0) /\ (c > Scale => b = Scale) /\ (c > 0 /\ c <= Scale => b = c)
  BY <1>1 DEF Clamp
<1>7. h = 255 * b + Scale - 1
  OBVIOUS
<1>. HIDE DEF b, h, q
<1>8. q * Scale \in Int /\ (q - 1) * Scale = q * Scale - Scale
  BY <1>1, <1>4
<1>9. (q - 1) * Scale < 255 * b /\ 255 * b <= q * Scale
  BY <1>1, <1>2, <1>3, <1>4, <1>8, <1>7
<1>10. q <= 255
  <2>1. SUFFICES ASSUME q - 1 >= 255 PROVE FALSE
    BY <1>4
  <2>2. (q - 1) * Scale >= 255 * Scale
    BY <2>1, <1>1, <1>4
  <2>. QED
    BY <2>2, <1>1, <1>2, <1>8, <1>9
<1>11. b = 0 => q = 0
  <2>1. SUFFICES ASSUME b = 0, q - 1 >= 0 PROVE FALSE
    BY <1>4
  <2>2. (q - 1) * Scale >= 0
    BY <2>1, <1>1, <1>4
  <2>. QED
    BY <2>1, <2>2, <1>1, <1>2, <1>4, <1>8, <1>9
<1>12. b = Scale => q = 255
  <2>1. SUFFICES ASSUME b = Scale, q <= 254 PROVE q = 255
    BY <1>4, <1>10
  <2>2. q * Scale <= 254 * Scale
    BY <2>1, <1>1, <1>4
  <2>. QED
    BY <2>1, <2>2, <1>1, <1>8, <1>9
<1>. QED
  BY <1>1, <1>4, <1>9, <1>10, <1>11, <1>12, <1>5, <1>6 DEF Represents

(* The counter knows the length of a number. *)
LEMMA LengthFacts ==
  ASSUME NEW n \in 0 .. 255
  PROVE  Length(n) = Digits(n) + 1 /\ Digits(n) \in 1 .. 3
BY DEF Length, Digits

(* The index of the next component, and that it exists. *)
LEMMA IndexFacts ==
  ASSUME TypeOK, y < Height, e < RowLength
  PROVE  /\ Index(y, e) \in 1 .. Height * RowLength
         /\ Index(y, e) = y * RowLength + e + 1
         /\ y * RowLength \in Nat
<1>1. RowLength \in Nat /\ y \in Nat /\ Height \in Nat /\ e \in Nat /\ y + 1 <= Height
  BY RowLengthFacts, SizeAssumption DEF TypeOK
<1>. DEFINE n == RowLength
<1>. HIDE DEF n
<1>2. (y + 1) * n <= Height * n
  BY <1>1 DEF n
<1>3. /\ (y + 1) * n = y * n + n
      /\ y * n \in Nat
      /\ Height * n \in Nat
  BY <1>1 DEF n
<1>4. Index(y, e) = y * n + e + 1 /\ e < n /\ n \in Nat
  BY <1>1 DEF n, Index
<1>. QED
  BY <1>1, <1>2, <1>3, <1>4 DEF n

-----------------------------------------------------------------------------
(* IInv is inductive.                                                      *)

LEMMA InitInv == Init => IInv
<1>. SUFFICES ASSUME Init PROVE IInv
  OBVIOUS
<1>. USE DEF Init
<1>1. TypeOK
  BY RowLengthFacts, SizeAssumption, LineAssumption DEF TypeOK
<1>2. CounterInv
  BY DEF CounterInv
<1>3. OrderInv
  BY DEF OrderInv, Numbers
<1>4. LinesAreShort
  BY LineAssumption DEF LinesAreShort
<1>5. LinesAreFull
  BY DEF LinesAreFull, Numbers
<1>6. ImageIsReadable
  BY RowLengthFacts DEF ImageIsReadable, Numbers
<1>. QED
  BY <1>1, <1>2, <1>3, <1>4, <1>5, <1>6 DEF IInv

(* Printing adds one entry and lengthens the last line.                    *)
LEMMA PrintFacts ==
  ASSUME NEW n \in 0 .. 255, NEW space \in BOOLEAN, NEW lines \in Seq(Nat),
         Len(lines) >= 1, printed \in Seq(Entries), PrintNumber(n, space, lines)
  PROVE  /\ printed' \in Seq(Entries)
         /\ Len(printed') = Len(printed) + 1
         /\ \A k \in 1 .. Len(printed) : printed'[k] = printed[k]
         /\ printed'[Len(printed) + 1]
              = [value |-> n, line |-> Len(lines), space |-> space]
         /\ chars' \in Seq(Nat)
         /\ Len(chars') = Len(lines)
         /\ \A l \in 1 .. Len(lines) - 1 : chars'[l] = lines[l]
         /\ chars'[Len(lines)]
              = lines[Len(lines)] + Digits(n) + (IF space THEN 1 ELSE 0)
<1>. DEFINE entry == [value |-> n, line |-> Len(lines), space |-> space]
            gap == IF space THEN 1 ELSE 0
            size == lines[Len(lines)] + Digits(n) + gap
<1>1. entry \in Entries
  BY DEF Entries
<1>2. printed' = Append(printed, entry)
  BY DEF PrintNumber
<1>3. size \in Nat
  <2>1. gap \in {0, 1}
    OBVIOUS
  <2>. HIDE DEF gap
  <2>2. lines[Len(lines)] \in Nat
    OBVIOUS
  <2>3. Digits(n) \in 1 .. 3
    BY LengthFacts
  <2>. QED
    BY <2>1, <2>2, <2>3
<1>4. chars' = [lines EXCEPT ![Len(lines)] = size]
  BY DEF PrintNumber
<1>. HIDE DEF entry, size
<1>5. /\ chars' \in Seq(Nat)
      /\ Len(chars') = Len(lines)
      /\ \A l \in 1 .. Len(lines) - 1 : chars'[l] = lines[l]
      /\ chars'[Len(lines)] = size
  BY <1>3, <1>4
<1>6. /\ printed' \in Seq(Entries)
      /\ Len(printed') = Len(printed) + 1
      /\ \A k \in 1 .. Len(printed) : printed'[k] = printed[k]
      /\ printed'[Len(printed) + 1] = entry
  BY <1>1, <1>2
<1>. QED
  BY <1>5, <1>6 DEF entry, size

(* What the three ways to print a number have in common.                   *)
LEMMA AppendFacts ==
  ASSUME IInv, NEW n \in 0 .. 255, e < RowLength, Break(n) \/ First(n) \/ Follow(n)
  PROVE  /\ printed' \in Seq(Entries)
         /\ Len(printed') = Len(printed) + 1
         /\ \A k \in 1 .. Len(printed) : printed'[k] = printed[k]
         /\ printed'[Len(printed) + 1].value = n
         /\ printed'[Len(printed) + 1].line = Len(chars')
         /\ printed'[Len(printed) + 1].space <=> Len(chars') = Len(chars) /\ e # 0
         /\ chars' \in Seq(Nat)
         /\ Len(chars') >= Len(chars)
         /\ e = 0 => Len(chars') = Len(chars)
         /\ \A l \in 1 .. Len(chars) : l < Len(chars') => chars'[l] = chars[l]
         /\ Len(chars') <= Len(chars) + 1
         /\ chars'[Len(chars')] = current_line_length'
         /\ current_line_length' \in 1 .. PPM_MAX_LINE_LENGTH
         /\ Len(chars') # Len(chars) =>
              chars[Len(chars)] + 1 + Digits(n) > PPM_MAX_LINE_LENGTH
<1>1. /\ printed \in Seq(Entries) /\ chars \in Seq(Nat)
      /\ Len(chars) \in Nat /\ Len(chars) >= 1
      /\ chars[Len(chars)] = current_line_length
      /\ current_line_length = 0 <=> e = 0
      /\ current_line_length \in 0 .. PPM_MAX_LINE_LENGTH
  BY DEF IInv, TypeOK, CounterInv, Entries
<1>2. Length(n) = Digits(n) + 1 /\ Digits(n) \in 1 .. 3
  BY LengthFacts
<1>3. CASE Break(n)
  <2>. DEFINE lines == Append(chars, 0)
  <2>1. /\ lines \in Seq(Nat) /\ Len(lines) = Len(chars) + 1
        /\ lines[Len(chars) + 1] = 0
        /\ \A l \in 1 .. Len(chars) : lines[l] = chars[l]
    BY <1>1
  <2>2. /\ PrintNumber(n, FALSE, lines)
        /\ current_line_length' = Length(n) - 1
        /\ current_line_length + Length(n) > PPM_MAX_LINE_LENGTH
    BY <1>3 DEF Break
  <2>. HIDE DEF lines
  <2>3. e # 0
    BY <2>2, <1>1, <1>2, LineAssumption
  <2>4. lines \in Seq(Nat) /\ Len(lines) >= 1
    BY <2>1, <1>1
  <2>5. /\ printed' \in Seq(Entries)
        /\ Len(printed') = Len(printed) + 1
        /\ \A k \in 1 .. Len(printed) : printed'[k] = printed[k]
        /\ printed'[Len(printed) + 1]
             = [value |-> n, line |-> Len(lines), space |-> FALSE]
        /\ chars' \in Seq(Nat)
        /\ Len(chars') = Len(lines)
        /\ \A l \in 1 .. Len(lines) - 1 : chars'[l] = lines[l]
        /\ chars'[Len(lines)] = lines[Len(lines)] + Digits(n) + 0
    BY <2>4, <2>2, <1>1, PrintFacts
  <2>6. Len(chars') # Len(chars) /\ ~printed'[Len(printed) + 1].space
    BY <2>1, <2>5, <1>1
  <2>7. current_line_length' \in 1 .. PPM_MAX_LINE_LENGTH
    BY <2>2, <1>2, LineAssumption
  <2>8. lines[Len(lines)] = 0
    BY <2>1, <1>1
  <2>9. chars'[Len(chars')] = current_line_length'
    BY <2>2, <2>5, <2>8, <1>2
  <2>10. chars[Len(chars)] + 1 + Digits(n) > PPM_MAX_LINE_LENGTH
    BY <2>2, <1>1, <1>2, LineAssumption
  <2>. QED
    BY <2>1, <2>3, <2>5, <2>6, <2>7, <2>9, <2>10, <1>1, SMTT(60)
<1>4. CASE First(n)
  <2>1. /\ PrintNumber(n, FALSE, chars)
        /\ current_line_length' = Length(n) - 1
        /\ current_line_length = 0
    BY <1>4 DEF First
  <2>2. /\ printed' \in Seq(Entries)
        /\ Len(printed') = Len(printed) + 1
        /\ \A k \in 1 .. Len(printed) : printed'[k] = printed[k]
        /\ printed'[Len(printed) + 1]
             = [value |-> n, line |-> Len(chars), space |-> FALSE]
        /\ chars' \in Seq(Nat)
        /\ Len(chars') = Len(chars)
        /\ \A l \in 1 .. Len(chars) - 1 : chars'[l] = chars[l]
        /\ chars'[Len(chars)] = chars[Len(chars)] + Digits(n) + 0
    BY <2>1, <1>1, <1>2, PrintFacts
  <2>3. e = 0 /\ ~printed'[Len(printed) + 1].space
    BY <2>1, <2>2, <1>1
  <2>4. /\ current_line_length' \in 1 .. PPM_MAX_LINE_LENGTH
        /\ chars'[Len(chars')] = current_line_length'
    BY <2>1, <2>2, <1>1, <1>2, LineAssumption, SMTT(60)
  <2>. QED
    BY <2>2, <2>3, <2>4, <1>1, SMTT(60)
<1>5. CASE Follow(n)
  <2>1. /\ PrintNumber(n, TRUE, chars)
        /\ current_line_length' = current_line_length + Length(n)
        /\ current_line_length # 0
        /\ current_line_length + Length(n) <= PPM_MAX_LINE_LENGTH
    BY <1>5 DEF Follow
  <2>2. /\ printed' \in Seq(Entries)
        /\ Len(printed') = Len(printed) + 1
        /\ \A k \in 1 .. Len(printed) : printed'[k] = printed[k]
        /\ printed'[Len(printed) + 1]
             = [value |-> n, line |-> Len(chars), space |-> TRUE]
        /\ chars' \in Seq(Nat)
        /\ Len(chars') = Len(chars)
        /\ \A l \in 1 .. Len(chars) - 1 : chars'[l] = chars[l]
        /\ chars'[Len(chars)] = chars[Len(chars)] + Digits(n) + 1
    BY <2>1, <1>1, <1>2, PrintFacts
  <2>3. e # 0 /\ printed'[Len(printed) + 1].space
    BY <2>1, <2>2, <1>1
  <2>4. /\ current_line_length' \in 1 .. PPM_MAX_LINE_LENGTH
        /\ chars'[Len(chars')] = current_line_length'
    BY <2>1, <2>2, <1>1, <1>2, LineAssumption, SMTT(60)
  <2>. QED
    BY <2>2, <2>3, <2>4, <1>1, SMTT(60)
<1>. QED
  BY <1>3, <1>4, <1>5

LEMMA AppendElementInv == IInv /\ AppendElement => IInv'
<1>. SUFFICES ASSUME IInv, AppendElement PROVE IInv'
  OBVIOUS
<1>. DEFINE c == canvas[Index(y, e)]
            n == IntValue(c)
            new == Len(printed) + 1
<1>1. /\ y < Height /\ e < RowLength
      /\ e' = e + 1 /\ y' = y /\ canvas' = canvas
      /\ Break(n) \/ First(n) \/ Follow(n)
  BY DEF AppendElement
<1>2. TypeOK /\ CounterInv /\ OrderInv /\ LinesAreShort /\ LinesAreFull /\ ImageIsReadable
  BY DEF IInv
<1>3. /\ RowLength \in Nat /\ RowLength >= 3 /\ Height \in Nat
      /\ y \in Nat /\ e \in Nat
      /\ printed \in Seq(Entries) /\ chars \in Seq(Nat)
  BY <1>2, RowLengthFacts, SizeAssumption DEF TypeOK, Entries
<1>4. /\ Index(y, e) \in 1 .. Height * RowLength
      /\ Index(y, e) = y * RowLength + e + 1
      /\ y * RowLength \in Nat
  BY <1>1, <1>2, IndexFacts
<1>5. c \in Components /\ n \in 0 .. 255 /\ Represents(n, c)
  BY <1>4, IntValueFacts DEF IInv
<1>6. Len(printed) = y * RowLength + e /\ new = Index(y, e)
  BY <1>2, <1>4 DEF ImageIsReadable
<1>7. (new - 1) % RowLength = e
  BY <1>1, <1>3, <1>4, <1>6, RowStart
<1>8. c = canvas[new]
  BY <1>6
<1>. HIDE DEF c, n
<1>9. /\ printed' \in Seq(Entries)
      /\ Len(printed') = new
      /\ \A k \in 1 .. Len(printed) : printed'[k] = printed[k]
      /\ printed'[new].value = n
      /\ printed'[new].line = Len(chars')
      /\ printed'[new].space <=> Len(chars') = Len(chars) /\ e # 0
  BY <1>1, <1>5, AppendFacts
<1>10. /\ chars' \in Seq(Nat)
       /\ Len(chars') >= Len(chars)
       /\ e = 0 => Len(chars') = Len(chars)
       /\ \A l \in 1 .. Len(chars) : l < Len(chars') => chars'[l] = chars[l]
       /\ Len(chars') <= Len(chars) + 1
       /\ chars'[Len(chars')] = current_line_length'
       /\ current_line_length' \in 1 .. PPM_MAX_LINE_LENGTH
       /\ Len(chars') # Len(chars) =>
            chars[Len(chars)] + 1 + Digits(n) > PPM_MAX_LINE_LENGTH
  BY <1>1, <1>5, AppendFacts
<1>11. /\ Len(printed) \in Nat /\ Numbers = 1 .. Len(printed) /\ Numbers' = 1 .. new
       /\ Len(chars) \in Nat /\ Len(chars) >= 1 /\ Len(chars') \in Nat
       /\ \A k \in Numbers : printed[k].line \in 1 .. Len(chars)
  <2>1. /\ Len(printed) \in Nat /\ Numbers = 1 .. Len(printed)
        /\ Numbers' = 1 .. Len(printed')
        /\ Len(chars) \in Nat /\ Len(chars) >= 1 /\ Len(chars') \in Nat
    BY <1>2, <1>3, <1>9, <1>10 DEF Numbers, CounterInv
  <2>2. ASSUME NEW k \in Numbers PROVE printed[k].line \in 1 .. Len(chars)
    <3>1. printed[k] \in Entries
      BY <2>1, <1>3
    <3>2. printed[k].line \in Nat \ {0}
      BY <3>1 DEF Entries
    <3>. QED
      BY <2>1, <3>2, <1>2 DEF OrderInv
  <2>. QED
    BY <2>1, <2>2, <1>9
<1>. HIDE DEF new
<1>12. new = Len(printed) + 1
  BY DEF new
(* The line of the number before the new one. *)
<1>13. new > 1 => /\ new - 1 \in Numbers
                  /\ printed'[new - 1] = printed[new - 1]
                  /\ printed[new - 1].line \in 1 .. Len(chars)
                  /\ e = 0 <=> printed[new - 1].line < Len(chars)
  BY <1>2, <1>3, <1>9, <1>11, <1>12 DEF OrderInv
<1>14. TypeOK'
  BY <1>1, <1>2, <1>3, <1>9, <1>10 DEF TypeOK, Entries
<1>15. CounterInv'
  BY <1>1, <1>2, <1>3, <1>10, <1>11 DEF CounterInv
(* The lines of the numbers that were there before. *)
<1>16. \A k \in Numbers :
         /\ k \in Numbers' /\ k # new /\ printed'[k] = printed[k]
         /\ k > 1 => k - 1 \in Numbers /\ printed'[k - 1] = printed[k - 1]
  BY <1>9, <1>11, <1>12
<1>17. \A k \in Numbers' : k = new \/ k \in Numbers
  BY <1>11, <1>12
<1>18. OrderInv'
  <2>1. ASSUME NEW k \in Numbers'
        PROVE  /\ printed'[k].line <= Len(chars')
               /\ k > 1 => printed'[k - 1].line <= printed'[k].line
    <3>1. CASE k \in Numbers
      <4>1. /\ printed[k].line \in 1 .. Len(chars)
            /\ k > 1 => printed[k - 1].line <= printed[k].line
        BY <3>1, <1>2, <1>11 DEF OrderInv
      <4>2. /\ printed'[k] = printed[k]
            /\ k > 1 => printed'[k - 1] = printed[k - 1]
        BY <3>1, <1>16
      <4>. QED
        BY <4>1, <4>2, <1>10, <1>11
    <3>2. CASE k = new
      BY <3>2, <1>9, <1>10, <1>11, <1>13
    <3>. QED
      BY <3>1, <3>2, <1>17
  <2>2. ~(e' = 0) /\ printed'[Len(printed')].line = Len(chars')
    BY <1>1, <1>3, <1>9
  <2>. QED
    BY <2>1, <2>2, <1>11 DEF OrderInv
<1>19. LinesAreShort'
  <2>1. ASSUME NEW l \in DOMAIN chars' PROVE chars'[l] <= PPM_MAX_LINE_LENGTH
    <3>1. l \in 1 .. Len(chars')
      BY <1>10
    <3>2. CASE l = Len(chars')
      BY <3>2, <1>10, LineAssumption
    <3>3. CASE l # Len(chars')
      <4>1. l \in 1 .. Len(chars) /\ l < Len(chars')
        BY <3>1, <3>3, <1>10, <1>11
      <4>2. chars'[l] = chars[l]
        BY <4>1, <1>10
      <4>. QED
        BY <4>1, <4>2, <1>2, <1>3 DEF LinesAreShort
    <3>. QED
      BY <3>2, <3>3
  <2>. QED
    BY <2>1 DEF LinesAreShort
<1>20. LinesAreFull'
  <2>1. SUFFICES ASSUME NEW k \in Numbers', k > 1,
                        printed'[k].line # printed'[k - 1].line,
                        (k - 1) % RowLength # 0
                 PROVE  chars'[printed'[k - 1].line] + 1 + Digits(printed'[k].value)
                          > PPM_MAX_LINE_LENGTH
    BY DEF LinesAreFull
  <2>2. CASE k \in Numbers
    <3>1. /\ printed[k].line # printed[k - 1].line
          /\ printed[k - 1].line <= printed[k].line
          /\ printed[k].line \in 1 .. Len(chars)
          /\ printed[k - 1].line \in 1 .. Len(chars)
      BY <2>1, <2>2, <1>2, <1>11, <1>16 DEF OrderInv
    <3>. DEFINE l == printed[k - 1].line
                m == printed[k].line
    <3>2. l # m /\ l <= m /\ m \in 1 .. Len(chars) /\ l \in 1 .. Len(chars)
      BY <3>1
    <3>. HIDE DEF l, m
    <3>3. l < Len(chars')
      BY <3>2, <1>10, <1>11
    <3>4. chars'[l] = chars[l]
      BY <3>2, <3>3, <1>10
    <3>. QED
      BY <2>1, <2>2, <3>1, <3>4, <1>2, <1>16 DEF LinesAreFull, l
  <2>3. CASE k = new
    <3>1. e # 0
      BY <2>1, <2>3, <1>7
    <3>2. printed[k - 1].line = Len(chars) /\ printed'[k - 1] = printed[k - 1]
      BY <2>1, <2>3, <3>1, <1>11, <1>13
    <3>3. Len(chars') # Len(chars)
      BY <2>1, <2>3, <3>2, <1>9
    <3>4. chars'[Len(chars)] = chars[Len(chars)]
      BY <3>3, <1>10, <1>11
    <3>. QED
      BY <2>3, <3>2, <3>3, <3>4, <1>9, <1>10
  <2>. QED
    BY <2>2, <2>3, <1>17
<1>21. ImageIsReadable'
  <2>1. ASSUME NEW k \in Numbers',
               NEW first, first = (k = 1 \/ printed'[k].line # printed'[k - 1].line)
        PROVE  /\ Represents(printed'[k].value, canvas'[k])
               /\ printed'[k].space <=> ~first
               /\ (k - 1) % RowLength = 0 => first
    <3>1. CASE k \in Numbers
      <4>1. first = (k = 1 \/ printed[k].line # printed[k - 1].line)
        BY <2>1, <3>1, <1>11, <1>16
      <4>2. /\ Represents(printed[k].value, canvas[k])
            /\ printed[k].space <=> ~first
            /\ (k - 1) % RowLength = 0 => first
        BY <3>1, <4>1, <1>2 DEF ImageIsReadable
      <4>. QED
        BY <3>1, <4>2, <1>1, <1>16
    <3>2. CASE k = new
      <4>1. Represents(printed'[k].value, canvas'[k])
        BY <3>2, <1>1, <1>5, <1>8, <1>9
      <4>2. CASE e = 0
        <5>1. first
          <6>1. CASE new = 1
            BY <2>1, <3>2, <6>1
          <6>2. CASE new > 1
            <7>1. printed'[k - 1].line < Len(chars)
              BY <3>2, <4>2, <6>2, <1>13
            <7>2. printed'[k].line = Len(chars)
              BY <3>2, <4>2, <1>9, <1>10
            <7>3. printed'[k].line # printed'[k - 1].line
              BY <7>1, <7>2, <1>11
            <7>. QED
              BY <2>1, <7>3
          <6>. QED
            BY <6>1, <6>2, <1>11, <1>12
        <5>. QED
          BY <3>2, <4>1, <4>2, <5>1, <1>9
      <4>3. CASE e # 0
        <5>1. new > 1
          BY <4>3, <1>3, <1>4, <1>6, <1>12
        <5>2. printed[new - 1].line = Len(chars)
          BY <4>3, <5>1, <1>11, <1>13
        <5>3. first = (Len(chars') # Len(chars))
          BY <2>1, <3>2, <5>1, <5>2, <1>9, <1>13
        <5>. QED
          BY <3>2, <4>1, <4>3, <5>3, <1>7, <1>9
      <4>. QED
        BY <4>2, <4>3
    <3>. QED
      BY <3>1, <3>2, <1>17
  <2>2. Len(printed') = y' * RowLength + e'
    BY <1>1, <1>3, <1>4, <1>6, <1>9, <1>12
  <2>. QED
    BY <2>1, <2>2 DEF ImageIsReadable
<1>. QED
  BY <1>1, <1>2, <1>14, <1>15, <1>18, <1>19, <1>20, <1>21 DEF IInv

LEMMA EndRowInv == IInv /\ EndRow => IInv'
<1>. SUFFICES ASSUME IInv, EndRow PROVE IInv'
  OBVIOUS
<1>1. /\ y < Height /\ e = RowLength
      /\ chars' = Append(chars, 0) /\ current_line_length' = 0
      /\ y' = y + 1 /\ e' = 0 /\ canvas' = canvas /\ printed' = printed
  BY DEF EndRow
<1>2. TypeOK /\ CounterInv /\ OrderInv /\ LinesAreShort /\ LinesAreFull /\ ImageIsReadable
  BY DEF IInv
<1>3. /\ RowLength \in Nat /\ RowLength >= 3 /\ Height \in Nat /\ y \in Nat
      /\ printed \in Seq(Entries) /\ chars \in Seq(Nat) /\ Len(chars) \in Nat
  BY <1>2, RowLengthFacts, SizeAssumption DEF TypeOK, Entries
<1>4. /\ chars' \in Seq(Nat) /\ Len(chars') = Len(chars) + 1
      /\ chars'[Len(chars) + 1] = 0
      /\ \A l \in 1 .. Len(chars) : chars'[l] = chars[l]
  BY <1>1, <1>3
<1>5. /\ Numbers' = Numbers /\ Numbers = 1 .. Len(printed) /\ Len(printed) \in Nat
      /\ \A k \in Numbers : printed[k].line \in Nat
  <2>1. Numbers' = Numbers /\ Numbers = 1 .. Len(printed) /\ Len(printed) \in Nat
    BY <1>1, <1>3 DEF Numbers
  <2>2. ASSUME NEW k \in Numbers PROVE printed[k].line \in Nat
    <3>1. printed[k] \in Entries
      BY <2>1, <1>3
    <3>. QED
      BY <3>1 DEF Entries
  <2>. QED
    BY <2>1, <2>2
<1>6. TypeOK'
  BY <1>1, <1>2, <1>3, <1>4, LineAssumption DEF TypeOK, Entries
<1>7. CounterInv'
  BY <1>1, <1>3, <1>4, <1>2 DEF CounterInv
<1>8. OrderInv'
  <2>1. \A k \in Numbers' : printed'[k].line <= Len(chars')
    BY <1>1, <1>2, <1>3, <1>4, <1>5 DEF OrderInv
  <2>2. \A k \in Numbers' : k > 1 => printed'[k - 1].line <= printed'[k].line
    BY <1>1, <1>2, <1>5 DEF OrderInv
  <2>3. printed' # <<>> => printed'[Len(printed')].line < Len(chars')
    <3>1. SUFFICES ASSUME printed # <<>> PROVE printed[Len(printed)].line < Len(chars')
      BY <1>1
    <3>2. Len(printed) \in Numbers
      BY <3>1, <1>3, <1>5
    <3>. QED
      BY <3>2, <1>2, <1>3, <1>4, <1>5 DEF OrderInv
  <2>. QED
    BY <2>1, <2>2, <2>3, <1>1 DEF OrderInv
<1>9. LinesAreShort'
  <2>1. ASSUME NEW l \in DOMAIN chars' PROVE chars'[l] <= PPM_MAX_LINE_LENGTH
    <3>1. l \in 1 .. Len(chars) \/ l = Len(chars) + 1
      BY <1>3, <1>4
    <3>. QED
      BY <3>1, <1>2, <1>3, <1>4, LineAssumption DEF LinesAreShort
  <2>. QED
    BY <2>1 DEF LinesAreShort
<1>10. LinesAreFull'
  <2>1. SUFFICES ASSUME NEW k \in Numbers, k > 1,
                        printed[k].line # printed[k - 1].line,
                        (k - 1) % RowLength # 0
                 PROVE  chars'[printed[k - 1].line] + 1 + Digits(printed[k].value)
                          > PPM_MAX_LINE_LENGTH
    BY <1>1, <1>5 DEF LinesAreFull
  <2>2. k - 1 \in Numbers
    BY <2>1, <1>5
  <2>3. printed[k - 1] \in Entries /\ printed[k - 1].line <= Len(chars)
    BY <2>2, <1>2, <1>3, <1>5 DEF OrderInv
  <2>4. printed[k - 1].line \in 1 .. Len(chars)
    BY <2>3, <1>3 DEF Entries
  <2>5. chars'[printed[k - 1].line] = chars[printed[k - 1].line]
    BY <2>4, <1>4
  <2>. QED
    BY <2>1, <2>5, <1>2 DEF LinesAreFull
<1>11. ImageIsReadable'
  <2>1. (y + 1) * RowLength = y * RowLength + RowLength /\ y * RowLength \in Nat
    BY <1>3
  <2>2. Len(printed') = y' * RowLength + e'
    BY <2>1, <1>1, <1>2, <1>3 DEF ImageIsReadable
  <2>. QED
    BY <2>2, <1>1, <1>2, <1>5 DEF ImageIsReadable
<1>. QED
  BY <1>1, <1>6, <1>7, <1>8, <1>9, <1>10, <1>11 DEF IInv

LEMMA StutterInv == IInv /\ UNCHANGED vars => IInv'
BY DEF vars, IInv, TypeOK, CounterInv, OrderInv, LinesAreShort, LinesAreFull,
       ImageIsReadable, Numbers

(* The inductive invariant holds in every reachable state. *)
THEOREM Invariance == Spec => []IInv
<1>1. IInv /\ [Next]_vars => IInv'
  BY AppendElementInv, EndRowInv, StutterInv DEF Next, Terminated
<1>. QED
  BY <1>1, InitInv, PTL DEF Spec

-----------------------------------------------------------------------------
(* What follows from it.                                                   *)

(* Type correctness: every number that is printed is in 0 .. 255, for      *)
(* every canvas.                                                           *)
THEOREM TypeCorrect == Spec => []TypeOK
<1>1. IInv => TypeOK
  BY DEF IInv
<1>. QED
  BY <1>1, Invariance, PTL

(* No line is too long, for every canvas and every maximal length.         *)
THEOREM ShortLines == Spec => []LinesAreShort
<1>1. IInv => LinesAreShort
  BY DEF IInv
<1>. QED
  BY <1>1, Invariance, PTL

(* No line is broken before it has to be. *)
THEOREM FullLines == Spec => []LinesAreFull
<1>1. IInv => LinesAreFull
  BY DEF IInv
<1>. QED
  BY <1>1, Invariance, PTL

(* What is printed is the canvas: each component, in order, separated from *)
(* its neighbours, each row on lines of its own.                           *)
THEOREM ReadableImage == Spec => []ImageIsReadable
<1>1. IInv => ImageIsReadable
  BY DEF IInv
<1>. QED
  BY <1>1, Invariance, PTL
=============================================================================
