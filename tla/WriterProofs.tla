---------------------------- MODULE WriterProofs ----------------------------
(***************************************************************************)
(* The Writer is a terminal, for every screen size and set of printable    *)
(* bytes.  The operations of print.rs are operators on screens, so most    *)
(* facts here are about screens and not about states.                      *)
(***************************************************************************)
EXTENDS Writer, SequenceTheorems, FiniteSetTheorems, TLAPS

-----------------------------------------------------------------------------
(***************************************************************************)
(* The inductive invariant.                                                *)
(***************************************************************************)
Cells   == Glyphs \cup {Boot, Blank}
Screens == [row : Rows, col : 0 .. Width, chars : [Rows -> [Cols -> Cells]]]

\* The glyphs of a row are its first n cells.
Filled(s, r, n) == \A c \in Cols : s.chars[r][c] \in Glyphs <=> c < n

\* Glyphs stand at the left of every row, those of the current one before the
\* cursor, and there are none below it.
Good(s) ==
  /\ s \in Screens
  /\ \A r \in Rows : \E n \in 0 .. Width : Filled(s, r, n)
  /\ Filled(s, s.row, s.col)
  /\ \A r \in Rows : r > s.row => Filled(s, r, 0)

WriterInv == Good(Screen)

-----------------------------------------------------------------------------
(***************************************************************************)
(* The text of a row, and what is shown.                                   *)
(***************************************************************************)
LEMMA Sizes ==
  /\ Width \in Nat \ {0} /\ Height \in Nat \ {0}
  /\ Blank \notin Glyphs /\ Boot \notin Glyphs /\ Blank \in Cells
<1>1. Box # Boot /\ Box # Blank
  BY DEF Box, Boot, Blank
<1> QED BY <1>1, WriterAssumption DEF Glyphs, Cells

LEMMA TextOfRow ==
  ASSUME NEW s \in Screens, NEW r \in Rows, NEW n \in 0 .. Width, Filled(s, r, n)
  PROVE  /\ Text(s, r) = [i \in 1 .. n |-> s.chars[r][i - 1]]
         /\ Text(s, r) \in Seq(Glyphs) /\ Len(Text(s, r)) = n
         /\ \A i \in 1 .. n : Text(s, r)[i] = s.chars[r][i - 1]
<1>1. n \in Nat /\ Width \in Nat
  BY Sizes
<1>2. {c \in Cols : s.chars[r][c] \in Glyphs} = 0 .. n - 1
  BY <1>1 DEF Filled, Cols
<1>3. Cardinality(0 .. n - 1) = n
  <2>1. 0 \in Int /\ n - 1 \in Int
    BY <1>1
  <2>2. Cardinality(0 .. n - 1) = IF 0 > n - 1 THEN 0 ELSE (n - 1) - 0 + 1
    BY <2>1, FS_Interval
  <2> QED BY <1>1, <2>2
<1>4. Text(s, r) = [i \in 1 .. n |-> s.chars[r][i - 1]]
  BY <1>2, <1>3 DEF Text
<1>5. ASSUME NEW i \in 1 .. n PROVE s.chars[r][i - 1] \in Glyphs
  <2>1. i - 1 \in Cols /\ i - 1 < n
    BY <1>1 DEF Cols
  <2> QED BY <2>1 DEF Filled
<1>6. Text(s, r) \in [1 .. n -> Glyphs]
  BY <1>4, <1>5
<1>7. Text(s, r) \in Seq(Glyphs) /\ Len(Text(s, r)) = n
  BY <1>1, <1>6
<1> QED BY <1>4, <1>7

LEMMA ShownLines ==
  ASSUME NEW s, Good(s)
  PROVE  /\ Shown(s) \in Seq(Seq(Glyphs)) /\ Len(Shown(s)) = s.row + 1
         /\ \A i \in 1 .. s.row + 1 : Shown(s)[i] = Text(s, i - 1)
         /\ s.row \in Rows /\ s.row + 1 \in 1 .. Height
         /\ Len(Shown(s)[s.row + 1]) = s.col
<1>1. s \in Screens /\ s.row \in Rows /\ s.col \in 0 .. Width /\ s.row + 1 \in 1 .. Height
  BY Sizes DEF Good, Screens, Rows
<1>2. ASSUME NEW i \in 1 .. s.row + 1 PROVE Text(s, i - 1) \in Seq(Glyphs)
  <2>1. i - 1 \in Rows
    BY <1>1, Sizes DEF Rows
  <2> QED BY <1>1, <2>1, TextOfRow DEF Good
<1>3. /\ Shown(s) \in [1 .. s.row + 1 -> Seq(Glyphs)]
      /\ \A i \in 1 .. s.row + 1 : Shown(s)[i] = Text(s, i - 1)
  BY <1>2 DEF Shown
<1>4. Shown(s) \in Seq(Seq(Glyphs)) /\ Len(Shown(s)) = s.row + 1
  <2>1. s.row + 1 \in Nat
    BY <1>1
  <2> HIDE DEF Shown
  <2> QED BY <1>3, <2>1
<1>5. Shown(s)[s.row + 1] = Text(s, s.row)
  <2>1. s.row + 1 \in 1 .. s.row + 1 /\ (s.row + 1) - 1 = s.row
    BY <1>1 DEF Rows
  <2> QED BY <1>3, <2>1
<1>6. Len(Text(s, s.row)) = s.col
  BY <1>1, TextOfRow DEF Good
<1> QED BY <1>1, <1>3, <1>4, <1>5, <1>6

-----------------------------------------------------------------------------
(***************************************************************************)
(* new_line.                                                               *)
(***************************************************************************)
\* The text of a row depends on its cells only.
LEMMA SameCells ==
  ASSUME NEW s, NEW t, NEW r, NEW q, s.chars[r] = t.chars[q]
  PROVE  Text(s, r) = Text(t, q) /\ \A n : Filled(s, r, n) <=> Filled(t, q, n)
BY DEF Text, Filled

LEMMA EmptyText ==
  ASSUME NEW s \in Screens, NEW r \in Rows, Filled(s, r, 0)
  PROVE  Text(s, r) = << >>
<1>1. 0 \in 0 .. Width
  BY Sizes
<1>2. Text(s, r) \in Seq(Glyphs) /\ Len(Text(s, r)) = 0
  BY <1>1, TextOfRow
<1> QED BY <1>2, EmptySeq

\* Before the bottom the cursor goes to the next row, which is empty.
LEMMA NewLineBelow ==
  ASSUME NEW s, Good(s), s.row < Height - 1
  PROVE  /\ Good(New_line(s)) /\ New_line(s).col = 0
         /\ Shown(New_line(s)) = Append(Shown(s), << >>)
<1> DEFINE t == New_line(s)
<1>1. /\ s \in Screens /\ s.row \in Rows /\ s.row + 1 \in Rows
      /\ Width \in Nat /\ Height \in Nat \ {0}
  BY Sizes DEF Good, Screens, Rows
<1>2. t \in Screens /\ t.row = s.row + 1 /\ t.col = 0 /\ t.chars = s.chars
  <2>1. t = [s EXCEPT !.row = s.row + 1, !.col = 0]
    BY DEF New_line
  <2>2. 0 \in 0 .. Width
    BY <1>1
  <2> HIDE DEF t
  <2> QED BY <1>1, <2>1, <2>2 DEF Screens
<1> HIDE DEF t
<1>3. \A r \in Rows, n \in Nat : Filled(t, r, n) <=> Filled(s, r, n)
  BY <1>2, SameCells
<1>4. Filled(t, t.row, 0) /\ \A r \in Rows : r > t.row => Filled(t, r, 0)
  BY <1>1, <1>2, <1>3 DEF Good, Rows
<1>5. Good(t)
  <2>1. \A r \in Rows : \E n \in 0 .. Width : Filled(t, r, n)
    BY <1>3 DEF Good
  <2> QED BY <1>2, <1>4, <2>1 DEF Good
<1>6. /\ Shown(s) \in Seq(Seq(Glyphs)) /\ Len(Shown(s)) = s.row + 1
      /\ \A i \in 1 .. s.row + 1 : Shown(s)[i] = Text(s, i - 1)
  BY ShownLines
<1>7. /\ Shown(t) \in Seq(Seq(Glyphs)) /\ Len(Shown(t)) = s.row + 2
      /\ \A i \in 1 .. s.row + 2 : Shown(t)[i] = Text(t, i - 1)
  <2>1. t.row + 1 = s.row + 2
    BY <1>1, <1>2 DEF Rows
  <2> QED BY <1>5, <2>1, ShownLines
<1> DEFINE a == Append(Shown(s), << >>)
<1>8. /\ a \in Seq(Seq(Glyphs)) /\ Len(a) = s.row + 2 /\ a[s.row + 2] = << >>
      /\ \A i \in 1 .. s.row + 1 : a[i] = Shown(s)[i]
  <2>1. << >> \in Seq(Glyphs)
    BY EmptySeq
  <2>2. s.row \in Nat
    BY <1>1 DEF Rows
  <2> DEFINE e == << >>
  <2> HIDE DEF e
  <2>3. /\ Append(Shown(s), e) \in Seq(Seq(Glyphs)) /\ Len(Append(Shown(s), e)) = s.row + 2
        /\ Append(Shown(s), e)[s.row + 2] = e
        /\ \A i \in 1 .. s.row + 1 : Append(Shown(s), e)[i] = Shown(s)[i]
    BY <1>6, <2>1, <2>2 DEF e
  <2> QED BY <2>3 DEF e
<1> HIDE DEF a
<1>9. ASSUME NEW i \in 1 .. s.row + 2 PROVE Shown(t)[i] = a[i]
  <2>1. CASE i \in 1 .. s.row + 1
    <3>1. Text(t, i - 1) = Text(s, i - 1)
      BY <1>2, SameCells
    <3> QED BY <1>6, <1>7, <1>8, <2>1, <3>1
  <2>2. CASE i = s.row + 2
    <3>1. i - 1 = t.row /\ t.row \in Rows
      BY <1>1, <1>2, <2>2 DEF Rows
    <3>2. Text(t, t.row) = << >>
      BY <1>2, <1>4, <3>1, EmptyText
    <3> QED BY <1>7, <1>8, <2>2, <3>1, <3>2
  <2> QED BY <1>1, <2>1, <2>2 DEF Rows
<1>10. Shown(t) = a
  BY <1>7, <1>8, <1>9, SeqEqual
<1> QED BY <1>2, <1>5, <1>10 DEF t, a

\* At the bottom the rows move up, and the last one is blank.
LEMMA NewLineScrolls ==
  ASSUME NEW s, Good(s), ~(s.row < Height - 1)
  PROVE  /\ Good(New_line(s)) /\ New_line(s).col = 0
         /\ Shown(New_line(s)) = Append(Tail(Shown(s)), << >>)
         /\ Len(Shown(s)) = Height
<1> DEFINE t == New_line(s)
<1>1. /\ s \in Screens /\ s.row = Height - 1 /\ s.row \in Rows
      /\ Width \in Nat /\ Height \in Nat \ {0}
  BY Sizes DEF Good, Screens, Rows
<1>2. t = [row |-> Height - 1, col |-> 0, chars |-> Scrolled(s.chars)]
  BY DEF New_line
<1>3. /\ t.row = Height - 1 /\ t.col = 0
      /\ t.chars = [r \in Rows |-> IF r = Height - 1 THEN [c \in Cols |-> Blank]
                                                     ELSE s.chars[r + 1]]
  BY <1>2 DEF Scrolled
<1>4. t \in Screens
  <2>1. t.chars \in [Rows -> [Cols -> Cells]]
    <3>1. [c \in Cols |-> Blank] \in [Cols -> Cells]
      BY Sizes
    <3>2. ASSUME NEW r \in Rows, r # Height - 1 PROVE s.chars[r + 1] \in [Cols -> Cells]
      <4>1. r + 1 \in Rows
        BY <1>1, <3>2 DEF Rows
      <4> QED BY <1>1, <4>1 DEF Screens
    <3> QED BY <1>3, <3>1, <3>2
  <2>2. t.row \in Rows /\ t.col \in 0 .. Width
    BY <1>1, <1>3
  <2> QED BY <1>2, <1>3, <2>1, <2>2 DEF Screens
<1> HIDE DEF t
<1>5. ASSUME NEW r \in Rows, r # Height - 1
      PROVE  r + 1 \in Rows /\ t.chars[r] = s.chars[r + 1]
  BY <1>1, <1>3, <1>5 DEF Rows
<1>6. Filled(t, Height - 1, 0)
  <2>1. \A c \in Cols : t.chars[Height - 1][c] = Blank /\ ~(c < 0)
    BY <1>1, <1>3 DEF Cols
  <2> QED BY <2>1, Sizes DEF Filled
<1>7. Good(t)
  <2>1. ASSUME NEW r \in Rows PROVE \E n \in 0 .. Width : Filled(t, r, n)
    <3>1. CASE r = Height - 1
      BY <1>1, <1>6, <3>1
    <3>2. CASE r # Height - 1
      <4>1. PICK n \in 0 .. Width : Filled(s, r + 1, n)
        BY <1>5, <3>2 DEF Good
      <4>2. Filled(t, r, n)
        BY <1>5, <3>2, <4>1, SameCells
      <4> QED BY <4>2
    <3> QED BY <3>1, <3>2
  <2>2. \A r \in Rows : ~(r > t.row)
    BY <1>1, <1>3 DEF Rows
  <2>3. Filled(t, t.row, t.col)
    BY <1>3, <1>6
  <2> QED BY <1>4, <2>1, <2>2, <2>3 DEF Good
<1>8. /\ Shown(s) \in Seq(Seq(Glyphs)) /\ Len(Shown(s)) = Height
      /\ \A i \in 1 .. Height : Shown(s)[i] = Text(s, i - 1)
  <2>1. s.row + 1 = Height
    BY <1>1
  <2> QED BY <2>1, ShownLines
<1>9. /\ Shown(t) \in Seq(Seq(Glyphs)) /\ Len(Shown(t)) = Height
      /\ \A i \in 1 .. Height : Shown(t)[i] = Text(t, i - 1)
  <2>1. t.row + 1 = Height
    BY <1>1, <1>3
  <2> QED BY <1>7, <2>1, ShownLines
<1> DEFINE b == Tail(Shown(s))
<1>10. /\ b \in Seq(Seq(Glyphs)) /\ Len(b) = Height - 1
       /\ \A i \in 1 .. Height - 1 : b[i] = Shown(s)[i + 1]
  <2>1. Shown(s) # << >>
    BY <1>1, <1>8, EmptySeq
  <2> QED BY <1>8, <2>1, HeadTailProperties
<1> HIDE DEF b
<1> DEFINE a == Append(b, << >>)
<1>11. /\ a \in Seq(Seq(Glyphs)) /\ Len(a) = Height /\ a[Height] = << >>
       /\ \A i \in 1 .. Height - 1 : a[i] = b[i]
  <2>1. << >> \in Seq(Glyphs)
    BY EmptySeq
  <2> DEFINE e == << >>
  <2> HIDE DEF e
  <2>2. /\ Append(b, e) \in Seq(Seq(Glyphs)) /\ Len(Append(b, e)) = Height
        /\ Append(b, e)[Height] = e
        /\ \A i \in 1 .. Height - 1 : Append(b, e)[i] = b[i]
    BY <1>1, <1>10, <2>1 DEF e
  <2> QED BY <2>2 DEF e
<1> HIDE DEF a
<1>12. ASSUME NEW i \in 1 .. Height PROVE Shown(t)[i] = a[i]
  <2>1. CASE i \in 1 .. Height - 1
    <3>1. i - 1 \in Rows /\ i - 1 # Height - 1 /\ (i - 1) + 1 = (i + 1) - 1
      BY <1>1, <2>1 DEF Rows
    <3>2. Text(t, i - 1) = Text(s, (i + 1) - 1)
      BY <1>5, <3>1, SameCells
    <3>3. i + 1 \in 1 .. Height
      BY <1>1, <2>1
    <3>4. Shown(s)[i + 1] = Text(s, (i + 1) - 1)
      BY <1>8, <3>3
    <3> QED BY <1>9, <1>10, <1>11, <2>1, <3>2, <3>4
  <2>2. CASE i = Height
    <3>1. Text(t, Height - 1) = << >>
      BY <1>1, <1>4, <1>6, EmptyText
    <3> QED BY <1>9, <1>11, <2>2, <3>1
  <2> QED BY <1>1, <2>1, <2>2
<1>13. Shown(t) = a
  BY <1>9, <1>11, <1>12, SeqEqual
<1> QED BY <1>3, <1>7, <1>8, <1>13 DEF t, a, b

LEMMA NewLineShows ==
  ASSUME NEW s, Good(s)
  PROVE  /\ Good(New_line(s)) /\ New_line(s).col = 0
         /\ Shown(New_line(s)) = T!NewLine(Shown(s), << >>)
<1>1. Height \in Nat /\ s.row \in Nat /\ Len(Shown(s)) = s.row + 1
  BY Sizes, ShownLines DEF Rows
<1>2. CASE s.row < Height - 1
  <2>1. Len(Shown(s)) < Height
    BY <1>1, <1>2
  <2> QED BY <1>2, <2>1, NewLineBelow DEF T!NewLine
<1>3. CASE ~(s.row < Height - 1)
  <2>1. ~(Len(Shown(s)) < Height)
    BY <1>1, <1>3
  <2> QED BY <1>3, <2>1, NewLineScrolls DEF T!NewLine
<1> QED BY <1>2, <1>3

-----------------------------------------------------------------------------
(***************************************************************************)
(* write_byte.                                                             *)
(***************************************************************************)
\* The glyph goes behind the text of the current row.
LEMMA PutShows ==
  ASSUME NEW s, Good(s), s.col < Width, NEW g \in Glyphs
  PROVE  /\ Good(Put_glyph(s, g))
         /\ Shown(Put_glyph(s, g)) = [Shown(s) EXCEPT ![s.row + 1] = Append(Shown(s)[s.row + 1], g)]
<1> DEFINE t == Put_glyph(s, g)
<1>1. /\ s \in Screens /\ s.row \in Rows /\ s.col \in Cols /\ s.col + 1 \in 0 .. Width
      /\ Width \in Nat /\ Height \in Nat \ {0} /\ g \in Cells
  BY Sizes DEF Good, Screens, Rows, Cols, Cells
<1>2. /\ t.row = s.row /\ t.col = s.col + 1 /\ t.chars = [s.chars EXCEPT ![s.row][s.col] = g]
      /\ t \in Screens
  BY <1>1 DEF Put_glyph, Screens
<1> HIDE DEF t
<1>3. /\ \A r \in Rows : r # s.row => t.chars[r] = s.chars[r]
      /\ \A c \in Cols : t.chars[s.row][c] = IF c = s.col THEN g ELSE s.chars[s.row][c]
  BY <1>1, <1>2 DEF Screens
<1>4. Filled(t, s.row, s.col + 1)
  <2>1. \A c \in Cols : s.chars[s.row][c] \in Glyphs <=> c < s.col
    BY DEF Good, Filled
  <2> QED BY <1>1, <1>3, <2>1 DEF Filled, Cols
<1>5. \A r \in Rows, n \in Nat : r # s.row => (Filled(t, r, n) <=> Filled(s, r, n))
  BY <1>3, SameCells
<1>6. Good(t)
  <2>1. \A r \in Rows : \E n \in 0 .. Width : Filled(t, r, n)
    BY <1>1, <1>4, <1>5 DEF Good
  <2>2. \A r \in Rows : r > t.row => Filled(t, r, 0)
    BY <1>1, <1>2, <1>5 DEF Good, Rows
  <2> QED BY <1>2, <1>4, <2>1, <2>2 DEF Good
<1>7. /\ Shown(s) \in Seq(Seq(Glyphs)) /\ Len(Shown(s)) = s.row + 1
      /\ \A i \in 1 .. s.row + 1 : Shown(s)[i] = Text(s, i - 1)
      /\ s.row \in Nat
  BY ShownLines DEF Rows
<1>8. /\ Shown(t) \in Seq(Seq(Glyphs)) /\ Len(Shown(t)) = s.row + 1
      /\ \A i \in 1 .. s.row + 1 : Shown(t)[i] = Text(t, i - 1)
  BY <1>2, <1>6, ShownLines
<1>9. Text(t, s.row) = Append(Text(s, s.row), g)
  <2>1. /\ Text(s, s.row) \in Seq(Glyphs) /\ Len(Text(s, s.row)) = s.col
        /\ \A i \in 1 .. s.col : Text(s, s.row)[i] = s.chars[s.row][i - 1]
    BY <1>1, TextOfRow DEF Good, Screens
  <2>2. /\ Text(t, s.row) \in Seq(Glyphs) /\ Len(Text(t, s.row)) = s.col + 1
        /\ \A i \in 1 .. s.col + 1 : Text(t, s.row)[i] = t.chars[s.row][i - 1]
    <3> DEFINE n == s.col + 1
    <3>1. n \in 0 .. Width /\ Filled(t, s.row, n) /\ t \in Screens /\ s.row \in Rows
      BY <1>1, <1>2, <1>4
    <3> HIDE DEF n
    <3>2. /\ Text(t, s.row) \in Seq(Glyphs) /\ Len(Text(t, s.row)) = n
          /\ \A i \in 1 .. n : Text(t, s.row)[i] = t.chars[s.row][i - 1]
      BY <3>1, TextOfRow
    <3> QED BY <3>2 DEF n
  <2> DEFINE x == Text(s, s.row)
             y == Text(t, s.row)
             z == Append(x, g)
  <2> HIDE DEF x
  <2>3. /\ z \in Seq(Glyphs) /\ Len(z) = s.col + 1 /\ z[s.col + 1] = g
        /\ \A i \in 1 .. s.col : z[i] = x[i]
    BY <1>1, <2>1 DEF x, Cols
  <2> HIDE DEF y, z
  <2>4. ASSUME NEW i \in 1 .. s.col + 1 PROVE y[i] = z[i]
    <3>1. i - 1 \in Cols /\ y[i] = t.chars[s.row][i - 1]
      BY <1>1, <2>2 DEF y, Cols
    <3>2. CASE i = s.col + 1
      <4>1. i - 1 = s.col
        BY <1>1, <3>2 DEF Cols
      <4> QED BY <1>3, <2>3, <3>1, <3>2, <4>1
    <3>3. CASE i # s.col + 1
      <4>1. i - 1 # s.col /\ i \in 1 .. s.col
        BY <1>1, <3>3 DEF Cols
      <4> QED BY <1>3, <2>1, <2>3, <3>1, <4>1 DEF x
    <3> QED BY <3>2, <3>3
  <2>5. y = z
    BY <2>2, <2>3, <2>4, SeqEqual DEF y
  <2> QED BY <2>5 DEF x, y, z
<1> DEFINE l == Append(Shown(s)[s.row + 1], g)
           a == [Shown(s) EXCEPT ![s.row + 1] = l]
<1>10. s.row + 1 \in 1 .. s.row + 1 /\ (s.row + 1) - 1 = s.row
  BY <1>7
<1>11. l = Text(t, s.row) /\ l \in Seq(Glyphs)
  <2>1. l = Text(t, s.row)
    BY <1>7, <1>9, <1>10
  <2>2. Text(t, s.row) \in Seq(Glyphs)
    BY <1>1, <1>2, <1>4, TextOfRow
  <2> HIDE DEF l
  <2> QED BY <2>1, <2>2
<1> HIDE DEF l
<1>12. /\ a \in Seq(Seq(Glyphs)) /\ Len(a) = s.row + 1
       /\ \A j \in 1 .. s.row + 1 : a[j] = IF j = s.row + 1 THEN l ELSE Shown(s)[j]
  BY <1>7, <1>10, <1>11, ExceptSeq
<1> HIDE DEF a
<1>13. ASSUME NEW i \in 1 .. s.row + 1 PROVE Shown(t)[i] = a[i]
  <2>1. CASE i = s.row + 1
    BY <1>8, <1>10, <1>11, <1>12, <2>1
  <2>2. CASE i # s.row + 1
    <3>1. i - 1 \in Rows /\ i - 1 # s.row
      BY <1>1, <1>7, <2>2 DEF Rows
    <3>2. Text(t, i - 1) = Text(s, i - 1)
      BY <1>3, <3>1, SameCells
    <3> QED BY <1>7, <1>8, <1>12, <2>2, <3>2
  <2> QED BY <2>1, <2>2
<1>14. Shown(t) = a
  BY <1>8, <1>12, <1>13, SeqEqual
<1> QED BY <1>6, <1>14 DEF t, a, l

LEMMA ReplaceLast ==
  ASSUME NEW S, NEW b \in Seq(S), NEW e \in S, NEW x \in S
  PROVE  [Append(b, e) EXCEPT ![Len(b) + 1] = x] = Append(b, x)
<1> DEFINE v == Append(b, e)
           w == Append(b, x)
           n == Len(b) + 1
           p == [v EXCEPT ![n] = x]
<1>1. /\ v \in Seq(S) /\ Len(v) = n /\ n \in 1 .. n
      /\ \A i \in 1 .. n : i # n => v[i] = b[i]
  OBVIOUS
<1>2. w \in Seq(S) /\ Len(w) = n /\ w[n] = x /\ \A i \in 1 .. n : i # n => w[i] = b[i]
  OBVIOUS
<1> HIDE DEF v, w, n
<1>3. /\ p \in Seq(S) /\ Len(p) = Len(v)
      /\ \A i \in 1 .. Len(v) : p[i] = IF i = n THEN x ELSE v[i]
  BY <1>1, ExceptSeq
<1> HIDE DEF p
<1>4. \A i \in 1 .. n : p[i] = w[i]
  BY <1>1, <1>2, <1>3
<1>5. p = w
  BY <1>1, <1>2, <1>3, <1>4, SeqEqual
<1> QED BY <1>5 DEF p, v, w, n

\* A glyph on a full line opens the next one.
LEMMA WriteByteShows ==
  ASSUME NEW s, Good(s), NEW g \in Glyphs
  PROVE  /\ Good(Write_byte(s, g))
         /\ Shown(Write_byte(s, g)) =
              LET last == Shown(s)[Len(Shown(s))] IN
              IF Len(last) < Width
                THEN [Shown(s) EXCEPT ![Len(Shown(s))] = Append(last, g)]
                ELSE T!NewLine(Shown(s), <<g>>)
<1>1. /\ s.row \in Nat /\ s.col \in 0 .. Width /\ Width \in Nat \ {0}
      /\ Len(Shown(s)) = s.row + 1 /\ Len(Shown(s)[s.row + 1]) = s.col
  <2>1. s.row \in Nat /\ s.col \in 0 .. Width /\ Width \in Nat \ {0}
    BY Sizes DEF Good, Screens, Rows
  <2> QED BY <2>1, ShownLines
<1>2. CASE s.col < Width
  <2>1. Write_byte(s, g) = Put_glyph(s, g)
    BY <1>1, <1>2 DEF Write_byte, Wrapped
  <2> QED BY <1>1, <1>2, <2>1, PutShows
<1>3. CASE ~(s.col < Width)
  <2> DEFINE t == New_line(s)
             b == IF Len(Shown(s)) < Height THEN Shown(s) ELSE Tail(Shown(s))
             e == << >>
  <2>1. Write_byte(s, g) = Put_glyph(t, g)
    BY <1>1, <1>3 DEF Write_byte, Wrapped
  <2>2. Good(t) /\ t.col = 0 /\ Shown(t) = Append(b, e)
    BY NewLineShows DEF T!NewLine
  <2> HIDE DEF t, e, b
  <2>3. /\ Good(Put_glyph(t, g))
        /\ Shown(Put_glyph(t, g)) = [Shown(t) EXCEPT ![t.row + 1] = Append(Shown(t)[t.row + 1], g)]
    <3>1. Good(t) /\ t.col < Width
      BY <1>1, <2>2
    <3> QED BY <3>1, PutShows
  <2>4. b \in Seq(Seq(Glyphs)) /\ e \in Seq(Glyphs)
    <3>1. Shown(s) \in Seq(Seq(Glyphs)) /\ Shown(s) # << >>
      BY <1>1, ShownLines, EmptySeq
    <3>2. Tail(Shown(s)) \in Seq(Seq(Glyphs))
      BY <3>1, HeadTailProperties
    <3>3. e \in Seq(Glyphs)
      BY EmptySeq DEF e
    <3> QED BY <3>1, <3>2, <3>3 DEF b
  <2>5. Len(Append(b, e)) = Len(b) + 1 /\ Append(b, e)[Len(b) + 1] = e /\ Len(b) \in Nat
    BY <2>4
  <2>6. t.row + 1 = Len(b) + 1
    BY <2>2, <2>5, ShownLines
  <2>7. Shown(Put_glyph(t, g)) = [Append(b, e) EXCEPT ![Len(b) + 1] = Append(e, g)]
    BY <2>2, <2>3, <2>5, <2>6
  <2>8. Append(e, g) = <<g>>
    BY DEF e
  <2> DEFINE x == <<g>>
             p == [Append(b, e) EXCEPT ![Len(b) + 1] = x]
             q == Append(b, x)
  <2>9. x \in Seq(Glyphs)
    OBVIOUS
  <2> HIDE DEF x
  <2>10. p = q
    BY <2>4, <2>9, ReplaceLast
  <2>11. T!NewLine(Shown(s), <<g>>) = q
    BY DEF T!NewLine, b, x
  <2>12. Shown(Write_byte(s, g)) = T!NewLine(Shown(s), <<g>>)
    BY <2>1, <2>7, <2>8, <2>10, <2>11 DEF x
  <2> QED BY <1>1, <1>3, <2>1, <2>3, <2>12
<1> QED BY <1>2, <1>3

-----------------------------------------------------------------------------
(***************************************************************************)
(* The theorems.                                                           *)
(***************************************************************************)
LEMMA SetScreen ==
  ASSUME NEW s \in Screens, Set(s)
  PROVE  Screen' = s
<1>1. s = [row |-> s.row, col |-> s.col, chars |-> s.chars]
  BY DEF Screens
<1> QED BY <1>1 DEF Set, Screen

\* Every action writes a byte on the screen.
LEMMA NextShows ==
  ASSUME WriterInv, Next
  PROVE  WriterInv' /\ T!Next
<1>1. Good(Screen)
  BY DEF WriterInv
<1>2. CASE Write_newline
  <2> DEFINE t == New_line(Screen)
  <2>1. Good(t) /\ Shown(t) = T!NewLine(Shown(Screen), << >>)
    BY <1>1, NewLineShows
  <2>2. Screen' = t
    BY <1>2, <2>1, SetScreen DEF Write_newline, Good
  <2> HIDE DEF t
  <2>3. Good(Screen')  /\ Shown(Screen') = T!NewLine(Shown(Screen), << >>)
    BY <2>1, <2>2
  <2> QED BY <2>3 DEF WriterInv, T!Next, T!Break, Good, Filled, Shown, Text
<1>3. ASSUME NEW g \in Glyphs, Set(Write_byte(Screen, g)) PROVE WriterInv' /\ T!Next
  <2> DEFINE t == Write_byte(Screen, g)
             last == Shown(Screen)[Len(Shown(Screen))]
             ls == IF Len(last) < Width
                     THEN [Shown(Screen) EXCEPT ![Len(Shown(Screen))] = Append(last, g)]
                     ELSE T!NewLine(Shown(Screen), <<g>>)
  <2>1. Good(t) /\ Shown(t) = ls
    BY <1>1, WriteByteShows
  <2>2. Screen' = t
    BY <1>3, <2>1, SetScreen DEF Good
  <2> HIDE DEF t
  <2>3. Good(Screen') /\ Shown(Screen') = ls
    BY <2>1, <2>2
  <2> QED BY <2>3 DEF WriterInv, T!Next, T!Put, Good, Filled, Shown, Text
<1>4. Box \in Glyphs /\ Printable \subseteq Glyphs
  BY DEF Glyphs
<1> QED BY <1>2, <1>3, <1>4 DEF Next, Write_printable, Write_other

LEMMA InitShows == Init => WriterInv /\ T!Init
<1> SUFFICES ASSUME Init PROVE WriterInv /\ T!Init
  OBVIOUS
<1>1. /\ Screen.row = 0 /\ Screen.col = 0 /\ \A r \in Rows, c \in Cols : Screen.chars[r][c] = Boot
      /\ Screen \in Screens /\ 0 \in Rows /\ 0 \in 0 .. Width
  BY Sizes DEF Init, Screen, Screens, Rows, Cells
<1>2. \A r \in Rows : Filled(Screen, r, 0)
  <2>1. \A c \in Cols : ~(c < 0)
    BY Sizes DEF Cols
  <2> QED BY <1>1, <2>1, Sizes DEF Filled
<1>3. Good(Screen)
  BY <1>1, <1>2 DEF Good
<1>4. Text(Screen, 0) = << >>
  BY <1>1, <1>2, EmptyText
<1>5. Shown(Screen) = << << >> >>
  <2>1. /\ Shown(Screen) \in Seq(Seq(Glyphs)) /\ Len(Shown(Screen)) = 1
        /\ Shown(Screen)[1] = Text(Screen, 0)
    <3> DEFINE v == Screen
    <3> HIDE DEF v
    <3>1. Good(v) /\ v.row = 0
      BY <1>1, <1>3 DEF v
    <3>2. /\ Shown(v) \in Seq(Seq(Glyphs)) /\ Len(Shown(v)) = 0 + 1
          /\ \A i \in 1 .. 0 + 1 : Shown(v)[i] = Text(v, i - 1)
      BY <3>1, ShownLines
    <3>3. Shown(v)[1] = Text(v, 0)
      <4>1. 1 \in 1 .. 0 + 1 /\ 1 - 1 = 0
        OBVIOUS
      <4> QED BY <3>2, <4>1
    <3> QED BY <3>2, <3>3 DEF v
  <2> DEFINE e == << >>
  <2>2. e \in Seq(Glyphs)
    BY EmptySeq
  <2> HIDE DEF e
  <2>3. <<e>> \in Seq(Seq(Glyphs)) /\ Len(<<e>>) = 1 /\ <<e>>[1] = e
    BY <2>2
  <2>4. Shown(Screen)[1] = e
    BY <1>4, <2>1 DEF e
  <2> DEFINE x == Shown(Screen)
             y == <<e>>
  <2> HIDE DEF x, y
  <2>5. x = y
    <3>1. \A i \in 1 .. 1 : x[i] = y[i]
      BY <2>3, <2>4 DEF x, y
    <3> QED BY <2>1, <2>3, <3>1, SeqEqual DEF x, y
  <2> QED BY <2>5 DEF x, y, e
<1> QED BY <1>3, <1>5 DEF WriterInv, T!Init

\* On every row of the buffer the glyphs stand at the left, in the current row
\* before column_position, and new_line never moves to a row with old text.
THEOREM WriterIsInvariant == Spec => []WriterInv
<1>1. Init => WriterInv
  BY InitShows
<1>2. WriterInv /\ [Next]_vars => WriterInv'
  <2> SUFFICES ASSUME WriterInv, [Next]_vars PROVE WriterInv'
    OBVIOUS
  <2>1. CASE Next
    BY <2>1, NextShows
  <2>2. CASE UNCHANGED vars
    <3>1. Screen' = Screen
      BY <2>2 DEF vars, Screen
    <3>2. Good(Screen')
      BY <3>1 DEF WriterInv
    <3> QED BY <3>2 DEF WriterInv, Good, Filled
  <2> QED BY <2>1, <2>2
<1> QED BY <1>1, <1>2, PTL DEF Spec

\* write_byte and new_line stay inside the buffer.
THEOREM WriterTypeOK == Spec => []TypeOK
<1>1. WriterInv => TypeOK
  BY DEF WriterInv, Good, Screens, Screen, TypeOK, Cells
<1> QED BY <1>1, WriterIsInvariant, PTL

\* The screen shows the last lines of what was printed: write_byte and new_line
\* lose, repeat and leave behind nothing when they wrap and scroll.
THEOREM WriterImplementsTerminal == Spec => ImplementsTerminal
<1>1. Init => T!Init
  BY InitShows
<1>2. WriterInv /\ [Next]_vars => [T!Next]_(Shown(Screen))
  <2> SUFFICES ASSUME WriterInv, [Next]_vars PROVE [T!Next]_(Shown(Screen))
    OBVIOUS
  <2>1. CASE Next
    BY <2>1, NextShows
  <2>2. CASE UNCHANGED vars
    BY <2>2 DEF vars, Screen, Shown, Text
  <2> QED BY <2>1, <2>2
<1> QED BY <1>1, <1>2, WriterIsInvariant, PTL DEF Spec, ImplementsTerminal, T!Spec
=============================================================================
