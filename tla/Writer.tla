------------------------------- MODULE Writer -------------------------------
(***************************************************************************)
(* vga_buffer/print.rs: the Writer behind WRITER puts bytes on the VGA     *)
(* text buffer from the top, and scrolls once the bottom is reached.  The  *)
(* mutex is held for a whole _print, so bytes are written one after the    *)
(* other.                                                                  *)
(***************************************************************************)
EXTENDS Integers, Sequences, FiniteSets

CONSTANTS Width, Height,  \* BUFFER_WIDTH and BUFFER_HEIGHT
          Printable       \* the printable ASCII bytes

Rows == 0 .. Height - 1
Cols == 0 .. Width - 1

\* What is shown for the bytes that are neither printable nor a newline.
Box    == "0xfe"
Glyphs == Printable \cup {Box}

\* What a cell holds besides: what was there at boot, or a blank of clear_row.
Boot  == "boot"
Blank == "blank"

ASSUME WriterAssumption ==
  /\ Width \in Nat \ {0} /\ Height \in Nat \ {0}
  /\ Boot \notin Printable /\ Blank \notin Printable

VARIABLES row_position, column_position, chars

vars == <<row_position, column_position, chars>>

-----------------------------------------------------------------------------
Init ==
  /\ row_position = 0
  /\ column_position = 0
  /\ chars = [r \in Rows |-> [c \in Cols |-> Boot]]

\* A cursor and the buffer, as a value.
Screen == [row |-> row_position, col |-> column_position, chars |-> chars]

\* Mutation: the copying starts a row too late.
Mut_Scrolled_top(ch) ==
  [r \in Rows |-> IF r = Height - 1 THEN [c \in Cols |-> Blank]
                  ELSE IF r = 0 THEN ch[0] ELSE ch[r + 1]]

\* Every row moves up by one and clear_row blanks the last one.
Scrolled(ch) ==
  [r \in Rows |-> IF r = Height - 1 THEN [c \in Cols |-> Blank] ELSE ch[r + 1]]

\* Mutation: the screen scrolls one row too late.
Mut_New_line(s) ==
  IF s.row < Height
    THEN [s EXCEPT !.row = @ + 1, !.col = 0]
    ELSE [row |-> Height - 1, col |-> 0, chars |-> Scrolled(s.chars)]

\* new_line
New_line(s) ==
  IF s.row < Height - 1
    THEN [s EXCEPT !.row = @ + 1, !.col = 0]
    ELSE [row |-> Height - 1, col |-> 0, chars |-> Scrolled(s.chars)]

\* write_byte starts a new line when the current one is full.
Wrapped(s) == IF s.col >= Width THEN New_line(s) ELSE s

Put_glyph(s, g) ==
  [s EXCEPT !.chars[s.row][s.col] = g, !.col = @ + 1]

\* write_byte for a byte other than the newline.
Write_byte(s, g) == Put_glyph(Wrapped(s), g)

Set(s) ==
  row_position' = s.row /\ column_position' = s.col /\ chars' = s.chars

\* write_string, byte by byte.
Write_newline == Set(New_line(Screen))

Write_printable(b) == Set(Write_byte(Screen, b))

Write_other == Set(Write_byte(Screen, Box))

Next ==
  \/ Write_newline
  \/ \E b \in Printable : Write_printable(b)
  \/ Write_other

Spec == Init /\ [][Next]_vars

-----------------------------------------------------------------------------
\* Every variable stays within the values the code gives it; the cursor may
\* rest behind the last column, never below the last row.
TypeOK ==
  /\ row_position \in Rows
  /\ column_position \in 0 .. Width
  /\ chars \in [Rows -> [Cols -> Glyphs \cup {Boot, Blank}]]

\* The text of a row of a screen: the glyphs on it, from left to right.
Text(s, r) ==
  LET n == Cardinality({c \in Cols : s.chars[r][c] \in Glyphs})
  IN  [i \in 1 .. n |-> s.chars[r][i - 1]]

\* The lines a reader sees, down to the cursor.
Shown(s) == [i \in 1 .. s.row + 1 |-> Text(s, i - 1)]

T == INSTANCE Terminal WITH lines <- Shown(Screen)

\* The screen is a terminal: wrapping, scrolling and the move from the
\* filling to the scrolling screen lose, repeat or leave behind nothing.
ImplementsTerminal == T!Spec
=============================================================================
