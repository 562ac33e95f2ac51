------------------------------ MODULE Terminal ------------------------------
(***************************************************************************)
(* What a reader of the screen expects of print! and println!: the screen  *)
(* shows the last Height lines of the output, lines are broken at Width,   *)
(* and nothing of what was written stays behind elsewhere.                 *)
(***************************************************************************)
EXTENDS Naturals, Sequences

CONSTANTS Width, Height, Glyphs

VARIABLE lines  \* the visible lines, the one being written last

Init == lines = << << >> >>

\* One more line; the oldest one leaves a full screen.
NewLine(ls, l) == Append(IF Len(ls) < Height THEN ls ELSE Tail(ls), l)

Put(g) ==
  LET last == lines[Len(lines)] IN
  lines' = IF Len(last) < Width
             THEN [lines EXCEPT ![Len(lines)] = Append(last, g)]
             ELSE NewLine(lines, <<g>>)

Break == lines' = NewLine(lines, << >>)

Next == Break \/ \E g \in Glyphs : Put(g)

Spec == Init /\ [][Next]_lines
=============================================================================
