------------------------------ MODULE MCMemory ------------------------------
(***************************************************************************)
(* A small instance of Memory.                                             *)
(***************************************************************************)
EXTENDS Memory

\* A map with two usable regions around one that is in use; nine frames are
\* not enough for the whole heap and its tables.
SplitMap == << [start |-> 0, end |-> 1, type |-> "FrameZero"],
               [start |-> 1, end |-> 4, type |-> "Usable"],
               [start |-> 4, end |-> 6, type |-> "Kernel"],
               [start |-> 6, end |-> 12, type |-> "Usable"] >>

SixPages == 0 .. 5
=============================================================================
