---------------------------- MODULE MCFixedSize -----------------------------
(***************************************************************************)
(* The fixed size block allocator with two of the block sizes of the code  *)
(* and a heap of 80 bytes.                                                 *)
(***************************************************************************)
EXTENDS FixedSizeBlock

TwoSizes == <<16, 32>>

\* Larger than its alignment, smaller than its alignment, and too large for
\* a block.
SomeLayouts == { [size |-> 9, align |-> 4], [size |-> 2, align |-> 32],
                 [size |-> 40, align |-> 16] }
=============================================================================
