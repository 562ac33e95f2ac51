------------------------------- MODULE MCBump -------------------------------
(***************************************************************************)
(* The bump allocator with a usize of eight bits and a heap of 24 bytes.   *)
(***************************************************************************)
EXTENDS BumpAllocator

SomeLayouts == [size : {3, 8}, align : {1, 8}]
=============================================================================
