---------------------------- MODULE MCLinkedList ----------------------------
(***************************************************************************)
(* The linked list allocator with the node of the code, 16 bytes at        *)
(* multiples of 8, on a small heap that is aligned for nodes only.         *)
(***************************************************************************)
EXTENDS LinkedListAllocator

SomeLayouts == { [size |-> 1, align |-> 1], [size |-> 20, align |-> 4],
                 [size |-> 8, align |-> 32] }
=============================================================================
