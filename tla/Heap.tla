-------------------------------- MODULE Heap --------------------------------
(***************************************************************************)
(* What alloc::alloc::GlobalAlloc promises its callers and each allocator  *)
(* under allocator/ has to deliver: a block that is handed out lies in the *)
(* heap, is aligned as its layout asks, and overlaps no block that is in   *)
(* use.  A request may also be refused (a null pointer), which changes     *)
(* nothing.                                                                *)
(***************************************************************************)
EXTENDS Integers

CONSTANTS HeapStart, HeapEnd,  \* the heap is HeapStart .. HeapEnd - 1
          Layouts              \* the layouts that are requested

VARIABLE live  \* the blocks in use

Layout(b) == [size |-> b.size, align |-> b.align]

Disjoint(b, c) == b.start + b.size <= c.start \/ c.start + c.size <= b.start

Init == live = {}

Alloc(l, s) ==
  LET b == [start |-> s, size |-> l.size, align |-> l.align] IN
  /\ HeapStart <= s /\ s + l.size <= HeapEnd
  /\ s % l.align = 0
  /\ \A c \in live : Disjoint(b, c)
  /\ live' = live \cup {b}

Dealloc(b) == b \in live /\ live' = live \ {b}

Next ==
  \/ \E l \in Layouts, s \in HeapStart .. HeapEnd : Alloc(l, s)
  \/ \E b \in live : Dealloc(b)

Spec == Init /\ [][Next]_live
=============================================================================
