------------------------ MODULE LinkedListAllocator ------------------------
(***************************************************************************)
(* allocator/linked_list.rs: the free regions form a list whose nodes are  *)
(* stored in the regions themselves; an allocation takes the first region  *)
(* that is suitable and gives its end back.  Each operation runs under the *)
(* mutex of Locked, so it is one step.                                     *)
(***************************************************************************)
EXTENDS Align, Sequences, SequencesExt

CONSTANTS HeapStart, HeapSize,
          Layouts,   \* [size, align] records
          NodeSize,  \* mem::size_of::<ListNode>(), 16
          NodeAlign  \* mem::align_of::<ListNode>(), 8

\* The heap has room for a node and is aligned for one, and is nowhere near the
\* top of the address space; the size of a node is a multiple of its alignment,
\* and of two alignments, both powers of two, one divides the other.  No size
\* comes so near to isize::MAX, half of usize::MAX, that the expect of
\* size_align could panic.
ASSUME ListAssumption ==
  /\ HeapStart \in Nat /\ HeapSize \in Nat
  /\ NodeSize \in Nat \ {0} /\ NodeAlign \in Nat \ {0} /\ NodeSize % NodeAlign = 0
  /\ HeapStart % NodeAlign = 0 /\ NodeSize <= HeapSize
  /\ HeapStart + HeapSize + NodeAlign <= UsizeMax
  /\ \A l \in Layouts :
       /\ l \in [size : Nat \ {0}, align : Nat \ {0}]
       /\ 2 * (l.size + NodeAlign) <= UsizeMax /\ l.size + l.align <= UsizeMax
       /\ HeapStart + HeapSize + l.align <= UsizeMax
       /\ IF l.align < NodeAlign THEN NodeAlign % l.align = 0 ELSE l.align % NodeAlign = 0

VARIABLES
  free,  \* the list behind head: [addr, size] records, the first one first
  live,  \* the blocks in use, with the layouts they were requested with
  pc,    \* "new" before init, "panic" after a failed assertion, else "ready"
  lost   \* history: the bytes dropped as padding in front of aligned blocks

vars == <<free, live, pc, lost>>

End(r) == r.addr + r.size

-----------------------------------------------------------------------------
\* Mutation: the alignment of the layout is replaced, not raised.
Mut_Size_align_node(l) ==
  LET padded == align_up(l.size, NodeAlign)
  IN  [size |-> IF padded < NodeSize THEN NodeSize ELSE padded, align |-> NodeAlign]

\* size_align: align_to(NodeAlign), which succeeds for the layouts of
\* ListAssumption, pad_to_align, and room for a node.
Size_align(l) ==
  LET align  == IF l.align < NodeAlign THEN NodeAlign ELSE l.align
      padded == align_up(l.size, align)
  IN  [size |-> IF padded < NodeSize THEN NodeSize ELSE padded, align |-> align]

\* The two assertions of add_free_region.
Node_fits(addr, size) == align_up(addr, NodeAlign) = addr /\ size >= NodeSize

\* Mutation: an end too small for a node is cut off as well.
Mut_Alloc_from_region(r, a) ==
  LET start == align_up(r.addr, a.align) IN
  Checked_add(start, a.size) /\ start + a.size <= End(r)

\* alloc_from_region is Ok: what remains behind the block is nothing or has
\* room for a node.
Alloc_from_region(r, a) ==
  LET start  == align_up(r.addr, a.align)
      excess == End(r) - (start + a.size)
  IN  /\ Checked_add(start, a.size)
      /\ start + a.size <= End(r)
      /\ excess = 0 \/ excess >= NodeSize

\* find_region: the first region that is suitable.
Suitable(a) == {i \in DOMAIN free : Alloc_from_region(free[i], a)}
Find_region(a) == CHOOSE i \in Suitable(a) : \A j \in Suitable(a) : i <= j

-----------------------------------------------------------------------------
\* new()
Init == free = << >> /\ live = {} /\ pc = "new" /\ lost = {}

\* Mutation: the size of a node leaves out the node itself.
Mut_Node(addr, size) == [addr |-> addr, size |-> size - NodeSize]

Node(addr, size) == [addr |-> addr, size |-> size]

\* add_free_region puts the region at the front of rest, or panics.
Add_free_region(addr, size, rest) ==
  IF Node_fits(addr, size)
    THEN free' = <<Node(addr, size)>> \o rest /\ pc' = "ready"
    ELSE free' = rest /\ pc' = "panic"

List_init ==
  /\ pc = "new"
  /\ Add_free_region(HeapStart, HeapSize, free)
  /\ UNCHANGED <<live, lost>>

\* Mutation: the excess starts as if there were no padding.
Mut_Alloc_end(r, a) == r.addr + a.size

Alloc_end(r, a) == align_up(r.addr, a.align) + a.size

\* The region found is taken off the list; what is left behind the block goes
\* back to the front.
Alloc(l) ==
  LET a == Size_align(l)
      r == free[Find_region(a)]
      rest   == RemoveAt(free, Find_region(a))
      start  == align_up(r.addr, a.align)
      excess == End(r) - (start + a.size)
  IN
  /\ pc # "panic" /\ Suitable(a) # {}
  /\ live' = live \cup {[start |-> start, size |-> l.size, align |-> l.align]}
  /\ lost' = lost \cup (r.addr .. start - 1)
  /\ IF excess > 0
       THEN Add_free_region(Alloc_end(r, a), excess, rest)
       ELSE free' = rest /\ UNCHANGED pc

\* null_mut()
Alloc_null(l) == pc # "panic" /\ Suitable(Size_align(l)) = {} /\ UNCHANGED vars

Dealloc(b) ==
  /\ pc # "panic"
  /\ Add_free_region(b.start, Size_align(b).size, free)
  /\ live' = live \ {b}
  /\ UNCHANGED lost

Next ==
  \/ List_init
  \/ \E l \in Layouts : Alloc(l) \/ Alloc_null(l)
  \/ \E b \in live : Dealloc(b)

Spec == Init /\ [][Next]_vars

-----------------------------------------------------------------------------
\* Every variable stays within the values the code gives it.
TypeOK ==
  /\ free \in Seq([addr : Nat, size : Nat \ {0}])
  /\ live \subseteq [start : Nat, size : Nat \ {0}, align : Nat \ {0}]
  /\ pc \in {"new", "ready", "panic"} /\ lost \subseteq Nat

\* The part of the heap a block occupies, as a region.
Extent(b) == [addr |-> b.start, size |-> Size_align(b).size]

Apart(r, s) == End(r) <= s.addr \/ End(s) <= r.addr

\* The free regions overlap neither each other nor the blocks in use, padding
\* included, and lie in the heap: writing a list node, which is done with
\* every operation, never damages a block.
FreeListSound ==
  /\ \A i, j \in DOMAIN free : i # j => Apart(free[i], free[j])
  /\ \A i \in DOMAIN free : \A b \in live : Apart(free[i], Extent(b))
  /\ \A i \in DOMAIN free :
       HeapStart <= free[i].addr /\ End(free[i]) <= HeapStart + HeapSize

Bytes(r) == r.addr .. End(r) - 1

\* However long the run of allocations and deallocations, the only bytes of the
\* heap that are neither free nor part of a block in use are the padding cut
\* off in front of aligned blocks, and no byte is part of two blocks: splitting,
\* padding to the size of a node and deallocating by the layout lose and invent
\* nothing.
OnlyPaddingIsLost ==
  pc = "ready" =>
    /\ \A b, c \in live : b # c => Apart(Extent(b), Extent(c))
    /\ (HeapStart .. HeapStart + HeapSize - 1)
         \ ((UNION {Bytes(free[i]) : i \in DOMAIN free})
              \cup (UNION {Bytes(Extent(b)) : b \in live})) = lost

\* The assertions of add_free_region never fail, neither for a block given
\* back nor for the end of a region that was split.
NoAssertionFails == pc # "panic"

H == INSTANCE Heap WITH HeapEnd <- HeapStart + HeapSize

\* The allocator implements GlobalAlloc.
ImplementsHeap == H!Spec
=============================================================================
