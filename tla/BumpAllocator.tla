---------------------------- MODULE BumpAllocator ----------------------------
(***************************************************************************)
(* allocator/bump.rs: blocks are cut off one after the other, and the      *)
(* heap is reused when the last block in use is given back.  Each          *)
(* operation runs under the mutex of Locked, so it is one step.            *)
(***************************************************************************)
EXTENDS Align, FiniteSets

CONSTANTS HeapStart, HeapSize,  \* HEAP_START and HEAP_SIZE
          Layouts               \* [size, align] records

\* A layout is not empty and its alignment is positive (a power of two).
\* HEAP_START + HEAP_SIZE plus any alignment (at most 2^63) fits in a usize.
ASSUME BumpAssumption ==
  /\ HeapStart \in Nat /\ HeapSize \in Nat /\ HeapStart + HeapSize <= UsizeMax
  /\ \A l \in Layouts : /\ l \in [size : Nat \ {0}, align : Nat \ {0}]
                        /\ HeapStart + HeapSize + l.align <= UsizeMax

VARIABLES heap_start, heap_end, next, allocations,  \* struct BumpAllocator
          live                                      \* the blocks in use

vars == <<heap_start, heap_end, next, allocations, live>>

\* new()
Init ==
  /\ heap_start = 0 /\ heap_end = 0
  /\ next = 0
  /\ allocations = 0
  /\ live = {}

\* init(), which must be called only once.
Bump_init ==
  /\ heap_end = 0
  /\ heap_start' = HeapStart
  /\ heap_end' = Saturating_add(HeapStart, HeapSize)
  /\ next' = HeapStart
  /\ UNCHANGED <<allocations, live>>

\* The request fits behind the blocks cut off so far.
Fits(start, l) ==
  Checked_add(start, l.size) /\ start + l.size <= heap_end

\* Mutation: the block starts at next, unaligned.
Mut_Alloc_start(l) == next

Alloc_start(l) == align_up(next, l.align)

\* Mutation: the padding is forgotten.
Mut_Alloc_end(l) == next + l.size

Alloc_end(l) == Alloc_start(l) + l.size

Alloc(l) ==
  /\ Fits(Alloc_start(l), l)
  /\ next' = Alloc_end(l)
  /\ allocations' = allocations + 1
  /\ live' = live \cup
       {[start |-> Alloc_start(l), size |-> l.size, align |-> l.align]}
  /\ UNCHANGED <<heap_start, heap_end>>

\* null_mut()
Alloc_null(l) == ~Fits(Alloc_start(l), l) /\ UNCHANGED vars

\* Mutation: the heap is never reused.
Mut_Reset(n) == next

\* next when n allocations are left.
Reset(n) == IF n = 0 THEN heap_start ELSE next

Dealloc(b) ==
  /\ allocations' = allocations - 1
  /\ next' = Reset(allocations')
  /\ live' = live \ {b}
  /\ UNCHANGED <<heap_start, heap_end>>

Next ==
  \/ Bump_init
  \/ \E l \in Layouts : Alloc(l) \/ Alloc_null(l)
  \/ \E b \in live : Dealloc(b)

Spec == Init /\ [][Next]_vars

-----------------------------------------------------------------------------
\* Every variable stays within the values the code gives it.
TypeOK ==
  /\ heap_start \in Nat /\ heap_end \in Nat /\ next \in Nat
  /\ allocations \in Nat
  /\ live \subseteq [start : Nat, size : Nat \ {0}, align : Nat \ {0}]

H == INSTANCE Heap WITH HeapEnd <- HeapStart + HeapSize

\* The allocator implements GlobalAlloc: blocks in use never overlap, stay
\* inside the heap and are aligned, although dealloc may move next back.
ImplementsHeap == H!Spec

\* Once the last block is given back, in whatever order, the whole heap is
\* available again: a request that fits into the heap then succeeds.
WholeWhenEmpty ==
  live = {} => allocations = 0 /\ next = heap_start

(***************************************************************************)
(* The inductive invariant: the blocks in use are counted and lie, one     *)
(* beside the other, below next.                                           *)
(***************************************************************************)
BumpInv ==
  /\ TypeOK
  /\ \/ heap_start = 0 /\ heap_end = 0 /\ next = 0 /\ live = {}
     \/ heap_start = HeapStart /\ heap_end = HeapStart + HeapSize
  /\ heap_start <= next /\ next <= heap_end
  /\ IsFiniteSet(live) /\ allocations = Cardinality(live)
  /\ live = {} => next = heap_start
  /\ \A b \in live : heap_start <= b.start /\ b.start + b.size <= next
=============================================================================
