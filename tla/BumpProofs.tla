----------------------------- MODULE BumpProofs -----------------------------
(***************************************************************************)
(* The bump allocator implements GlobalAlloc, for every heap and every set *)
(* of layouts.                                                             *)
(***************************************************************************)
EXTENDS BumpAllocator, FiniteSetTheorems, TLAPS

(***************************************************************************)
(* Arithmetic.                                                             *)
(***************************************************************************)
\* Taking the remainder away leaves a multiple, and the remainder is small.
LEMMA Remainder ==
  ASSUME NEW x \in Nat, NEW d \in Nat \ {0}
  PROVE  x % d \in 0 .. d - 1 /\ x - (x % d) = d * (x \div d) /\ x \div d \in Nat
OBVIOUS

\* A multiple of the alignment is aligned.
LEMMA MultipleHasNoRemainder ==
  ASSUME NEW q \in Nat, NEW d \in Nat \ {0}
  PROVE  (d * q) % d = 0
OBVIOUS

\* A sum that fits in a usize does not wrap around.
LEMMA SmallRemainder ==
  ASSUME NEW x \in Nat, NEW m \in Nat \ {0}, x < m
  PROVE  x % m = x
OBVIOUS

\* Where the sum does not wrap around, align_up rounds up, by less than the
\* alignment, to a multiple of the alignment.
LEMMA AlignUp ==
  ASSUME NEW a \in Nat, NEW d \in Nat \ {0}, a + d <= UsizeMax
  PROVE  /\ align_up(a, d) \in Nat
         /\ a <= align_up(a, d) /\ align_up(a, d) < a + d
         /\ align_up(a, d) % d = 0
<1> DEFINE x == a + d - 1
<1>1. x \in Nat /\ x < Modulus
  BY UsizeAssumption DEF Modulus
<1>2. x % Modulus = x
  BY <1>1, SmallRemainder, UsizeAssumption DEF Modulus
<1>3. align_up(a, d) = x - (x % d)
  BY <1>2 DEF align_up
<1> HIDE DEF x
<1>4. x % d \in 0 .. d - 1 /\ x - (x % d) = d * (x \div d) /\ x \div d \in Nat
  BY <1>1, Remainder
<1>5. align_up(a, d) % d = 0
  BY <1>3, <1>4, MultipleHasNoRemainder
<1> QED BY <1>3, <1>4, <1>5 DEF x

-----------------------------------------------------------------------------
-----------------------------------------------------------------------------
(***************************************************************************)
(* The invariant.                                                          *)
(***************************************************************************)
Blocks == [start : Nat, size : Nat \ {0}, align : Nat \ {0}]

\* A request that fits gets an aligned block above every block in use.
LEMMA NewBlock ==
  ASSUME TypeOK, BumpInv, NEW l \in Layouts, Fits(Alloc_start(l), l)
  PROVE  /\ heap_start = HeapStart /\ heap_end = HeapStart + HeapSize
         /\ Alloc_start(l) \in Nat /\ next <= Alloc_start(l)
         /\ Alloc_start(l) % l.align = 0
         /\ Alloc_start(l) + l.size <= heap_end
         /\ [start |-> Alloc_start(l), size |-> l.size, align |-> l.align] \in Blocks
         /\ [start |-> Alloc_start(l), size |-> l.size, align |-> l.align] \notin live
<1>1. /\ l.size \in Nat \ {0} /\ l.align \in Nat \ {0}
      /\ HeapStart + HeapSize + l.align <= UsizeMax
      /\ HeapStart \in Nat /\ HeapSize \in Nat /\ UsizeMax \in Nat
  BY BumpAssumption, UsizeAssumption
<1>2. next \in Nat /\ next + l.align <= UsizeMax
  BY <1>1 DEF TypeOK, BumpInv
<1>3. /\ Alloc_start(l) \in Nat /\ next <= Alloc_start(l)
      /\ Alloc_start(l) % l.align = 0
  BY <1>1, <1>2, AlignUp DEF Alloc_start
<1>4. Alloc_start(l) + l.size <= heap_end
  BY DEF Fits
<1>5. heap_start = HeapStart /\ heap_end = HeapStart + HeapSize
  BY <1>1, <1>3, <1>4 DEF BumpInv
<1> DEFINE b == [start |-> Alloc_start(l), size |-> l.size, align |-> l.align]
<1>6. b \in Blocks /\ b.start = Alloc_start(l)
  BY <1>1, <1>3 DEF Blocks
<1>7. \A c \in live : c.start < Alloc_start(l)
  <2> TAKE c \in live
  <2>1. c.start \in Nat /\ c.size \in Nat \ {0} /\ c.start + c.size <= next
    BY DEF TypeOK, BumpInv
  <2> QED BY <1>2, <1>3, <2>1
<1>8. b \notin live
  BY <1>3, <1>6, <1>7
<1> QED BY <1>3, <1>4, <1>5, <1>6, <1>8

\* The inductive invariant holds for BumpAllocator::new().
LEMMA InitBump == Init => TypeOK /\ BumpInv
BY FS_EmptySet DEF Init, TypeOK, BumpInv

\* init, alloc and dealloc preserve the inductive invariant.
LEMMA StepBump ==
  ASSUME TypeOK, BumpInv, [Next]_vars
  PROVE  TypeOK' /\ BumpInv'
<1>1. CASE Bump_init
  <2>1. HeapStart \in Nat /\ HeapSize \in Nat
    BY BumpAssumption
  <2>2. heap_end' = HeapStart + HeapSize /\ heap_start' = HeapStart /\ next' = HeapStart
    BY <1>1, <2>1, BumpAssumption, UsizeAssumption DEF Bump_init, Saturating_add
  <2>3. live = {}
    <3> SUFFICES ASSUME NEW b \in live PROVE FALSE
      OBVIOUS
    <3>1. b.start \in Nat /\ b.size \in Nat \ {0} /\ b.start + b.size <= next
      BY DEF TypeOK, BumpInv
    <3>2. next \in Nat /\ next <= heap_end /\ heap_end = 0
      BY <1>1 DEF TypeOK, BumpInv, Bump_init
    <3> QED BY <3>1, <3>2
  <2> QED BY <1>1, <2>1, <2>2, <2>3 DEF Bump_init, TypeOK, BumpInv
<1>2. ASSUME NEW l \in Layouts, Alloc(l)
      PROVE  TypeOK' /\ BumpInv'
  <2> DEFINE b == [start |-> Alloc_start(l), size |-> l.size, align |-> l.align]
  <2>1. /\ heap_start = HeapStart /\ heap_end = HeapStart + HeapSize
        /\ Alloc_start(l) \in Nat /\ next <= Alloc_start(l)
        /\ Alloc_start(l) + l.size <= heap_end
        /\ b \in Blocks /\ b \notin live
    BY <1>2, NewBlock DEF Alloc, Alloc_end
  <2>2. /\ live' = live \cup {b} /\ next' = Alloc_start(l) + l.size
        /\ allocations' = allocations + 1 /\ UNCHANGED <<heap_start, heap_end>>
    BY <1>2 DEF Alloc, Alloc_end
  <2>3. b.start = Alloc_start(l) /\ b.size = l.size /\ l.size \in Nat
    BY BumpAssumption
  <2> HIDE DEF b
  <2>4. IsFiniteSet(live') /\ Cardinality(live') = Cardinality(live) + 1
    BY <2>1, <2>2, FS_AddElement DEF BumpInv
  <2>5. TypeOK'
    BY <2>1, <2>2, <2>3 DEF TypeOK, Blocks
  <2>6. \A c \in live' : heap_start <= c.start /\ c.start + c.size <= next'
    <3> SUFFICES ASSUME NEW c \in live' PROVE heap_start <= c.start /\ c.start + c.size <= next'
      OBVIOUS
    <3>1. CASE c = b
      BY <2>1, <2>2, <2>3, <3>1 DEF TypeOK, BumpInv
    <3>2. CASE c \in live
      <4>1. /\ c.start \in Nat /\ c.size \in Nat /\ heap_start <= c.start
            /\ c.start + c.size <= next
        BY <3>2 DEF TypeOK, BumpInv
      <4> QED BY <2>1, <2>2, <2>3, <4>1 DEF TypeOK
    <3> QED BY <2>2, <3>1, <3>2
  <2>7. live' # {} /\ heap_start <= next' /\ next' <= heap_end
    BY <2>1, <2>2, <2>3 DEF TypeOK, BumpInv
  <2> QED BY <2>1, <2>2, <2>4, <2>5, <2>6, <2>7 DEF BumpInv
<1>3. ASSUME NEW b \in live, Dealloc(b)
      PROVE  TypeOK' /\ BumpInv'
  <2>1. /\ live' = live \ {b} /\ allocations' = allocations - 1
        /\ next' = IF allocations' = 0 THEN heap_start ELSE next
        /\ UNCHANGED <<heap_start, heap_end>>
    BY <1>3 DEF Dealloc, Reset
  <2>2. /\ IsFiniteSet(live') /\ Cardinality(live') = Cardinality(live) - 1
        /\ Cardinality(live') \in Nat
    BY <2>1, FS_RemoveElement, FS_CardinalityType DEF BumpInv
  <2>3. allocations' = Cardinality(live') /\ allocations' \in Nat
    BY <2>1, <2>2 DEF BumpInv
  <2>4. live' = {} <=> allocations' = 0
    BY <2>2, <2>3, FS_EmptySet
  <2>5. TypeOK'
    BY <2>1, <2>3 DEF TypeOK
  <2>6. CASE live' = {}
    BY <2>1, <2>2, <2>3, <2>4, <2>6 DEF BumpInv, TypeOK
  <2>7. CASE live' # {}
    BY <2>1, <2>2, <2>3, <2>4, <2>7 DEF BumpInv, TypeOK
  <2> QED BY <2>5, <2>6, <2>7
<1>4. ASSUME NEW l \in Layouts, Alloc_null(l)
      PROVE  TypeOK' /\ BumpInv'
  BY <1>4 DEF Alloc_null, vars, TypeOK, BumpInv
<1>5. CASE UNCHANGED vars
  BY <1>5 DEF vars, TypeOK, BumpInv
<1> QED BY <1>1, <1>2, <1>3, <1>4, <1>5 DEF Next

-----------------------------------------------------------------------------
(***************************************************************************)
(* The theorems.                                                           *)
(***************************************************************************)

\* The counter of the allocator counts the blocks in use, which lie below next.
THEOREM BumpIsInvariant == Spec => [](TypeOK /\ BumpInv)
<1>1. Init => TypeOK /\ BumpInv
  BY InitBump
<1>2. TypeOK /\ BumpInv /\ [Next]_vars => (TypeOK /\ BumpInv)'
  BY StepBump
<1> QED BY <1>1, <1>2, PTL DEF Spec

\* An allocator whose blocks were all given back has its whole heap again.
THEOREM BumpIsWholeWhenEmpty == Spec => []WholeWhenEmpty
<1>1. BumpInv => WholeWhenEmpty
  BY FS_EmptySet DEF BumpInv, WholeWhenEmpty
<1> QED BY <1>1, BumpIsInvariant, PTL

\* The bump allocator delivers what GlobalAlloc promises: every block it
\* hands out is aligned, inside the heap and disjoint from the blocks in use.
THEOREM BumpImplementsHeap == Spec => ImplementsHeap
<1>1. Init => H!Init
  BY DEF Init, H!Init
<1>2. ASSUME TypeOK, BumpInv, [Next]_vars
      PROVE  [H!Next]_live
  <2>1. ASSUME NEW l \in Layouts, Alloc(l)
        PROVE  H!Next
    <3> DEFINE s == Alloc_start(l)
               b == [start |-> s, size |-> l.size, align |-> l.align]
    <3>1. /\ heap_start = HeapStart /\ heap_end = HeapStart + HeapSize
          /\ s \in Nat /\ next <= s /\ s + l.size <= heap_end /\ s % l.align = 0
      BY <1>2, <2>1, NewBlock DEF Alloc, Alloc_end
    <3>2. l.size \in Nat \ {0} /\ HeapStart \in Nat /\ HeapSize \in Nat
      BY BumpAssumption
    <3>3. s \in HeapStart .. HeapStart + HeapSize
      BY <1>2, <3>1, <3>2 DEF TypeOK, BumpInv
    <3>4. \A c \in live : c.start + c.size <= s
      <4> TAKE c \in live
      <4>1. c.start \in Nat /\ c.size \in Nat /\ c.start + c.size <= next
        BY <1>2 DEF TypeOK, BumpInv
      <4> QED BY <1>2, <3>1, <4>1 DEF TypeOK
    <3>5. live' = live \cup {b}
      BY <2>1 DEF Alloc, Alloc_end
    <3> HIDE DEF s
    <3>6. \A c \in live : H!Disjoint(b, c)
      BY <3>4 DEF H!Disjoint
    <3>7. H!Alloc(l, s)
      BY <3>1, <3>2, <3>3, <3>5, <3>6 DEF H!Alloc
    <3> QED BY <3>3, <3>7 DEF H!Next
  <2>2. ASSUME NEW b \in live, Dealloc(b)
        PROVE  H!Next
    BY <2>2 DEF Dealloc, Reset, H!Next, H!Dealloc
  <2>3. CASE UNCHANGED live
    BY <2>3
  <2> QED BY <1>2, <2>1, <2>2, <2>3 DEF Next, Bump_init, Alloc_null, vars
<1>3. TypeOK /\ BumpInv /\ [Next]_vars => [H!Next]_live
  BY <1>2
<1> QED BY <1>1, <1>3, BumpIsInvariant, PTL DEF Spec, ImplementsHeap, H!Spec
=============================================================================
