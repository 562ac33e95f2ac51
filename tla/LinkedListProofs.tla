-------------------------- MODULE LinkedListProofs --------------------------
(***************************************************************************)
(* The linked list allocator keeps its free list sound, never fails an     *)
(* assertion and implements GlobalAlloc, for every heap, node and set of   *)
(* layouts.                                                                *)
(***************************************************************************)
EXTENDS LinkedListAllocator, WellFoundedInduction, SequenceTheorems, TLAPS

(***************************************************************************)
(* Arithmetic.                                                             *)
(***************************************************************************)
\* Taking the remainder away leaves a multiple, and the remainder is small.
LEMMA Remainder ==
  ASSUME NEW x \in Nat, NEW d \in Nat \ {0}
  PROVE  x % d \in 0 .. d - 1 /\ x - (x % d) = d * (x \div d) /\ x \div d \in Nat
OBVIOUS

\* A multiple of the alignment is aligned.
LEMMA MultipleHasNoRemainder ==
  ASSUME NEW q \in Nat, NEW d \in Nat \ {0}
  PROVE  (d * q) % d = 0
OBVIOUS

\* A sum that fits in a usize does not wrap around.
LEMMA SmallRemainder ==
  ASSUME NEW x \in Nat, NEW m \in Nat \ {0}, x < m
  PROVE  x % m = x
OBVIOUS

\* Where the sum does not wrap around, align_up rounds up, by less than the
\* alignment, to a multiple of the alignment.
LEMMA AlignUp ==
  ASSUME NEW a \in Nat, NEW d \in Nat \ {0}, a + d <= UsizeMax
  PROVE  /\ align_up(a, d) \in Nat
         /\ a <= align_up(a, d) /\ align_up(a, d) < a + d
         /\ align_up(a, d) % d = 0
<1> DEFINE x == a + d - 1
<1>1. x \in Nat /\ x < Modulus
  BY UsizeAssumption DEF Modulus
<1>2. x % Modulus = x
  BY <1>1, SmallRemainder, UsizeAssumption DEF Modulus
<1>3. align_up(a, d) = x - (x % d)
  BY <1>2 DEF align_up
<1> HIDE DEF x
<1>4. x % d \in 0 .. d - 1 /\ x - (x % d) = d * (x \div d) /\ x \div d \in Nat
  BY <1>1, Remainder
<1>5. align_up(a, d) % d = 0
  BY <1>3, <1>4, MultipleHasNoRemainder
<1> QED BY <1>3, <1>4, <1>5 DEF x

\* An aligned number is a multiple of its alignment.
LEMMA AlignedIsMultiple ==
  ASSUME NEW x \in Nat, NEW d \in Nat \ {0}, x % d = 0
  PROVE  x \div d \in Nat /\ x = d * (x \div d)
BY Remainder

\* align_up leaves an aligned address alone.
LEMMA AlignedIsFixed ==
  ASSUME NEW a \in Nat, NEW d \in Nat \ {0}, a + d <= UsizeMax, a % d = 0
  PROVE  align_up(a, d) = a
<1> DEFINE p == a \div d
           q == align_up(a, d) \div d
<1>1. /\ align_up(a, d) \in Nat /\ a <= align_up(a, d) /\ align_up(a, d) < a + d
      /\ align_up(a, d) % d = 0
  BY AlignUp
<1>2. p \in Nat /\ a = d * p
  BY AlignedIsMultiple
<1>3. q \in Nat /\ align_up(a, d) = d * q
  BY <1>1, AlignedIsMultiple
<1> HIDE DEF p, q
<1>4. d * q < d * (p + 1)
  BY <1>1, <1>2, <1>3
<1>5. q < p + 1
  BY <1>2, <1>3, <1>4
<1>6. d * p <= d * q
  BY <1>1, <1>2, <1>3
<1>7. p <= q
  BY <1>2, <1>3, <1>6
<1> QED BY <1>2, <1>3, <1>5, <1>7

\* The sum of two aligned numbers is aligned.
LEMMA AlignedSum ==
  ASSUME NEW x \in Nat, NEW y \in Nat, NEW d \in Nat \ {0}, x % d = 0, y % d = 0
  PROVE  (x + y) % d = 0
<1> DEFINE p == x \div d
           q == y \div d
<1>1. p \in Nat /\ x = d * p /\ q \in Nat /\ y = d * q
  BY AlignedIsMultiple
<1> HIDE DEF p, q
<1>2. x + y = d * (p + q) /\ p + q \in Nat
  BY <1>1
<1> QED BY <1>2, MultipleHasNoRemainder

\* What is aligned for a multiple of an alignment is aligned for that one.
LEMMA AlignedForDivisor ==
  ASSUME NEW x \in Nat, NEW a \in Nat \ {0}, NEW d \in Nat \ {0}, x % a = 0, a % d = 0
  PROVE  x % d = 0
<1> DEFINE p == x \div a
           q == a \div d
<1>1. p \in Nat /\ x = a * p /\ q \in Nat /\ a = d * q
  BY AlignedIsMultiple
<1> HIDE DEF p, q
<1>2. x = d * (q * p) /\ q * p \in Nat
  BY <1>1
<1> QED BY <1>2, MultipleHasNoRemainder

\* A set of numbers has a least one, which is what a loop over a list that
\* returns at the first suitable entry finds.
LEMMA LeastExists ==
  ASSUME NEW S \in SUBSET Nat, S # {}
  PROVE  \E i \in S : \A j \in S : i <= j
<1>1. PICK x \in S : \A y \in S : ~ (<<y, x>> \in OpToRel(<, Nat))
  BY NatLessThanWellFounded, WFMin, Zenon
<1>2. \A y \in S : y < x => <<y, x>> \in OpToRel(<, Nat)
  BY Zenon DEF OpToRel
<1>3. \A y \in S : ~(y < x)
  BY <1>1, <1>2, Zenon
<1> QED BY <1>3

-----------------------------------------------------------------------------
Regions == [addr : Nat, size : Nat \ {0}]
Blocks  == [start : Nat, size : Nat \ {0}, align : Nat \ {0}]

LayoutOf(b) == [size |-> b.size, align |-> b.align]

-----------------------------------------------------------------------------
(***************************************************************************)
(* The inductive invariant.                                                *)
(***************************************************************************)
InHeap(r) == HeapStart <= r.addr /\ End(r) <= HeapStart + HeapSize

\* A region that add_free_region accepts.
Holds_node(r) == r.addr % NodeAlign = 0 /\ r.size >= NodeSize

\* What FreeListSound says of a list f and blocks L, with the room for a node
\* in every region.
SoundList(f, L) ==
  /\ f \in Seq(Regions)
  /\ \A i, j \in DOMAIN f : i # j => Apart(f[i], f[j])
  /\ \A i \in DOMAIN f : \A b \in L : Apart(f[i], Extent(b))
  /\ \A i \in DOMAIN f : InHeap(f[i]) /\ Holds_node(f[i])

\* The blocks in use have layouts that were asked for, lie in the heap, could
\* hold a node each, and are apart, padding included.
SoundBlocks(L) ==
  /\ L \subseteq Blocks
  /\ \A b \in L : /\ LayoutOf(b) \in Layouts
                  /\ InHeap(Extent(b)) /\ b.start % NodeAlign = 0
  /\ \A b, c \in L : b # c => Apart(Extent(b), Extent(c))

\* The bytes of the heap outside a list f and blocks L are the lost ones p.
InList(x, f)   == \E i \in DOMAIN f : x \in Bytes(f[i])
InBlocks(x, L) == \E b \in L : x \in Bytes(Extent(b))
HeapBytes == HeapStart .. HeapStart + HeapSize - 1

Covered(f, L, p) ==
  /\ p \subseteq HeapBytes
  /\ \A x \in HeapBytes : x \in p <=> ~InList(x, f) /\ ~InBlocks(x, L)

ListInv ==
  /\ SoundList(free, live) /\ SoundBlocks(live)
  /\ pc \in {"new", "ready"}
  /\ pc = "new" => free = << >> /\ live = {} /\ lost = {}
  /\ pc = "ready" => Covered(free, live, lost)

-----------------------------------------------------------------------------
(***************************************************************************)
(* Regions.                                                                *)
(***************************************************************************)

\* A part of a region is apart from whatever the region is apart from.
LEMMA PartIsApart ==
  ASSUME NEW r \in Regions, NEW s \in Regions, NEW x \in Regions,
         Apart(r, s), r.addr <= x.addr, End(x) <= End(r)
  PROVE  Apart(x, s) /\ Apart(s, x)
<1>1. /\ r.addr \in Nat /\ r.size \in Nat /\ s.addr \in Nat /\ s.size \in Nat
      /\ x.addr \in Nat /\ x.size \in Nat
  BY DEF Regions
<1> QED BY <1>1 DEF Apart, End

\* Regions that are apart have no byte in common.
LEMMA ApartBytes ==
  ASSUME NEW r \in Regions, NEW s \in Regions, Apart(r, s)
  PROVE  Bytes(r) \cap Bytes(s) = {}
<1>1. r.addr \in Nat /\ r.size \in Nat /\ s.addr \in Nat /\ s.size \in Nat
  BY DEF Regions
<1> QED BY <1>1 DEF Apart, End, Bytes

LEMMA ApartCommutes == ASSUME NEW r, NEW s, Apart(r, s) PROVE Apart(s, r)
BY DEF Apart

\* size_align gives a size with room for the layout and for a node, and an
\* alignment that serves both.
LEMMA SizeAlign ==
  ASSUME NEW l \in Layouts
  PROVE  LET a == Size_align(l) IN
         /\ a.size \in Nat \ {0} /\ a.align \in Nat \ {0}
         /\ a.size >= l.size /\ a.size >= NodeSize
         /\ a.size % NodeAlign = 0
         /\ a.align % NodeAlign = 0 /\ a.align % l.align = 0
         /\ HeapStart + HeapSize + a.align <= UsizeMax
<1> DEFINE al == IF l.align < NodeAlign THEN NodeAlign ELSE l.align
           pad == align_up(l.size, al)
           a == Size_align(l)
<1>1. /\ HeapStart \in Nat /\ HeapSize \in Nat /\ UsizeMax \in Nat
      /\ NodeSize \in Nat \ {0} /\ NodeAlign \in Nat \ {0} /\ NodeSize % NodeAlign = 0
      /\ HeapStart + HeapSize + NodeAlign <= UsizeMax
      /\ l.size \in Nat \ {0} /\ l.align \in Nat \ {0}
      /\ l.size + NodeAlign <= UsizeMax /\ l.size + l.align <= UsizeMax
      /\ HeapStart + HeapSize + l.align <= UsizeMax
      /\ IF l.align < NodeAlign THEN NodeAlign % l.align = 0 ELSE l.align % NodeAlign = 0
  BY ListAssumption, UsizeAssumption
<1>2. NodeAlign % NodeAlign = 0 /\ l.align % l.align = 0
  <2>1. NodeAlign = NodeAlign * 1 /\ l.align = l.align * 1
    BY <1>1
  <2> QED BY <2>1, <1>1, MultipleHasNoRemainder
<1>3. /\ al \in Nat \ {0} /\ al % NodeAlign = 0 /\ al % l.align = 0
      /\ l.size + al <= UsizeMax /\ HeapStart + HeapSize + al <= UsizeMax
  BY <1>1, <1>2
<1>4. a.align = al /\ a.size = IF pad < NodeSize THEN NodeSize ELSE pad
  BY DEF Size_align
<1> HIDE DEF al
<1>5. pad \in Nat /\ l.size <= pad /\ pad % al = 0
  BY <1>1, <1>3, AlignUp
<1> HIDE DEF pad
<1>6. pad % NodeAlign = 0
  BY <1>1, <1>3, <1>5, AlignedForDivisor
<1> QED BY <1>1, <1>3, <1>4, <1>5, <1>6

\* A block occupies what size_align says of its layout.
LEMMA ExtentOf ==
  ASSUME NEW b \in Blocks, LayoutOf(b) \in Layouts
  PROVE  /\ Extent(b) \in Regions
         /\ Extent(b).addr = b.start /\ Extent(b).size = Size_align(LayoutOf(b)).size
         /\ Size_align(b) = Size_align(LayoutOf(b))
<1>1. Size_align(b) = Size_align(LayoutOf(b))
  BY DEF Size_align, LayoutOf
<1>2. Size_align(LayoutOf(b)).size \in Nat \ {0}
  BY SizeAlign
<1>3. Extent(b) = [addr |-> b.start, size |-> Size_align(LayoutOf(b)).size]
  BY <1>1 DEF Extent
<1>4. b.start \in Nat
  BY DEF Blocks
<1> QED BY <1>1, <1>2, <1>3, <1>4 DEF Regions

\* The assertions of add_free_region hold for a region that can hold a node.
LEMMA NodeFits ==
  ASSUME NEW r \in Regions, InHeap(r), Holds_node(r)
  PROVE  Node_fits(r.addr, r.size)
<1>1. /\ r.addr \in Nat /\ r.size \in Nat \ {0} /\ NodeAlign \in Nat \ {0}
      /\ HeapStart \in Nat /\ HeapSize \in Nat /\ UsizeMax \in Nat
      /\ HeapStart + HeapSize + NodeAlign <= UsizeMax
  BY ListAssumption, UsizeAssumption DEF Regions
<1>2. r.addr + NodeAlign <= UsizeMax
  BY <1>1 DEF InHeap, End
<1>3. align_up(r.addr, NodeAlign) = r.addr
  BY <1>1, <1>2, AlignedIsFixed DEF Holds_node
<1> QED BY <1>3 DEF Node_fits, Holds_node

-----------------------------------------------------------------------------
(***************************************************************************)
(* The list and the blocks, one change at a time.                          *)
(***************************************************************************)

\* Taking a region off the list leaves a sound list, apart from the region.
LEMMA SoundRemove ==
  ASSUME NEW f, NEW L, SoundList(f, L), NEW k \in DOMAIN f
  PROVE  /\ SoundList(RemoveAt(f, k), L)
         /\ \A i \in DOMAIN RemoveAt(f, k) : Apart(RemoveAt(f, k)[i], f[k])
         /\ \A x : InList(x, f) <=> x \in Bytes(f[k]) \/ InList(x, RemoveAt(f, k))
<1> DEFINE n == Len(f)
           a == SubSeq(f, 1, k - 1)
           b == SubSeq(f, k + 1, n)
           g == RemoveAt(f, k)
           at(i) == IF i < k THEN i ELSE i + 1
<1>1. f \in Seq(Regions) /\ n \in Nat /\ DOMAIN f = 1 .. n /\ k \in 1 .. n
  BY DEF SoundList
<1>2. /\ a \in Seq(Regions) /\ Len(a) = k - 1
      /\ \A i \in 1 .. k - 1 : a[i] = f[i]
  BY <1>1, SubSeqProperties
<1>3. /\ b \in Seq(Regions) /\ Len(b) = n - k
      /\ \A i \in 1 .. n - k : b[i] = f[k + i]
  BY <1>1, SubSeqProperties
<1>4. g = a \o b
  BY DEF RemoveAt
<1> HIDE DEF a, b, g
<1>5. g \in Seq(Regions) /\ Len(g) = n - 1 /\ DOMAIN g = 1 .. n - 1
      /\ \A i \in 1 .. n - 1 : g[i] = IF i <= k - 1 THEN a[i] ELSE b[i - (k - 1)]
  <2>1. Len(a) + Len(b) = n - 1
    BY <1>1, <1>2, <1>3
  <2>2. /\ g \in Seq(Regions) /\ Len(g) = Len(a) + Len(b)
        /\ \A i \in 1 .. Len(a) + Len(b) :
             g[i] = IF i <= Len(a) THEN a[i] ELSE b[i - Len(a)]
    BY <1>2, <1>3, <1>4, ConcatProperties
  <2> QED BY <1>2, <2>1, <2>2
<1>6. ASSUME NEW i \in DOMAIN g
      PROVE  at(i) \in DOMAIN f /\ at(i) # k /\ g[i] = f[at(i)]
  <2>1. CASE i < k
    BY <1>1, <1>2, <1>5, <2>1
  <2>2. CASE ~(i < k)
    <3>1. i \in 1 .. n - 1 /\ i - (k - 1) \in 1 .. n - k /\ k + (i - (k - 1)) = i + 1
      BY <1>1, <1>5, <2>2
    <3>2. g[i] = b[i - (k - 1)]
      BY <1>1, <1>5, <2>2, <3>1
    <3>3. g[i] = f[i + 1]
      BY <1>3, <3>1, <3>2
    <3> QED BY <1>1, <2>2, <3>1, <3>3
  <2> QED BY <2>1, <2>2
<1>7. ASSUME NEW i \in DOMAIN g, NEW j \in DOMAIN g, i # j
      PROVE  at(i) # at(j)
  BY <1>1, <1>5, <1>7
<1> HIDE DEF at
<1>8. \A i, j \in DOMAIN g : i # j => Apart(g[i], g[j])
  BY <1>6, <1>7 DEF SoundList
<1>9. \A i \in DOMAIN g : /\ \A c \in L : Apart(g[i], Extent(c))
                          /\ InHeap(g[i]) /\ Holds_node(g[i])
                          /\ Apart(g[i], f[k])
  BY <1>6 DEF SoundList
<1>10. ASSUME NEW i \in DOMAIN f, i # k
       PROVE  \E j \in DOMAIN g : g[j] = f[i]
  <2>1. CASE i < k
    <3>1. i \in DOMAIN g /\ at(i) = i
      BY <1>1, <1>5, <2>1 DEF at
    <3> QED BY <1>6, <3>1
  <2>2. CASE i > k
    <3>1. i - 1 \in DOMAIN g /\ at(i - 1) = i
      BY <1>1, <1>5, <2>2 DEF at
    <3> QED BY <1>6, <3>1
  <2> QED BY <1>1, <1>10, <2>1, <2>2
<1>11. \A x : InList(x, f) <=> x \in Bytes(f[k]) \/ InList(x, g)
  BY <1>6, <1>10 DEF InList
<1> QED BY <1>5, <1>8, <1>9, <1>11 DEF SoundList, g

\* Putting a region at the front, apart from the list and from the blocks.
LEMMA SoundPush ==
  ASSUME NEW f, NEW L, SoundList(f, L), NEW r \in Regions, InHeap(r), Holds_node(r),
         \A i \in DOMAIN f : Apart(r, f[i]),
         \A b \in L : Apart(r, Extent(b))
  PROVE  /\ SoundList(<<r>> \o f, L)
         /\ \A x : InList(x, <<r>> \o f) <=> x \in Bytes(r) \/ InList(x, f)
<1> DEFINE n == Len(f)
           one == <<r>>
           g == one \o f
<1>1. f \in Seq(Regions) /\ n \in Nat /\ DOMAIN f = 1 .. n /\ one \in Seq(Regions)
      /\ Len(one) = 1 /\ one[1] = r
  BY DEF SoundList
<1> HIDE DEF one
<1>2. g \in Seq(Regions) /\ Len(g) = n + 1 /\ DOMAIN g = 1 .. n + 1
      /\ \A i \in 1 .. n + 1 : g[i] = IF i <= 1 THEN one[i] ELSE f[i - 1]
  <2>1. /\ g \in Seq(Regions) /\ Len(g) = Len(one) + Len(f)
        /\ \A i \in 1 .. Len(one) + Len(f) :
             g[i] = IF i <= Len(one) THEN one[i] ELSE f[i - Len(one)]
    BY <1>1, ConcatProperties
  <2>2. Len(one) + Len(f) = n + 1
    BY <1>1
  <2> QED BY <1>1, <2>1, <2>2
<1> HIDE DEF g
<1>3. ASSUME NEW i \in DOMAIN g
      PROVE  (i = 1 /\ g[i] = r) \/ (i - 1 \in DOMAIN f /\ g[i] = f[i - 1])
  BY <1>1, <1>2
<1>4. ASSUME NEW i \in DOMAIN g, NEW j \in DOMAIN g, i # j
      PROVE  Apart(g[i], g[j])
  <2>1. i \in Nat /\ j \in Nat
    BY <1>2
  <2>2. CASE i = 1
    <3>1. g[i] = r /\ g[j] = f[j - 1] /\ j - 1 \in DOMAIN f
      BY <1>3, <1>4, <1>1, <2>1, <2>2
    <3> QED BY <3>1
  <2>4. CASE j = 1
    <3>1. g[j] = r /\ g[i] = f[i - 1] /\ i - 1 \in DOMAIN f
      BY <1>3, <1>4, <1>1, <2>1, <2>4
    <3>2. Apart(r, f[i - 1])
      BY <3>1
    <3> QED BY <3>1, <3>2, ApartCommutes
  <2>3. CASE i # 1 /\ j # 1
    <3>1. i - 1 # j - 1
      BY <1>4, <2>1
    <3> QED BY <1>3, <2>3, <3>1 DEF SoundList
  <2> QED BY <2>2, <2>3, <2>4
<1>5. \A i \in DOMAIN g : /\ \A b \in L : Apart(g[i], Extent(b))
                          /\ InHeap(g[i]) /\ Holds_node(g[i])
  BY <1>3 DEF SoundList
<1>6. 1 \in DOMAIN g /\ g[1] = r
  <2>1. 1 \in DOMAIN g /\ 1 - 1 \notin DOMAIN f
    BY <1>1, <1>2
  <2> QED BY <1>3, <2>1
<1>7. ASSUME NEW i \in DOMAIN f PROVE i + 1 \in DOMAIN g /\ g[i + 1] = f[i]
  <2>1. i + 1 \in DOMAIN g /\ i + 1 # 1 /\ (i + 1) - 1 = i
    BY <1>1, <1>2
  <2> QED BY <1>3, <2>1
<1>8. \A x : InList(x, g) <=> x \in Bytes(r) \/ InList(x, f)
  BY <1>3, <1>6, <1>7 DEF InList
<1> QED BY <1>2, <1>4, <1>5, <1>8 DEF SoundList, g, one

\* A new block that is apart from the list and from the other blocks.
LEMMA SoundAdd ==
  ASSUME NEW f, NEW L, SoundList(f, L), SoundBlocks(L),
         NEW b \in Blocks, LayoutOf(b) \in Layouts, InHeap(Extent(b)),
         b.start % NodeAlign = 0,
         \A i \in DOMAIN f : Apart(Extent(b), f[i]),
         \A c \in L : Apart(Extent(b), Extent(c))
  PROVE  SoundList(f, L \cup {b}) /\ SoundBlocks(L \cup {b})
<1>1. \A i \in DOMAIN f : Apart(f[i], Extent(b))
  BY ApartCommutes
<1>2. \A c \in L : Apart(Extent(c), Extent(b))
  BY ApartCommutes
<1>3. SoundList(f, L \cup {b})
  BY <1>1 DEF SoundList
<1>4. \A c, d \in L \cup {b} : c # d => Apart(Extent(c), Extent(d))
  BY <1>2 DEF SoundBlocks
<1>5. /\ L \cup {b} \subseteq Blocks
      /\ \A c \in L \cup {b} : /\ LayoutOf(c) \in Layouts
                               /\ InHeap(Extent(c)) /\ c.start % NodeAlign = 0
  BY DEF SoundBlocks
<1> QED BY <1>3, <1>4, <1>5 DEF SoundBlocks

\* Fewer blocks.
LEMMA SoundDrop ==
  ASSUME NEW f, NEW L, SoundList(f, L), SoundBlocks(L), NEW M \in SUBSET L
  PROVE  SoundList(f, M) /\ SoundBlocks(M)
BY DEF SoundList, SoundBlocks

-----------------------------------------------------------------------------
(***************************************************************************)
(* Initial states and steps.                                               *)
(***************************************************************************)
LEMMA InitList == Init => ListInv
<1> SUFFICES ASSUME Init PROVE ListInv
  OBVIOUS
<1>1. free \in Seq(Regions) /\ \A i \in DOMAIN free : FALSE
  BY EmptySeq DEF Init
<1>2. SoundList(free, live)
  BY <1>1 DEF SoundList
<1>3. SoundBlocks(live)
  BY DEF Init, SoundBlocks
<1> QED BY <1>2, <1>3 DEF Init, ListInv

\* What alloc_from_region checks of the region it takes: the block and what is
\* left behind it are parts of the region, and what is left can hold a node.
LEMMA Split ==
  ASSUME NEW l \in Layouts, NEW r \in Regions, InHeap(r), Holds_node(r),
         Alloc_from_region(r, Size_align(l))
  PROVE  LET a == Size_align(l)
             start == align_up(r.addr, a.align)
             excess == End(r) - (start + a.size)
         IN  /\ start \in Nat /\ r.addr <= start
             /\ start % NodeAlign = 0 /\ start % l.align = 0
             /\ a.size \in Nat \ {0} /\ start + a.size <= End(r)
             /\ excess \in Nat
             /\ excess > 0 =>
                  /\ [addr |-> start + a.size, size |-> excess] \in Regions
                  /\ Holds_node([addr |-> start + a.size, size |-> excess])
<1> DEFINE a == Size_align(l)
           start == align_up(r.addr, a.align)
           excess == End(r) - (start + a.size)
<1>1. /\ a.size \in Nat \ {0} /\ a.align \in Nat \ {0} /\ a.size >= NodeSize
      /\ a.size % NodeAlign = 0 /\ a.align % NodeAlign = 0 /\ a.align % l.align = 0
      /\ HeapStart + HeapSize + a.align <= UsizeMax
  BY SizeAlign
<1>2. /\ r.addr \in Nat /\ r.size \in Nat \ {0} /\ HeapStart \in Nat /\ HeapSize \in Nat
      /\ UsizeMax \in Nat /\ NodeAlign \in Nat \ {0} /\ NodeSize \in Nat \ {0}
      /\ l.align \in Nat \ {0}
  BY ListAssumption, UsizeAssumption DEF Regions
<1>3. r.addr + a.align <= UsizeMax
  BY <1>1, <1>2 DEF InHeap, End
<1>4. start \in Nat /\ r.addr <= start /\ start % a.align = 0
  BY <1>1, <1>2, <1>3, AlignUp
<1>5. start + a.size <= End(r) /\ (excess = 0 \/ excess >= NodeSize)
  BY DEF Alloc_from_region
<1> HIDE DEF a, start
<1>6. start % NodeAlign = 0 /\ start % l.align = 0
  BY <1>1, <1>2, <1>4, AlignedForDivisor
<1>7. (start + a.size) % NodeAlign = 0
  BY <1>1, <1>2, <1>4, <1>6, AlignedSum
<1>8. excess \in Nat /\ start + a.size \in Nat
  BY <1>1, <1>2, <1>4, <1>5 DEF End
<1>9. excess > 0 => /\ [addr |-> start + a.size, size |-> excess] \in Regions
                    /\ Holds_node([addr |-> start + a.size, size |-> excess])
  BY <1>5, <1>7, <1>8 DEF Regions, Holds_node
<1> QED BY <1>1, <1>4, <1>5, <1>6, <1>8, <1>9 DEF a, start

\* add_free_region succeeds for a region that can hold a node and is apart from
\* the rest of the list and the blocks in use.
LEMMA AddFreeRegion ==
  ASSUME NEW r \in Regions, InHeap(r), Holds_node(r), NEW rest, NEW L,
         SoundList(rest, L),
         \A i \in DOMAIN rest : Apart(r, rest[i]),
         \A b \in L : Apart(r, Extent(b)),
         Add_free_region(r.addr, r.size, rest)
  PROVE  /\ SoundList(free', L) /\ pc' = "ready"
         /\ \A x : InList(x, free') <=> x \in Bytes(r) \/ InList(x, rest)
<1>1. Node_fits(r.addr, r.size)
  BY NodeFits
<1>2. Node(r.addr, r.size) = r
  BY DEF Node, Regions
<1>3. free' = <<r>> \o rest /\ pc' = "ready"
  BY <1>1, <1>2 DEF Add_free_region
<1> QED BY <1>3, SoundPush

LEMMA InitStep ==
  ASSUME ListInv, List_init
  PROVE  ListInv'
<1> DEFINE r == [addr |-> HeapStart, size |-> HeapSize]
<1>1. HeapStart \in Nat /\ HeapSize \in Nat \ {0} /\ NodeSize <= HeapSize
      /\ HeapStart % NodeAlign = 0
  BY ListAssumption
<1>2. r \in Regions /\ r.addr = HeapStart /\ r.size = HeapSize
  BY <1>1 DEF Regions
<1>3. InHeap(r) /\ Holds_node(r)
  BY <1>1 DEF InHeap, End, Holds_node
<1> HIDE DEF r
<1>4. free = << >> /\ live = {} /\ live' = live /\ lost' = lost
      /\ Add_free_region(r.addr, r.size, free)
  BY <1>2 DEF ListInv, List_init
<1>5. SoundList(free, live) /\ \A i \in DOMAIN free : FALSE
  BY <1>4 DEF ListInv
<1>6. /\ SoundList(free', live) /\ pc' = "ready"
      /\ \A x : InList(x, free') <=> x \in Bytes(r) \/ InList(x, free)
  BY <1>2, <1>3, <1>4, <1>5, AddFreeRegion
<1>7. lost = {} /\ Bytes(r) = HeapBytes
  <2>1. lost = {}
    BY DEF ListInv, List_init
  <2>2. Bytes(r) = HeapBytes
    <3>1. \A x : x \in Bytes(r) <=> x \in HeapBytes
      BY <1>1, <1>2 DEF Bytes, End, HeapBytes
    <3> QED BY <3>1
  <2> QED BY <2>1, <2>2
<1>8. Covered(free', live', lost')
  BY <1>4, <1>6, <1>7 DEF Covered, InBlocks
<1> QED BY <1>4, <1>6, <1>8 DEF ListInv

\* alloc takes the block from one region of the list, where nothing else is.
LEMMA AllocStep ==
  ASSUME ListInv, NEW l \in Layouts, Alloc(l)
  PROVE  /\ ListInv'
         /\ \E s \in HeapStart .. HeapStart + HeapSize : H!Alloc(l, s)
<1> DEFINE a == Size_align(l)
           k == Find_region(a)
           r == free[k]
           rest == RemoveAt(free, k)
           s == align_up(r.addr, a.align)
           excess == End(r) - (s + a.size)
           b == [start |-> s, size |-> l.size, align |-> l.align]
<1>1. k \in DOMAIN free /\ Alloc_from_region(r, a)
  <2>1. Suitable(a) # {} /\ Suitable(a) \subseteq DOMAIN free
    BY DEF Alloc, Suitable
  <2>2. free \in Seq(Regions) /\ DOMAIN free = 1 .. Len(free)
    BY DEF ListInv, SoundList
  <2>3. \E i \in Suitable(a) : \A j \in Suitable(a) : i <= j
    <3>1. Suitable(a) \subseteq Nat
      BY <2>1, <2>2
    <3> QED BY <2>1, <3>1, LeastExists
  <2>4. k \in Suitable(a)
    BY <2>3 DEF Find_region
  <2> QED BY <2>4 DEF Suitable
<1>2. r \in Regions /\ InHeap(r) /\ Holds_node(r)
  BY <1>1 DEF ListInv, SoundList
<1>3. /\ live' = live \cup {b} /\ lost' = lost \cup (r.addr .. s - 1)
      /\ IF excess > 0
           THEN Add_free_region(s + a.size, excess, rest)
           ELSE free' = rest /\ pc' = pc
  BY DEF Alloc, Alloc_end
<1>4. /\ s \in Nat /\ r.addr <= s /\ s % NodeAlign = 0 /\ s % l.align = 0
      /\ a.size \in Nat \ {0} /\ s + a.size <= End(r) /\ excess \in Nat
      /\ excess > 0 => /\ [addr |-> s + a.size, size |-> excess] \in Regions
                       /\ Holds_node([addr |-> s + a.size, size |-> excess])
  BY <1>1, <1>2, Split
<1>5. /\ SoundList(rest, live) /\ \A i \in DOMAIN rest : Apart(rest[i], r)
      /\ \A x : InList(x, free) <=> x \in Bytes(r) \/ InList(x, rest)
  BY <1>1, SoundRemove DEF ListInv
<1>6. l = [size |-> l.size, align |-> l.align] /\ l.size \in Nat \ {0} /\ l.align \in Nat \ {0}
      /\ l.size <= a.size
  BY ListAssumption, SizeAlign
<1>7. b \in Blocks /\ b.start = s /\ b.size = l.size /\ LayoutOf(b) = l
  BY <1>4, <1>6 DEF Blocks, LayoutOf
<1> HIDE DEF k, rest, s, excess, b
<1>8. Extent(b) \in Regions /\ Extent(b).addr = s /\ Extent(b).size = a.size
  BY <1>7, ExtentOf
<1> HIDE DEF r, a
<1>9. /\ r.addr \in Nat /\ r.size \in Nat \ {0} /\ HeapStart \in Nat /\ HeapSize \in Nat
      /\ HeapStart <= r.addr /\ r.addr + r.size <= HeapStart + HeapSize
  BY <1>2, ListAssumption DEF Regions, InHeap, End
<1>10. r.addr <= Extent(b).addr /\ End(Extent(b)) <= End(r)
  BY <1>4, <1>8 DEF End
<1>11. \A i \in DOMAIN rest : Apart(Extent(b), rest[i])
  <2> TAKE i \in DOMAIN rest
  <2>1. rest[i] \in Regions /\ Apart(r, rest[i])
    BY <1>5, ApartCommutes DEF SoundList
  <2> QED BY <1>2, <1>8, <1>10, <2>1, PartIsApart
<1>12. ASSUME NEW c \in live PROVE Extent(c) \in Regions /\ Apart(r, Extent(c))
  <2>1. c \in Blocks /\ LayoutOf(c) \in Layouts
    BY DEF ListInv, SoundBlocks
  <2>2. Apart(r, Extent(c))
    BY <1>1 DEF ListInv, SoundList, r
  <2> QED BY <2>1, <2>2, ExtentOf
<1>13. \A c \in live : Apart(Extent(b), Extent(c))
  BY <1>2, <1>8, <1>10, <1>12, PartIsApart
<1>14. InHeap(Extent(b))
  BY <1>4, <1>8, <1>9 DEF InHeap, End
<1>15. SoundList(rest, live') /\ SoundBlocks(live')
  BY <1>3, <1>4, <1>5, <1>7, <1>11, <1>13, <1>14, SoundAdd DEF ListInv
<1>16. /\ SoundList(free', live') /\ pc' = "ready"
       /\ \A x : InList(x, free') <=> (x \in Nat /\ s + a.size <= x /\ x < End(r)) \/ InList(x, rest)
  <2>1. CASE excess > 0
    <3> DEFINE n == [addr |-> s + a.size, size |-> excess]
    <3>1. n \in Regions /\ Holds_node(n) /\ n.addr = s + a.size /\ n.size = excess
      BY <1>4, <2>1
    <3> HIDE DEF n
    <3>2. End(n) = End(r) /\ r.addr <= n.addr /\ End(Extent(b)) <= n.addr
      BY <1>4, <1>8, <1>9, <3>1 DEF End, excess
    <3>3. InHeap(n)
      BY <1>4, <1>9, <3>1, <3>2 DEF InHeap, End
    <3>4. \A i \in DOMAIN rest : Apart(n, rest[i])
      <4> TAKE i \in DOMAIN rest
      <4>1. rest[i] \in Regions /\ Apart(r, rest[i])
        BY <1>5, ApartCommutes DEF SoundList
      <4>2. End(n) <= End(r)
        BY <3>2, <1>9 DEF End
      <4> QED BY <1>2, <3>1, <3>2, <4>1, <4>2, PartIsApart
    <3>5. \A c \in live : Apart(n, Extent(c))
      <4>1. End(n) <= End(r)
        BY <3>2, <1>9 DEF End
      <4> QED BY <1>2, <1>12, <3>1, <3>2, <4>1, PartIsApart
    <3>6. Apart(n, Extent(b))
      BY <3>2 DEF Apart
    <3>7. \A c \in live' : Apart(n, Extent(c))
      BY <1>3, <3>5, <3>6
    <3>8. Add_free_region(n.addr, n.size, rest)
      BY <1>3, <2>1, <3>1
    <3>9. /\ SoundList(free', live') /\ pc' = "ready"
          /\ \A x : InList(x, free') <=> x \in Bytes(n) \/ InList(x, rest)
      BY <1>15, <3>1, <3>3, <3>4, <3>7, <3>8, AddFreeRegion
    <3>10. \A x : x \in Bytes(n) <=> x \in Nat /\ s + a.size <= x /\ x < End(r)
      BY <1>4, <1>9, <3>1, <3>2 DEF Bytes, End
    <3> QED BY <3>9, <3>10
  <2>2. CASE ~(excess > 0)
    <3>1. free' = rest /\ pc' = pc
      BY <1>3, <2>2
    <3>2. pc = "ready"
      BY <1>1 DEF ListInv
    <3>3. \A x \in Nat : ~(s + a.size <= x /\ x < End(r))
      BY <1>4, <1>9, <2>2 DEF End, excess
    <3> QED BY <1>15, <3>1, <3>2, <3>3
  <2> QED BY <2>1, <2>2
<1>17. Covered(free', live', lost')
  <2>1. Covered(free, live, lost)
    BY <1>1 DEF ListInv
  <2>2. r.addr .. s - 1 \subseteq HeapBytes
    BY <1>4, <1>9 DEF HeapBytes, End
  <2> SUFFICES ASSUME NEW x \in HeapBytes
               PROVE  x \in lost' <=> ~InList(x, free') /\ ~InBlocks(x, live')
    BY <1>3, <2>1, <2>2 DEF Covered
  <2>3. x \in Nat
    BY <1>9 DEF HeapBytes
  <2>4. InBlocks(x, live') <=> InBlocks(x, live) \/ (s <= x /\ x < s + a.size)
    <3>1. x \in Bytes(Extent(b)) <=> s <= x /\ x < s + a.size
      BY <1>4, <1>8, <2>3 DEF Bytes, End
    <3> QED BY <1>3, <3>1 DEF InBlocks
  <2>5. x \in Bytes(r) <=> r.addr <= x /\ x < End(r)
    BY <1>9, <2>3 DEF Bytes, End
  <2>6. x \in lost' <=> x \in lost \/ (r.addr <= x /\ x < s)
    BY <1>3, <1>4, <1>9, <2>3
  <2>7. x \in Bytes(r) => ~InList(x, rest) /\ ~InBlocks(x, live)
    <3>1. ASSUME NEW i \in DOMAIN rest PROVE Bytes(r) \cap Bytes(rest[i]) = {}
      <4>1. rest[i] \in Regions /\ Apart(rest[i], r)
        BY <1>5 DEF SoundList
      <4> QED BY <1>2, <4>1, ApartBytes
    <3>2. ASSUME NEW c \in live PROVE Bytes(r) \cap Bytes(Extent(c)) = {}
      BY <1>2, <1>12, ApartBytes, ApartCommutes
    <3> QED BY <3>1, <3>2 DEF InList, InBlocks
  <2>8. x \in lost <=> ~InList(x, free) /\ ~InBlocks(x, live)
    BY <2>1 DEF Covered
  <2>9. InList(x, free) <=> x \in Bytes(r) \/ InList(x, rest)
    BY <1>5
  <2>10. InList(x, free') <=> (s + a.size <= x /\ x < End(r)) \/ InList(x, rest)
    BY <1>16, <2>3
  <2>11. r.addr <= s /\ s <= s + a.size /\ s + a.size <= End(r)
         /\ s \in Nat /\ a.size \in Nat /\ r.addr \in Nat /\ End(r) \in Nat
    BY <1>4, <1>9 DEF End
  <2> QED BY <2>3, <2>4, <2>5, <2>6, <2>7, <2>8, <2>9, <2>10, <2>11
<1>18. ListInv'
  BY <1>15, <1>16, <1>17 DEF ListInv
<1>19. s \in HeapStart .. HeapStart + HeapSize /\ s + l.size <= HeapStart + HeapSize
  BY <1>4, <1>6, <1>9 DEF End
<1>20. \A c \in live : H!Disjoint(b, c)
  <2> TAKE c \in live
  <2>1. c \in Blocks /\ LayoutOf(c) \in Layouts
    BY DEF ListInv, SoundBlocks
  <2>2. c.start \in Nat /\ c.size \in Nat /\ LayoutOf(c).size = c.size
    BY <2>1 DEF Blocks, LayoutOf
  <2>3. Extent(c).addr = c.start /\ Extent(c).size >= c.size /\ Extent(c).size \in Nat
    BY <2>1, <2>2, ExtentOf, SizeAlign
  <2>4. Apart(Extent(b), Extent(c))
    BY <1>13
  <2> QED BY <1>4, <1>6, <1>7, <1>8, <2>2, <2>3, <2>4 DEF Apart, End, H!Disjoint
<1>21. H!Alloc(l, s)
  BY <1>3, <1>4, <1>6, <1>9, <1>19, <1>20 DEF H!Alloc, b
<1> QED BY <1>18, <1>19, <1>21

\* dealloc gives back what size_align says of the block's layout: exactly what
\* the block occupied.
LEMMA DeallocStep ==
  ASSUME ListInv, NEW b \in live, Dealloc(b)
  PROVE  ListInv'
<1>1. b \in Blocks /\ LayoutOf(b) \in Layouts /\ InHeap(Extent(b)) /\ b.start % NodeAlign = 0
  BY DEF ListInv, SoundBlocks
<1>2. /\ Extent(b) \in Regions /\ Extent(b).addr = b.start
      /\ Extent(b).size = Size_align(b).size /\ Extent(b).size >= NodeSize
  BY <1>1, ExtentOf, SizeAlign
<1>3. Holds_node(Extent(b))
  BY <1>1, <1>2 DEF Holds_node
<1>4. live' = live \ {b} /\ lost' = lost
      /\ Add_free_region(Extent(b).addr, Extent(b).size, free)
  BY <1>2 DEF Dealloc
<1>5. SoundList(free, live') /\ SoundBlocks(live')
  BY <1>4, SoundDrop DEF ListInv
<1>6. \A i \in DOMAIN free : Apart(Extent(b), free[i])
  BY ApartCommutes DEF ListInv, SoundList
<1>7. \A c \in live' : Apart(Extent(b), Extent(c))
  BY <1>4 DEF ListInv, SoundBlocks
<1>8. /\ SoundList(free', live') /\ pc' = "ready"
      /\ \A x : InList(x, free') <=> x \in Bytes(Extent(b)) \/ InList(x, free)
  BY <1>1, <1>2, <1>3, <1>4, <1>5, <1>6, <1>7, AddFreeRegion
<1>9. \A x : InBlocks(x, live) <=> x \in Bytes(Extent(b)) \/ InBlocks(x, live')
  BY <1>4 DEF InBlocks
<1>10. pc = "ready"
  BY DEF ListInv
<1>11. Covered(free, live, lost)
  BY <1>10 DEF ListInv
<1>12. Covered(free', live', lost')
  BY <1>4, <1>8, <1>9, <1>11 DEF Covered
<1> QED BY <1>4, <1>5, <1>8, <1>12 DEF ListInv

\* init, alloc and dealloc preserve the invariant.
LEMMA StepList == ListInv /\ [Next]_vars => ListInv'
<1> SUFFICES ASSUME ListInv, [Next]_vars PROVE ListInv'
  OBVIOUS
<1>1. CASE UNCHANGED vars
  BY <1>1 DEF vars, ListInv
<1>2. ASSUME NEW l \in Layouts, Alloc_null(l) PROVE ListInv'
  BY <1>1, <1>2 DEF Alloc_null
<1> QED BY <1>1, <1>2, InitStep, AllocStep, DeallocStep DEF Next

-----------------------------------------------------------------------------
(***************************************************************************)
(* The theorems.                                                           *)
(***************************************************************************)

\* The inductive invariant of the list allocator.
THEOREM ListIsInvariant == Spec => []ListInv
BY InitList, StepList, PTL DEF Spec

\* The list and the blocks are well formed.
THEOREM ListTypeOK == Spec => []TypeOK
<1>1. ListInv => TypeOK
  <2> SUFFICES ASSUME ListInv PROVE TypeOK
    OBVIOUS
  <2>1. lost \subseteq Nat
    BY ListAssumption DEF ListInv, Covered, HeapBytes
  <2> QED BY <2>1 DEF ListInv, SoundList, SoundBlocks, TypeOK, Regions, Blocks
<1> QED BY <1>1, ListIsInvariant, PTL

\* Free regions overlap neither each other nor a block in use: writing the list
\* nodes never damages a block.
THEOREM ListFreeListSound == Spec => []FreeListSound
<1>1. ListInv => FreeListSound
  BY DEF ListInv, SoundList, InHeap, FreeListSound
<1> QED BY <1>1, ListIsInvariant, PTL

\* The assertions of add_free_region never fail.
THEOREM ListNoAssertionFails == Spec => []NoAssertionFails
<1>1. ListInv => NoAssertionFails
  BY DEF ListInv, NoAssertionFails
<1> QED BY <1>1, ListIsInvariant, PTL

\* No byte of the heap is lost but the padding in front of aligned blocks.
THEOREM ListOnlyPaddingIsLost == Spec => []OnlyPaddingIsLost
<1>1. ListInv => OnlyPaddingIsLost
  <2> SUFFICES ASSUME ListInv, pc = "ready" PROVE OnlyPaddingIsLost
    BY DEF OnlyPaddingIsLost
  <2>1. Covered(free, live, lost)
    BY DEF ListInv
  <2>2. HeapBytes \ ((UNION {Bytes(free[i]) : i \in DOMAIN free})
                       \cup (UNION {Bytes(Extent(b)) : b \in live})) = lost
    <3> DEFINE f == UNION {Bytes(free[i]) : i \in DOMAIN free}
               u == UNION {Bytes(Extent(b)) : b \in live}
    <3>1. \A x : x \in f <=> InList(x, free)
      BY Zenon DEF InList
    <3>2. \A x : x \in u <=> InBlocks(x, live)
      BY Zenon DEF InBlocks
    <3> HIDE DEF f, u
    <3>3. HeapBytes \ (f \cup u) = lost
      BY <2>1, <3>1, <3>2 DEF Covered
    <3> QED BY <3>3, Zenon DEF f, u
  <2>3. \A b, c \in live : b # c => Apart(Extent(b), Extent(c))
    BY DEF ListInv, SoundBlocks
  <2> QED BY <2>2, <2>3 DEF OnlyPaddingIsLost, HeapBytes
<1> QED BY <1>1, ListIsInvariant, PTL

\* The linked list allocator delivers what GlobalAlloc promises.
THEOREM ListImplementsHeap == Spec => ImplementsHeap
<1>1. Init => H!Init
  BY DEF Init, H!Init
<1>2. ASSUME ListInv, [Next]_vars
      PROVE  [H!Next]_live
  <2>1. ASSUME NEW l \in Layouts, Alloc(l)
        PROVE  H!Next
    BY <1>2, <2>1, AllocStep DEF H!Next
  <2>2. ASSUME NEW b \in live, Dealloc(b)
        PROVE  H!Next
    BY <2>2 DEF Dealloc, H!Next, H!Dealloc
  <2>3. CASE UNCHANGED live
    BY <2>3
  <2> QED BY <1>2, <2>1, <2>2, <2>3 DEF Next, List_init, Alloc_null, vars
<1>3. ListInv /\ [Next]_vars => [H!Next]_live
  BY <1>2
<1> QED BY <1>1, <1>3, ListIsInvariant, PTL DEF Spec, ImplementsHeap, H!Spec
=============================================================================
