-------------------------- MODULE FixedSizeProofs ---------------------------
(***************************************************************************)
(* The fixed size block allocator accounts for every block of its fallback *)
(* and implements GlobalAlloc if its fallback does, for every heap, every  *)
(* sequence of block sizes and every set of layouts.                       *)
(***************************************************************************)
EXTENDS FixedSizeBlock, WellFoundedInduction, SequenceTheorems, TLAPS

(***************************************************************************)
(* Arithmetic.                                                             *)
(***************************************************************************)
\* Taking the remainder away leaves a multiple, and the remainder is small.
LEMMA Remainder ==
  ASSUME NEW x \in Nat, NEW d \in Nat \ {0}
  PROVE  x % d \in 0 .. d - 1 /\ x - (x % d) = d * (x \div d) /\ x \div d \in Nat
OBVIOUS

\* A multiple of the alignment is aligned.
LEMMA MultipleHasNoRemainder ==
  ASSUME NEW q \in Nat, NEW d \in Nat \ {0}
  PROVE  (d * q) % d = 0
OBVIOUS

\* An aligned number is a multiple of its alignment.
LEMMA AlignedIsMultiple ==
  ASSUME NEW x \in Nat, NEW d \in Nat \ {0}, x % d = 0
  PROVE  x \div d \in Nat /\ x = d * (x \div d)
BY Remainder

\* What is aligned for a multiple of an alignment is aligned for that one.
LEMMA AlignedForDivisor ==
  ASSUME NEW x \in Nat, NEW a \in Nat \ {0}, NEW d \in Nat \ {0}, x % a = 0, a % d = 0
  PROVE  x % d = 0
<1> DEFINE p == x \div a
           q == a \div d
<1>1. p \in Nat /\ x = a * p /\ q \in Nat /\ a = d * q
  BY AlignedIsMultiple
<1> HIDE DEF p, q
<1>2. x = d * (q * p) /\ q * p \in Nat
  BY <1>1
<1> QED BY <1>2, MultipleHasNoRemainder

\* A set of numbers has a least one, which is what a loop over a list that
\* returns at the first suitable entry finds.
LEMMA LeastExists ==
  ASSUME NEW S \in SUBSET Nat, S # {}
  PROVE  \E i \in S : \A j \in S : i <= j
<1>1. PICK x \in S : \A y \in S : ~ (<<y, x>> \in OpToRel(<, Nat))
  BY NatLessThanWellFounded, WFMin, Zenon
<1>2. \A y \in S : y < x => <<y, x>> \in OpToRel(<, Nat)
  BY Zenon DEF OpToRel
<1>3. \A y \in S : ~(y < x)
  BY <1>1, <1>2, Zenon
<1> QED BY <1>3

-----------------------------------------------------------------------------
-----------------------------------------------------------------------------
(***************************************************************************)
(* The inductive invariant.                                                *)
(***************************************************************************)
Sizes == 1 .. NumLists

\* What the fallback allocator promised of the blocks it handed out.
FallbackSound ==
  /\ \A c \in fallback :
       /\ HeapStart <= c.start /\ c.start + c.size <= HeapStart + HeapSize
       /\ c.start % c.align = 0
  /\ \A c, d \in fallback : c # d => Fallback!Disjoint(c, d)

LayoutOf(b) == [size |-> b.size, align |-> b.align]

\* The blocks in use have layouts that were asked for, and no two of them lie
\* in the same block of the fallback.
LiveSound ==
  /\ \A b \in live : LayoutOf(b) \in Layouts
  /\ \A b, c \in live : Backing(b) = Backing(c) => b = c

FixedInv == TypeOK /\ BlocksAccountedFor /\ FallbackSound /\ LiveSound

-----------------------------------------------------------------------------
(***************************************************************************)
(* The size classes.                                                       *)
(***************************************************************************)
LEMMA SizesFacts ==
  /\ NumLists \in Nat /\ Sizes \subseteq Nat
  /\ \A i \in Sizes : BlockSizes[i] \in Nat \ {0}
  /\ \A i, j \in Sizes : BlockSizes[i] = BlockSizes[j] => i = j
<1>1. NumLists \in Nat /\ \A i \in Sizes : BlockSizes[i] \in Nat \ {0}
  BY BlockAssumption DEF NumLists, Sizes
<1>2. \A i, j \in Sizes : BlockSizes[i] = BlockSizes[j] => i = j
  BY <1>1, BlockAssumption DEF Sizes
<1> QED BY <1>1, <1>2 DEF Sizes

\* list_index finds the first size that is large enough for size and alignment,
\* and that size is aligned as the layout asks.
LEMMA ListIndex ==
  ASSUME NEW l \in Layouts, Has_index(l)
  PROVE  /\ List_index(l) \in Sizes
         /\ BlockSizes[List_index(l)] >= l.size
         /\ BlockSizes[List_index(l)] % l.align = 0
<1> DEFINE S == {i \in Sizes : BlockSizes[i] >= Required(l)}
<1>1. /\ S \in SUBSET Nat /\ S # {}
  BY SizesFacts DEF Has_index, Sizes
<1>2. PICK i \in S : \A j \in S : i <= j
  BY <1>1, LeastExists
<1>3. l.size \in Nat \ {0} /\ l.align \in Nat \ {0} /\ Required(l) \in Nat
      /\ Required(l) >= l.size /\ Required(l) >= l.align
  BY BlockAssumption DEF Required, Larger
<1>4. \A j \in 1 .. i - 1 : BlockSizes[j] < Required(l)
  <2> TAKE j \in 1 .. i - 1
  <2>1. i \in Sizes /\ i \in Nat /\ j \in Sizes /\ j < i
    BY <1>2, SizesFacts DEF Sizes
  <2>2. j \notin S
    BY <1>2, <2>1 DEF Sizes
  <2> QED BY <1>3, <2>1, <2>2, SizesFacts
<1>5. \E k \in 1 .. NumLists : /\ BlockSizes[k] >= Required(l)
                               /\ \A j \in 1 .. k - 1 : BlockSizes[j] < Required(l)
  BY <1>2, <1>4 DEF Sizes
<1>6. List_index(l) \in Sizes /\ BlockSizes[List_index(l)] >= Required(l)
  BY <1>5 DEF List_index, Sizes
<1> QED BY <1>3, <1>6, SizesFacts, BlockAssumption DEF Sizes

\* Only the layout of a block decides its list.
LEMMA SameIndex ==
  ASSUME NEW b, NEW l, b.size = l.size, b.align = l.align
  PROVE  (Has_index(b) <=> Has_index(l)) /\ List_index(b) = List_index(l)
<1>1. Required(b) = Required(l)
  BY DEF Required
<1> QED BY <1>1 DEF Has_index, List_index

\* The layout a block is requested with from the fallback allocator.
Asked(l) == IF Has_index(l) THEN BlockLayout(List_index(l)) ELSE l

\* It is as large and as aligned as the layout of the request.
LEMMA AskedLayout ==
  ASSUME NEW l \in Layouts
  PROVE  /\ Asked(l) \in [size : Nat \ {0}, align : Nat \ {0}]
         /\ l.size \in Nat \ {0} /\ l.align \in Nat \ {0}
         /\ l.size <= Asked(l).size /\ Asked(l).align % l.align = 0
<1>1. l \in [size : Nat \ {0}, align : Nat \ {0}] /\ l.size \in Nat \ {0} /\ l.align \in Nat \ {0}
  BY BlockAssumption
<1>2. CASE Has_index(l)
  <2>1. List_index(l) \in Sizes /\ BlockSizes[List_index(l)] \in Nat \ {0}
    BY <1>2, ListIndex, SizesFacts
  <2>2. Asked(l) = [size |-> BlockSizes[List_index(l)], align |-> BlockSizes[List_index(l)]]
    BY <1>2 DEF Asked, BlockLayout
  <2> QED BY <1>1, <1>2, <2>1, <2>2, ListIndex
<1>3. CASE ~Has_index(l)
  <2>1. l.align = l.align * 1
    BY <1>1
  <2>2. l.align % l.align = 0
    BY <1>1, <2>1, MultipleHasNoRemainder
  <2> QED BY <1>1, <1>3, <2>2 DEF Asked
<1> QED BY <1>2, <1>3

\* The backing of a new block.
LEMMA BackingOf ==
  ASSUME NEW l \in Layouts, NEW s \in Nat
  PROVE  /\ Block(s, l) \in Blocks /\ Backing(Block(s, l)) \in Blocks
         /\ LayoutOf(Block(s, l)) = l
         /\ Backing(Block(s, l)) = Block(s, Asked(l))
<1> DEFINE b == Block(s, l)
<1>1. l = [size |-> l.size, align |-> l.align]
  BY BlockAssumption
<1>2. b.size = l.size /\ b.align = l.align /\ b.start = s
      /\ b = [start |-> s, size |-> l.size, align |-> l.align]
  BY DEF Block
<1>3. (Has_index(b) <=> Has_index(l)) /\ List_index(b) = List_index(l)
  BY <1>2, SameIndex
<1> HIDE DEF b
<1>4. Backing(b) = Block(s, Asked(l))
  BY <1>2, <1>3 DEF Backing, Asked, Block
<1>5. Block(s, Asked(l)) \in Blocks /\ b \in Blocks
  BY <1>2, AskedLayout DEF Block, Blocks
<1> QED BY <1>1, <1>2, <1>4, <1>5 DEF LayoutOf, b

-----------------------------------------------------------------------------
(***************************************************************************)
(* The lists.                                                              *)
(***************************************************************************)
Entry(a, i) == Block(a, BlockLayout(i))

LEMMA EntryFacts ==
  ASSUME NEW i \in Sizes, NEW a \in Nat
  PROVE  /\ Entry(a, i) \in Blocks
         /\ Entry(a, i).start = a /\ Entry(a, i).size = BlockSizes[i]
         /\ Entry(a, i).align = BlockSizes[i]
         /\ \A j \in Sizes : \A b \in Nat : Entry(a, i) = Entry(b, j) => a = b /\ i = j
<1>1. \A j \in Sizes : \A b \in Nat :
        Entry(b, j) = [start |-> b, size |-> BlockSizes[j], align |-> BlockSizes[j]]
  BY DEF Entry, Block, BlockLayout
<1>2. \A j \in Sizes : \A b \in Nat :
        Entry(b, j).start = b /\ Entry(b, j).size = BlockSizes[j] /\ Entry(b, j).align = BlockSizes[j]
  BY <1>1
<1>3. \A j \in Sizes : \A b \in Nat : Entry(a, i) = Entry(b, j) => a = b /\ i = j
  BY <1>2, SizesFacts
<1>4. Entry(a, i) \in Blocks
  BY <1>1, SizesFacts DEF Blocks
<1> QED BY <1>2, <1>3, <1>4

\* Listed for lists h.
InLists(x, h) == \E i \in Sizes : \E k \in DOMAIN h[i] : x = Entry(h[i][k], i)

LEMMA ListedForm == \A x : x \in Listed <=> InLists(x, list_heads)
BY DEF Listed, InLists, Entry, Sizes

\* Each address is in the list once.
Once(q) == \A j, k \in DOMAIN q : q[j] = q[k] => j = k

\* The list without its head.
LEMMA TailOnce ==
  ASSUME NEW q \in Seq(Nat), q # << >>, Once(q)
  PROVE  /\ Head(q) \in Nat /\ Tail(q) \in Seq(Nat) /\ Once(Tail(q))
         /\ \E k \in DOMAIN q : q[k] = Head(q)
         /\ \A x : (\E k \in DOMAIN Tail(q) : x = Tail(q)[k])
                     <=> x # Head(q) /\ \E k \in DOMAIN q : x = q[k]
<1> DEFINE n == Len(q)
           t == Tail(q)
<1>1. /\ n \in Nat /\ n >= 1 /\ DOMAIN q = 1 .. n
      /\ Head(q) = q[1] /\ Head(q) \in Nat
      /\ t \in Seq(Nat) /\ Len(t) = n - 1 /\ DOMAIN t = 1 .. n - 1
      /\ \A k \in 1 .. n - 1 : t[k] = q[k + 1]
  BY HeadTailProperties, EmptySeq
<1> HIDE DEF n, t
<1>2. Once(t)
  <2> SUFFICES ASSUME NEW j \in DOMAIN t, NEW k \in DOMAIN t, t[j] = t[k]
               PROVE  j = k
    BY DEF Once
  <2>1. t[j] = q[j + 1] /\ j + 1 \in DOMAIN q /\ j \in Nat
    BY <1>1
  <2>2. t[k] = q[k + 1] /\ k + 1 \in DOMAIN q /\ k \in Nat
    BY <1>1
  <2>3. q[j + 1] = q[k + 1]
    BY <2>1, <2>2
  <2>4. j + 1 = k + 1
    BY <2>1, <2>2, <2>3 DEF Once
  <2> QED BY <2>1, <2>2, <2>4
<1>3. ASSUME NEW k \in DOMAIN t
      PROVE  t[k] # Head(q) /\ \E j \in DOMAIN q : t[k] = q[j]
  <2>1. k + 1 \in DOMAIN q /\ 1 \in DOMAIN q /\ k + 1 # 1 /\ t[k] = q[k + 1]
    BY <1>1
  <2> QED BY <1>1, <2>1 DEF Once
<1>4. ASSUME NEW k \in DOMAIN q, q[k] # Head(q)
      PROVE  \E j \in DOMAIN t : q[k] = t[j]
  <2>1. k # 1 /\ k - 1 \in DOMAIN t /\ (k - 1) + 1 = k
    BY <1>1, <1>4
  <2>2. t[k - 1] = q[k]
    BY <1>1, <2>1
  <2> QED BY <2>1, <2>2
<1>5. 1 \in DOMAIN q
  BY <1>1
<1>6. \A x : (\E k \in DOMAIN t : x = t[k]) <=> x # Head(q) /\ \E k \in DOMAIN q : x = q[k]
  BY <1>3, <1>4
<1>7. \E k \in DOMAIN q : q[k] = Head(q)
  BY <1>1, <1>5
<1>8. Head(q) \in Nat /\ t \in Seq(Nat)
  BY <1>1
<1> QED BY <1>2, <1>6, <1>7, <1>8 DEF t

\* The list with a new head.
LEMMA PushOnce ==
  ASSUME NEW q \in Seq(Nat), Once(q), NEW a \in Nat, \A k \in DOMAIN q : q[k] # a
  PROVE  /\ <<a>> \o q \in Seq(Nat) /\ Once(<<a>> \o q)
         /\ \A x : (\E k \in DOMAIN (<<a>> \o q) : x = (<<a>> \o q)[k])
                     <=> x = a \/ \E k \in DOMAIN q : x = q[k]
<1> DEFINE n == Len(q)
           one == <<a>>
           g == one \o q
<1>1. n \in Nat /\ DOMAIN q = 1 .. n /\ one \in Seq(Nat) /\ Len(one) = 1 /\ one[1] = a
  OBVIOUS
<1> HIDE DEF one
<1>2. /\ g \in Seq(Nat) /\ Len(g) = Len(one) + Len(q)
      /\ \A k \in 1 .. Len(one) + Len(q) :
           g[k] = IF k <= Len(one) THEN one[k] ELSE q[k - Len(one)]
  BY <1>1, ConcatProperties
<1> HIDE DEF g
<1>3. DOMAIN g = 1 .. n + 1
  BY <1>1, <1>2
<1>4. 1 \in DOMAIN g /\ g[1] = a
  BY <1>1, <1>2, <1>3
<1>5. ASSUME NEW k \in DOMAIN g
      PROVE  k = 1 \/ (k - 1 \in DOMAIN q /\ g[k] = q[k - 1] /\ k \in Nat)
  BY <1>1, <1>2, <1>3
<1>6. ASSUME NEW k \in DOMAIN q
      PROVE  k + 1 \in DOMAIN g /\ g[k + 1] = q[k]
  <2>1. k + 1 \in DOMAIN g /\ k + 1 # 1 /\ (k + 1) - 1 = k
    BY <1>1, <1>3
  <2> QED BY <1>5, <2>1
<1>7. Once(g)
  <2> SUFFICES ASSUME NEW j \in DOMAIN g, NEW k \in DOMAIN g, g[j] = g[k]
               PROVE  j = k
    BY DEF Once
  <2>1. CASE j = 1 \/ k = 1
    BY <1>4, <1>5, <2>1
  <2>2. CASE j # 1 /\ k # 1
    <3>1. j - 1 = k - 1
      BY <1>5, <2>2 DEF Once
    <3> QED BY <1>5, <2>2, <3>1
  <2> QED BY <2>1, <2>2
<1>8. \A x : (\E k \in DOMAIN g : x = g[k]) <=> x = a \/ \E k \in DOMAIN q : x = q[k]
  BY <1>4, <1>5, <1>6
<1> QED BY <1>2, <1>7, <1>8 DEF g, one

-----------------------------------------------------------------------------
(***************************************************************************)
(* Initial states and steps.                                               *)
(***************************************************************************)
BlocksOf(L) == {Backing(b) : b \in L}

\* BlocksAccountedFor without the set Listed.
Accounted(h, f, L) ==
  /\ \A x : x \in f <=> x \in BlocksOf(L) \/ InLists(x, h)
  /\ \A x \in BlocksOf(L) : ~InLists(x, h)
  /\ \A i \in Sizes : Once(h[i])

LEMMA AccountedForm == BlocksAccountedFor <=> Accounted(list_heads, fallback, live)
<1>1. \A x : x \in Listed <=> InLists(x, list_heads)
  BY ListedForm
<1>2. fallback = {Backing(b) : b \in live} \cup Listed
        <=> \A x : x \in fallback <=> x \in BlocksOf(live) \/ InLists(x, list_heads)
  BY <1>1 DEF BlocksOf
<1>3. {Backing(b) : b \in live} \cap Listed = {}
        <=> \A x \in BlocksOf(live) : ~InLists(x, list_heads)
  BY <1>1 DEF BlocksOf
<1> QED BY <1>2, <1>3 DEF BlocksAccountedFor, Accounted, Once, Sizes

LEMMA AccountedNext == BlocksAccountedFor' <=> Accounted(list_heads', fallback', live')
<1>1. (BlocksAccountedFor <=> Accounted(list_heads, fallback, live))'
  BY AccountedForm, PTL
<1>2. Accounted(list_heads, fallback, live)' <=> Accounted(list_heads', fallback', live')
  BY DEF Accounted, InLists, BlocksOf, Once
<1> QED BY <1>1, <1>2

LEMMA InitFixed == Init => FixedInv
<1> SUFFICES ASSUME Init PROVE FixedInv
  OBVIOUS
<1>1. \A i \in Sizes : list_heads[i] = << >> /\ list_heads[i] \in Seq(Nat)
  BY EmptySeq DEF Init, Sizes
<1>2. \A i \in Sizes : \A k \in DOMAIN list_heads[i] : FALSE
  BY <1>1
<1>3. list_heads = [i \in Sizes |-> list_heads[i]]
  BY DEF Init, Sizes
<1>4. list_heads \in [Sizes -> Seq(Nat)]
  BY <1>1, <1>3
<1>5. TypeOK
  BY <1>2, <1>4 DEF Init, TypeOK, Sizes
<1>6. Accounted(list_heads, fallback, live)
  BY <1>2 DEF Init, Accounted, BlocksOf, InLists, Once
<1>7. FallbackSound /\ LiveSound
  BY DEF Init, FallbackSound, LiveSound
<1> QED BY <1>5, <1>6, <1>7, AccountedForm DEF FixedInv

\* A block that alloc hands out, in a block e of the fallback where no block in
\* use lies, keeps the promise of GlobalAlloc.
LEMMA HandOut ==
  ASSUME FixedInv, FallbackSound', NEW l \in Layouts, NEW s \in Nat,
         fallback \subseteq fallback', fallback' \subseteq Blocks,
         Block(s, Asked(l)) \in fallback',
         Block(s, Asked(l)) \notin BlocksOf(live),
         live' = live \cup {Block(s, l)}
  PROVE  /\ LiveSound' /\ live' \subseteq Blocks
         /\ BlocksOf(live') = BlocksOf(live) \cup {Block(s, Asked(l))}
         /\ \E t \in HeapStart .. HeapStart + HeapSize : H!Alloc(l, t)
<1> DEFINE b == Block(s, l)
           e == Block(s, Asked(l))
<1>1. b \in Blocks /\ Backing(b) = e /\ e \in Blocks /\ LayoutOf(b) = l
  BY BackingOf
<1>2. /\ b.start = s /\ b.size = l.size /\ b.align = l.align
      /\ b = [start |-> s, size |-> l.size, align |-> l.align]
  BY DEF Block
<1>3. e.start = s /\ e.size = Asked(l).size /\ e.align = Asked(l).align
  BY DEF Block
<1>4. /\ l.size \in Nat \ {0} /\ l.align \in Nat \ {0}
      /\ Asked(l).size \in Nat \ {0} /\ Asked(l).align \in Nat \ {0}
      /\ l.size <= Asked(l).size /\ Asked(l).align % l.align = 0
  BY AskedLayout
<1>5. b \notin live /\ live \subseteq Blocks
  BY <1>1 DEF BlocksOf, FixedInv, TypeOK
<1> HIDE DEF b, e
<1>6. BlocksOf(live') = BlocksOf(live) \cup {e}
  BY <1>1 DEF BlocksOf, b
<1>7. LiveSound'
  <2>1. \A c \in live' : LayoutOf(c) \in Layouts
    BY <1>1 DEF FixedInv, LiveSound, b
  <2>2. \A c \in live : Backing(c) # e
    BY DEF BlocksOf, e
  <2>3. \A c, d \in live' : Backing(c) = Backing(d) => c = d
    BY <1>1, <2>2 DEF FixedInv, LiveSound, b
  <2> QED BY <2>1, <2>3 DEF LiveSound
<1>8. /\ HeapStart <= s /\ s + Asked(l).size <= HeapStart + HeapSize
      /\ s % Asked(l).align = 0
  BY <1>3 DEF FallbackSound, e
<1>9. s % l.align = 0
  BY <1>4, <1>8, AlignedForDivisor
<1>10. s \in HeapStart .. HeapStart + HeapSize /\ s + l.size <= HeapStart + HeapSize
  BY <1>4, <1>8, BlockAssumption
<1>11. ASSUME NEW c \in live PROVE H!Disjoint(b, c)
  <2>1. c \in Blocks /\ LayoutOf(c) \in Layouts /\ c.start \in Nat /\ c.size \in Nat
    BY <1>5 DEF FixedInv, LiveSound, Blocks
  <2>2. c = Block(c.start, LayoutOf(c)) /\ LayoutOf(c).size = c.size
    BY <2>1 DEF Block, LayoutOf, Blocks
  <2>3. Backing(c) = Block(c.start, Asked(LayoutOf(c)))
    BY <2>1, <2>2, BackingOf
  <2>4. Backing(c).start = c.start /\ Backing(c).size = Asked(LayoutOf(c)).size
    BY <2>3 DEF Block
  <2>5. Asked(LayoutOf(c)).size \in Nat /\ c.size <= Asked(LayoutOf(c)).size
    BY <2>1, <2>2, AskedLayout
  <2>6. Backing(c) # e /\ e \in fallback'
    BY DEF BlocksOf, e
  <2>7. Backing(c) \in fallback'
    <3>1. Accounted(list_heads, fallback, live)
      BY AccountedForm DEF FixedInv
    <3> QED BY <3>1 DEF Accounted, BlocksOf
  <2>8. Fallback!Disjoint(e, Backing(c))
    BY <2>6, <2>7 DEF FallbackSound, Fallback!Disjoint
  <2>9. s + Asked(l).size <= c.start \/ c.start + Asked(LayoutOf(c)).size <= s
    BY <1>3, <2>4, <2>8 DEF Fallback!Disjoint
  <2>10. s + l.size <= c.start \/ c.start + c.size <= s
    BY <1>4, <2>1, <2>5, <2>9
  <2> QED BY <1>2, <2>10 DEF H!Disjoint
<1>12. H!Alloc(l, s)
  BY <1>2, <1>8, <1>9, <1>10, <1>11 DEF H!Alloc, b
<1> QED BY <1>1, <1>5, <1>6, <1>7, <1>10, <1>12 DEF b, e

\* alloc serves the request from the list of its size.
LEMMA AllocListed ==
  ASSUME FixedInv, NEW l \in Layouts, Alloc_listed(l)
  PROVE  FixedInv' /\ \E t \in HeapStart .. HeapStart + HeapSize : H!Alloc(l, t)
<1> DEFINE i == List_index(l)
           q == list_heads[i]
           a == Head(q)
           e == Entry(a, i)
<1>1. i \in Sizes /\ Asked(l) = BlockLayout(i)
  BY ListIndex DEF Alloc_listed, Asked
<1>2. /\ q # << >> /\ live' = live \cup {Block(a, l)} /\ fallback' = fallback
      /\ list_heads' = [list_heads EXCEPT ![i] = Tail(q)]
  BY DEF Alloc_listed, Unlinked
<1>3. Accounted(list_heads, fallback, live)
  BY AccountedForm DEF FixedInv
<1> HIDE DEF i
<1>4. list_heads \in [Sizes -> Seq(Nat)] /\ q \in Seq(Nat) /\ Once(q)
  BY <1>1, <1>3 DEF FixedInv, TypeOK, Sizes, Accounted
<1>5. /\ a \in Nat /\ Tail(q) \in Seq(Nat) /\ Once(Tail(q))
      /\ \E k \in DOMAIN q : q[k] = a
      /\ \A x : (\E k \in DOMAIN Tail(q) : x = Tail(q)[k]) <=> x # a /\ \E k \in DOMAIN q : x = q[k]
  BY <1>2, <1>4, TailOnce
<1>6. list_heads' \in [Sizes -> Seq(Nat)] /\ list_heads'[i] = Tail(q)
      /\ \A j \in Sizes : j # i => list_heads'[j] = list_heads[j]
  BY <1>1, <1>2, <1>4, <1>5
<1>7. \A j \in Sizes : \A k \in DOMAIN list_heads[j] : list_heads[j][k] \in Nat
  BY <1>4
<1> HIDE DEF q, a, e
<1>8. InLists(e, list_heads)
  BY <1>1, <1>5 DEF InLists, e, q
<1>9. \A x : InLists(x, list_heads') <=> InLists(x, list_heads) /\ x # e
  <2> SUFFICES ASSUME NEW x
               PROVE  InLists(x, list_heads') <=> InLists(x, list_heads) /\ x # e
    OBVIOUS
  <2>1. ASSUME NEW j \in Sizes, NEW k \in DOMAIN list_heads'[j], x = Entry(list_heads'[j][k], j)
        PROVE  InLists(x, list_heads) /\ x # e
    <3>1. CASE j = i
      <4>1. PICK m \in DOMAIN q : list_heads'[j][k] = q[m]
        BY <1>5, <1>6, <2>1, <3>1
      <4>2. list_heads'[j][k] # a /\ q[m] \in Nat
        BY <1>1, <1>5, <1>6, <1>7, <2>1, <3>1, <4>1 DEF q
      <4>3. x # e
        BY <1>1, <1>5, <2>1, <3>1, <4>1, <4>2, EntryFacts DEF e
      <4> QED BY <1>1, <2>1, <3>1, <4>1, <4>3 DEF InLists, q
    <3>2. CASE j # i
      <4>1. k \in DOMAIN list_heads[j] /\ x = Entry(list_heads[j][k], j) /\ list_heads[j][k] \in Nat
        BY <1>6, <1>7, <2>1, <3>2
      <4>2. x # e
        BY <1>1, <1>5, <3>2, <4>1, EntryFacts DEF e
      <4> QED BY <4>1, <4>2 DEF InLists
    <3> QED BY <3>1, <3>2
  <2>2. ASSUME NEW j \in Sizes, NEW k \in DOMAIN list_heads[j], x = Entry(list_heads[j][k], j), x # e
        PROVE  InLists(x, list_heads')
    <3>1. CASE j = i
      <4>1. q[k] # a /\ k \in DOMAIN q
        BY <2>2, <3>1 DEF e, q
      <4>2. PICK m \in DOMAIN Tail(q) : q[k] = Tail(q)[m]
        BY <1>5, <4>1
      <4> QED BY <1>1, <1>6, <2>2, <3>1, <4>2 DEF InLists, q
    <3>2. CASE j # i
      BY <1>6, <2>2, <3>2 DEF InLists
    <3> QED BY <3>1, <3>2
  <2> QED BY <2>1, <2>2 DEF InLists
<1>10. e = Block(a, Asked(l)) /\ e \in fallback /\ e \notin BlocksOf(live)
  BY <1>1, <1>3, <1>8 DEF Accounted, Entry, e
<1>11. FallbackSound'
  BY <1>2 DEF FixedInv, FallbackSound, Fallback!Disjoint
<1>12. fallback \subseteq Blocks
  BY DEF FixedInv, TypeOK
<1>13. /\ LiveSound' /\ live' \subseteq Blocks /\ BlocksOf(live') = BlocksOf(live) \cup {e}
       /\ \E t \in HeapStart .. HeapStart + HeapSize : H!Alloc(l, t)
  BY <1>2, <1>5, <1>10, <1>11, <1>12, HandOut
<1>14. Accounted(list_heads', fallback', live')
  <2>1. \A j \in Sizes : Once(list_heads'[j])
    BY <1>3, <1>5, <1>6 DEF Accounted
  <2> QED BY <1>2, <1>3, <1>8, <1>9, <1>13, <2>1 DEF Accounted
<1>15. BlocksAccountedFor'
  BY <1>14, AccountedNext
<1>16. \A j \in Sizes : \A k \in DOMAIN list_heads'[j] : list_heads'[j][k] % BlockSizes[j] = 0
  <2> TAKE j \in Sizes
  <2> TAKE k \in DOMAIN list_heads'[j]
  <2>1. CASE j = i
    <3>1. PICK m \in DOMAIN q : list_heads'[j][k] = q[m]
      BY <1>5, <1>6, <2>1
    <3> QED BY <1>1, <2>1, <3>1 DEF FixedInv, TypeOK, Sizes, q
  <2>2. CASE j # i
    BY <1>6, <2>2 DEF FixedInv, TypeOK, Sizes
  <2> QED BY <2>1, <2>2
<1>17. TypeOK'
  BY <1>2, <1>6, <1>12, <1>13, <1>16 DEF TypeOK, Sizes
<1> QED BY <1>11, <1>13, <1>15, <1>17 DEF FixedInv

\* alloc asks the fallback allocator, for a block of the size of an empty list or
\* for a layout that is larger than every block.
LEMMA AllocFallback ==
  ASSUME FixedInv, NEW l \in Layouts, NEW s \in HeapStart .. HeapStart + HeapSize,
         Alloc_new(l, s) \/ Alloc_large(l, s)
  PROVE  FixedInv' /\ \E t \in HeapStart .. HeapStart + HeapSize : H!Alloc(l, t)
<1> DEFINE e == Block(s, Asked(l))
<1>1. s \in Nat /\ HeapStart \in Nat /\ HeapSize \in Nat
  BY BlockAssumption
<1>2. /\ Fallback!Alloc(Asked(l), s) /\ live' = live \cup {Block(s, l)}
      /\ list_heads' = list_heads
  BY DEF Alloc_new, Alloc_large, Asked
<1>3. /\ HeapStart <= s /\ s + Asked(l).size <= HeapStart + HeapSize
      /\ s % Asked(l).align = 0
      /\ \A c \in fallback : Fallback!Disjoint(e, c)
      /\ fallback' = fallback \cup {e}
  BY <1>2 DEF Fallback!Alloc, Block
<1>4. Asked(l).size \in Nat \ {0} /\ Asked(l).align \in Nat \ {0}
  BY AskedLayout
<1>5. e \in Blocks /\ e.start = s /\ e.size = Asked(l).size /\ e.align = Asked(l).align
  BY <1>1, BackingOf DEF Block
<1> HIDE DEF e
<1>6. e \notin fallback
  <2>1. ~Fallback!Disjoint(e, e)
    BY <1>1, <1>4, <1>5 DEF Fallback!Disjoint
  <2> QED BY <1>3, <2>1
<1>7. FallbackSound'
  <2>1. \A c \in fallback' : /\ HeapStart <= c.start /\ c.start + c.size <= HeapStart + HeapSize
                             /\ c.start % c.align = 0
    BY <1>3, <1>5 DEF FixedInv, FallbackSound
  <2>2. \A c \in fallback : Fallback!Disjoint(c, e)
    BY <1>3 DEF Fallback!Disjoint
  <2>3. \A c, d \in fallback' : c # d => Fallback!Disjoint(c, d)
    BY <1>3, <2>2 DEF FixedInv, FallbackSound
  <2> QED BY <2>1, <2>3 DEF FallbackSound, Fallback!Disjoint
<1>8. Accounted(list_heads, fallback, live)
  BY AccountedForm DEF FixedInv
<1>9. e \notin BlocksOf(live) /\ ~InLists(e, list_heads)
  BY <1>6, <1>8 DEF Accounted
<1>10. fallback' \subseteq Blocks /\ fallback \subseteq fallback' /\ e \in fallback'
  BY <1>3, <1>5 DEF FixedInv, TypeOK
<1>11. /\ LiveSound' /\ live' \subseteq Blocks /\ BlocksOf(live') = BlocksOf(live) \cup {e}
       /\ \E t \in HeapStart .. HeapStart + HeapSize : H!Alloc(l, t)
  BY <1>1, <1>2, <1>7, <1>9, <1>10, HandOut DEF e
<1>12. Accounted(list_heads', fallback', live')
  BY <1>2, <1>3, <1>8, <1>9, <1>11 DEF Accounted
<1>13. TypeOK'
  BY <1>2, <1>10, <1>11 DEF FixedInv, TypeOK
<1> QED BY <1>7, <1>11, <1>12, <1>13, AccountedNext DEF FixedInv

\* The backing of a block in use is its own.
LEMMA DropBacking ==
  ASSUME FixedInv, NEW b \in live, live' = live \ {b}
  PROVE  /\ LiveSound' /\ live' \subseteq Blocks
         /\ \A x : x \in BlocksOf(live') <=> x \in BlocksOf(live) /\ x # Backing(b)
<1>1. \A c \in live : Backing(c) = Backing(b) => c = b
  BY DEF FixedInv, LiveSound
<1>2. \A x : x \in BlocksOf(live') <=> x \in BlocksOf(live) /\ x # Backing(b)
  BY <1>1 DEF BlocksOf
<1>3. LiveSound' /\ live' \subseteq Blocks
  BY DEF FixedInv, LiveSound, TypeOK
<1> QED BY <1>2, <1>3

\* dealloc returns a block to the list it was taken from or made for.
LEMMA DeallocListed ==
  ASSUME FixedInv, NEW b \in live, Dealloc_listed(b)
  PROVE  FixedInv'
<1> DEFINE i == List_index(b)
           q == list_heads[i]
           e == Backing(b)
<1>1. b \in Blocks /\ LayoutOf(b) \in Layouts /\ b.start \in Nat
  BY DEF FixedInv, TypeOK, LiveSound, Blocks
<1>2. i \in Sizes /\ e = Entry(b.start, i)
  <2>1. LayoutOf(b).size = b.size /\ LayoutOf(b).align = b.align
    BY DEF LayoutOf
  <2>2. (Has_index(b) <=> Has_index(LayoutOf(b))) /\ i = List_index(LayoutOf(b))
    BY <2>1, SameIndex
  <2>3. Has_index(b)
    BY DEF Dealloc_listed
  <2>4. i \in Sizes
    BY <1>1, <2>2, <2>3, ListIndex
  <2> QED BY <2>3, <2>4 DEF Backing, Entry
<1>3. /\ list_heads' = [list_heads EXCEPT ![i] = <<b.start>> \o q]
      /\ live' = live \ {b} /\ fallback' = fallback
  BY DEF Dealloc_listed, Home
<1>4. Accounted(list_heads, fallback, live)
  BY AccountedForm DEF FixedInv
<1>5. e \in BlocksOf(live) /\ e \in fallback /\ ~InLists(e, list_heads)
  BY <1>4 DEF Accounted, BlocksOf
<1> HIDE DEF i, e
<1>6. list_heads \in [Sizes -> Seq(Nat)] /\ q \in Seq(Nat) /\ Once(q)
  BY <1>2, <1>4 DEF FixedInv, TypeOK, Sizes, Accounted
<1>7. \A k \in DOMAIN q : q[k] # b.start
  BY <1>2, <1>5 DEF InLists
<1> DEFINE r == <<b.start>> \o q
<1>8. /\ r \in Seq(Nat) /\ Once(r)
      /\ \A x : (\E k \in DOMAIN r : x = r[k]) <=> x = b.start \/ \E k \in DOMAIN q : x = q[k]
  BY <1>1, <1>6, <1>7, PushOnce
<1> HIDE DEF r
<1>9. list_heads' \in [Sizes -> Seq(Nat)] /\ list_heads'[i] = r
      /\ \A j \in Sizes : j # i => list_heads'[j] = list_heads[j]
  BY <1>2, <1>3, <1>6, <1>8 DEF r
<1> HIDE DEF q
<1>10. \A x : InLists(x, list_heads') <=> InLists(x, list_heads) \/ x = e
  <2> SUFFICES ASSUME NEW x
               PROVE  InLists(x, list_heads') <=> InLists(x, list_heads) \/ x = e
    OBVIOUS
  <2>1. ASSUME NEW j \in Sizes, NEW k \in DOMAIN list_heads'[j], x = Entry(list_heads'[j][k], j)
        PROVE  InLists(x, list_heads) \/ x = e
    <3>1. CASE j = i
      <4>1. list_heads'[j][k] = b.start \/ \E m \in DOMAIN q : list_heads'[j][k] = q[m]
        BY <1>8, <1>9, <2>1, <3>1
      <4> QED BY <1>2, <2>1, <3>1, <4>1 DEF InLists, q
    <3>2. CASE j # i
      BY <1>9, <2>1, <3>2 DEF InLists
    <3> QED BY <3>1, <3>2
  <2>2. ASSUME NEW j \in Sizes, NEW k \in DOMAIN list_heads[j], x = Entry(list_heads[j][k], j)
        PROVE  InLists(x, list_heads')
    <3>1. CASE j = i
      <4>1. k \in DOMAIN q /\ list_heads[j][k] = q[k]
        BY <3>1 DEF q
      <4>2. PICK m \in DOMAIN r : q[k] = r[m]
        BY <1>8, <4>1
      <4> QED BY <1>9, <2>2, <3>1, <4>1, <4>2 DEF InLists
    <3>2. CASE j # i
      BY <1>9, <2>2, <3>2 DEF InLists
    <3> QED BY <3>1, <3>2
  <2>3. InLists(e, list_heads')
    <3>1. PICK m \in DOMAIN r : b.start = r[m]
      BY <1>8
    <3> QED BY <1>2, <1>9, <3>1 DEF InLists
  <2> QED BY <2>1, <2>2, <2>3 DEF InLists
<1>11. /\ LiveSound' /\ live' \subseteq Blocks
       /\ \A x : x \in BlocksOf(live') <=> x \in BlocksOf(live) /\ x # e
  BY <1>3, DropBacking DEF e
<1>12. FallbackSound' /\ fallback \subseteq Blocks
  BY <1>3 DEF FixedInv, FallbackSound, TypeOK, Fallback!Disjoint
<1>13. Accounted(list_heads', fallback', live')
  <2>1. \A j \in Sizes : Once(list_heads'[j])
    BY <1>4, <1>8, <1>9 DEF Accounted
  <2> QED BY <1>3, <1>4, <1>5, <1>10, <1>11, <2>1 DEF Accounted
<1>14. b.start % BlockSizes[i] = 0
  BY <1>1, <1>2, <1>5, EntryFacts DEF FixedInv, FallbackSound
<1>15. \A j \in Sizes : \A k \in DOMAIN list_heads'[j] : list_heads'[j][k] % BlockSizes[j] = 0
  <2> TAKE j \in Sizes
  <2> TAKE k \in DOMAIN list_heads'[j]
  <2>1. CASE j = i
    <3>1. list_heads'[j][k] = b.start \/ \E m \in DOMAIN q : list_heads'[j][k] = q[m]
      BY <1>8, <1>9, <2>1
    <3> QED BY <1>2, <1>14, <2>1, <3>1 DEF FixedInv, TypeOK, Sizes, q
  <2>2. CASE j # i
    BY <1>9, <2>2 DEF FixedInv, TypeOK, Sizes
  <2> QED BY <2>1, <2>2
<1>16. TypeOK'
  BY <1>3, <1>9, <1>11, <1>12, <1>15 DEF TypeOK, Sizes
<1> QED BY <1>11, <1>12, <1>13, <1>16, AccountedNext DEF FixedInv

\* dealloc gives a large block back to the fallback allocator.
LEMMA DeallocLarge ==
  ASSUME FixedInv, NEW b \in live, Dealloc_large(b)
  PROVE  FixedInv'
<1>1. Backing(b) = b /\ live' = live \ {b} /\ fallback' = fallback \ {b}
      /\ list_heads' = list_heads
  BY DEF Dealloc_large, Backing, Fallback!Dealloc
<1>2. Accounted(list_heads, fallback, live)
  BY AccountedForm DEF FixedInv
<1>3. b \in BlocksOf(live) /\ ~InLists(b, list_heads)
  BY <1>1, <1>2 DEF Accounted, BlocksOf
<1>4. /\ LiveSound' /\ live' \subseteq Blocks
      /\ \A x : x \in BlocksOf(live') <=> x \in BlocksOf(live) /\ x # b
  BY <1>1, DropBacking
<1>5. FallbackSound'
  BY <1>1 DEF FixedInv, FallbackSound, Fallback!Disjoint
<1>6. Accounted(list_heads', fallback', live')
  BY <1>1, <1>2, <1>3, <1>4 DEF Accounted
<1>7. TypeOK'
  BY <1>1, <1>4 DEF FixedInv, TypeOK
<1> QED BY <1>4, <1>5, <1>6, <1>7, AccountedNext DEF FixedInv

\* alloc and dealloc preserve the invariant.
LEMMA StepFixed == FixedInv /\ [Next]_vars => FixedInv'
<1> SUFFICES ASSUME FixedInv, [Next]_vars PROVE FixedInv'
  OBVIOUS
<1>1. CASE UNCHANGED vars
  <2>1. Accounted(list_heads, fallback, live)
    BY AccountedForm DEF FixedInv
  <2>2. BlocksAccountedFor'
    BY <1>1, <2>1, AccountedNext DEF vars
  <2> QED BY <1>1, <2>2 DEF vars, FixedInv, TypeOK, FallbackSound, LiveSound, Fallback!Disjoint
<1>2. ASSUME NEW l \in Layouts, Alloc_null(l) PROVE FixedInv'
  BY <1>1, <1>2 DEF Alloc_null
<1> QED BY <1>1, <1>2, AllocListed, AllocFallback, DeallocListed, DeallocLarge DEF Next

-----------------------------------------------------------------------------
(***************************************************************************)
(* The theorems.                                                           *)
(***************************************************************************)

\* The inductive invariant of the fixed size block allocator.
THEOREM FixedIsInvariant == Spec => []FixedInv
BY InitFixed, StepFixed, PTL DEF Spec

\* The lists hold addresses that are aligned to the size of their blocks.
THEOREM FixedTypeOK == Spec => []TypeOK
<1>1. FixedInv => TypeOK
  BY DEF FixedInv
<1> QED BY <1>1, FixedIsInvariant, PTL

\* Every block of the fallback allocator is in use or in the list of its size,
\* never both and never twice.
THEOREM FixedBlocksAccountedFor == Spec => []BlocksAccountedFor
<1>1. FixedInv => BlocksAccountedFor
  BY DEF FixedInv
<1> QED BY <1>1, FixedIsInvariant, PTL

\* The fixed size block allocator delivers what GlobalAlloc promises, if its
\* fallback does.
THEOREM FixedImplementsHeap == Spec => ImplementsHeap
<1>1. Init => H!Init
  BY DEF Init, H!Init
<1>2. ASSUME FixedInv, [Next]_vars
      PROVE  [H!Next]_live
  <2>1. ASSUME NEW l \in Layouts, Alloc_listed(l)
        PROVE  H!Next
    BY <1>2, <2>1, AllocListed DEF H!Next
  <2>2. ASSUME NEW l \in Layouts, NEW s \in HeapStart .. HeapStart + HeapSize,
               Alloc_new(l, s) \/ Alloc_large(l, s)
        PROVE  H!Next
    BY <1>2, <2>2, AllocFallback DEF H!Next
  <2>3. ASSUME NEW b \in live, Dealloc_listed(b) \/ Dealloc_large(b)
        PROVE  H!Next
    BY <2>3 DEF Dealloc_listed, Dealloc_large, H!Next, H!Dealloc
  <2>4. CASE UNCHANGED live
    BY <2>4
  <2> QED BY <1>2, <2>1, <2>2, <2>3, <2>4 DEF Next, Alloc_null, vars
<1>3. FixedInv /\ [Next]_vars => [H!Next]_live
  BY <1>2
<1> QED BY <1>1, <1>3, FixedIsInvariant, PTL DEF Spec, ImplementsHeap, H!Spec
=============================================================================
