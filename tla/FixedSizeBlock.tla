--------------------------- MODULE FixedSizeBlock ---------------------------
(***************************************************************************)
(* allocator/fixed_size_block.rs: one list of free blocks for each block   *)
(* size.  An empty list, and a layout larger than every block size, is     *)
(* served by the fallback allocator of the linked_list_allocator crate,    *)
(* which is external and taken at the promise of Heap.  Each operation     *)
(* runs under the mutex of Locked, so it is one step.                      *)
(***************************************************************************)
EXTENDS Integers, Sequences

CONSTANTS HeapStart, HeapSize,
          Layouts,    \* [size, align] records
          BlockSizes  \* BLOCK_SIZES, a sequence of powers of two

NumLists == Len(BlockSizes)

\* The layout of a block of list i: the size is also the alignment.
BlockLayout(i) == [size |-> BlockSizes[i], align |-> BlockSizes[i]]

ASSUME BlockAssumption ==
  /\ HeapStart \in Nat /\ HeapSize \in Nat
  /\ \A l \in Layouts : l \in [size : Nat \ {0}, align : Nat \ {0}]
  /\ BlockSizes \in Seq(Nat \ {0})
  /\ \A i, j \in 1 .. NumLists : i < j => BlockSizes[i] < BlockSizes[j]
  \* Both are powers of two.
  /\ \A l \in Layouts : \A i \in 1 .. NumLists :
       l.align <= BlockSizes[i] => BlockSizes[i] % l.align = 0

VARIABLES
  list_heads,  \* the addresses of the free blocks of each size, first one first
  fallback,    \* the blocks that the fallback allocator has handed out
  live         \* the blocks in use, with the layouts they were requested with

vars == <<list_heads, fallback, live>>

\* The fallback allocator.
Fallback == INSTANCE Heap WITH
  HeapEnd <- HeapStart + HeapSize, live <- fallback,
  Layouts <- Layouts \cup {BlockLayout(i) : i \in 1 .. NumLists}

-----------------------------------------------------------------------------
Larger(x, y) == IF x > y THEN x ELSE y

\* Mutation: the alignment is left out.
Mut_Required(l) == l.size

\* required_block_size
Required(l) == Larger(l.size, l.align)

\* list_index is Some(index), and index is the first size that is sufficient.
Has_index(l) == \E i \in 1 .. NumLists : BlockSizes[i] >= Required(l)

List_index(l) ==
  CHOOSE i \in 1 .. NumLists :
    /\ BlockSizes[i] >= Required(l)
    /\ \A j \in 1 .. i - 1 : BlockSizes[j] < Required(l)

Block(s, l) == [start |-> s, size |-> l.size, align |-> l.align]

-----------------------------------------------------------------------------
\* new() and init().
Init ==
  /\ list_heads = [i \in 1 .. NumLists |-> << >>]
  /\ fallback = {}
  /\ live = {}

\* Mutation: the head is handed out and stays in the list.
Mut_Unlinked(list) == list

\* The list goes on behind its first block.
Unlinked(list) == Tail(list)

\* alloc takes the first block of the list, ...
Alloc_listed(l) ==
  /\ Has_index(l) /\ list_heads[List_index(l)] # << >>
  /\ live' = live \cup {Block(Head(list_heads[List_index(l)]), l)}
  /\ list_heads' = [list_heads EXCEPT ![List_index(l)] = Unlinked(@)]
  /\ UNCHANGED fallback

\* ... or a new block from the fallback allocator if there is none, ...
Alloc_new(l, s) ==
  /\ Has_index(l) /\ list_heads[List_index(l)] = << >>
  /\ Fallback!Alloc(BlockLayout(List_index(l)), s)
  /\ live' = live \cup {Block(s, l)}
  /\ UNCHANGED list_heads

\* ... or leaves a large layout to the fallback allocator.
Alloc_large(l, s) ==
  /\ ~Has_index(l)
  /\ Fallback!Alloc(l, s)
  /\ live' = live \cup {Block(s, l)}
  /\ UNCHANGED list_heads

\* The fallback allocator may refuse (null_mut()).
Alloc_null(l) ==
  /\ Has_index(l) => list_heads[List_index(l)] = << >>
  /\ UNCHANGED vars

\* Mutation: the block goes to the list of the largest size.
Mut_Home(b) == NumLists

\* The list a block is returned to.
Home(b) == List_index(b)

Dealloc_listed(b) ==
  /\ Has_index(b)
  /\ list_heads' = [list_heads EXCEPT ![Home(b)] = <<b.start>> \o @]
  /\ live' = live \ {b}
  /\ UNCHANGED fallback

Dealloc_large(b) ==
  /\ ~Has_index(b)
  /\ Fallback!Dealloc(b)
  /\ live' = live \ {b}
  /\ UNCHANGED list_heads

Next ==
  \/ \E l \in Layouts :
       \/ Alloc_listed(l) \/ Alloc_null(l)
       \/ \E s \in HeapStart .. HeapStart + HeapSize : Alloc_new(l, s) \/ Alloc_large(l, s)
  \/ \E b \in live : Dealloc_listed(b) \/ Dealloc_large(b)

Spec == Init /\ [][Next]_vars

-----------------------------------------------------------------------------
Blocks == [start : Nat, size : Nat \ {0}, align : Nat \ {0}]

\* Every variable stays within the values the code gives it, and the blocks
\* of a list are aligned to its size.
TypeOK ==
  /\ list_heads \in [1 .. NumLists -> Seq(Nat)]
  /\ \A i \in 1 .. NumLists : \A k \in DOMAIN list_heads[i] :
       list_heads[i][k] % BlockSizes[i] = 0
  /\ fallback \subseteq Blocks
  /\ live \subseteq Blocks

\* The block of the fallback allocator that a block in use lies in.
Backing(b) ==
  IF Has_index(b) THEN Block(b.start, BlockLayout(List_index(b))) ELSE b

\* The blocks in the lists, as the fallback allocator knows them.
Listed ==
  UNION {{Block(list_heads[i][k], BlockLayout(i)) : k \in DOMAIN list_heads[i]} :
           i \in 1 .. NumLists}

\* Every block the fallback allocator handed out is either in use or in the
\* list of its own size, and in that list once: no block is lost, handed out
\* twice, or returned to the list of another size.
BlocksAccountedFor ==
  /\ fallback = {Backing(b) : b \in live} \cup Listed
  /\ {Backing(b) : b \in live} \cap Listed = {}
  /\ \A i \in 1 .. NumLists : \A j, k \in DOMAIN list_heads[i] :
       list_heads[i][j] = list_heads[i][k] => j = k

H == INSTANCE Heap WITH HeapEnd <- HeapStart + HeapSize

\* The allocator implements GlobalAlloc, although it aligns and sizes blocks
\* by the list they belong to and not by their layout.
ImplementsHeap == H!Spec
=============================================================================
