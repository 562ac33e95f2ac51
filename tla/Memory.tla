------------------------------- MODULE Memory -------------------------------
(***************************************************************************)
(* Demand paging of the kernel heap.  init_heap maps nothing: the first    *)
(* access to a heap page faults, and page_fault_handler                    *)
(* (interrupt/handlers.rs) takes a frame from the BootInfoFrameAllocator   *)
(* (memory.rs) and maps it, creating the page tables on the way.  The      *)
(* heap is used by kernel_main, which also holds MAPPER to translate       *)
(* addresses, and gives the spawned processes their stacks.                *)
(*                                                                         *)
(* Addresses are abstracted to page and frame numbers; page 0 is the page  *)
(* at HEAP_START.  The two crates share this code; the module has the      *)
(* spawning of something_os and the translation of something_os_networking.*)
(***************************************************************************)
EXTENDS Integers, Sequences, FiniteSets, SequencesExt

CONSTANTS
  MemoryMap,   \* the bootloader's regions: frames start .. end - 1, and a type
  HeapPages,   \* HEAP_SIZE / 4096
  FirstSlot,   \* the entry of HEAP_START's page in its level 1 table
  TableSize,   \* the entries of a page table
  StackPages,  \* STACK_SIZE / 4096
  Touched      \* the pages that kernel_main uses

Pages == 0 .. HeapPages - 1

ASSUME HeapAssumption ==
  /\ HeapPages \in Nat \ {0} /\ TableSize \in Nat \ {0} /\ FirstSlot \in 0 .. TableSize - 1
  /\ StackPages \in Nat \ {0} /\ Touched \subseteq Pages

-----------------------------------------------------------------------------
(***************************************************************************)
(* The frame allocator.                                                    *)
(***************************************************************************)

\* The frames start .. end - 1 of a region, in order (step_by(4096)).
FramesOf(r) == [i \in 1 .. r.end - r.start |-> r.start + i - 1]

\* usable_frames: the frames of the Usable regions, in the order of the map.
Usable_frames ==
  FoldLeft(LAMBDA fs, r : fs \o FramesOf(r), << >>,
           SelectSeq(MemoryMap, LAMBDA r : r.type = "Usable"))

\* The frames are numbers, and the regions of the map do not overlap.
ASSUME MemoryMapAssumption ==
  /\ Usable_frames \in Seq(Nat)
  /\ \A i, j \in DOMAIN Usable_frames :
       Usable_frames[i] = Usable_frames[j] => i = j

None   == -1
Frames == {Usable_frames[i] : i \in DOMAIN Usable_frames}

\* What the n-th call of allocate_frame returns, from 0.
Nth(n) == IF n < Len(Usable_frames) THEN Usable_frames[n + 1] ELSE None

-----------------------------------------------------------------------------
(***************************************************************************)
(* The page tables below the heap's level 4 entry: the heap lies within    *)
(* one level 3 and one level 2 table, and its level 1 tables follow.       *)
(***************************************************************************)
P3 == 0
P2 == 1
P1(page) == 2 + (FirstSlot + page) \div TableSize
Tables == {P3, P2} \cup {P1(page) : page \in Pages}

VARIABLES
  mapper,           \* MAPPER holds Some(OffsetPageTable)
  frame_allocator,  \* FRAME_ALLOCATOR holds Some(BootInfoFrameAllocator)
  next,             \* BootInfoFrameAllocator.next
  tables,           \* the frame of each page table, or None
  page_table,       \* the frame each heap page is mapped to, or None
  mapper_lock,      \* kernel_main holds the MAPPER mutex
  pc,               \* where kernel_main is
  todo,             \* the pages the current statement of kernel_main writes
  cr2,              \* the page of the access that faulted
  stacks            \* the first pages of the stacks of the processes

allocVars == <<mapper, frame_allocator, next>>
tableVars == <<tables, page_table>>
vars == <<allocVars, tableVars, mapper_lock, pc, todo, cr2, stacks>>

Init ==
  /\ mapper = FALSE /\ frame_allocator = FALSE
  /\ next = 0
  /\ tables = [t \in Tables |-> None]
  /\ page_table = [p \in Pages |-> None]
  /\ mapper_lock = FALSE
  /\ pc = "boot"
  /\ todo = << >>
  /\ cr2 = None
  /\ stacks = {}

-----------------------------------------------------------------------------
(***************************************************************************)
(* kernel_main.                                                            *)
(***************************************************************************)

\* init_global_memory; each guard is dropped at the end of its statement.
Init_global_memory ==
  /\ pc = "boot" /\ ~mapper_lock
  /\ mapper' = TRUE /\ frame_allocator' = TRUE /\ next' = 0
  /\ pc' = "init_heap"
  /\ UNCHANGED <<tableVars, mapper_lock, todo, cr2, stacks>>

\* kernel_main executes a statement that writes a sequence of heap pages.
Write(pages) ==
  /\ todo' = pages
  /\ pc' = "access"
  /\ UNCHANGED <<allocVars, tableVars, mapper_lock, cr2>>

\* Mutation: init_heap is called before init_global_memory.
Mut_At_init_heap == pc = "boot"

At_init_heap == pc = "init_heap"

\* init_heap: LockedHeap::init writes the header of its one hole at HEAP_START.
Init_heap == At_init_heap /\ Write(<<0>>) /\ UNCHANGED stacks

\* A heap allocation or an access to one.
Use_heap(p) == pc = "run" /\ Write(<<p>>) /\ UNCHANGED stacks

\* The pages of a stack that starts at page p.
Stack(p) == p .. p + StackPages - 1

\* Mutations: the block may stick out of the heap; only the top of the new
\* stack is written.
Mut_Fits(p) == TRUE

Mut_Zeroed(p) == <<p + StackPages - 1>>

\* LockedHeap hands out blocks of the heap only.
Fits(p) == p + StackPages <= HeapPages

\* The pages that [0u8; STACK_SIZE] is copied to.
Zeroed(p) == [i \in 1 .. StackPages |-> p + i - 1]

\* Scheduler::spawn: Box::new([0u8; STACK_SIZE]) takes a block from the heap
\* and writes all of it, before the frame is forged at its top.
Spawn(p) ==
  /\ pc = "run" /\ Fits(p)
  /\ \A s \in stacks : Stack(s) \cap Stack(p) = {}
  /\ stacks' = stacks \cup {p}
  /\ Write(Zeroed(p))

\* The next page of the statement is mapped: the access succeeds.
Access ==
  /\ pc = "access" /\ todo # << >> /\ page_table[Head(todo)] # None
  /\ todo' = Tail(todo)
  /\ pc' = IF Len(todo) = 1 THEN "run" ELSE "access"
  /\ UNCHANGED <<allocVars, tableVars, mapper_lock, cr2, stacks>>

\* It is not: the CPU raises a page fault, to retry the access afterwards.
Fault ==
  /\ pc = "access" /\ todo # << >> /\ page_table[Head(todo)] = None
  /\ cr2' = Head(todo)
  /\ pc' = "fault"
  /\ UNCHANGED <<allocVars, tableVars, mapper_lock, todo, stacks>>

\* let mapper = MAPPER.lock(): the guard is held while an address is
\* translated, printed and given to the network card, without heap accesses.
Lock_mapper ==
  /\ pc = "run" /\ ~mapper_lock
  /\ mapper_lock' = TRUE
  /\ pc' = "translate"
  /\ UNCHANGED <<allocVars, tableVars, todo, cr2, stacks>>

\* Mutation: the guard outlives the block.
Mut_Guard_alive == TRUE

\* The guard is dropped at the end of the block.
Guard_alive == FALSE

Unlock_mapper ==
  /\ pc = "translate"
  /\ mapper_lock' = Guard_alive
  /\ pc' = "run"
  /\ UNCHANGED <<allocVars, tableVars, todo, cr2, stacks>>

-----------------------------------------------------------------------------
(***************************************************************************)
(* page_fault_handler.                                                     *)
(***************************************************************************)
InHeap(p) == p \in Pages

\* The tables map_to has to create for page p, from the top.
Absent(t) == IF tables[t] = None THEN <<t>> ELSE << >>
Missing(p) == Absent(P3) \o Absent(P2) \o Absent(P1(p))

\* The page tables after map_to: the k-th missing one takes the k-th frame
\* after the page's own; creation stops when the frames run out.
Map_to(p) ==
  [t \in Tables |->
     IF \E k \in DOMAIN Missing(p) : Missing(p)[k] = t
       THEN Nth(next + (CHOOSE k \in DOMAIN Missing(p) : Missing(p)[k] = t))
       ELSE tables[t]]

\* Mutations: a frame is taken for every level; only the frame of the page
\* counts as taken.
Mut_Calls(p) == 4

Mut_Calls_page(p) == 1

\* The calls of allocate_frame in a fault on page p: the frame of the page
\* and the missing tables, until a call returns None.
Calls(p) ==
  LET wanted == 1 + Len(Missing(p))
      left   == Len(Usable_frames) - next
  IN  IF left < 0 THEN 1 ELSE IF wanted <= left THEN wanted ELSE left + 1

Enough(p) == next + 1 + Len(Missing(p)) <= Len(Usable_frames)

\* The fault is repaired: there are frames, and the page is not mapped, which
\* would make map_to fail.
Handled(p) ==
  InHeap(p) /\ mapper /\ frame_allocator /\ Enough(p) /\ page_table[p] = None

\* Interrupts are off in the handler, so nothing interleaves with it; it
\* waits for ever if the code it interrupted holds MAPPER.
Page_fault_handler ==
  /\ pc = "fault"
  /\ ~mapper_lock
  /\ IF InHeap(cr2) /\ mapper /\ frame_allocator
       THEN /\ next' = next + Calls(cr2)
            /\ tables' = IF Nth(next) = None THEN tables ELSE Map_to(cr2)
       ELSE UNCHANGED <<next, tables>>
  /\ IF Handled(cr2)
       THEN pc' = "access" /\ page_table' = [page_table EXCEPT ![cr2] = Nth(next)]
       ELSE pc' = "panic" /\ UNCHANGED page_table
  /\ UNCHANGED <<mapper, frame_allocator, mapper_lock, todo, cr2, stacks>>

\* A process, or an interrupt on its stack, pushes on a page of a stack.  The
\* page fault gate has no stack of its own, so a fault here is a double fault.
Push(s, p) ==
  /\ pc = "run" /\ s \in stacks /\ p \in Stack(s)
  /\ pc' = IF page_table[p] = None THEN "double_fault" ELSE "run"
  /\ UNCHANGED <<allocVars, tableVars, mapper_lock, todo, cr2, stacks>>

-----------------------------------------------------------------------------
Step ==
  \/ Init_global_memory \/ Init_heap
  \/ Access \/ Fault \/ Page_fault_handler
  \/ Unlock_mapper

Next ==
  \/ Step
  \/ \E p \in Touched : Use_heap(p) \/ Spawn(p)
  \/ Lock_mapper
  \/ \E s \in stacks : \E p \in Stack(s) : Push(s, p)

Spec == Init /\ [][Next]_vars

\* kernel_main keeps executing, and so does the handler it is interrupted by.
FairSpec == Spec /\ WF_vars(Step)

-----------------------------------------------------------------------------
(***************************************************************************)
(* Properties.                                                             *)
(***************************************************************************)

\* Every variable stays within the values the code gives it.
TypeOK ==
  /\ mapper \in BOOLEAN /\ frame_allocator \in BOOLEAN /\ mapper_lock \in BOOLEAN
  /\ next \in Nat
  /\ tables \in [Tables -> Frames \cup {None}]
  /\ page_table \in [Pages -> Frames \cup {None}]
  /\ pc \in {"boot", "init_heap", "access", "run", "fault", "translate", "panic",
             "double_fault"}
  /\ todo \in Seq(Pages)
  /\ cr2 \in Pages \cup {None}
  /\ stacks \subseteq Pages

\* What the frames are used for: the tables, then the pages.
Uses == {<<"table", t>> : t \in {t \in Tables : tables[t] # None}}
          \cup {<<"page", p>> : p \in {p \in Pages : page_table[p] # None}}
FrameAt(u) == IF u[1] = "table" THEN tables[u[2]] ELSE page_table[u[2]]

\* No frame ever backs two heap pages, two page tables, or a page and a table.
FramesNotShared ==
  \A u, v \in Uses : FrameAt(u) = FrameAt(v) => u = v

\* Every frame taken from the allocator is in use: only a fault that ends in
\* the panic loses one.
NoFrameLeaked ==
  pc # "panic" => {FrameAt(u) : u \in Uses} = {Nth(n) : n \in 0 .. next - 1}

\* The kernel gives up on a fault in the heap only if the usable frames
\* really are used up.
PanicOnlyWhenExhausted == pc = "panic" => next > Len(Usable_frames)

\* A stack is mapped before anything runs on it, so that no interrupt or
\* exception finds its stack unmapped (that would be a double fault).
StacksNeverFault == pc # "double_fault"

\* A statement of kernel_main that accesses the heap, over however many
\* pages, completes, unless the frames run out.  A fault inside MAPPER's
\* critical section, or one that is not repaired, would prevent it.
AccessesComplete == pc = "access" ~> pc \in {"run", "panic"}
=============================================================================
