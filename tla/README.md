# A TLA+ model of something_os

something_os is a small x86_64 kernel in Rust for one CPU. The repository holds
two crates: `something_os`, which starts three preemptively scheduled processes,
and `something_os_networking`, which drives an RTL8139 network card instead. They
share, file by file and line by line, everything but `main.rs` and `networking/`.
The modules cite `something_os` for the scheduler, the handlers, the allocators
and the screen, and `something_os_networking` for paging and the network; apart
from the two `main.rs` either crate may be read.

## 1. Inventory

| Part | State | Operations | Interacts with | What is hard |
|---|---|---|---|---|
| Scheduler (`process.rs`, `main.rs`) | `SCHEDULER` (mutex, option), `processes`, `current_index`, `NEXT_PID`, a stack per process | `init`, `spawn_root`, `spawn`, `preempt_round_robin` | interrupt handlers, heap | interrupts strike while the list is being built; a saved `rsp` is valid only while its process is suspended |
| Interrupt handlers (`interrupt/`) | RFLAGS.IF, the register file, PIC requests and lines in service | timer, keyboard, page fault, `int 0x30` | scheduler, `WRITER`, PIC | handlers that lock what the interrupted code holds; EOI order; pops of one handler on the frame of the other |
| Cooperative switch (`process.rs`) | `ProcessContext.rip`, `.rsp` | `yield_now`, `preempt_now`, `switch`, `context_switch` | the same process list | its contexts are not those of the preemptive switch |
| Frame allocator and demand paging (`memory.rs`, `handlers.rs`) | `MAPPER`, `FRAME_ALLOCATOR`, `next`, page tables | `init_global_memory`, `init_heap`, `allocate_frame`, `page_fault_handler` | heap, stacks of processes, network code | faults under `MAPPER`; frames that run out half way through `map_to`; faults on a stack |
| Allocators (`allocator/`) | bump: `next`, `allocations`; list: free regions; blocks: lists per size | `init`, `alloc`, `dealloc` | `GlobalAlloc` callers | alignment and overflow at boundaries; long sequences of legal calls |
| Screen (`vga_buffer/print.rs`) | `row_position`, `column_position`, `chars`, `WRITER` | `write_byte`, `new_line`, `_print` | all code, the keyboard handler | wrap and scroll at the same time; the mutex |
| PCI scan (`networking/mod.rs`) | loop counters, `RTL8139` | `check_network_card`, `init_device` | driver | bounds of the loops, several cards |
| RTL8139 driver (`networking/rtl8139.rs`) | `tx_index`, `rx_buffer`, registers of the card | `init`, `send_packet`, `virt_to_phys_u32` | the card, concurrently | polling without limit, reuse of descriptors and buffers, an address taken untranslated and before a move, one translation for a packet that may cross pages, an interrupt without a gate |
| Boot (`main.rs`, `gdt/`, `interrupt/mod.rs`) | GDT, IDT, PIC offsets, seven mutexes, the statics that become `Some` | `kernel_main`, `gdt::init`, `init_idt`, `init_heap` | all parts | interrupts are on from `init_idt`, long before the rest is set up; faults and handlers nest mutexes in an order no single function shows |

What makes each part correct:

* scheduler and handlers: every context is resumed from its own frame with its
  own registers; the list says who runs; no handler waits for a mutex; every
  line is acknowledged; every process gets its turn, in the order of the list;
* paging: a frame has one use, and none is lost; a fault is repaired
  unless memory really is used up; nothing faults where a fault is fatal;
* allocators: blocks are aligned, in the heap and disjoint, and what is given
  back can be used again; the list allocator loses nothing but padding;
* screen: it shows the last lines of what was printed;
* network: every card that is found is started; what is sent is what was given,
  once and in order; every send returns;
* boot: nothing strikes before its handler is in place; mutexes are nested in one
  order; both kernels get to their halt loop.

`PROJECT.json` lists the hazards behind these properties, each at its line.

## 2. Modules

| Module | Models | Abstract specification |
|---|---|---|
| `Kernel` | boot of the scheduler, the workloads, timer and keyboard handlers, PIC, the mutexes `SCHEDULER` and `WRITER` | `RoundRobin` |
| `Cooperative` (extends `Kernel`) | `yield_now`, `execute_switch`, `context_switch`, `software_yield_handler`, `Scheduler::switch` | |
| `Memory` | frame allocator, page tables of the heap, `page_fault_handler`, users of the heap and of `MAPPER` | |
| `Align` | `align_up`, `checked_add`, `saturating_add` on a `usize` of any width | |
| `BumpAllocator`, `LinkedListAllocator`, `FixedSizeBlock` | the allocators of `allocator/` | `Heap` |
| `Writer` | the writer of `print.rs` | `Terminal` |
| `Network` | the PCI scan, `init_device`, the driver, `virt_to_phys_u32` and the cards | |
| `Boot` | `kernel_main` of both crates, all handlers, the interrupt flag and all mutexes | |
| `KernelProofs`, `MemoryProofs`, `BumpProofs`, `LinkedListProofs`, `FixedSizeProofs`, `WriterProofs`, `NetworkProofs`, `BootProofs` | proofs about the module of that name | |
| `MC...` | instances for TLC | |

### Kernel

One CPU executes; `cpu` is the process on whose stack `rsp` points, `hpc` is
`"user"` or a place in a handler, `pc[p]` and `wpc[p]` are the places of process
`p` in its own code and in `_print`. Ordinary code can be interrupted between any
two actions while `ifl` (RFLAGS.IF) is set; handlers run with `ifl` clear, as the
gates of the IDT are interrupt gates, so only `Raise` interleaves with them. A
step that would spin on a mutex is not enabled.

Each action is a piece of code between two points at which something else can
happen: `Print_disable`, `Print_lock`, `Print_unlock` are `_print`; `Lock_scheduler`,
`Spawn_root`, `Spawn`, `Unlock_scheduler` are the block in `kernel_main` under
the `SCHEDULER` guard; `Loop_disable` and `Loop_enable` are the outer
`without_interrupts` of a workload; `Interrupt`, `Signal_eoi` or
`Handle_keyboard_io_and_eoi`, `Preempt_round_robin` and `Resume` are a handler.
A stack is a sequence of frames. A frame holds the fifteen pushed registers slot
by slot, so that `PushOrder`, `PopOrder` and the frame forged by `spawn` are
compared for what they do, and every register of every process has a value of its
own. `Resume` on anything but a frame for `iretq` on top of a stack leads to
`hpc = "wild"`.

`Cooperative` adds the calls nobody makes at present. `context_switch` leaves a
return address on the stack and `rip` in the context ("ret" frame), and needs the
same to resume. `Software_yield` is `int 0x30`: the same call on top of the frame
the CPU pushed, which `iretq` pops when the process is resumed (`Unwound`).

### Memory

`page_fault_handler` is one action (interrupts are off), which takes a frame for
the page, then one for each missing table, and stops at the first call that
returns `None`. `map_to` is external: its model is which tables it creates, in
which order and from which frames. `Access` and `Fault` are the MMU: a statement
of `kernel_main` writes the pages `todo` one by one, and an access that faults is
retried. `Push` is a push by a process or an interrupt on a process stack, where a
fault means a double fault, because the page fault gate has no stack of its own.
`Lock_mapper` and `Unlock_mapper` are the block of `something_os_networking` that
translates and sends under the `MAPPER` guard, `Spawn` the stacks of
`something_os`: the model has the users of both kernels.

### Allocators

Every operation is one step, as it runs under the mutex of `Locked`. `live` is
what callers hold, with the layouts they asked for; it is the variable of `Heap`,
so `ImplementsHeap` says that the code keeps the promise of `GlobalAlloc`. The
bump and the list allocator compute with a `usize` of the width given by
`UsizeMax`. `FixedSizeBlock` takes its fallback, `linked_list_allocator::Heap`,
at that same promise: `Heap` appears below it and above it. The list allocator
does not merge regions, and neither does its model; `lost` is the set of bytes
in front of a block that `alloc_start` skips, so `OnlyPaddingIsLost` says byte by byte
that what is neither free nor in use is padding, and that no byte is two of the three.

### Writer

`Writer` writes byte by byte. Cells that were never written differ from blanks and
glyphs, so text left behind by scrolling is seen.

### Network

The scan starts with any assignment of kinds of devices to the places `Cards`, and the
same CPU then sets up each card it finds and sends packets with the one whose driver
is stored. The cards are external and run concurrently: a card completes a reset at
any time, sends from a descriptor it owns by reading memory at that moment, and writes
what it receives to memory from `rbstart` on. Memory is physical and byte by byte; bytes
that no packet of the kernel is in are not recorded. A packet is a run of bytes at a
virtual address: `Send` writes it through the page table, `Virt_to_phys` translates its
first byte and cuts the result to the width of the register, and `Dma` reads on from
there. A buffer reused too early, a packet read from the wrong frame or a driver that
talks to the wrong card shows on the `wire`.

`Set_rx_buffer` gives the card what the code gives it: the virtual address of the field
`rx_buffer` (`RxAt`) of the driver where it is then, on the stack, cut to 32 bits and
translated by nothing. `Receive` fills `RxSpan` bytes from that physical address on,
whatever they are (`Stray`), so a packet that waits to be sent may be overwritten.
`WireIsGiven` asks that bytes arrive unchanged for the packets that a card can read
from one 32 bit address (`Reachable`) and that lie outside that memory
(`Undisturbed`). The code ensures neither. The 60 bytes on the boot stack are such a
packet only if the frames of that stack are; and the caller cannot know what the number of
a virtual address means as a physical one. The run sends packets of each kind.

### Boot

The routines are data: `Kernel_main_something_os`, `Kernel_main_networking` and the
five handlers are sequences of instructions (`lock`, `unlock`, `cli`, `popf`, `touch`
a heap page, `fill` a static, ...), and one machine executes them. There is one CPU
and so one stack of activations; `Interrupt`, `Int3` and `Fault` push a handler,
`Iretq` pops it. `Gate` and `Vector` are where the set-up matters: the gates hold the
code segment at the time the IDT is built, an unremapped PIC delivers its lines at
vectors of exceptions, and the network card's line has no gate at all. `Driver_init`
enables the card's interrupt (`imr`); from then on the card may raise its line, and if the
firmware left it unmasked, its delivery is a double fault, whose handler panics: `Panic`
is the panic handler's loop.

`Alloc` reads the header of a hole and writes the one of what is left of it, behind the
block, inside the guard of `ALLOCATOR`, and then touches the block. The first page of the
heap faults when `init_heap` touches it. Whatever is touched for the first time after
that faults in some behaviours and not in others, as it may lie on a page of its own or on
one that is mapped; what was touched before does not fault again. So the header of a
hole may fault under `SCHEDULER` and `ALLOCATOR`. The frames suffice: what
`page_fault_handler` does without one, its messages and its panic, is in `Memory`. Which
process a handler resumes is left to `Kernel`: here every handler returns to the code it
interrupted.
`LocksFollowHierarchy` is stronger than `NobodySpins`: it also refuses an order of
locking that happens to work because a page was mapped before.

## 3. Runs

Passing runs:

| Run | Instance | Shows |
|---|---|---|
| `kernel` | the three workloads of `main.rs` | type and inductive invariant; `NoWildResume`, `ScheduleMatchesCpu`, `RegistersSurvive`, `HandlerNeverSpins`, `LockHolderStaysOnCpu`, `AcknowledgedBeforeResume`; `NoStarvation`; refinement of `RoundRobin` |
| `memory` | six pages over three level 1 tables, two usable regions, nine frames (eleven would be needed), stacks of two pages | no frame shared or leaked, panic only when memory is used up, no double fault, accesses complete |
| `bump` | 8 bit `usize`, heap of 24 bytes that is not aligned to 8, four layouts | refinement of `Heap`, `WholeWhenEmpty`, the inductive invariant |
| `linked_list` | the node of the code (16 bytes, alignment 8), heap of 96 bytes, three layouts, one with alignment 32 | refinement of `Heap`, `FreeListSound`, `NoAssertionFails`, `OnlyPaddingIsLost` |
| `fixed_size` | block sizes 16 and 32, heap of 80 bytes, layouts with size above, below alignment, and too large for a block | refinement of `Heap`, `BlocksAccountedFor` |
| `writer` | three rows, three columns | refinement of `Terminal` |
| `network` | three buses of two slots, two places for devices; pages of four bytes and packets of three, across two frames that follow each other (address 2), where the cards receive (8, which is 4 in physical memory), and across frames that do not follow each other, above the DMA limit of 16 (14); the receive buffer of the local driver is at 20, so that `RBSTART` is 4 | `EveryCardStarted`, `WireIsGiven`, `SentOnReturn`, `OwnedIsFrozen`, `SendReturns` |
| `boot` | both kernels, the networking one with and without a card, all three lines unmasked | `NobodySpins`, `HandlersAreReady`, `LocksFollowHierarchy`, `BootCompletes` |

The bounds are those at which each case of interest happens: the process list
wraps around; a table is shared by pages and another one is needed; frames run out
before a page's frame and between its tables; the heap is full, empty, and full
again; the screen wraps and scrolls in one step; descriptors and buffers are reused,
with two cards, one of which replaces the driver of the other. `Boot` needs no bound:
its routines are finite and the PIC holds one request per line.
`MaxSends` is the only bound in a guard.

Deadlock is checked except in `memory` (a panic ends the kernel) and in `yield`
(a wild jump has no successor).

Violations, each a disagreement between the code and what is written in it:

| Run | The repository says | The code does |
|---|---|---|
| `yield` | `yield_now` "seamlessly transitions execution to Process Alpha" (`main.rs:84`) | it jumps to the `rip` of a context that never had one; nothing calls it at present except the gate for `int 0x30` |
| `switch` | "The SCHEDULER Mutex lock guard cleanly drops" (`process.rs:159`) | a method on the scheduler behind the mutex locks that mutex |
| `all_buses` | buses 0-255 (`mod.rs:14`) | buses 0-254 |
| `rx_buffer` | `RBSTART` is the memory that receives (`rtl8139.rs:115`) | `RBSTART` gets a virtual address, cut to 32 bits, and the driver moves afterwards; `rtl8139.rs:110` says that the address must be translated. The trace ends before the move; with a translation in the model it ends after it, so neither repair is enough alone |

Two more, which need no run: `HEAP_SIZE` is 100 MiB and its comment says
"100 KiB" (`allocator.rs:17`); and the disabled test of `println!` reads a completed
line from row `BUFFER_HEIGHT - 2` (`print.rs:200`), while the rewritten `new_line`
leaves it in the row above the cursor.

### Fairness

`Kernel`: the CPU executes (weak fairness of the handlers); `init_pit` programs the
PIT to repeat, so the timer raises its line again and again (weak fairness of
`Raise("timer")`); a pending request is taken at an instruction boundary with IF
set (strong fairness of `Interrupt("timer")`, as IF toggles); and a process that
gets the CPU infinitely often executes in some of its slices (strong fairness of
`Boot` and of `Code(p)`): a slice is 10 ms, an instruction is not. The keyboard is
not fair: nobody has to press a key. `Memory`: `kernel_main` and the handler keep
executing; what it does next is not fair. `Network`: the CPU executes, and a card
completes a reset and transmits what it owns; it need not receive anything, and the
kernel need not send. `Boot`: the CPU executes (weak fairness of `Step`), and
`kernel_main` itself executes between interrupts (strong fairness of its steps), as a
tick comes every 10 ms; nothing is assumed of the lines, which may be raised at every
moment or never. `BootCompletes` makes one exception: once the card's interrupt is
delivered, the kernel is in its panic loop. In
`switch` the callee is strongly fair in addition, so that only the mutex keeps it
from running.

## 4. Proofs

Every safety invariant, every action property and every refinement that a passing run
checks is proved for all values of the constants. Each proof
module states an inductive invariant, shows that it holds initially and that each action
keeps it (one lemma per action), and derives the properties from it.

| Module | Inductive invariant | Proved from it |
|---|---|---|
| `KernelProofs` | `TypeOK /\ KernelInv` | `NoWildResume`, `ScheduleMatchesCpu`, `RegistersSurvive`, `HandlerNeverSpins`, `LockHolderStaysOnCpu`, `AcknowledgedBeforeResume`, refinement of `RoundRobin` |
| `MemoryProofs` | `MemoryInv` | `TypeOK`, `FramesNotShared`, `NoFrameLeaked`, `PanicOnlyWhenExhausted`, `StacksNeverFault`, and the action property `MappingsKept` |
| `BumpProofs` | `TypeOK /\ BumpInv` | `WholeWhenEmpty`, refinement of `Heap` |
| `LinkedListProofs` | `ListInv` | `TypeOK`, `FreeListSound`, `NoAssertionFails`, `OnlyPaddingIsLost`, refinement of `Heap` |
| `FixedSizeProofs` | `FixedInv` | `TypeOK`, `BlocksAccountedFor`, refinement of `Heap` |
| `WriterProofs` | `WriterInv` | `TypeOK`, refinement of `Terminal` |
| `BootProofs` | `PlanInv`, `CardInv` | `TypeOK`, `NobodySpins`, `HandlersAreReady`, `LocksFollowHierarchy`, and `HaltsOpen`, the safety half of `BootCompletes` |
| `NetworkProofs` | `NetworkInv /\ RxInv` | `TypeOK`, `WireIsGiven`, `SentOnReturn`, `EveryCardStarted`, and the action property `OwnedIsFrozen` |

**Kernel**, for every number of workloads. None of the properties is inductive by itself:
that `iretq` finds a frame needs to know what is on each stack (`StackInv`), which
needs to know that the list and the CPU agree (`ListInv`, `CpuInv`), also between
the rotation and `iretq`, which needs to know that no rotation happens before
`kernel_main` drops its guard (`BootInv`), and that interrupts are off wherever a
process prints or a handler runs (`FlagInv`). The proof has one lemma per group of
actions (`BootStep`, `CodeStep`, `InterruptStep`, `HandlerStep`), and `RestoreSaved`,
which shows that the pops undo the pushes, and `RotateEffect`, which says what a
rotation does to the list, carry the two facts that are about data.

**Memory**, for every memory map without overlaps and every heap, table and stack size.
That a panic means exhaustion needs that no call of `allocate_frame` has failed before
(`FramesSuffice`); that no frame is shared or lost needs that the handler runs only for
an unmapped page (`FaultIsReal`), since it would otherwise replace a frame; and that
stacks never fault needs that each of their pages is mapped or still to be written by
the statement that allocates the stack (`StacksMapped`), and that both statics are set
by then (`SetUp`). `MappingsKept` says that no fault, also the one that runs out of
frames half way, changes an entry that is in use: the handler flushes the TLB only for
the page it maps.

**Bump allocator**, for every heap and every set of layouts: the counter is the number of
blocks in use, and they lie below `next`.

**Linked list allocator**, for every heap, node and set of layouts. `FreeListSound` is not
inductive: the region that `dealloc` puts back is what `size_align` computes, which is
more than the caller's block, so the invariant is about the extents of the blocks, which
are apart from each other and from the list (`SoundBlocks`, `SoundList`). That the
assertions hold needs in addition that every region and every block starts aligned for a
node. `Covered` is `OnlyPaddingIsLost` for any list and blocks, so that removing a region
and adding one can each be shown to keep it.

**Fixed size blocks**, for every increasing sequence of block sizes, under the promise of
the fallback (`FallbackSound`): with `LiveSound` no two blocks in use lie in the same
block of the fallback, and with `BlocksAccountedFor` none of them lies in a free one.

**Writer**, for every screen size. The operations are operators on screens, and so are the
lemmas: `New_line` shows one more line (`NewLineShows`), `Put_glyph` one more glyph
(`PutShows`), and the wrap in `write_byte` is one after the other (`WriteByteShows`). The
refinement needs that the glyphs of every row stand at its left, on the current row
exactly before the cursor, and that there are none below it (`Good`): otherwise
`new_line` could move the cursor to a row with old text.

**Network**, for every set of cards, bus range, page table, packet length and number of
packets. `ScanInv` relates the loop counters to what the cards and drivers are in: a
card is enabled if it is before the counters in the order of the scan, and the driver
stored is that of the last of them, so there is one. `SendInv` says that a descriptor
belongs to a card only while `send_packet` polls for it, and that the last packet is in
memory and in the descriptor until it is out, except for the bytes that are in `Stray`.
`RxInv` says that every enabled receiver has the address of the local `rx_buffer`, so that
nothing outside `Stray` is ever written by a card. `OwnedIsFrozen` follows: at that place
of the CPU no action but the cards' own is enabled.

**Boot**, for every subset of the timer's, the keyboard's and the card's line unmasked. TLC visits every state of this instance too; the
proof says why the properties hold, and what a change of a routine has to keep. It is
made in two parts. First `kernel_main` alone is walked, routine by routine and without
an interleaving: `Safe(code, s, t)` says that `code` goes from the state `s` to `t` such
that every state on the way may be interrupted (`Guarded`: if interrupts are on, the PIC
is remapped, the gates are good and no mutex of rank 5 is held) and every instruction may
be executed there (`Sound`: a lock is above all that are held; an access to the heap has
the mapper and the frames set up and nothing of rank 3 or more held, since it may fault).
`Sequel` composes two such routines, `WithIsSafe` puts one under a mutex, and each
routine of the two kernels has a lemma; `PlanExists` is the result for the three
programs. Handlers are checked instruction by instruction: a handler waits only for
mutexes of rank 5, or of 3 and 4 in the page fault's, in the order of the ranks, and
touches the process list only with `SCHEDULER` locked (`Discipline`). Second, `PlanInv`
relates the machine to that walk: the stack is `kernel_main` with at most one handler on
top; `kernel_main` is at some instruction of its plan and the machine in the state of the
plan, except that a page it is about to touch may already be mapped; a handler holds
exactly its own mutexes (`Own`) besides, waits only for mutexes above all those that
`kernel_main` holds below it, and will restore the flag; and the double fault handler is
active only while the card's line is in service, which no handler acknowledges. `CardInv`
adds that the card requests nothing before the driver has enabled its interrupt.
None of the four properties is inductive without this. With it, an interrupt strikes only
a `Guarded` state, a fault only a `Sound` one, and a third activation cannot start. A new
routine needs one lemma in the first part, and nothing of the second changes.

Assumptions, and what justifies them in the code:

* no sum in an allocator wraps around: the end of the heap plus an alignment, and a size
  plus an alignment, fit in a `usize` (`BumpAssumption`, `ListAssumption`). `HEAP_START`
  is 0x4444_4444_0000, and `Layout` refuses a size that overflows when it is rounded up
  to its alignment. Without it `align_up` does wrap around, and the `expect` of
  `size_align` panics for a size within a node's alignment of the limit; with it that
  `expect` cannot fail, so the model has no such panic;
* of two alignments, or a block size and an alignment, one divides the other: both are
  powers of two (`ListAssumption`, `BlockAssumption`);
* `HEAP_START` is aligned for a `ListNode`, the heap has room for one, and the size of a
  `ListNode` is a multiple of its alignment (`ListAssumption`); otherwise the first
  `add_free_region` panics;
* the usable frames are numbers, and different: the boot loader's regions do not
  overlap (`MemoryMapAssumption`). It is stated of `Usable_frames` and not of the map,
  because what a fold computes for every sequence would need induction over data;
* the pages of a packet are mapped, it has just been written, and so is the driver; and a
  packet is shorter than 8192 bytes, so that the mask `0x1FFF` of `send_packet` keeps its
  length, which for the packets of `main.rs` is 60 (`NetworkAssumption`);
* what a cell shows at boot and a blank are not glyphs (`WriterAssumption`);
* no line is unmasked but the timer's, the keyboard's and the card's
  (`FirmwareAssumption` of `Boot`). The kernel sets no masks and
  `ChainedPics::initialize` keeps the firmware's, so that each of the three may be
  unmasked; no other device is told to interrupt.

Only model-checked: liveness (`NoStarvation`, `AccessesComplete`, `SendReturns`,
`BootCompletes`), since fairness is out of the prover's reach.

`KernelInv` and `BumpInv` are properties of their runs. The other inductive invariants
hold in all states of the instances of section 3 as well (a module that extends the MC and
the proof module checks them, for `PlanInv` with the plan computed by a recursive
function); the runs list the properties they imply instead. No module uses a RECURSIVE
operator. The one induction over naturals that the proofs need, that
`list_index` finds a least index, is `LeastExists`, from the well-foundedness of `<`. The
allocators' proofs begin with the facts about remainders and `align_up` that each needs.
That a routine can be walked is shown by composing the walks of its parts, so it needs no
induction over its length.

## 5. Not modelled

* The selectors of the GDT, the TSS and the interrupt stack of the double fault: tables
  without state once they are loaded. The missing interrupt stack of the page fault
  gate is in `Memory`.
* `LockedHeap` and `linked_list_allocator::Heap`: not in the repository. `Boot` and
  `Memory` use that it keeps its list in the heap, under the mutex `ALLOCATOR`.
* `fixed_size_blocks.rs`: a copy that no `mod` includes. `EmptyFrameAllocator`: unused.
* The second copy of each file the two crates share: it is the same code.
* Colours, formatting and the text of messages; port numbers and BAR bits.
* Running processes and demand paging at once: a process never touches the heap, its
  stack is mapped by `spawn` (`StacksNeverFault`).

## 6. Plan

Done: `Kernel` with `RoundRobin`, `Cooperative`, `Memory`, the allocators with `Heap`,
`Writer` with `Terminal`, `Network`, `Boot`; proofs for all of them but `Cooperative`,
whose runs show violations.

Next: action properties and stronger lemmas where a change of the code would need them,
first for the receive path of the driver, once the code has one, and a lemma of
`BootProofs` for each routine that is added to `kernel_main`.
