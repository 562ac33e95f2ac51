-------------------------------- MODULE Boot --------------------------------
(***************************************************************************)
(* The boot of both kernels: kernel_main of something_os and of            *)
(* something_os_networking from the first instruction to the halt loop,    *)
(* with the interrupts and the exceptions that strike on the way.  The     *)
(* routines are data, sequences of the instructions that matter here: the  *)
(* set-up of GDT, IDT and PIC, the interrupt flag, the spin mutexes, and   *)
(* the accesses to heap pages that the page fault handler maps.  There is  *)
(* one CPU and so one stack of activations: a mutex that is held below the *)
(* top is not released before the top returns.  Kernel has the switching   *)
(* between processes, Memory the frames, Network the cards.                *)
(***************************************************************************)
EXTENDS Naturals, Sequences

CONSTANT Unmasked  \* the PIC lines that the firmware has left unmasked

\* The PIC lines whose device the kernels make interrupt, or find interrupting:
\* the network card's is the one without a gate in IDT.
Lines    == {"timer", "keyboard", "card"}
Mutexes  == {"WRITER", "PICS", "MAPPER", "FRAME_ALLOCATOR", "ALLOCATOR",
             "SCHEDULER", "RTL8139"}

\* ChainedPics::initialize keeps the firmware's masks and the kernels set none,
\* so that any of the lines may be unmasked.  No other device interrupts: none is
\* told to.
ASSUME FirmwareAssumption == Unmasked \subseteq Lines

VARIABLES
  program,  \* the kernel that runs
  stack,    \* the activations: main, and the handlers on top of it
  cpu,      \* cs and idt: the code segment, and the one in the gates; ifl
  pic,      \* remapped; irr and isr: the lines requested and in service
  held,     \* the mutexes that are locked
  ready     \* the statics that hold Some, the heap pages that are mapped, and imr
            \* when the card's interrupt is enabled in its mask register

vars == <<program, stack, cpu, pic, held, ready>>

-----------------------------------------------------------------------------
(***************************************************************************)
(* The routines.                                                           *)
(***************************************************************************)
With(m, body) == <<<<"lock", m>>>> \o body \o <<<<"unlock", m>>>>
Touch(page)   == <<<<"touch", page>>>>
Fill(static)  == With(static, <<<<"fill", static>>>>)

\* Mutations: interrupts stay on; or they are not enabled again.
Mut_Println      == With("WRITER", << >>)
Mut_Println_flag == <<<<"cli", "IF">>>> \o With("WRITER", << >>)

\* _print: without_interrupts around the lock.
Println == <<<<"cli", "IF">>>> \o With("WRITER", << >>) \o <<<<"popf", "IF">>>>

Gdt_init == <<<<"lgdt", "GDT">>>>

\* Mutation: interrupts are enabled before the PIC is remapped.
Mut_Init_idt == <<<<"lidt", "IDT">>, <<"sti", "IF">>>> \o With("PICS", <<<<"remap", "PICS">>>>)

Init_idt == <<<<"lidt", "IDT">>>> \o With("PICS", <<<<"remap", "PICS">>>>) \o <<<<"sti", "IF">>>>

Init_global_memory == Fill("MAPPER") \o Fill("FRAME_ALLOCATOR")

\* The heap allocator writes its first node to the heap.
Init_heap == With("ALLOCATOR", Touch("header"))

\* A heap allocation from a hole, with the header of what is left of the hole
\* written behind the block, and the first use of the block.
Alloc(hole, page, rest) == With("ALLOCATOR", Touch(hole) \o Touch(rest)) \o Touch(page)

\* Scheduler::init, then spawn_root and three calls of spawn under one guard.
Start_scheduler ==
  Fill("SCHEDULER") \o
  With("SCHEDULER", Alloc("header", "list", "hole1") \o Alloc("hole1", "stack1", "hole2")
                      \o Alloc("hole2", "stack2", "hole3") \o Alloc("hole3", "stack3", "hole4")
                      \o <<<<"fill", "processes">>>>)

\* Rtl8139Driver::init enables the card's interrupts before its last message.
Driver_init == Println \o Println \o <<<<"fill", "imr">>>> \o Println

\* The driver is stored once it has set up the card.
Init_device == Println \o Driver_init \o Fill("RTL8139") \o Println

\* check_network_card of something_os_networking, with one card or none.
Scan(card) == Println \o IF card THEN Println \o Init_device ELSE << >>

\* Mutation: the packet is a Box, made when the mapper is at hand.
Mut_Send_test_packet(card) ==
  With("RTL8139", IF card THEN With("MAPPER", Alloc("header", "packet", "hole1") \o Println \o Println) ELSE << >>)

\* The packet is on the stack; it is sent with both guards held.
Send_test_packet(card) ==
  With("RTL8139", IF card THEN With("MAPPER", Println \o Println) ELSE << >>)

Kernel_main_networking(card) ==
  Gdt_init \o Init_idt \o <<<<"int", "breakpoint">>>> \o Init_global_memory
    \o Init_heap \o Scan(card) \o Send_test_packet(card)

\* check_network_card of something_os: a heading and a line for a card.
Check_network_card == Println \o Println

Kernel_main_something_os ==
  Gdt_init \o Init_idt \o Check_network_card \o <<<<"int", "breakpoint">>>> \o Init_global_memory
    \o Init_heap \o Println \o Start_scheduler \o Println

Kernel_main ==
  [something_os |-> Kernel_main_something_os, networking |-> Kernel_main_networking(TRUE),
   networking_no_card |-> Kernel_main_networking(FALSE)]

\* preempt_round_robin reads the process list if it gets the mutex and there
\* are processes; which one it resumes is in Kernel.
Preempt_round_robin == <<<<"try_lock", "SCHEDULER">>>> \o Touch("list") \o <<<<"unlock", "SCHEDULER">>>>

Timer_interrupt_handler == With("PICS", <<<<"eoi", "timer">>>>) \o Preempt_round_robin

Keyboard_interrupt_handler ==
  Println \o With("PICS", <<<<"eoi", "keyboard">>>>) \o Preempt_round_robin

Breakpoint_handler == Println

\* Mutation: the handler uses the heap itself.
Mut_Page_fault_handler == Touch("scratch") \o With("MAPPER", With("FRAME_ALLOCATOR", <<<<"map", "CR2">>>>))

\* There are frames enough here: what the handler does without one is in Memory.
Page_fault_handler == With("MAPPER", With("FRAME_ALLOCATOR", <<<<"map", "CR2">>>>))

\* It panics, and the panic handler is an endless loop.
Double_fault_handler == <<<<"panic", "loop">>>>

Handlers ==
  [timer |-> Timer_interrupt_handler, keyboard |-> Keyboard_interrupt_handler,
   breakpoint |-> Breakpoint_handler, page_fault |-> Page_fault_handler,
   double_fault |-> Double_fault_handler]

Code(r) == IF r = "main" THEN Kernel_main[program] ELSE Handlers[r]

-----------------------------------------------------------------------------
(***************************************************************************)
(* The machine.  The boot loader enters kernel_main with interrupts off.   *)
(***************************************************************************)
Frame(r) == [routine |-> r, at |-> 1, ifl |-> cpu.ifl, saved |-> FALSE]

Init ==
  /\ program \in DOMAIN Kernel_main
  /\ cpu = [cs |-> "loader", idt |-> "none", ifl |-> FALSE]
  /\ stack = <<[routine |-> "main", at |-> 1, ifl |-> FALSE, saved |-> FALSE]>>
  /\ pic = [remapped |-> FALSE, irr |-> {}, isr |-> {}]
  /\ held = {} /\ ready = {}

Depth      == Len(stack)
Top        == stack[Depth]
Instr(f)   == Code(f.routine)[f.at]
Ended      == Top.at > Len(Code(Top.routine))
At(op)     == ~Ended /\ Instr(Top)[1] = op
Arg        == Instr(Top)[2]
Advance(n) == stack' = [stack EXCEPT ![Depth].at = @ + n]

\* The gates hold the code segment of the moment they were built.
Gate(r) == IF cpu.idt = cpu.cs THEN r ELSE "double_fault"

\* The CPU enters an interrupt gate: interrupts are off.
Enter(r) ==
  /\ stack' = Append(stack, Frame(Gate(r)))
  /\ cpu' = [cpu EXCEPT !.ifl = FALSE]

Load_gdt ==
  /\ At("lgdt") /\ Advance(1)
  /\ cpu' = [cpu EXCEPT !.cs = "kernel"]
  /\ UNCHANGED <<program, pic, held, ready>>

\* IDT is built when it is first used, here.
Load_idt ==
  /\ At("lidt") /\ Advance(1)
  /\ cpu' = [cpu EXCEPT !.idt = cpu.cs]
  /\ UNCHANGED <<program, pic, held, ready>>

Remap ==
  /\ At("remap") /\ Advance(1)
  /\ pic' = [pic EXCEPT !.remapped = TRUE]
  /\ UNCHANGED <<program, cpu, held, ready>>

Enable ==
  /\ At("sti") /\ Advance(1)
  /\ cpu' = [cpu EXCEPT !.ifl = TRUE]
  /\ UNCHANGED <<program, pic, held, ready>>

\* without_interrupts saves the flag and restores it.
Disable ==
  /\ At("cli")
  /\ stack' = [stack EXCEPT ![Depth].at = @ + 1, ![Depth].saved = cpu.ifl]
  /\ cpu' = [cpu EXCEPT !.ifl = FALSE]
  /\ UNCHANGED <<program, pic, held, ready>>

Restore ==
  /\ At("popf") /\ Advance(1)
  /\ cpu' = [cpu EXCEPT !.ifl = Top.saved]
  /\ UNCHANGED <<program, pic, held, ready>>

Lock ==
  /\ At("lock") /\ Arg \notin held /\ Advance(1)
  /\ held' = held \cup {Arg}
  /\ UNCHANGED <<program, cpu, pic, ready>>

\* preempt_round_robin goes past its body without the mutex or a process.
Try_lock ==
  /\ At("try_lock")
  /\ \/ Arg \notin held /\ "processes" \in ready /\ Advance(1) /\ held' = held \cup {Arg}
     \/ ~(Arg \notin held /\ "processes" \in ready) /\ Advance(3) /\ UNCHANGED held
  /\ UNCHANGED <<program, cpu, pic, ready>>

Unlock ==
  /\ At("unlock") /\ Advance(1)
  /\ held' = held \ {Arg}
  /\ UNCHANGED <<program, cpu, pic, ready>>

Assign ==
  /\ At("fill") /\ Advance(1)
  /\ ready' = ready \cup {Arg}
  /\ UNCHANGED <<program, cpu, pic, held>>

\* Once the heap has a page, what is accessed first may be on it already.
Access ==
  /\ At("touch") /\ {Arg, "header"} \cap ready # {} /\ Advance(1)
  /\ ready' = ready \cup {Arg}
  /\ UNCHANGED <<program, cpu, pic, held>>

\* The access is tried again when the handler returns.
Fault ==
  /\ At("touch") /\ Arg \notin ready
  /\ Enter("page_fault")
  /\ UNCHANGED <<program, pic, held, ready>>

\* With no mapper or no frame allocator the handler panics.
Map ==
  /\ At("map") /\ {"MAPPER", "FRAME_ALLOCATOR"} \subseteq ready /\ Advance(1)
  /\ ready' = ready \cup {Instr(stack[Depth - 1])[2]}
  /\ UNCHANGED <<program, cpu, pic, held>>

Int3 ==
  /\ At("int")
  /\ stack' = Append([stack EXCEPT ![Depth].at = @ + 1], Frame(Gate(Arg)))
  /\ cpu' = [cpu EXCEPT !.ifl = FALSE]
  /\ UNCHANGED <<program, pic, held, ready>>

Eoi ==
  /\ At("eoi") /\ Advance(1)
  /\ pic' = [pic EXCEPT !.isr = @ \ {Arg}]
  /\ UNCHANGED <<program, cpu, held, ready>>

Iretq ==
  /\ Ended /\ Depth > 1
  /\ stack' = SubSeq(stack, 1, Depth - 1)
  /\ cpu' = [cpu EXCEPT !.ifl = Top.ifl]
  /\ UNCHANGED <<program, pic, held, ready>>

\* The panic handler's loop.
Panic ==
  /\ At("panic")
  /\ UNCHANGED vars

Step ==
  \/ Load_gdt \/ Load_idt \/ Remap \/ Enable \/ Disable \/ Restore
  \/ Lock \/ Try_lock \/ Unlock \/ Assign \/ Access \/ Fault \/ Map
  \/ Int3 \/ Eoi \/ Iretq \/ Panic

\* A device requests an interrupt, once more perhaps; the card, when it has been
\* told to.
Raise(l) ==
  /\ l = "card" => "imr" \in ready
  /\ pic' = [pic EXCEPT !.irr = @ \cup {l}]
  /\ UNCHANGED <<program, stack, cpu, held, ready>>

\* Before it is remapped the PIC delivers its lines at the vectors from 8 on,
\* where the CPU has its own exceptions: the timer's is the double fault.  A gate
\* that is not present is a fault that has no gate either: a double fault again.
Vector(l) == IF pic.remapped /\ l # "card" THEN l ELSE "double_fault"

\* The lines that the PIC serves first.
Above(l) == CASE l = "timer"    -> {}
              [] l = "keyboard" -> {"timer"}
              [] l = "card"     -> {"timer", "keyboard"}

\* The PIC delivers the request unless it, or a line above it, is in service, or
\* one above it is requested too.
Interrupt(l) ==
  /\ cpu.ifl /\ l \in pic.irr
  /\ pic.isr \cap (Above(l) \cup {l}) = {} /\ pic.irr \cap Above(l) = {}
  /\ pic' = [pic EXCEPT !.irr = @ \ {l}, !.isr = @ \cup {l}]
  /\ Enter(Vector(l))
  /\ UNCHANGED <<program, held, ready>>

Next == Step \/ \E l \in Unmasked : Raise(l) \/ Interrupt(l)

Spec == Init /\ [][Next]_vars

\* The CPU executes; between two ticks of the 100 Hz timer of init_pit it also
\* executes kernel_main.
FairSpec == Spec /\ WF_vars(Step) /\ SF_vars(Step /\ Depth = 1)

-----------------------------------------------------------------------------
\* Every variable stays within the values the code gives it; at most one handler
\* is active, for interrupts are off in it and it accesses no unmapped page.
TypeOK ==
  /\ program \in DOMAIN Kernel_main
  /\ cpu \in [cs : {"loader", "kernel"}, idt : {"none", "loader", "kernel"}, ifl : BOOLEAN]
  /\ pic \in [remapped : BOOLEAN, irr : SUBSET Lines, isr : SUBSET Lines]
  /\ held \subseteq Mutexes
  /\ Depth \in 1 .. 2

\* No activation ever finds a mutex locked that it locks with lock(): on one
\* CPU the holder is below it on the stack, or itself, and both would be stuck,
\* be it a handler that prints over a print or a page fault over the mapper.
NobodySpins == At("lock") => Arg \notin held

\* No interrupt, exception or heap access comes before what handles it is in
\* place: the segments, the gates, the remapped PIC, the mapper and the frames.
\* The one interrupt that ends in a double fault is the card's, which has no gate,
\* and not before the driver has enabled it in the card.
HandlersAreReady ==
  /\ \A i \in 1 .. Depth :
       stack[i].routine = "double_fault" => "card" \in pic.isr /\ "imr" \in ready
  /\ At("map") => {"MAPPER", "FRAME_ALLOCATOR"} \subseteq ready

\* The hierarchy in which the two kernels nest their mutexes, those locked below
\* a handler included.
Rank ==
  [SCHEDULER |-> 1, RTL8139 |-> 1, ALLOCATOR |-> 2, MAPPER |-> 3, FRAME_ALLOCATOR |-> 4,
   WRITER |-> 5, PICS |-> 5]

\* Every mutex is locked above all that are held in that hierarchy, so that no
\* other timing of faults and interrupts can make two of them wait for each
\* other: the heap may fault with ALLOCATOR held, and so must never be used
\* with MAPPER held, even when its pages happen to be mapped.
LocksFollowHierarchy == At("lock") => \A m \in held : Rank[m] < Rank[Arg]

\* Both kernels get to their halt loop, with interrupts on and no mutex held,
\* and back to it after every interrupt, however often the lines are raised,
\* unless the card's interrupt is delivered.
BootCompletes == []<>(Depth = 1 /\ Ended /\ cpu.ifl /\ held = {}) \/ <>("card" \in pic.isr)
=============================================================================
