------------------------------- MODULE Kernel -------------------------------
(***************************************************************************)
(* The preemptive kernel of something_os on its single CPU: kernel_main    *)
(* registers itself as the root process and spawns the workloads           *)
(* (main.rs), the scheduler keeps the process list (process.rs), and the   *)
(* timer and keyboard handlers (interrupt/handlers.rs) save the running    *)
(* context on its own stack, acknowledge the PIC, rotate the process list  *)
(* and resume another context with iretq.                                  *)
(*                                                                         *)
(* The granularity is that of the machine: ordinary code can be            *)
(* interrupted between two of its steps whenever RFLAGS.IF is set, and a   *)
(* handler runs with IF clear, so that only the devices interleave with    *)
(* it.  The spin mutexes SCHEDULER and WRITER are explicit: a step that    *)
(* would spin is not enabled.                                              *)
(***************************************************************************)
EXTENDS Integers, Sequences, FiniteSets

CONSTANT NumWorkloads  \* the entry points kernel_main spawns (three in main.rs)

ASSUME NumWorkloadsAssumption == NumWorkloads \in Nat

Pids  == 0 .. NumWorkloads      \* 0 is the root process, NEXT_PID starts at 1
Lines == {"timer", "keyboard"}  \* the PIC lines that have a handler

-----------------------------------------------------------------------------
(***************************************************************************)
(* The register file.  Every register of a process holds a value of its    *)
(* own, so a register restored from the wrong slot or from the wrong       *)
(* stack is visible.                                                       *)
(***************************************************************************)
PushOrder == << "rbp", "r15", "r14", "r13", "r12", "r11", "r10", "r9", "r8",
                "rdi", "rsi", "rdx", "rcx", "rbx", "rax" >>

\* Mutation: two pops exchanged.
Mut_PopOrder == << "rax", "rbx", "rdx", "rcx", "rsi", "rdi", "r8", "r9", "r10",
                   "r11", "r12", "r13", "r14", "r15", "rbp" >>

PopOrder == << "rax", "rbx", "rcx", "rdx", "rsi", "rdi", "r8", "r9", "r10",
               "r11", "r12", "r13", "r14", "r15", "rbp" >>

NumRegs == 15
Slots   == 1 .. NumRegs
Regs    == {PushOrder[i] : i \in Slots}

\* What an extern "C" function may leave behind in a register.
CallerSaved == {"rax", "rcx", "rdx", "rsi", "rdi", "r8", "r9", "r10", "r11"}

Own(p) == [r \in Regs |-> <<p, r>>]
Zero   == <<-1, "zero">>
Junk   == <<-1, "junk">>
Values == (Pids \X Regs) \cup {Zero, Junk}

\* The slots the fifteen pushes write, in the order of the pushes.
Saved(r) == [i \in Slots |-> r[PushOrder[i]]]

\* The register file after the fifteen pops: the j-th pop reads the slot
\* pushed j-th from the end.
Restored(s) ==
  [r \in Regs |-> s[NumRegs + 1 - (CHOOSE j \in Slots : PopOrder[j] = r)]]

Clobbered(r) == [x \in Regs |-> IF x \in CallerSaved THEN Junk ELSE r[x]]

\* A frame on a stack: the five words the CPU pushes, of which RFLAGS.IF
\* matters, below the fifteen pushed registers.
Frames == [kind : {"iret", "ret"}, ifl : BOOLEAN, slots : [Slots -> Values]]

\* Mutation: the forging loop runs once too few.
Mut_ForgedFrame ==
  [kind |-> "iret", ifl |-> TRUE, slots |-> [i \in 1 .. NumRegs - 1 |-> Zero]]

\* The frame Scheduler::spawn forges: RFLAGS = 0x200, registers zero.
ForgedFrame == [kind |-> "iret", ifl |-> TRUE, slots |-> [i \in Slots |-> Zero]]

\* A stack pointer names a stack and a frame on it; ProcessContext::zero().
Pointers == [stk : Pids \cup {-1}, depth : Nat]
NullRsp  == [stk |-> -1, depth |-> 0]

Processes == [id : Pids, state : {"Ready", "Running"},
              rsp : Pointers, rip : {"null", "return"}]

-----------------------------------------------------------------------------
VARIABLES
  some,           \* SCHEDULER is Some(Scheduler)
  processes,      \* Scheduler.processes
  current_index,  \* Scheduler.current_index, from 0
  next_pid,       \* NEXT_PID
  sched_lock,     \* the SCHEDULER mutex is held by kernel_main's guard
  writer_lock,    \* the holder of the WRITER mutex, or Free
  pc,             \* where each process is in its own code
  wpc,            \* where each process is inside _print
  saved_if,       \* the flag _print's without_interrupts saved
  loop_if,        \* the flag the workloads' own without_interrupts saved
  cpu,            \* the process whose stack rsp points into
  ifl,            \* RFLAGS.IF
  hpc,            \* "user", or where the CPU is in an interrupt handler
  rax,            \* the stack pointer preempt_round_robin returns
  regs,           \* the register file of the CPU
  stack,          \* the frames on each process's stack
  irr, isr        \* PIC: requested lines and lines in service

schedVars  == <<some, processes, current_index, next_pid>>
threadVars == <<pc, wpc, saved_if, loop_if>>
cpuVars    == <<cpu, ifl, hpc, rax, regs, stack>>
picVars    == <<irr, isr>>
lockVars   == <<sched_lock, writer_lock>>
vars == <<schedVars, threadVars, cpuVars, picVars, lockVars>>

Free == -1

\* The println! calls of the code and where they continue.
AfterPrint == [start |-> "init", started |-> "hlt", print |-> "printed"]
PrintPoints == {"start", "started", "print"}

PcValues == {"start", "init", "lock", "spawn_root", "spawn", "started", "hlt",
             "entry", "spin", "print", "printed"}

-----------------------------------------------------------------------------
(***************************************************************************)
(* kernel_main after init_heap: interrupts are on and no process exists.   *)
(***************************************************************************)
Init ==
  /\ some = FALSE
  /\ processes = << >>
  /\ current_index = 0
  /\ next_pid = 1
  /\ sched_lock = FALSE
  /\ writer_lock = Free
  /\ pc = [p \in Pids |-> IF p = 0 THEN "start" ELSE "entry"]
  /\ wpc = [p \in Pids |-> "out"]
  /\ saved_if = [p \in Pids |-> FALSE]
  /\ loop_if = [p \in Pids |-> FALSE]
  /\ cpu = 0
  /\ ifl = TRUE
  /\ hpc = "user"
  /\ rax = NullRsp
  /\ regs = Own(0)
  /\ stack = [p \in Pids |-> << >>]
  /\ irr = {}
  /\ isr = {}

-----------------------------------------------------------------------------
(***************************************************************************)
(* Code of the processes.                                                  *)
(***************************************************************************)

\* Process p is at the point l of its code, outside _print and any handler.
At(p, l) == hpc = "user" /\ cpu = p /\ pc[p] = l /\ wpc[p] = "out"

Goto(p, l) == pc' = [pc EXCEPT ![p] = l] /\ UNCHANGED <<wpc, saved_if, loop_if>>

\* Mutation: _print locks WRITER with interrupts as they are.
Mut_Print_ifl == ifl

\* The flag inside without_interrupts.
Print_ifl == FALSE

\* _print: without_interrupts saves IF and clears it, ...
Print_disable(p) ==
  /\ hpc = "user" /\ cpu = p /\ pc[p] \in PrintPoints /\ wpc[p] = "out"
  /\ saved_if' = [saved_if EXCEPT ![p] = ifl]
  /\ ifl' = Print_ifl
  /\ wpc' = [wpc EXCEPT ![p] = "cli"]
  /\ UNCHANGED <<schedVars, pc, loop_if, cpu, hpc, rax, regs, stack, picVars,
                 lockVars>>

\* ... WRITER is locked (spinning while it is held), ...
Print_lock(p) ==
  /\ hpc = "user" /\ cpu = p /\ wpc[p] = "cli"
  /\ writer_lock = Free
  /\ writer_lock' = p
  /\ wpc' = [wpc EXCEPT ![p] = "held"]
  /\ UNCHANGED <<schedVars, pc, saved_if, loop_if, cpuVars, picVars, sched_lock>>

\* ... and once the text is written the guard drops and IF is restored.
Print_unlock(p) ==
  /\ hpc = "user" /\ cpu = p /\ wpc[p] = "held"
  /\ writer_lock' = Free
  /\ ifl' = saved_if[p]
  /\ wpc' = [wpc EXCEPT ![p] = "out"]
  /\ pc' = [pc EXCEPT ![p] = AfterPrint[pc[p]]]
  /\ UNCHANGED <<schedVars, saved_if, loop_if, cpu, hpc, rax, regs, stack, picVars,
                 sched_lock>>

\* Scheduler::init, which holds the mutex only for the assignment.
Scheduler_init ==
  /\ At(0, "init") /\ ~sched_lock
  /\ some' = TRUE /\ processes' = << >> /\ current_index' = 0
  /\ Goto(0, "lock")
  /\ UNCHANGED <<next_pid, cpuVars, picVars, lockVars>>

\* if let Some(ref mut sched) = *process::SCHEDULER.lock(): the guard lives
\* until the end of the block.
Lock_scheduler ==
  /\ At(0, "lock") /\ ~sched_lock
  /\ sched_lock' = some
  /\ Goto(0, IF some THEN "spawn_root" ELSE "started")
  /\ UNCHANGED <<schedVars, cpuVars, picVars, writer_lock>>

Spawn_root ==
  /\ At(0, "spawn_root")
  /\ processes' = Append(processes, [id |-> 0, state |-> "Running",
                                     rsp |-> NullRsp, rip |-> "null"])
  /\ current_index' = 0
  /\ Goto(0, "spawn")
  /\ UNCHANGED <<some, next_pid, cpuVars, picVars, lockVars>>

\* Scheduler::spawn: a fresh pid, a stack holding a forged frame, a context
\* whose rsp points at it.
Spawn ==
  /\ At(0, "spawn") /\ next_pid \in Pids
  /\ next_pid' = next_pid + 1
  /\ stack' = [stack EXCEPT ![next_pid] = <<ForgedFrame>>]
  /\ processes' = Append(processes,
       [id |-> next_pid, state |-> "Ready",
        rsp |-> [stk |-> next_pid, depth |-> 1], rip |-> "null"])
  /\ UNCHANGED <<some, current_index, threadVars, cpu, ifl, hpc, rax, regs,
                 picVars, lockVars>>

\* The end of the block drops the guard.
Unlock_scheduler ==
  /\ At(0, "spawn") /\ next_pid \notin Pids
  /\ sched_lock' = FALSE
  /\ Goto(0, "started")
  /\ UNCHANGED <<schedVars, cpuVars, picVars, writer_lock>>

\* process_alpha, process_beta and process_omega: the loop body disables
\* interrupts, prints, restores the flag and spins.
Entry(p) ==
  /\ At(p, "entry")
  /\ regs' = Own(p)
  /\ Goto(p, "spin")
  /\ UNCHANGED <<schedVars, cpu, ifl, hpc, rax, stack, picVars, lockVars>>

Loop_disable(p) ==
  /\ At(p, "spin")
  /\ loop_if' = [loop_if EXCEPT ![p] = ifl]
  /\ ifl' = FALSE
  /\ pc' = [pc EXCEPT ![p] = "print"]
  /\ UNCHANGED <<wpc, saved_if>>
  /\ UNCHANGED <<schedVars, cpu, hpc, rax, regs, stack, picVars, lockVars>>

\* Mutation: the loop forgets to restore the flag.
Mut_Loop_flag(p) == FALSE

Loop_flag(p) == loop_if[p]

Loop_enable(p) ==
  /\ At(p, "printed")
  /\ ifl' = Loop_flag(p)
  /\ Goto(p, "spin")
  /\ UNCHANGED <<schedVars, cpu, hpc, rax, regs, stack, picVars, lockVars>>

Boot == Scheduler_init \/ Lock_scheduler \/ Spawn_root \/ Spawn \/ Unlock_scheduler

Code(p) ==
  \/ Print_disable(p) \/ Print_lock(p) \/ Print_unlock(p)
  \/ Entry(p) \/ Loop_disable(p) \/ Loop_enable(p)

-----------------------------------------------------------------------------
(***************************************************************************)
(* The PIC and the interrupt handlers.                                     *)
(***************************************************************************)

\* A device raises its line; a request that is already pending is merged.
Raise(l) ==
  /\ l \notin irr
  /\ irr' = irr \cup {l}
  /\ UNCHANGED <<schedVars, threadVars, cpuVars, isr, lockVars>>

\* The timer is line 0 and takes precedence over the keyboard, line 1.
Deliverable(l) ==
  /\ l \in irr
  /\ IF l = "timer" THEN "timer" \notin isr ELSE "timer" \notin irr /\ isr = {}

\* A non-specific EOI ends the line in service with the highest precedence.
Eoi(s) == s \ (IF "timer" \in s THEN {"timer"} ELSE {"keyboard"})

\* The CPU takes the interrupt through an interrupt gate and the naked
\* handler pushes the registers.
Interrupt(l) ==
  /\ hpc = "user" /\ ifl /\ Deliverable(l)
  /\ irr' = irr \ {l} /\ isr' = isr \cup {l}
  /\ stack' = [stack EXCEPT ![cpu] =
       Append(@, [kind |-> "iret", ifl |-> ifl, slots |-> Saved(regs)])]
  /\ ifl' = FALSE
  /\ hpc' = l
  /\ UNCHANGED <<schedVars, threadVars, cpu, rax, regs, lockVars>>

\* Mutation: the timer is not acknowledged.
Mut_Timer_ended == isr

Timer_ended == Eoi(isr)

Signal_eoi ==
  /\ hpc = "timer"
  /\ isr' = Timer_ended
  /\ regs' = Clobbered(regs)
  /\ hpc' = "preempt"
  /\ UNCHANGED <<schedVars, threadVars, cpu, ifl, rax, stack, irr, lockVars>>

\* handle_keyboard_io_and_eoi prints, which spins while WRITER is held.
Handle_keyboard_io_and_eoi ==
  /\ hpc = "keyboard"
  /\ writer_lock = Free
  /\ isr' = Eoi(isr)
  /\ regs' = Clobbered(regs)
  /\ hpc' = "preempt"
  /\ UNCHANGED <<schedVars, threadVars, cpu, ifl, rax, stack, irr, lockVars>>

\* Mutations: every other process is skipped; the mutex is ignored; the old
\* stack pointer is not saved; the old process stays Running.
Mut_Next_index == (current_index + 2) % Len(processes)

Mut_Try_lock == TRUE

Next_index == (current_index + 1) % Len(processes)

\* SCHEDULER.try_lock() succeeds.
Try_lock == ~sched_lock

Mut_Rotate_rsp(old_rsp) ==
  [i \in DOMAIN processes |->
     [processes[i] EXCEPT !.state =
        IF i = Next_index + 1 THEN "Running" ELSE "Ready"]]

Mut_Rotate_state(old_rsp) ==
  [i \in DOMAIN processes |->
     CASE i = current_index + 1 -> [processes[i] EXCEPT !.rsp = old_rsp]
       [] i = Next_index + 1 -> [processes[i] EXCEPT !.state = "Running"]
       [] OTHER -> processes[i]]

\* The update preempt_round_robin makes to the process list.
Rotate(old_rsp) ==
  [i \in DOMAIN processes |->
     CASE i = current_index + 1 ->
            [processes[i] EXCEPT !.rsp = old_rsp, !.state = "Ready"]
       [] i = Next_index + 1 -> [processes[i] EXCEPT !.state = "Running"]
       [] OTHER -> processes[i]]

Preempt_round_robin ==
  /\ hpc = "preempt"
  /\ LET old_rsp == [stk |-> cpu, depth |-> Len(stack[cpu])] IN
       IF Try_lock /\ some /\ Len(processes) >= 2
         THEN /\ processes' = Rotate(old_rsp)
              /\ current_index' = Next_index
              /\ rax' = processes'[Next_index + 1].rsp
         ELSE rax' = old_rsp /\ UNCHANGED <<processes, current_index>>
  /\ hpc' = "resume"
  /\ UNCHANGED <<some, next_pid, threadVars, cpu, ifl, regs, stack, picVars,
                 lockVars>>

\* The pointer q is the top of a stack and an interrupt frame lies there.
Resumable(q) ==
  /\ q.stk \in Pids
  /\ q.depth > 0 /\ q.depth = Len(stack[q.stk])
  /\ stack[q.stk][q.depth].kind = "iret"

\* mov rsp, rax; the pops; iretq.  Anything but an interrupt frame sends the
\* CPU to wherever the words on the stack say.
Resume ==
  /\ hpc = "resume"
  /\ IF Resumable(rax)
       THEN LET f == stack[rax.stk][rax.depth] IN
            /\ hpc' = "user"
            /\ cpu' = rax.stk
            /\ regs' = Restored(f.slots)
            /\ ifl' = f.ifl
            /\ stack' = [stack EXCEPT ![rax.stk] = SubSeq(@, 1, rax.depth - 1)]
       ELSE hpc' = "wild" /\ UNCHANGED <<cpu, regs, ifl, stack>>
  /\ UNCHANGED <<schedVars, threadVars, rax, picVars, lockVars>>

Handler == Signal_eoi \/ Handle_keyboard_io_and_eoi \/ Preempt_round_robin \/ Resume

-----------------------------------------------------------------------------
Next ==
  \/ Boot
  \/ \E p \in Pids : Code(p)
  \/ \E l \in Lines : Raise(l) \/ Interrupt(l)
  \/ Handler

Spec == Init /\ [][Next]_vars

(***************************************************************************)
(* The CPU always executes; init_pit programs the PIT to fire for ever;    *)
(* a request that stays pending is taken at an instruction boundary at     *)
(* which IF is set; and a process that gets the CPU again and again        *)
(* executes (a slice is 10 ms and the keyboard is slower than the CPU), so *)
(* the interrupts cannot rob it of every one of its slices.                *)
(***************************************************************************)
Fairness ==
  /\ WF_vars(Handler)
  /\ WF_vars(Raise("timer")) /\ SF_vars(Interrupt("timer"))
  /\ SF_vars(Boot) /\ \A p \in Pids : SF_vars(Code(p))

FairSpec == Spec /\ Fairness

-----------------------------------------------------------------------------
(***************************************************************************)
(* Properties.                                                             *)
(***************************************************************************)

\* Every variable stays within the values the code gives it.
TypeOK ==
  /\ some \in BOOLEAN
  /\ processes \in Seq(Processes)
  /\ current_index \in Nat
  /\ next_pid \in 1 .. NumWorkloads + 1
  /\ sched_lock \in BOOLEAN
  /\ writer_lock \in Pids \cup {Free}
  /\ pc \in [Pids -> PcValues]
  /\ wpc \in [Pids -> {"out", "cli", "held"}]
  /\ saved_if \in [Pids -> BOOLEAN]
  /\ loop_if \in [Pids -> BOOLEAN]
  /\ cpu \in Pids
  /\ ifl \in BOOLEAN
  /\ hpc \in {"user", "preempt", "resume", "wild"} \cup Lines
  /\ rax \in Pointers
  /\ regs \in [Regs -> Values]
  /\ stack \in [Pids -> Seq(Frames)]
  /\ irr \in SUBSET Lines
  /\ isr \in SUBSET Lines

\* preempt_round_robin never hands the assembly a stack pointer that is not
\* the top of an interrupt frame: iretq never runs on other words.
NoWildResume == hpc # "wild"

\* While ordinary code runs, the CPU is on the stack of the process at
\* current_index, that process alone is Running, and every other process
\* waits with its context.rsp at the frame on top of its own stack.
ScheduleMatchesCpu ==
  (hpc = "user" /\ processes # << >>) =>
    /\ processes[current_index + 1].id = cpu
    /\ \A i \in DOMAIN processes :
         IF i = current_index + 1
           THEN processes[i].state = "Running"
           ELSE /\ processes[i].state = "Ready"
                /\ processes[i].rsp.stk = processes[i].id
                /\ Resumable(processes[i].rsp)

\* A process that is interrupted and later resumed, possibly by another
\* line's handler after other processes ran, finds each of its registers as
\* it left it.
RegistersSurvive ==
  hpc = "user" =>
    regs = IF pc[cpu] = "entry" THEN [r \in Regs |-> Zero] ELSE Own(cpu)

\* An interrupt handler never waits for a mutex: the code it interrupted
\* would have to run to release it (handlers.rs prints and uses the PICs).
HandlerNeverSpins == hpc \in Lines => writer_lock = Free

\* kernel_main, while it holds the SCHEDULER guard, is never switched away.
LockHolderStaysOnCpu == sched_lock => cpu = 0

\* No line is still in service when ordinary code resumes: a line left in
\* service would keep itself and the lower lines from ever interrupting.
AcknowledgedBeforeResume == hpc = "user" => isr = {}

(***************************************************************************)
(* The inductive invariant that the safety properties above follow from.   *)
(***************************************************************************)
Booting == {"start", "init", "lock", "spawn_root"}

\* The processes that have a context.
Live(q) == q = 0 \/ q < Len(processes)

\* How far kernel_main has come determines what the scheduler holds.
BootInv ==
  /\ pc[0] \in Booting \cup {"spawn", "started", "hlt"}
  /\ some <=> pc[0] \notin {"start", "init"}
  /\ sched_lock <=> pc[0] \in {"spawn_root", "spawn"}
  /\ Len(processes) = IF pc[0] \in Booting THEN 0 ELSE next_pid
  /\ pc[0] \in Booting => next_pid = 1
  /\ current_index < Len(processes) \/ current_index = 0
  /\ pc[0] \in Booting \cup {"spawn"} => current_index = 0
  /\ \A q \in Pids : pc[q] = "entry" \/ Live(q)

\* The registers process q last had, and the frame they are saved in.
RegsOf(q) == IF pc[q] = "entry" THEN [r \in Regs |-> Zero] ELSE Own(q)
FrameOf(q) == [kind |-> "iret", ifl |-> TRUE, slots |-> Saved(RegsOf(q))]

\* A context that does not execute ordinary code has one frame on its stack.
StackInv ==
  /\ \A q \in Pids :
       stack[q] = IF Live(q) /\ ~(hpc = "user" /\ q = cpu)
                    THEN <<FrameOf(q)>> ELSE << >>
  /\ hpc = "user" => regs = RegsOf(cpu)

\* The process list agrees with the stacks.
ListInv ==
  \A i \in DOMAIN processes :
    /\ processes[i].id = i - 1
    /\ processes[i].state = IF i = current_index + 1 THEN "Running" ELSE "Ready"
    /\ i # current_index + 1 => processes[i].rsp = [stk |-> i - 1, depth |-> 1]

\* The CPU is on the stack of the current process, except between the
\* rotation of the list and iretq.
CpuInv ==
  /\ hpc # "wild"
  /\ hpc # "resume" => cpu = current_index
  /\ hpc = "resume" =>
       /\ rax = [stk |-> current_index, depth |-> 1]
       /\ \/ cpu = current_index
          \/ /\ Len(processes) >= 2 /\ ~sched_lock
             /\ cpu < Len(processes)
             /\ current_index = (cpu + 1) % Len(processes)

\* Code that prints runs with interrupts off, and so do handlers.
FlagInv ==
  /\ hpc # "user" => ~ifl
  /\ \A q \in Pids : (wpc[q] # "out" \/ pc[q] \in {"print", "printed"}) =>
                        cpu = q /\ hpc = "user" /\ ~ifl
  /\ \A q \in Pids : wpc[q] # "out" =>
                        pc[q] \in PrintPoints /\ (pc[q] = "print" => ~saved_if[q])
  /\ \A q \in Pids : wpc[q] = "held" <=> writer_lock = q
  /\ isr = IF hpc \in Lines THEN {hpc} ELSE {}

\* The conjunction is preserved by every step of the kernel.
KernelInv == BootInv /\ StackInv /\ ListInv /\ CpuInv /\ FlagInv

\* Every workload gets the CPU and the screen again and again, and the root
\* process gets the CPU again and again.
NoStarvation ==
  /\ []<>(cpu = 0 /\ hpc = "user")
  /\ \A p \in Pids \ {0} : []<>(writer_lock = p)

-----------------------------------------------------------------------------
(***************************************************************************)
(* What the scheduler promises: the process the CPU executes changes only  *)
(* to the next one of the list.                                            *)
(***************************************************************************)
Order == [i \in DOMAIN processes |-> processes[i].id]

RR == INSTANCE RoundRobin WITH Ids <- Pids, order <- Order, running <- cpu

\* The kernel implements round-robin scheduling as the CPU sees it.
ImplementsRoundRobin == RR!Spec
=============================================================================
