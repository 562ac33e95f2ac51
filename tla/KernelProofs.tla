---------------------------- MODULE KernelProofs ----------------------------
(***************************************************************************)
(* Proofs about the preemptive kernel, for every number of workloads.      *)
(***************************************************************************)
EXTENDS Kernel, TLAPS

-----------------------------------------------------------------------------
(***************************************************************************)
(* Facts about the register file.                                          *)
(***************************************************************************)

\* The pops of the interrupt handlers mirror their pushes.
LEMMA PopsMirrorPushes ==
  \A j \in Slots : PopOrder[j] = PushOrder[NumRegs + 1 - j]
BY SMT DEF Slots, NumRegs, PopOrder, PushOrder

\* The slot a register is popped from exists and is the one it was pushed to.
LEMMA PopSlot ==
  ASSUME NEW r \in Regs
  PROVE  LET j == CHOOSE j \in Slots : PopOrder[j] = r
         IN  NumRegs + 1 - j \in Slots /\ PushOrder[NumRegs + 1 - j] = r
<1> DEFINE j == CHOOSE j \in Slots : PopOrder[j] = r
<1>1. PICK i \in Slots : PushOrder[i] = r
  BY DEF Regs
<1>2. NumRegs + 1 - i \in Slots /\ NumRegs + 1 - (NumRegs + 1 - i) = i
  BY DEF Slots, NumRegs
<1>3. PopOrder[NumRegs + 1 - i] = r
  BY <1>1, <1>2, PopsMirrorPushes
<1>4. j \in Slots /\ PopOrder[j] = r
  BY <1>2, <1>3
<1> HIDE DEF j
<1>5. PushOrder[NumRegs + 1 - j] = r
  BY <1>4, PopsMirrorPushes
<1>6. NumRegs + 1 - j \in Slots
  BY <1>4 DEF Slots, NumRegs
<1> QED BY <1>5, <1>6 DEF j

\* Saving and restoring a register file gives it back.
LEMMA RestoreSaved ==
  ASSUME NEW S, NEW f \in [Regs -> S]
  PROVE  Restored(Saved(f)) = f
<1>1. ASSUME NEW r \in Regs PROVE Restored(Saved(f))[r] = f[r]
  BY PopSlot DEF Restored, Saved
<1> QED BY <1>1 DEF Restored

\* A restored register file holds values from the slots.
LEMMA RestoredType ==
  ASSUME NEW S, NEW s \in [Slots -> S]
  PROVE  Restored(s) \in [Regs -> S]
BY PopSlot DEF Restored

\* The fifteen slots hold the values of the registers.
LEMMA SavedType ==
  ASSUME NEW S, NEW f \in [Regs -> S]
  PROVE  Saved(f) \in [Slots -> S]
BY DEF Saved, Regs

\* The index after the last is the first.
LEMMA NextIndex ==
  ASSUME NEW n \in Nat, NEW c \in Nat, n >= 2, c < n
  PROVE  (c + 1) % n = IF c + 1 = n THEN 0 ELSE c + 1
BY SMT

-----------------------------------------------------------------------------
(***************************************************************************)
(* Type correctness.                                                       *)
(***************************************************************************)
\* The register files the code creates are register files.
LEMMA RegisterTypes ==
  /\ \A p \in Pids : Own(p) \in [Regs -> Values]
  /\ [r \in Regs |-> Zero] \in [Regs -> Values]
  /\ \A f \in [Regs -> Values] : Clobbered(f) \in [Regs -> Values]
  /\ ForgedFrame \in Frames
BY DEF Own, Values, Clobbered, ForgedFrame, Frames

\* The state kernel_main starts from is well typed.
LEMMA InitType == Init => TypeOK
<1> SUFFICES ASSUME Init PROVE TypeOK
  OBVIOUS
<1>1. 0 \in Pids /\ Free \in Pids \cup {Free} /\ 1 \in 1 .. NumWorkloads + 1
  BY NumWorkloadsAssumption DEF Pids
<1>2. NullRsp \in Pointers
  BY DEF NullRsp, Pointers
<1>3. regs \in [Regs -> Values] /\ stack \in [Pids -> Seq(Frames)]
  BY <1>1, RegisterTypes DEF Init
<1>4. /\ pc \in [Pids -> PcValues]
      /\ wpc \in [Pids -> {"out", "cli", "held"}]
      /\ saved_if \in [Pids -> BOOLEAN] /\ loop_if \in [Pids -> BOOLEAN]
  BY DEF Init, PcValues
<1>5. /\ some \in BOOLEAN /\ sched_lock \in BOOLEAN /\ ifl \in BOOLEAN
      /\ processes \in Seq(Processes) /\ current_index \in Nat
      /\ next_pid \in 1 .. NumWorkloads + 1 /\ writer_lock \in Pids \cup {Free}
      /\ cpu \in Pids /\ rax \in Pointers
      /\ irr \in SUBSET Lines /\ isr \in SUBSET Lines
      /\ hpc \in {"user", "preempt", "resume", "wild"} \cup Lines
  BY <1>1, <1>2 DEF Init
<1> QED BY <1>3, <1>4, <1>5 DEF TypeOK

\* A rotation keeps the list a list of processes of the same length, saves
\* the stack pointer of the current process, and moves Running to the next.
LEMMA RotateEffect ==
  ASSUME TypeOK, NEW q \in Pointers, Len(processes) >= 2, current_index < Len(processes)
  PROVE  /\ Rotate(q) \in Seq(Processes)
         /\ Len(Rotate(q)) = Len(processes)
         /\ DOMAIN Rotate(q) = 1 .. Len(processes)
         /\ Next_index \in 0 .. Len(processes) - 1
         /\ Next_index # current_index
         /\ Next_index + 1 \in 1 .. Len(processes)
         /\ \A i \in 1 .. Len(processes) :
              /\ Rotate(q)[i].id = processes[i].id
              /\ Rotate(q)[i].rsp =
                   IF i = current_index + 1 THEN q ELSE processes[i].rsp
              /\ Rotate(q)[i].state =
                   IF i = current_index + 1 THEN "Ready"
                   ELSE IF i = Next_index + 1 THEN "Running" ELSE processes[i].state
<1> DEFINE n == Len(processes)
<1>1. n \in Nat /\ DOMAIN processes = 1 .. n /\ current_index \in Nat
  BY DEF TypeOK
<1>2. Next_index \in 0 .. n - 1 /\ Next_index # current_index /\ Next_index + 1 \in 1 .. n
  BY <1>1, NextIndex DEF Next_index
<1>3. ASSUME NEW i \in 1 .. n
      PROVE  /\ Rotate(q)[i].id = processes[i].id
             /\ Rotate(q)[i].rsp =
                  IF i = current_index + 1 THEN q ELSE processes[i].rsp
             /\ Rotate(q)[i].state =
                  IF i = current_index + 1 THEN "Ready"
                  ELSE IF i = Next_index + 1 THEN "Running" ELSE processes[i].state
             /\ Rotate(q)[i] \in Processes
  <2>1. processes[i] \in Processes
    BY <1>1 DEF TypeOK
  <2>2. CASE i = current_index + 1
    <3>1. Rotate(q)[i] = [processes[i] EXCEPT !.rsp = q, !.state = "Ready"]
      BY <1>1, <1>2, <2>2 DEF Rotate
    <3> QED BY <2>1, <2>2, <3>1 DEF Processes
  <2>3. CASE i # current_index + 1 /\ i = Next_index + 1
    <3>1. Rotate(q)[i] = [processes[i] EXCEPT !.state = "Running"]
      BY <1>1, <2>3 DEF Rotate
    <3> QED BY <2>1, <2>3, <3>1 DEF Processes
  <2>4. CASE i # current_index + 1 /\ i # Next_index + 1
    <3>1. Rotate(q)[i] = processes[i]
      BY <1>1, <2>4 DEF Rotate
    <3> QED BY <2>1, <2>4, <3>1
  <2> QED BY <2>2, <2>3, <2>4
<1>4. Rotate(q) = [i \in 1 .. n |-> Rotate(q)[i]]
  BY <1>1 DEF Rotate
<1>5. Rotate(q) \in [1 .. n -> Processes]
  BY <1>3, <1>4
<1>6. Rotate(q) \in Seq(Processes) /\ Len(Rotate(q)) = n /\ DOMAIN Rotate(q) = 1 .. n
  BY <1>1, <1>5
<1> QED BY <1>2, <1>3, <1>6

\* Every step of kernel_main, the processes, the handlers and the devices
\* keeps the variables well typed.
LEMMA TypeStep ==
  ASSUME TypeOK, KernelInv, [Next]_vars
  PROVE  TypeOK'
<1> USE DEF schedVars, threadVars, cpuVars, picVars, lockVars
<1>0. 0 \in Pids /\ NullRsp \in Pointers
  BY NumWorkloadsAssumption DEF Pids, NullRsp, Pointers
<1>1. CASE Boot
  <2>1. CASE Scheduler_init
    BY <1>0, <2>1 DEF Scheduler_init, At, Goto, TypeOK, PcValues
  <2>2. CASE Lock_scheduler
    BY <1>0, <2>2 DEF Lock_scheduler, At, Goto, TypeOK, PcValues
  <2>3. CASE Spawn_root
    <3>1. [id |-> 0, state |-> "Running", rsp |-> NullRsp, rip |-> "null"] \in Processes
      BY <1>0 DEF Processes
    <3>2. processes' \in Seq(Processes)
      BY <2>3, <3>1 DEF Spawn_root, TypeOK
    <3> QED BY <1>0, <2>3, <3>2 DEF Spawn_root, At, Goto, TypeOK, PcValues
  <2>4. CASE Spawn
    <3>1. [id |-> next_pid, state |-> "Ready",
           rsp |-> [stk |-> next_pid, depth |-> 1], rip |-> "null"] \in Processes
      BY <2>4 DEF Spawn, Processes, Pointers
    <3>2. processes' \in Seq(Processes)
      BY <2>4, <3>1 DEF Spawn, TypeOK
    <3>3. stack' \in [Pids -> Seq(Frames)]
      BY <2>4, RegisterTypes DEF Spawn, TypeOK
    <3>4. next_pid' \in 1 .. NumWorkloads + 1
      BY <2>4, NumWorkloadsAssumption DEF Spawn, TypeOK, Pids
    <3> QED BY <2>4, <3>2, <3>3, <3>4 DEF Spawn, TypeOK
  <2>5. CASE Unlock_scheduler
    BY <1>0, <2>5 DEF Unlock_scheduler, At, Goto, TypeOK, PcValues
  <2> QED BY <1>1, <2>1, <2>2, <2>3, <2>4, <2>5 DEF Boot
<1>2. ASSUME NEW p \in Pids, Code(p)
      PROVE  TypeOK'
  <2>1. CASE Print_disable(p)
    BY <2>1 DEF Print_disable, Print_ifl, TypeOK
  <2>2. CASE Print_lock(p)
    BY <2>2 DEF Print_lock, TypeOK
  <2>3. CASE Print_unlock(p)
    <3>1. pc[p] \in PrintPoints
      BY <2>3 DEF Print_unlock, KernelInv, FlagInv
    <3>2. AfterPrint[pc[p]] \in PcValues
      BY <3>1 DEF AfterPrint, PrintPoints, PcValues
    <3> QED BY <2>3, <3>2 DEF Print_unlock, TypeOK
  <2>4. CASE Entry(p)
    BY <2>4, RegisterTypes DEF Entry, At, Goto, TypeOK, PcValues
  <2>5. CASE Loop_disable(p)
    BY <2>5 DEF Loop_disable, At, Goto, TypeOK, PcValues
  <2>6. CASE Loop_enable(p)
    BY <2>6 DEF Loop_enable, Loop_flag, At, Goto, TypeOK, PcValues
  <2> QED BY <1>2, <2>1, <2>2, <2>3, <2>4, <2>5, <2>6 DEF Code
<1>3. ASSUME NEW l \in Lines, Raise(l)
      PROVE  TypeOK'
  BY <1>3 DEF Raise, TypeOK
<1>4. ASSUME NEW l \in Lines, Interrupt(l)
      PROVE  TypeOK'
  <2>1. [kind |-> "iret", ifl |-> ifl, slots |-> Saved(regs)] \in Frames
    BY SavedType DEF Frames, TypeOK
  <2>2. stack' \in [Pids -> Seq(Frames)]
    BY <1>4, <2>1 DEF Interrupt, TypeOK
  <2> QED BY <1>4, <2>2 DEF Interrupt, TypeOK
<1>5. CASE Handler
  <2>1. CASE Signal_eoi
    BY <2>1, RegisterTypes DEF Signal_eoi, Timer_ended, TypeOK, Eoi
  <2>2. CASE Handle_keyboard_io_and_eoi
    BY <2>2, RegisterTypes DEF Handle_keyboard_io_and_eoi, TypeOK, Eoi
  <2>3. CASE Preempt_round_robin
    <3> DEFINE q == [stk |-> cpu, depth |-> Len(stack[cpu])]
    <3>1. q \in Pointers
      BY DEF TypeOK, Pointers
    <3> HIDE DEF q
    <3>2. CASE Try_lock /\ some /\ Len(processes) >= 2
      <4>1. current_index < Len(processes)
        BY <3>2 DEF KernelInv, BootInv, TypeOK
      <4>2. processes' = Rotate(q) /\ current_index' = Next_index
            /\ rax' = Rotate(q)[Next_index + 1].rsp
        BY <2>3, <3>2 DEF Preempt_round_robin, q
      <4>3. Rotate(q) \in Seq(Processes) /\ Next_index \in Nat
            /\ Next_index + 1 \in DOMAIN Rotate(q)
        BY <3>1, <3>2, <4>1, RotateEffect
      <4>4. Rotate(q)[Next_index + 1] \in Processes
        BY <4>3
      <4>5. rax' \in Pointers
        BY <4>2, <4>4 DEF Processes
      <4> QED BY <2>3, <4>2, <4>3, <4>5 DEF Preempt_round_robin, TypeOK
    <3>3. CASE ~(Try_lock /\ some /\ Len(processes) >= 2)
      BY <2>3, <3>1, <3>3 DEF Preempt_round_robin, TypeOK, q
    <3> QED BY <3>2, <3>3
  <2>4. CASE Resume
    <3>1. CASE Resumable(rax)
      <4> DEFINE f == stack[rax.stk][rax.depth]
      <4>1. rax.stk \in Pids /\ stack[rax.stk] \in Seq(Frames)
            /\ rax.depth \in 1 .. Len(stack[rax.stk])
        BY <3>1 DEF Resumable, TypeOK, Pointers
      <4>2. f \in Frames
        BY <4>1
      <4>3. regs' \in [Regs -> Values] /\ ifl' \in BOOLEAN
        BY <2>4, <3>1, <4>2, RestoredType DEF Resume, Frames
      <4>4. SubSeq(stack[rax.stk], 1, rax.depth - 1) \in Seq(Frames)
        BY <4>1
      <4>5. stack' \in [Pids -> Seq(Frames)]
        BY <2>4, <3>1, <4>1, <4>4 DEF Resume, TypeOK
      <4> QED BY <2>4, <3>1, <4>1, <4>3, <4>5 DEF Resume, TypeOK
    <3>2. CASE ~Resumable(rax)
      BY <2>4, <3>2 DEF Resume, TypeOK
    <3> QED BY <3>1, <3>2
  <2> QED BY <1>5, <2>1, <2>2, <2>3, <2>4 DEF Handler
<1>6. CASE UNCHANGED vars
  BY <1>6 DEF vars, TypeOK
<1> QED BY <1>1, <1>2, <1>3, <1>4, <1>5, <1>6 DEF Next

-----------------------------------------------------------------------------
(***************************************************************************)
(* The inductive invariant.                                                *)
(***************************************************************************)

\* Facts about the constants that the steps below use.
LEMMA ConstantFacts ==
  /\ 0 \in Pids /\ Pids \subseteq Nat /\ Free \notin Pids
  /\ \A q : q \in Pids <=> q \in Nat /\ q <= NumWorkloads
  /\ Lines = {"timer", "keyboard"}
BY NumWorkloadsAssumption DEF Pids, Free, Lines

\* The inductive invariant holds when kernel_main starts.
LEMMA InitInv == Init => KernelInv
<1> SUFFICES ASSUME Init PROVE KernelInv
  OBVIOUS
<1> USE ConstantFacts DEF Init
<1>1. BootInv
  BY DEF BootInv, Booting, Live
<1>2. StackInv
  BY DEF StackInv, RegsOf, Live
<1>3. ListInv
  BY DEF ListInv
<1>4. CpuInv
  BY DEF CpuInv
<1>5. FlagInv
  BY DEF FlagInv
<1> QED BY <1>1, <1>2, <1>3, <1>4, <1>5 DEF KernelInv

\* The process the CPU is on has a context, and is in the list once the list
\* holds anything.
LEMMA CurrentIsLive ==
  ASSUME TypeOK, KernelInv
  PROVE  /\ current_index \in Pids
         /\ Live(current_index)
         /\ hpc # "resume" => cpu = current_index
<1>1. Len(processes) \in Nat /\ Len(processes) <= NumWorkloads + 1
  BY NumWorkloadsAssumption DEF KernelInv, BootInv, TypeOK
<1>2. current_index \in Nat /\ (current_index < Len(processes) \/ current_index = 0)
  BY DEF KernelInv, BootInv, TypeOK
<1>3. current_index \in Pids
  BY <1>1, <1>2, NumWorkloadsAssumption DEF Pids
<1>4. Live(current_index)
  BY <1>2 DEF Live
<1>5. hpc # "resume" => cpu = current_index
  BY DEF KernelInv, CpuInv
<1> QED BY <1>3, <1>4, <1>5

\* A step that leaves the CPU, the stacks and the number of processes alone,
\* and starts no process, leaves the frames valid.
LEMMA StackUnchanged ==
  ASSUME StackInv, Len(processes') = Len(processes), cpu \in Pids,
         UNCHANGED <<hpc, cpu, stack, regs>>,
         \A q \in Pids : pc'[q] = "entry" <=> pc[q] = "entry"
  PROVE  StackInv'
<1>1. \A q \in Pids : RegsOf(q)' = RegsOf(q) /\ FrameOf(q)' = FrameOf(q)
  BY DEF RegsOf, FrameOf
<1>2. \A q \in Pids : Live(q)' <=> Live(q)
  BY DEF Live
<1> QED BY <1>1, <1>2 DEF StackInv

\* kernel_main's steps.
LEMMA BootStep ==
  ASSUME TypeOK, KernelInv, Boot
  PROVE  KernelInv'
<1> USE ConstantFacts DEF schedVars, threadVars, cpuVars, picVars, lockVars
<1>0. /\ hpc = "user" /\ cpu = 0 /\ wpc[0] = "out" /\ current_index = 0
      /\ Len(processes) \in Nat /\ next_pid \in Nat /\ pc \in [Pids -> PcValues]
      /\ BootInv /\ StackInv /\ ListInv /\ CpuInv /\ FlagInv
      /\ pc[0] \in Booting \cup {"spawn"}
  BY DEF Boot, Scheduler_init, Lock_scheduler, Spawn_root, Spawn,
         Unlock_scheduler, At, KernelInv, BootInv, CpuInv, TypeOK, Booting
<1>1. CASE Scheduler_init
  <2>1. processes = << >> /\ processes' = << >> /\ pc' = [pc EXCEPT ![0] = "lock"] /\ pc[0] = "init"
    BY <1>0, <1>1 DEF Scheduler_init, At, Goto, BootInv, Booting, TypeOK
  <2>2. BootInv'
    BY <1>0, <1>1, <2>1 DEF Scheduler_init, At, Goto, BootInv, Booting, Live
  <2>3. StackInv'
    BY <1>0, <1>1, <2>1, StackUnchanged DEF Scheduler_init
  <2>4. ListInv'
    BY <2>1 DEF ListInv
  <2>5. CpuInv'
    BY <1>0, <1>1 DEF Scheduler_init, CpuInv
  <2>6. FlagInv'
    BY <1>0, <1>1, <2>1 DEF Scheduler_init, Goto, FlagInv
  <2> QED BY <2>2, <2>3, <2>4, <2>5, <2>6 DEF KernelInv
<1>2. CASE Lock_scheduler
  <2>1. /\ some /\ ~sched_lock /\ pc[0] = "lock"
        /\ pc' = [pc EXCEPT ![0] = "spawn_root"] /\ sched_lock' = TRUE
        /\ UNCHANGED <<some, processes, current_index, next_pid>>
    BY <1>0, <1>2 DEF Lock_scheduler, At, Goto, BootInv
  <2>2. BootInv'
    BY <1>0, <2>1 DEF BootInv, Booting, Live
  <2>3. StackInv'
    BY <1>0, <1>2, <2>1, StackUnchanged DEF Lock_scheduler
  <2>4. ListInv'
    BY <1>0, <2>1 DEF ListInv
  <2>5. CpuInv'
    BY <1>0, <1>2 DEF Lock_scheduler, CpuInv
  <2>6. FlagInv'
    BY <1>0, <1>2, <2>1 DEF Lock_scheduler, Goto, FlagInv
  <2> QED BY <2>2, <2>3, <2>4, <2>5, <2>6 DEF KernelInv
<1>3. CASE Spawn_root
  <2> DEFINE e == [id |-> 0, state |-> "Running", rsp |-> NullRsp, rip |-> "null"]
  <2>1. /\ processes = << >> /\ processes' = Append(processes, e)
        /\ pc[0] = "spawn_root" /\ pc' = [pc EXCEPT ![0] = "spawn"]
        /\ next_pid = 1 /\ current_index' = 0
        /\ UNCHANGED <<some, next_pid, sched_lock>>
    BY <1>0, <1>3 DEF Spawn_root, At, Goto, BootInv, Booting, TypeOK
  <2>2. processes' = <<e>> /\ Len(processes') = 1 /\ Len(processes) = 0
    BY <2>1
  <2> HIDE DEF e
  <2>3. BootInv'
    BY <1>0, <2>1, <2>2 DEF BootInv, Booting, Live
  <2>4. StackInv'
    <3>1. \A q \in Pids : RegsOf(q)' = RegsOf(q) /\ FrameOf(q)' = FrameOf(q)
      BY <1>0, <2>1 DEF RegsOf, FrameOf
    <3>2. \A q \in Pids : Live(q)' <=> Live(q)
      BY <2>2 DEF Live
    <3> QED BY <1>0, <1>3, <3>1, <3>2 DEF StackInv, Spawn_root
  <2>5. ListInv'
    BY <2>1, <2>2 DEF ListInv, e
  <2>6. CpuInv'
    BY <1>0, <1>3, <2>1 DEF Spawn_root, CpuInv
  <2>7. FlagInv'
    BY <1>0, <1>3, <2>1 DEF Spawn_root, Goto, FlagInv
  <2> QED BY <2>3, <2>4, <2>5, <2>6, <2>7 DEF KernelInv
<1>4. CASE Spawn
  <2> DEFINE e == [id |-> next_pid, state |-> "Ready",
                   rsp |-> [stk |-> next_pid, depth |-> 1], rip |-> "null"]
  <2>1. /\ pc[0] = "spawn" /\ next_pid \in Pids /\ next_pid' = next_pid + 1
        /\ processes' = Append(processes, e)
        /\ stack' = [stack EXCEPT ![next_pid] = <<ForgedFrame>>]
        /\ UNCHANGED <<some, current_index, pc, wpc, saved_if, cpu, ifl, hpc,
                       rax, regs, irr, isr, sched_lock, writer_lock>>
        /\ Len(processes) = next_pid /\ next_pid >= 1
    BY <1>0, <1>4 DEF Spawn, At, BootInv, Booting, TypeOK
  <2>2. /\ Len(processes') = next_pid + 1
        /\ DOMAIN processes = 1 .. next_pid /\ DOMAIN processes' = 1 .. next_pid + 1
        /\ \A i \in 1 .. next_pid : processes'[i] = processes[i]
        /\ processes'[next_pid + 1] = e
    BY <2>1 DEF TypeOK
  <2>3. e.id = next_pid /\ e.state = "Ready" /\ e.rsp = [stk |-> next_pid, depth |-> 1]
    OBVIOUS
  <2> HIDE DEF e
  <2>4. BootInv'
    BY <1>0, <2>1, <2>2 DEF BootInv, Booting, Live
  <2>5. StackInv'
    <3>1. \A q \in Pids : RegsOf(q)' = RegsOf(q) /\ FrameOf(q)' = FrameOf(q)
      BY <2>1 DEF RegsOf, FrameOf
    <3>2. pc[next_pid] = "entry" /\ ~Live(next_pid)
      BY <1>0, <2>1 DEF BootInv, Live
    <3>3. FrameOf(next_pid) = ForgedFrame
      BY <3>2 DEF FrameOf, RegsOf, ForgedFrame, Saved, Regs
    <3>4. \A q \in Pids : q # next_pid => (Live(q)' <=> Live(q))
      BY <2>1, <2>2 DEF Live
    <3>5. \A q \in Pids : q = next_pid => Live(q)'
      BY <2>1, <2>2 DEF Live
    <3>6. ASSUME NEW q \in Pids
          PROVE  stack'[q] = IF Live(q)' /\ ~(hpc' = "user" /\ q = cpu')
                               THEN <<FrameOf(q)'>> ELSE << >>
      <4>1. CASE q = next_pid
        BY <1>0, <2>1, <3>1, <3>3, <3>5, <4>1 DEF TypeOK
      <4>2. CASE q # next_pid
        BY <1>0, <2>1, <3>1, <3>4, <4>2 DEF TypeOK, StackInv
      <4> QED BY <4>1, <4>2
    <3>7. hpc' = "user" => regs' = RegsOf(cpu)'
      BY <1>0, <2>1, <3>1 DEF StackInv
    <3> QED BY <3>6, <3>7 DEF StackInv
  <2>6. ListInv'
    <3>1. ASSUME NEW i \in 1 .. next_pid
          PROVE  /\ processes'[i].id = i - 1
                 /\ processes'[i].state =
                      IF i = current_index' + 1 THEN "Running" ELSE "Ready"
                 /\ i # current_index' + 1 =>
                      processes'[i].rsp = [stk |-> i - 1, depth |-> 1]
      BY <1>0, <2>1, <2>2 DEF ListInv
    <3>2. (next_pid + 1) - 1 = next_pid /\ next_pid + 1 # current_index' + 1
      BY <1>0, <2>1
    <3>3. DOMAIN processes' = (1 .. next_pid) \cup {next_pid + 1}
      BY <2>1, <2>2
    <3> QED BY <2>2, <2>3, <3>1, <3>2, <3>3 DEF ListInv
  <2>7. CpuInv'
    BY <1>0, <2>1 DEF CpuInv
  <2>8. FlagInv'
    BY <1>0, <2>1 DEF FlagInv
  <2> QED BY <2>4, <2>5, <2>6, <2>7, <2>8 DEF KernelInv
<1>5. CASE Unlock_scheduler
  <2>1. /\ pc[0] = "spawn" /\ pc' = [pc EXCEPT ![0] = "started"] /\ sched_lock' = FALSE
        /\ UNCHANGED <<some, processes, current_index, next_pid>>
    BY <1>0, <1>5 DEF Unlock_scheduler, At, Goto
  <2>2. BootInv'
    BY <1>0, <2>1 DEF BootInv, Booting, Live
  <2>3. StackInv'
    BY <1>0, <1>5, <2>1, StackUnchanged DEF Unlock_scheduler
  <2>4. ListInv'
    BY <1>0, <2>1 DEF ListInv
  <2>5. CpuInv'
    BY <1>0, <1>5 DEF Unlock_scheduler, CpuInv
  <2>6. FlagInv'
    BY <1>0, <1>5, <2>1 DEF Unlock_scheduler, Goto, FlagInv
  <2> QED BY <2>2, <2>3, <2>4, <2>5, <2>6 DEF KernelInv
<1> QED BY <1>1, <1>2, <1>3, <1>4, <1>5 DEF Boot

\* The steps of the processes themselves.
LEMMA CodeStep ==
  ASSUME TypeOK, KernelInv, NEW p \in Pids, Code(p)
  PROVE  KernelInv'
<1> USE ConstantFacts DEF schedVars, threadVars, cpuVars, picVars, lockVars
<1>0. /\ hpc = "user" /\ cpu = p /\ cpu = current_index /\ Live(p)
      /\ BootInv /\ StackInv /\ ListInv /\ CpuInv /\ FlagInv
      /\ pc \in [Pids -> PcValues] /\ wpc \in [Pids -> {"out", "cli", "held"}]
      /\ saved_if \in [Pids -> BOOLEAN] /\ ifl \in BOOLEAN
      /\ Len(processes) \in Nat
  <2>1. hpc = "user" /\ cpu = p
    BY DEF Code, Print_disable, Print_ifl, Print_lock, Print_unlock, Entry, Loop_disable,
       Loop_enable, Loop_flag, At
  <2>2. Live(cpu) /\ cpu = current_index
    BY <2>1, CurrentIsLive DEF KernelInv, CpuInv
  <2> QED BY <2>1, <2>2 DEF KernelInv, TypeOK
<1>1. UNCHANGED <<some, processes, current_index, next_pid, cpu, hpc, rax, stack,
                  irr, isr, sched_lock>>
  BY DEF Code, Print_disable, Print_ifl, Print_lock, Print_unlock, Entry, Loop_disable, Loop_enable, Loop_flag
<1>2. ListInv' /\ CpuInv'
  BY <1>0, <1>1 DEF ListInv, CpuInv
<1>3. CASE Print_disable(p)
  <2>1. BootInv'
    BY <1>0, <1>1, <1>3 DEF Print_disable, Print_ifl, BootInv, Live
  <2>2. StackInv'
    BY <1>0, <1>1, <1>3, StackUnchanged DEF Print_disable, Print_ifl
  <2>3. FlagInv'
    BY <1>0, <1>1, <1>3 DEF Print_disable, Print_ifl, FlagInv
  <2> QED BY <1>2, <2>1, <2>2, <2>3 DEF KernelInv
<1>4. CASE Print_lock(p)
  <2>1. BootInv'
    BY <1>0, <1>1, <1>4 DEF Print_lock, BootInv, Live
  <2>2. StackInv'
    BY <1>0, <1>1, <1>4, StackUnchanged DEF Print_lock
  <2>3. FlagInv'
    BY <1>0, <1>1, <1>4 DEF Print_lock, FlagInv
  <2> QED BY <1>2, <2>1, <2>2, <2>3 DEF KernelInv
<1>5. CASE Print_unlock(p)
  <2>1. /\ pc[p] \in PrintPoints /\ (pc[p] = "print" => ~saved_if[p])
        /\ wpc[p] = "held" /\ writer_lock = p /\ writer_lock' = Free
        /\ pc' = [pc EXCEPT ![p] = AfterPrint[pc[p]]]
        /\ wpc' = [wpc EXCEPT ![p] = "out"]
        /\ UNCHANGED <<saved_if, regs>> /\ ifl' = saved_if[p]
    BY <1>0, <1>5 DEF Print_unlock, FlagInv
  <2>2. /\ AfterPrint[pc[p]] \in {"init", "hlt", "printed"}
        /\ AfterPrint[pc[p]] = "printed" => pc[p] = "print"
        /\ AfterPrint[pc[p]] = "init" => pc[p] = "start"
        /\ AfterPrint[pc[p]] = "hlt" => pc[p] = "started"
    BY <2>1 DEF AfterPrint, PrintPoints
  <2>3. BootInv'
    BY <1>0, <1>1, <2>1, <2>2 DEF BootInv, Booting, Live, PrintPoints
  <2>4. StackInv'
    BY <1>0, <1>1, <2>1, <2>2, StackUnchanged DEF PrintPoints
  <2>5. FlagInv'
    <3>1. \A q \in Pids \ {p} : wpc[q] = "out" /\ pc[q] \notin {"print", "printed"}
      BY <1>0 DEF FlagInv
    <3>2. \A q \in Pids : wpc'[q] = "out"
      BY <1>0, <2>1, <3>1
    <3>3. \A q \in Pids : pc'[q] \in {"print", "printed"} => q = p /\ ~ifl'
      BY <1>0, <2>1, <2>2, <3>1
    <3> QED BY <1>0, <1>1, <2>1, <3>2, <3>3 DEF FlagInv
  <2> QED BY <1>2, <2>3, <2>4, <2>5 DEF KernelInv
<1>6. CASE Entry(p)
  <2>1. /\ pc[p] = "entry" /\ wpc[p] = "out" /\ pc' = [pc EXCEPT ![p] = "spin"]
        /\ regs' = Own(p) /\ UNCHANGED <<wpc, saved_if, ifl, writer_lock>>
    BY <1>6 DEF Entry, At, Goto
  <2>2. p # 0
    BY <1>0, <2>1 DEF BootInv, Booting
  <2>3. BootInv'
    <3>1. pc'[0] = pc[0] /\ \A q \in Pids : pc'[q] = "entry" \/ Live(q)
      BY <1>0, <2>1, <2>2 DEF BootInv
    <3> QED BY <1>0, <1>1, <3>1 DEF BootInv, Live
  <2>4. StackInv'
    <3>1. \A q \in Pids : Live(q)' <=> Live(q)
      BY <1>1 DEF Live
    <3>2. \A q \in Pids \ {p} : FrameOf(q)' = FrameOf(q)
      BY <1>0, <2>1 DEF FrameOf, RegsOf
    <3>3. \A q \in Pids :
            stack'[q] = IF Live(q)' /\ ~(hpc' = "user" /\ q = cpu')
                          THEN <<FrameOf(q)'>> ELSE << >>
      BY <1>0, <1>1, <3>1, <3>2 DEF StackInv
    <3>4. regs' = RegsOf(cpu)'
      BY <1>0, <1>1, <2>1 DEF RegsOf
    <3> QED BY <3>3, <3>4 DEF StackInv
  <2>5. FlagInv'
    BY <1>0, <1>1, <2>1 DEF FlagInv
  <2> QED BY <1>2, <2>3, <2>4, <2>5 DEF KernelInv
<1>7. CASE Loop_disable(p) \/ Loop_enable(p)
  <2>1. /\ \/ pc[p] = "spin" /\ pc' = [pc EXCEPT ![p] = "print"] /\ ifl' = FALSE
           \/ pc[p] = "printed" /\ pc' = [pc EXCEPT ![p] = "spin"]
        /\ wpc[p] = "out"
        /\ UNCHANGED <<wpc, saved_if, regs, writer_lock>>
    BY <1>7 DEF Loop_disable, Loop_enable, Loop_flag, At, Goto
  <2>2. p # 0
    BY <1>0, <2>1 DEF BootInv, Booting
  <2>3. BootInv'
    BY <1>0, <1>1, <1>7, <2>1, <2>2 DEF BootInv, Live, Loop_disable, Loop_enable, Loop_flag
  <2>4. StackInv'
    BY <1>0, <1>1, <2>1, StackUnchanged
  <2>5. FlagInv'
    <3>1. \A q \in Pids \ {p} : wpc[q] = "out" /\ pc[q] \notin {"print", "printed"}
      BY <1>0 DEF FlagInv
    <3>2. \A q \in Pids : wpc'[q] = "out"
      BY <1>0, <2>1, <3>1
    <3>3. \A q \in Pids : pc'[q] \in {"print", "printed"} => q = p /\ ~ifl'
      BY <1>0, <2>1, <3>1
    <3> QED BY <1>0, <1>1, <2>1, <3>2, <3>3 DEF FlagInv
  <2> QED BY <1>2, <2>3, <2>4, <2>5 DEF KernelInv
<1> QED BY <1>3, <1>4, <1>5, <1>6, <1>7 DEF Code

\* A device's request and the CPU's acceptance of it.
LEMMA InterruptStep ==
  ASSUME TypeOK, KernelInv, NEW l \in Lines, Raise(l) \/ Interrupt(l)
  PROVE  KernelInv'
<1> USE ConstantFacts DEF schedVars, threadVars, cpuVars, picVars, lockVars
<1>0. /\ BootInv /\ StackInv /\ ListInv /\ CpuInv /\ FlagInv
      /\ cpu \in Pids /\ stack \in [Pids -> Seq(Frames)]
  BY DEF KernelInv, TypeOK
<1>1. CASE Raise(l)
  <2>1. BootInv' /\ ListInv' /\ CpuInv'
    BY <1>0, <1>1 DEF Raise, BootInv, Live, ListInv, CpuInv
  <2>2. StackInv'
    BY <1>0, <1>1, StackUnchanged DEF Raise
  <2>3. FlagInv'
    BY <1>0, <1>1 DEF Raise, FlagInv
  <2> QED BY <2>1, <2>2, <2>3 DEF KernelInv
<1>2. CASE Interrupt(l)
  <2>0. hpc = "user" /\ ifl /\ hpc' = l /\ hpc' # "user" /\ hpc' # "resume" /\ hpc' # "wild"
    BY <1>2 DEF Interrupt
  <2>1. BootInv' /\ ListInv' /\ CpuInv'
    BY <1>0, <1>2, <2>0 DEF Interrupt, BootInv, Live, ListInv, CpuInv
  <2>2. StackInv'
    <3>1. \A q \in Pids : (Live(q)' <=> Live(q)) /\ FrameOf(q)' = FrameOf(q)
      BY <1>2 DEF Interrupt, Live, FrameOf, RegsOf
    <3>2. [kind |-> "iret", ifl |-> ifl, slots |-> Saved(regs)] = FrameOf(cpu)
      <4>1. ifl = TRUE
        BY <2>0 DEF TypeOK
      <4> QED BY <1>0, <2>0, <4>1 DEF StackInv, FrameOf
    <3>3. stack[cpu] = << >> /\ Live(cpu)
      BY <1>0, <2>0, CurrentIsLive DEF StackInv
    <3>4. stack' = [stack EXCEPT ![cpu] = <<FrameOf(cpu)>>]
      <4>1. Append(stack[cpu], FrameOf(cpu)) = <<FrameOf(cpu)>>
        BY <3>3
      <4>2. stack' = [stack EXCEPT ![cpu] = Append(stack[cpu], FrameOf(cpu))]
        BY <1>2, <3>2 DEF Interrupt
      <4> QED BY <4>1, <4>2
    <3> QED BY <1>0, <2>0, <3>1, <3>3, <3>4 DEF StackInv
  <2>3. FlagInv'
    <3>1. \A q \in Pids : wpc[q] = "out" /\ pc[q] \notin {"print", "printed"}
      BY <1>0, <2>0 DEF FlagInv
    <3>2. isr' = {l}
      BY <1>0, <1>2, <2>0 DEF FlagInv, Interrupt
    <3> QED BY <1>0, <1>2, <2>0, <3>1, <3>2 DEF FlagInv, Interrupt
  <2> QED BY <2>1, <2>2, <2>3 DEF KernelInv
<1> QED BY <1>1, <1>2

\* The handlers: acknowledgement, rotation and return.
LEMMA HandlerStep ==
  ASSUME TypeOK, KernelInv, Handler
  PROVE  KernelInv'
<1> USE ConstantFacts DEF schedVars, threadVars, cpuVars, picVars, lockVars
<1>0. /\ BootInv /\ StackInv /\ ListInv /\ CpuInv /\ FlagInv
      /\ cpu \in Pids /\ stack \in [Pids -> Seq(Frames)] /\ hpc # "user"
      /\ current_index \in Pids /\ Live(current_index)
      /\ Len(processes) \in Nat /\ DOMAIN processes = 1 .. Len(processes)
  BY CurrentIsLive DEF KernelInv, TypeOK, Handler, Signal_eoi, Timer_ended,
     Handle_keyboard_io_and_eoi, Preempt_round_robin, Resume
<1>1. \A q \in Pids : wpc[q] = "out" /\ pc[q] \notin {"print", "printed"}
  BY <1>0 DEF FlagInv
<1>2. CASE Signal_eoi \/ Handle_keyboard_io_and_eoi
  <2>1. /\ hpc \in Lines /\ hpc' = "preempt" /\ isr' = Eoi(isr)
        /\ UNCHANGED <<some, processes, current_index, next_pid, pc, wpc, saved_if,
                       cpu, ifl, rax, stack, irr, sched_lock, writer_lock>>
    BY <1>2 DEF Signal_eoi, Timer_ended, Handle_keyboard_io_and_eoi
  <2>2. isr' = {}
    BY <1>0, <2>1 DEF FlagInv, Eoi
  <2>3. BootInv' /\ ListInv' /\ CpuInv'
    BY <1>0, <2>1 DEF BootInv, Live, ListInv, CpuInv
  <2>4. StackInv'
    <3>1. \A q \in Pids : (Live(q)' <=> Live(q)) /\ FrameOf(q)' = FrameOf(q)
      BY <2>1 DEF Live, FrameOf, RegsOf
    <3> QED BY <1>0, <2>1, <3>1 DEF StackInv
  <2>5. FlagInv'
    BY <1>0, <1>1, <2>1, <2>2 DEF FlagInv
  <2> QED BY <2>3, <2>4, <2>5 DEF KernelInv
<1>3. CASE Preempt_round_robin
  <2> DEFINE q == [stk |-> cpu, depth |-> Len(stack[cpu])]
  <2>1. /\ hpc = "preempt" /\ hpc' = "resume" /\ cpu = current_index
        /\ UNCHANGED <<some, next_pid, pc, wpc, saved_if, cpu, ifl, regs, stack,
                       irr, isr, sched_lock, writer_lock>>
    BY <1>0, <1>3 DEF Preempt_round_robin, CpuInv
  <2>2. Len(stack[cpu]) = 1
    BY <1>0, <2>1 DEF StackInv
  <2>3. q = [stk |-> current_index, depth |-> 1] /\ q \in Pointers
    BY <1>0, <2>1, <2>2 DEF Pointers
  <2> HIDE DEF q
  <2>4. FlagInv'
    BY <1>0, <1>1, <2>1 DEF FlagInv
  <2>5. CASE Try_lock /\ some /\ Len(processes) >= 2
    <3>1. /\ processes' = Rotate(q) /\ current_index' = Next_index
          /\ rax' = Rotate(q)[Next_index + 1].rsp
      BY <1>3, <2>5 DEF Preempt_round_robin, q
    <3>2. current_index < Len(processes) /\ ~sched_lock
      BY <1>0, <2>5 DEF BootInv, Try_lock
    <3>3. /\ Len(processes') = Len(processes) /\ DOMAIN processes' = DOMAIN processes
          /\ Next_index \in 0 .. Len(processes) - 1 /\ Next_index # current_index
          /\ Next_index + 1 \in 1 .. Len(processes)
          /\ \A i \in 1 .. Len(processes) :
               /\ processes'[i].id = processes[i].id
               /\ processes'[i].rsp =
                    IF i = current_index + 1 THEN q ELSE processes[i].rsp
               /\ processes'[i].state =
                    IF i = current_index + 1 THEN "Ready"
                    ELSE IF i = Next_index + 1 THEN "Running" ELSE processes[i].state
      BY <1>0, <2>3, <2>5, <3>1, <3>2, RotateEffect
    <3>4. BootInv'
      <4>1. pc[0] \notin Booting \cup {"spawn"}
        BY <1>0, <2>5, <3>2 DEF BootInv, Booting
      <4> QED BY <1>0, <2>1, <3>1, <3>3, <4>1 DEF BootInv, Live
    <3>5. ListInv'
      <4> SUFFICES ASSUME NEW i \in 1 .. Len(processes)
                   PROVE  /\ processes'[i].id = i - 1
                          /\ processes'[i].state =
                               IF i = current_index' + 1 THEN "Running" ELSE "Ready"
                          /\ i # current_index' + 1 =>
                               processes'[i].rsp = [stk |-> i - 1, depth |-> 1]
        BY <1>0, <3>3 DEF ListInv
      <4>1. CASE i = current_index + 1
        <5>1. i - 1 = current_index /\ i # Next_index + 1
          BY <1>0, <3>3, <4>1
        <5>2. processes[i].id = i - 1
          BY <1>0 DEF ListInv
        <5> QED BY <2>3, <3>1, <3>3, <4>1, <5>1, <5>2
      <4>2. CASE i # current_index + 1
        BY <1>0, <3>1, <3>3, <4>2 DEF ListInv
      <4> QED BY <4>1, <4>2
    <3>6. CpuInv'
      <4>1. rax' = [stk |-> Next_index, depth |-> 1]
        <5>1. /\ Next_index + 1 # current_index + 1 /\ (Next_index + 1) - 1 = Next_index
              /\ Next_index + 1 \in DOMAIN processes
          BY <1>0, <3>3
        <5>2. rax' = processes[Next_index + 1].rsp
          BY <3>1, <3>3, <5>1
        <5> QED BY <1>0, <5>1, <5>2 DEF ListInv
      <4>2. current_index' = (cpu' + 1) % Len(processes')
        BY <2>1, <3>1, <3>3 DEF Next_index
      <4> QED BY <2>1, <2>5, <3>1, <3>2, <3>3, <4>1, <4>2 DEF CpuInv
    <3>7. StackInv'
      <4>1. \A x \in Pids : (Live(x)' <=> Live(x)) /\ FrameOf(x)' = FrameOf(x)
        BY <2>1, <3>3 DEF Live, FrameOf, RegsOf
      <4> QED BY <1>0, <2>1, <4>1 DEF StackInv
    <3> QED BY <2>4, <3>4, <3>5, <3>6, <3>7 DEF KernelInv
  <2>6. CASE ~(Try_lock /\ some /\ Len(processes) >= 2)
    <3>1. rax' = q /\ UNCHANGED <<processes, current_index>>
      BY <1>3, <2>6 DEF Preempt_round_robin, q
    <3>2. BootInv' /\ ListInv' /\ CpuInv'
      BY <1>0, <2>1, <2>3, <3>1 DEF BootInv, Live, ListInv, CpuInv
    <3>3. StackInv'
      <4>1. \A x \in Pids : (Live(x)' <=> Live(x)) /\ FrameOf(x)' = FrameOf(x)
        BY <2>1, <3>1 DEF Live, FrameOf, RegsOf
      <4> QED BY <1>0, <2>1, <4>1 DEF StackInv
    <3> QED BY <2>4, <3>2, <3>3 DEF KernelInv
  <2> QED BY <2>5, <2>6
<1>4. CASE Resume
  <2>1. /\ hpc = "resume"
        /\ UNCHANGED <<some, processes, current_index, next_pid, pc, wpc, saved_if,
                       rax, irr, isr, sched_lock, writer_lock>>
    BY <1>4 DEF Resume
  <2>2. /\ rax.stk = current_index /\ rax.depth = 1
        /\ stack[current_index] = <<FrameOf(current_index)>>
    BY <1>0, <2>1 DEF CpuInv, StackInv
  <2>3. stack[current_index][1] = FrameOf(current_index)
    BY <2>2
  <2>4. Resumable(rax)
    BY <1>0, <2>2, <2>3 DEF Resumable, FrameOf
  <2>5. /\ hpc' = "user" /\ cpu' = current_index
        /\ regs' = Restored(Saved(RegsOf(current_index))) /\ ifl' = TRUE
        /\ stack' = [stack EXCEPT ![current_index] =
                       SubSeq(stack[current_index], 1, 0)]
    BY <1>4, <2>2, <2>3, <2>4 DEF Resume, FrameOf
  <2>6. regs' = RegsOf(current_index)
    <3>1. RegsOf(current_index) \in [Regs -> Values]
      BY <1>0, RegisterTypes DEF RegsOf
    <3> QED BY <2>5, <3>1, RestoreSaved
  <2>7. SubSeq(stack[current_index], 1, 0) = << >>
    BY <2>2
  <2>8. BootInv' /\ ListInv' /\ CpuInv'
    BY <1>0, <2>1, <2>5 DEF BootInv, Live, ListInv, CpuInv
  <2>9. StackInv'
    <3>1. \A x \in Pids : /\ Live(x)' <=> Live(x)
                          /\ FrameOf(x)' = FrameOf(x) /\ RegsOf(x)' = RegsOf(x)
      BY <2>1 DEF Live, FrameOf, RegsOf
    <3>2. regs' = RegsOf(cpu)'
      BY <2>1, <2>5, <2>6 DEF RegsOf
    <3> QED BY <1>0, <2>1, <2>5, <2>7, <3>1, <3>2 DEF StackInv
  <2>10. FlagInv'
    BY <1>0, <1>1, <2>1, <2>5 DEF FlagInv
  <2> QED BY <2>8, <2>9, <2>10 DEF KernelInv
<1> QED BY <1>2, <1>3, <1>4 DEF Handler

\* Every step of the kernel preserves the inductive invariant.
LEMMA InvStep ==
  ASSUME TypeOK, KernelInv, [Next]_vars
  PROVE  KernelInv'
<1>1. CASE UNCHANGED vars
  BY <1>1 DEF vars, schedVars, threadVars, cpuVars, picVars, lockVars, KernelInv,
     BootInv, StackInv, ListInv, CpuInv, FlagInv, Live, FrameOf, RegsOf
<1> QED BY <1>1, BootStep, CodeStep, InterruptStep, HandlerStep DEF Next

-----------------------------------------------------------------------------
(***************************************************************************)
(* The theorems.                                                           *)
(***************************************************************************)

\* Whatever the number of workloads, the variables keep their types and the
\* inductive invariant holds: kernel_main, the processes, the handlers and
\* the devices preserve it step by step.
THEOREM KernelIsInvariant == Spec => [](TypeOK /\ KernelInv)
<1>1. Init => TypeOK /\ KernelInv
  BY InitType, InitInv
<1>2. TypeOK /\ KernelInv /\ [Next]_vars => (TypeOK /\ KernelInv)'
  BY TypeStep, InvStep
<1> QED BY <1>1, <1>2, PTL DEF Spec

\* Every variable stays within the values the code gives it.
THEOREM TypeCorrect == Spec => []TypeOK
BY KernelIsInvariant, PTL

\* The handlers' iretq always runs on an interrupt frame.
THEOREM NeverWild == Spec => []NoWildResume
<1>1. KernelInv => NoWildResume
  BY DEF KernelInv, CpuInv, NoWildResume
<1> QED BY <1>1, KernelIsInvariant, PTL

\* The scheduler's list describes what the CPU and the stacks really hold
\* whenever ordinary code runs.
THEOREM ScheduleIsExact == Spec => []ScheduleMatchesCpu
<1>1. TypeOK /\ KernelInv => ScheduleMatchesCpu
  <2> SUFFICES ASSUME TypeOK, KernelInv, hpc = "user", processes # << >>
               PROVE  /\ processes[current_index + 1].id = cpu
                      /\ \A i \in DOMAIN processes :
                           IF i = current_index + 1
                             THEN processes[i].state = "Running"
                             ELSE /\ processes[i].state = "Ready"
                                  /\ processes[i].rsp.stk = processes[i].id
                                  /\ Resumable(processes[i].rsp)
    BY DEF ScheduleMatchesCpu
  <2>1. /\ Len(processes) \in Nat /\ Len(processes) > 0 /\ Len(processes) <= NumWorkloads + 1
        /\ DOMAIN processes = 1 .. Len(processes)
        /\ current_index + 1 \in 1 .. Len(processes) /\ current_index \in Nat
        /\ cpu = current_index
    BY NumWorkloadsAssumption DEF TypeOK, KernelInv, BootInv, CpuInv
  <2>2. processes[current_index + 1].id = cpu
    <3>1. processes[current_index + 1].id = (current_index + 1) - 1
      BY <2>1 DEF KernelInv, ListInv
    <3> QED BY <2>1, <3>1
  <2>3. ASSUME NEW i \in DOMAIN processes
        PROVE  IF i = current_index + 1
                 THEN processes[i].state = "Running"
                 ELSE /\ processes[i].state = "Ready"
                      /\ processes[i].rsp.stk = processes[i].id
                      /\ Resumable(processes[i].rsp)
    <3>1. CASE i = current_index + 1
      BY <3>1 DEF KernelInv, ListInv
    <3>2. CASE i # current_index + 1
      <4>1. /\ processes[i].state = "Ready" /\ processes[i].id = i - 1
            /\ processes[i].rsp.stk = i - 1 /\ processes[i].rsp.depth = 1
        <5>1. processes[i].rsp = [stk |-> i - 1, depth |-> 1]
          BY <3>2 DEF KernelInv, ListInv
        <5> QED BY <3>2, <5>1 DEF KernelInv, ListInv
      <4>2. i - 1 \in Pids /\ Live(i - 1) /\ i - 1 # cpu
        BY <2>1, <3>2, NumWorkloadsAssumption DEF Pids, Live
      <4>3. stack[i - 1] = <<FrameOf(i - 1)>>
        BY <4>2 DEF KernelInv, StackInv
      <4>4. Len(stack[i - 1]) = 1 /\ stack[i - 1][1].kind = "iret"
        BY <4>3 DEF FrameOf
      <4> QED BY <3>2, <4>1, <4>2, <4>4 DEF Resumable
    <3> QED BY <3>1, <3>2
  <2> QED BY <2>2, <2>3
<1> QED BY <1>1, KernelIsInvariant, PTL

\* No interrupt ever changes a register of the code it interrupts.
THEOREM RegistersAreSaved == Spec => []RegistersSurvive
<1>1. KernelInv => RegistersSurvive
  BY DEF KernelInv, StackInv, RegsOf, RegistersSurvive
<1> QED BY <1>1, KernelIsInvariant, PTL

\* No handler ever waits for the WRITER mutex.
THEOREM HandlersDoNotSpin == Spec => []HandlerNeverSpins
<1>1. TypeOK /\ KernelInv => HandlerNeverSpins
  BY DEF TypeOK, KernelInv, FlagInv, HandlerNeverSpins, Lines
<1> QED BY <1>1, KernelIsInvariant, PTL

\* kernel_main keeps the CPU as long as its guard keeps SCHEDULER locked.
THEOREM LockHolderKeepsCpu == Spec => []LockHolderStaysOnCpu
<1>1. TypeOK /\ KernelInv => LockHolderStaysOnCpu
  BY DEF TypeOK, KernelInv, BootInv, CpuInv, LockHolderStaysOnCpu, Booting
<1> QED BY <1>1, KernelIsInvariant, PTL

\* Both lines are acknowledged before ordinary code resumes.
THEOREM LinesAreAcknowledged == Spec => []AcknowledgedBeforeResume
<1>1. KernelInv => AcknowledgedBeforeResume
  BY DEF KernelInv, FlagInv, AcknowledgedBeforeResume, Lines
<1> QED BY <1>1, KernelIsInvariant, PTL

-----------------------------------------------------------------------------
(***************************************************************************)
(* The kernel implements round-robin scheduling.                           *)
(***************************************************************************)

\* The pids in the list are the positions in it.
LEMMA OrderIs ==
  ASSUME TypeOK, KernelInv
  PROVE  /\ Len(processes) \in Nat /\ DOMAIN Order = 1 .. Len(processes)
         /\ Len(Order) = Len(processes) /\ Order \in Seq(Nat)
         /\ \A i \in 1 .. Len(processes) : Order[i] = i - 1
<1>1. Len(processes) \in Nat /\ DOMAIN processes = 1 .. Len(processes)
  BY DEF TypeOK
<1>2. ASSUME NEW i \in 1 .. Len(processes)
      PROVE  Order[i] = i - 1 /\ i - 1 \in Nat
  <2>1. processes[i].id = i - 1
    BY <1>1 DEF KernelInv, ListInv
  <2>2. Order[i] = processes[i].id
    BY <1>1 DEF Order
  <2> QED BY <1>1, <2>1, <2>2
<1>3. Order \in [1 .. Len(processes) -> Nat]
  <2>1. Order = [i \in 1 .. Len(processes) |-> Order[i]]
    BY <1>1 DEF Order
  <2> QED BY <1>2, <2>1
<1> QED BY <1>1, <1>2, <1>3

\* A step of the kernel is a step of round-robin scheduling or changes neither
\* the order of the processes nor the process the CPU is on.
LEMMA RefinementStep ==
  ASSUME TypeOK, KernelInv, TypeOK', KernelInv', [Next]_vars
  PROVE  [RR!Next]_<<Order, cpu>>
<1> USE DEF schedVars, threadVars, cpuVars, picVars, lockVars
<1>0. /\ Len(processes) \in Nat /\ DOMAIN Order = 1 .. Len(processes)
      /\ Len(Order) = Len(processes) /\ Order \in Seq(Nat)
      /\ \A i \in 1 .. Len(processes) : Order[i] = i - 1
  BY OrderIs
<1>1. CASE UNCHANGED <<processes, cpu>>
  BY <1>1 DEF Order
<1>2. CASE Scheduler_init
  <2>1. processes = << >> /\ processes' = << >> /\ cpu' = cpu
    BY <1>2 DEF Scheduler_init, At, KernelInv, BootInv, Booting, TypeOK
  <2> QED BY <2>1 DEF Order
<1>3. CASE Spawn_root \/ Spawn
  <2> DEFINE x == Len(processes)
  <2>1. /\ cpu' = cpu /\ cpu = 0 /\ x \in Pids
        /\ Len(processes') = x + 1
    <3>1. CASE Spawn_root
      BY <3>1, <1>0, ConstantFacts DEF Spawn_root, At, KernelInv, BootInv, Booting, TypeOK
    <3>2. CASE Spawn
      BY <3>2, <1>0 DEF Spawn, At, KernelInv, BootInv, Booting, TypeOK
    <3> QED BY <1>3, <3>1, <3>2
  <2>2. /\ DOMAIN Order' = 1 .. x + 1
        /\ \A i \in 1 .. x + 1 : Order'[i] = i - 1
    <3>1. /\ DOMAIN processes' = 1 .. x + 1
          /\ \A i \in 1 .. x + 1 : processes'[i].id = i - 1
      <4>1. DOMAIN processes' = 1 .. x + 1
        BY <2>1 DEF TypeOK
      <4>2. \A i \in DOMAIN processes' : processes'[i].id = i - 1
        BY DEF KernelInv, ListInv
      <4> QED BY <4>1, <4>2
    <3> QED BY <3>1 DEF Order
  <2>3. Order' = Append(Order, x)
    <3>1. /\ DOMAIN Append(Order, x) = 1 .. x + 1
          /\ \A i \in 1 .. x + 1 : Append(Order, x)[i] = i - 1
      BY <1>0
    <3>2. Order' = [i \in 1 .. x + 1 |-> Order'[i]]
      BY <2>2 DEF Order
    <3>3. Append(Order, x) = [i \in 1 .. x + 1 |-> Append(Order, x)[i]]
      <4> DEFINE y == Append(Order, x)
      <4>1. y \in Seq(Nat) /\ Len(y) = x + 1
        BY <1>0
      <4> HIDE DEF y
      <4>2. y \in [1 .. x + 1 -> Nat]
        BY <1>0, <4>1
      <4>3. y = [i \in 1 .. x + 1 |-> y[i]]
        BY <4>2
      <4> QED BY <4>3 DEF y
    <3> QED BY <2>2, <3>1, <3>2, <3>3
  <2>4. \A i \in DOMAIN Order : Order[i] # x
    BY <1>0
  <2>5. Order = << >> => x = cpu
    BY <1>0, <2>1
  <2> HIDE DEF x
  <2>6. RR!Admit
    BY <2>1, <2>3, <2>4, <2>5 DEF RR!Admit
  <2> QED BY <2>6 DEF RR!Next
<1>4. CASE Preempt_round_robin
  <2>1. /\ DOMAIN processes' = DOMAIN processes /\ cpu' = cpu
    BY <1>4 DEF Preempt_round_robin, Rotate
  <2>2. \A i \in DOMAIN processes : processes'[i].id = processes[i].id
    BY <2>1 DEF KernelInv, ListInv
  <2> QED BY <2>1, <2>2 DEF Order
<1>5. CASE Resume /\ cpu' # cpu
  <2> DEFINE n == Len(processes)
  <2>1. /\ processes' = processes /\ hpc = "resume" /\ cpu' = rax.stk /\ cpu \in Nat
    BY <1>5, ConstantFacts DEF Resume, TypeOK
  <2>2. /\ cpu' = current_index /\ n >= 2 /\ cpu < n
        /\ current_index = (cpu + 1) % n
    BY <1>5, <2>1 DEF KernelInv, CpuInv
  <2>3. cpu + 1 \in DOMAIN Order /\ Order[cpu + 1] = cpu
    BY <1>0, <2>1, <2>2
  <2>4. ((cpu + 1) % n) + 1 \in 1 .. n
    BY <1>0, <2>1, <2>2, NextIndex
  <2>5. Order[((cpu + 1) % Len(Order)) + 1] = (cpu + 1) % n
    BY <1>0, <2>1, <2>2, <2>4
  <2>6. Order' = Order
    BY <2>1 DEF Order
  <2>7. RR!Switch
    BY <2>2, <2>3, <2>5, <2>6 DEF RR!Switch
  <2> QED BY <2>7 DEF RR!Next
<1>6. UNCHANGED <<processes, cpu>> \/ Scheduler_init \/ Spawn_root \/ Spawn
      \/ Preempt_round_robin \/ (Resume /\ cpu' # cpu)
  <2>1. CASE Boot
    BY <2>1 DEF Boot, Lock_scheduler, Unlock_scheduler
  <2>2. ASSUME NEW p \in Pids, Code(p) PROVE UNCHANGED <<processes, cpu>>
    BY <2>2 DEF Code, Print_disable, Print_ifl, Print_lock, Print_unlock, Entry, Loop_disable,
       Loop_enable, Loop_flag
  <2>3. ASSUME NEW l \in Lines, Raise(l) \/ Interrupt(l)
        PROVE  UNCHANGED <<processes, cpu>>
    BY <2>3 DEF Raise, Interrupt
  <2>4. CASE Handler
    BY <2>4 DEF Handler, Signal_eoi, Timer_ended, Handle_keyboard_io_and_eoi, Resume
  <2>5. CASE UNCHANGED vars
    BY <2>5 DEF vars
  <2> QED BY <2>1, <2>2, <2>3, <2>4, <2>5 DEF Next
<1> QED BY <1>1, <1>2, <1>3, <1>4, <1>5, <1>6

\* Every behaviour of the kernel is one of round-robin scheduling: whatever
\* the interrupts do, the CPU only ever moves to the next process of the list.
THEOREM KernelImplementsRoundRobin == Spec => ImplementsRoundRobin
<1>1. Init => RR!Init
  BY DEF Init, RR!Init, Order
<1>2. TypeOK /\ KernelInv /\ (TypeOK /\ KernelInv)' /\ [Next]_vars
        => [RR!Next]_<<Order, cpu>>
  BY RefinementStep
<1> QED BY <1>1, <1>2, KernelIsInvariant, PTL DEF Spec, ImplementsRoundRobin, RR!Spec
=============================================================================
