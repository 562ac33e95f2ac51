----------------------------- MODULE Cooperative ----------------------------
(***************************************************************************)
(* The cooperative switch of process.rs beside the preemptive kernel.      *)
(*                                                                         *)
(* yield_now (and preempt_now, the same code) saves the caller's stack     *)
(* pointer and return address in its ProcessContext and resumes the next   *)
(* process with ret at context.rip, whereas preempt_round_robin and        *)
(* Scheduler::spawn leave a frame for iretq and never set context.rip.     *)
(* Scheduler::switch is a method, and the only Scheduler lives behind the  *)
(* SCHEDULER mutex that the method locks again.                            *)
(***************************************************************************)
EXTENDS Kernel

\* The points at which code with interrupts on may call the scheduler:
\* kernel_main's final loop and the loops of the workloads.
AtCall(p) == hpc = "user" /\ cpu = p /\ wpc[p] = "out" /\ pc[p] \in {"hlt", "spin"}

\* execute_switch's update of the process list; context_switch then stores
\* the stack pointer and the return address.
Hand_over(old_rsp) ==
  [Rotate(old_rsp) EXCEPT ![current_index + 1].rip = "return"]

\* context_switch resumes with ret: it needs a pushed return address on top.
Returnable(p) ==
  /\ p.rip = "return"
  /\ p.rsp.depth = Len(stack[p.rsp.stk])
  /\ stack[p.rsp.stk][p.rsp.depth].kind = "ret"

\* The stack of a process resumed in context_switch: the return address is
\* popped and, if the call came from software_yield_handler, iretq pops the
\* frame of int 0x30 below it.
Unwound(s) ==
  LET n == Len(s) - 1 IN SubSeq(s, 1, IF n > 0 /\ s[n].kind = "int" THEN n - 1 ELSE n)

\* execute_switch, which Scheduler::switch repeats, and context_switch, called
\* with the frames under on the stack of p.
Execute_switch(p, under) ==
  LET new  == processes[Next_index + 1]
      full == stack[p] \o under
                \o <<[kind |-> "ret", ifl |-> FALSE, slots |-> Saved(regs)]>>
  IN
  /\ processes' = Hand_over([stk |-> p, depth |-> Len(full)])
  /\ current_index' = Next_index
  /\ IF Returnable(new)
       THEN /\ hpc' = "user"
            /\ cpu' = new.rsp.stk
            /\ regs' = Restored(stack[new.rsp.stk][new.rsp.depth].slots)
            /\ stack' = [stack EXCEPT ![p] = full, ![new.rsp.stk] = Unwound(@)]
       ELSE /\ hpc' = "wild"
            /\ stack' = [stack EXCEPT ![p] = full]
            /\ UNCHANGED <<cpu, regs>>
  /\ UNCHANGED <<some, next_pid, rax, picVars, lockVars>>

\* Fewer than two processes: execute_switch returns.
Alone == Len(processes) < 2 /\ UNCHANGED <<schedVars, cpuVars, picVars, lockVars>>

\* yield_now and preempt_now: cli, execute_switch and, in the process that is
\* resumed, the sti that follows its own call.
Yield_now(p) ==
  /\ AtCall(p) /\ some /\ Try_lock
  /\ Alone \/ (Len(processes) >= 2 /\ Execute_switch(p, << >>) /\ ifl' = (hpc' = "user"))
  /\ UNCHANGED threadVars

\* int 0x30: software_yield_handler calls yield_now, through preempt_bridge, on
\* top of the frame the CPU pushed.
Software_yield(p) ==
  /\ AtCall(p) /\ some /\ Try_lock
  /\ \/ Alone
     \/ /\ Len(processes) >= 2
        /\ Execute_switch(p, <<[kind |-> "int", ifl |-> ifl, slots |-> Saved(regs)]>>)
        /\ ifl' = (hpc' = "user")
  /\ UNCHANGED threadVars

\* SCHEDULER.lock() yields the &mut Scheduler the method is called on ...
Call_switch(p) ==
  /\ AtCall(p) /\ some /\ Try_lock
  /\ sched_lock' = TRUE
  /\ Goto(p, "switch")
  /\ UNCHANGED <<schedVars, cpuVars, picVars, writer_lock>>

\* ... and Scheduler::switch locks SCHEDULER before it reads the list.
Scheduler_switch(p) ==
  /\ At(p, "switch") /\ Try_lock
  /\ Alone \/ (Len(processes) >= 2 /\ Execute_switch(p, << >>) /\ UNCHANGED ifl)
  /\ Goto(p, "spin")

YieldNext == Next \/ \E p \in Pids : Yield_now(p) \/ Software_yield(p)

YieldSpec == Init /\ [][YieldNext]_vars

SwitchNext == Next \/ \E p \in Pids : Call_switch(p) \/ Scheduler_switch(p)

SwitchSpec ==
  /\ Init /\ [][SwitchNext]_vars
  /\ Fairness /\ \A p \in Pids : SF_vars(Scheduler_switch(p))

-----------------------------------------------------------------------------
\* main.rs says of yield_now in the final loop: "Now this call safely saves
\* the real boot registers into PID 0 and seamlessly transitions execution
\* to Process Alpha (PID 1)."  A transition is seamless when the CPU goes on
\* in some process's code.
YieldIsSeamless == hpc # "wild"

\* process.rs says in Scheduler::switch that the guard "cleanly drops right
\* here" and that the switch is performed "outside the spinlock scope": a
\* process that calls it gets out of it again.
SwitchGetsPastItsLock == \A p \in Pids : pc[p] = "switch" ~> pc[p] # "switch"
=============================================================================
