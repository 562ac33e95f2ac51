----------------------------- MODULE RoundRobin -----------------------------
(***************************************************************************)
(* The promise of the scheduler of process.rs, independent of stacks,      *)
(* locks and interrupts: processes join at the end of a fixed order, and   *)
(* the CPU moves from one process to the next of that order, cyclically.   *)
(***************************************************************************)
EXTENDS Naturals, Sequences

CONSTANT Ids  \* the process ids

VARIABLES order,   \* the pids, in the order they were spawned
          running  \* the pid the CPU executes

Init == order = << >> /\ running = 0

\* A process joins; the first one is the code that is already running.
Admit ==
  /\ \E p \in Ids :
       /\ \A i \in DOMAIN order : order[i] # p
       /\ order = << >> => p = running
       /\ order' = Append(order, p)
  /\ UNCHANGED running

Switch ==
  /\ \E i \in DOMAIN order :
       order[i] = running /\ running' = order[(i % Len(order)) + 1]
  /\ UNCHANGED order

Next == Admit \/ Switch

Spec == Init /\ [][Next]_<<order, running>>
=============================================================================
