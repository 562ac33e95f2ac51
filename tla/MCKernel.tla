------------------------------ MODULE MCKernel ------------------------------
(***************************************************************************)
(* The kernel with the three workloads of main.rs.                         *)
(***************************************************************************)
EXTENDS Kernel
=============================================================================
