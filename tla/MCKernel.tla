------------------------------- MODULE MCKernel --------------------------------
(* The kernel for TLC, with the debug queue of kernel.c. *)
EXTENDS Kernel

MCQueue == <<"root", "memtest">>
==============================================================================
