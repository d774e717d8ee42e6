------------------------------ MODULE MCKernel ------------------------------
(* Instances of Kernel for TLC; the constants are given in the cfg files. *)
EXTENDS KernelRefinement
=============================================================================
