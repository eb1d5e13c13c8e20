---------------------------- MODULE MCKernelArgs ----------------------------
(* A kernel function for the KernelArgs runs: one __global parameter and    *)
(* one passed by value.                                                     *)
EXTENDS KernelArgs, TLC

Scale == [i \in 0..1 |-> IF i = 0 THEN "Global" ELSE "Value"]

OneFlag == {{}}

Handles == Permutations(Mems)
=============================================================================
