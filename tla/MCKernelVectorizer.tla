------------------------- MODULE MCKernelVectorizer -------------------------
(* Kernels for the KernelVectorizer run: a float and a size_t array, a      *)
(* float parameter, one binary opcode, which is supported; FNeg and the     *)
(* conversions are not.                                                     *)
EXTENDS KernelVectorizer

MCElementBits == [f |-> 32, w |-> 64]

MCParams == <<32>>
MCBinary == {"Sub"}
=============================================================================
