--------------------------- MODULE MCMemoryObjects ---------------------------
(* Buffers for the MemoryObjects runs.                                      *)
EXTENDS MemoryObjects, TLC

(* Flags of buffers the host can read and write, and read only, and a       *)
(* combination that is refused.                                             *)
MCFlags == {{}, {"WRITE_ONLY"}, {"READ_WRITE", "READ_ONLY"}}

(* The allocator's addresses are interchangeable.                           *)
Handles == Permutations(Mems)
=============================================================================
