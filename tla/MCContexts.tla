------------------------------ MODULE MCContexts ------------------------------
(* Contexts, queues and a buffer of one byte for the Contexts runs.         *)
EXTENDS Contexts, TLC

MCFlags == {{}}
MCDeviceTypes == {{"CPU"}, {"GPU"}}

(* The allocator's addresses are interchangeable.                           *)
Addresses == Permutations(Mems) \cup Permutations(Queues) \cup Permutations(Contexts)
=============================================================================
