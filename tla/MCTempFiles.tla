----------------------------- MODULE MCTempFiles -----------------------------
(* Bounds for the TempFiles run: few tries in the place of the code's 100,  *)
(* so that the files left behind can use them up.  Two processes share the  *)
(* directory, and are interchangeable.                                      *)
EXTENDS TempFiles, TLC

MCTries == 2

Hosts == Permutations(Processes)
=============================================================================
