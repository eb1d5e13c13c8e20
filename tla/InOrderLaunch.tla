---------------------------- MODULE InOrderLaunch ----------------------------
(***************************************************************************)
(* What clEnqueueNDRangeKernel promises its caller, whatever the number of  *)
(* threads, cores or vector lanes: the kernel is applied once to every work *)
(* item of the NDRange, in any order, and the call returns when all of them *)
(* are done (clFinish has nothing left to wait for).                        *)
(***************************************************************************)
EXTENDS Naturals

CONSTANTS Items,   \* all work items
          Ranges   \* the NDRanges launched: sets of work items

VARIABLES busy,    \* a launch is being executed
          pending, \* its work items that have not been executed
          applied  \* how often the kernel was applied to each item

vars == <<busy, pending, applied>>

Init ==
  /\ busy = FALSE
  /\ pending = {}
  /\ applied = [i \in Items |-> 0]

Begin ==
  /\ ~busy
  /\ busy' = TRUE
  /\ pending' \in Ranges
  /\ UNCHANGED applied

(* Some of the pending items are executed together, as a vector.            *)
Apply ==
  /\ busy
  /\ pending' \in SUBSET pending
  /\ pending' # pending
  /\ applied' = [i \in Items |-> IF i \in pending \ pending' THEN applied[i] + 1 ELSE applied[i]]
  /\ UNCHANGED busy

End ==
  /\ busy
  /\ pending = {}
  /\ busy' = FALSE
  /\ UNCHANGED <<pending, applied>>

Next == Begin \/ Apply \/ End

Spec == Init /\ [][Next]_vars /\ WF_vars(Apply \/ End)
=============================================================================
