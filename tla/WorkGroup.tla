------------------------------ MODULE WorkGroup ------------------------------
(***************************************************************************)
(* One work group of a launch, executed by its ULTs one after the other:   *)
(* the generated loop nest and its vector mask with no concurrency, so     *)
(* that many combinations of local size, number of ULTs and vector length  *)
(* can be compared with the set of work items the caller asked for.        *)
(***************************************************************************)
EXTENDS NDRange, FiniteSets

CONSTANTS Launches,    \* the launches examined
          ThreadSizes, \* values of ThreadSize: ULTs per work group
          VectorLens   \* numbers of vector lanes (VecStepVal)

(* The sizes enqueueKernel is called with: 1 to 3 dimensions, no local size *)
(* of 0 (the call divides by it).                                           *)
ASSUME LaunchesAssumption ==
  \A r \in Launches : /\ r.dim \in Dims
                      /\ r.offs \in [1..r.dim -> Nat]
                      /\ r.gsz \in [1..r.dim -> Nat]
                      /\ r.lsz \in [1..r.dim -> Nat \ {0}]
ASSUME ThreadSizesAssumption == ThreadSizes \subseteq Nat \ {0}
ASSUME VectorLensAssumption  == VectorLens \subseteq Nat \ {0}

VARIABLES
  launch,      \* the launch
  ThreadSize,  \* ULTs per work group
  VL,          \* vector lanes
  wg,          \* the work group
  tid,         \* ThreadID of the running ULT; ThreadSize when all have ended
  ind,         \* loop indices of the running ULT
  runs         \* how often the kernel body ran for each global id, up to MaxRuns

vars == <<launch, ThreadSize, VL, wg, tid, ind, runs>>

Groups(r) ==
  LET Indices(d) == 0..(NumWorkGroups(r, d) - 1)
  IN  {<<x, y, z>> : x \in Indices(1), y \in Indices(2), z \in Indices(3)}

Init ==
  /\ launch \in Launches
  /\ ThreadSize \in ThreadSizes
  /\ VL \in VectorLens
  /\ wg \in Groups(launch)
  /\ tid = 0
  /\ ind = FirstIndex(launch, ThreadSize, 0)
  /\ runs = [c \in {} |-> 0]

(* Bound: more than one execution is as wrong as two.                       *)
MaxRuns == 2

Counted(items) ==
  [c \in DOMAIN runs \cup items |->
     IF c \notin DOMAIN runs THEN 1
     ELSE IF c \in items /\ runs[c] < MaxRuns THEN runs[c] + 1 ELSE runs[c]]

Body == runs' = Counted(VectorItems(launch, VL, wg, ind))

(* The kernel body runs for one vector and the nest goes on.               *)
LoopStep ==
  /\ tid < ThreadSize
  /\ ~LoopDone(launch, ThreadSize, tid, VL, ind)
  /\ Body
  /\ ind' = NextIndex(launch, ThreadSize, tid, VL, ind)
  /\ UNCHANGED <<launch, ThreadSize, VL, wg, tid>>

(* The kernel body runs for one vector, the nest ends, the next ULT starts. *)
LoopExit ==
  /\ tid < ThreadSize
  /\ LoopDone(launch, ThreadSize, tid, VL, ind)
  /\ Body
  /\ tid' = tid + 1
  /\ ind' = FirstIndex(launch, ThreadSize, tid + 1)
  /\ UNCHANGED <<launch, ThreadSize, VL, wg>>

Next == LoopStep \/ LoopExit

Spec == Init /\ [][Next]_vars /\ WF_vars(Next)

-----------------------------------------------------------------------------
Finished == tid = ThreadSize

(* Every work item of the group is executed at least once, for all sizes:   *)
(* chunks, clamping, masks and the do-while nest never skip one.            *)
Coverage == Finished => GroupItems(launch, wg) \subseteq DOMAIN runs

(* A work item is executed exactly once, and nothing outside the group is   *)
(* executed, exactly when the sizes are Aligned: a vector step then never   *)
(* reaches into the next chunk and no ULT's first row is past the group.    *)
ExactlyOnceIffAligned ==
  Finished =>
    (Aligned(launch, ThreadSize, VL)
       <=> /\ DOMAIN runs = GroupItems(launch, wg)
           /\ \A c \in DOMAIN runs : runs[c] = 1)

(* In one dimension the mask keeps every lane inside the work group, so an  *)
(* oversized chunk grid is harmless there; a row of a higher dimension has  *)
(* no mask and may leave the group.                                         *)
MaskedInGroup == launch.dim = 1 => DOMAIN runs \subseteq GroupItems(launch, wg)

(* No loop nest runs forever, also when its lower bound is past its upper.  *)
NestEnds == <>Finished
=============================================================================
