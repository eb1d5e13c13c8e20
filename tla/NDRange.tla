------------------------------- MODULE NDRange -------------------------------
(***************************************************************************)
(* The index arithmetic of a kernel launch: how a work group is cut into   *)
(* one chunk per ULT (_SOCL_thread_wrapper_{1,2,3}D), how the generated    *)
(* wrapper walks a chunk (KernelWrapper::createLoop), which lanes of a     *)
(* vector step are active (KernelVectorizer::createMask) and which global  *)
(* id a lane has (KernelWrapper::replaceIndexFunctions).                   *)
(*                                                                         *)
(* A launch is a record with dim \in 1..3 and the sequences offs, gsz and  *)
(* lsz (offset, global and local size), of length dim.  Dimension d of the *)
(* code is dimension d+1 here.  Ids and loop indices always have three     *)
(* coordinates; the ones at or above dim are 0, as the code makes them.    *)
(***************************************************************************)
EXTENDS Integers

Dims == 1..3

-----------------------------------------------------------------------------
(* Chunks of a work group: L is the local size of the last dimension, T    *)
(* the number of ULTs per work group (ThreadSize).                         *)

\* Mutant: the remainder of the division is forgotten.
ChunkSizeFloor(L, T) == L \div T

ChunkSize(L, T) == L \div T + (IF L % T # 0 THEN 1 ELSE 0)

LowerBound(L, T, tid) == tid * ChunkSize(L, T)

\* Mutant: the last chunk is not cut at the local size.
UpperBoundUnclamped(L, T, tid) == LowerBound(L, T, tid) + ChunkSize(L, T)

UpperBound(L, T, tid) ==
  LET end == LowerBound(L, T, tid) + ChunkSize(L, T)
  IN  IF end > L THEN L ELSE end

(* The unpadded sizes of a launch as three-dimensional values.              *)
LocalSize(r, d)  == IF d <= r.dim THEN r.lsz[d] ELSE 1
NumWorkGroups(r, d) == IF d <= r.dim THEN r.gsz[d] \div r.lsz[d] ELSE 1

-----------------------------------------------------------------------------
(* The loop nest of a ULT.  Only the last dimension of the launch is        *)
(* chunked; the lower ones run over the whole work group.                   *)

LoopStart(r, T, tid, d) ==
  IF d = r.dim THEN LowerBound(r.lsz[d], T, tid) ELSE 0

LoopEnd(r, T, tid, d) ==
  IF d = r.dim THEN UpperBound(r.lsz[d], T, tid) ELSE LocalSize(r, d)

FirstIndex(r, T, tid) == [d \in Dims |-> LoopStart(r, T, tid, d)]

(* Dimension 0 advances by the number of vector lanes, the others by one.   *)
NextVal(VL, ind, d) == ind[d] + (IF d = 1 THEN VL ELSE 1)

Continues(r, T, tid, VL, ind, d) == NextVal(VL, ind, d) < LoopEnd(r, T, tid, d)

(* The nest is a do-while: the test follows the body, so each body runs at  *)
(* least once, whatever its bounds.  It ends when no dimension continues.   *)
LoopDone(r, T, tid, VL, ind) ==
  \A d \in Dims : ~Continues(r, T, tid, VL, ind, d)

\* Mutant: the loop that continues starts over instead of advancing.
NextIndexStartOver(r, T, tid, VL, ind) ==
  LET d == CHOOSE e \in Dims :
             /\ Continues(r, T, tid, VL, ind, e)
             /\ \A f \in Dims : f < e => ~Continues(r, T, tid, VL, ind, f)
  IN  [e \in Dims |-> IF e <= d THEN LoopStart(r, T, tid, e) ELSE ind[e]]

(* The innermost loop that continues advances; the ones inside it restart.  *)
NextIndex(r, T, tid, VL, ind) ==
  LET d == CHOOSE e \in Dims :
             /\ Continues(r, T, tid, VL, ind, e)
             /\ \A f \in Dims : f < e => ~Continues(r, T, tid, VL, ind, f)
  IN  [e \in Dims |-> IF e < d THEN LoopStart(r, T, tid, e)
                      ELSE IF e = d THEN NextVal(VL, ind, e) ELSE ind[e]]

-----------------------------------------------------------------------------
(* One vector step.                                                        *)

\* Mutant: every lane is active.
ActiveLanesUnmasked(r, VL, ind) == 0..(VL - 1)

(* whilelo(get_local_id(0), get_local_size(0)): the mask is that of the    *)
(* work group, not of the ULT's chunk.                                      *)
ActiveLanes(r, VL, ind) == {k \in 0..(VL - 1) : ind[1] + k < r.lsz[1]}

\* Mutant: the offset of the launch is left out.
GlobalIdNoOffset(r, wg, loc) ==
  [d \in Dims |-> IF d <= r.dim THEN wg[d] * r.lsz[d] + loc[d] ELSE 0]

GlobalId(r, wg, loc) ==
  [d \in Dims |-> IF d <= r.dim THEN wg[d] * r.lsz[d] + loc[d] + r.offs[d]
                                ELSE 0]

(* The global ids one execution of the kernel body at ind works on.         *)
VectorItems(r, VL, wg, ind) ==
  {GlobalId(r, wg, [ind EXCEPT ![1] = @ + k]) : k \in ActiveLanes(r, VL, ind)}

-----------------------------------------------------------------------------
(* What the caller asked for, stated without chunks, loops or masks.        *)

(* The global ids of a launch and those of one of its work groups.  A       *)
(* dimension the launch does not have contributes the single id 0.          *)
Ids(r, d) == IF d <= r.dim THEN r.offs[d] .. (r.offs[d] + r.gsz[d] - 1) ELSE {0}

ItemsOf(r) == {<<x, y, z>> : x \in Ids(r, 1), y \in Ids(r, 2), z \in Ids(r, 3)}

GroupItems(r, wg) ==
  {c \in ItemsOf(r) :
     \A d \in 1..r.dim : (c[d] - r.offs[d]) \div r.lsz[d] = wg[d]}

(* The sizes for which chunks, loops and masks fit together.  In one        *)
(* dimension a vector step must not reach into the next chunk; in more, no  *)
(* ULT's first row may lie at or past the local size.                       *)
Aligned(r, T, VL) ==
  LET L == r.lsz[r.dim]
      C == ChunkSize(L, T)
  IN  IF r.dim = 1 THEN C % VL = 0 \/ C >= L
                   ELSE (T - 1) * C < L
=============================================================================
