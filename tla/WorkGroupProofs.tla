---------------------------- MODULE WorkGroupProofs ----------------------------
(***************************************************************************)
(* One work group, for every launch, every number of ULTs and every vector  *)
(* length: its work items are all executed, the mask keeps one-dimensional  *)
(* kernels inside the group, and Aligned is exactly the condition under     *)
(* which each is executed once.                                             *)
(***************************************************************************)
EXTENDS WorkGroup, DataProofs

TypeOK ==
  /\ launch \in Launches
  /\ ThreadSize \in ThreadSizes
  /\ VL \in VectorLens
  /\ wg \in Groups(launch)
  /\ tid \in 0..ThreadSize
  /\ ind \in [Dims -> Nat]
  /\ runs \in [DOMAIN runs -> 1..MaxRuns]

(* The local ids that have been run: those of the nests that have ended and *)
(* of the part of the running nest before its index.                        *)
Done ==
  {l \in LocalIds(launch) : \E t \in 0..(ThreadSize - 1) :
     /\ l \in Nest(launch, ThreadSize, t)
     /\ t < tid \/ (t = tid /\ Before(l, ind))}

Covered == \A l \in Done : GlobalId(launch, wg, l) \in DOMAIN runs

LEMMA Parameters ==
  ASSUME TypeOK
  PROVE  /\ LaunchType(launch) /\ GroupType(launch, wg)
         /\ ThreadSize \in Nat \ {0} /\ VL \in Nat \ {0} /\ tid \in Nat
<1>1. LaunchType(launch)
  BY LaunchesAssumption DEF TypeOK, LaunchType
<1>2. ThreadSize \in Nat \ {0} /\ VL \in Nat \ {0}
  BY ThreadSizesAssumption, VectorLensAssumption DEF TypeOK
<1>3. GroupType(launch, wg)
  <2>1. PICK x \in 0..(NumWorkGroups(launch, 1) - 1), y \in 0..(NumWorkGroups(launch, 2) - 1),
             z \in 0..(NumWorkGroups(launch, 3) - 1) : wg = <<x, y, z>>
    BY DEF TypeOK, Groups
  <2>2. SUFFICES ASSUME NEW d \in 1..launch.dim
                 PROVE  wg[d] \in Nat /\ wg[d] < launch.gsz[d] \div launch.lsz[d]
    BY DEF GroupType
  <2>3. d \in Dims /\ d <= launch.dim /\ launch.gsz[d] \in Nat /\ launch.lsz[d] \in Nat \ {0}
    BY <1>1 DEF LaunchType, Dims
  <2>4. NumWorkGroups(launch, d) = launch.gsz[d] \div launch.lsz[d]
    BY <2>3 DEF NumWorkGroups
  <2>5. NumWorkGroups(launch, d) \in Nat
    BY <2>3, <2>4, DivMod
  <2>6. wg[d] \in 0..(NumWorkGroups(launch, d) - 1)
    BY <2>1, <2>3 DEF Dims
  <2> QED BY <2>4, <2>5, <2>6
<1> QED BY <1>1, <1>2, <1>3 DEF TypeOK

LEMMA CountedFacts ==
  ASSUME NEW items, runs \in [DOMAIN runs -> 1..MaxRuns]
  PROVE  /\ DOMAIN Counted(items) = DOMAIN runs \cup items
         /\ Counted(items) \in [DOMAIN runs \cup items -> 1..MaxRuns]
         /\ \A c \in items \ DOMAIN runs : Counted(items)[c] = 1
         /\ \A c \in items \cap DOMAIN runs : Counted(items)[c] = 2
         /\ \A c \in DOMAIN runs \ items : Counted(items)[c] = runs[c]
BY DEF Counted, MaxRuns

LEMMA TypeInit == Init => TypeOK
<1> SUFFICES ASSUME Init PROVE TypeOK
  OBVIOUS
<1>1. /\ launch \in Launches /\ ThreadSize \in ThreadSizes /\ VL \in VectorLens
      /\ wg \in Groups(launch) /\ tid = 0 /\ ThreadSize \in Nat \ {0} /\ LaunchType(launch)
  BY ThreadSizesAssumption, LaunchesAssumption DEF Init, LaunchType
<1>2. ind \in [Dims -> Nat]
  <2>1. \A d \in Dims : LoopStart(launch, ThreadSize, 0, d) \in Nat
    BY <1>1, BoundsType
  <2> QED BY <2>1 DEF Init, FirstIndex
<1>3. runs \in [DOMAIN runs -> 1..MaxRuns]
  BY DEF Init
<1> QED BY <1>1, <1>2, <1>3 DEF TypeOK

LEMMA TypeStep == TypeOK /\ [Next]_vars => TypeOK'
<1> SUFFICES ASSUME TypeOK, [Next]_vars PROVE TypeOK'
  OBVIOUS
<1>1. /\ LaunchType(launch) /\ ThreadSize \in Nat \ {0} /\ VL \in Nat \ {0} /\ tid \in Nat
  BY Parameters
<1>2. CASE Next
  <2>1. /\ UNCHANGED <<launch, ThreadSize, VL, wg>> /\ tid < ThreadSize
        /\ runs' = Counted(VectorItems(launch, VL, wg, ind))
    BY <1>2 DEF Next, LoopStep, LoopExit, Body
  <2>2. runs' \in [DOMAIN runs' -> 1..MaxRuns]
    BY <2>1, CountedFacts DEF TypeOK
  <2>3. CASE LoopStep
    <3>1. ind' = NextIndex(launch, ThreadSize, tid, VL, ind) /\ tid' = tid
          /\ ~LoopDone(launch, ThreadSize, tid, VL, ind)
      BY <2>3 DEF LoopStep
    <3>2. ind' \in [Dims -> Nat]
      <4>1. \A d \in 1..launch.dim : launch.lsz[d] \in Nat
        BY <1>1 DEF LaunchType
      <4> QED BY <1>1, <3>1, <4>1, NextIndexType DEF TypeOK
    <3> QED BY <2>1, <2>2, <3>1, <3>2 DEF TypeOK
  <2>4. CASE LoopExit
    <3>1. ind' = FirstIndex(launch, ThreadSize, tid + 1) /\ tid' = tid + 1
      BY <2>4 DEF LoopExit
    <3>2. ind' \in [Dims -> Nat]
      <4>1. \A d \in Dims : LoopStart(launch, ThreadSize, tid + 1, d) \in Nat
        BY <1>1, BoundsType
      <4> QED BY <3>1, <4>1 DEF FirstIndex
    <3>3. tid' \in 0..ThreadSize'
      BY <1>1, <2>1, <3>1
    <3> QED BY <2>1, <2>2, <3>1, <3>2, <3>3 DEF TypeOK
  <2> QED BY <1>2, <2>3, <2>4 DEF Next
<1>3. CASE UNCHANGED vars
  BY <1>3 DEF vars, TypeOK
<1> QED BY <1>2, <1>3

(* What a step adds to the local ids that have been run: those of its       *)
(* vector.                                                                  *)
LEMMA DoneGrows ==
  ASSUME TypeOK, Next
  PROVE  \A l \in Done' : l \in Done \/ (/\ InVector(VL, ind, l)
                                         /\ l \in Nest(launch, ThreadSize, tid))
<1>1. /\ LaunchType(launch) /\ ThreadSize \in Nat \ {0} /\ VL \in Nat \ {0} /\ tid \in Nat
      /\ ind \in [Dims -> Nat]
  BY Parameters DEF TypeOK
<1>2. UNCHANGED <<launch, ThreadSize, VL, wg>> /\ tid < ThreadSize
  BY DEF Next, LoopStep, LoopExit
<1>3. SUFFICES ASSUME NEW l \in LocalIds(launch), NEW t \in 0..(ThreadSize - 1),
                      l \in Nest(launch, ThreadSize, t),
                      t < tid' \/ (t = tid' /\ Before(l, ind'))
               PROVE  \/ t < tid \/ (t = tid /\ Before(l, ind))
                      \/ InVector(VL, ind, l) /\ t = tid
  BY <1>2 DEF Done
<1>4. CASE LoopStep
  <2>1. ind' = NextIndex(launch, ThreadSize, tid, VL, ind) /\ tid' = tid
        /\ ~LoopDone(launch, ThreadSize, tid, VL, ind)
    BY <1>4 DEF LoopStep
  <2>2. CASE t = tid
    <3>1. Before(l, NextIndex(launch, ThreadSize, tid, VL, ind))
      BY <1>1, <1>3, <2>1, <2>2
    <3> QED BY <1>1, <1>3, <2>1, <2>2, <3>1, NestSteps
  <2> QED BY <1>1, <1>3, <2>1, <2>2
<1>5. CASE LoopExit
  <2>1. ind' = FirstIndex(launch, ThreadSize, tid + 1) /\ tid' = tid + 1
        /\ LoopDone(launch, ThreadSize, tid, VL, ind)
    BY <1>5 DEF LoopExit
  <2>2. CASE t = tid
    BY <1>1, <1>3, <2>1, <2>2, NestDone
  <2>3. t # tid + 1
    <3>1. SUFFICES ASSUME t = tid + 1 PROVE FALSE
      OBVIOUS
    <3>2. ~Before(l, FirstIndex(launch, ThreadSize, t))
      BY <1>1, <1>3, NestStarts
    <3> QED BY <1>1, <1>3, <2>1, <3>1, <3>2
  <2> QED BY <1>1, <1>3, <2>1, <2>2, <2>3
<1> QED BY <1>4, <1>5 DEF Next

LEMMA CoveredInit == Init /\ TypeOK => Covered
<1> SUFFICES ASSUME Init, TypeOK, NEW l \in Done PROVE FALSE
  BY DEF Covered
<1>1. LaunchType(launch) /\ ThreadSize \in Nat \ {0}
  BY Parameters
<1>2. PICK t \in 0..(ThreadSize - 1) : l \in Nest(launch, ThreadSize, t) /\ (t < 0 \/ (t = 0 /\ Before(l, ind)))
  BY DEF Done, Init
<1>3. l \in Nest(launch, ThreadSize, 0) /\ Before(l, FirstIndex(launch, ThreadSize, 0))
  BY <1>1, <1>2 DEF Init
<1> QED BY <1>1, <1>3, NestStarts

LEMMA CoveredStep == TypeOK /\ Covered /\ [Next]_vars => Covered'
<1> SUFFICES ASSUME TypeOK, Covered, [Next]_vars PROVE Covered'
  OBVIOUS
<1>1. CASE Next
  <2>1. UNCHANGED <<launch, VL, wg>> /\ runs' = Counted(VectorItems(launch, VL, wg, ind))
    BY <1>1 DEF Next, LoopStep, LoopExit, Body
  <2>2. DOMAIN runs' = DOMAIN runs \cup VectorItems(launch, VL, wg, ind)
    BY <2>1, CountedFacts DEF TypeOK
  <2>3. SUFFICES ASSUME NEW l \in Done' PROVE GlobalId(launch, wg, l) \in DOMAIN runs'
    BY <2>1 DEF Covered
  <2>4. CASE l \in Done
    BY <2>2, <2>4 DEF Covered
  <2>5. CASE InVector(VL, ind, l) /\ l \in Nest(launch, ThreadSize, tid)
    <3>1. GlobalId(launch, wg, l) \in VectorItems(launch, VL, wg, ind)
      BY <2>5, Parameters, NestUnmasked DEF TypeOK
    <3> QED BY <2>2, <3>1
  <2> QED BY <1>1, <2>3, <2>4, <2>5, DoneGrows
<1>2. CASE UNCHANGED vars
  BY <1>2 DEF vars, Covered, Done
<1> QED BY <1>1, <1>2

LEMMA CoveredIsCoverage == TypeOK /\ Covered => Coverage
<1> SUFFICES ASSUME TypeOK, Covered, tid = ThreadSize, NEW c \in GroupItems(launch, wg)
             PROVE  c \in DOMAIN runs
  BY DEF Coverage, Finished
<1>1. LaunchType(launch) /\ ThreadSize \in Nat \ {0}
  BY Parameters
<1>2. PICK l \in LocalIds(launch) : c = GlobalId(launch, wg, l)
  BY <1>1, GroupItemsAreLocal
<1>3. PICK t \in 0..(ThreadSize - 1) : l \in Nest(launch, ThreadSize, t)
  BY <1>1, NestsCover
<1>4. l \in Done
  BY <1>1, <1>3 DEF Done
<1> QED BY <1>2, <1>4 DEF Covered

(* Whatever the sizes, the loop nests of the ULTs of a work group together  *)
(* run the kernel body for every work item of the group                     *)
(* (createThreadGroup, createLoop, createMask).                             *)
THEOREM GroupsAreCovered == Spec => []Coverage
<1>1. Init => TypeOK /\ Covered
  BY TypeInit, CoveredInit
<1>2. TypeOK /\ Covered /\ [Next]_vars => (TypeOK /\ Covered)'
  BY TypeStep, CoveredStep
<1> QED BY <1>1, <1>2, CoveredIsCoverage, PTL DEF Spec

-----------------------------------------------------------------------------
LEMMA MaskedInit == Init => MaskedInGroup
BY DEF Init, MaskedInGroup

LEMMA MaskedStep == TypeOK /\ MaskedInGroup /\ [Next]_vars => MaskedInGroup'
<1> SUFFICES ASSUME TypeOK, MaskedInGroup, [Next]_vars PROVE MaskedInGroup'
  OBVIOUS
<1>1. CASE Next
  <2>1. UNCHANGED <<launch, VL, wg>> /\ runs' = Counted(VectorItems(launch, VL, wg, ind))
    BY <1>1 DEF Next, LoopStep, LoopExit, Body
  <2>2. DOMAIN runs' = DOMAIN runs \cup VectorItems(launch, VL, wg, ind)
    BY <2>1, CountedFacts DEF TypeOK
  <2>3. SUFFICES ASSUME launch.dim = 1, NEW c \in VectorItems(launch, VL, wg, ind)
                 PROVE  c \in GroupItems(launch, wg)
    BY <2>1, <2>2 DEF MaskedInGroup
  <2>4. PICK l \in [Dims -> Nat] : c = GlobalId(launch, wg, l) /\ l[1] < launch.lsz[1]
    BY Parameters, VectorItemsAre DEF TypeOK
  <2>5. \A d \in 1..launch.dim : l[d] < launch.lsz[d]
    BY <2>3, <2>4
  <2> QED BY <2>4, <2>5, Parameters, GlobalIdInGroup
<1>2. CASE UNCHANGED vars
  BY <1>2 DEF vars, MaskedInGroup
<1> QED BY <1>1, <1>2

(* The mask of a one-dimensional kernel never lets a lane out of the work   *)
(* group, however large the chunks and however many ULTs have nothing to do *)
(* (createMask against get_local_size(0)).                                  *)
THEOREM MaskHolds == Spec => []MaskedInGroup
<1>1. Init => TypeOK /\ MaskedInGroup
  BY TypeInit, MaskedInit
<1>2. TypeOK /\ MaskedInGroup /\ [Next]_vars => (TypeOK /\ MaskedInGroup)'
  BY TypeStep, MaskedStep
<1> QED BY <1>1, <1>2, PTL DEF Spec

-----------------------------------------------------------------------------
(* Aligned sizes: every nest stays in its bounds and no work item is run    *)
(* twice.                                                                   *)
IsAligned == Aligned(launch, ThreadSize, VL)

Chunk == ChunkOf(launch, ThreadSize)

LEMMA GroupChunk ==
  ASSUME TypeOK
  PROVE  /\ launch.dim \in Dims /\ launch.lsz[launch.dim] \in Nat \ {0}
         /\ Chunk \in Nat \ {0}
         /\ launch.lsz[launch.dim] <= ThreadSize * Chunk
BY Parameters, ChunkType DEF Chunk

LEMMA GroupChunkBounds ==
  ASSUME TypeOK, NEW t \in Nat
  PROVE  LET L == launch.lsz[launch.dim]
         IN  /\ t * Chunk \in Nat
             /\ LoopStart(launch, ThreadSize, t, launch.dim) = t * Chunk
             /\ LoopEnd(launch, ThreadSize, t, launch.dim) =
                  IF t * Chunk + Chunk > L THEN L ELSE t * Chunk + Chunk
BY Parameters, ChunkBounds DEF Chunk

InBounds == tid < ThreadSize => InBoundsOf(launch, ThreadSize, VL, tid, ind)

OnlyOnce ==
  \A c \in DOMAIN runs : runs[c] = 1 /\ \E l \in Done : c = GlobalId(launch, wg, l)

AlignedInv == IsAligned => InBounds /\ OnlyOnce

LEMMA InBoundsInit == Init /\ TypeOK /\ IsAligned => InBounds
<1> SUFFICES ASSUME Init, TypeOK, IsAligned PROVE InBoundsOf(launch, ThreadSize, VL, 0, ind)
  BY DEF InBounds, Init
<1>1. LaunchType(launch) /\ ThreadSize \in Nat \ {0} /\ VL \in Nat \ {0} /\ 0 \in 0..(ThreadSize - 1)
  BY Parameters
<1> QED BY <1>1, AlignedFirst DEF Init, IsAligned

LEMMA InBoundsStep ==
  ASSUME TypeOK, TypeOK', IsAligned, InBounds, Next
  PROVE  InBounds'
<1>1. /\ LaunchType(launch) /\ ThreadSize \in Nat \ {0} /\ VL \in Nat \ {0} /\ tid \in Nat
      /\ ind \in [Dims -> Nat]
  BY Parameters DEF TypeOK
<1>2. UNCHANGED <<launch, ThreadSize, VL, wg>> /\ tid < ThreadSize
  BY DEF Next, LoopStep, LoopExit
<1>3. CASE LoopExit
  <2>1. ind' = FirstIndex(launch, ThreadSize, tid + 1) /\ tid' = tid + 1
    BY <1>3 DEF LoopExit
  <2>2. CASE tid + 1 < ThreadSize
    <3>1. tid + 1 \in 0..(ThreadSize - 1)
      BY <1>1, <2>2
    <3>2. InBoundsOf(launch, ThreadSize, VL, tid + 1, FirstIndex(launch, ThreadSize, tid + 1))
      BY <1>1, <3>1, AlignedFirst DEF IsAligned
    <3> QED BY <1>2, <2>1, <3>2 DEF InBounds
  <2>3. CASE ~(tid + 1 < ThreadSize)
    BY <1>2, <2>1, <2>3 DEF InBounds
  <2> QED BY <2>2, <2>3
<1>4. CASE LoopStep
  <2>1. /\ ind' = NextIndex(launch, ThreadSize, tid, VL, ind) /\ tid' = tid
        /\ ~LoopDone(launch, ThreadSize, tid, VL, ind)
    BY <1>4 DEF LoopStep
  <2>2. tid \in 0..(ThreadSize - 1)
    BY <1>1, <1>2
  <2>3. InBoundsOf(launch, ThreadSize, VL, tid, NextIndex(launch, ThreadSize, tid, VL, ind))
    BY <1>1, <1>2, <2>1, <2>2, AlignedNext DEF IsAligned, InBounds
  <2> QED BY <1>2, <2>1, <2>3 DEF InBounds
<1> QED BY <1>3, <1>4 DEF Next

(* What has been run stays so, and the vector of a step has been run.       *)
LEMMA DoneKept ==
  ASSUME TypeOK, Next, NEW l \in LocalIds(launch),
         l \in Done \/ (l \in Nest(launch, ThreadSize, tid) /\ InVector(VL, ind, l))
  PROVE  l \in Done'
<1>1. /\ LaunchType(launch) /\ ThreadSize \in Nat \ {0} /\ VL \in Nat \ {0} /\ tid \in Nat
      /\ ind \in [Dims -> Nat]
  BY Parameters DEF TypeOK
<1>2. UNCHANGED <<launch, ThreadSize>> /\ tid < ThreadSize
  BY DEF Next, LoopStep, LoopExit
<1>3. tid \in 0..(ThreadSize - 1)
  BY <1>1, <1>2
<1>4. PICK t \in 0..(ThreadSize - 1) :
        /\ l \in Nest(launch, ThreadSize, t)
        /\ t < tid \/ (t = tid /\ (Before(l, ind) \/ InVector(VL, ind, l)))
  BY <1>3 DEF Done
<1>5. t < tid' \/ (t = tid' /\ Before(l, ind'))
  <2>1. CASE LoopStep
    <3>1. /\ ind' = NextIndex(launch, ThreadSize, tid, VL, ind) /\ tid' = tid
          /\ ~LoopDone(launch, ThreadSize, tid, VL, ind)
      BY <2>1 DEF LoopStep
    <3>2. CASE t = tid
      <4>1. l \in [Dims -> Nat]
        BY DEF LocalIds
      <4>2. Before(l, ind) \/ InVector(VL, ind, l)
        BY <1>1, <1>4, <3>2
      <4> QED BY <1>1, <3>1, <3>2, <4>1, <4>2, BeforeGrows
    <3> QED BY <1>4, <3>1, <3>2
  <2>2. CASE LoopExit
    <3>1. tid' = tid + 1
      BY <2>2 DEF LoopExit
    <3> QED BY <1>1, <1>4, <3>1
  <2> QED BY <2>1, <2>2 DEF Next
<1> QED BY <1>2, <1>4, <1>5 DEF Done

LEMMA OnlyOnceStep ==
  ASSUME TypeOK, IsAligned, InBounds, OnlyOnce, Next
  PROVE  OnlyOnce'
<1> DEFINE items == VectorItems(launch, VL, wg, ind)
<1>1. /\ LaunchType(launch) /\ ThreadSize \in Nat \ {0} /\ VL \in Nat \ {0} /\ tid \in Nat
      /\ ind \in [Dims -> Nat] /\ GroupType(launch, wg)
  BY Parameters DEF TypeOK
<1>2. /\ UNCHANGED <<launch, ThreadSize, VL, wg>> /\ tid < ThreadSize
      /\ runs' = Counted(items)
  BY DEF Next, LoopStep, LoopExit, Body
<1>3. ASSUME NEW c \in items
      PROVE  \E m \in LocalIds(launch) : /\ c = GlobalId(launch, wg, m) /\ InVector(VL, ind, m)
                                         /\ m \in Nest(launch, ThreadSize, tid)
  <2>1. PICK m \in [Dims -> Nat] : /\ c = GlobalId(launch, wg, m) /\ InVector(VL, ind, m)
                                   /\ m[1] < launch.lsz[1]
    BY <1>1, VectorItemsAre
  <2>2. m \in Nest(launch, ThreadSize, tid)
    <3>1. tid \in 0..(ThreadSize - 1) /\ InBoundsOf(launch, ThreadSize, VL, tid, ind)
      BY <1>1, <1>2 DEF InBounds
    <3> QED BY <1>1, <2>1, <3>1, AlignedVector DEF IsAligned
  <2>3. m \in LocalIds(launch)
    BY <1>1, <2>2, NestIsLocal
  <2> QED BY <2>1, <2>2, <2>3
<1>4. items \cap DOMAIN runs = {}
  <2>1. SUFFICES ASSUME NEW c \in items, c \in DOMAIN runs PROVE FALSE
    OBVIOUS
  <2>2. PICK m \in LocalIds(launch) : /\ c = GlobalId(launch, wg, m) /\ InVector(VL, ind, m)
                                      /\ m \in Nest(launch, ThreadSize, tid)
    BY <1>3
  <2>3. PICK l \in Done : c = GlobalId(launch, wg, l)
    BY <2>1 DEF OnlyOnce
  <2>4. l \in LocalIds(launch)
    BY DEF Done
  <2>5. l = m
    BY <1>1, <2>2, <2>3, <2>4, GlobalIdInjective
  <2>6. PICK t \in 0..(ThreadSize - 1) : l \in Nest(launch, ThreadSize, t)
                                         /\ (t < tid \/ (t = tid /\ Before(l, ind)))
    BY DEF Done
  <2>7. tid \in 0..(ThreadSize - 1)
    BY <1>1, <1>2
  <2>8. t = tid
    BY <1>1, <2>2, <2>5, <2>6, <2>7, NestsDisjoint
  <2>9. l \in [Dims -> Nat]
    BY <2>4 DEF LocalIds
  <2> QED BY <1>1, <2>2, <2>5, <2>6, <2>8, <2>9, VectorNotBefore
<1>5. /\ DOMAIN runs' = DOMAIN runs \cup items
      /\ \A c \in items \ DOMAIN runs : runs'[c] = 1
      /\ \A c \in DOMAIN runs \ items : runs'[c] = runs[c]
  <2>1. runs \in [DOMAIN runs -> 1..MaxRuns]
    BY DEF TypeOK
  <2> HIDE DEF items
  <2> QED BY <1>2, <2>1, CountedFacts
<1> HIDE DEF items
<1>6. SUFFICES ASSUME NEW c \in DOMAIN runs'
               PROVE  runs'[c] = 1 /\ \E l \in Done' : c = GlobalId(launch, wg, l)
  BY <1>2 DEF OnlyOnce
<1>7. CASE c \in items
  <2>1. runs'[c] = 1
    BY <1>4, <1>5, <1>7
  <2>2. PICK m \in LocalIds(launch) : /\ c = GlobalId(launch, wg, m) /\ InVector(VL, ind, m)
                                      /\ m \in Nest(launch, ThreadSize, tid)
    BY <1>3, <1>7
  <2>3. m \in Done'
    BY <2>2, DoneKept
  <2> QED BY <2>1, <2>2, <2>3
<1>8. CASE c \in DOMAIN runs \ items
  <2>1. runs'[c] = 1
    BY <1>5, <1>8 DEF OnlyOnce
  <2>2. PICK l \in Done : c = GlobalId(launch, wg, l)
    BY <1>8 DEF OnlyOnce
  <2>3. l \in LocalIds(launch)
    BY DEF Done
  <2>4. l \in Done'
    BY <2>3, DoneKept
  <2> QED BY <2>1, <2>2, <2>4
<1> QED BY <1>5, <1>7, <1>8

LEMMA AlignedInvInit == Init /\ TypeOK => AlignedInv
BY InBoundsInit DEF AlignedInv, OnlyOnce, Init

LEMMA AlignedInvStep == TypeOK /\ AlignedInv /\ [Next]_vars => AlignedInv'
<1> SUFFICES ASSUME TypeOK, AlignedInv, [Next]_vars PROVE AlignedInv'
  OBVIOUS
<1>1. TypeOK'
  BY TypeStep
<1>2. CASE Next
  <2>1. IsAligned' <=> IsAligned
    BY <1>2 DEF Next, LoopStep, LoopExit, IsAligned
  <2>2. IsAligned => InBounds' /\ OnlyOnce'
    BY <1>1, <1>2, InBoundsStep, OnlyOnceStep DEF AlignedInv
  <2> QED BY <2>1, <2>2 DEF AlignedInv
<1>3. CASE UNCHANGED vars
  BY <1>3 DEF vars, AlignedInv, IsAligned, InBounds, OnlyOnce, Done, Chunk, ChunkOf
<1> QED BY <1>2, <1>3

LEMMA AlignedIsExact ==
  ASSUME TypeOK, Covered, AlignedInv, IsAligned, tid = ThreadSize
  PROVE  /\ DOMAIN runs = GroupItems(launch, wg)
         /\ \A c \in DOMAIN runs : runs[c] = 1
<1>1. LaunchType(launch) /\ GroupType(launch, wg)
  BY Parameters
<1>2. GroupItems(launch, wg) \subseteq DOMAIN runs
  BY CoveredIsCoverage DEF Coverage, Finished
<1>3. ASSUME NEW c \in DOMAIN runs PROVE c \in GroupItems(launch, wg)
  <2>1. PICK l \in LocalIds(launch) : c = GlobalId(launch, wg, l)
    BY DEF AlignedInv, OnlyOnce, Done
  <2>2. \A d \in 1..launch.dim : l[d] < launch.lsz[d]
    <3>1. SUFFICES ASSUME NEW d \in 1..launch.dim PROVE l[d] < launch.lsz[d]
      OBVIOUS
    <3>2. d \in Dims /\ d <= launch.dim
      BY <1>1 DEF LaunchType, Dims
    <3>3. l[d] < LocalSize(launch, d)
      BY <3>2 DEF LocalIds
    <3> QED BY <1>1, <3>2, <3>3, LocalSizeType
  <2>3. l \in [Dims -> Nat]
    BY DEF LocalIds
  <2> QED BY <1>1, <2>1, <2>2, <2>3, GlobalIdInGroup
<1> QED BY <1>2, <1>3 DEF AlignedInv, OnlyOnce

-----------------------------------------------------------------------------
(* Sizes that are not aligned, in two or three dimensions: the body of the  *)
(* last ULT's nest is run at its first index, which is past the group.      *)
FirstVectors ==
  \A t \in 0..(ThreadSize - 1) :
    t < tid \/ (t = tid /\ ind # FirstIndex(launch, ThreadSize, t)) =>
      VectorItems(launch, VL, wg, FirstIndex(launch, ThreadSize, t)) \subseteq DOMAIN runs

LEMMA FirstVectorsInit == Init /\ TypeOK => FirstVectors
BY DEF Init, FirstVectors

LEMMA FirstVectorsStep == TypeOK /\ FirstVectors /\ [Next]_vars => FirstVectors'
<1> SUFFICES ASSUME TypeOK, FirstVectors, [Next]_vars PROVE FirstVectors'
  OBVIOUS
<1>1. ThreadSize \in Nat \ {0} /\ tid \in Nat
  BY Parameters
<1>2. CASE Next
  <2> DEFINE items(t) == VectorItems(launch, VL, wg, FirstIndex(launch, ThreadSize, t))
  <2>1. /\ UNCHANGED <<launch, ThreadSize, VL, wg>> /\ tid < ThreadSize
        /\ runs' = Counted(VectorItems(launch, VL, wg, ind))
        /\ tid' = tid \/ (tid' = tid + 1 /\ ind' = FirstIndex(launch, ThreadSize, tid'))
    BY <1>2 DEF Next, LoopStep, LoopExit, Body
  <2>2. DOMAIN runs' = DOMAIN runs \cup VectorItems(launch, VL, wg, ind)
    BY <2>1, CountedFacts DEF TypeOK
  <2>3. items(tid) \subseteq DOMAIN runs'
    <3>1. tid \in 0..(ThreadSize - 1)
      BY <1>1, <2>1
    <3> QED BY <2>2, <3>1 DEF FirstVectors
  <2>4. ASSUME NEW t \in 0..(ThreadSize - 1),
               t < tid' \/ (t = tid' /\ ind' # FirstIndex(launch, ThreadSize, t))
        PROVE  items(t) \subseteq DOMAIN runs'
    <3>1. t < tid \/ t = tid
      BY <1>1, <2>1, <2>4
    <3>2. CASE t < tid
      BY <2>2, <3>2 DEF FirstVectors
    <3> QED BY <2>3, <3>1, <3>2
  <2> QED BY <2>1, <2>4 DEF FirstVectors
<1>3. CASE UNCHANGED vars
  BY <1>3 DEF vars, FirstVectors
<1> QED BY <1>2, <1>3

LEMMA RowsLeaveTheGroup ==
  ASSUME TypeOK, FirstVectors, ~IsAligned, launch.dim # 1, tid = ThreadSize
  PROVE  \E c \in DOMAIN runs : c \notin GroupItems(launch, wg)
<1> DEFINE u == ThreadSize - 1
           l == FirstIndex(launch, ThreadSize, u)
           L == launch.lsz[launch.dim]
           c == GlobalId(launch, wg, l)
<1>1. /\ LaunchType(launch) /\ GroupType(launch, wg)
      /\ ThreadSize \in Nat \ {0} /\ VL \in Nat \ {0} /\ tid \in Nat
  BY Parameters
<1>2. launch.dim \in Dims /\ L \in Nat \ {0} /\ Chunk \in Nat \ {0}
  BY GroupChunk
<1>3. u \in 0..(ThreadSize - 1) /\ u \in Nat /\ u < tid
  BY <1>1
<1>4. ~(u * Chunk < L)
  BY DEF IsAligned, Aligned, Chunk, ChunkOf
<1>5. \A d \in Dims : l[d] = LoopStart(launch, ThreadSize, u, d)
  BY DEF FirstIndex
<1>6. l \in [Dims -> Nat]
  <2>1. \A d \in Dims : LoopStart(launch, ThreadSize, u, d) \in Nat
    BY <1>1, <1>3, BoundsType
  <2>2. l = [d \in Dims |-> LoopStart(launch, ThreadSize, u, d)]
    BY DEF FirstIndex
  <2> HIDE DEF l, u
  <2> QED BY <2>1, <2>2
<1>7. l[launch.dim] = u * Chunk /\ u * Chunk \in Nat
  BY <1>2, <1>3, <1>5, GroupChunkBounds
<1>8. c \notin GroupItems(launch, wg)
  <2>1. ~(l[launch.dim] < launch.lsz[launch.dim])
    BY <1>2, <1>4, <1>7
  <2>2. launch.dim \in 1..launch.dim
    BY <1>2 DEF Dims
  <2> HIDE DEF l
  <2> QED BY <1>1, <1>6, <2>1, <2>2, GlobalIdInGroup
<1>9. c \in VectorItems(launch, VL, wg, l)
  <2>1. l[1] = 0
    <3>1. 1 \in Dims /\ 1 # launch.dim
      BY DEF Dims
    <3>2. LoopStart(launch, ThreadSize, u, 1) = 0
      <4>1. u \in Nat
        BY <1>3
      <4> HIDE DEF u
      <4> QED BY <1>1, <3>1, <4>1, BoundsType
    <3> QED BY <1>5, <3>1, <3>2
  <2>2. 1 <= launch.dim /\ 1 \in 1..launch.dim
    BY <1>2 DEF Dims
  <2>3. launch.lsz[1] \in Nat \ {0}
    BY <1>1, <2>2 DEF LaunchType
  <2> HIDE DEF l
  <2>4. 0 \in ActiveLanes(launch, VL, l)
    BY <1>1, <2>1, <2>3 DEF ActiveLanes
  <2>5. [l EXCEPT ![1] = @ + 0] = l
    BY <1>6, <2>1 DEF Dims
  <2> QED BY <2>4, <2>5 DEF VectorItems
<1>10. c \in DOMAIN runs
  BY <1>3, <1>9 DEF FirstVectors
<1> QED BY <1>8, <1>10

-----------------------------------------------------------------------------
(* Sizes that are not aligned, in one dimension: the first work item of the *)
(* second chunk is run by the first ULT too.                                *)
Second == [d \in Dims |-> IF d = 1 THEN Chunk ELSE 0]

SecondItem == GlobalId(launch, wg, Second)

Twice ==
  launch.dim = 1 /\ ~IsAligned =>
    /\ tid = 0 => ind[1] < Chunk /\ \E j \in Nat : ind[1] = j * VL
    /\ tid >= 1 => SecondItem \in DOMAIN runs
    /\ tid >= 2 \/ (tid = 1 /\ Before(Second, ind)) => SecondItem \in DOMAIN runs /\ runs[SecondItem] = 2

LEMMA UpperBounds ==
  ASSUME NEW r, LaunchType(r), r.dim = 1, NEW T \in Nat \ {0}, NEW t \in Nat, NEW d \in Dims, d # 1
  PROVE  LoopStart(r, T, t, d) = 0 /\ LoopEnd(r, T, t, d) = 1
<1>1. LoopStart(r, T, t, d) = 0 /\ LoopEnd(r, T, t, d) = LocalSize(r, d)
  BY BoundsType
<1>2. d > r.dim
  BY DEF Dims
<1>3. LocalSize(r, d) = 1
  BY <1>2, LocalSizeType
<1> QED BY <1>1, <1>3

LEMMA UnalignedFacts ==
  ASSUME TypeOK, launch.dim = 1, ~IsAligned
  PROVE  /\ Chunk \in Nat \ {0} /\ Chunk % VL # 0 /\ Chunk < launch.lsz[1]
         /\ launch.lsz[1] \in Nat /\ ThreadSize >= 2
         /\ Second \in Nest(launch, ThreadSize, 1)
<1> DEFINE L == launch.lsz[1]
           C == Chunk
<1>1. LaunchType(launch) /\ ThreadSize \in Nat \ {0} /\ VL \in Nat \ {0}
  BY Parameters
<1>2. L \in Nat \ {0} /\ C \in Nat \ {0} /\ L <= ThreadSize * C
  BY GroupChunk
<1>3. C % VL # 0 /\ ~(C >= L)
  BY DEF IsAligned, Aligned, Chunk, ChunkOf
<1>4. C < L
  BY <1>2, <1>3
<1>5. ThreadSize >= 2
  <2>1. SUFFICES ASSUME ThreadSize = 1 PROVE FALSE
    BY <1>1
  <2>2. ThreadSize * C = C
    BY <1>2, <2>1
  <2> QED BY <1>2, <1>4, <2>2
<1>6. Second \in Nest(launch, ThreadSize, 1)
  <2>1. /\ 1 * C = C
        /\ LoopStart(launch, ThreadSize, 1, 1) = 1 * C
        /\ LoopEnd(launch, ThreadSize, 1, 1) = IF 1 * C + C > L THEN L ELSE 1 * C + C
    BY <1>2, GroupChunkBounds
  <2>2. /\ LoopStart(launch, ThreadSize, 1, 1) <= C /\ C < LoopEnd(launch, ThreadSize, 1, 1)
    <3> HIDE DEF L, C
    <3> QED BY <1>2, <1>4, <2>1
  <2>3. ASSUME NEW d \in Dims, d # 1
        PROVE  LoopStart(launch, ThreadSize, 1, d) = 0 /\ LoopEnd(launch, ThreadSize, 1, d) = 1
    BY <1>1, <2>3, UpperBounds
  <2>4. \A d \in Dims : Second[d] = IF d = 1 THEN C ELSE 0
    BY DEF Second
  <2>5. Second \in [Dims -> Nat]
    BY <1>2 DEF Second
  <2> QED BY <2>2, <2>3, <2>4, <2>5 DEF Nest
<1> QED BY <1>2, <1>3, <1>4, <1>5, <1>6

(* Being in the vector, the item is in the vector's items, also for the     *)
(* first ULT, whose nest it is not in.                                      *)
LEMMA SecondInVector ==
  ASSUME TypeOK, launch.dim = 1, ~IsAligned, ind[1] <= Chunk, Chunk < ind[1] + VL
  PROVE  SecondItem \in VectorItems(launch, VL, wg, ind)
<1> DEFINE k == Chunk - ind[1]
           m == [ind EXCEPT ![1] = @ + k]
<1>1. Chunk \in Nat /\ Chunk < launch.lsz[1] /\ VL \in Nat \ {0} /\ ind \in [Dims -> Nat]
  BY UnalignedFacts, Parameters DEF TypeOK
<1>2. ind[1] \in Nat
  BY <1>1 DEF Dims
<1>3. k \in 0..(VL - 1) /\ ind[1] + k = Chunk
  BY <1>1, <1>2
<1>4. k \in ActiveLanes(launch, VL, ind)
  BY <1>1, <1>3 DEF ActiveLanes
<1>5. m[1] = Chunk /\ Second[1] = Chunk
  BY <1>1, <1>3 DEF Dims, Second
<1>6. GlobalId(launch, wg, m) = SecondItem
  <2>1. \A d \in Dims : d <= launch.dim => d = 1
    BY DEF Dims
  <2> HIDE DEF m
  <2> QED BY <1>5, <2>1 DEF GlobalId, SecondItem
<1> QED BY <1>4, <1>6 DEF VectorItems

LEMMA TwiceInit == Init /\ TypeOK => Twice
<1> SUFFICES ASSUME Init, TypeOK, launch.dim = 1, ~IsAligned PROVE Twice
  BY DEF Twice
<1>1. tid = 0 /\ ind = FirstIndex(launch, ThreadSize, 0)
  BY DEF Init
<1>2. Chunk \in Nat \ {0} /\ VL \in Nat \ {0}
  BY GroupChunk, Parameters
<1>3. ind[1] = 0 * Chunk
  BY <1>1, GroupChunkBounds DEF FirstIndex, Dims
<1>4. ind[1] = 0 /\ 0 * VL = 0
  BY <1>2, <1>3
<1> QED BY <1>1, <1>2, <1>4 DEF Twice

LEMMA TwiceStep == TypeOK /\ Twice /\ [Next]_vars => Twice'
<1> SUFFICES ASSUME TypeOK, Twice, [Next]_vars PROVE Twice'
  OBVIOUS
<1>1. CASE UNCHANGED vars
  BY <1>1 DEF vars, Twice, IsAligned, SecondItem, Second, Chunk, ChunkOf
<1>2. CASE Next
  <2>1. /\ UNCHANGED <<launch, ThreadSize, VL, wg>> /\ tid < ThreadSize
        /\ runs' = Counted(VectorItems(launch, VL, wg, ind))
    BY <1>2 DEF Next, LoopStep, LoopExit, Body
  <2>2. Chunk' = Chunk /\ Second' = Second /\ SecondItem' = SecondItem /\ IsAligned' = IsAligned
    BY <2>1 DEF Chunk, Second, SecondItem, IsAligned
  <2>3. SUFFICES ASSUME launch.dim = 1, ~IsAligned PROVE Twice'
    BY <2>1, <2>2 DEF Twice
  <2> DEFINE items == VectorItems(launch, VL, wg, ind)
             c == SecondItem
  <2>4. /\ DOMAIN runs' = DOMAIN runs \cup items
        /\ c \in items /\ c \in DOMAIN runs => runs'[c] = 2
        /\ c \in DOMAIN runs /\ runs[c] = 2 => runs'[c] = 2
    <3>1. runs \in [DOMAIN runs -> 1..MaxRuns]
      BY DEF TypeOK
    <3> HIDE DEF items, c
    <3>2. runs' = Counted(items)
      BY <2>1 DEF items
    <3> QED BY <3>1, <3>2, CountedFacts
  <2>5. /\ LaunchType(launch) /\ ThreadSize \in Nat \ {0} /\ VL \in Nat \ {0} /\ tid \in Nat
        /\ ind \in [Dims -> Nat] /\ ind[1] \in Nat
    BY Parameters DEF TypeOK, Dims
  <2>6. /\ Chunk \in Nat \ {0} /\ Chunk % VL # 0 /\ Second \in Nest(launch, ThreadSize, 1)
        /\ Second \in [Dims -> Nat] /\ Chunk < launch.lsz[1] /\ launch.lsz[1] \in Nat
    BY <2>3, UnalignedFacts DEF Nest
  <2>7. InVector(VL, ind, Second) => c \in items
    BY <2>3, SecondInVector DEF InVector, Second, Dims
  <2>8. LoopEnd(launch, ThreadSize, 0, 1) = Chunk
    <3>1. /\ 0 * Chunk = 0
          /\ LoopEnd(launch, ThreadSize, 0, 1) =
               IF 0 * Chunk + Chunk > launch.lsz[1] THEN launch.lsz[1] ELSE 0 * Chunk + Chunk
      BY <2>3, <2>6, GroupChunkBounds
    <3> QED BY <2>6, <3>1
  <2> HIDE DEF items, c
  <2>9. CASE LoopStep
    <3>1. /\ ind' = NextIndex(launch, ThreadSize, tid, VL, ind) /\ tid' = tid
          /\ ~LoopDone(launch, ThreadSize, tid, VL, ind)
      BY <2>9 DEF LoopStep
    <3>2. CASE tid = 0
      <4>1. PICK j \in Nat : ind[1] = j * VL
        BY <2>3, <3>2 DEF Twice
      <4>2. ind'[1] = ind[1] + VL /\ ind[1] + VL < Chunk
        <5> DEFINE S == [d \in Dims |-> LoopStart(launch, ThreadSize, tid, d)]
                   E == [d \in Dims |-> LoopEnd(launch, ThreadSize, tid, d)]
        <5>1. /\ S \in [Dims -> Nat] /\ \A d \in Dims : S[d] = LoopStart(launch, ThreadSize, tid, d)
              /\ E \in [Dims -> Nat] /\ \A d \in Dims : E[d] = LoopEnd(launch, ThreadSize, tid, d)
          BY <2>5, BoundsType
        <5>2. E[1] = Chunk
          BY <2>8, <3>2 DEF Dims
        <5>3. E[2] = 1 /\ E[3] = 1
          BY <2>3, <2>5, <5>1, UpperBounds DEF Dims
        <5> HIDE DEF S, E
        <5>4. GoesOn(S, E, VL, ind, ind')
          BY <2>5, <3>1, <5>1, NextIndexFacts
        <5>5. ind[2] \in Nat /\ ind[3] \in Nat
          BY <2>5 DEF Dims
        <5> QED BY <2>5, <5>2, <5>3, <5>4, <5>5 DEF GoesOn
      <4>3. (j + 1) * VL = j * VL + VL
        BY <2>5
      <4>4. ind'[1] = (j + 1) * VL
        BY <4>1, <4>2, <4>3
      <4> QED BY <2>1, <2>2, <3>1, <3>2, <4>2, <4>4 DEF Twice
    <3>3. CASE tid = 1
      <4>1. c \in DOMAIN runs
        BY <2>3, <3>3 DEF Twice, c
      <4>2. ASSUME Before(Second, ind') PROVE runs'[c] = 2
        <5>1. Before(Second, NextIndex(launch, ThreadSize, 1, VL, ind))
              /\ ~LoopDone(launch, ThreadSize, 1, VL, ind)
          BY <3>1, <3>3, <4>2
        <5>2. Before(Second, ind) \/ InVector(VL, ind, Second)
          BY <2>5, <2>6, <5>1, NestSteps
        <5> QED BY <2>3, <2>4, <2>7, <3>3, <4>1, <5>2 DEF Twice, c
      <4> QED BY <2>1, <2>2, <2>4, <3>1, <3>3, <4>1, <4>2 DEF Twice, c
    <3>4. CASE tid >= 2
      <4>1. c \in DOMAIN runs /\ runs[c] = 2
        BY <2>3, <3>4 DEF Twice, c
      <4>2. c \in DOMAIN runs' /\ runs'[c] = 2
        BY <2>4, <4>1
      <4>3. tid' >= 2 /\ tid' # 0
        BY <2>5, <3>1, <3>4
      <4> QED BY <2>2, <4>2, <4>3 DEF Twice, c
    <3> QED BY <2>5, <3>2, <3>3, <3>4
  <2>10. CASE LoopExit
    <3>1. /\ ind' = FirstIndex(launch, ThreadSize, tid + 1) /\ tid' = tid + 1
          /\ LoopDone(launch, ThreadSize, tid, VL, ind)
      BY <2>10 DEF LoopExit
    <3>2. CASE tid = 0
      <4>1. PICK j \in Nat : ind[1] = j * VL /\ ind[1] < Chunk
        BY <2>3, <3>2 DEF Twice
      <4>2. ~(ind[1] + VL < Chunk)
        BY <2>8, <3>1, <3>2 DEF LoopDone, Continues, NextVal, Dims
      <4>3. ind[1] + VL # Chunk
        <5>1. SUFFICES ASSUME ind[1] + VL = Chunk PROVE FALSE
          OBVIOUS
        <5> DEFINE q == Chunk \div VL
                   r == Chunk % VL
                   n == (j + 1) * VL
        <5>2. q \in Nat /\ r \in 0..(VL - 1) /\ Chunk = VL * q + r
          BY <2>5, <2>6, DivMod
        <5> HIDE DEF q, r
        <5>3. n = j * VL + VL /\ VL * q = q * VL /\ q * VL \in Nat
          BY <2>5, <5>2
        <5>4. q * VL + r = (j + 1) * VL + 0
          BY <2>5, <2>6, <4>1, <5>1, <5>2, <5>3
        <5>5. j + 1 \in Nat /\ 0 \in 0..(VL - 1)
          BY <2>5
        <5>6. r = 0
          BY <2>5, <5>2, <5>4, <5>5, DivUnique
        <5> QED BY <2>6, <5>6 DEF r
      <4>4. c \in items
        BY <2>3, <2>5, <2>6, <4>1, <4>2, <4>3, SecondInVector DEF c, items
      <4>5. ~Before(Second, ind')
        BY <2>5, <2>6, <3>1, <3>2, NestStarts
      <4> QED BY <2>1, <2>2, <2>4, <3>1, <3>2, <4>4, <4>5 DEF Twice, c
    <3>3. CASE tid = 1
      <4>1. c \in DOMAIN runs
        BY <2>3, <3>3 DEF Twice, c
      <4>2. Before(Second, ind) \/ InVector(VL, ind, Second)
        <5>1. LoopDone(launch, ThreadSize, 1, VL, ind)
          BY <3>1, <3>3
        <5> QED BY <2>5, <2>6, <5>1, NestDone
      <4>3. c \in DOMAIN runs' /\ runs'[c] = 2
        BY <2>3, <2>4, <2>7, <3>3, <4>1, <4>2 DEF Twice, c
      <4> QED BY <2>2, <3>1, <3>3, <4>3 DEF Twice, c
    <3>4. CASE tid >= 2
      <4>1. c \in DOMAIN runs /\ runs[c] = 2
        BY <2>3, <3>4 DEF Twice, c
      <4>2. c \in DOMAIN runs' /\ runs'[c] = 2
        BY <2>4, <4>1
      <4>3. tid' # 0
        BY <2>5, <3>1
      <4> QED BY <2>2, <4>2, <4>3 DEF Twice, c
    <3> QED BY <2>5, <3>2, <3>3, <3>4
  <2> QED BY <1>2, <2>9, <2>10 DEF Next
<1> QED BY <1>1, <1>2

LEMMA UnalignedIsNotExact ==
  ASSUME TypeOK, FirstVectors, Twice, ~IsAligned, tid = ThreadSize,
         DOMAIN runs = GroupItems(launch, wg), \A c \in DOMAIN runs : runs[c] = 1
  PROVE  FALSE
<1>1. CASE launch.dim # 1
  BY <1>1, RowsLeaveTheGroup
<1>2. CASE launch.dim = 1
  <2>1. ThreadSize >= 2
    BY <1>2, UnalignedFacts
  <2>2. SecondItem \in DOMAIN runs /\ runs[SecondItem] = 2
    BY <1>2, <2>1 DEF Twice
  <2> QED BY <2>2
<1> QED BY <1>1, <1>2

(* Aligned is exactly the condition under which chunks, loop bounds and the *)
(* mask fit together: then, and only then, every work item of the group and *)
(* no other is run, and once (createThreadGroup's chunks, createLoop's      *)
(* steps of VecStepVal, createMask).                                        *)
THEOREM ExactWhenAligned == Spec => []ExactlyOnceIffAligned
<1> DEFINE Inv == TypeOK /\ Covered /\ AlignedInv /\ FirstVectors /\ Twice
<1>1. Init => Inv
  BY TypeInit, CoveredInit, AlignedInvInit, FirstVectorsInit, TwiceInit
<1>2. Inv /\ [Next]_vars => Inv'
  BY TypeStep, CoveredStep, AlignedInvStep, FirstVectorsStep, TwiceStep
<1>3. Inv => ExactlyOnceIffAligned
  BY AlignedIsExact, UnalignedIsNotExact DEF ExactlyOnceIffAligned, Finished, IsAligned
<1> QED BY <1>1, <1>2, <1>3, PTL DEF Spec
=============================================================================
