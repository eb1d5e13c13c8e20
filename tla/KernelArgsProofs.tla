-------------------------- MODULE KernelArgsProofs --------------------------
(***************************************************************************)
(* What a launch finds at a kernel's arguments, for every kernel function,  *)
(* every set of buffers and kernels and every limit on argument sizes.      *)
(***************************************************************************)
EXTENDS KernelArgs, MemoryObjectsProofs, FiniteSetTheorems

-----------------------------------------------------------------------------
(* SumFunctionOnSet over finite sets.                                       *)

(* A set of subsets of a finite set has a smallest member.                  *)
LEMMA SmallestSet ==
  ASSUME NEW S, IsFiniteSet(S), NEW T, T \subseteq SUBSET S, T # {}
  PROVE  \E s \in T : \A t \in SUBSET s : t # s => t \notin T
<1>1. IsWellFoundedOn(StrictSubsetOrdering(S), SUBSET S)
  BY FS_StrictSubsetOrderingWellFounded, FS_FiniteSubsetsOfFinite
<1>2. \E s \in T : \A t \in T : ~ (<<t, s>> \in StrictSubsetOrdering(S))
  <2> DEFINE R == StrictSubsetOrdering(S)
             W == SUBSET S
  <2>1. IsWellFoundedOn(R, W) /\ T \subseteq W
    BY <1>1
  <2> HIDE DEF R, W
  <2>2. \E s \in T : \A t \in T : ~ (<<t, s>> \in R)
    BY <2>1, WFMin
  <2> QED BY <2>2 DEF R
<1> QED BY <1>2 DEF StrictSubsetOrdering

(* The sum of a function's values as the library defines it: the recursive  *)
(* function takes the elements of a set away one by one.                    *)
FirstOf(s) == CHOOSE x \in s : TRUE
RestOf(s)  == s \ {FirstOf(s)}

IsIter(g, f, S) == g = [s \in SUBSET S |-> IF s = {} THEN 0 ELSE f[FirstOf(s)] + g[RestOf(s)]]
Iter(f, S) == CHOOSE g : IsIter(g, f, S)

LEMMA SumIsIter ==
  ASSUME NEW f, NEW S
  PROVE  SumFunctionOnSet(f, S) = Iter(f, S)[S]
BY DEF SumFunctionOnSet, FoldFunctionOnSet, MapThenFoldSet, Iter, IsIter, FirstOf, RestOf

LEMMA RestFacts ==
  ASSUME NEW S, NEW s \in SUBSET S, s # {}
  PROVE  FirstOf(s) \in s /\ RestOf(s) \in SUBSET s /\ RestOf(s) # s /\ RestOf(s) \in SUBSET S
BY DEF FirstOf, RestOf

LEMMA IterValue ==
  ASSUME NEW f, NEW S, NEW g, IsIter(g, f, S), NEW s \in SUBSET S
  PROVE  g[s] = IF s = {} THEN 0 ELSE f[FirstOf(s)] + g[RestOf(s)]
BY DEF IsIter

LEMMA IterUnique ==
  ASSUME NEW f, NEW A, NEW B, NEW g, NEW k, IsFiniteSet(A), IsIter(g, f, A), IsIter(k, f, B),
         NEW w, w \subseteq A, w \subseteq B
  PROVE  g[w] = k[w]
<1> DEFINE T == {s \in SUBSET A : s \subseteq B /\ g[s] # k[s]}
<1>1. SUFFICES ASSUME T # {} PROVE FALSE
  OBVIOUS
<1>2. PICK s \in T : \A t \in SUBSET s : t # s => t \notin T
  <2>1. T \subseteq SUBSET A
    OBVIOUS
  <2> HIDE DEF T
  <2> QED BY <1>1, <2>1, SmallestSet
<1>3. s \in SUBSET A /\ s \in SUBSET B
  OBVIOUS
<1>4. g[s] = (IF s = {} THEN 0 ELSE f[FirstOf(s)] + g[RestOf(s)])
  BY <1>3, IterValue
<1>5. k[s] = (IF s = {} THEN 0 ELSE f[FirstOf(s)] + k[RestOf(s)])
  BY <1>3, IterValue
<1>6. s # {}
  BY <1>4, <1>5
<1>7. RestOf(s) \in SUBSET s /\ RestOf(s) # s
  BY <1>6, RestFacts
<1>8. RestOf(s) \notin T
  BY <1>2, <1>7
<1>9. g[RestOf(s)] = k[RestOf(s)]
  BY <1>3, <1>7, <1>8
<1> QED BY <1>4, <1>5, <1>6, <1>9

LEMMA IterExists ==
  ASSUME NEW f, NEW S, IsFiniteSet(S)
  PROVE  IsIter(Iter(f, S), f, S)
<1> DEFINE T == {s \in SUBSET S : ~ \E g : IsIter(g, f, s)}
<1>1. SUFFICES T = {}
  BY DEF Iter
<1>2. SUFFICES ASSUME T # {} PROVE FALSE
  OBVIOUS
<1>3. PICK s \in T : \A t \in SUBSET s : t # s => t \notin T
  <2>1. T \subseteq SUBSET S
    OBVIOUS
  <2> HIDE DEF T
  <2> QED BY <1>2, <2>1, SmallestSet
<1>4. s \in SUBSET S /\ ~ \E g : IsIter(g, f, s)
  OBVIOUS
<1>5. ASSUME NEW t \in SUBSET s, t # s PROVE IsIter(Iter(f, t), f, t) /\ IsFiniteSet(t)
  <2>1. \E g : IsIter(g, f, t)
    BY <1>3, <1>4, <1>5
  <2>2. IsFiniteSet(t)
    BY <1>4, <1>5, FS_Subset
  <2> QED BY <2>1, <2>2 DEF Iter
<1> HIDE DEF T
<1> DEFINE h == [t \in SUBSET s |-> IF t = {} THEN 0 ELSE f[FirstOf(t)] + Iter(f, RestOf(t))[RestOf(t)]]
<1>6. ASSUME NEW t \in SUBSET s, t # {} PROVE h[RestOf(t)] = Iter(f, RestOf(t))[RestOf(t)]
  <2> DEFINE u == RestOf(t)
  <2>1. u \in SUBSET s /\ u # s /\ u \in SUBSET t
    BY <1>6, RestFacts
  <2>2. IsIter(Iter(f, u), f, u) /\ IsFiniteSet(u)
    BY <1>5, <2>1
  <2> HIDE DEF u
  <2>3. Iter(f, u)[u] = IF u = {} THEN 0 ELSE f[FirstOf(u)] + Iter(f, u)[RestOf(u)]
    BY <2>2, IterValue
  <2>4. h[u] = IF u = {} THEN 0 ELSE f[FirstOf(u)] + Iter(f, RestOf(u))[RestOf(u)]
    BY <2>1
  <2>5. CASE u # {}
    <3>1. RestOf(u) \in SUBSET u /\ RestOf(u) # s /\ RestOf(u) \in SUBSET s
      BY <2>1, <2>5, RestFacts
    <3>2. IsIter(Iter(f, RestOf(u)), f, RestOf(u))
      BY <1>5, <3>1
    <3>3. Iter(f, u)[RestOf(u)] = Iter(f, RestOf(u))[RestOf(u)]
      BY <2>2, <3>1, <3>2, IterUnique
    <3> QED BY <2>3, <2>4, <3>3 DEF u
  <2> QED BY <2>3, <2>4, <2>5 DEF u
<1>7. h = [t \in SUBSET s |-> IF t = {} THEN 0 ELSE f[FirstOf(t)] + h[RestOf(t)]]
  <2> DEFINE k == [t \in SUBSET s |-> IF t = {} THEN 0 ELSE f[FirstOf(t)] + h[RestOf(t)]]
  <2>1. ASSUME NEW t \in SUBSET s PROVE h[t] = k[t]
    BY <1>6
  <2> QED BY <2>1
<1> QED BY <1>4, <1>7 DEF IsIter

(* The sum takes away any element.                                          *)
LEMMA SumUnfold ==
  ASSUME NEW f, NEW S, IsFiniteSet(S)
  PROVE  SumFunctionOnSet(f, S) =
           IF S = {} THEN 0 ELSE f[FirstOf(S)] + SumFunctionOnSet(f, RestOf(S))
<1>1. IsIter(Iter(f, S), f, S)
  BY IterExists
<1>2. Iter(f, S)[S] = IF S = {} THEN 0 ELSE f[FirstOf(S)] + Iter(f, S)[RestOf(S)]
  BY <1>1, IterValue
<1>3. CASE S # {}
  <2>1. RestOf(S) \in SUBSET S
    BY <1>3, RestFacts
  <2>2. IsFiniteSet(RestOf(S))
    BY <2>1, FS_Subset
  <2>3. IsIter(Iter(f, RestOf(S)), f, RestOf(S))
    BY <2>2, IterExists
  <2>4. Iter(f, S)[RestOf(S)] = Iter(f, RestOf(S))[RestOf(S)]
    BY <1>1, <2>1, <2>3, IterUnique
  <2> QED BY <1>2, <2>4, SumIsIter
<1> QED BY <1>2, <1>3, SumIsIter

LEMMA SumType ==
  ASSUME NEW S, IsFiniteSet(S), NEW f, \A x \in S : f[x] \in Nat
  PROVE  SumFunctionOnSet(f, S) \in Nat
<1> DEFINE T == {s \in SUBSET S : SumFunctionOnSet(f, s) \notin Nat}
<1>1. SUFFICES ASSUME T # {} PROVE FALSE
  OBVIOUS
<1>2. PICK s \in T : \A t \in SUBSET s : t # s => t \notin T
  <2>1. T \subseteq SUBSET S
    OBVIOUS
  <2> HIDE DEF T
  <2> QED BY <1>1, <2>1, SmallestSet
<1>3. s \in SUBSET S /\ IsFiniteSet(s)
  BY FS_Subset
<1>4. SumFunctionOnSet(f, s) = IF s = {} THEN 0 ELSE f[FirstOf(s)] + SumFunctionOnSet(f, RestOf(s))
  BY <1>3, SumUnfold
<1>5. CASE s # {}
  <2>1. FirstOf(s) \in s /\ RestOf(s) \in SUBSET s /\ RestOf(s) # s
    BY <1>5, RestFacts
  <2>2. SumFunctionOnSet(f, RestOf(s)) \in Nat /\ f[FirstOf(s)] \in Nat
    BY <1>2, <1>3, <2>1
  <2> QED BY <1>4, <1>5, <2>2
<1> QED BY <1>4, <1>5

(* Two functions that agree have the same sum.                              *)
LEMMA SumAgrees ==
  ASSUME NEW S, IsFiniteSet(S), NEW f, NEW g, \A x \in S : f[x] = g[x]
  PROVE  SumFunctionOnSet(f, S) = SumFunctionOnSet(g, S)
<1> DEFINE T == {s \in SUBSET S : SumFunctionOnSet(f, s) # SumFunctionOnSet(g, s)}
<1>1. SUFFICES ASSUME T # {} PROVE FALSE
  OBVIOUS
<1>2. PICK s \in T : \A t \in SUBSET s : t # s => t \notin T
  <2>1. T \subseteq SUBSET S
    OBVIOUS
  <2> HIDE DEF T
  <2> QED BY <1>1, <2>1, SmallestSet
<1>3. s \in SUBSET S /\ IsFiniteSet(s)
  BY FS_Subset
<1>4. SumFunctionOnSet(f, s) = IF s = {} THEN 0 ELSE f[FirstOf(s)] + SumFunctionOnSet(f, RestOf(s))
  BY <1>3, SumUnfold
<1>5. SumFunctionOnSet(g, s) = IF s = {} THEN 0 ELSE g[FirstOf(s)] + SumFunctionOnSet(g, RestOf(s))
  BY <1>3, SumUnfold
<1>6. CASE s # {}
  <2>1. FirstOf(s) \in s /\ RestOf(s) \in SUBSET s /\ RestOf(s) # s
    BY <1>6, RestFacts
  <2>2. SumFunctionOnSet(f, RestOf(s)) = SumFunctionOnSet(g, RestOf(s)) /\ f[FirstOf(s)] = g[FirstOf(s)]
    BY <1>2, <1>3, <2>1
  <2> QED BY <1>4, <1>5, <2>2
<1> QED BY <1>4, <1>5, <1>6

(* The sum does not depend on the element that is taken first.              *)
LEMMA SumRemove ==
  ASSUME NEW S, IsFiniteSet(S), NEW f, \A x \in S : f[x] \in Nat, NEW i \in S
  PROVE  SumFunctionOnSet(f, S) = f[i] + SumFunctionOnSet(f, S \ {i})
<1> DEFINE SumOver(s) == SumFunctionOnSet(f, s)
           T == {s \in SUBSET S : \E x \in s : SumOver(s) # f[x] + SumOver(s \ {x})}
<1>1. SUFFICES ASSUME T # {} PROVE FALSE
  OBVIOUS
<1>2. PICK s \in T : \A t \in SUBSET s : t # s => t \notin T
  <2>1. T \subseteq SUBSET S
    OBVIOUS
  <2> HIDE DEF T
  <2> QED BY <1>1, <2>1, SmallestSet
<1>3. PICK x \in s : SumOver(s) # f[x] + SumOver(s \ {x})
  OBVIOUS
<1>4. s \in SUBSET S /\ IsFiniteSet(s) /\ s # {}
  BY <1>3, FS_Subset
<1> DEFINE y == FirstOf(s)
<1>5. y \in s /\ RestOf(s) = s \ {y}
  BY <1>4, RestFacts DEF RestOf
<1>6. SumOver(s) = f[y] + SumOver(s \ {y})
  BY <1>4, <1>5, SumUnfold
<1>7. \A t \in SUBSET s : SumOver(t) \in Nat
  <2> TAKE t \in SUBSET s
  <2>1. IsFiniteSet(t) /\ \A z \in t : f[z] \in Nat
    BY <1>4, FS_Subset
  <2> QED BY <2>1, SumType
<1>8. x # y
  BY <1>3, <1>6
<1>9. \A t \in SUBSET s : t # s => \A z \in t : SumOver(t) = f[z] + SumOver(t \ {z})
  BY <1>2, <1>4
<1> HIDE DEF y, T, SumOver
<1>10. SumOver(s \ {y}) = f[x] + SumOver((s \ {y}) \ {x})
  <2>1. s \ {y} \in SUBSET s /\ s \ {y} # s /\ x \in s \ {y}
    BY <1>5, <1>8
  <2> QED BY <1>9, <2>1
<1>11. SumOver(s \ {x}) = f[y] + SumOver((s \ {x}) \ {y})
  <2>1. s \ {x} \in SUBSET s /\ s \ {x} # s /\ y \in s \ {x}
    BY <1>5, <1>8
  <2> QED BY <1>9, <2>1
<1>12. (s \ {y}) \ {x} = (s \ {x}) \ {y}
  OBVIOUS
<1> DEFINE r == SumOver((s \ {x}) \ {y})
<1>13. r \in Nat /\ f[x] \in Nat /\ f[y] \in Nat
  BY <1>4, <1>5, <1>7
<1>14. SumOver(s) = f[y] + (f[x] + r) /\ SumOver(s \ {x}) = f[y] + r
  BY <1>6, <1>10, <1>11, <1>12
<1> HIDE DEF r
<1>15. SumOver(s) = f[x] + SumOver(s \ {x})
  BY <1>13, <1>14
<1> QED BY <1>3, <1>15

(* A sum of zeros.                                                          *)
LEMMA SumZero ==
  ASSUME NEW S, IsFiniteSet(S), NEW f, \A x \in S : f[x] = 0
  PROVE  SumFunctionOnSet(f, S) = 0
<1> DEFINE T == {s \in SUBSET S : SumFunctionOnSet(f, s) # 0}
<1>1. SUFFICES ASSUME T # {} PROVE FALSE
  OBVIOUS
<1>2. PICK s \in T : \A t \in SUBSET s : t # s => t \notin T
  <2>1. T \subseteq SUBSET S
    OBVIOUS
  <2> HIDE DEF T
  <2> QED BY <1>1, <2>1, SmallestSet
<1>3. s \in SUBSET S /\ IsFiniteSet(s)
  BY FS_Subset
<1>4. SumFunctionOnSet(f, s) = IF s = {} THEN 0 ELSE f[FirstOf(s)] + SumFunctionOnSet(f, RestOf(s))
  BY <1>3, SumUnfold
<1>5. CASE s # {}
  <2>1. FirstOf(s) \in s /\ RestOf(s) \in SUBSET s /\ RestOf(s) # s
    BY <1>5, RestFacts
  <2>2. SumFunctionOnSet(f, RestOf(s)) = 0 /\ f[FirstOf(s)] = 0
    BY <1>2, <1>3, <2>1
  <2> QED BY <1>4, <1>5, <2>2
<1> QED BY <1>4, <1>5

(* Changing one value changes the sum by the difference.                    *)
LEMMA SumExcept ==
  ASSUME NEW S, IsFiniteSet(S), NEW f, NEW g, NEW i \in S,
         \A x \in S : f[x] \in Nat /\ g[x] \in Nat, \A x \in S \ {i} : g[x] = f[x]
  PROVE  SumFunctionOnSet(g, S) + f[i] = SumFunctionOnSet(f, S) + g[i]
<1> DEFINE a == SumFunctionOnSet(f, S \ {i})
           b == SumFunctionOnSet(g, S \ {i})
<1>1. IsFiniteSet(S \ {i})
  BY FS_Subset
<1>2. a = b
  BY <1>1, SumAgrees
<1>3. a \in Nat
  BY <1>1, SumType
<1>4. SumFunctionOnSet(f, S) = f[i] + a /\ SumFunctionOnSet(g, S) = g[i] + b
  BY SumRemove
<1>5. f[i] \in Nat /\ g[i] \in Nat
  OBVIOUS
<1> HIDE DEF a, b
<1> QED BY <1>2, <1>3, <1>4, <1>5

-----------------------------------------------------------------------------
(* The inductive invariant adds to the one of the buffers that only a       *)
(* kernel that exists has arguments.                                        *)
KernelTypes ==
  /\ ker \in [DOMAIN ker -> KernelType] /\ DOMAIN ker \subseteq Kernels
  /\ KernelMap \in [DOMAIN ker -> Nat \ {0}]
  /\ argOf \in [Kernels -> [Args -> Mems \cup {NoBuffer}]]

OnlyLiveKernels ==
  \A k \in Kernels, i \in Args : argOf[k][i] # NoBuffer => k \in DOMAIN ker

IInv == MemInv /\ KernelTypes /\ OnlyLiveKernels /\ ArgsNameTheirBuffers

USE NumArgsAssumption, ArgKindsAssumption, MemsAssumption, PtrSizeAssumption,
    ArgSizesAssumption, MaxParamAssumption

LEMMA IInvInit == Init => IInv
<1> SUFFICES ASSUME Init PROVE IInv
  OBVIOUS
<1>1. MemInv
  BY MemInvInit DEF Init
<1>2. KernelTypes /\ OnlyLiveKernels /\ ArgsNameTheirBuffers
  BY DEF Init, KernelTypes, OnlyLiveKernels, ArgsNameTheirBuffers, EmptyMap
<1> QED BY <1>1, <1>2 DEF IInv

-----------------------------------------------------------------------------
(* Calls on buffers.                                                        *)

(* A buffer that exists before and after a call is the same buffer.         *)
LEMMA BuffersStay ==
  ASSUME IInv, BufferCall
  PROVE  MemInv' /\ \A m \in DOMAIN mem \cap DOMAIN mem' : mem'[m] = mem[m]
<1>1. ASSUME NEW c \in Contexts, NEW F \in FlagSets, NEW n \in Sizes, CreateBuffer(c, F, n)
      PROVE  MemInv' /\ \A m \in DOMAIN mem \cap DOMAIN mem' : mem'[m] = mem[m]
  <2>1. MemInv'
    BY <1>1, CreateKeepsMemInv DEF IInv
  <2>2. PICK b \in Mems \ DOMAIN mem, p \in SizeT :
          mem' = [q \in DOMAIN mem \cup {b} |->
                    IF q = b THEN [Ctx |-> c, ByteSize |-> n, Ptr |-> p,
                                   Readable |-> Readable(F), Writable |-> Writable(F)]
                             ELSE mem[q]]
    BY <1>1 DEF CreateBuffer
  <2>3. \A q \in DOMAIN mem : mem'[q] = mem[q]
    BY <2>2
  <2> QED BY <2>1, <2>3
<1>2. ASSUME NEW m \in Mems, RetainMem(m)
      PROVE  MemInv' /\ \A q \in DOMAIN mem \cap DOMAIN mem' : mem'[q] = mem[q]
  BY <1>2, RetainKeepsMemInv DEF IInv, RetainMem
<1>3. ASSUME NEW m \in Mems, ReleaseMem(m)
      PROVE  MemInv' /\ \A q \in DOMAIN mem \cap DOMAIN mem' : mem'[q] = mem[q]
  BY <1>3, ReleaseKeepsMemInv DEF IInv, ReleaseMem
<1> QED BY <1>1, <1>2, <1>3 DEF BufferCall

LEMMA BufferCallKeepsIInv == ASSUME IInv, BufferCall PROVE IInv'
<1>1. /\ UNCHANGED <<ker, KernelMap>>
      /\ argOf' = [k \in Kernels |-> [i \in Args |->
                     IF argOf[k][i] \in DOMAIN mem' THEN argOf[k][i] ELSE NoBuffer]]
  BY DEF BufferCall
<1>2. MemInv' /\ \A m \in DOMAIN mem \cap DOMAIN mem' : mem'[m] = mem[m]
  BY BuffersStay
<1>3. DOMAIN mem' \subseteq Mems
  BY <1>2 DEF MemInv, MemType
<1>4. KernelTypes'
  BY <1>1, <1>3 DEF IInv, KernelTypes
<1>5. \A k \in Kernels, i \in Args :
        argOf'[k][i] # NoBuffer => argOf'[k][i] = argOf[k][i] /\ argOf[k][i] \in DOMAIN mem'
  BY <1>1
<1>6. OnlyLiveKernels'
  BY <1>1, <1>5 DEF IInv, OnlyLiveKernels
<1>7. ArgsNameTheirBuffers'
  <2>1. SUFFICES ASSUME NEW k \in DOMAIN ker', NEW i \in Args, argOf'[k][i] # NoBuffer
                 PROVE  /\ ArgKinds[i] = "Global"
                        /\ argOf'[k][i] \in DOMAIN mem'
                        /\ ker'[k].ArgPtrs[i] = [Size |-> PtrSize, value |-> mem'[argOf'[k][i]].Ptr]
    BY DEF ArgsNameTheirBuffers
  <2>2. k \in Kernels /\ k \in DOMAIN ker
    BY <1>1 DEF IInv, KernelTypes
  <2>3. argOf'[k][i] = argOf[k][i] /\ argOf[k][i] \in DOMAIN mem' /\ argOf[k][i] # NoBuffer
    BY <1>5, <2>1, <2>2
  <2>4. /\ ArgKinds[i] = "Global"
        /\ argOf[k][i] \in DOMAIN mem
        /\ ker[k].ArgPtrs[i] = [Size |-> PtrSize, value |-> mem[argOf[k][i]].Ptr]
    BY <2>2, <2>3 DEF IInv, ArgsNameTheirBuffers
  <2>5. mem'[argOf[k][i]] = mem[argOf[k][i]]
    BY <1>2, <2>3, <2>4
  <2> QED BY <1>1, <2>3, <2>4, <2>5
<1> QED BY <1>2, <1>4, <1>6, <1>7 DEF IInv

-----------------------------------------------------------------------------
(* Calls on kernels.                                                        *)

LEMMA CreateKernelKeepsIInv == ASSUME IInv, CreateKernel PROVE IInv'
<1>1. PICK k \in Kernels \ DOMAIN ker :
        /\ ker' = [q \in DOMAIN ker \cup {k} |->
                     IF q = k THEN [ArgPtrs |-> [i \in Args |-> Unset], TotalArgSize |-> 0]
                              ELSE ker[q]]
        /\ KernelMap' = Added(KernelMap, k)
  BY DEF CreateKernel
<1>2. UNCHANGED <<mem, MemObjMap, held, argOf>>
  BY DEF CreateKernel
<1>3. MemInv'
  BY <1>2, OtherKeepsMemInv DEF IInv
<1>4. [ArgPtrs |-> [i \in Args |-> Unset], TotalArgSize |-> 0] \in KernelType
  BY DEF KernelType, Unset, ArgValues
<1>5. KernelTypes'
  BY <1>1, <1>2, <1>4 DEF IInv, KernelTypes, Added
<1>6. OnlyLiveKernels'
  BY <1>1, <1>2 DEF IInv, OnlyLiveKernels
<1>7. ArgsNameTheirBuffers'
  BY <1>1, <1>2 DEF IInv, ArgsNameTheirBuffers, OnlyLiveKernels
<1> QED BY <1>3, <1>5, <1>6, <1>7 DEF IInv

LEMMA RetainKernelKeepsIInv == ASSUME IInv, NEW k \in Kernels, RetainKernel(k) PROVE IInv'
<1>1. UNCHANGED <<mem, MemObjMap, held, argOf, ker>>
  BY DEF RetainKernel
<1>2. MemInv'
  BY <1>1, OtherKeepsMemInv DEF IInv
<1>3. KernelTypes'
  BY <1>1 DEF IInv, KernelTypes, RetainKernel, Retained
<1> QED BY <1>1, <1>2, <1>3 DEF IInv, OnlyLiveKernels, ArgsNameTheirBuffers

LEMMA ReleaseKernelKeepsIInv == ASSUME IInv, NEW k \in Kernels, ReleaseKernel(k) PROVE IInv'
<1>1. /\ UNCHANGED <<mem, MemObjMap, held>>
      /\ KernelMap' = Released(KernelMap, k)
      /\ ker' = [q \in DOMAIN KernelMap' |-> ker[q]]
      /\ argOf' = IF k \in DOMAIN ker' THEN argOf
                  ELSE [argOf EXCEPT ![k] = [i \in Args |-> NoBuffer]]
  BY DEF ReleaseKernel
<1>2. MemInv'
  BY <1>1, OtherKeepsMemInv DEF IInv
<1>3. KernelMap \in [DOMAIN ker -> Nat \ {0}] /\ k \in DOMAIN ker
  BY DEF IInv, KernelTypes, ReleaseKernel
<1>4. \/ DOMAIN KernelMap' = DOMAIN ker \ {k} /\ KernelMap' \in [DOMAIN ker \ {k} -> Nat \ {0}]
      \/ DOMAIN KernelMap' = DOMAIN ker /\ KernelMap' \in [DOMAIN ker -> Nat \ {0}]
  <2>1. CASE KernelMap[k] = 1
    BY <1>1, <1>3, <2>1, ReleasedFacts
  <2>2. CASE KernelMap[k] # 1
    BY <1>1, <1>3, <2>2, ReleasedFacts
  <2> QED BY <2>1, <2>2
<1>5. /\ DOMAIN ker' \subseteq DOMAIN ker
      /\ DOMAIN ker \ {k} \subseteq DOMAIN ker'
      /\ \A q \in DOMAIN ker' : ker'[q] = ker[q]
  BY <1>1, <1>4
<1>6. KernelTypes'
  BY <1>1, <1>4, <1>5 DEF IInv, KernelTypes
<1>7. OnlyLiveKernels'
  BY <1>1, <1>5 DEF IInv, OnlyLiveKernels, KernelTypes
<1>8. \A q \in DOMAIN ker' : argOf'[q] = argOf[q]
  BY <1>1, <1>5 DEF IInv, KernelTypes
<1>9. ArgsNameTheirBuffers'
  BY <1>1, <1>5, <1>8 DEF IInv, ArgsNameTheirBuffers
<1> QED BY <1>2, <1>6, <1>7, <1>9 DEF IInv

LEMMA SetArgKeepsIInv ==
  ASSUME IInv, NEW k \in Kernels, NEW i \in 0..NumArgs, NEW n \in ArgSizes,
         NEW v \in Mems \cup {Null, AValue}, SetArg(k, i, n, v)
  PROVE  IInv'
<1> DEFINE copy == Copied(i, n, v)
<1>1. UNCHANGED <<mem, MemObjMap, held, KernelMap>> /\ k \in DOMAIN ker
  BY DEF SetArg
<1>2. MemInv'
  BY <1>1, OtherKeepsMemInv DEF IInv
<1>3. CASE ret' # "CL_SUCCESS"
  <2>1. KernelAfter(k, i, n, v) = ker[k]
    BY <1>3 DEF SetArg, KernelAfter
  <2>2. ker' = ker /\ argOf' = argOf
    BY <1>1, <1>3, <2>1 DEF SetArg, IInv, KernelTypes
  <2> QED BY <1>1, <1>2, <2>2 DEF IInv, KernelTypes, OnlyLiveKernels, ArgsNameTheirBuffers
<1>4. CASE ret' = "CL_SUCCESS"
  <2>1. i \in Args /\ KindError(i, n, v) = "CL_SUCCESS"
    BY <1>4 DEF SetArg, SetArgError
  <2>2. ArgKinds[i] = "Global" => v \in DOMAIN mem /\ n = PtrSize
    BY <2>1 DEF KindError, IInv, MemInv, MemType
  <2>3. ArgKinds[i] = "Global" =>
          v \in Mems /\ mem[v].Ptr \in SizeT
    BY <2>2 DEF IInv, MemInv, MemType, BufferType
  <2>4. copy \in [Size : Nat, value : ArgValues]
    BY <2>3 DEF Copied, ArgValues
  <2>5. /\ ker' = [ker EXCEPT ![k] = WithArg(ker[k], i, copy)]
        /\ argOf' = [argOf EXCEPT ![k][i] = IF ArgKinds[i] = "Global" THEN v ELSE NoBuffer]
    BY <1>4 DEF SetArg, KernelAfter
  <2>6. ker[k] \in KernelType
    BY <1>1 DEF IInv, KernelTypes
  <2>7. /\ WithArg(ker[k], i, copy) \in KernelType
        /\ WithArg(ker[k], i, copy).ArgPtrs = [ker[k].ArgPtrs EXCEPT ![i] = copy]
    <3> HIDE DEF copy
    <3> QED BY <2>4, <2>6, <2>1 DEF WithArg, KernelType
  <2>8. KernelTypes'
    <3> HIDE DEF copy
    <3> QED BY <1>1, <2>1, <2>3, <2>5, <2>7 DEF IInv, KernelTypes
  <2>9. DOMAIN ker' = DOMAIN ker /\ \A q \in DOMAIN ker \ {k} : ker'[q] = ker[q] /\ argOf'[q] = argOf[q]
    BY <2>5 DEF IInv, KernelTypes
  <2>10. OnlyLiveKernels'
    BY <1>1, <2>5, <2>9 DEF IInv, KernelTypes, OnlyLiveKernels
  <2>11. ArgsNameTheirBuffers'
    <3>1. SUFFICES ASSUME NEW q \in DOMAIN ker', NEW j \in Args, argOf'[q][j] # NoBuffer
                   PROVE  /\ ArgKinds[j] = "Global"
                          /\ argOf'[q][j] \in DOMAIN mem'
                          /\ ker'[q].ArgPtrs[j] = [Size |-> PtrSize, value |-> mem'[argOf'[q][j]].Ptr]
      BY DEF ArgsNameTheirBuffers
    <3>2. CASE q # k
      BY <1>1, <2>9, <3>1, <3>2 DEF IInv, ArgsNameTheirBuffers
    <3>3. CASE q = k /\ j # i
      <4>1. argOf'[q][j] = argOf[k][j]
        BY <1>1, <2>5, <3>3 DEF IInv, KernelTypes
      <4>2. ker'[q].ArgPtrs[j] = ker[k].ArgPtrs[j]
        <5> HIDE DEF copy
        <5> QED BY <1>1, <2>5, <2>6, <2>7, <3>3 DEF KernelType
      <4> QED BY <1>1, <3>1, <3>3, <4>1, <4>2 DEF IInv, ArgsNameTheirBuffers
    <3>4. CASE q = k /\ j = i
      <4>1. argOf'[q][j] = IF ArgKinds[i] = "Global" THEN v ELSE NoBuffer
        BY <1>1, <2>1, <2>5, <3>4 DEF IInv, KernelTypes
      <4>2. ker'[q].ArgPtrs[j] = copy
        <5> HIDE DEF copy
        <5> QED BY <1>1, <2>1, <2>5, <2>6, <2>7, <3>4 DEF KernelType
      <4> QED BY <1>1, <2>2, <3>1, <3>4, <4>1, <4>2 DEF Copied
    <3> QED BY <3>2, <3>3, <3>4
  <2> QED BY <1>2, <2>8, <2>10, <2>11 DEF IInv
<1> QED BY <1>3, <1>4

LEMMA IInvStep == IInv /\ [Next]_vars => IInv'
<1> SUFFICES ASSUME IInv, [Next]_vars PROVE IInv'
  OBVIOUS
<1>1. CASE BufferCall
  BY <1>1, BufferCallKeepsIInv
<1>2. CASE CreateKernel
  BY <1>2, CreateKernelKeepsIInv
<1>3. ASSUME NEW k \in Kernels, RetainKernel(k) PROVE IInv'
  BY <1>3, RetainKernelKeepsIInv
<1>4. ASSUME NEW k \in Kernels, ReleaseKernel(k) PROVE IInv'
  BY <1>4, ReleaseKernelKeepsIInv
<1>5. ASSUME UNCHANGED <<mem, MemObjMap, held, kerVars>> PROVE IInv'
  BY <1>5, OtherKeepsMemInv
     DEF IInv, kerVars, KernelTypes, OnlyLiveKernels, ArgsNameTheirBuffers
<1>6. ASSUME NEW k \in Kernels \cup {Null}, KernelRefused(k) PROVE IInv'
  BY <1>5, <1>6 DEF KernelRefused
<1>7. ASSUME NEW k \in Kernels, NEW i \in 0..NumArgs, NEW n \in ArgSizes,
             NEW v \in Mems \cup {Null, AValue}, SetArg(k, i, n, v)
      PROVE  IInv'
  BY <1>7, SetArgKeepsIInv
<1>8. CASE UNCHANGED vars
  BY <1>5, <1>8 DEF vars, memVars
<1> QED BY <1>1, <1>2, <1>3, <1>4, <1>6, <1>7, <1>8 DEF Next

-----------------------------------------------------------------------------
(* Objects, counts and argument copies have their types under every         *)
(* sequence of calls on buffers and kernels.                                *)
THEOREM KernelTypeCorrect == Spec => []TypeOK
<1>1. IInv => TypeOK
  BY DEF IInv, MemInv, MemType, KernelTypes, TypeOK
<1> QED BY <1>1, IInvInit, IInvStep, PTL DEF Spec

(* setArg's copy of Mem->Ptr is still the address of the buffer's block     *)
(* when a kernel is launched, as long as the buffer exists.                 *)
THEOREM LaunchFindsItsBuffers == Spec => []ArgsNameTheirBuffers
<1>1. IInv => ArgsNameTheirBuffers
  BY DEF IInv
<1> QED BY <1>1, IInvInit, IInvStep, PTL DEF Spec

(* A call that returns an error leaves every kernel as it was: setArg makes *)
(* all its checks before it frees the old copy.                             *)
THEOREM RefusedCallsKeepArgs == Spec => RefusedKeepsArgs
<1>1. IInv /\ [Next]_vars => [ret' # "CL_SUCCESS" => UNCHANGED ker]_vars
  <2> SUFFICES ASSUME IInv, Next, ret' # "CL_SUCCESS" PROVE UNCHANGED ker
    OBVIOUS
  <2>1. CASE BufferCall
    BY <2>1 DEF BufferCall
  <2>2. CASE CreateKernel
    BY <2>2 DEF CreateKernel
  <2>3. ASSUME NEW k \in Kernels \cup {Null}, RetainKernel(k) \/ ReleaseKernel(k) \/ KernelRefused(k)
        PROVE  UNCHANGED ker
    BY <2>3 DEF RetainKernel, ReleaseKernel, KernelRefused, kerVars
  <2>4. ASSUME NEW k \in Kernels, NEW i \in 0..NumArgs, NEW n \in ArgSizes,
               NEW v \in Mems \cup {Null, AValue}, SetArg(k, i, n, v)
        PROVE  UNCHANGED ker
    <3>1. ker' = [ker EXCEPT ![k] = KernelAfter(k, i, n, v)]
      BY <2>4 DEF SetArg
    <3>2. KernelAfter(k, i, n, v) = ker[k]
      BY <2>4 DEF SetArg, KernelAfter
    <3>3. ker \in [DOMAIN ker -> KernelType]
      BY DEF IInv, KernelTypes
    <3> QED BY <3>1, <3>2, <3>3
  <2> QED BY <2>1, <2>2, <2>3, <2>4 DEF Next
<1> QED BY <1>1, IInvInit, IInvStep, PTL DEF Spec, RefusedKeepsArgs

-----------------------------------------------------------------------------
(* The limit on the size of the arguments.  TotalArgSize also counts the    *)
(* copies that were replaced, so it bounds the sizes of those that are held.*)

SumOfSizes(K) == SumFunctionOnSet([i \in Args |-> K.ArgPtrs[i].Size], Args)

Within(K) == SumOfSizes(K) <= K.TotalArgSize /\ K.TotalArgSize <= MaxParam

LEMMA ArgsAreFinite == IsFiniteSet(Args)
BY FS_Interval DEF Args

LEMMA UnsetWithin ==
  Within([ArgPtrs |-> [i \in Args |-> Unset], TotalArgSize |-> 0])
<1> DEFINE K == [ArgPtrs |-> [i \in Args |-> Unset], TotalArgSize |-> 0]
           f == [i \in Args |-> K.ArgPtrs[i].Size]
<1>1. \A i \in Args : f[i] = 0
  BY DEF Unset
<1> HIDE DEF f
<1>2. SumFunctionOnSet(f, Args) = 0
  BY <1>1, ArgsAreFinite, SumZero
<1> QED BY <1>2 DEF Within, SumOfSizes, f

LEMMA WithArgWithin ==
  ASSUME NEW K \in KernelType, Within(K), NEW i \in Args, NEW copy \in [Size : Nat, value : ArgValues],
         K.TotalArgSize + copy.Size <= MaxParam
  PROVE  Within(WithArg(K, i, copy))
<1> DEFINE L == WithArg(K, i, copy)
           f == [j \in Args |-> K.ArgPtrs[j].Size]
           g == [j \in Args |-> L.ArgPtrs[j].Size]
<1>1. /\ L.TotalArgSize = K.TotalArgSize + copy.Size /\ K.TotalArgSize \in Nat /\ copy.Size \in Nat
      /\ L.ArgPtrs = [K.ArgPtrs EXCEPT ![i] = copy]
  BY DEF WithArg, KernelType
<1>2. \A j \in Args : f[j] \in Nat
  BY DEF KernelType
<1>3. g[i] = copy.Size /\ \A j \in Args \ {i} : g[j] = f[j]
  BY <1>1 DEF KernelType
<1> HIDE DEF f, g, L
<1>4. \A j \in Args : f[j] \in Nat /\ g[j] \in Nat
  BY <1>1, <1>2, <1>3
<1>5. SumFunctionOnSet(g, Args) + f[i] = SumFunctionOnSet(f, Args) + g[i]
  BY <1>3, <1>4, ArgsAreFinite, SumExcept
<1>6. SumFunctionOnSet(f, Args) \in Nat /\ SumFunctionOnSet(g, Args) \in Nat
  BY <1>4, ArgsAreFinite, SumType
<1>7. SumFunctionOnSet(f, Args) <= K.TotalArgSize
  BY DEF Within, SumOfSizes, f
<1>8. SumFunctionOnSet(g, Args) <= L.TotalArgSize
  BY <1>1, <1>2, <1>3, <1>5, <1>6, <1>7
<1> QED BY <1>1, <1>8 DEF Within, SumOfSizes, g, L

LimitInv == \A k \in DOMAIN ker : Within(ker[k])

LEMMA LimitStep ==
  ASSUME IInv, LimitInv, [Next]_vars
  PROVE  LimitInv'
<1>1. ASSUME UNCHANGED ker PROVE LimitInv'
  BY <1>1 DEF LimitInv, Within, SumOfSizes
<1>2. ASSUME \A k \in DOMAIN ker' : Within(ker'[k]) PROVE LimitInv'
  BY <1>2 DEF LimitInv, Within, SumOfSizes
<1>3. CASE CreateKernel
  <2>1. PICK k \in Kernels \ DOMAIN ker :
          ker' = [q \in DOMAIN ker \cup {k} |->
                    IF q = k THEN [ArgPtrs |-> [i \in Args |-> Unset], TotalArgSize |-> 0]
                             ELSE ker[q]]
    BY <1>3 DEF CreateKernel
  <2>2. \A q \in DOMAIN ker' : Within(ker'[q])
    BY <2>1, UnsetWithin DEF LimitInv
  <2> QED BY <1>2, <2>2
<1>4. ASSUME NEW k \in Kernels, ReleaseKernel(k) PROVE LimitInv'
  <2> DEFINE D == DOMAIN Released(KernelMap, k)
  <2>1. ker' = [q \in D |-> ker[q]]
    BY <1>4 DEF ReleaseKernel
  <2>2. D \subseteq DOMAIN ker
    BY <1>4 DEF ReleaseKernel, Released, IInv, KernelTypes
  <2> HIDE DEF D
  <2>3. \A q \in DOMAIN ker' : Within(ker'[q])
    BY <2>1, <2>2 DEF LimitInv
  <2> QED BY <1>2, <2>3
<1>5. ASSUME NEW k \in Kernels, NEW i \in 0..NumArgs, NEW n \in ArgSizes,
             NEW v \in Mems \cup {Null, AValue}, SetArg(k, i, n, v)
      PROVE  LimitInv'
  <2>1. ker' = [ker EXCEPT ![k] = KernelAfter(k, i, n, v)] /\ k \in DOMAIN ker
    BY <1>5 DEF SetArg
  <2>2. Within(KernelAfter(k, i, n, v))
    <3>1. CASE SetArgError(k, i, n, v) # "CL_SUCCESS"
      BY <2>1, <3>1 DEF KernelAfter, LimitInv
    <3>2. CASE SetArgError(k, i, n, v) = "CL_SUCCESS"
      <4>1. ker[k] \in KernelType /\ Within(ker[k]) /\ n \in Nat
        BY <2>1 DEF IInv, KernelTypes, LimitInv
      <4>2. /\ i \in Args /\ KindError(i, n, v) = "CL_SUCCESS"
            /\ ~(ker[k].TotalArgSize + n > MaxParam)
        BY <3>2 DEF SetArgError
      <4>3. ArgKinds[i] = "Global" => mem[v].Ptr \in SizeT
        <5>1. ArgKinds[i] = "Global" => v \in DOMAIN mem
          BY <4>2 DEF KindError, IInv, MemInv, MemType
        <5> QED BY <5>1 DEF IInv, MemInv, MemType, BufferType
      <4>4. Copied(i, n, v) \in [Size : Nat, value : ArgValues] /\ Copied(i, n, v).Size = n
        BY <4>1, <4>3 DEF Copied, ArgValues
      <4>5. ker[k].TotalArgSize + n <= MaxParam
        <5>1. ker[k].TotalArgSize \in Nat
          BY <4>1 DEF KernelType
        <5> QED BY <4>1, <4>2, <5>1
      <4>6. KernelAfter(k, i, n, v) = WithArg(ker[k], i, Copied(i, n, v))
        BY <3>2 DEF KernelAfter
      <4> DEFINE copy == Copied(i, n, v)
      <4>7. Within(WithArg(ker[k], i, copy))
        <5>1. copy \in [Size : Nat, value : ArgValues] /\ ker[k].TotalArgSize + copy.Size <= MaxParam
          BY <4>4, <4>5
        <5> HIDE DEF copy
        <5> QED BY <4>1, <4>2, <5>1, WithArgWithin
      <4> QED BY <4>6, <4>7
    <3> QED BY <3>1, <3>2
  <2> DEFINE K == KernelAfter(k, i, n, v)
  <2>3. Within(K) /\ ker' = [ker EXCEPT ![k] = K]
    BY <2>1, <2>2
  <2> HIDE DEF K
  <2>4. \A q \in DOMAIN ker' : Within(ker'[q])
    BY <2>1, <2>3 DEF LimitInv, IInv, KernelTypes
  <2> QED BY <1>2, <2>4
<1>6. CASE BufferCall
  BY <1>1, <1>6 DEF BufferCall
<1>7. ASSUME NEW k \in Kernels \cup {Null}, RetainKernel(k) \/ KernelRefused(k) PROVE LimitInv'
  BY <1>1, <1>7 DEF RetainKernel, KernelRefused, kerVars
<1>8. CASE UNCHANGED vars
  BY <1>1, <1>8 DEF vars, kerVars
<1> QED BY <1>3, <1>4, <1>5, <1>6, <1>7, <1>8 DEF Next

(* setArg keeps the copies of a kernel within CL_DEVICE_MAX_PARAMETER_SIZE, *)
(* for every parameter list, every limit and every sequence of calls.       *)
THEOREM LimitHolds == Spec => []ArgsWithinLimit
<1>1. Init => LimitInv
  BY DEF Init, LimitInv
<1>2. LimitInv => ArgsWithinLimit
  BY DEF LimitInv, Within, SumOfSizes, ArgsWithinLimit, ArgsSize
<1>3. IInv /\ LimitInv /\ [Next]_vars => LimitInv'
  BY LimitStep
<1> QED BY <1>1, <1>2, <1>3, IInvInit, IInvStep, PTL DEF Spec
=============================================================================
