----------------------------- MODULE KernelArgs -----------------------------
(***************************************************************************)
(* Kernel objects and their arguments: clCreateKernel, clSetKernelArg,      *)
(* clRetainKernel and clReleaseKernel, beside the buffers the arguments     *)
(* name (module MemoryObjects).  An argument is copied when it is set: for  *)
(* a __global parameter the copy is the address of the buffer's block, and  *)
(* nothing keeps the buffer alive.  Kernels are made from one kernel        *)
(* function, whose program stays built.                                     *)
(***************************************************************************)
EXTENDS MemoryObjects, Functions

CONSTANTS Kernels,   \* addresses the allocator has for cl_kernel objects
          NumArgs,   \* number of parameters of the kernel function
          ArgKinds,  \* their kinds, from 0
          PtrSize,   \* sizeof(cl_mem)
          ArgSizes,  \* sizes clSetKernelArg is called with
          MaxParam,  \* _SOCL_CL_DEVICE_MAX_PARAMETER_SIZE
          Null,      \* NULL
          AValue,    \* the bytes of an argument passed by value
          NoBuffer   \* no buffer

ASSUME NumArgsAssumption == NumArgs \in Nat
ASSUME ArgKindsAssumption == ArgKinds \in [0..(NumArgs - 1) -> {"Global", "Value"}]
ASSUME MemsAssumption == NoBuffer \notin Mems /\ Null \notin Mems /\ AValue \notin Mems
ASSUME PtrSizeAssumption == PtrSize \in Nat
ASSUME ArgSizesAssumption == ArgSizes \subseteq Nat
ASSUME MaxParamAssumption == MaxParam \in Nat

(* TotalArgSize + Size fits size_t.                                         *)
ASSUME NoWrapAssumption == \A n \in ArgSizes : MaxParam + n < 2^Width

VARIABLES
  ker,       \* the _cl_kernel objects that exist
  KernelMap, \* their reference counts
  argOf      \* history: the buffer each argument was last set to, while it exists

kerVars == <<ker, KernelMap, argOf>>
vars == <<memVars, kerVars>>

Args == 0..(NumArgs - 1)

(* No block has been allocated for the argument.                            *)
Unset == [Size |-> 0, value |-> Null]

Init ==
  /\ MemInit
  /\ ker = [k \in {} |-> {}]
  /\ KernelMap = EmptyMap
  /\ argOf = [k \in Kernels |-> [i \in Args |-> NoBuffer]]

CreateKernel ==
  /\ \E k \in Kernels \ DOMAIN ker :
       /\ ker' = [q \in DOMAIN ker \cup {k} |->
                    IF q = k THEN [ArgPtrs |-> [i \in Args |-> Unset], TotalArgSize |-> 0]
                             ELSE ker[q]]
       /\ KernelMap' = Added(KernelMap, k)
  /\ ret' = "CL_SUCCESS"
  /\ UNCHANGED <<mem, MemObjMap, heap, writes, got, held, argOf>>

RetainKernel(k) ==
  /\ k \in DOMAIN KernelMap
  /\ KernelMap[k] < MaxRefs
  /\ KernelMap' = Retained(KernelMap, k)
  /\ ret' = "CL_SUCCESS"
  /\ UNCHANGED <<mem, MemObjMap, heap, writes, got, held, ker, argOf>>

(* The last reference deletes the kernel and its arguments' copies.         *)
ReleaseKernel(k) ==
  /\ k \in DOMAIN KernelMap
  /\ KernelMap' = Released(KernelMap, k)
  /\ ker' = [q \in DOMAIN KernelMap' |-> ker[q]]
  /\ argOf' = IF k \in DOMAIN ker' THEN argOf
              ELSE [argOf EXCEPT ![k] = [i \in Args |-> NoBuffer]]
  /\ ret' = "CL_SUCCESS"
  /\ UNCHANGED <<mem, MemObjMap, heap, writes, got, held>>

(* NULL, also for clSetKernelArg, and what is no kernel any more.           *)
KernelRefused(k) ==
  /\ k \notin DOMAIN KernelMap
  /\ ret' = "CL_INVALID_KERNEL"
  /\ UNCHANGED <<mem, MemObjMap, heap, writes, got, held, kerVars>>

-----------------------------------------------------------------------------
(* setArg: the index, then what the parameter's kind asks for, then the     *)
(* limit.  Each success adds to TotalArgSize, also when it replaces a copy. *)

KindError(i, n, v) ==
  CASE ArgKinds[i] = "Global" /\ v \notin DOMAIN MemObjMap -> "CL_INVALID_MEM_OBJECT"
    [] ArgKinds[i] = "Global" /\ v \in DOMAIN MemObjMap /\ n # PtrSize -> "CL_INVALID_ARG_SIZE"
    [] ArgKinds[i] = "Value" /\ v = Null -> "CL_INVALID_ARG_VALUE"
    [] OTHER -> "CL_SUCCESS"

SetArgError(k, i, n, v) ==
  IF i \notin Args THEN "CL_INVALID_ARG_INDEX"
  ELSE IF KindError(i, n, v) # "CL_SUCCESS" THEN KindError(i, n, v)
  ELSE IF ker[k].TotalArgSize + n > MaxParam THEN "CL_INVALID_ARG_SIZE" ELSE "CL_SUCCESS"

(* What is copied: the address of the buffer's block, or the value itself.  *)
Copied(i, n, v) ==
  [Size |-> n, value |-> IF ArgKinds[i] = "Global" THEN mem[v].Ptr ELSE v]

\* Mutant: an argument that has a copy of the same size keeps it.
WithArgSameSize(K, i, copy) ==
  IF K.ArgPtrs[i].Size = copy.Size THEN K
  ELSE [ArgPtrs |-> [K.ArgPtrs EXCEPT ![i] = copy], TotalArgSize |-> K.TotalArgSize + copy.Size]

\* Mutant: the size of the new copy is not added.
WithArgReplacing(K, i, copy) ==
  [ArgPtrs |-> [K.ArgPtrs EXCEPT ![i] = copy],
   TotalArgSize |-> K.TotalArgSize - K.ArgPtrs[i].Size]

(* The copy takes the place of the old one; its size is added to the total. *)
WithArg(K, i, copy) ==
  [ArgPtrs |-> [K.ArgPtrs EXCEPT ![i] = copy], TotalArgSize |-> K.TotalArgSize + copy.Size]

\* Mutant: the old copy is freed before the limit is checked.
KernelAfterFreeFirst(k, i, n, v) ==
  IF SetArgError(k, i, n, v) = "CL_SUCCESS" THEN WithArg(ker[k], i, Copied(i, n, v))
  ELSE IF i \in Args THEN [ker[k] EXCEPT !.ArgPtrs[i] = Unset] ELSE ker[k]

KernelAfter(k, i, n, v) ==
  IF SetArgError(k, i, n, v) = "CL_SUCCESS" THEN WithArg(ker[k], i, Copied(i, n, v)) ELSE ker[k]

SetArg(k, i, n, v) ==
  /\ k \in DOMAIN ker
  /\ ret' = SetArgError(k, i, n, v)
  /\ ker' = [ker EXCEPT ![k] = KernelAfter(k, i, n, v)]
  /\ argOf' = IF ret' # "CL_SUCCESS" THEN argOf
              ELSE [argOf EXCEPT ![k][i] = IF ArgKinds[i] = "Global" THEN v ELSE NoBuffer]
  /\ UNCHANGED <<mem, MemObjMap, heap, writes, got, held, KernelMap>>

(* The calls on buffers leave kernels alone; a buffer that dies is no       *)
(* argument any more, though its address still is.                          *)
BufferCall ==
  /\ \/ \E c \in Contexts, F \in FlagSets, n \in Sizes : CreateBuffer(c, F, n)
     \/ \E m \in Mems : RetainMem(m) \/ ReleaseMem(m)
  /\ argOf' = [k \in Kernels |-> [i \in Args |->
                 IF argOf[k][i] \in DOMAIN mem' THEN argOf[k][i] ELSE NoBuffer]]
  /\ UNCHANGED <<ker, KernelMap>>

Next ==
  \/ BufferCall
  \/ CreateKernel
  \/ \E k \in Kernels : RetainKernel(k) \/ ReleaseKernel(k)
  \/ \E k \in Kernels \cup {Null} : KernelRefused(k)
  \/ \E k \in Kernels, i \in 0..NumArgs, n \in ArgSizes, v \in Mems \cup {Null, AValue} :
       SetArg(k, i, n, v)

Spec == Init /\ [][Next]_vars

-----------------------------------------------------------------------------
ArgValues == Mems \cup {Null, AValue} \cup SizeT

KernelType == [ArgPtrs : [Args -> [Size : Nat, value : ArgValues]], TotalArgSize : Nat]

(* The type invariant.                                                      *)
TypeOK ==
  /\ mem \in [DOMAIN mem -> BufferType] /\ DOMAIN mem \subseteq Mems
  /\ MemObjMap \in [DOMAIN mem -> Nat \ {0}]
  /\ held \in [Mems -> Nat]
  /\ ker \in [DOMAIN ker -> KernelType] /\ DOMAIN ker \subseteq Kernels
  /\ KernelMap \in [DOMAIN ker -> Nat \ {0}]
  /\ argOf \in [Kernels -> [Args -> Mems \cup {NoBuffer}]]

(* A launch finds at every __global argument the block of the buffer it was *)
(* set to, as long as that buffer exists: the address copied at the call is *)
(* still the buffer's, whatever was created, released or refused since.     *)
ArgsNameTheirBuffers ==
  \A k \in DOMAIN ker, i \in Args :
    argOf[k][i] # NoBuffer =>
      /\ ArgKinds[i] = "Global"
      /\ argOf[k][i] \in DOMAIN mem
      /\ ker[k].ArgPtrs[i] = [Size |-> PtrSize, value |-> mem[argOf[k][i]].Ptr]

ArgsSize(k, S) == SumFunctionOnSet([i \in Args |-> ker[k].ArgPtrs[i].Size], S)

(* The copies a kernel holds never exceed the device's limit, although the  *)
(* check looks at a total that also counts the copies they replaced.        *)
ArgsWithinLimit ==
  \A k \in DOMAIN ker :
    /\ ArgsSize(k, Args) <= ker[k].TotalArgSize
    /\ ker[k].TotalArgSize <= MaxParam

(* A refused call leaves every kernel as it was: an earlier good argument   *)
(* is still there for the next launch.                                      *)
RefusedKeepsArgs == [][ret' # "CL_SUCCESS" => UNCHANGED ker]_vars

(* An argument of the right kind that fits beside the other arguments can   *)
(* be set, also when it was set before (kernel.c sets the arguments of the  *)
(* same kernels before every launch and expects CL_SUCCESS each time).      *)
FittingArgAccepted ==
  [][\A k \in DOMAIN ker, i \in Args, n \in ArgSizes, v \in Mems \cup {AValue} :
       /\ SetArg(k, i, n, v)
       /\ KindError(i, n, v) = "CL_SUCCESS"
       /\ ArgsSize(k, Args \ {i}) + n <= MaxParam
       => ret' = "CL_SUCCESS"]_vars
=============================================================================
