--------------------------- MODULE KernelVectorizer ---------------------------
(***************************************************************************)
(* KernelVectorizer: the kernels of a program, one after the other, are     *)
(* cloned and rewritten so that one call computes a vector of work items.   *)
(* The walk starts at the stores and follows the stored values.             *)
(*                                                                         *)
(* A kernel is the sequence of its values after mem2reg: the call of        *)
(* get_global_id(0), the parameters passed by value, then its instructions. *)
(* The getelementptr of a load or store is part of it (arr, idx), and the   *)
(* block it stands in is named by the value its branch tests (block; 0 is   *)
(* the entry).  A type is its number of bits.  A value is its place in F,   *)
(* so a clone may reuse the addresses of one that was erased.               *)
(*                                                                         *)
(* Bound: a kernel is a straight line with at most one branch, taken or not *)
(* to its end.  There are no loops and no phis; at a phi the walk would     *)
(* give up, as it does here at the other values it does not support.        *)
(***************************************************************************)
EXTENDS Integers, Sequences, FiniteSets, SequencesExt

CONSTANTS ElementBits, \* from the __global arrays to the bits of their elements
          Params,      \* widths of the parameters passed by value, in order
          Binary,      \* binary opcodes of the kernels
          GroupSize,   \* work items of the work group the clone is run for
          Top,         \* the arrays have the elements 0 to Top
          Threshold,   \* a branch is taken for values below
          MaxKernels,  \* bound: kernels in the program
          MaxLength    \* bound: instructions of all the kernels

(* The sizes of OpenCL's scalar types, and LLVM's binary operators.         *)
Widths == {8, 16, 32, 64, 128}
Arithmetic == {"Add", "FAdd", "Sub", "FSub", "Mul", "FMul", "SDiv", "UDiv", "FDiv"}
BinaryOps == Arithmetic \cup {"URem", "SRem", "FRem", "Shl", "LShr", "AShr", "And", "Or", "Xor"}

ASSUME ElementBitsAssumption == ElementBits \in [DOMAIN ElementBits -> Widths]
ASSUME ParamsAssumption == Params \in Seq(Widths)
ASSUME BinaryAssumption == Binary \subseteq BinaryOps
ASSUME GroupSizeAssumption == GroupSize \in Nat \ {0}
ASSUME TopAssumption == Top \in Nat
ASSUME ThresholdAssumption == Threshold \in Int
ASSUME MaxKernelsAssumption == MaxKernels \in Nat \ {0}
ASSUME MaxLengthAssumption == MaxLength \in Nat \ {0}

UnitBitWidth == 128

Arrays == DOMAIN ElementBits

VARIABLES
  F,            \* the kernel
  block,        \* block the next instruction goes to
  length,       \* instructions of the program so far
  kernels,      \* kernels of the program so far
  SeedValues,   \* members of the vectorizer, which serves all the kernels
  EraseInstrs,
  VecValueMap,  \* elements of the vector each value was given; mask: of the mask
  calls,        \* the values vectorizeValue is called for, the innermost call first, and
                \* then the seeds the loop in doVectorization has yet to come to
  vectorized    \* the elements of the kernel's vectors, or 0: the clone is gone

vars == <<F, block, length, kernels, SeedValues, EraseInstrs, VecValueMap, calls, vectorized>>

Mask == 0      \* VecValueMap[&F]
Pending == -1  \* the kernel has not been vectorized yet
Walking == -2  \* vectorizeKernel is at work

Call == [op |-> "call", ty |-> 64, opnds |-> <<>>, arr |-> "", idx |-> 0, block |-> 0]

Prologue == <<Call>> \o [p \in DOMAIN Params |-> [Call EXCEPT !.op = "arg", !.ty = Params[p]]]

-----------------------------------------------------------------------------
(* getNumSVEElmnts, for the types a vector can have.                        *)
NumSVEElmnts(ty) == IF ty = 0 THEN 0 ELSE UnitBitWidth \div ty

IsUnaryOp(I) == I.op = "FNeg"
IsBinaryOp(I) == I.op \in Binary

(* collectSeedValues.                                                       *)
WithSeed(K, seeds, i) == IF K[i].op = "store" THEN Append(seeds, i) ELSE seeds

Seeds(K) ==
  LET seeds[i \in 0..Len(K)] == IF i = 0 THEN <<>> ELSE WithSeed(K, seeds[i - 1], i)
  IN seeds[Len(K)]

(* calcNumSVEElmnts, of the value v of K and of all its values.             *)
NumOf(K, num, v) ==
  LET n == NumSVEElmnts(K[v].ty)
  IN CASE K[v].op \in {"arg", "load"} -> n
       [] K[v].op = "store" -> num[K[v].opnds[1]]
       [] IsUnaryOp(K[v]) \/ IsBinaryOp(K[v]) ->
            IF \A o \in DOMAIN K[v].opnds : num[K[v].opnds[o]] = n THEN n ELSE 0
       [] OTHER -> 0

CalcNumSVEElmnts(K) == LET num[v \in DOMAIN K] == NumOf(K, num, v) IN num

(* The number of elements all the seeds agree on, or 0.                     *)
\* Mutant: the first seed decides.
CommonElmntsOfFirst(K) == IF Seeds(K) = <<>> THEN 0 ELSE CalcNumSVEElmnts(K)[Seeds(K)[1]]

CommonElmnts(K) ==
  LET nums == {CalcNumSVEElmnts(K)[s] : s \in Range(Seeds(K))}
  IN IF Cardinality(nums) = 1 THEN CHOOSE n \in nums : TRUE ELSE 0

-----------------------------------------------------------------------------
(* The front end adds an instruction: operands of the right types, from the *)
(* entry block or the one the instruction is in.                            *)
Visible(v) == F[v].ty # 0 /\ F[v].block \in {0, block}
Values(ty) == {v \in DOMAIN F : F[v].ty = ty /\ Visible(v)}

Emit(op, ty, opnds, arr, idx) ==
  F' = Append(F, [op |-> op, ty |-> ty, opnds |-> opnds, arr |-> arr, idx |-> idx, block |-> block])

EmitInstruction ==
  /\ length < MaxLength
  /\ length' = length + 1
  /\ vectorized = Pending
  /\ \/ \E a \in Arrays : \E i \in Values(64) :
          \/ Emit("load", ElementBits[a], <<>>, a, i)
          \/ \E v \in Values(ElementBits[a]) : Emit("store", 0, <<v>>, a, i)
     \/ \E v \in Values(32) : Emit("FNeg", 32, <<v>>, "", 0) \/ Emit("cast", 64, <<v>>, "", 0)
     \/ \E op \in Binary, ty \in {32, 64} : \E u, v \in Values(ty) : Emit(op, ty, <<u, v>>, "", 0)
  /\ UNCHANGED <<block, kernels, SeedValues, EraseInstrs, VecValueMap, calls, vectorized>>

(* The rest of the kernel is under a condition on v.                        *)
EmitBranch ==
  /\ block = 0 /\ vectorized = Pending
  /\ \E v \in {u \in DOMAIN F : Visible(u)} : block' = v
  /\ UNCHANGED <<F, length, kernels, SeedValues, EraseInstrs, VecValueMap, calls, vectorized>>

-----------------------------------------------------------------------------
(* vectorizeKernel clears what the kernel before has left, and creates the  *)
(* mask if the seeds agree on a number of elements.                         *)
\* Mutant: the map of the values is not cleared.
ClearedKeepsMap == VecValueMap

Cleared == [v \in {} |-> 0]

Entered(map, v, n) == [u \in DOMAIN map \cup {v} |-> IF u = v THEN n ELSE map[u]]

VectorizeKernel ==
  /\ vectorized = Pending
  /\ SeedValues' = Seeds(F) /\ EraseInstrs' = <<>>
  /\ \/ /\ CommonElmnts(F) = 0
        /\ VecValueMap' = Cleared /\ vectorized' = 0
        /\ UNCHANGED calls
     \/ /\ CommonElmnts(F) # 0
        /\ VecValueMap' = Entered(Cleared, Mask, CommonElmnts(F))
        /\ calls' = Seeds(F) /\ vectorized' = Walking
  /\ UNCHANGED <<F, block, length, kernels>>

(* One call of vectorizeValue, for a value that is not in the map yet: it   *)
(* calls itself for the operands that are not, in order, and then enters    *)
(* the vector and puts the instruction on the list of those to erase.       *)
Value == Head(calls)
Instr == F[Value]

\* Mutant: the right operand is not looked at.
MissingLeft(opnds) == {o \in DOMAIN opnds : o = 1 /\ opnds[o] \notin DOMAIN VecValueMap}

Missing(opnds) == {o \in DOMAIN opnds : opnds[o] \notin DOMAIN VecValueMap}

InWalk == vectorized = Walking /\ calls # <<>>
Kept == UNCHANGED <<F, block, length, kernels, SeedValues>>

VectorizeOperand ==
  /\ InWalk /\ Instr.op \in {"store"} \cup Arithmetic
  /\ \E o \in Missing(Instr.opnds) :
       /\ \A p \in Missing(Instr.opnds) : o <= p
       /\ calls' = <<Instr.opnds[o]>> \o calls
  /\ UNCHANGED <<EraseInstrs, VecValueMap, vectorized>> /\ Kept

DuplicateConstValue ==
  /\ InWalk /\ Instr.op = "arg"
  /\ VecValueMap' = Entered(VecValueMap, Value, NumSVEElmnts(Instr.ty))
  /\ calls' = Tail(calls)
  /\ UNCHANGED <<EraseInstrs, vectorized>> /\ Kept

(* vectorizeLoad and vectorizeBinaryArithmetic.                             *)
VectorizeResult ==
  /\ InWalk /\ Instr.op \in {"load"} \cup Arithmetic /\ Missing(Instr.opnds) = {}
  /\ VecValueMap' = Entered(VecValueMap, Value, NumSVEElmnts(Instr.ty))
  /\ EraseInstrs' = Append(EraseInstrs, Value)
  /\ calls' = Tail(calls)
  /\ UNCHANGED vectorized /\ Kept

VectorizeStore ==
  /\ InWalk /\ Instr.op = "store" /\ Missing(Instr.opnds) = {}
  /\ EraseInstrs' = Append(EraseInstrs, Value)
  /\ calls' = Tail(calls)
  /\ UNCHANGED <<VecValueMap, vectorized>> /\ Kept

(* An instruction that is not supported: all calls fail, the clone is erased.*)
GiveUp ==
  /\ InWalk /\ Instr.op \notin {"arg", "load", "store"} \cup Arithmetic
  /\ calls' = <<>> /\ vectorized' = 0
  /\ UNCHANGED <<EraseInstrs, VecValueMap>> /\ Kept

(* The instructions are erased in the order of EraseInstrs.                 *)
\* Mutant: the instructions are erased in the order they were met.
EraseInWalkOrder(erase) == erase

EraseOrder(erase) == Reverse(erase)

EraseAll ==
  /\ vectorized = Walking /\ calls = <<>>
  /\ EraseInstrs' = EraseOrder(EraseInstrs)
  /\ vectorized' = VecValueMap[Mask]
  /\ UNCHANGED <<VecValueMap, calls>> /\ Kept

VectorizeValue == VectorizeOperand \/ DuplicateConstValue \/ VectorizeResult \/ VectorizeStore \/ GiveUp

NextKernel ==
  /\ vectorized \notin {Pending, Walking} /\ kernels < MaxKernels
  /\ Len(F) > Len(Prologue)   \* bound: an empty kernel is the last one
  /\ kernels' = kernels + 1
  /\ F' = Prologue /\ block' = 0 /\ vectorized' = Pending
  /\ UNCHANGED <<length, SeedValues, EraseInstrs, VecValueMap, calls>>

Init ==
  /\ F = Prologue /\ block = 0 /\ length = 0 /\ kernels = 1
  /\ SeedValues = <<>> /\ EraseInstrs = <<>> /\ VecValueMap = [v \in {} |-> 0]
  /\ calls = <<>> /\ vectorized = Pending

Next == EmitInstruction \/ EmitBranch \/ VectorizeKernel \/ VectorizeValue \/ EraseAll \/ NextKernel

Spec == Init /\ [][Next]_vars

-----------------------------------------------------------------------------
(* A run of K over the lanes of one call, the first work item being base.   *)
(* An instruction of vec works on every lane; any other, and every address  *)
(* and condition, has the value of lane 0.  The scalar kernel is the call   *)
(* with the one lane 0.  Memory cells are <<array, index>>.                 *)
Apply(op, x, y) == IF op = "Sub" THEN x - y ELSE x + y

Reached(K, r, i) == K[i].block = 0 \/ r.env[K[i].block][0] < Threshold

Cell(K, r, i, k) == <<K[i].arr, r.env[K[i].idx][0] + k>>

Touched(K, vec, lanes, r, i) == {Cell(K, r, i, k) : k \in IF i \in vec THEN lanes ELSE {0}}

Load(K, r, i, k) == IF Cell(K, r, i, k) \in DOMAIN r.mem THEN r.mem[Cell(K, r, i, k)] ELSE 0

Result(K, r, i, k) ==
  LET Val(o) == r.env[K[i].opnds[o]][k]
  IN CASE K[i].op = "call" -> r.base
       [] K[i].op = "arg" -> 1
       [] K[i].op = "load" -> Load(K, r, i, k)
       [] K[i].op = "store" -> 0
       [] K[i].op \in Binary -> Apply(K[i].op, Val(1), Val(2))
       [] OTHER -> Val(1)

Results(K, vec, lanes, r, i) ==
  [k \in lanes |-> IF Reached(K, r, i) THEN Result(K, r, i, IF i \in vec THEN k ELSE 0) ELSE 0]

Store(K, vec, lanes, r, i) ==
  LET cells == Touched(K, vec, lanes, r, i)
  IN [c \in DOMAIN r.mem |->
        IF c \in cells THEN r.env[K[i].opnds[1]][c[2] - r.env[K[i].idx][0]] ELSE r.mem[c]]

Step(K, vec, lanes, r, i) ==
  LET Does(op) == K[i].op = op /\ Reached(K, r, i)
      touched == Touched(K, vec, lanes, r, i)
  IN [base |-> r.base,
      env |-> Append(r.env, Results(K, vec, lanes, r, i)),
      mem |-> IF Does("store") THEN Store(K, vec, lanes, r, i) ELSE r.mem,
      read |-> IF Does("load") THEN r.read \cup touched ELSE r.read,
      written |-> IF Does("store") THEN r.written \cup touched ELSE r.written]

(* The states of the run, after each of its instructions.                   *)
RunStates(K, vec, lanes, base, mem) ==
  LET start == [base |-> base, env |-> <<>>, mem |-> mem, read |-> {}, written |-> {}]
      run[i \in 0..Len(K)] == IF i = 0 THEN start ELSE Step(K, vec, lanes, run[i - 1], i)
  IN run

RunCall(K, vec, lanes, base, mem) == RunStates(K, vec, lanes, base, mem)[Len(K)]

(* The calls of the wrapper's loop: one per work item, or one per vector    *)
(* with the lanes that whilelo leaves active.                               *)
Memory == [c \in Arrays \X (0..Top) |-> 5 * c[2] + ElementBits[c[1]]]

FirstId == 2

ScalarCall(K, t, mem) == RunCall(K, {}, {0}, FirstId + t, mem)

ScalarResult(K) ==
  LET mem[t \in 0..GroupSize] == IF t = 0 THEN Memory ELSE ScalarCall(K, t - 1, mem[t - 1]).mem
  IN mem[GroupSize]

\* Mutant: all lanes are active in every call.
ActiveLanesUnmasked(n, base) == 0..(n - 1)

ActiveLanes(n, base) == {k \in 0..(n - 1) : base + k < GroupSize}

VectorCall(K, vec, n, base, mem) ==
  IF base >= GroupSize THEN mem
  ELSE RunCall(K, vec, ActiveLanes(n, base), FirstId + base, mem).mem

VectorResult(K, vec, n) ==
  LET mem[t \in 0..GroupSize] ==
        IF t = 0 THEN Memory ELSE VectorCall(K, vec, n, (t - 1) * n, mem[t - 1])
  IN mem[GroupSize]

-----------------------------------------------------------------------------
Erased == Range(EraseInstrs)

(* What is left in the clone and uses v: the getelementptr of an address,   *)
(* the condition of the branch, or an instruction that stays scalar.  Such  *)
(* a kernel (t = b[i]; a[t] = t) loses a value it needs.                    *)
KeptUse(v) ==
  \/ v = block
  \/ \E i \in DOMAIN F : F[i].idx = v \/ (i \notin Erased /\ v \in Range(F[i].opnds))

NoUserLeft == \A v \in Erased : ~KeptUse(v)

(* Every instruction is erased once, after all the erased ones that use it, *)
(* also when a value has several users and the walk meets it again.         *)
ErasedAfterUsers ==
  vectorized > 0 =>
    /\ IsInjective(EraseInstrs)
    /\ \A p, q \in DOMAIN EraseInstrs :
         EraseInstrs[p] \in Range(F[EraseInstrs[q]].opnds) => q < p

(* All the vectors of a clone have as many elements as its one mask.        *)
OneElementCount ==
  vectorized > 0 => \A v \in DOMAIN VecValueMap : VecValueMap[v] = vectorized

(* The values that what is stored is computed from.                         *)
Feeds(K, stored, v) ==
  \E u \in (v + 1)..Len(K) : v \in Range(K[u].opnds) /\ (K[u].op = "store" \/ stored[u])

Stored(K) ==
  LET stored[v \in DOMAIN K] == Feeds(K, stored, v) IN {v \in DOMAIN K : stored[v]}

(* A kernel is vectorized exactly when it stores something, and all that    *)
(* the stored values are computed from is loads, parameters and supported   *)
(* arithmetic of one width; and whatever happened to the kernels before.    *)
VectorizedIffSupported ==
  vectorized \notin {Pending, Walking} =>
    (vectorized > 0 <=>
       /\ \A v \in Stored(F) : F[v].op \in {"arg", "load"} \cup Arithmetic
       /\ Cardinality({F[v].ty : v \in Stored(F)}) = 1)

(* By how much a value grows from a work item to the next; 2 if not at all  *)
(* that simple.                                                             *)
StrideOf(K, stride, v) ==
  LET s == [o \in DOMAIN K[v].opnds |-> stride[K[v].opnds[o]]]
  IN CASE K[v].op = "call" -> 1
       [] K[v].op = "arg" -> 0
       [] K[v].op = "load" -> IF stride[K[v].idx] = 0 THEN 0 ELSE 2
       [] K[v].op = "cast" -> s[1]
       [] K[v].op \in {"Add", "Sub"} ->
            LET d == Apply(K[v].op, s[1], s[2]) IN IF 2 \notin Range(s) /\ d \in {0, 1} THEN d ELSE 2
       [] OTHER -> IF Range(s) = {0} THEN 0 ELSE 2

Strides(K) == LET stride[v \in DOMAIN K] == StrideOf(K, stride, v) IN stride

(* The kernels the rewriting is meant for: neighbouring work items work on  *)
(* neighbouring elements under a condition that does not depend on them.    *)
Regular ==
  /\ \A i \in Erased : F[i].op \in {"load", "store"} => Strides(F)[F[i].idx] = 1
  /\ \A i \in DOMAIN F : F[i].block # 0 => Strides(F)[F[i].block] = 0

(* No work item reads or writes what another one writes, nor leaves its     *)
(* arrays: the order of the items does not matter.                          *)
Independent ==
  LET call == [t \in 0..(GroupSize - 1) |-> ScalarCall(F, t, Memory)]
  IN \A t \in DOMAIN call :
       /\ call[t].read \cup call[t].written \subseteq DOMAIN Memory
       /\ \A u \in DOMAIN call \ {t} :
            call[t].written \cap (call[u].read \cup call[u].written) = {}

(* The vectorized clone leaves in memory what the work items would, one     *)
(* after the other, also when the last vector is not full.                  *)
VectorMatchesScalar ==
  vectorized > 0 /\ NoUserLeft /\ Regular /\ Independent =>
    VectorResult(F, Erased, vectorized) = ScalarResult(F)
=============================================================================
